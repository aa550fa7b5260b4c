------------------------------ MODULE Throttle ------------------------------
(***************************************************************************)
(* The rate limit of the exchange as the REST connections learn it         *)
(* (tools/throttle.cpp).  One Throttle is shared by the connections of all *)
(* streams (gateway/shared.hpp): it sees the headers and the end of every  *)
(* response, in the order they are parsed, and the client holds requests   *)
(* back while suspend_until_ is in the future.                             *)
(*                                                                         *)
(* Time is in seconds.  suspend_until_ is on the clock of the system, the  *)
(* headers are on the clock of the world, which is Offset ahead.           *)
(***************************************************************************)
EXTENDS Integers, Sequences

CONSTANTS
    Connections,     \* the REST connections
    Enabled,         \* flag experimental.enable_rate_limit
    DefaultBackoff,  \* DEFAULT_BACKOFF
    BlockedBackoff,  \* BLOCKED_BACKOFF
    Offset,          \* the time of the world when the system started
    Limit,           \* requests the exchange allows in a window
    Window,          \* the length of a window
    MaxTime          \* bound: the time of the system

ASSUME ThrottleAssumption ==
    /\ Enabled \in BOOLEAN
    /\ DefaultBackoff \in Nat \ {0}
    /\ BlockedBackoff \in Nat
    /\ Offset \in Nat
    /\ Limit \in Nat
    /\ Window \in Nat \ {0}
    /\ MaxTime \in Nat

VARIABLES
    now,              \* clock::get_system
    requests_remain,  \* params_.requests_remain
    reset_timestamp,  \* params_.reset_timestamp
    suspend_until,    \* suspend_until_, 0 when not suspended
    response,         \* what is still to come on each connection
    used,             \* requests the exchange counted in this window
    blocked_until     \* history: when the back-off of the last 403 ends

vars == <<now, requests_remain, reset_timestamp, suspend_until, response, used,
          blocked_until>>

params == <<requests_remain, reset_timestamp>>

Realtime == now + Offset

Later(t, u) == IF t < u THEN u ELSE t

-----------------------------------------------------------------------------
(* A request becomes a response: its headers in some order, then its end.  *)

Status == {"OK", "FORBIDDEN", "TOO_MANY_REQUESTS"}

Requested    == [part |-> "request"]
Remain(n)    == [part |-> "requests_remain", value |-> n]
ResetAt(t)   == [part |-> "reset_timestamp", value |-> t]
EndOf(s)     == [part |-> "end", status |-> s]

Part ==
    {Requested}
    \cup [part : {"requests_remain", "reset_timestamp"}, value : Nat]
    \cup [part : {"end"}, status : Status]

WindowEnd == (Realtime \div Window + 1) * Window

Arrived(c, part) == response[c] # <<>> /\ Head(response[c]).part = part

-----------------------------------------------------------------------------
(* Mutant: a new suspension replaces the one there is.                     *)
ShorterSuspension(remain, reset) ==
    IF ~Enabled THEN suspend_until
    ELSE IF remain > 0 \/ reset = 0 THEN 0
    ELSE IF Realtime < reset THEN now + (reset - Realtime)
    ELSE now + DefaultBackoff

(* update_suspend_until, with the limit as it is now known.                *)
Suspension(remain, reset) ==
    IF ~Enabled THEN suspend_until
    ELSE IF remain > 0 \/ reset = 0 THEN 0
    ELSE IF Realtime < reset THEN Later(suspend_until, now + (reset - Realtime))
    ELSE Later(suspend_until, now + DefaultBackoff)

Init ==
    /\ now = 1
    /\ requests_remain = 0 /\ reset_timestamp = 0 /\ suspend_until = 0
    /\ response = [c \in Connections |-> <<>>]
    /\ used = 0
    /\ blocked_until = 0

(* Mutant: the reset header does not move the suspension.                  *)
KeepSuspension(c) ==
    /\ Arrived(c, "reset_timestamp")
    /\ reset_timestamp' = Head(response[c]).value
    /\ response' = [response EXCEPT ![c] = Tail(@)]
    /\ UNCHANGED <<now, requests_remain, suspend_until, used, blocked_until>>

(* A header moves the suspension only if it says something new.            *)
HeaderReset(c) ==
    /\ Arrived(c, "reset_timestamp")
    /\ reset_timestamp' = Head(response[c]).value
    /\ suspend_until' = IF reset_timestamp' # reset_timestamp
                        THEN Suspension(requests_remain, reset_timestamp')
                        ELSE suspend_until
    /\ response' = [response EXCEPT ![c] = Tail(@)]
    /\ UNCHANGED <<now, requests_remain, used, blocked_until>>

HeaderRemain(c) ==
    /\ Arrived(c, "requests_remain")
    /\ requests_remain' = Head(response[c]).value
    /\ suspend_until' = IF requests_remain' # requests_remain
                        THEN Suspension(requests_remain', reset_timestamp)
                        ELSE suspend_until
    /\ response' = [response EXCEPT ![c] = Tail(@)]
    /\ UNCHANGED <<now, reset_timestamp, used, blocked_until>>

(* A 403 is very serious.  A 429 only counts if nothing is suspended.      *)
BackOff(s) ==
    CASE s = "FORBIDDEN" -> Later(suspend_until, now + BlockedBackoff)
      [] s = "TOO_MANY_REQUESTS" /\ suspend_until = 0 -> now + DefaultBackoff
      [] OTHER -> suspend_until

MessageEnd(c) ==
    /\ Arrived(c, "end")
    /\ LET s == Head(response[c]).status
       IN  /\ suspend_until' = IF Enabled THEN BackOff(s) ELSE suspend_until
           /\ blocked_until' = IF Enabled /\ s = "FORBIDDEN"
                               THEN now + BlockedBackoff ELSE blocked_until
    /\ response' = [response EXCEPT ![c] = Tail(@)]
    /\ UNCHANGED <<now, params, used>>

(* Mutant: the budget is spent on sending, whether there is any or not.    *)
SpendBudget(c) ==
    /\ response[c] = <<>>
    /\ now >= suspend_until
    /\ requests_remain' = requests_remain - 1
    /\ response' = [response EXCEPT ![c] = <<Requested>>]
    /\ UNCHANGED <<now, reset_timestamp, suspend_until, used, blocked_until>>

(* The client sends the next request when it is not held back.             *)
Send(c) ==
    /\ response[c] = <<>>
    /\ now >= suspend_until
    /\ response' = [response EXCEPT ![c] = <<Requested>>]
    /\ UNCHANGED <<now, params, suspend_until, used, blocked_until>>

(* A connection may be lost at any moment, and what it was to bring.       *)
Disconnected(c) ==
    /\ response[c] # <<>>
    /\ response' = [response EXCEPT ![c] = <<>>]
    /\ UNCHANGED <<now, params, suspend_until, used, blocked_until>>

(***************************************************************************)
(* The exchange counts requests per window, and says what remains of it;   *)
(* its firewall may refuse any of them and then says nothing of the limit. *)
(***************************************************************************)
Answer(c, headers, s) ==
    response' = [response EXCEPT ![c] = Append(headers, EndOf(s))]

ExchangeAnswer(c) ==
    /\ Arrived(c, "request")
    /\ used' = IF used < Limit THEN used + 1 ELSE used
    /\ LET s == IF used < Limit THEN "OK" ELSE "TOO_MANY_REQUESTS"
           n == Remain(Limit - used')
           t == ResetAt(WindowEnd)
       IN  Answer(c, <<n, t>>, s) \/ Answer(c, <<t, n>>, s)
    /\ UNCHANGED <<now, params, suspend_until, blocked_until>>

ExchangeBlock(c) ==
    /\ Arrived(c, "request")
    /\ Answer(c, <<>>, "FORBIDDEN")
    /\ UNCHANGED <<now, params, suspend_until, used, blocked_until>>

Tick ==
    /\ now < MaxTime
    /\ now' = now + 1
    /\ used' = IF (Realtime + 1) % Window = 0 THEN 0 ELSE used
    /\ UNCHANGED <<params, suspend_until, response, blocked_until>>

Next ==
    \/ Tick
    \/ \E c \in Connections :
          \/ Send(c) \/ HeaderReset(c) \/ HeaderRemain(c) \/ MessageEnd(c)
          \/ Disconnected(c) \/ ExchangeAnswer(c) \/ ExchangeBlock(c)

Spec == Init /\ [][Next]_vars

-----------------------------------------------------------------------------
(* Every variable has its type.                                            *)
TypeOK ==
    /\ now \in Nat
    /\ requests_remain \in Nat
    /\ reset_timestamp \in Nat
    /\ suspend_until \in Nat
    /\ response \in [Connections -> Seq(Part)]
    /\ used \in 0..Limit
    /\ blocked_until \in Nat

(* When the last the connections heard of the limit, whichever of them it  *)
(* was and however its headers were ordered, is that nothing remains, then *)
(* requests are held back at least until the window ends.                  *)
ExhaustedIsSuspended ==
    (Enabled /\ requests_remain = 0 /\ reset_timestamp # 0)
        => suspend_until + Offset >= reset_timestamp

(* A suspension is only cut short by news of requests that remain.         *)
CutShortByNews ==
    [][suspend_until' < suspend_until =>
          (requests_remain' > 0 \/ reset_timestamp' = 0)]_vars

(* "BLOCKED_BACKOFF = 10min; // note! very serious" (throttle.cpp:22):     *)
(* after a 403 the gateway backs off for that long.                        *)
BlockedBacksOff == now < blocked_until => suspend_until >= blocked_until
=============================================================================
