----------------------------- MODULE OrderEntry -----------------------------
(***************************************************************************)
(* The private REST connection of one account (gateway/order_entry.cpp),   *)
(* the requests it does on behalf of the private websocket                 *)
(* (gateway/request.cpp), and the rate limiter it shares with the public   *)
(* REST connection, whose timer comes first (gateway/controller.cpp).      *)
(*                                                                         *)
(* core::limit::Request and core::limit::RateLimiter are not in the        *)
(* repository and are modelled from how they are used.                     *)
(***************************************************************************)
EXTENDS Naturals, FiniteSets

CONSTANTS
    RequestLimit,     \* flag misc.request_limit, per interval
    TradesLookback,   \* flag download.trades_lookback
    RestartLookback,  \* flag download.trades_lookback_on_restart, 0 if not set
    MaxAsks,          \* bound: how often the websocket asks
    MaxBacklog,       \* bound: what the public connection may ask for
    MaxConnects       \* bound: how often the connection is made

ASSUME OrderEntryAssumption ==
    /\ RequestLimit \in Nat \ {0}
    /\ TradesLookback \in Nat \ {0}
    /\ RestartLookback \in Nat
    /\ MaxAsks \in Nat
    /\ MaxBacklog \in Nat
    /\ MaxConnects \in Nat

Kinds == {"balances", "positions", "trades"}

VARIABLES
    connection_status,  \* connection_status_
    connects,           \* how often the connection was made
    requested,          \* Request: asked for and not yet sent
    in_flight,          \* Request: sent and without an answer
    responded,          \* Request: has_response
    asks,               \* how often the websocket asked
    first,              \* download_trades_is_first_
    lookback,           \* the lookback of the trades request that was sent
    covered,            \* history: the longest lookback that was answered
    backlog,            \* the requests in the queues of the public connection
    asked,              \* how many it was asked for
    budget              \* what rate_limiter still allows in this interval

vars == <<connection_status, connects, requested, in_flight, responded, asks,
          first, lookback, covered, backlog, asked, budget>>

request == <<requested, in_flight, responded, asks>>
connection == <<connection_status, connects>>
trades == <<first, lookback, covered>>
limiter == <<backlog, asked, budget>>

-----------------------------------------------------------------------------
Init ==
    /\ connection_status = "DISCONNECTED" /\ connects = 0
    /\ requested = {} /\ in_flight = {} /\ responded = {} /\ asks = 0
    /\ first = TRUE /\ lookback = 0 /\ covered = 0
    /\ backlog = 0 /\ asked = 0 /\ budget = RequestLimit

(* The connection is ready as soon as it is made.                          *)
Connected ==
    /\ connection_status = "DISCONNECTED"
    /\ connects < MaxConnects
    /\ connection_status' = "READY" /\ connects' = connects + 1
    /\ UNCHANGED <<request, trades, limiter>>

(* What is in flight gets an error, now or after the timeout.              *)
Disconnected ==
    /\ connection_status = "READY"
    /\ connects < MaxConnects
    /\ connection_status' = "DISCONNECTED"
    /\ UNCHANGED <<connects, request, trades, limiter>>

(* The websocket asks, for the first time or again in a later session.     *)
(* What is in flight may or may not be sent once more.                     *)
Ask(k) ==
    /\ asks < MaxAsks
    /\ asks' = asks + 1
    /\ responded' = responded \ {k}
    /\ \/ requested' = requested \cup {k}
       \/ k \in in_flight /\ requested' = requested
    /\ UNCHANGED <<connection, in_flight, trades, limiter>>

(* Mutant: every request is checked on its own.                            *)
NothingElse(k) == k \notin in_flight

(* Request::ready: one request at a time, whichever it is.                 *)
Ready(k) == in_flight = {}

(* get_download_trades_lookback                                            *)
Lookback == IF first /\ RestartLookback # 0 THEN RestartLookback ELSE TradesLookback

(* check_request_queue checks balances, positions and trades in turn.      *)
Sendable(k) ==
    /\ k \in requested
    /\ Ready(k)
    /\ k = "positions" => "balances" \notin requested \/ ~Ready("balances")
    /\ k = "trades" => \A j \in Kinds \ {k} : j \notin requested \/ ~Ready(j)

Sent(k) ==
    /\ requested' = requested \ {k}
    /\ in_flight' = in_flight \cup {k}
    /\ lookback' = IF k = "trades" THEN Lookback ELSE lookback
    /\ UNCHANGED <<responded, asks, first, covered>>

(* Mutant: the public connection does not look at the limit.               *)
Unlimited == {0, backlog}

(* What the public connection sends, if it is ready: what is allowed.      *)
PublicRequests == {0, IF backlog < budget THEN backlog ELSE budget}

(* The timer of the controller: first the public connection sends what the *)
(* limiter allows, then the private one may send with what that left.      *)
Timer ==
    /\ \E n \in PublicRequests :
          LET may == connection_status = "READY" /\ budget - n > 0
          IN  /\ backlog' = backlog - n
              /\ \/ \E k \in Kinds :
                       may /\ Sendable(k) /\ Sent(k) /\ budget' = budget - n - 1
                 \/ /\ ~(may /\ \E k \in Kinds : Sendable(k))
                    /\ budget' = budget - n
                    /\ UNCHANGED <<request, trades>>
    /\ UNCHANGED <<connection, asked>>

(* The interval of the limiter ends.                                       *)
Interval ==
    /\ budget < RequestLimit
    /\ budget' = RequestLimit
    /\ UNCHANGED <<connection, request, trades, backlog, asked>>

(* Market data streams queue snapshots for the public connection.          *)
Queue ==
    /\ asked < MaxBacklog
    /\ asked' = asked + 1 /\ backlog' = backlog + 1
    /\ UNCHANGED <<connection, request, trades, budget>>

Longest(a, b) == IF a < b THEN b ELSE a

(* The answer is processed.  Only trades that came count as the first.     *)
AckSuccess(k) ==
    /\ k \in in_flight
    /\ connection_status = "READY"
    /\ in_flight' = in_flight \ {k} /\ responded' = responded \cup {k}
    /\ IF k = "trades"
       THEN first' = FALSE /\ covered' = Longest(covered, lookback)
       ELSE UNCHANGED <<first, covered>>
    /\ UNCHANGED <<connection, requested, asks, lookback, limiter>>

(* Mutants: the answer to the first trades request is an answer, or an     *)
(* error is not committed.                                                 *)
FirstOnce(k) ==
    /\ k \in in_flight
    /\ in_flight' = in_flight \ {k} /\ responded' = responded \cup {k}
    /\ first' = IF k = "trades" THEN FALSE ELSE first
    /\ UNCHANGED <<connection, requested, asks, lookback, covered, limiter>>

NotCommitted(k) ==
    /\ k \in in_flight
    /\ in_flight' = in_flight \ {k}
    /\ UNCHANGED <<connection, requested, responded, asks, trades, limiter>>

(* An error, of the exchange or the network, is committed just the same.   *)
AckError(k) ==
    /\ k \in in_flight
    /\ in_flight' = in_flight \ {k} /\ responded' = responded \cup {k}
    /\ UNCHANGED <<connection, requested, asks, trades, limiter>>

Next ==
    \/ Connected \/ Disconnected \/ Timer \/ Interval \/ Queue
    \/ \E k \in Kinds : Ask(k) \/ AckSuccess(k) \/ AckError(k)

Spec == Init /\ [][Next]_vars

(***************************************************************************)
(* The event loop fires the timer for ever, the connection is made again,  *)
(* the interval of the limiter ends, and every request is answered, if     *)
(* only by the timeout.  The websocket asks when it likes but not for      *)
(* ever: balances that are asked for again and again, by sessions that     *)
(* fail again and again, would keep the other kinds waiting.               *)
(***************************************************************************)
Fairness ==
    /\ WF_vars(Connected)
    /\ WF_vars(Timer)
    /\ WF_vars(Interval)
    /\ \A k \in Kinds : WF_vars(AckSuccess(k) \/ AckError(k))

FairSpec == Spec /\ Fairness

-----------------------------------------------------------------------------
(* Every variable has its type.                                            *)
TypeOK ==
    /\ connection_status \in {"DISCONNECTED", "READY"}
    /\ connects \in 0..MaxConnects
    /\ requested \subseteq Kinds
    /\ in_flight \subseteq Kinds
    /\ responded \subseteq Kinds
    /\ asks \in 0..MaxAsks
    /\ first \in BOOLEAN
    /\ lookback \in Nat
    /\ covered \in Nat
    /\ backlog \in Nat
    /\ asked \in 0..MaxBacklog
    /\ budget \in 0..RequestLimit

(* The account never has two signed requests under way, though three kinds *)
(* are asked for at any time and errors, timeouts and reconnects come      *)
(* between.                                                                *)
OneAtATime == Cardinality(in_flight) <= 1

(* Whatever fails, the first trades that are downloaded after a restart    *)
(* reach back as far as the flag says.                                     *)
RestartCovered ==
    (covered # 0 /\ RestartLookback > TradesLookback) => covered = RestartLookback

(* The kinds as the websocket sees them.                                   *)
Status ==
    [k \in Kinds |-> IF k \in responded THEN "done"
                     ELSE IF k \in requested \cup in_flight THEN "pending"
                     ELSE "idle"]

Service == INSTANCE RequestService WITH status <- Status

(* What the websocket asks for is committed in the end, though errors are  *)
(* never repeated and the public connection goes first with the limiter.   *)
ServesRequests == Service!FairSpec
=============================================================================
