----------------------------- MODULE AccountData -----------------------------
(***************************************************************************)
(* Trades and positions of one account: OrderEntry composed with the       *)
(* sessions of the private websocket (gateway/drop_copy.cpp) that ask it.  *)
(* A session subscribes to a channel, asks for what the channel cannot     *)
(* push, waits until a request was committed, and goes on to the next.     *)
(* The exchange composes an answer some time before it arrives, and goes   *)
(* on filling orders; a request may outlive the session that made it.      *)
(*                                                                         *)
(* DropCopy has the sessions in detail; the states that ask for orders and *)
(* the login have no part here.  Fill n is the n-th of the account, and a  *)
(* position is the one after a number of fills.  A position is passed on   *)
(* as it comes, whichever way, and what comes later may be older: an       *)
(* answer has whole seconds and a push milliseconds, so the times of the   *)
(* two do not order them.                                                  *)
(***************************************************************************)
EXTENDS OrderEntry, Integers, Sequences

CONSTANTS
    Sizes,        \* the position after each fill, negative if it is short
    External,     \* the fills of orders that are not the gateway's
    Earlier,      \* the fills before the start, older than TradesLookback
    AsksAgain,    \* core::limit::Request sends again what is in flight
    MaxSessions   \* bound: how often the websocket is opened

ASSUME AccountDataAssumption ==
    /\ Sizes \in Seq(Int)
    /\ External \subseteq DOMAIN Sizes
    /\ Earlier \in 0 .. Len(Sizes)
    /\ AsksAgain \in BOOLEAN
    /\ MaxSessions \in Nat

VARIABLES
    stage,       \* download_.state() of the websocket
    sessions,    \* how often it was opened
    inbox,       \* frames to the websocket: fill 0 acknowledges the channel
    subscribed,  \* the channels the exchange pushes
    executed,    \* the fills there are
    old,         \* those that are older than TradesLookback
    composed,    \* the answer the exchange has composed for a request
    known,       \* the fills that were dispatched
    position,    \* the last that was dispatched of each type of update
    failed       \* the kinds whose last answer was an error

session == <<stage, sessions, inbox, subscribed>>
venue == <<executed, old>>
reported == <<known, position, failed>>

allVars == <<vars, session, venue, composed, reported>>

-----------------------------------------------------------------------------
(* The states of the download, and what they subscribe or ask for.         *)

SubscribeState ==
    [SUBSCRIBE_BALANCES |-> "balances", SUBSCRIBE_POSITIONS |-> "positions",
     SUBSCRIBE_TRADES |-> "trades"]

RequestState ==
    [GET_BALANCES |-> "balances", GET_POSITIONS |-> "positions", GET_TRADES |-> "trades"]

(* Mutant: trades are asked for before they are subscribed.                *)
AskFirst ==
    [UNDEFINED |-> "SUBSCRIBE_BALANCES", SUBSCRIBE_BALANCES |-> "GET_BALANCES",
     GET_BALANCES |-> "SUBSCRIBE_POSITIONS", SUBSCRIBE_POSITIONS |-> "GET_POSITIONS",
     GET_POSITIONS |-> "GET_TRADES", GET_TRADES |-> "SUBSCRIBE_TRADES",
     SUBSCRIBE_TRADES |-> "DONE"]

(* Mutant: positions are asked for before they are subscribed.             *)
AskPositionsFirst ==
    [UNDEFINED |-> "SUBSCRIBE_BALANCES", SUBSCRIBE_BALANCES |-> "GET_BALANCES",
     GET_BALANCES |-> "GET_POSITIONS", GET_POSITIONS |-> "SUBSCRIBE_POSITIONS",
     SUBSCRIBE_POSITIONS |-> "SUBSCRIBE_TRADES", SUBSCRIBE_TRADES |-> "GET_TRADES",
     GET_TRADES |-> "DONE"]

Successor ==
    [UNDEFINED |-> "SUBSCRIBE_BALANCES", SUBSCRIBE_BALANCES |-> "GET_BALANCES",
     GET_BALANCES |-> "SUBSCRIBE_POSITIONS", SUBSCRIBE_POSITIONS |-> "GET_POSITIONS",
     GET_POSITIONS |-> "SUBSCRIBE_TRADES", SUBSCRIBE_TRADES |-> "GET_TRADES",
     GET_TRADES |-> "DONE"]

(* The position after n fills.                                             *)
Size(n) == IF n = 0 THEN 0 ELSE Sizes[n]

NotNegative(n) == IF n < 0 THEN 0 ELSE n

(* Mutant: both quantities are taken from the size.                        *)
SameSign(n) == [at |-> n, long |-> NotNegative(Size(n)), short |-> NotNegative(Size(n))]

(* A position has a long and a short quantity.                             *)
PositionUpdate(n) ==
    [at |-> n, long |-> NotNegative(Size(n)), short |-> NotNegative(-Size(n))]

(* Fills of orders whose text does not begin with "t-" are left out.       *)
TradeUpdates(S) == S \ External

(* The update types: the answers of REST and the pushes of the websocket.  *)
Sources == {"SNAPSHOT", "INCREMENTAL"}

(* Every position is dispatched as it comes, older or newer than the last. *)
Dispatch(source, n) == position' = [position EXCEPT ![source] = PositionUpdate(n)]

-----------------------------------------------------------------------------
DataInit ==
    /\ Init
    /\ stage = "UNDEFINED" /\ sessions = 0 /\ inbox = <<>> /\ subscribed = {}
    /\ executed = Earlier /\ old = Earlier
    /\ composed = [k \in Kinds |-> <<>>]
    /\ known = {} /\ position = [s \in Sources |-> PositionUpdate(0)] /\ failed = {}

(* Entering a state that asks is the only other thing that happens.        *)
Enter(t) ==
    /\ stage' = t
    /\ IF t \in DOMAIN RequestState
       THEN LET k == RequestState[t] IN Ask(k) /\ (AsksAgain => k \in requested')
       ELSE UNCHANGED vars

(* The socket is there and the login was answered.                         *)
TradeLogin ==
    /\ stage = "UNDEFINED" /\ sessions < MaxSessions
    /\ sessions' = sessions + 1
    /\ Enter(Successor["UNDEFINED"])
    /\ UNCHANGED <<inbox, subscribed, venue, composed, reported>>

SocketDisconnected ==
    /\ stage # "UNDEFINED" /\ sessions < MaxSessions
    /\ stage' = "UNDEFINED" /\ inbox' = <<>> /\ subscribed' = {}
    /\ UNCHANGED <<vars, sessions, venue, composed, reported>>

Arrived(c) == inbox # <<>> /\ Head(inbox).channel = c

TradeSubscribe ==
    /\ inbox # <<>> /\ Head(inbox).fill = 0
    /\ inbox' = Tail(inbox)
    /\ Enter(Successor[stage])
    /\ UNCHANGED <<sessions, subscribed, venue, composed, reported>>

(* check_request_queue: whatever was committed counts as the answer.       *)
CheckRequestQueue ==
    /\ stage \in DOMAIN RequestState
    /\ RequestState[stage] \in responded
    /\ Enter(Successor[stage])
    /\ UNCHANGED <<sessions, inbox, subscribed, venue, composed, reported>>

TradePositions ==
    /\ Arrived("positions") /\ Head(inbox).fill # 0
    /\ inbox' = Tail(inbox)
    /\ Dispatch("INCREMENTAL", Head(inbox).fill)
    /\ UNCHANGED <<vars, stage, sessions, subscribed, venue, composed, known, failed>>

TradeTrades ==
    /\ Arrived("trades") /\ Head(inbox).fill # 0
    /\ inbox' = Tail(inbox)
    /\ known' = known \cup TradeUpdates({Head(inbox).fill})
    /\ UNCHANGED <<vars, stage, sessions, subscribed, venue, composed, position, failed>>

-----------------------------------------------------------------------------
(* Answers to the REST requests.                                           *)

(* Accounts are only logged.                                               *)
Accounts == UNCHANGED <<known, position>>

Positions(upto) == Dispatch("SNAPSHOT", upto) /\ UNCHANGED known

UserTrades(since, upto) ==
    /\ known' = known \cup TradeUpdates(since + 1 .. upto)
    /\ UNCHANGED position

Answered(k) ==
    /\ composed[k] # <<>>
    /\ AckSuccess(k)
    /\ composed' = [composed EXCEPT ![k] = <<>>]
    /\ failed' = failed \ {k}
    /\ \/ k = "balances" /\ Accounts
       \/ k = "positions" /\ Positions(composed[k][2])
       \/ k = "trades" /\ UserTrades(composed[k][1], composed[k][2])
    /\ UNCHANGED <<session, venue>>

NotAnswered(k) ==
    /\ AckError(k)
    /\ composed' = [composed EXCEPT ![k] = <<>>]
    /\ failed' = failed \cup {k}
    /\ UNCHANGED <<session, venue, known, position>>

(* The connection and the timer of OrderEntry.                             *)
RestStep(A) ==
    /\ A
    /\ UNCHANGED <<session, venue, composed, reported>>

-----------------------------------------------------------------------------
(* The exchange.                                                           *)

ExchangeSubscribe ==
    /\ stage \in DOMAIN SubscribeState
    /\ LET c == SubscribeState[stage] IN
          /\ c \notin subscribed
          /\ subscribed' = subscribed \cup {c}
          /\ inbox' = Append(inbox, [channel |-> c, fill |-> 0])
    /\ UNCHANGED <<vars, stage, sessions, venue, composed, reported>>

(* Whatever is subscribed is pushed.                                       *)
Pushes(c, n) == IF c \in subscribed THEN <<[channel |-> c, fill |-> n]>> ELSE <<>>

ExchangeFill ==
    /\ executed < Len(Sizes)
    /\ executed' = executed + 1
    /\ inbox' = inbox \o Pushes("trades", executed') \o Pushes("positions", executed')
    /\ UNCHANGED <<vars, stage, sessions, subscribed, old, composed, reported>>

(* A fill becomes older than TradesLookback.                               *)
Age ==
    /\ old < executed
    /\ old' = old + 1
    /\ UNCHANGED <<vars, session, executed, composed, reported>>

(* The trades since the time that was asked for, or all up to now.         *)
ExchangeAnswer(k) ==
    /\ k \in in_flight /\ composed[k] = <<>>
    /\ composed' =
          [composed EXCEPT ![k] = <<IF lookback > TradesLookback THEN 0 ELSE old, executed>>]
    /\ UNCHANGED <<vars, session, venue, reported>>

DataNext ==
    \/ TradeLogin \/ SocketDisconnected \/ TradeSubscribe \/ CheckRequestQueue
    \/ TradePositions \/ TradeTrades
    \/ RestStep(Connected) \/ RestStep(Disconnected)
    \/ RestStep(Timer) \/ RestStep(Interval) \/ RestStep(Queue)
    \/ ExchangeSubscribe \/ ExchangeFill \/ Age
    \/ \E k \in Kinds : Answered(k) \/ NotAnswered(k) \/ ExchangeAnswer(k)

DataSpec == DataInit /\ [][DataNext]_allVars

(* As in OrderEntry.  The sessions end and the websocket asks when it may. *)
DataFairSpec ==
    /\ DataSpec
    /\ WF_allVars(RestStep(Connected))
    /\ WF_allVars(RestStep(Timer))
    /\ WF_allVars(RestStep(Interval))
    /\ \A k \in Kinds : WF_allVars(Answered(k) \/ NotAnswered(k))

-----------------------------------------------------------------------------
(* The session is complete and nothing is under way.                       *)
Settled == stage = "DONE" /\ inbox = <<>> /\ requested = {} /\ in_flight = {}

(* Once the session is complete every fill of the gateway's orders was     *)
(* dispatched: pushed, or downloaded although the answer was composed at   *)
(* another time and perhaps for an earlier session (commit does not know   *)
(* which request it answers).  Those of before the start count if the flag *)
(* reaches back to them; a fill that became too old to be downloaded while *)
(* the websocket was down does not.                                        *)
FillsAddUp ==
    (Settled /\ "trades" \notin failed) =>
        \A f \in TradeUpdates(1 .. executed) :
            (f > old \/ (f <= Earlier /\ RestartLookback > TradesLookback)) => f \in known

(* Once the session is complete the account's position is the last one     *)
(* that the answers had or the last one that was pushed, with the sign it  *)
(* has: no change is missed by both, whatever was pushed or lost while the *)
(* answer was under way.  Which of the two it is this does not say: an     *)
(* answer may come after a push that is newer, and the code does not       *)
(* compare them.                                                           *)
PositionFollows ==
    (Settled /\ "positions" \notin failed) =>
        \E s \in Sources : /\ position[s].at = executed
                           /\ position[s].long - position[s].short = Size(executed)
=============================================================================
