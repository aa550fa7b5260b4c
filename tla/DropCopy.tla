------------------------------ MODULE DropCopy ------------------------------
(***************************************************************************)
(* The private websocket of one account (gateway/drop_copy.cpp): login,    *)
(* the download sequence, the search for stale orders, order requests and  *)
(* the order updates that reach the order management system (OMS).         *)
(*                                                                         *)
(* Every handler of the class runs to completion on one thread, so it is   *)
(* one action.  The socket is a FIFO queue of frames in each direction;    *)
(* both are lost when the socket goes down, at any moment.  The exchange,  *)
(* the OMS, core::Download2 and core::limit::Request are not in the        *)
(* repository and are modelled from how the class uses them.               *)
(***************************************************************************)
EXTENDS Naturals, Sequences, FiniteSets, FrameCounts

CONSTANTS
    Orders,          \* client order ids
    RetryLogon,      \* flag experimental.retry_logon
    TradesLookback,  \* flag download.trades_lookback is not zero
    Faults,          \* the requests the exchange may refuse
    MaxSessions,     \* bound: how often the socket is opened
    MaxQueries       \* bound: status queries sent by the timer and unanswered

ASSUME DropCopyAssumption ==
    /\ IsFiniteSet(Orders)
    /\ RetryLogon \in BOOLEAN
    /\ TradesLookback \in BOOLEAN
    /\ Faults \subseteq {"login", "subscribe", "order_list", "order_status"}
    /\ MaxSessions \in Nat
    /\ MaxQueries \in Nat

VARIABLES
    socket,             \* the connection as the exchange sees it
    sessions,           \* how often it was opened
    connection_status,  \* connection_status_, as published
    ready,              \* ready_
    state,              \* download_.state()
    counter,            \* download_stale_orders_counter_
    request,            \* Request::balances, positions and trades
    oms,                \* the status the OMS has of each order
    stale,              \* the orders get_all_stale_orders returns
    outbox, inbox,      \* frames to and from the exchange
    exch,               \* the orders at the exchange
    subscribed,         \* the channels the exchange pushes on this socket
    fatal               \* the process ended, and where

vars == <<socket, sessions, connection_status, ready, state, counter, request,
          oms, stale, outbox, inbox, exch, subscribed, fatal>>

gateway == <<connection_status, ready, state, counter, request>>
omsVars == <<oms, stale>>
wire    == <<outbox, inbox>>
venue   == <<exch, subscribed>>

Channels == {"balances", "positions", "orders", "usertrades"}

Requests == {"balances", "positions", "trades"}

State == {"UNDEFINED", "SUBSCRIBE_BALANCES", "GET_BALANCES",
          "SUBSCRIBE_POSITIONS", "GET_POSITIONS", "SUBSCRIBE_ORDERS",
          "GET_OPEN_ORDERS", "GET_STALE_ORDERS", "SUBSCRIBE_TRADES",
          "GET_TRADES", "DONE"}

OrderStatus == {"UNDEFINED", "SENT", "WORKING", "COMPLETED", "REJECTED"}

Live == {"SENT", "WORKING"}

ExchangeStatus == {"none", "open", "closed"}

-----------------------------------------------------------------------------
(* Frames.                                                                 *)

Login          == [type |-> "login"]
Subscribe(c)   == [type |-> "subscribe", channel |-> c]
OrderList      == [type |-> "order_list"]
OrderQuery(o)  == [type |-> "order_status", order |-> o]
OrderPlace(o)  == [type |-> "order_place", order |-> o]
OrderCancel(o) == [type |-> "order_cancel", order |-> o]

LoginAck(s)          == [type |-> "login", status |-> s]
SubscribeAck(c, s)   == [type |-> "subscribe", channel |-> c, status |-> s]
OrderListAck(S)      == [type |-> "order_list", open |-> S]
OrderQueryAck(o, s)  == [type |-> "order_status", order |-> o, status |-> s]
OrderPlaceAck(o, s)  == [type |-> "order_place", order |-> o, status |-> s]
OrderCancelAck(o, s) == [type |-> "order_cancel", order |-> o, status |-> s]
OrderUpdate(o, s)    == [type |-> "orders", order |-> o, status |-> s]

ToExchange ==
    {Login, OrderList}
    \cup {Subscribe(c) : c \in Channels}
    \cup UNION {{OrderQuery(o), OrderPlace(o), OrderCancel(o)} : o \in Orders}

ToGateway ==
    {LoginAck(s) : s \in {"success", "fail"}}
    \cup {SubscribeAck(c, s) : c \in Channels, s \in {"success", "fail"}}
    \cup {OrderListAck(S) : S \in SUBSET Orders}
    \cup {OrderQueryAck(o, s) : o \in Orders, s \in ExchangeStatus \cup {"error"}}
    \cup {OrderPlaceAck(o, s) : o \in Orders,
                                s \in {"received", "open", "closed", "rejected"}}
    \cup {OrderCancelAck(o, s) : o \in Orders, s \in {"closed", "rejected"}}
    \cup {OrderUpdate(o, s) : o \in Orders, s \in {"open", "closed"}}

(* log::fatal and a failed assertion end the process.                      *)
Running == fatal = "no"

Arrived(type) ==
    /\ Running
    /\ socket = "up"
    /\ inbox # <<>>
    /\ Head(inbox).type = type

Requested(type) ==
    /\ Running
    /\ socket = "up"
    /\ outbox # <<>>
    /\ Head(outbox).type = type

(* A frame about order o that one side has sent and the other not handled. *)
InFlight(o) ==
    \/ \E i \in DOMAIN outbox : "order" \in DOMAIN outbox[i] /\ outbox[i].order = o
    \/ \E i \in DOMAIN inbox :
          \/ "order" \in DOMAIN inbox[i] /\ inbox[i].order = o
          \/ inbox[i].type = "order_list" /\ o \in inbox[i].open

-----------------------------------------------------------------------------
(* What create_order_update and the OMS make of an order.                  *)

(* Mutant: the status of the exchange is stored as it is.                  *)
RawStatus(s) == s

(* get_order_status: finish_as decides, an unfinished order must be open.  *)
StatusOf(s) == IF s = "open" THEN "WORKING" ELSE "COMPLETED"

(* Mutant: only orders the OMS has are updated.                            *)
ReportKnown(S, status) ==
    LET known == {o \in S : oms[o] # "UNDEFINED"}
    IN  /\ oms' = [o \in Orders |-> IF o \in known THEN status ELSE oms[o]]
        /\ stale' = stale \ known

(* An update replaces what the OMS knew, and the order is no longer stale. *)
Report(S, status) ==
    /\ oms' = [o \in Orders |-> IF o \in S THEN status ELSE oms[o]]
    /\ stale' = stale \ S

-----------------------------------------------------------------------------
(* The download sequence.                                                  *)

(* Mutant: the open orders are listed before their updates are subscribed. *)
ListFirst ==
    [UNDEFINED           |-> "SUBSCRIBE_BALANCES",
     SUBSCRIBE_BALANCES  |-> "GET_BALANCES",
     GET_BALANCES        |-> "SUBSCRIBE_POSITIONS",
     SUBSCRIBE_POSITIONS |-> "GET_POSITIONS",
     GET_POSITIONS       |-> "GET_OPEN_ORDERS",
     GET_OPEN_ORDERS     |-> "GET_STALE_ORDERS",
     GET_STALE_ORDERS    |-> "SUBSCRIBE_ORDERS",
     SUBSCRIBE_ORDERS    |-> "SUBSCRIBE_TRADES",
     SUBSCRIBE_TRADES    |-> "GET_TRADES",
     GET_TRADES          |-> "DONE",
     DONE                |-> "DONE"]

Successor ==
    [UNDEFINED           |-> "SUBSCRIBE_BALANCES",
     SUBSCRIBE_BALANCES  |-> "GET_BALANCES",
     GET_BALANCES        |-> "SUBSCRIBE_POSITIONS",
     SUBSCRIBE_POSITIONS |-> "GET_POSITIONS",
     GET_POSITIONS       |-> "SUBSCRIBE_ORDERS",
     SUBSCRIBE_ORDERS    |-> "GET_OPEN_ORDERS",
     GET_OPEN_ORDERS     |-> "GET_STALE_ORDERS",
     GET_STALE_ORDERS    |-> "SUBSCRIBE_TRADES",
     SUBSCRIBE_TRADES    |-> "GET_TRADES",
     GET_TRADES          |-> "DONE",
     DONE                |-> "DONE"]

(* Mutant: the download does not wait for the status queries.              *)
NeverWaits(s, n) ==
    \/ s = "GET_STALE_ORDERS"
    \/ s = "GET_TRADES" /\ ~TradesLookback

(* Mutant: the download waits for answers though no query is out.          *)
AlwaysWaits(s, n) == s = "GET_TRADES" /\ ~TradesLookback

(* The states that have nothing to wait for and return 0, n queries out.   *)
Skipped(s, n) ==
    \/ s = "GET_STALE_ORDERS" /\ n = 0
    \/ s = "GET_TRADES" /\ ~TradesLookback

NextState(s, n) ==
    LET t == Successor[s]
    IN  IF Skipped(t, n) THEN Successor[t] ELSE t

(* What entering a state sends.                                            *)
SubscribeState ==
    [SUBSCRIBE_BALANCES  |-> "balances",
     SUBSCRIBE_POSITIONS |-> "positions",
     SUBSCRIBE_ORDERS    |-> "orders",
     SUBSCRIBE_TRADES    |-> "usertrades"]

RequestState ==
    [GET_BALANCES |-> "balances", GET_POSITIONS |-> "positions",
     GET_TRADES   |-> "trades"]

Frames(s) ==
    IF s \in DOMAIN SubscribeState THEN <<Subscribe(SubscribeState[s])>>
    ELSE IF s = "GET_OPEN_ORDERS" THEN <<OrderList>>
    ELSE <<>>

(* Download2 moves on from state s; n queries are out, "sent" went before. *)
(* DONE asserts that the stream was not ready before.                      *)
MoveOn(s, n, sent) ==
    LET t == NextState(s, n)
    IN  /\ state' = t
        /\ connection_status' = IF t = "DONE" THEN "READY" ELSE "DOWNLOADING"
        /\ ready' = (ready \/ t = "DONE")
        /\ fatal' = IF t = "DONE" /\ ready THEN "assert" ELSE fatal
        /\ request' = IF t \in DOMAIN RequestState
                      THEN [request EXCEPT ![RequestState[t]] = "pending"]
                      ELSE request
        /\ outbox' = outbox \o sent \o Frames(t)

Stay(sent) ==
    /\ outbox' = outbox \o sent
    /\ UNCHANGED <<connection_status, ready, state, request, fatal>>

(* download_.check: the answer must be the one the download waits for.     *)
Check(s, n) ==
    IF state = s
    THEN MoveOn(s, n, <<>>)
    ELSE /\ fatal' = "download"
         /\ UNCHANGED <<connection_status, ready, state, request, outbox>>

(* download_.check_relaxed: any other answer is ignored.                   *)
CheckRelaxed(s, n, sent) ==
    IF state = s THEN MoveOn(s, n, sent) ELSE Stay(sent)

(* Mutant: the last stale order is forgotten.                              *)
AllButOne(S) ==
    IF S = {} THEN {<<>>}
    ELSE {q \in [1..(Cardinality(S) - 1) -> {OrderQuery(o) : o \in S}] :
              \A i, j \in DOMAIN q : q[i] = q[j] => i = j}

(* check_stale_orders: one query per stale order, in the OMS's order.      *)
StaleQueries(S) ==
    {q \in [1..Cardinality(S) -> {OrderQuery(o) : o \in S}] :
        \A i, j \in DOMAIN q : q[i] = q[j] => i = j}

-----------------------------------------------------------------------------
Init ==
    /\ socket = "down" /\ sessions = 0
    /\ connection_status = "DISCONNECTED" /\ ready = FALSE
    /\ state = "UNDEFINED" /\ counter = 0
    /\ request = [k \in Requests |-> "idle"]
    /\ oms = [o \in Orders |-> "UNDEFINED"] /\ stale = {}
    /\ outbox = <<>> /\ inbox = <<>>
    /\ exch \in [Orders -> {"none", "open"}]  \* open: left by an earlier run
    /\ subscribed = {}
    /\ fatal = "no"

(***************************************************************************)
(* The gateway.                                                            *)
(***************************************************************************)
SocketReady ==
    /\ Running
    /\ socket = "down"
    /\ sessions < MaxSessions
    /\ socket' = "up" /\ sessions' = sessions + 1
    /\ connection_status' = "LOGIN_SENT"
    /\ outbox' = <<Login>>
    /\ UNCHANGED <<ready, state, counter, request, omsVars, inbox, venue, fatal>>

(* Mutants: a part of the reset is forgotten.                              *)
KeepCounter == ready' = FALSE /\ state' = "UNDEFINED" /\ counter' = counter
KeepReady   == ready' = ready /\ state' = "UNDEFINED" /\ counter' = 0

Reset == ready' = FALSE /\ state' = "UNDEFINED" /\ counter' = 0

(* The OMS sees the stream go down and no longer trusts its live orders.   *)
Disconnected ==
    /\ Running
    /\ socket # "down"
    /\ socket = "up" => sessions < MaxSessions
    /\ socket' = "down"
    /\ connection_status' = "DISCONNECTED"
    /\ Reset
    /\ stale' = stale \cup {o \in Orders : oms[o] \in Live}
    /\ outbox' = <<>> /\ inbox' = <<>>
    /\ subscribed' = {}
    /\ UNCHANGED <<sessions, request, oms, exch, fatal>>

TradeLogin ==
    /\ Arrived("login")
    /\ inbox' = Tail(inbox)
    /\ IF Head(inbox).status = "success"
       THEN socket' = socket /\ MoveOn("UNDEFINED", counter, <<>>)
       ELSE /\ socket' = IF RetryLogon THEN "closing" ELSE socket
            /\ fatal' = IF RetryLogon THEN fatal ELSE "login"
            /\ UNCHANGED <<gateway, outbox>>
    /\ UNCHANGED <<sessions, counter, omsVars, venue>>

TradeSubscribe ==
    /\ Arrived("subscribe")
    /\ inbox' = Tail(inbox)
    /\ IF Head(inbox).status = "success"
       THEN LET s == CHOOSE t \in DOMAIN SubscribeState :
                        SubscribeState[t] = Head(inbox).channel
            IN  Check(s, counter)
       ELSE fatal' = "subscribe" /\ UNCHANGED <<gateway, outbox>>
    /\ UNCHANGED <<socket, sessions, counter, omsVars, venue>>

(* The stale orders are looked up after the list was applied and before    *)
(* the download moves on.                                                  *)
TradeOrderList ==
    /\ Arrived("order_list")
    /\ inbox' = Tail(inbox)
    /\ Report(Head(inbox).open, "WORKING")
    /\ \E q \in StaleQueries(stale') :
          /\ counter' = counter + Len(q)
          /\ CheckRelaxed("GET_OPEN_ORDERS", counter', q)
    /\ UNCHANGED <<socket, sessions, venue>>

TradeOrderStatus ==
    /\ Arrived("order_status")
    /\ inbox' = Tail(inbox)
    /\ LET o == Head(inbox).order
           s == Head(inbox).status
       IN  \/ s = "none" /\ Report({o}, "REJECTED")  \* 404
           \/ s = "error" /\ UNCHANGED omsVars        \* no order in the answer
           \/ s \in {"open", "closed"} /\ Report({o}, StatusOf(s))
    /\ IF counter > 0
       THEN /\ counter' = counter - 1
            /\ IF counter' = 0
               THEN CheckRelaxed("GET_STALE_ORDERS", 0, <<>>)
               ELSE Stay(<<>>)
       ELSE /\ fatal' = "order_status"
            /\ UNCHANGED <<gateway, outbox>>
    /\ UNCHANGED <<socket, sessions, venue>>

TradeOrders ==
    /\ Arrived("orders")
    /\ inbox' = Tail(inbox)
    /\ Report({Head(inbox).order}, StatusOf(Head(inbox).status))
    /\ UNCHANGED <<socket, sessions, gateway, outbox, venue, fatal>>

(* The first acknowledgement carries no order and is ignored.              *)
TradeOrderPlace ==
    /\ Arrived("order_place")
    /\ inbox' = Tail(inbox)
    /\ LET o == Head(inbox).order
           s == Head(inbox).status
       IN  \/ s = "received" /\ UNCHANGED omsVars
           \/ s = "rejected" /\ Report({o}, "REJECTED")
           \/ s \in {"open", "closed"} /\ Report({o}, StatusOf(s))
    /\ UNCHANGED <<socket, sessions, gateway, outbox, venue, fatal>>

(* Mutant: after a rejected cancel the order is taken for open.            *)
ReviveOrder ==
    /\ Arrived("order_cancel")
    /\ inbox' = Tail(inbox)
    /\ LET s == IF Head(inbox).status = "rejected" THEN "WORKING" ELSE "COMPLETED"
       IN  Report({Head(inbox).order}, s)
    /\ UNCHANGED <<socket, sessions, gateway, outbox, venue, fatal>>

(* A rejected cancel changes no order.                                     *)
TradeOrderCancel ==
    /\ Arrived("order_cancel")
    /\ inbox' = Tail(inbox)
    /\ \/ Head(inbox).status = "rejected" /\ UNCHANGED omsVars
       \/ Head(inbox).status = "closed" /\ Report({Head(inbox).order}, "COMPLETED")
    /\ UNCHANGED <<socket, sessions, gateway, outbox, venue, fatal>>

(* The dispatcher routes requests to a stream that is published READY.     *)
CreateOrder(o) ==
    /\ Running
    /\ socket = "up" /\ connection_status = "READY"
    /\ oms[o] = "UNDEFINED" /\ exch[o] = "none"
    /\ oms' = [oms EXCEPT ![o] = "SENT"]
    /\ outbox' = Append(outbox, OrderPlace(o))
    /\ UNCHANGED <<socket, sessions, gateway, stale, inbox, venue, fatal>>

(* Bound: no cancel while something about the order is under way.          *)
CancelOrder(o) ==
    /\ Running
    /\ socket = "up" /\ connection_status = "READY"
    /\ oms[o] = "WORKING" /\ ~InFlight(o)
    /\ outbox' = Append(outbox, OrderCancel(o))
    /\ UNCHANGED <<socket, sessions, gateway, omsVars, inbox, venue, fatal>>

Answered == state \in DOMAIN RequestState /\ request[RequestState[state]] = "done"

(* The timer moves the download on when the REST answer is there and, once *)
(* the stream is ready, repeats the search for stale orders when it is due *)
(* (check_stale_order_freq is any time).  A timer that finds nothing to do *)
(* changes nothing.                                                        *)
Timer ==
    /\ Running
    /\ socket = "up"
    /\ \/ /\ Answered
          /\ \E q \in IF NextState(state, counter) = "DONE"
                      THEN {<<>>} \cup StaleQueries(stale) ELSE {<<>>} :
                /\ counter' = counter + Len(q)
                /\ MoveOn(state, counter, q)
       \/ /\ ~Answered /\ connection_status = "READY" /\ stale # {}
          /\ counter + Cardinality(stale) <= MaxQueries
          /\ \E q \in StaleQueries(stale) : counter' = counter + Len(q) /\ Stay(q)
    /\ UNCHANGED <<socket, sessions, omsVars, inbox, venue>>

(* OrderEntry commits the answer of a REST request, an error as well.      *)
RequestCommit(k) ==
    /\ Running
    /\ request[k] = "pending"
    /\ request' = [request EXCEPT ![k] = "done"]
    /\ UNCHANGED <<socket, sessions, connection_status, ready, state, counter,
                   omsVars, wire, venue, fatal>>

(***************************************************************************)
(* The exchange answers the frames of a socket one by one, in order.       *)
(***************************************************************************)
Reply(frames) ==
    /\ outbox' = Tail(outbox)
    /\ inbox' = inbox \o frames
    /\ UNCHANGED <<socket, sessions, gateway, omsVars, fatal>>

Push(o, s) == IF "orders" \in subscribed THEN <<OrderUpdate(o, s)>> ELSE <<>>

(* Bound: a refused login costs a session, the last one is not refused.    *)
ExchangeLogin ==
    /\ Requested("login")
    /\ \/ Reply(<<LoginAck("success")>>)
       \/ "login" \in Faults /\ sessions < MaxSessions /\ Reply(<<LoginAck("fail")>>)
    /\ UNCHANGED venue

ExchangeSubscribe ==
    /\ Requested("subscribe")
    /\ LET c == Head(outbox).channel
       IN  \/ subscribed' = subscribed \cup {c} /\ Reply(<<SubscribeAck(c, "success")>>)
           \/ "subscribe" \in Faults /\ subscribed' = subscribed
                /\ Reply(<<SubscribeAck(c, "fail")>>)
    /\ UNCHANGED exch

(* A refused list has no orders; the handler does not look at its status.  *)
ExchangeOrderList ==
    /\ Requested("order_list")
    /\ \/ Reply(<<OrderListAck({o \in Orders : exch[o] = "open"})>>)
       \/ "order_list" \in Faults /\ Reply(<<OrderListAck({})>>)
    /\ UNCHANGED venue

ExchangeOrderStatus ==
    /\ Requested("order_status")
    /\ LET o == Head(outbox).order IN Reply(<<OrderQueryAck(o, exch[o])>>)
    /\ UNCHANGED venue

ExchangeOrderStatusError ==
    /\ Requested("order_status")
    /\ "order_status" \in Faults
    /\ Reply(<<OrderQueryAck(Head(outbox).order, "error")>>)
    /\ UNCHANGED venue

(* A new order rests, is done at once, or is refused.                      *)
ExchangeOrderPlace ==
    /\ Requested("order_place")
    /\ LET o == Head(outbox).order
       IN  \/ \E s \in {"open", "closed"} :
                 /\ exch' = [exch EXCEPT ![o] = s]
                 /\ Reply(<<OrderPlaceAck(o, "received"), OrderPlaceAck(o, s)>>
                          \o Push(o, s))
           \/ exch' = exch
                 /\ Reply(<<OrderPlaceAck(o, "received"), OrderPlaceAck(o, "rejected")>>)
    /\ UNCHANGED subscribed

ExchangeOrderCancel ==
    /\ Requested("order_cancel")
    /\ LET o == Head(outbox).order
       IN  \/ /\ exch[o] = "open"
              /\ exch' = [exch EXCEPT ![o] = "closed"]
              /\ Reply(<<OrderCancelAck(o, "closed")>> \o Push(o, "closed"))
           \/ /\ exch[o] # "open" /\ exch' = exch
              /\ Reply(<<OrderCancelAck(o, "rejected")>>)
    /\ UNCHANGED subscribed

(* An open order is filled or cancelled by the exchange, whatever the      *)
(* connection does.                                                        *)
ExchangeFinish(o) ==
    /\ Running
    /\ exch[o] = "open"
    /\ exch' = [exch EXCEPT ![o] = "closed"]
    /\ inbox' = inbox \o Push(o, "closed")
    /\ UNCHANGED <<socket, sessions, gateway, omsVars, outbox, subscribed, fatal>>

-----------------------------------------------------------------------------
Receive ==
    \/ TradeLogin \/ TradeSubscribe \/ TradeOrderList \/ TradeOrderStatus
    \/ TradeOrders \/ TradeOrderPlace \/ TradeOrderCancel

Exchange ==
    \/ ExchangeLogin \/ ExchangeSubscribe \/ ExchangeOrderList
    \/ ExchangeOrderStatus \/ ExchangeOrderStatusError
    \/ ExchangeOrderPlace \/ ExchangeOrderCancel

Next ==
    \/ SocketReady \/ Disconnected \/ Receive \/ Timer \/ Exchange
    \/ \E o \in Orders : CreateOrder(o) \/ CancelOrder(o) \/ ExchangeFinish(o)
    \/ \E k \in Requests : RequestCommit(k)

Spec == Init /\ [][Next]_vars

(***************************************************************************)
(* The event loop polls the socket and fires the timer for ever, the       *)
(* connection manager reconnects (always_reconnect), the exchange answers  *)
(* and OrderEntry commits every request.  A status query may be refused,   *)
(* but not for ever.  Nothing makes the socket fail, an order end or a     *)
(* client send.                                                            *)
(***************************************************************************)
Fairness ==
    /\ WF_vars(SocketReady)
    /\ WF_vars(socket = "closing" /\ Disconnected)
    /\ WF_vars(Receive)
    /\ WF_vars(Timer)
    /\ WF_vars(Exchange)
    /\ SF_vars(ExchangeOrderStatus)
    /\ \A k \in Requests : WF_vars(RequestCommit(k))

FairSpec == Spec /\ Fairness

-----------------------------------------------------------------------------
(* Every variable has its type.                                            *)
TypeOK ==
    /\ socket \in {"down", "up", "closing"}
    /\ sessions \in 0..MaxSessions
    /\ connection_status \in {"DISCONNECTED", "LOGIN_SENT", "DOWNLOADING", "READY"}
    /\ ready \in BOOLEAN
    /\ state \in State
    /\ counter \in Nat
    /\ request \in [Requests -> {"idle", "pending", "done"}]
    /\ oms \in [Orders -> OrderStatus]
    /\ stale \subseteq Orders
    /\ outbox \in Seq(ToExchange)
    /\ inbox \in Seq(ToGateway)
    /\ exch \in [Orders -> ExchangeStatus]
    /\ subscribed \subseteq Channels
    /\ fatal \in {"no", "login", "subscribe", "download", "order_status", "assert"}

UnderWay(types) == Count(outbox, types) + Count(inbox, types)

QueryTypes == {"order_status"}

(* download_stale_orders_counter_ is the number of status queries sent on  *)
(* this socket and not answered yet, whatever the timer and the list asked *)
(* for.                                                                    *)
QueriesCounted == Running => counter = UnderWay(QueryTypes)

(* The fatal error for an answer nobody counted, the one for an answer     *)
(* download_.check does not expect, and the assertion that a stream is not *)
(* made ready twice are never reached.                                     *)
NeverOutOfStep == fatal \notin {"order_status", "download", "assert"}

ControlTypes == {"login", "subscribe", "order_list"}

(* The states that end with an answer on the socket, and which one.        *)
AnsweredStates == {"UNDEFINED", "GET_OPEN_ORDERS"} \cup DOMAIN SubscribeState

Awaits(s, m) ==
    \/ s = "UNDEFINED" /\ m.type = "login"
    \/ s = "GET_OPEN_ORDERS" /\ m.type = "order_list"
    \/ s \in DOMAIN SubscribeState /\ m.type = "subscribe" /\ m.channel = SubscribeState[s]

AllAwaited(frames) ==
    \A i \in DOMAIN frames : frames[i].type \in ControlTypes => Awaits(state, frames[i])

(* While the download waits, what it waits for is under way, once: it is   *)
(* never left in a state that no answer or timer will end, and no answer   *)
(* of an earlier step is still to come.                                    *)
DownloadIsAwaited ==
    (socket = "up" /\ Running) =>
        /\ AllAwaited(outbox) /\ AllAwaited(inbox)
        /\ UnderWay(ControlTypes) = IF state \in AnsweredStates THEN 1 ELSE 0
        /\ state = "GET_STALE_ORDERS" => counter > 0
        /\ state \in DOMAIN RequestState => request[RequestState[state]] # "idle"

(* A ready stream has all four channels subscribed on this very socket.    *)
ReadyIsSubscribed == (ready /\ Running) => subscribed = Channels /\ socket = "up"

(* What makes the invariants above inductive: the channels whose states    *)
(* are passed, or whose acknowledgement is on its way, are subscribed.     *)
Passed ==
    [UNDEFINED           |-> {},
     SUBSCRIBE_BALANCES  |-> {},
     GET_BALANCES        |-> {"balances"},
     SUBSCRIBE_POSITIONS |-> {"balances"},
     GET_POSITIONS       |-> {"balances", "positions"},
     SUBSCRIBE_ORDERS    |-> {"balances", "positions"},
     GET_OPEN_ORDERS     |-> {"balances", "positions", "orders"},
     GET_STALE_ORDERS    |-> {"balances", "positions", "orders"},
     SUBSCRIBE_TRADES    |-> {"balances", "positions", "orders"},
     GET_TRADES          |-> Channels,
     DONE                |-> Channels]

SessionConsistent ==
    Running =>
        /\ ready <=> state = "DONE"
        /\ socket # "up" => state = "UNDEFINED"
        /\ socket = "down" =>
              outbox = <<>> /\ inbox = <<>> /\ counter = 0 /\ subscribed = {}
        /\ Passed[state] \subseteq subscribed
        /\ \A i \in DOMAIN inbox :
              (inbox[i].type = "subscribe" /\ inbox[i].status = "success")
                 => inbox[i].channel \in subscribed

IInv ==
    /\ TypeOK /\ QueriesCounted /\ NeverOutOfStep /\ DownloadIsAwaited
    /\ SessionConsistent

Agree(status, s) ==
    \/ status = "REJECTED" /\ s = "none"
    \/ status = "WORKING" /\ s = "open"
    \/ status = "COMPLETED" /\ s = "closed"

(* Once the stream is ready, every order this gateway knows that is not    *)
(* reported stale and of which nothing is under way has the same status    *)
(* here as at the exchange: what happened while the stream was down, or    *)
(* between the subscription and the list, is never missed.                 *)
Reconciled ==
    (ready /\ Running) => \A o \in Orders :
        (oms[o] # "UNDEFINED" /\ o \notin stale /\ ~InFlight(o)) => Agree(oms[o], exch[o])

(* An order an earlier run left open at the exchange is known when the     *)
(* stream is ready, if the exchange did not refuse the list.               *)
OpenOrdersKnown ==
    (ready /\ Running) => \A o \in Orders :
        (exch[o] = "open" /\ ~InFlight(o)) => oms[o] # "UNDEFINED"

(* No message ever brings an order back that was completed or rejected:    *)
(* neither a snapshot nor an answer is older than what the OMS was told.   *)
TerminalIsFinal ==
    [][\A o \in Orders :
          oms[o] \in {"COMPLETED", "REJECTED"} => oms'[o] = oms[o]]_vars

(* The download goes on to the trades only when every stale order it asked *)
(* about was answered.                                                     *)
StaleBeforeTrades ==
    [][(state # state' /\ state' = "SUBSCRIBE_TRADES") => counter' = 0]_vars

(* The stream becomes ready and stays so once the socket stays up, unless  *)
(* the process ended.                                                      *)
EventuallyReady == <>[](ready \/ ~Running)

(* A stale order is resolved in the end, though queries may be refused.    *)
StaleIsResolved ==
    \A o \in Orders : (o \in stale) ~> (o \notin stale \/ ~Running)
=============================================================================
