------------------------------ MODULE OrderLife ------------------------------
(***************************************************************************)
(* One order from the client to the exchange and back, field by field,     *)
(* over the sessions of the private websocket (gateway/drop_copy.cpp).     *)
(* The order is placed, amended and cancelled with the frames of           *)
(* OrderFields, executed by what its time in force means at the exchange,  *)
(* and reported by answers, pushes, the order list and status queries.     *)
(*                                                                         *)
(* A status query names the settlement coin of the contract, which the     *)
(* public REST connection finds out (gateway/rest.cpp); a query without    *)
(* one is refused, and repeated by the timer.                              *)
(*                                                                         *)
(* DropCopy has the other steps of a session, OrderRequests the responses. *)
(* The exchange, the OMS, its stale orders and its routing of requests to  *)
(* a ready stream are modelled from how the class uses them.               *)
(***************************************************************************)
EXTENDS OrderFields, Naturals, Sequences

CONSTANTS
    Requests,      \* what the client may ask for
    Changes,       \* what it may ask to change
    NoOrder,       \* there is no order, or it has no fields
    MaxSessions,   \* bound: how often the websocket is opened
    MaxFrames      \* bound: frames under way when a client sends, queries when the timer does

(* What a client asks for has a quantity and, if it has a price, one above *)
(* zero; the exchange has futures at no other price.                       *)
OrderRequest ==
    [side : {"BUY", "SELL"}, order_type : {"LIMIT", "MARKET"}, quantity : Nat \ {0},
     price : (Nat \ {0}) \cup {NaN}, time_in_force : TimesInForce,
     execution_instructions : SUBSET ExecutionInstruction]

ChangeRequest == [quantity : (Nat \ {0}) \cup {NaN}, price : (Nat \ {0}) \cup {NaN}]

(* An order of the exchange, and an order of the OMS.                      *)
ExchangeOrder ==
    [size : Int, left : Int, price : Int, tif : DOMAIN TimeInForce, reduce_only : BOOLEAN,
     status : {"open", "finished"}, finish_as : DOMAIN FinishedAs \cup {""}]

OmsOrder ==
    [side : {"BUY", "SELL"}, order_type : {"LIMIT", "MARKET", "UNDEFINED"},
     time_in_force : TimesInForce, order_status : {"SENT", "REJECTED", "WORKING", "COMPLETED", "CANCELED"},
     price : Int, quantity : Int, remaining : Int, traded : Int]

ASSUME OrderLifeAssumption ==
    /\ Requests \subseteq OrderRequest
    /\ Changes \subseteq ChangeRequest
    /\ NoOrder \notin OrderRequest \cup ExchangeOrder \cup OmsOrder

VARIABLES
    contracts,  \* symbol_2_settle_coin has the contract
    sessions,   \* how often the websocket was opened
    state,      \* download_.state(), UNDEFINED without a socket
    counter,    \* download_stale_orders_counter_
    outbox, inbox,
    asked,      \* history: the request
    changes,    \* history: what was to be changed
    oms,        \* the order as the OMS has it
    stale,      \* the OMS does not trust it
    downloaded, \* history: the OMS took it from a snapshot
    exch,       \* the order at the exchange
    taken       \* history: the lots it took from the book

vars == <<contracts, sessions, state, counter, outbox, inbox, asked, changes,
          oms, stale, downloaded, exch, taken>>

omsVars == <<oms, stale, downloaded>>
venue == <<exch, taken>>
history == <<asked, changes>>

Finished == {"COMPLETED", "CANCELED", "REJECTED"}

Lives(order) == order # NoOrder /\ order.order_status \notin Finished

IsOpen(order) == order # NoOrder /\ order.status = "open"

(* What the OMS has of an order that was just asked for.                   *)
NewOrder(c, status) ==
    [side |-> c.side, order_type |-> c.order_type, time_in_force |-> c.time_in_force,
     order_status |-> status, price |-> c.price, quantity |-> c.quantity,
     remaining |-> c.quantity, traded |-> 0]

(* A new order at the exchange.                                            *)
Resting(f) ==
    [size |-> f.size, left |-> f.size, price |-> f.price, tif |-> f.tif,
     reduce_only |-> f.reduce_only, status |-> "open", finish_as |-> ""]

Init ==
    /\ contracts = FALSE /\ sessions = 0
    /\ state = "UNDEFINED" /\ counter = 0
    /\ outbox = <<>> /\ inbox = <<>>
    /\ changes = {}
    /\ oms = NoOrder /\ stale = FALSE /\ downloaded = FALSE /\ taken = 0
    /\ \/ asked = NoOrder /\ exch = NoOrder
       \/ \E c \in Requests :  \* left by an earlier run
             /\ Supported(c) /\ Tif(c) \in {"gtc", "poc"} /\ Price(c) # 0
             /\ asked = c /\ exch = Resting(OrderPlace(c))

-----------------------------------------------------------------------------
(* The session.                                                            *)

(* SocketReady with the login and the subscription to orders, then the     *)
(* list of open orders.                                                    *)
SocketReady ==
    /\ state = "UNDEFINED" /\ sessions < MaxSessions
    /\ sessions' = sessions + 1
    /\ state' = "GET_OPEN_ORDERS"
    /\ outbox' = <<[type |-> "order_list"]>>
    /\ UNCHANGED <<contracts, counter, inbox, history, omsVars, venue>>

Disconnected ==
    /\ state # "UNDEFINED" /\ sessions < MaxSessions
    /\ state' = "UNDEFINED" /\ counter' = 0
    /\ outbox' = <<>> /\ inbox' = <<>>
    /\ stale' = (stale \/ Lives(oms))
    /\ UNCHANGED <<contracts, sessions, history, oms, downloaded, venue>>

(* The public connection has downloaded the contracts.                     *)
ContractsAck ==
    /\ ~contracts
    /\ contracts' = TRUE
    /\ UNCHANGED <<sessions, state, counter, outbox, inbox, history, omsVars, venue>>

(* get_settle_coin: a contract that is not known has none.                 *)
SettleCoin == IF contracts THEN "usdt" ELSE ""

(* check_stale_orders, with get_single_order_status.                       *)
StaleQuery == IF stale' THEN <<[type |-> "order_status", settle |-> SettleCoin]>> ELSE <<>>

CheckStaleOrders ==
    /\ counter' = counter + Len(StaleQuery)
    /\ outbox' = outbox \o StaleQuery

MaySend == state = "DONE" /\ Len(outbox) + Len(inbox) < MaxFrames

(* Mutant: a query is repeated only while its settlement coin is missing.  *)
NoRepeat ==
    /\ state = "DONE" /\ stale /\ counter = 0 /\ ~contracts
    /\ UNCHANGED omsVars
    /\ CheckStaleOrders
    /\ UNCHANGED <<contracts, sessions, state, inbox, history, venue>>

(* check_stale_orders_2: as long as the order is stale it is asked for.    *)
Timer ==
    /\ state = "DONE" /\ stale /\ counter < MaxFrames
    /\ UNCHANGED omsVars
    /\ CheckStaleOrders
    /\ UNCHANGED <<contracts, sessions, state, inbox, history, venue>>

(* The states between here and DONE ask for trades, not for orders.        *)
MoveOn(s) == IF state = s /\ counter' = 0 THEN "DONE" ELSE "GET_STALE_ORDERS"

-----------------------------------------------------------------------------
(* Requests of the client.                                                 *)

Send(f) == outbox' = Append(outbox, f)

CreateOrder(c) ==
    /\ MaySend /\ asked = NoOrder
    /\ asked' = c
    /\ \/ /\ Supported(c)
          /\ oms' = NewOrder(c, "SENT")
          /\ Send([type |-> "order_place", order |-> OrderPlace(c)])
       \/ /\ ~Supported(c)
          /\ oms' = NewOrder(c, "REJECTED")
          /\ UNCHANGED outbox
    /\ UNCHANGED <<contracts, sessions, state, counter, inbox, changes, stale, downloaded, venue>>

ModifyOrder(m) ==
    /\ MaySend /\ Lives(oms) /\ m \notin changes
    /\ changes' = changes \cup {m}
    /\ Send([type |-> "order_amend", change |-> OrderAmend(m, oms.side)])
    /\ UNCHANGED <<contracts, sessions, state, counter, inbox, asked, omsVars, venue>>

CancelOrder ==
    /\ MaySend /\ Lives(oms) /\ outbox = <<>>
    /\ Send([type |-> "order_cancel"])
    /\ UNCHANGED <<contracts, sessions, state, counter, inbox, history, omsVars, venue>>

-----------------------------------------------------------------------------
(* The handlers of what arrives.                                           *)

Arrived(t) == inbox # <<>> /\ Head(inbox).type = t

Handled == inbox' = Tail(inbox) /\ UNCHANGED <<contracts, sessions, history, venue>>

Quiet == UNCHANGED <<state, counter, outbox>>

(* An update replaces what the OMS has, except what it does not say.       *)
Update(v, update_type) ==
    LET u == CreateOrderUpdate(v, update_type) IN
        /\ oms' = IF u.order_type = "UNDEFINED" /\ oms # NoOrder
                  THEN [u EXCEPT !.order_type = oms.order_type] ELSE u
        /\ downloaded' = (downloaded \/ update_type = "SNAPSHOT")
        /\ stale' = FALSE

Reject ==
    /\ oms' = [oms EXCEPT !.order_status = "REJECTED"]
    /\ stale' = FALSE
    /\ UNCHANGED downloaded

TradeOrders ==
    /\ Arrived("orders")
    /\ Update(Head(inbox).value, "INCREMENTAL")
    /\ Handled /\ Quiet

(* An order that was refused is rejected, a refused change changes nothing.*)
TradeOrderRequest ==
    /\ Arrived("answer")
    /\ LET m == Head(inbox) IN
          \/ m.value # NoOrder /\ Update(m.value, "INCREMENTAL")
          \/ m.value = NoOrder /\ m.request = "order_place" /\ Reject
          \/ m.value = NoOrder /\ m.request # "order_place" /\ UNCHANGED omsVars
    /\ Handled /\ Quiet

TradeOrderList ==
    /\ Arrived("order_list")
    /\ LET v == Head(inbox).value IN
          \/ v # NoOrder /\ Update(v, "SNAPSHOT")
          \/ v = NoOrder /\ UNCHANGED omsVars
    /\ CheckStaleOrders
    /\ state' = MoveOn("GET_OPEN_ORDERS")
    /\ Handled

TradeOrderStatus ==
    /\ Arrived("order_status")
    /\ LET m == Head(inbox) IN
          \/ m.status = 404 /\ Reject
          \/ m.status = 400 /\ UNCHANGED omsVars  \* there is no order in it
          \/ m.status = 200 /\ Update(m.value, "SNAPSHOT")
    /\ counter' = counter - 1
    /\ state' = IF state = "GET_STALE_ORDERS" THEN MoveOn("GET_STALE_ORDERS") ELSE state
    /\ Handled /\ UNCHANGED outbox

-----------------------------------------------------------------------------
(* The exchange: it takes frames in order and pushes every change.         *)

Requested(t) == outbox # <<>> /\ Head(outbox).type = t

Reply(frames) ==
    /\ outbox' = Tail(outbox) /\ inbox' = inbox \o frames
    /\ UNCHANGED <<contracts, sessions, state, counter, history, omsVars>>

Answer(r, v) == [type |-> "answer", request |-> r, value |-> v]

(* A push says what happened, an answer with an open order does not.       *)
Push(v, how) ==
    [type |-> "orders",
     value |-> IF v.status = "open" THEN [v EXCEPT !.finish_as = how] ELSE v]

Refuse(r) == Reply(<<Answer(r, NoOrder)>>) /\ UNCHANGED venue

(* n lots are executed; "kill" says how an order ends that may not rest.   *)
Execute(v, n) ==
    LET left == IF v.size < 0 THEN v.left + n ELSE v.left - n IN
        IF left = 0
        THEN [v EXCEPT !.left = 0, !.status = "finished", !.finish_as = "filled"]
        ELSE IF v.tif \in {"ioc", "fok"}
             THEN [v EXCEPT !.left = left, !.status = "finished", !.finish_as = "ioc"]
             ELSE [v EXCEPT !.left = left]

(* What an order may take at once: poc nothing, fok all or nothing.        *)
Takes(v) ==
    CASE v.tif = "poc" -> {0}
      [] v.tif = "fok" -> {0, Abs(v.left)}
      [] OTHER -> 0 .. Abs(v.left)

Match(v, r, how) ==
    \E n \in Takes(v) :
        /\ exch' = Execute(v, n) /\ taken' = taken + n
        /\ \/ Reply(<<Answer(r, exch'), Push(exch', how)>>)
           \/ Reply(<<Push(exch', how), Answer(r, exch')>>)

(* Price zero is a market order, which must be ioc; a poc order that would *)
(* take is refused.                                                        *)
ExchangeOrderPlace ==
    /\ Requested("order_place")
    /\ LET f == Head(outbox).order IN
          \/ Refuse("order_place")
          \/ (f.price = 0 => f.tif = "ioc") /\ Match(Resting(f), "order_place", "new")
 
Executed(v) == Abs(v.size) - Abs(v.left)

Change(f, k, default) == IF k \in DOMAIN f THEN f[k] ELSE default

(* The new size includes what was executed and has the same sign.          *)
ExchangeOrderAmend ==
    /\ Requested("order_amend")
    /\ LET f == Head(outbox).change IN
          \/ Refuse("order_amend")
          \/ /\ IsOpen(exch)
             /\ LET size == Change(f, "size", exch.size)
                    left == IF size < 0 THEN size + Executed(exch) ELSE size - Executed(exch)
                IN  /\ size * exch.size > 0 /\ left * size > 0
                    /\ Match([exch EXCEPT !.size = size, !.left = left,
                                          !.price = Change(f, "price", exch.price)],
                             "order_amend", "update")

ExchangeOrderCancel ==
    /\ Requested("order_cancel")
    /\ \/ Refuse("order_cancel")
       \/ /\ IsOpen(exch)
          /\ exch' = [exch EXCEPT !.status = "finished", !.finish_as = "cancelled"]
          /\ Reply(<<Push(exch', ""), Answer("order_cancel", exch')>>)
          /\ UNCHANGED taken

ExchangeOrderList ==
    /\ Requested("order_list")
    /\ Reply(<<[type |-> "order_list", value |-> IF IsOpen(exch) THEN exch ELSE NoOrder]>>)
    /\ UNCHANGED venue

(* Without a settlement coin the query is refused.                         *)
ExchangeOrderStatus ==
    /\ Requested("order_status")
    /\ LET s == CASE Head(outbox).settle = "" -> 400
                  [] Head(outbox).settle # "" /\ exch = NoOrder -> 404
                  [] OTHER -> 200
       IN  Reply(<<[type |-> "order_status", status |-> s, value |-> exch]>>)
    /\ UNCHANGED venue

(* An open order is executed or ended whatever the connection does.        *)
ExchangeFill ==
    /\ IsOpen(exch)
    /\ \/ \E n \in 1 .. Abs(exch.left) : exch' = Execute(exch, n)
       \/ \E how \in {"liquidated", "auto_deleveraged", "reduce_only", "position_close", "stp"} :
             exch' = [exch EXCEPT !.status = "finished", !.finish_as = how]
    /\ inbox' = IF state = "UNDEFINED" THEN inbox ELSE Append(inbox, Push(exch', "update"))
    /\ UNCHANGED <<contracts, sessions, state, counter, outbox, history, omsVars, taken>>

Receive == TradeOrders \/ TradeOrderRequest \/ TradeOrderList \/ TradeOrderStatus

Exchange ==
    \/ ExchangeOrderPlace \/ ExchangeOrderAmend \/ ExchangeOrderCancel
    \/ ExchangeOrderList \/ ExchangeOrderStatus

Next ==
    \/ SocketReady \/ Disconnected \/ ContractsAck \/ Timer
    \/ \E c \in Requests : CreateOrder(c)
    \/ \E m \in Changes : ModifyOrder(m)
    \/ CancelOrder
    \/ Receive \/ Exchange \/ ExchangeFill

Spec == Init /\ [][Next]_vars

(* The event loop, the connection manager, the public download, which      *)
(* Subscriptions shows to be done in the end, and an exchange that answers.*)
Fairness ==
    /\ WF_vars(SocketReady) /\ WF_vars(ContractsAck) /\ WF_vars(Timer)
    /\ WF_vars(Receive) /\ WF_vars(Exchange)

FairSpec == Spec /\ Fairness

-----------------------------------------------------------------------------
(* The quantities and prices that were asked for.                          *)
Quantities == ({asked.quantity} \cup {m.quantity : m \in changes}) \ {NaN}

Prices == ({Price(asked)} \cup {m.price : m \in changes}) \ {NaN}

(* The time in force the OMS should have: a market order is ioc and a      *)
(* post-only order, for which the OMS has no time in force, is gtc.        *)
ReportedTif ==
    CASE IsMarket(asked) -> "IOC"
      [] ~IsMarket(asked) /\ PostOnly(asked) -> "GTC"
      [] OTHER -> asked.time_in_force

(* What the OMS has of an order after sizes got a sign and lost it again,  *)
(* over amends, answers, pushes and downloads, is the order that was asked *)
(* for: its side, one of its quantities, its time in force; and what was   *)
(* traded and what remains add up (create_order_update).                   *)
ReportedAsAsked ==
    (oms # NoOrder /\ oms.order_status \notin {"SENT", "REJECTED"}) =>
        /\ oms.side = asked.side
        /\ oms.quantity \in Quantities
        /\ oms.time_in_force = ReportedTif
        /\ oms.traded + oms.remaining = oms.quantity
        /\ oms.remaining \in 0 .. oms.quantity

(* What the exchange does with the order is what was asked for: a          *)
(* post-only order never takes, an order that is not to increase the       *)
(* position is reduce-only, and only a market order, or one without a      *)
(* price, is executed at any price.                                        *)
ExecutedAsAsked ==
    exch # NoOrder =>
        /\ taken > 0 => IsMarket(asked) \/ ~PostOnly(asked)
        /\ exch.reduce_only = ("DO_NOT_INCREASE" \in asked.execution_instructions)
        /\ exch.price = 0 => IsMarket(asked) \/ asked.price = NaN
        /\ exch.price \in Prices

(* Once the stream is ready, with nothing under way and the order not      *)
(* stale, the OMS has the order as it is at the exchange, number by        *)
(* number, whatever was lost with a socket.                                *)
OrderFollows ==
    (state = "DONE" /\ outbox = <<>> /\ inbox = <<>> /\ ~stale) =>
        \/ exch = NoOrder /\ ~Lives(oms)
        \/ oms = NoOrder /\ ~IsOpen(exch)
        \/ /\ exch # NoOrder /\ oms # NoOrder
           /\ oms.quantity = Abs(exch.size)
           /\ oms.remaining = Abs(exch.left)
           /\ oms.price = exch.price
           /\ (oms.order_status = "WORKING") = IsOpen(exch)

(* A stale order is found out about in the end, although a query sent      *)
(* before the contracts were downloaded names no settlement coin, and its  *)
(* answer counts as one.                                                   *)
EventuallyResolved == stale ~> ~stale

(* "download orders must be limit" (create_order_update).                  *)
DownloadedIsLimit == downloaded => asked.order_type = "LIMIT"
=============================================================================
