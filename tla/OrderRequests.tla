--------------------------- MODULE OrderRequests ----------------------------
(***************************************************************************)
(* Order requests and their answers on the private websocket of one        *)
(* account, within one session (gateway/drop_copy.cpp): create, modify,    *)
(* cancel and cancel-all, each a frame (protocol/json/encoder.cpp) the     *)
(* exchange answers later with frames of the same channel and request id   *)
(* (protocol/json/trade_parser.cpp), and the responses the handlers        *)
(* dispatch to the order management system (OMS).                          *)
(*                                                                         *)
(* What the OMS holds of an order and which symbols get_all_order_symbols  *)
(* returns is modelled from how the class uses them; so is the exchange.   *)
(* DropCopy models how the next session finds out what became of orders    *)
(* whose answers were lost.                                                *)
(***************************************************************************)
EXTENDS Naturals, Sequences, FiniteSets, SequencesExt

CONSTANTS
    Orders,         \* client order ids
    Symbols,        \* contracts
    SymbolOf,       \* the contract of each order
    NoOrder,        \* the text of a frame that has no order
    MaxCancelAll,   \* bound: how often everything is cancelled
    MaxFrames       \* bound: the frames under way when the OMS asks for more

ASSUME OrderRequestsAssumption ==
    /\ IsFiniteSet(Orders) /\ IsFiniteSet(Symbols)
    /\ SymbolOf \in [Orders -> Symbols]
    /\ NoOrder \notin Orders
    /\ MaxCancelAll \in Nat /\ MaxFrames \in Nat \ {0}

VARIABLES
    socket,     \* the connection
    asked,      \* the requests the OMS made
    outbox,     \* frames to the exchange
    inbox,      \* frames to the gateway
    exch,       \* the orders at the exchange
    oms,        \* the orders at the OMS
    responses,  \* what was dispatched for each request, in order
    pending,    \* history: the symbols a cancel-all has no answer for
    covered     \* history: the orders a cancel-all was to cancel

vars == <<socket, asked, outbox, inbox, exch, oms, responses, pending, covered>>

wire == <<outbox, inbox>>

RequestType == {"CREATE_ORDER", "MODIFY_ORDER", "CANCEL_ORDER"}

RequestStatus == {"ACCEPTED", "REJECTED"}

CancelAlls == 1 .. MaxCancelAll

(* A request id: an order request by type and order, a cancel-all by its   *)
(* number.                                                                 *)
OrderRequest == [type : RequestType, order : Orders]

CancelAllRequest == [type : {"CANCEL_ALL_ORDERS"}, number : CancelAlls]

Request == OrderRequest \cup CancelAllRequest

RequestId(t, o) == [type |-> t, order |-> o]

CancelAllId(n) == [type |-> "CANCEL_ALL_ORDERS", number |-> n]

(* Frames.  The request id comes back with the answer; the text of an      *)
(* answer names the order, if there is one.                                *)
Channel == {"order_place", "order_amend", "order_cancel", "order_cancel_cp"}

OrderFrame(c, r) == [channel |-> c, request |-> r]

CancelFrame(r, s) == [channel |-> "order_cancel_cp", request |-> r, symbol |-> s]

CancelAck(f, s) ==
    [channel |-> f.channel, request |-> f.request, symbol |-> f.symbol, status |-> s]

Answer(c, r, s, o, st) ==
    [channel |-> c, request |-> r, status |-> s, text |-> o, order_status |-> st]

Ok(f, o, st) == Answer(f.channel, f.request, 200, o, st)

Refused(f) == Answer(f.channel, f.request, 400, NoOrder, "none")

Update(o, st) == [channel |-> "orders", text |-> o, order_status |-> st]

Response(t, s) == [type |-> t, status |-> s]

Arrived(c) == inbox # <<>> /\ Head(inbox).channel = c

-----------------------------------------------------------------------------
Init ==
    /\ socket = "up"
    /\ asked = {}
    /\ outbox = <<>> /\ inbox = <<>>
    /\ exch = [o \in Orders |-> "none"]
    /\ oms = [o \in Orders |-> "none"]
    /\ responses = [r \in Request |-> <<>>]
    /\ pending = [n \in CancelAlls |-> {}]
    /\ covered = [n \in CancelAlls |-> {}]

(* Every handler of a request sends its frame at once.                     *)
Send(frames) == outbox' = outbox \o frames

CreateOrder(o) ==
    /\ socket = "up" /\ oms[o] = "none"
    /\ asked' = asked \cup {RequestId("CREATE_ORDER", o)}
    /\ oms' = [oms EXCEPT ![o] = "live"]
    /\ Send(<<OrderFrame("order_place", RequestId("CREATE_ORDER", o))>>)
    /\ UNCHANGED <<socket, inbox, exch, responses, pending, covered>>

ModifyOrder(o) ==
    /\ socket = "up" /\ oms[o] = "live"
    /\ RequestId("MODIFY_ORDER", o) \notin asked
    /\ asked' = asked \cup {RequestId("MODIFY_ORDER", o)}
    /\ Send(<<OrderFrame("order_amend", RequestId("MODIFY_ORDER", o))>>)
    /\ UNCHANGED <<socket, inbox, exch, oms, responses, pending, covered>>

CancelOrder(o) ==
    /\ socket = "up" /\ oms[o] = "live"
    /\ RequestId("CANCEL_ORDER", o) \notin asked
    /\ asked' = asked \cup {RequestId("CANCEL_ORDER", o)}
    /\ Send(<<OrderFrame("order_cancel", RequestId("CANCEL_ORDER", o))>>)
    /\ UNCHANGED <<socket, inbox, exch, oms, responses, pending, covered>>

Live == {o \in Orders : oms[o] = "live"}

(* Mutant: one symbol is enough.                                           *)
OneSymbol == IF Live = {} THEN {} ELSE {SymbolOf[CHOOSE o \in Live : TRUE]}

(* get_all_order_symbols                                                   *)
OrderSymbols == {SymbolOf[o] : o \in Live}

(* One frame for each symbol, all with the same request id; without orders *)
(* there is no frame, and nothing will be acknowledged.                    *)
CancelAllOrders(n) ==
    /\ socket = "up"
    /\ CancelAllId(n) \notin asked /\ \A i \in 1 .. n - 1 : CancelAllId(i) \in asked
    /\ asked' = asked \cup {CancelAllId(n)}
    /\ \E q \in SetToSeqs(OrderSymbols) :
          Send([i \in DOMAIN q |-> CancelFrame(CancelAllId(n), q[i])])
    /\ pending' = [pending EXCEPT ![n] = OrderSymbols]
    /\ covered' = [covered EXCEPT ![n] = Live]
    /\ UNCHANGED <<socket, inbox, exch, oms, responses>>

-----------------------------------------------------------------------------
(* The handlers of answers.                                                *)

Dispatch(r, response) ==
    responses' = [responses EXCEPT ![r] = Append(@, response)]

(* Mutant: the status is passed on as the exchange has it.                 *)
RawUpdate(o, st) == oms' = IF o = NoOrder THEN oms ELSE [oms EXCEPT ![o] = st]

(* create_order_update: no order in the text, no order update.             *)
OrderUpdate(o, st) ==
    oms' = IF o = NoOrder \/ st # "closed" THEN oms ELSE [oms EXCEPT ![o] = "finished"]

(* An answer that carries an order is dispatched with the order update.    *)
Accepted(t, m) ==
    /\ OrderUpdate(m.text, m.order_status)
    /\ Dispatch(m.request, Response(t, "ACCEPTED"))

Rejected(t, m) ==
    /\ Dispatch(m.request, Response(t, "REJECTED"))
    /\ UNCHANGED oms

Handled == inbox' = Tail(inbox) /\ UNCHANGED <<socket, asked, outbox, exch, covered>>

(* Mutant: the first ack is taken for the answer.                          *)
FirstAck ==
    /\ Arrived("order_place")
    /\ LET m == Head(inbox) IN
          IF m.status = 200
          THEN Accepted("CREATE_ORDER", m)
          ELSE Rejected("CREATE_ORDER", m)
    /\ Handled /\ UNCHANGED pending

(* The first ack, which only says that the request was received, has no    *)
(* text and is ignored.  The OMS forgets an order whose creation was       *)
(* refused.                                                                *)
TradeOrderPlace ==
    /\ Arrived("order_place")
    /\ LET m == Head(inbox) IN
          \/ m.status = 200 /\ m.text # NoOrder /\ Accepted("CREATE_ORDER", m)
          \/ m.status = 200 /\ m.text = NoOrder /\ UNCHANGED <<oms, responses>>
          \/ /\ m.status # 200
             /\ Dispatch(m.request, Response("CREATE_ORDER", "REJECTED"))
             /\ oms' = [oms EXCEPT ![m.request.order] = "finished"]
    /\ Handled /\ UNCHANGED pending

(* The error branch names the wrong request type.                          *)
TradeOrderAmend ==
    /\ Arrived("order_amend")
    /\ LET m == Head(inbox) IN
          \/ m.status = 200 /\ Accepted("MODIFY_ORDER", m)
          \/ m.status # 200 /\ Rejected("CANCEL_ORDER", m)
    /\ Handled /\ UNCHANGED pending

(* Mutant: a refused cancel is not reported, as nothing has changed.       *)
SilentRefusal ==
    /\ Arrived("order_cancel")
    /\ LET m == Head(inbox) IN
          \/ m.status = 200 /\ Accepted("CANCEL_ORDER", m)
          \/ m.status # 200 /\ UNCHANGED <<oms, responses>>
    /\ Handled /\ UNCHANGED pending

(* Mutant: the status of the answer is not looked at.                      *)
AnyStatus ==
    /\ Arrived("order_cancel")
    /\ Accepted("CANCEL_ORDER", Head(inbox))
    /\ Handled /\ UNCHANGED pending

TradeOrderCancel ==
    /\ Arrived("order_cancel")
    /\ LET m == Head(inbox) IN
          \/ m.status = 200 /\ Accepted("CANCEL_ORDER", m)
          \/ m.status # 200 /\ Rejected("CANCEL_ORDER", m)
    /\ Handled /\ UNCHANGED pending

(* The acknowledgement has no symbol and the result, the cancelled orders, *)
(* is not used.                                                            *)
TradeOrderCancelCP ==
    /\ Arrived("order_cancel_cp")
    /\ LET m == Head(inbox) IN
          /\ Dispatch(m.request, Response("CANCEL_ALL_ORDERS",
                          IF m.status = 200 THEN "ACCEPTED" ELSE "REJECTED"))
          /\ pending' = [pending EXCEPT ![m.request.number] = @ \ {m.symbol}]
    /\ Handled /\ UNCHANGED oms

TradeOrders ==
    /\ Arrived("orders")
    /\ OrderUpdate(Head(inbox).text, Head(inbox).order_status)
    /\ Handled /\ UNCHANGED <<responses, pending>>

Disconnected ==
    /\ socket = "up"
    /\ socket' = "down" /\ outbox' = <<>> /\ inbox' = <<>>
    /\ UNCHANGED <<asked, exch, oms, responses, pending, covered>>

-----------------------------------------------------------------------------
(* The exchange takes the frames in the order they were sent.  An update   *)
(* is pushed before or after the answer.                                   *)

Reply(frames) ==
    /\ outbox' = Tail(outbox) /\ inbox' = inbox \o frames
    /\ UNCHANGED <<socket, asked, oms, responses, pending, covered>>

Taken(c) == outbox # <<>> /\ Head(outbox).channel = c

(* Taken, and perhaps filled at once; or refused, before or after it was   *)
(* acknowledged.                                                           *)
ExchangeOrderPlace ==
    /\ Taken("order_place")
    /\ LET f == Head(outbox)
           o == f.request.order
           received == Ok(f, NoOrder, "none")
       IN
          \/ \E st \in {"open", "closed"} :
                /\ exch' = [exch EXCEPT ![o] = st]
                /\ \/ Reply(<<received, Ok(f, o, st), Update(o, st)>>)
                   \/ Reply(<<received, Update(o, st), Ok(f, o, st)>>)
          \/ Reply(<<received, Refused(f)>>) /\ UNCHANGED exch
          \/ Reply(<<Refused(f)>>) /\ UNCHANGED exch

(* A new price may close the order.                                        *)
ExchangeOrderAmend ==
    /\ Taken("order_amend")
    /\ LET f == Head(outbox)
           o == f.request.order
       IN
          \/ /\ exch[o] = "open"
             /\ \E st \in {"open", "closed"} :
                   /\ exch' = [exch EXCEPT ![o] = st]
                   /\ \/ Reply(<<Ok(f, o, st), Update(o, st)>>)
                      \/ Reply(<<Update(o, st), Ok(f, o, st)>>)
          \/ Reply(<<Refused(f)>>) /\ UNCHANGED exch

ExchangeOrderCancel ==
    /\ Taken("order_cancel")
    /\ LET f == Head(outbox)
           o == f.request.order
       IN
          \/ /\ exch[o] = "open"
             /\ exch' = [exch EXCEPT ![o] = "closed"]
             /\ \/ Reply(<<Ok(f, o, "closed"), Update(o, "closed")>>)
                \/ Reply(<<Update(o, "closed"), Ok(f, o, "closed")>>)
          \/ Reply(<<Refused(f)>>) /\ UNCHANGED exch

ExchangeOrderCancelCP ==
    /\ Taken("order_cancel_cp")
    /\ LET f == Head(outbox)
           open == {o \in Orders : SymbolOf[o] = f.symbol /\ exch[o] = "open"}
           pushed(q) == [i \in DOMAIN q |-> Update(q[i], "closed")]
       IN
          \/ /\ exch' = [o \in Orders |-> IF o \in open THEN "closed" ELSE exch[o]]
             /\ \E q \in SetToSeqs(open) :
                   \/ Reply(Append(pushed(q), CancelAck(f, 200)))
                   \/ Reply(<<CancelAck(f, 200)>> \o pushed(q))
          \/ Reply(<<CancelAck(f, 400)>>) /\ UNCHANGED exch

ExchangeFinish(o) ==
    /\ socket = "up" /\ exch[o] = "open"
    /\ exch' = [exch EXCEPT ![o] = "closed"]
    /\ inbox' = Append(inbox, Update(o, "closed"))
    /\ UNCHANGED <<socket, asked, outbox, oms, responses, pending, covered>>

-----------------------------------------------------------------------------
Ask ==
    /\ Len(outbox) + Len(inbox) < MaxFrames
    /\ \/ \E o \in Orders : CreateOrder(o) \/ ModifyOrder(o) \/ CancelOrder(o)
       \/ \E n \in CancelAlls : CancelAllOrders(n)

Receive ==
    TradeOrderPlace \/ TradeOrderAmend \/ TradeOrderCancel \/ TradeOrderCancelCP \/ TradeOrders

Exchange ==
    ExchangeOrderPlace \/ ExchangeOrderAmend \/ ExchangeOrderCancel \/ ExchangeOrderCancelCP

Next ==
    \/ Ask \/ Receive \/ Exchange \/ Disconnected
    \/ \E o \in Orders : ExchangeFinish(o)

Spec == Init /\ [][Next]_vars

(* The event loop reads what arrived; the exchange takes what was sent.    *)
Fairness == WF_vars(Receive) /\ WF_vars(Exchange)

FairSpec == Spec /\ Fairness

-----------------------------------------------------------------------------
(* Every variable stays within its type: a frame is a request of its       *)
(* channel or an answer to one.                                            *)
TypeOK ==
    /\ socket \in {"up", "down"}
    /\ asked \subseteq Request
    /\ exch \in [Orders -> {"none", "open", "closed"}]
    /\ oms \in [Orders -> {"none", "live", "finished"}]
    /\ pending \in [CancelAlls -> SUBSET Symbols]
    /\ covered \in [CancelAlls -> SUBSET Orders]
    /\ \A i \in DOMAIN outbox : outbox[i].request \in asked
    /\ \A i \in DOMAIN inbox :
          inbox[i].channel = "orders" \/ inbox[i].request \in asked
    /\ \A r \in Request : \A i \in DOMAIN responses[r] :
          responses[r][i].type \in RequestType \cup {"CANCEL_ALL_ORDERS"}

(* An order request is answered at most once, although the exchange        *)
(* acknowledges a new order twice (TradeOrderPlace); a cancel-all once for *)
(* each symbol it was sent for.                                            *)
AnsweredOnce ==
    /\ \A r \in OrderRequest : Len(responses[r]) <= 1
    /\ \A n \in CancelAlls :
          Len(responses[CancelAllId(n)]) + Cardinality(pending[n])
              <= Cardinality({SymbolOf[o] : o \in covered[n]})

(* An answer of this type and status was dispatched for this request.      *)
Got(r, t, s) == \E i \in DOMAIN responses[r] : responses[r][i] = Response(t, s)

(* What the OMS is told is what happened: a new order that was accepted    *)
(* got to the exchange and one that was refused never does, a change that  *)
(* was accepted is of an order the exchange knows, a cancel that was       *)
(* accepted closed the order, and what the OMS holds for finished is not   *)
(* open.  It is not about the type of an answer (AnswerHasTheType).        *)
AnswersAreTrue ==
    \A o \in Orders :
        /\ Got(RequestId("CREATE_ORDER", o), "CREATE_ORDER", "ACCEPTED") => exch[o] # "none"
        /\ Got(RequestId("CREATE_ORDER", o), "CREATE_ORDER", "REJECTED") => exch[o] = "none"
        /\ Got(RequestId("MODIFY_ORDER", o), "MODIFY_ORDER", "ACCEPTED") => exch[o] # "none"
        /\ Got(RequestId("CANCEL_ORDER", o), "CANCEL_ORDER", "ACCEPTED") => exch[o] = "closed"
        /\ oms[o] = "finished" => exch[o] # "open"

(* When everything was cancelled, and every symbol was answered without a  *)
(* refusal, none of the orders the OMS had then is open, although orders   *)
(* were on their way to the exchange (CancelAllOrders).                    *)
CancelAllIsComplete ==
    \A n \in CancelAlls :
        (/\ CancelAllId(n) \in asked /\ pending[n] = {}
         /\ ~Got(CancelAllId(n), "CANCEL_ALL_ORDERS", "REJECTED"))
        => \A o \in covered[n] : exch[o] # "open"

(* The response to a request names the type of the request.                *)
AnswerHasTheType ==
    \A r \in Request : \A i \in DOMAIN responses[r] : responses[r][i].type = r.type

(* While the connection lasts, every order request gets its answer, and a  *)
(* cancel-all one for each symbol it was sent for.                         *)
EventuallyAnswered ==
    /\ \A r \in OrderRequest :
          r \in asked ~> (responses[r] # <<>> \/ socket = "down")
    /\ \A n \in CancelAlls :
          CancelAllId(n) \in asked ~> (pending[n] = {} \/ socket = "down")
=============================================================================
