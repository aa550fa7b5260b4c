--------------------------- MODULE DropCopyProofs ---------------------------
(***************************************************************************)
(* Proofs about DropCopy, for every set of orders, every flag and every    *)
(* bound: the types, that the download never falls out of step with the    *)
(* socket, and that what the OMS is told of an order is never older than   *)
(* what it was told before and in the end is what the exchange has.        *)
(***************************************************************************)
EXTENDS DropCopy, FiniteSetTheorems, SequenceTheorems, TLAPS

-----------------------------------------------------------------------------
(* What the number of frames in a queue becomes when frames are added at   *)
(* its end or the first one is taken.                                      *)

LEMMA FrameSetFinite ==
    ASSUME NEW S, NEW s \in Seq(S), NEW types
    PROVE  IsFiniteSet({i \in DOMAIN s : s[i].type \in types})
<1>1. IsFiniteSet(1..Len(s))
  BY FS_Interval
<1>2. {i \in DOMAIN s : s[i].type \in types} \in SUBSET (1..Len(s))
  OBVIOUS
<1>. QED
  BY <1>1, <1>2, FS_Subset

LEMMA CountType ==
    ASSUME NEW S, NEW s \in Seq(S), NEW types
    PROVE  Count(s, types) \in Nat
BY FrameSetFinite, FS_CardinalityType DEF Count

(* The queue holds no such frame exactly if the count is zero.             *)
LEMMA CountZero ==
    ASSUME NEW S, NEW s \in Seq(S), NEW types
    PROVE  Count(s, types) = 0 <=> \A i \in DOMAIN s : s[i].type \notin types
<1>1. Count(s, types) = 0 <=> {i \in DOMAIN s : s[i].type \in types} = {}
  BY FrameSetFinite, FS_EmptySet DEF Count
<1>. QED
  BY <1>1

LEMMA CountEmpty ==
    ASSUME NEW types
    PROVE  Count(<<>>, types) = 0
<1>1. <<>> \in Seq({}) /\ \A i \in DOMAIN <<>> : <<>>[i].type \notin types
  OBVIOUS
<1>. QED
  BY <1>1, CountZero

(* All frames count if all are of these types.                             *)
LEMMA CountAll ==
    ASSUME NEW S, NEW s \in Seq(S), NEW types,
           \A i \in DOMAIN s : s[i].type \in types
    PROVE  Count(s, types) = Len(s)
<1>1. {i \in DOMAIN s : s[i].type \in types} = 1..Len(s)
  OBVIOUS
<1>2. Len(s) \in Int /\ 1 \in Int /\ Len(s) >= 0
  OBVIOUS
<1>3. Cardinality(1..Len(s)) = IF 1 > Len(s) THEN 0 ELSE Len(s) - 1 + 1
  BY <1>2, FS_Interval
<1>4. Cardinality(1..Len(s)) = Len(s)
  BY <1>2, <1>3
<1>. QED
  BY <1>1, <1>4, Zenon DEF Count

(* The counts of the two parts add up.                                     *)
LEMMA CountConcat ==
    ASSUME NEW S, NEW s \in Seq(S), NEW t \in Seq(S), NEW types
    PROVE  Count(s \o t, types) = Count(s, types) + Count(t, types)
<1>. DEFINE A == {i \in DOMAIN s : s[i].type \in types}
            B == {i \in DOMAIN t : t[i].type \in types}
            C == {i \in DOMAIN (s \o t) : (s \o t)[i].type \in types}
            shift == [i \in B |-> i + Len(s)]
            D == {i + Len(s) : i \in B}
<1>1. IsFiniteSet(A) /\ IsFiniteSet(B)
  BY FrameSetFinite
<1>2. C = A \cup D
  <2>1. \A i \in DOMAIN s : i \in DOMAIN (s \o t) /\ (s \o t)[i] = s[i]
    OBVIOUS
  <2>2. \A i \in DOMAIN t : i + Len(s) \in DOMAIN (s \o t) /\ (s \o t)[i + Len(s)] = t[i]
    OBVIOUS
  <2>3. \A i \in DOMAIN (s \o t) : i \in DOMAIN s \/ \E j \in DOMAIN t : i = j + Len(s)
    <3>1. ASSUME NEW i \in DOMAIN (s \o t), i \notin DOMAIN s
          PROVE  i - Len(s) \in DOMAIN t /\ i = (i - Len(s)) + Len(s)
      BY <3>1
    <3>. QED
      BY <3>1
  <2>. QED
    BY <2>1, <2>2, <2>3
<1>3. A \cap D = {}
  OBVIOUS
<1>4. shift \in Bijection(B, D)
  <2>1. \A i \in B : i \in Nat
    OBVIOUS
  <2>2. \A i, j \in B : shift[i] = shift[j] => i = j
    BY <2>1
  <2>3. \A d \in D : \E i \in B : shift[i] = d
    OBVIOUS
  <2>4. shift \in [B -> D]
    OBVIOUS
  <2>. QED
    BY <2>2, <2>3, <2>4, Zenon DEF Bijection, Injection, Surjection, IsInjective
<1>5. IsFiniteSet(D) /\ Cardinality(D) = Cardinality(B)
  BY <1>1, <1>4, FS_Bijection DEF ExistsBijection
<1>6. Cardinality(A \cup D) = Cardinality(A) + Cardinality(D)
  <2>1. Cardinality(A \cup D) = Cardinality(A) + Cardinality(D) - Cardinality(A \cap D)
    BY <1>1, <1>5, FS_Union
  <2>2. Cardinality(A) \in Nat /\ Cardinality(D) \in Nat
    BY <1>1, <1>5, FS_CardinalityType
  <2>3. Cardinality(A \cap D) = 0
    BY <1>3, FS_EmptySet
  <2>. QED
    BY <2>1, <2>2, <2>3
<1>. QED
  BY <1>2, <1>5, <1>6 DEF Count

LEMMA CountOne ==
    ASSUME NEW m, NEW types
    PROVE  Count(<<m>>, types) = IF m.type \in types THEN 1 ELSE 0
<1>1. /\ <<m>> \in Seq({m}) /\ Len(<<m>>) = 1
      /\ \A i \in DOMAIN <<m>> : <<m>>[i] = m
  OBVIOUS
<1>2. CASE m.type \in types
  BY <1>1, <1>2, CountAll
<1>3. CASE m.type \notin types
  BY <1>1, <1>3, CountZero
<1>. QED
  BY <1>2, <1>3

(* Taking the first frame takes it from the count.                         *)
LEMMA CountTail ==
    ASSUME NEW S, NEW s \in Seq(S), NEW types, s # <<>>
    PROVE  Count(s, types) =
              Count(Tail(s), types) + (IF Head(s).type \in types THEN 1 ELSE 0)
<1>1. s = <<Head(s)>> \o Tail(s) /\ <<Head(s)>> \in Seq(S) /\ Tail(s) \in Seq(S)
  OBVIOUS
<1>2. Count(s, types) = Count(<<Head(s)>>, types) + Count(Tail(s), types)
  BY <1>1, CountConcat
<1>3. Count(<<Head(s)>>, types) \in Nat /\ Count(Tail(s), types) \in Nat
  BY <1>1, CountType
<1>. QED
  BY <1>2, <1>3, CountOne

-----------------------------------------------------------------------------
(* The frames are frames.                                                  *)

LEMMA ToExchangeFrames ==
    /\ Login \in ToExchange
    /\ OrderList \in ToExchange
    /\ \A c \in Channels : Subscribe(c) \in ToExchange
    /\ \A o \in Orders : /\ OrderQuery(o) \in ToExchange
                         /\ OrderPlace(o) \in ToExchange
                         /\ OrderCancel(o) \in ToExchange
BY DEF ToExchange

LEMMA ToGatewayFrames ==
    /\ \A s \in {"success", "fail"} :
          /\ LoginAck(s) \in ToGateway
          /\ \A c \in Channels : SubscribeAck(c, s) \in ToGateway
    /\ \A S \in SUBSET Orders : OrderListAck(S) \in ToGateway
    /\ \A o \in Orders :
          /\ \A s \in ExchangeStatus \cup {"error"} : OrderQueryAck(o, s) \in ToGateway
          /\ \A s \in {"received", "open", "closed", "rejected"} :
                OrderPlaceAck(o, s) \in ToGateway
          /\ \A s \in {"closed", "rejected"} : OrderCancelAck(o, s) \in ToGateway
          /\ \A s \in {"open", "closed"} : OrderUpdate(o, s) \in ToGateway
BY DEF ToGateway

LEMMA NoFrames == <<>> \in Seq(ToExchange) /\ <<>> \in Seq(ToGateway)
OBVIOUS

(* What a frame of a type carries.                                         *)
LEMMA ToExchangeType ==
    ASSUME NEW m \in ToExchange
    PROVE  /\ m.type \in {"login", "order_list", "subscribe", "order_status",
                          "order_place", "order_cancel"}
           /\ m.type = "subscribe" => m.channel \in Channels
           /\ m.type \in {"order_status", "order_place", "order_cancel"} =>
                 m.order \in Orders
BY DEF ToExchange, Login, OrderList, Subscribe, OrderQuery, OrderPlace, OrderCancel

LEMMA ToGatewayType ==
    ASSUME NEW m \in ToGateway
    PROVE  /\ m.type \in {"login", "order_list", "subscribe", "order_status",
                          "order_place", "order_cancel", "orders"}
           /\ m.type = "subscribe" => m.channel \in Channels
           /\ m.type = "order_list" => m.open \subseteq Orders
           /\ m.type \in {"order_status", "order_place", "order_cancel", "orders"} =>
                 m.order \in Orders
BY DEF ToGateway, LoginAck, SubscribeAck, OrderListAck, OrderQueryAck, OrderPlaceAck,
       OrderCancelAck, OrderUpdate

-----------------------------------------------------------------------------
(* The download sequence.                                                  *)

LEMMA NextStateType ==
    ASSUME NEW s \in State, NEW n \in Nat
    PROVE  NextState(s, n) \in State \ {"UNDEFINED"}
BY DEF NextState, Skipped, Successor, State

LEMMA FramesType ==
    ASSUME NEW s \in State
    PROVE  Frames(s) \in Seq(ToExchange)
BY ToExchangeFrames DEF Frames, SubscribeState, Channels

LEMMA StaleQueriesType ==
    ASSUME NEW S \in SUBSET Orders, NEW q \in StaleQueries(S)
    PROVE  /\ q \in Seq(ToExchange)
           /\ \A i \in DOMAIN q : q[i].type = "order_status"
<1>1. Cardinality(S) \in Nat
  BY DropCopyAssumption, FS_Subset, FS_CardinalityType DEF DropCopyAssumption
<1>2. q \in [1..Cardinality(S) -> {OrderQuery(o) : o \in S}]
  BY DEF StaleQueries
<1>3. \A i \in DOMAIN q : q[i] \in ToExchange /\ q[i].type = "order_status"
  BY <1>2, ToExchangeFrames DEF OrderQuery
<1>4. q \in [1..Cardinality(S) -> ToExchange]
  BY <1>2, <1>3
<1>. QED
  BY <1>1, <1>3, <1>4, SeqDef

-----------------------------------------------------------------------------
(* Type correctness.                                                       *)

LEMMA ArrivedType ==
    ASSUME TypeOK, NEW type, Arrived(type)
    PROVE  /\ Head(inbox) \in ToGateway
           /\ Head(inbox).type = type
           /\ Tail(inbox) \in Seq(ToGateway)
BY DEF TypeOK, Arrived

LEMMA RequestedType ==
    ASSUME TypeOK, NEW type, Requested(type)
    PROVE  /\ Head(outbox) \in ToExchange
           /\ Head(outbox).type = type
           /\ Tail(outbox) \in Seq(ToExchange)
BY DEF TypeOK, Requested

LEMMA MoveOnType ==
    ASSUME TypeOK, NEW s \in State, NEW n \in Nat, NEW sent \in Seq(ToExchange),
           MoveOn(s, n, sent)
    PROVE  /\ connection_status' \in {"DOWNLOADING", "READY"}
           /\ ready' \in BOOLEAN
           /\ state' \in State
           /\ request' \in [Requests -> {"idle", "pending", "done"}]
           /\ outbox' \in Seq(ToExchange)
           /\ fatal' \in {fatal, "assert"}
<1>. DEFINE t == NextState(s, n)
<1>1. t \in State
  BY NextStateType
<1>2. Frames(t) \in Seq(ToExchange)
  BY <1>1, FramesType
<1>3. t \in DOMAIN RequestState => RequestState[t] \in Requests
  BY DEF RequestState, Requests
<1>4. outbox' \in Seq(ToExchange)
  BY <1>2 DEF MoveOn, TypeOK
<1>5. request' \in [Requests -> {"idle", "pending", "done"}]
  BY <1>3 DEF MoveOn, TypeOK
<1>. QED
  BY <1>1, <1>4, <1>5 DEF MoveOn, TypeOK

(* What a handler leaves that has consulted the download.                  *)
CheckedType ==
    /\ connection_status' \in {"DISCONNECTED", "LOGIN_SENT", "DOWNLOADING", "READY"}
    /\ ready' \in BOOLEAN
    /\ state' \in State
    /\ request' \in [Requests -> {"idle", "pending", "done"}]
    /\ outbox' \in Seq(ToExchange)
    /\ fatal' \in {fatal, "assert", "download"}

LEMMA StayType ==
    ASSUME TypeOK, NEW sent \in Seq(ToExchange), Stay(sent)
    PROVE  CheckedType
BY DEF TypeOK, Stay, CheckedType

LEMMA CheckRelaxedType ==
    ASSUME TypeOK, NEW s \in State, NEW n \in Nat, NEW sent \in Seq(ToExchange),
           CheckRelaxed(s, n, sent)
    PROVE  CheckedType
BY MoveOnType, StayType DEF CheckRelaxed, CheckedType

LEMMA CheckType ==
    ASSUME TypeOK, NEW s \in State, Check(s, counter)
    PROVE  CheckedType
BY MoveOnType, NoFrames DEF Check, CheckedType, TypeOK

LEMMA ReportType ==
    ASSUME TypeOK, NEW S, NEW status \in OrderStatus, Report(S, status)
    PROVE  oms' \in [Orders -> OrderStatus] /\ stale' \subseteq Orders
BY DEF TypeOK, Report

LEMMA PushType ==
    ASSUME NEW o \in Orders, NEW s \in {"open", "closed"}
    PROVE  Push(o, s) \in Seq(ToGateway)
BY ToGatewayFrames DEF Push

(* What the gateway does on its own keeps the types.                       *)
LEMMA GatewayType ==
    ASSUME TypeOK,
           \/ SocketReady \/ Disconnected \/ Timer
           \/ \E o \in Orders : CreateOrder(o) \/ CancelOrder(o)
           \/ \E k \in Requests : RequestCommit(k)
    PROVE  TypeOK'
<1>1. CASE SocketReady
  <2>1. outbox' \in Seq(ToExchange)
    BY <1>1, ToExchangeFrames DEF SocketReady
  <2>2. sessions' \in 0..MaxSessions
    BY <1>1, DropCopyAssumption DEF SocketReady, TypeOK, DropCopyAssumption
  <2>. QED
    BY <1>1, <2>1, <2>2 DEF SocketReady, TypeOK, omsVars, venue
<1>2. CASE Disconnected
  <2>1. outbox' \in Seq(ToExchange) /\ inbox' \in Seq(ToGateway)
    BY <1>2 DEF Disconnected
  <2>2. stale' \subseteq Orders
    BY <1>2 DEF Disconnected, TypeOK
  <2>. QED
    BY <1>2, <2>1, <2>2 DEF Disconnected, Reset, TypeOK, State
<1>3. CASE Timer
  <2>1. \A q \in {<<>>} \cup StaleQueries(stale) : q \in Seq(ToExchange)
    <3>1. stale \subseteq Orders
      BY DEF TypeOK
    <3>2. ASSUME NEW q \in StaleQueries(stale) PROVE q \in Seq(ToExchange)
      BY <3>1, <3>2, StaleQueriesType
    <3>. QED
      BY <3>2, NoFrames, Zenon
  <2>2. ASSUME NEW q \in {<<>>} \cup StaleQueries(stale),
               counter' = counter + Len(q), MoveOn(state, counter, q)
        PROVE  TypeOK'
    <3>1. counter' \in Nat
      BY <2>1, <2>2 DEF TypeOK
    <3>2. /\ connection_status' \in {"DOWNLOADING", "READY"}
          /\ ready' \in BOOLEAN
          /\ state' \in State
          /\ request' \in [Requests -> {"idle", "pending", "done"}]
          /\ outbox' \in Seq(ToExchange)
          /\ fatal' \in {fatal, "assert"}
      BY <2>1, <2>2, MoveOnType DEF TypeOK
    <3>. QED
      BY <1>3, <3>1, <3>2 DEF Timer, TypeOK, omsVars, venue
  <2>3. ASSUME NEW q \in StaleQueries(stale), counter' = counter + Len(q), Stay(q)
        PROVE  TypeOK'
    <3>1. q \in Seq(ToExchange)
      BY <2>1
    <3>2. counter' \in Nat /\ outbox' \in Seq(ToExchange)
      BY <2>3, <3>1 DEF TypeOK, Stay
    <3>. QED
      BY <1>3, <2>3, <3>2 DEF Timer, Stay, TypeOK, omsVars, venue
  <2>. QED
    BY <1>3, <2>2, <2>3 DEF Timer
<1>4. ASSUME NEW o \in Orders, CreateOrder(o)
      PROVE  TypeOK'
  BY <1>4, ToExchangeFrames DEF CreateOrder, TypeOK, OrderStatus, gateway, venue
<1>5. ASSUME NEW o \in Orders, CancelOrder(o)
      PROVE  TypeOK'
  BY <1>5, ToExchangeFrames DEF CancelOrder, TypeOK, gateway, omsVars, venue
<1>6. ASSUME NEW k \in Requests, RequestCommit(k)
      PROVE  TypeOK'
  BY <1>6 DEF RequestCommit, TypeOK, omsVars, wire, venue
<1>. QED
  BY <1>1, <1>2, <1>3, <1>4, <1>5, <1>6

(* So does the handling of each message.                                   *)
LEMMA ReceiveType ==
    ASSUME TypeOK, Receive
    PROVE  TypeOK'
<1>1. CASE TradeLogin
  <2>1. MoveOn("UNDEFINED", counter, <<>>) =>
           /\ connection_status' \in {"DOWNLOADING", "READY"}
           /\ ready' \in BOOLEAN
           /\ state' \in State
           /\ request' \in [Requests -> {"idle", "pending", "done"}]
           /\ outbox' \in Seq(ToExchange)
           /\ fatal' \in {fatal, "assert"}
    BY MoveOnType, NoFrames DEF TypeOK, State
  <2>2. inbox' \in Seq(ToGateway)
    BY <1>1, ArrivedType DEF TradeLogin
  <2>. QED
    BY <1>1, <2>1, <2>2 DEF TradeLogin, TypeOK, gateway, omsVars, venue
<1>2. CASE TradeSubscribe
  <2>1. Head(inbox) \in ToGateway /\ Head(inbox).type = "subscribe"
        /\ inbox' \in Seq(ToGateway)
    BY <1>2, ArrivedType DEF TradeSubscribe
  <2>2. \A s \in State : Check(s, counter) => CheckedType
    BY CheckType
  <2>3. (CHOOSE t \in DOMAIN SubscribeState : SubscribeState[t] = Head(inbox).channel)
           \in State
    BY <2>1, ToGatewayType DEF SubscribeState, Channels, State
  <2>. QED
    BY <1>2, <2>1, <2>2, <2>3 DEF TradeSubscribe, CheckedType, TypeOK, gateway, omsVars, venue
<1>3. CASE TradeOrderList
  <2>1. Head(inbox).open \subseteq Orders /\ inbox' \in Seq(ToGateway)
    BY <1>3, ArrivedType, ToGatewayType DEF TradeOrderList
  <2>2. oms' \in [Orders -> OrderStatus] /\ stale' \subseteq Orders
    BY <1>3, ReportType DEF TradeOrderList, OrderStatus
  <2>3. PICK q \in StaleQueries(stale') :
           counter' = counter + Len(q) /\ CheckRelaxed("GET_OPEN_ORDERS", counter', q)
    BY <1>3 DEF TradeOrderList
  <2>4. q \in Seq(ToExchange)
    BY <2>2, <2>3, StaleQueriesType
  <2>5. counter' \in Nat
    BY <2>3, <2>4 DEF TypeOK
  <2>6. CheckedType
    BY <2>3, <2>4, <2>5, CheckRelaxedType DEF State
  <2>. QED
    BY <1>3, <2>1, <2>2, <2>5, <2>6 DEF TradeOrderList, CheckedType, TypeOK, venue
<1>4. CASE TradeOrderStatus
  <2>1. /\ Head(inbox) \in ToGateway
        /\ Head(inbox).order \in Orders
        /\ inbox' \in Seq(ToGateway)
    BY <1>4, ArrivedType, ToGatewayType DEF TradeOrderStatus
  <2>2. oms' \in [Orders -> OrderStatus] /\ stale' \subseteq Orders
    BY <1>4, ReportType DEF TradeOrderStatus, StatusOf, OrderStatus, omsVars, TypeOK
  <2>3. CASE counter > 0
    <3>1. counter' \in Nat
      BY <1>4, <2>3 DEF TradeOrderStatus, TypeOK
    <3>2. CheckedType
      BY <1>4, <2>3, NoFrames, CheckRelaxedType, StayType DEF TradeOrderStatus, State
    <3>. QED
      BY <1>4, <2>1, <2>2, <3>1, <3>2 DEF TradeOrderStatus, CheckedType, TypeOK, venue
  <2>4. CASE ~(counter > 0)
    BY <1>4, <2>1, <2>2, <2>4 DEF TradeOrderStatus, TypeOK, gateway, venue
  <2>. QED
    BY <2>3, <2>4
<1>5. CASE TradeOrders
  <2>1. Head(inbox).order \in Orders /\ inbox' \in Seq(ToGateway)
    BY <1>5, ArrivedType, ToGatewayType DEF TradeOrders
  <2>2. oms' \in [Orders -> OrderStatus] /\ stale' \subseteq Orders
    BY <1>5, <2>1, ReportType DEF TradeOrders, StatusOf, OrderStatus
  <2>. QED
    BY <1>5, <2>1, <2>2 DEF TradeOrders, TypeOK, gateway, venue
<1>6. CASE TradeOrderPlace
  <2>1. inbox' \in Seq(ToGateway)
    BY <1>6, ArrivedType DEF TradeOrderPlace
  <2>2. oms' \in [Orders -> OrderStatus] /\ stale' \subseteq Orders
    BY <1>6, ReportType DEF TradeOrderPlace, StatusOf, OrderStatus, omsVars, TypeOK
  <2>. QED
    BY <1>6, <2>1, <2>2 DEF TradeOrderPlace, TypeOK, gateway, venue
<1>7. CASE TradeOrderCancel
  <2>1. inbox' \in Seq(ToGateway)
    BY <1>7, ArrivedType DEF TradeOrderCancel
  <2>2. oms' \in [Orders -> OrderStatus] /\ stale' \subseteq Orders
    BY <1>7, ReportType DEF TradeOrderCancel, OrderStatus, omsVars, TypeOK
  <2>. QED
    BY <1>7, <2>1, <2>2 DEF TradeOrderCancel, TypeOK, gateway, venue
<1>. QED
  BY <1>1, <1>2, <1>3, <1>4, <1>5, <1>6, <1>7 DEF Receive

(* The exchange answers with frames.                                       *)
LEMMA ExchangeType ==
    ASSUME TypeOK, Exchange \/ \E o \in Orders : ExchangeFinish(o)
    PROVE  TypeOK'
<1>. DEFINE Answers(exch2, subscribed2) ==
              \E frames \in Seq(ToGateway) :
                 /\ Reply(frames)
                 /\ exch2 \in [Orders -> ExchangeStatus]
                 /\ subscribed2 \subseteq Channels
<1>1. ASSUME NEW type, Requested(type), Answers(exch', subscribed')
      PROVE  TypeOK'
  <2>1. PICK frames \in Seq(ToGateway) : Reply(frames)
    BY <1>1
  <2>2. outbox' \in Seq(ToExchange) /\ inbox' \in Seq(ToGateway)
    BY <1>1, <2>1, RequestedType DEF Reply, TypeOK
  <2>. QED
    BY <1>1, <2>1, <2>2 DEF Reply, TypeOK, gateway, omsVars
<1>2. CASE ExchangeLogin
  <2>1. <<LoginAck("success")>> \in Seq(ToGateway) /\ <<LoginAck("fail")>> \in Seq(ToGateway)
    BY ToGatewayFrames
  <2>2. Answers(exch', subscribed')
    BY <1>2, <2>1 DEF ExchangeLogin, TypeOK, venue
  <2>. QED
    BY <1>1, <1>2, <2>2 DEF ExchangeLogin
<1>3. CASE ExchangeSubscribe
  <2>. DEFINE c == Head(outbox).channel
  <2>1. c \in Channels
    BY <1>3, RequestedType, ToExchangeType DEF ExchangeSubscribe
  <2>2. /\ <<SubscribeAck(c, "success")>> \in Seq(ToGateway)
        /\ <<SubscribeAck(c, "fail")>> \in Seq(ToGateway)
    BY <2>1, ToGatewayFrames
  <2>3. Answers(exch', subscribed')
    BY <1>3, <2>1, <2>2 DEF ExchangeSubscribe, TypeOK
  <2>. QED
    BY <1>1, <1>3, <2>3 DEF ExchangeSubscribe
<1>4. CASE ExchangeOrderList
  <2>1. \A S \in SUBSET Orders : <<OrderListAck(S)>> \in Seq(ToGateway)
    BY ToGatewayFrames
  <2>2. {} \in SUBSET Orders /\ {o \in Orders : exch[o] = "open"} \in SUBSET Orders
    OBVIOUS
  <2>3. Answers(exch', subscribed')
    BY <1>4, <2>1, <2>2 DEF ExchangeOrderList, TypeOK, venue
  <2>. QED
    BY <1>1, <1>4, <2>3 DEF ExchangeOrderList
<1>5. CASE ExchangeOrderStatus \/ ExchangeOrderStatusError
  <2>. DEFINE o == Head(outbox).order
  <2>1. o \in Orders
    BY <1>5, RequestedType, ToExchangeType
       DEF ExchangeOrderStatus, ExchangeOrderStatusError
  <2>2. /\ <<OrderQueryAck(o, exch[o])>> \in Seq(ToGateway)
        /\ <<OrderQueryAck(o, "error")>> \in Seq(ToGateway)
    BY <2>1, ToGatewayFrames DEF TypeOK
  <2>3. Answers(exch', subscribed')
    BY <1>5, <2>2 DEF ExchangeOrderStatus, ExchangeOrderStatusError, TypeOK, venue
  <2>. QED
    BY <1>1, <1>5, <2>3 DEF ExchangeOrderStatus, ExchangeOrderStatusError
<1>6. CASE ExchangeOrderPlace
  <2>. DEFINE o == Head(outbox).order
  <2>1. o \in Orders
    BY <1>6, RequestedType, ToExchangeType DEF ExchangeOrderPlace
  <2>2. /\ \A s \in {"open", "closed"} :
              <<OrderPlaceAck(o, "received"), OrderPlaceAck(o, s)>> \o Push(o, s)
                 \in Seq(ToGateway)
        /\ <<OrderPlaceAck(o, "received"), OrderPlaceAck(o, "rejected")>> \in Seq(ToGateway)
    BY <2>1, ToGatewayFrames, PushType
  <2>3. Answers(exch', subscribed')
    BY <1>6, <2>1, <2>2 DEF ExchangeOrderPlace, ExchangeStatus, TypeOK
  <2>. QED
    BY <1>1, <1>6, <2>3 DEF ExchangeOrderPlace
<1>7. CASE ExchangeOrderCancel
  <2>. DEFINE o == Head(outbox).order
  <2>1. o \in Orders
    BY <1>7, RequestedType, ToExchangeType DEF ExchangeOrderCancel
  <2>2. /\ <<OrderCancelAck(o, "closed")>> \o Push(o, "closed") \in Seq(ToGateway)
        /\ <<OrderCancelAck(o, "rejected")>> \in Seq(ToGateway)
    BY <2>1, ToGatewayFrames, PushType
  <2>3. Answers(exch', subscribed')
    BY <1>7, <2>1, <2>2 DEF ExchangeOrderCancel, ExchangeStatus, TypeOK
  <2>. QED
    BY <1>1, <1>7, <2>3 DEF ExchangeOrderCancel
<1>8. ASSUME NEW o \in Orders, ExchangeFinish(o)
      PROVE  TypeOK'
  <2>1. inbox' \in Seq(ToGateway)
    BY <1>8, PushType DEF ExchangeFinish, TypeOK
  <2>. QED
    BY <1>8, <2>1 DEF ExchangeFinish, ExchangeStatus, TypeOK, gateway, omsVars
<1>. QED
  BY <1>2, <1>3, <1>4, <1>5, <1>6, <1>7, <1>8 DEF Exchange

LEMMA InitType == Init => TypeOK
<1>. SUFFICES ASSUME Init PROVE TypeOK
  OBVIOUS
<1>1. sessions \in 0..MaxSessions
  BY DropCopyAssumption DEF Init, DropCopyAssumption
<1>2. exch \in [Orders -> ExchangeStatus] /\ oms \in [Orders -> OrderStatus]
  BY DEF Init, ExchangeStatus, OrderStatus
<1>. QED
  BY <1>1, <1>2, NoFrames DEF Init, TypeOK, State

LEMMA NextType == TypeOK /\ [Next]_vars => TypeOK'
<1>1. CASE UNCHANGED vars
  BY <1>1 DEF vars, TypeOK
<1>. QED
  BY <1>1, GatewayType, ReceiveType, ExchangeType DEF Next

(* Every variable keeps its type, whatever the exchange, the clients and   *)
(* the connection do.                                                      *)
THEOREM TypeCorrect == Spec => []TypeOK
BY InitType, NextType, PTL DEF Spec

-----------------------------------------------------------------------------
(* The inductive invariant IInv and what follows from it: first, queues.  *)

(* Every control frame of the new queue was in the old one.                *)
Kept(old, new) ==
    \A i \in DOMAIN new :
        new[i].type \in ControlTypes => \E j \in DOMAIN old : new[i] = old[j]

NoControl(frames) == \A i \in DOMAIN frames : frames[i].type \notin ControlTypes

LEMMA KeptTail ==
    ASSUME NEW S, NEW s \in Seq(S), s # <<>>
    PROVE  Kept(s, Tail(s))
<1>1. \A i \in DOMAIN Tail(s) : i + 1 \in DOMAIN s /\ Tail(s)[i] = s[i + 1]
  OBVIOUS
<1>. QED
  BY <1>1 DEF Kept

LEMMA KeptConcat ==
    ASSUME NEW S, NEW r \in Seq(S), NEW s \in Seq(S), NEW t \in Seq(S),
           Kept(r, s), NoControl(t)
    PROVE  Kept(r, s \o t)
<1>1. ASSUME NEW i \in DOMAIN (s \o t)
      PROVE  \/ i \in DOMAIN s /\ (s \o t)[i] = s[i]
             \/ i - Len(s) \in DOMAIN t /\ (s \o t)[i] = t[i - Len(s)]
  OBVIOUS
<1>. QED
  BY <1>1 DEF Kept, NoControl

LEMMA OneFrame ==
    ASSUME NEW S, NEW m \in S
    PROVE  <<m>> \in Seq(S)
OBVIOUS

LEMMA NoControlCount ==
    ASSUME NEW S, NEW s \in Seq(S)
    PROVE  NoControl(s) <=> Count(s, ControlTypes) = 0
BY CountZero DEF NoControl

LEMMA CountConcatTwice ==
    ASSUME NEW S, NEW r \in Seq(S), NEW s \in Seq(S), NEW t \in Seq(S), NEW types
    PROVE  Count((r \o s) \o t, types) = (Count(r, types) + Count(s, types)) + Count(t, types)
<1>1. r \o s \in Seq(S)
  OBVIOUS
<1>2. Count(r \o s, types) = Count(r, types) + Count(s, types)
  BY CountConcat
<1>3. \A u \in Seq(S) : Count(u \o t, types) = Count(u, types) + Count(t, types)
  BY CountConcat
<1>. QED
  BY <1>1, <1>2, <1>3, Zenon

(* What is under way when the gateway takes an answer and sends frames.    *)
LEMMA TakeUnderWay ==
    ASSUME TypeOK, NEW type, Arrived(type), inbox' = Tail(inbox),
           NEW sent \in Seq(ToExchange), outbox' = outbox \o sent, NEW types
    PROVE  /\ type \in types => UnderWay(types)' = UnderWay(types) + Count(sent, types) - 1
           /\ type \notin types => UnderWay(types)' = UnderWay(types) + Count(sent, types)
<1>1. Count(inbox, types) = Count(inbox', types) + (IF type \in types THEN 1 ELSE 0)
  BY CountTail DEF TypeOK, Arrived
<1>2. Count(outbox', types) = Count(outbox, types) + Count(sent, types)
  BY CountConcat DEF TypeOK
<1>3. /\ Count(outbox, types) \in Nat
      /\ Count(inbox', types) \in Nat
      /\ Count(sent, types) \in Nat
  BY ArrivedType, CountType DEF TypeOK
<1>. QED
  BY <1>1, <1>2, <1>3 DEF UnderWay

(* What is under way when the exchange answers a frame.                    *)
LEMMA ReplyUnderWay ==
    ASSUME TypeOK, NEW type, Requested(type),
           NEW frames \in Seq(ToGateway), Reply(frames), NEW types
    PROVE  /\ type \in types => UnderWay(types)' = UnderWay(types) + Count(frames, types) - 1
           /\ type \notin types => UnderWay(types)' = UnderWay(types) + Count(frames, types)
<1>1. Count(outbox, types) = Count(outbox', types) + (IF type \in types THEN 1 ELSE 0)
  BY CountTail DEF TypeOK, Requested, Reply
<1>2. Count(inbox', types) = Count(inbox, types) + Count(frames, types)
  BY CountConcat DEF TypeOK, Reply
<1>3. /\ Count(outbox', types) \in Nat
      /\ Count(inbox, types) \in Nat
      /\ Count(frames, types) \in Nat
  BY RequestedType, CountType DEF TypeOK, Reply
<1>. QED
  BY <1>1, <1>2, <1>3 DEF UnderWay

-----------------------------------------------------------------------------
(* Steps that leave the download alone.                                    *)

LEMMA QuietStep ==
    ASSUME IInv, TypeOK', UNCHANGED <<socket, ready, state, subscribed, fatal>>,
           Kept(outbox, outbox'), Kept(inbox, inbox'),
           UnderWay(ControlTypes)' = UnderWay(ControlTypes),
           \A k \in Requests : request[k] # "idle" => request'[k] # "idle",
           QueriesCounted',
           state = "GET_STALE_ORDERS" /\ Running => counter' > 0,
           socket = "down" => outbox' = <<>> /\ inbox' = <<>> /\ counter' = 0
    PROVE  IInv'
<1>1. NeverOutOfStep'
  BY DEF IInv, NeverOutOfStep
<1>2. DownloadIsAwaited'
  <2>. SUFFICES ASSUME socket = "up", Running
                PROVE  /\ AllAwaited(outbox)' /\ AllAwaited(inbox)'
                       /\ UnderWay(ControlTypes)' = IF state' \in AnsweredStates THEN 1 ELSE 0
                       /\ state' = "GET_STALE_ORDERS" => counter' > 0
                       /\ state' \in DOMAIN RequestState
                             => request'[RequestState[state']] # "idle"
    BY DEF DownloadIsAwaited, Running
  <2>1. AllAwaited(outbox)' /\ AllAwaited(inbox)'
    BY DEF IInv, DownloadIsAwaited, AllAwaited, Kept
  <2>2. UnderWay(ControlTypes)' = IF state' \in AnsweredStates THEN 1 ELSE 0
    BY DEF IInv, DownloadIsAwaited
  <2>3. state' \in DOMAIN RequestState => request'[RequestState[state']] # "idle"
    BY DEF IInv, DownloadIsAwaited, RequestState, Requests
  <2>. QED
    BY <2>1, <2>2, <2>3
<1>3. SessionConsistent'
  <2>. SUFFICES ASSUME Running
                PROVE  /\ (ready <=> state = "DONE")'
                       /\ socket' # "up" => state' = "UNDEFINED"
                       /\ socket' = "down" => outbox' = <<>> /\ inbox' = <<>>
                                               /\ counter' = 0 /\ subscribed' = {}
                       /\ Passed[state'] \subseteq subscribed'
                       /\ \A i \in DOMAIN inbox' :
                             (inbox'[i].type = "subscribe" /\ inbox'[i].status = "success")
                                => inbox'[i].channel \in subscribed'
    BY DEF SessionConsistent, Running
  <2>1. \A i \in DOMAIN inbox' :
           (inbox'[i].type = "subscribe" /\ inbox'[i].status = "success")
              => inbox'[i].channel \in subscribed'
    BY DEF IInv, SessionConsistent, Kept, ControlTypes
  <2>. QED
    BY <2>1 DEF IInv, SessionConsistent
<1>. QED
  BY <1>1, <1>2, <1>3 DEF IInv

(* Taking an answer that is not about the download.                        *)
LEMMA QuietTake ==
    ASSUME IInv, TypeOK', NEW type, Arrived(type), type \notin ControlTypes,
           inbox' = Tail(inbox), NEW sent \in Seq(ToExchange), NoControl(sent),
           outbox' = outbox \o sent
    PROVE  /\ Kept(outbox, outbox') /\ Kept(inbox, inbox')
           /\ UnderWay(ControlTypes)' = UnderWay(ControlTypes)
<1>1. Count(sent, ControlTypes) = 0
  BY NoControlCount
<1>2. UnderWay(ControlTypes)' = UnderWay(ControlTypes) + 0 - 0
  BY <1>1, TakeUnderWay DEF IInv
<1>3. UnderWay(ControlTypes) \in Nat
  BY CountType DEF UnderWay, IInv, TypeOK
<1>4. Kept(outbox, outbox) /\ Kept(inbox, Tail(inbox))
  BY KeptTail DEF Kept, Arrived, IInv, TypeOK
<1>. QED
  BY <1>2, <1>3, <1>4, KeptConcat DEF IInv, TypeOK

(* Handlers that only report an order.                                     *)
LEMMA QuietReceive ==
    ASSUME IInv, TypeOK', TradeOrders \/ TradeOrderPlace \/ TradeOrderCancel
    PROVE  IInv'
<1>1. PICK type \in {"orders", "order_place", "order_cancel"} : Arrived(type)
  BY DEF TradeOrders, TradeOrderPlace, TradeOrderCancel
<1>2. /\ inbox' = Tail(inbox) /\ outbox' = outbox
      /\ UNCHANGED <<socket, ready, state, counter, request, subscribed, fatal>>
  BY DEF TradeOrders, TradeOrderPlace, TradeOrderCancel, gateway, venue
<1>3. outbox' = outbox \o <<>> /\ NoControl(<<>>) /\ <<>> \in Seq(ToExchange)
  BY <1>2 DEF IInv, TypeOK, NoControl
<1>4. /\ Kept(outbox, outbox') /\ Kept(inbox, inbox')
      /\ UnderWay(ControlTypes)' = UnderWay(ControlTypes)
  BY <1>1, <1>2, <1>3, QuietTake DEF ControlTypes
<1>5. QueriesCounted'
  <2>1. Count(<<>>, QueryTypes) = 0
    BY CountEmpty
  <2>2. type \notin QueryTypes
    BY <1>1 DEF QueryTypes
  <2>3. UnderWay(QueryTypes)' = UnderWay(QueryTypes) + Count(<<>>, QueryTypes)
    BY <1>1, <1>2, <1>3, <2>2, TakeUnderWay, Zenon DEF IInv
  <2>4. UnderWay(QueryTypes) \in Nat
    BY CountType DEF UnderWay, IInv, TypeOK
  <2>. QED
    BY <1>2, <2>1, <2>2, <2>3, <2>4 DEF IInv, QueriesCounted, Running
<1>. QED
  BY <1>1, <1>2, <1>4, <1>5, QuietStep DEF IInv, DownloadIsAwaited, Arrived

-----------------------------------------------------------------------------
(* Steps of the exchange.                                                  *)

(* The exchange answers an order request or a status query.                *)
LEMMA QuietReply ==
    ASSUME IInv, TypeOK', NEW type, Requested(type), type \notin ControlTypes,
           NEW frames \in Seq(ToGateway), Reply(frames), NoControl(frames),
           subscribed' = subscribed,
           Count(frames, QueryTypes) = IF type \in QueryTypes THEN 1 ELSE 0
    PROVE  IInv'
<1>1. /\ UNCHANGED <<socket, ready, state, counter, request, subscribed, fatal>>
      /\ outbox' = Tail(outbox) /\ inbox' = inbox \o frames /\ socket = "up"
  BY DEF Reply, Requested, gateway
<1>2. Kept(outbox, outbox') /\ Kept(inbox, inbox')
  <2>1. Kept(outbox, Tail(outbox)) /\ Kept(inbox, inbox)
    BY KeptTail DEF Kept, Requested, IInv, TypeOK
  <2>. QED
    BY <1>1, <2>1, KeptConcat DEF IInv, TypeOK
<1>3. UnderWay(ControlTypes)' = UnderWay(ControlTypes)
  <2>1. Count(frames, ControlTypes) = 0
    BY NoControlCount
  <2>2. UnderWay(ControlTypes)' = UnderWay(ControlTypes) + 0 - 0
    BY <2>1, ReplyUnderWay DEF IInv
  <2>. QED
    BY <2>2, CountType DEF UnderWay, IInv, TypeOK
<1>4. QueriesCounted'
  <2>1. UnderWay(QueryTypes)' = UnderWay(QueryTypes)
           + (IF type \in QueryTypes THEN 1 ELSE 0) - (IF type \in QueryTypes THEN 1 ELSE 0)
    BY ReplyUnderWay DEF IInv
  <2>2. UnderWay(QueryTypes) \in Nat
    BY CountType DEF UnderWay, IInv, TypeOK
  <2>. QED
    BY <1>1, <2>1, <2>2 DEF IInv, QueriesCounted, Running
<1>. QED
  BY <1>1, <1>2, <1>3, <1>4, QuietStep DEF IInv, DownloadIsAwaited

(* Frames about orders, none of which answers a query.                     *)
OrderTypes == {"order_place", "order_cancel", "orders"}

LEMMA OrderFrames ==
    ASSUME NEW frames \in Seq(ToGateway), \A i \in DOMAIN frames : frames[i].type \in OrderTypes
    PROVE  NoControl(frames) /\ Count(frames, QueryTypes) = 0
<1>1. \A i \in DOMAIN frames : frames[i].type \notin QueryTypes
  BY DEF OrderTypes, QueryTypes
<1>. QED
  BY <1>1, CountZero DEF NoControl, OrderTypes, ControlTypes

LEMMA PushFrames ==
    ASSUME NEW o \in Orders, NEW s \in {"open", "closed"}
    PROVE  /\ Push(o, s) \in Seq(ToGateway)
           /\ \A i \in DOMAIN Push(o, s) : Push(o, s)[i].type \in OrderTypes
<1>1. CASE "orders" \in subscribed
  <2>1. Push(o, s) = <<OrderUpdate(o, s)>> /\ OrderUpdate(o, s).type \in OrderTypes
    BY <1>1 DEF Push, OrderUpdate, OrderTypes
  <2>2. \A i \in DOMAIN Push(o, s) : Push(o, s)[i] = OrderUpdate(o, s)
    BY <2>1
  <2>. QED
    BY <2>1, <2>2, PushType
<1>2. CASE "orders" \notin subscribed
  BY <1>2, PushType DEF Push
<1>. QED
  BY <1>1, <1>2

(* The exchange answers a request of the download: the answer is as much   *)
(* awaited as the request was, and a channel is subscribed before it is    *)
(* acknowledged.                                                           *)
LEMMA ControlReply ==
    ASSUME IInv, TypeOK', NEW type \in ControlTypes, Requested(type),
           NEW m \in ToGateway, m.type = type,
           NEW frames \in Seq(ToGateway), frames = <<m>>, Reply(frames),
           Awaits(state, Head(outbox)) => Awaits(state, m),
           subscribed \subseteq subscribed',
           m.type = "subscribe" /\ m.status = "success" => m.channel \in subscribed'
    PROVE  IInv'
<1>1. /\ UNCHANGED <<socket, ready, state, counter, request, fatal>>
      /\ outbox' = Tail(outbox) /\ inbox' = inbox \o frames /\ socket = "up"
      /\ outbox # <<>> /\ Running
  BY DEF Reply, Requested, gateway
<1>2. /\ \A i \in DOMAIN outbox' : \E j \in DOMAIN outbox : outbox'[i] = outbox[j]
      /\ \A i \in DOMAIN inbox' : \/ inbox'[i] = m
                                \/ \E j \in DOMAIN inbox : inbox'[i] = inbox[j]
  <2>1. \A i \in DOMAIN Tail(outbox) :
           i + 1 \in DOMAIN outbox /\ Tail(outbox)[i] = outbox[i + 1]
    BY <1>1 DEF IInv, TypeOK
  <2>2. \A i \in DOMAIN (inbox \o frames) :
           \/ (inbox \o frames)[i] = m
           \/ i \in DOMAIN inbox /\ (inbox \o frames)[i] = inbox[i]
    BY <1>1 DEF IInv, TypeOK
  <2>. QED
    BY <1>1, <2>1, <2>2
<1>3. Awaits(state, m)
  <2>1. 1 \in DOMAIN outbox /\ Head(outbox) = outbox[1]
    BY <1>1 DEF IInv, TypeOK
  <2>. QED
    BY <1>1, <2>1 DEF IInv, DownloadIsAwaited, AllAwaited, Requested
<1>4. AllAwaited(outbox)' /\ AllAwaited(inbox)'
  BY <1>1, <1>2, <1>3 DEF AllAwaited, IInv, DownloadIsAwaited
<1>5. UnderWay(ControlTypes)' = UnderWay(ControlTypes)
  <2>1. Count(frames, ControlTypes) = 1
    BY CountOne
  <2>2. UnderWay(ControlTypes)' = UnderWay(ControlTypes) + Count(frames, ControlTypes) - 1
    BY ReplyUnderWay, Zenon DEF IInv
  <2>. QED
    BY <2>1, <2>2, CountType DEF UnderWay, IInv, TypeOK
<1>6. UnderWay(QueryTypes)' = UnderWay(QueryTypes)
  <2>1. type \notin QueryTypes
    BY DEF ControlTypes, QueryTypes
  <2>2. Count(frames, QueryTypes) = 0
    BY <2>1, CountOne
  <2>3. UnderWay(QueryTypes)' = UnderWay(QueryTypes) + Count(frames, QueryTypes)
    BY <2>1, ReplyUnderWay, Zenon DEF IInv
  <2>. QED
    BY <2>1, <2>2, <2>3, CountType DEF UnderWay, IInv, TypeOK
<1>7. QueriesCounted' /\ NeverOutOfStep'
  BY <1>1, <1>6 DEF IInv, QueriesCounted, NeverOutOfStep, Running
<1>8. DownloadIsAwaited'
  BY <1>1, <1>4, <1>5 DEF IInv, DownloadIsAwaited, Running
<1>9. SessionConsistent'
  <2>1. \A i \in DOMAIN inbox' :
           (inbox'[i].type = "subscribe" /\ inbox'[i].status = "success")
              => inbox'[i].channel \in subscribed'
    BY <1>1, <1>2 DEF IInv, SessionConsistent
  <2>. QED
    BY <1>1, <2>1 DEF IInv, SessionConsistent
<1>. QED
  BY <1>7, <1>8, <1>9 DEF IInv

-----------------------------------------------------------------------------
(* Steps of the download.                                                  *)

LEMMA NextStateFacts ==
    ASSUME NEW s \in State, s # "DONE", NEW n \in Nat
    PROVE  /\ NextState(s, n) \in State \ {"UNDEFINED"}
           /\ NextState(s, n) = "GET_STALE_ORDERS" => n > 0
           /\ Passed[NextState(s, n)] \subseteq
                 Passed[s] \cup (IF s \in DOMAIN SubscribeState THEN {SubscribeState[s]} ELSE {})
<1>1. NextState(s, n) \in State \ {"UNDEFINED"}
  BY NextStateType
<1>2. NextState(s, n) = "GET_STALE_ORDERS" => n > 0
  BY DEF NextState, Skipped, Successor, State
<1>3. Passed[NextState(s, n)] \subseteq
         Passed[s] \cup (IF s \in DOMAIN SubscribeState THEN {SubscribeState[s]} ELSE {})
  BY DEF NextState, Skipped, Successor, State, Passed, SubscribeState, Channels
<1>. QED
  BY <1>1, <1>2, <1>3

(* Entering a state sends at most what the state waits for.                *)
LEMMA FramesFacts ==
    ASSUME NEW t \in State \ {"UNDEFINED"}
    PROVE  /\ Frames(t) \in Seq(ToExchange)
           /\ \A i \in DOMAIN Frames(t) : Awaits(t, Frames(t)[i])
           /\ Count(Frames(t), ControlTypes) = IF t \in AnsweredStates THEN 1 ELSE 0
           /\ Count(Frames(t), QueryTypes) = 0
<1>1. Frames(t) \in Seq(ToExchange)
  BY FramesType
<1>2. CASE t \in DOMAIN SubscribeState
  <2>. DEFINE m == Subscribe(SubscribeState[t])
  <2>1. Frames(t) = <<m>> /\ Awaits(t, m) /\ m.type = "subscribe"
    BY <1>2 DEF Frames, Awaits, Subscribe
  <2>2. \A i \in DOMAIN Frames(t) : Frames(t)[i] = m
    BY <2>1
  <2>3. t \in AnsweredStates
    BY <1>2 DEF AnsweredStates
  <2>4. m.type \in ControlTypes /\ m.type \notin QueryTypes
    BY <2>1 DEF ControlTypes, QueryTypes
  <2>5. Count(<<m>>, ControlTypes) = 1 /\ Count(<<m>>, QueryTypes) = 0
    BY <2>4, CountOne, Zenon
  <2>. QED
    BY <1>1, <2>1, <2>2, <2>3, <2>5
<1>3. CASE t = "GET_OPEN_ORDERS"
  <2>1. Frames(t) = <<OrderList>> /\ Awaits(t, OrderList) /\ OrderList.type = "order_list"
    BY <1>3 DEF Frames, Awaits, OrderList, SubscribeState
  <2>2. \A i \in DOMAIN Frames(t) : Frames(t)[i] = OrderList
    BY <2>1
  <2>3. t \in AnsweredStates
    BY <1>3 DEF AnsweredStates
  <2>4. OrderList.type \in ControlTypes /\ OrderList.type \notin QueryTypes
    BY <2>1 DEF ControlTypes, QueryTypes
  <2>5. Count(<<OrderList>>, ControlTypes) = 1 /\ Count(<<OrderList>>, QueryTypes) = 0
    BY <2>4, CountOne, Zenon
  <2>. QED
    BY <1>1, <2>1, <2>2, <2>3, <2>5
<1>4. CASE t \notin DOMAIN SubscribeState /\ t # "GET_OPEN_ORDERS"
  <2>1. Frames(t) = <<>> /\ t \notin AnsweredStates
    BY <1>4 DEF Frames, AnsweredStates
  <2>2. Count(<<>>, ControlTypes) = 0 /\ Count(<<>>, QueryTypes) = 0
    BY CountEmpty
  <2>. QED
    BY <1>1, <2>1, <2>2
<1>. QED
  BY <1>2, <1>3, <1>4

(* The answer that arrives is the one the download waits for, and the only *)
(* one under way.                                                          *)
LEMMA LastAnswer ==
    ASSUME IInv, NEW type \in ControlTypes, Arrived(type)
    PROVE  /\ Awaits(state, Head(inbox)) /\ state \in AnsweredStates
           /\ NoControl(outbox) /\ NoControl(Tail(inbox))
<1>1. 1 \in DOMAIN inbox /\ Head(inbox) = inbox[1] /\ Head(inbox).type = type
  BY DEF IInv, TypeOK, Arrived
<1>2. Awaits(state, Head(inbox))
  BY <1>1 DEF IInv, DownloadIsAwaited, AllAwaited, Arrived
<1>3. state \in AnsweredStates
  BY <1>2 DEF Awaits, AnsweredStates
<1>4. UnderWay(ControlTypes) = 1
  BY <1>3 DEF IInv, DownloadIsAwaited, Arrived
<1>5. Count(inbox, ControlTypes) = Count(Tail(inbox), ControlTypes) + 1
  BY <1>1, CountTail DEF IInv, TypeOK, Arrived
<1>6. /\ Tail(inbox) \in Seq(ToGateway)
      /\ Count(outbox, ControlTypes) \in Nat /\ Count(Tail(inbox), ControlTypes) \in Nat
  BY ArrivedType, CountType DEF IInv, TypeOK
<1>7. Count(outbox, ControlTypes) = 0 /\ Count(Tail(inbox), ControlTypes) = 0
  BY <1>4, <1>5, <1>6 DEF UnderWay
<1>. QED
  BY <1>2, <1>3, <1>6, <1>7, NoControlCount DEF IInv, TypeOK

(* The download moves on, with queries sent before the frame of the next   *)
(* state.                                                                  *)
LEMMA MoveOnStep ==
    ASSUME IInv, TypeOK', Running, socket = "up", socket' = "up",
           state # "DONE",
           NEW sent \in Seq(ToExchange), \A i \in DOMAIN sent : sent[i].type \in QueryTypes,
           NEW n \in Nat, n <= counter', MoveOn(state, n, sent),
           NoControl(outbox), NoControl(inbox'),
           counter' = Count(outbox, QueryTypes) + Count(inbox', QueryTypes) + Len(sent),
           subscribed' = subscribed,
           state \in DOMAIN SubscribeState => SubscribeState[state] \in subscribed
    PROVE  IInv'
<1>. DEFINE t == NextState(state, n)
<1>1. /\ state' = t /\ ready' = (ready \/ t = "DONE") /\ ~ready
      /\ outbox' = (outbox \o sent) \o Frames(t)
      /\ fatal' = "no"
  BY DEF MoveOn, IInv, SessionConsistent, Running
<1>2. /\ t \in State \ {"UNDEFINED"}
      /\ t = "GET_STALE_ORDERS" => n > 0
      /\ Passed[t] \subseteq Passed[state] \cup
            (IF state \in DOMAIN SubscribeState THEN {SubscribeState[state]} ELSE {})
  BY NextStateFacts DEF IInv, TypeOK
<1>3. /\ Frames(t) \in Seq(ToExchange)
      /\ \A i \in DOMAIN Frames(t) : Awaits(t, Frames(t)[i])
      /\ Count(Frames(t), ControlTypes) = IF t \in AnsweredStates THEN 1 ELSE 0
      /\ Count(Frames(t), QueryTypes) = 0
  BY <1>2, FramesFacts
<1>4. NoControl(sent)
  BY DEF NoControl, QueryTypes, ControlTypes
<1>5. /\ Count(outbox, ControlTypes) = 0 /\ Count(inbox', ControlTypes) = 0
      /\ Count(sent, ControlTypes) = 0 /\ Count(sent, QueryTypes) = Len(sent)
  BY <1>4, NoControlCount, CountAll DEF IInv, TypeOK
<1>6. outbox \o sent \in Seq(ToExchange)
  BY DEF IInv, TypeOK
<1>7. \A T : Count(outbox', T) = (Count(outbox, T) + Count(sent, T)) + Count(Frames(t), T)
  BY <1>1, <1>3, CountConcatTwice DEF IInv, TypeOK
<1>8. Count(outbox, QueryTypes) \in Nat /\ Count(inbox', QueryTypes) \in Nat /\ Len(sent) \in Nat
  BY CountType DEF IInv, TypeOK
<1>9. QueriesCounted' /\ NeverOutOfStep'
  <2>1. Count(outbox', QueryTypes) = Count(outbox, QueryTypes) + Len(sent)
    BY <1>3, <1>5, <1>7, <1>8
  <2>. QED
    BY <1>1, <1>8, <2>1 DEF QueriesCounted, UnderWay, NeverOutOfStep
<1>10. DownloadIsAwaited'
  <2>1. UnderWay(ControlTypes)' = IF t \in AnsweredStates THEN 1 ELSE 0
    BY <1>3, <1>5, <1>7 DEF UnderWay
  <2>2. AllAwaited(inbox)'
    BY DEF AllAwaited, NoControl
  <2>3. AllAwaited(outbox)'
    <3>1. ASSUME NEW i \in DOMAIN ((outbox \o sent) \o Frames(t))
          PROVE  \/ i \in DOMAIN outbox /\ ((outbox \o sent) \o Frames(t))[i] = outbox[i]
                 \/ \E j \in DOMAIN sent : ((outbox \o sent) \o Frames(t))[i] = sent[j]
                 \/ \E j \in DOMAIN Frames(t) : ((outbox \o sent) \o Frames(t))[i] = Frames(t)[j]
      <4>1. CASE i \in DOMAIN (outbox \o sent)
        <5>1. ((outbox \o sent) \o Frames(t))[i] = (outbox \o sent)[i]
          BY <1>3, <1>6, <4>1
        <5>2. CASE i \in DOMAIN outbox
          BY <5>1, <5>2 DEF IInv, TypeOK
        <5>3. CASE i \notin DOMAIN outbox
          <6>1. i - Len(outbox) \in DOMAIN sent /\ (outbox \o sent)[i] = sent[i - Len(outbox)]
            BY <4>1, <5>3 DEF IInv, TypeOK
          <6>. QED
            BY <5>1, <6>1
        <5>. QED
          BY <5>2, <5>3
      <4>2. CASE i \notin DOMAIN (outbox \o sent)
        <5>1. /\ i - Len(outbox \o sent) \in DOMAIN Frames(t)
              /\ ((outbox \o sent) \o Frames(t))[i] = Frames(t)[i - Len(outbox \o sent)]
          BY <1>3, <1>6, <3>1, <4>2
        <5>. QED
          BY <5>1
      <4>. QED
        BY <4>1, <4>2
    <3>. QED
      BY <1>1, <1>3, <1>4, <3>1 DEF AllAwaited, NoControl
  <2>4. state' \in DOMAIN RequestState => request'[RequestState[state']] # "idle"
    BY <1>1 DEF MoveOn, RequestState, IInv, TypeOK, Requests
  <2>. QED
    BY <1>1, <1>2, <2>1, <2>2, <2>3, <2>4 DEF DownloadIsAwaited, TypeOK
<1>11. SessionConsistent'
  <2>1. Passed[t] \subseteq subscribed
    BY <1>2 DEF IInv, SessionConsistent
  <2>2. \A i \in DOMAIN inbox' : inbox'[i].type # "subscribe"
    BY DEF NoControl, ControlTypes
  <2>. QED
    BY <1>1, <2>1, <2>2 DEF SessionConsistent
<1>. QED
  BY <1>9, <1>10, <1>11 DEF IInv

LEMMA MoveOnAlone ==
    ASSUME IInv, TypeOK', Running, socket = "up", socket' = "up",
           state # "DONE",
           NEW n \in Nat, n <= counter', MoveOn(state, n, <<>>),
           NoControl(outbox), NoControl(inbox'),
           counter' = Count(outbox, QueryTypes) + Count(inbox', QueryTypes),
           subscribed' = subscribed,
           state \in DOMAIN SubscribeState => SubscribeState[state] \in subscribed
    PROVE  IInv'
<1>1. PICK none \in Seq(ToExchange) : none = <<>>
  BY NoFrames
<1>2. /\ \A i \in DOMAIN none : none[i].type \in QueryTypes
      /\ Len(none) = 0
      /\ MoveOn(state, n, none)
  BY <1>1
<1>3. counter' = Count(outbox, QueryTypes) + Count(inbox', QueryTypes) + Len(none)
  BY <1>2 DEF TypeOK
<1>. QED
  BY <1>2, <1>3, MoveOnStep

-----------------------------------------------------------------------------
(* Every action keeps the invariant.                                       *)

LEMMA QueriesAreQueries ==
    ASSUME NEW S \in SUBSET Orders, NEW q \in {<<>>} \cup StaleQueries(S)
    PROVE  /\ q \in Seq(ToExchange)
           /\ \A i \in DOMAIN q : q[i].type \in QueryTypes
           /\ NoControl(q)
<1>1. q \in Seq(ToExchange) /\ \A i \in DOMAIN q : q[i].type = "order_status"
  <2>1. CASE q = <<>>
    BY <2>1
  <2>2. CASE q \in StaleQueries(S)
    BY <2>2, StaleQueriesType
  <2>. QED
    BY <2>1, <2>2
<1>. QED
  BY <1>1 DEF QueryTypes, NoControl, ControlTypes

LEMMA ConnectionStep ==
    ASSUME IInv, TypeOK', SocketReady \/ Disconnected
    PROVE  IInv'
<1>1. CASE SocketReady
  <2>1. /\ state' = "UNDEFINED" /\ ready' = FALSE /\ counter' = 0 /\ socket' = "up"
        /\ outbox' = <<Login>> /\ inbox' = <<>> /\ fatal' = "no"
    BY <1>1 DEF SocketReady, IInv, SessionConsistent, Running, TypeOK
  <2>2. Login.type \in ControlTypes /\ Login.type \notin QueryTypes /\ Awaits("UNDEFINED", Login)
    BY DEF Login, ControlTypes, QueryTypes, Awaits
  <2>3. Count(<<Login>>, ControlTypes) = 1 /\ Count(<<Login>>, QueryTypes) = 0
    BY <2>2, CountOne, Zenon
  <2>4. Count(<<>>, ControlTypes) = 0 /\ Count(<<>>, QueryTypes) = 0
    BY CountEmpty
  <2>5. QueriesCounted' /\ NeverOutOfStep'
    BY <2>1, <2>3, <2>4 DEF QueriesCounted, UnderWay, NeverOutOfStep
  <2>6. DownloadIsAwaited'
    <3>1. AllAwaited(outbox)' /\ AllAwaited(inbox)'
      BY <2>1, <2>2 DEF AllAwaited
    <3>2. UnderWay(ControlTypes)' = 1 /\ "UNDEFINED" \in AnsweredStates
      BY <2>1, <2>3, <2>4 DEF UnderWay, AnsweredStates
    <3>. QED
      BY <2>1, <3>1, <3>2 DEF DownloadIsAwaited, RequestState
  <2>7. SessionConsistent'
    BY <2>1 DEF SessionConsistent, Passed
  <2>. QED
    BY <2>5, <2>6, <2>7 DEF IInv
<1>2. CASE Disconnected
  <2>1. /\ state' = "UNDEFINED" /\ ready' = FALSE /\ counter' = 0 /\ socket' = "down"
        /\ outbox' = <<>> /\ inbox' = <<>> /\ subscribed' = {} /\ fatal' = "no"
    BY <1>2 DEF Disconnected, Reset, Running
  <2>2. Count(<<>>, QueryTypes) = 0
    BY CountEmpty
  <2>3. QueriesCounted' /\ NeverOutOfStep' /\ DownloadIsAwaited' /\ SessionConsistent'
    BY <2>1, <2>2
       DEF QueriesCounted, UnderWay, NeverOutOfStep, DownloadIsAwaited, SessionConsistent, Passed
  <2>. QED
    BY <2>3 DEF IInv
<1>. QED
  BY <1>1, <1>2

(* A refused login or subscription ends the session or the process.        *)
LEMMA RefusedStep ==
    ASSUME IInv, TypeOK',
           TradeLogin \/ TradeSubscribe, Head(inbox).status # "success"
    PROVE  IInv'
<1>1. CASE fatal' # "no"
  <2>1. NeverOutOfStep'
    BY DEF TradeLogin, TradeSubscribe, NeverOutOfStep, IInv
  <2>. QED
    BY <1>1, <2>1 DEF IInv, QueriesCounted, DownloadIsAwaited, SessionConsistent, Running
<1>2. CASE fatal' = "no"
  <2>1. TradeLogin /\ Arrived("login") /\ socket' = "closing" /\ inbox' = Tail(inbox)
        /\ UNCHANGED <<ready, state, counter, outbox, subscribed>>
    BY <1>2 DEF TradeLogin, TradeSubscribe, gateway, venue
  <2>2. Awaits(state, Head(inbox)) /\ NoControl(Tail(inbox))
    BY <2>1, LastAnswer DEF ControlTypes
  <2>3. state = "UNDEFINED"
    BY <2>1, <2>2 DEF Awaits, Arrived
  <2>4. QueriesCounted'
    <3>1. "login" \notin QueryTypes
      BY DEF QueryTypes
    <3>2. Count(inbox, QueryTypes) = Count(Tail(inbox), QueryTypes) + 0
      BY <2>1, <3>1, CountTail DEF Arrived, IInv, TypeOK
    <3>3. Count(Tail(inbox), QueryTypes) \in Nat
      BY <2>1, ArrivedType, CountType DEF IInv
    <3>. QED
      BY <1>2, <2>1, <3>2, <3>3 DEF IInv, QueriesCounted, UnderWay, Arrived, Running
  <2>5. NeverOutOfStep' /\ DownloadIsAwaited'
    BY <1>2, <2>1 DEF NeverOutOfStep, DownloadIsAwaited
  <2>6. SessionConsistent'
    <3>1. \A i \in DOMAIN inbox' : inbox'[i].type # "subscribe"
      BY <2>1, <2>2 DEF NoControl, ControlTypes
    <3>. QED
      BY <1>2, <2>1, <2>3, <3>1 DEF SessionConsistent, IInv, Arrived
  <2>. QED
    BY <2>4, <2>5, <2>6 DEF IInv
<1>. QED
  BY <1>1, <1>2

(* The answer taken is no query's.                                         *)
LEMMA QueriesLeft ==
    ASSUME IInv, NEW type \in ControlTypes, Arrived(type)
    PROVE  counter = Count(outbox, QueryTypes) + Count(Tail(inbox), QueryTypes)
<1>1. type \notin QueryTypes
  BY DEF QueryTypes, ControlTypes
<1>2. Count(inbox, QueryTypes) = Count(Tail(inbox), QueryTypes) + 0
  BY <1>1, CountTail DEF Arrived, IInv, TypeOK
<1>3. Count(Tail(inbox), QueryTypes) \in Nat /\ Count(outbox, QueryTypes) \in Nat
  BY ArrivedType, CountType DEF IInv, TypeOK
<1>. QED
  BY <1>2, <1>3 DEF IInv, QueriesCounted, UnderWay, Arrived

LEMMA TradeLoginStep ==
    ASSUME IInv, TypeOK', TradeLogin, Head(inbox).status = "success"
    PROVE  IInv'
<1>1. /\ Arrived("login") /\ inbox' = Tail(inbox) /\ counter' = counter
      /\ socket = "up" /\ socket' = "up" /\ Running /\ subscribed' = subscribed
      /\ MoveOn("UNDEFINED", counter, <<>>)
  BY DEF TradeLogin, Arrived, venue
<1>2. /\ Awaits(state, Head(inbox)) /\ NoControl(outbox) /\ NoControl(Tail(inbox))
      /\ counter = Count(outbox, QueryTypes) + Count(Tail(inbox), QueryTypes)
  BY <1>1, LastAnswer, QueriesLeft DEF ControlTypes
<1>3. state = "UNDEFINED"
  BY <1>1, <1>2 DEF Awaits, Arrived
<1>4. counter \in Nat /\ state \notin DOMAIN SubscribeState /\ state # "DONE"
  BY <1>3 DEF IInv, TypeOK, SubscribeState
<1>. QED
  BY <1>1, <1>2, <1>3, <1>4, MoveOnAlone

LEMMA TradeSubscribeStep ==
    ASSUME IInv, TypeOK', TradeSubscribe, Head(inbox).status = "success"
    PROVE  IInv'
<1>. DEFINE s == CHOOSE t \in DOMAIN SubscribeState :
                    SubscribeState[t] = Head(inbox).channel
<1>1. /\ Arrived("subscribe") /\ inbox' = Tail(inbox) /\ counter' = counter
      /\ socket = "up" /\ socket' = "up" /\ Running /\ subscribed' = subscribed
      /\ Check(s, counter)
  BY DEF TradeSubscribe, Arrived, venue
<1>2. /\ Awaits(state, Head(inbox)) /\ NoControl(outbox) /\ NoControl(Tail(inbox))
      /\ counter = Count(outbox, QueryTypes) + Count(Tail(inbox), QueryTypes)
  BY <1>1, LastAnswer, QueriesLeft DEF ControlTypes
<1>3. state \in DOMAIN SubscribeState /\ SubscribeState[state] = Head(inbox).channel
  BY <1>1, <1>2 DEF Awaits, Arrived
<1>4. s = state
  <2>1. \A t, u \in DOMAIN SubscribeState : SubscribeState[t] = SubscribeState[u] => t = u
    BY DEF SubscribeState
  <2>2. s \in DOMAIN SubscribeState /\ SubscribeState[s] = Head(inbox).channel
    BY <1>3
  <2>. QED
    BY <1>3, <2>1, <2>2
<1>5. MoveOn(state, counter, <<>>)
  BY <1>1, <1>4 DEF Check
<1>6. SubscribeState[state] \in subscribed
  <2>1. 1 \in DOMAIN inbox /\ Head(inbox) = inbox[1]
    BY <1>1 DEF Arrived, IInv, TypeOK
  <2>. QED
    BY <1>1, <1>3, <2>1 DEF IInv, SessionConsistent, Arrived
<1>7. counter \in Nat /\ state # "DONE"
  BY <1>3 DEF IInv, TypeOK, SubscribeState
<1>. QED
  BY <1>1, <1>2, <1>5, <1>6, <1>7, MoveOnAlone

LEMMA TradeOrderListStep ==
    ASSUME IInv, TypeOK', TradeOrderList
    PROVE  IInv'
<1>1. /\ Arrived("order_list") /\ inbox' = Tail(inbox)
      /\ socket = "up" /\ socket' = "up" /\ Running /\ subscribed' = subscribed
  BY DEF TradeOrderList, Arrived, venue
<1>2. PICK q \in StaleQueries(stale') :
         counter' = counter + Len(q) /\ CheckRelaxed("GET_OPEN_ORDERS", counter', q)
  BY DEF TradeOrderList
<1>3. /\ Awaits(state, Head(inbox)) /\ NoControl(outbox) /\ NoControl(Tail(inbox))
      /\ counter = Count(outbox, QueryTypes) + Count(Tail(inbox), QueryTypes)
  BY <1>1, LastAnswer, QueriesLeft DEF ControlTypes
<1>4. state = "GET_OPEN_ORDERS"
  BY <1>1, <1>3 DEF Awaits, Arrived
<1>5. MoveOn(state, counter', q)
  BY <1>2, <1>4 DEF CheckRelaxed
<1>6. q \in Seq(ToExchange) /\ \A i \in DOMAIN q : q[i].type \in QueryTypes
  BY <1>2, QueriesAreQueries DEF TypeOK
<1>7. /\ counter' \in Nat /\ state \notin DOMAIN SubscribeState /\ state # "DONE"
      /\ counter' = Count(outbox, QueryTypes) + Count(inbox', QueryTypes) + Len(q)
  BY <1>1, <1>2, <1>3, <1>4 DEF TypeOK, SubscribeState
<1>. QED
  BY <1>1, <1>3, <1>5, <1>6, <1>7, MoveOnStep

(* While no answer is awaited on the socket, none is under way.            *)
LEMMA NoAnswer ==
    ASSUME IInv, socket = "up", Running, state \notin AnsweredStates
    PROVE  NoControl(outbox) /\ NoControl(inbox)
<1>1. UnderWay(ControlTypes) = 0
  BY DEF IInv, DownloadIsAwaited
<1>2. Count(outbox, ControlTypes) \in Nat /\ Count(inbox, ControlTypes) \in Nat
  BY CountType DEF IInv, TypeOK
<1>. QED
  BY <1>1, <1>2, NoControlCount DEF UnderWay, IInv, TypeOK

LEMMA TradeOrderStatusStep ==
    ASSUME IInv, TypeOK', TradeOrderStatus
    PROVE  IInv'
<1>1. /\ Arrived("order_status") /\ inbox' = Tail(inbox)
      /\ socket = "up" /\ socket' = "up" /\ Running /\ subscribed' = subscribed
  BY DEF TradeOrderStatus, Arrived, venue
<1>2. Count(inbox, QueryTypes) = Count(inbox', QueryTypes) + 1
  <2>1. "order_status" \in QueryTypes
    BY DEF QueryTypes
  <2>. QED
    BY <1>1, <2>1, CountTail DEF Arrived, IInv, TypeOK
<1>3. Count(inbox', QueryTypes) \in Nat /\ Count(outbox, QueryTypes) \in Nat
  BY CountType DEF IInv, TypeOK
<1>4. counter = Count(outbox, QueryTypes) + Count(inbox', QueryTypes) + 1 /\ counter > 0
  BY <1>1, <1>2, <1>3 DEF IInv, QueriesCounted, UnderWay
<1>5. /\ counter' = counter - 1
      /\ IF counter' = 0 THEN CheckRelaxed("GET_STALE_ORDERS", 0, <<>>) ELSE Stay(<<>>)
  BY <1>4 DEF TradeOrderStatus
<1>6. "order_status" \notin ControlTypes
  BY DEF ControlTypes
<1>7. CASE counter' = 0 /\ state = "GET_STALE_ORDERS"
  <2>1. MoveOn(state, 0, <<>>)
    BY <1>5, <1>7 DEF CheckRelaxed
  <2>2. state \notin AnsweredStates /\ state \notin DOMAIN SubscribeState /\ state # "DONE"
    BY <1>7 DEF AnsweredStates, SubscribeState
  <2>3. NoControl(outbox) /\ NoControl(inbox)
    BY <1>1, <2>2, NoAnswer
  <2>4. NoControl(inbox')
    BY <1>1, <2>3 DEF NoControl, Arrived, IInv, TypeOK
  <2>5. counter' = Count(outbox, QueryTypes) + Count(inbox', QueryTypes)
    BY <1>3, <1>4, <1>5
  <2>. QED
    BY <1>1, <1>7, <2>1, <2>2, <2>3, <2>4, <2>5, MoveOnAlone
<1>8. CASE ~(counter' = 0 /\ state = "GET_STALE_ORDERS")
  <2>1. Stay(<<>>)
    BY <1>5, <1>8 DEF CheckRelaxed
  <2>2. /\ outbox' = outbox \o <<>> /\ outbox' = outbox /\ NoControl(<<>>)
        /\ UNCHANGED <<ready, state, request, fatal>>
    BY <2>1 DEF Stay, NoControl, IInv, TypeOK
  <2>3. /\ Kept(outbox, outbox') /\ Kept(inbox, inbox')
        /\ UnderWay(ControlTypes)' = UnderWay(ControlTypes)
    BY <1>1, <1>6, <2>2, NoFrames, QuietTake
  <2>4. QueriesCounted'
    BY <1>3, <1>4, <1>5, <2>2 DEF QueriesCounted, UnderWay
  <2>5. state = "GET_STALE_ORDERS" => counter' > 0
    BY <1>8 DEF TypeOK
  <2>. QED
    BY <1>1, <2>2, <2>3, <2>4, <2>5, QuietStep
<1>. QED
  BY <1>7, <1>8

(* Frames are sent that are about orders, and nothing else happens.        *)
LEMMA QuietSend ==
    ASSUME IInv, TypeOK', socket = "up",
           NEW sent \in Seq(ToExchange), NoControl(sent), outbox' = outbox \o sent,
           counter' = counter + Count(sent, QueryTypes),
           UNCHANGED <<socket, ready, state, request, inbox, subscribed, fatal>>
    PROVE  IInv'
<1>1. Kept(outbox, outbox') /\ Kept(inbox, inbox')
  <2>1. Kept(outbox, outbox) /\ Kept(inbox, inbox')
    BY DEF Kept
  <2>. QED
    BY <2>1, KeptConcat DEF IInv, TypeOK
<1>2. /\ Count(sent, ControlTypes) = 0
      /\ Count(sent, QueryTypes) \in Nat
      /\ \A T : Count(outbox, T) \in Nat /\ Count(inbox, T) \in Nat
      /\ \A T : Count(outbox', T) = Count(outbox, T) + Count(sent, T)
  BY NoControlCount, CountType, CountConcat DEF IInv, TypeOK
<1>3. UnderWay(ControlTypes)' = UnderWay(ControlTypes)
  BY <1>2 DEF UnderWay
<1>4. QueriesCounted'
  BY <1>2 DEF UnderWay, QueriesCounted, IInv, Running
<1>5. state = "GET_STALE_ORDERS" /\ Running => counter' > 0
  BY <1>2 DEF IInv, DownloadIsAwaited, TypeOK
<1>. QED
  BY <1>1, <1>3, <1>4, <1>5, QuietStep

LEMMA TimerStep ==
    ASSUME IInv, TypeOK', Timer
    PROVE  IInv'
<1>1. /\ Running /\ socket = "up"
      /\ UNCHANGED <<socket, stale, inbox, subscribed>>
  BY DEF Timer, omsVars, venue
<1>2. ASSUME NEW q \in {<<>>} \cup StaleQueries(stale)
      PROVE  /\ q \in Seq(ToExchange) /\ NoControl(q)
             /\ \A i \in DOMAIN q : q[i].type \in QueryTypes
             /\ Count(q, QueryTypes) = Len(q)
  <2>1. /\ q \in Seq(ToExchange) /\ NoControl(q)
        /\ \A i \in DOMAIN q : q[i].type \in QueryTypes
    BY QueriesAreQueries DEF IInv, TypeOK
  <2>. QED
    BY <2>1, CountAll
<1>3. /\ counter = Count(outbox, QueryTypes) + Count(inbox, QueryTypes)
      /\ Count(outbox, QueryTypes) \in Nat /\ Count(inbox, QueryTypes) \in Nat
  BY <1>1, CountType DEF IInv, QueriesCounted, UnderWay, TypeOK
<1>4. ASSUME NEW q \in {<<>>} \cup StaleQueries(stale), Answered,
             counter' = counter + Len(q), MoveOn(state, counter, q)
      PROVE  IInv'
  <2>1. state \notin AnsweredStates /\ state \notin DOMAIN SubscribeState /\ state # "DONE"
    BY <1>4 DEF Answered, RequestState, AnsweredStates, SubscribeState
  <2>2. NoControl(outbox) /\ NoControl(inbox')
    BY <1>1, <2>1, NoAnswer
  <2>3. q \in Seq(ToExchange) /\ \A i \in DOMAIN q : q[i].type \in QueryTypes
    BY <1>2
  <2>4. /\ counter' = Count(outbox, QueryTypes) + Count(inbox', QueryTypes) + Len(q)
        /\ counter \in Nat /\ counter <= counter'
    BY <1>1, <1>3, <1>4, <2>3
  <2>. QED
    BY <1>1, <1>4, <2>1, <2>2, <2>3, <2>4, MoveOnStep
<1>5. ASSUME NEW q \in StaleQueries(stale), counter' = counter + Len(q), Stay(q)
      PROVE  IInv'
  <2>1. q \in Seq(ToExchange) /\ NoControl(q) /\ Count(q, QueryTypes) = Len(q)
    BY <1>2
  <2>. QED
    BY <1>1, <1>5, <2>1, QuietSend DEF Stay
<1>. QED
  BY <1>4, <1>5 DEF Timer

(* Sending a client's request, the answer of a REST request and the end of *)
(* an order at the exchange.                                               *)
LEMMA OrderStep ==
    ASSUME IInv, TypeOK',
           \/ \E o \in Orders : CreateOrder(o) \/ CancelOrder(o) \/ ExchangeFinish(o)
           \/ \E k \in Requests : RequestCommit(k)
    PROVE  IInv'
<1>1. ASSUME NEW o \in Orders, CreateOrder(o) \/ CancelOrder(o)
      PROVE  IInv'
  <2>1. PICK m \in {OrderPlace(o), OrderCancel(o)} : outbox' = Append(outbox, m)
    BY <1>1 DEF CreateOrder, CancelOrder
  <2>2. m \in ToExchange /\ m.type \notin ControlTypes /\ m.type \notin QueryTypes
    <3>1. OrderPlace(o).type = "order_place" /\ OrderCancel(o).type = "order_cancel"
      BY DEF OrderPlace, OrderCancel
    <3>2. m \in ToExchange
      BY <2>1, ToExchangeFrames
    <3>. QED
      BY <2>1, <3>1, <3>2 DEF ControlTypes, QueryTypes
  <2>3. PICK sent \in Seq(ToExchange) : sent = <<m>>
    BY <2>2, OneFrame, Zenon
  <2>4. NoControl(sent) /\ outbox' = outbox \o sent
    BY <2>1, <2>2, <2>3 DEF NoControl, IInv, TypeOK
  <2>5. Count(sent, QueryTypes) = 0
    BY <2>2, <2>3, CountOne, Zenon
  <2>6. /\ socket = "up" /\ counter \in Nat
        /\ UNCHANGED <<socket, ready, state, counter, request, inbox, subscribed, fatal>>
    BY <1>1 DEF CreateOrder, CancelOrder, gateway, venue, IInv, TypeOK
  <2>7. counter' = counter + Count(sent, QueryTypes)
    BY <2>5, <2>6
  <2>. QED
    BY <2>4, <2>6, <2>7, QuietSend
<1>2. ASSUME NEW k \in Requests, RequestCommit(k)
      PROVE  IInv'
  <2>1. /\ UNCHANGED <<socket, ready, state, counter, outbox, inbox, subscribed, fatal>>
        /\ request' = [request EXCEPT ![k] = "done"]
    BY <1>2 DEF RequestCommit, wire, venue
  <2>2. \A j \in Requests : request[j] # "idle" => request'[j] # "idle"
    BY <2>1 DEF IInv, TypeOK
  <2>3. Kept(outbox, outbox') /\ Kept(inbox, inbox')
    BY <2>1 DEF Kept
  <2>4. UnderWay(ControlTypes)' = UnderWay(ControlTypes) /\ QueriesCounted'
    BY <2>1 DEF UnderWay, QueriesCounted, IInv, Running
  <2>5. state = "GET_STALE_ORDERS" /\ Running => counter' > 0
    BY <2>1 DEF IInv, DownloadIsAwaited, SessionConsistent
  <2>6. socket = "down" => outbox' = <<>> /\ inbox' = <<>> /\ counter' = 0
    BY <1>2, <2>1 DEF IInv, SessionConsistent, RequestCommit
  <2>7. UNCHANGED <<socket, ready, state, subscribed, fatal>>
    BY <2>1
  <2>. QED
    BY <2>2, <2>3, <2>4, <2>5, <2>6, <2>7, QuietStep
<1>3. ASSUME NEW o \in Orders, ExchangeFinish(o)
      PROVE  IInv'
  <2>1. PICK frames \in Seq(ToGateway) : frames = Push(o, "closed")
    BY PushType
  <2>2. NoControl(frames) /\ Count(frames, QueryTypes) = 0
    BY <2>1, PushFrames, OrderFrames
  <2>3. /\ inbox' = inbox \o frames /\ Running
        /\ UNCHANGED <<socket, ready, state, counter, request, outbox, subscribed, fatal>>
    BY <1>3, <2>1 DEF ExchangeFinish, gateway
  <2>4. Kept(outbox, outbox') /\ Kept(inbox, inbox')
    <3>1. Kept(outbox, outbox') /\ Kept(inbox, inbox)
      BY <2>3 DEF Kept
    <3>. QED
      BY <2>2, <2>3, <3>1, KeptConcat DEF IInv, TypeOK
  <2>5. /\ \A T : Count(inbox', T) = Count(inbox, T) + Count(frames, T)
        /\ \A T : Count(inbox, T) \in Nat
        /\ Count(frames, ControlTypes) = 0
    BY <2>2, <2>3, NoControlCount, CountConcat, CountType DEF IInv, TypeOK
  <2>6. UnderWay(ControlTypes)' = UnderWay(ControlTypes) /\ QueriesCounted'
    BY <2>2, <2>3, <2>5 DEF UnderWay, QueriesCounted, IInv, Running
  <2>7. socket = "down" => frames = <<>>
    BY <2>1, <2>3 DEF Push, IInv, SessionConsistent
  <2>8. state = "GET_STALE_ORDERS" /\ Running => counter' > 0
    BY <2>3 DEF IInv, DownloadIsAwaited, SessionConsistent
  <2>9. socket = "down" => outbox' = <<>> /\ inbox' = <<>> /\ counter' = 0
    BY <2>3, <2>7 DEF IInv, SessionConsistent
  <2>10. /\ UNCHANGED <<socket, ready, state, subscribed, fatal>>
         /\ \A k \in Requests : request[k] # "idle" => request'[k] # "idle"
    BY <2>3
  <2>. QED
    BY <2>4, <2>6, <2>8, <2>9, <2>10, QuietStep
<1>. QED
  BY <1>1, <1>2, <1>3

(* The answers of the exchange.                                            *)
LEMMA ExchangeOrderStep ==
    ASSUME IInv, TypeOK',
           \/ ExchangeOrderStatus \/ ExchangeOrderStatusError
           \/ ExchangeOrderPlace \/ ExchangeOrderCancel
    PROVE  IInv'
<1>1. CASE ExchangeOrderStatus \/ ExchangeOrderStatusError
  <2>1. Requested("order_status") /\ subscribed' = subscribed
    BY <1>1 DEF ExchangeOrderStatus, ExchangeOrderStatusError, venue
  <2>2. Head(outbox).order \in Orders
    BY <2>1, RequestedType, ToExchangeType DEF IInv
  <2>3. PICK s \in ExchangeStatus \cup {"error"} :
           Reply(<<OrderQueryAck(Head(outbox).order, s)>>)
    BY <1>1, <2>2 DEF ExchangeOrderStatus, ExchangeOrderStatusError, IInv, TypeOK
  <2>. DEFINE m == OrderQueryAck(Head(outbox).order, s)
  <2>4. m \in ToGateway /\ m.type = "order_status"
    BY <2>2, ToGatewayFrames DEF OrderQueryAck
  <2>5. PICK frames \in Seq(ToGateway) : frames = <<m>>
    BY <2>4, OneFrame, Zenon
  <2>6. m.type \notin ControlTypes /\ m.type \in QueryTypes
    BY <2>4 DEF ControlTypes, QueryTypes
  <2>7. NoControl(frames)
    BY <2>5, <2>6 DEF NoControl
  <2>8. Count(frames, QueryTypes) = 1
    BY <2>5, <2>6, CountOne, Zenon
  <2>. QED
    BY <2>1, <2>3, <2>4, <2>5, <2>6, <2>7, <2>8, QuietReply
<1>2. ASSUME NEW type \in {"order_place", "order_cancel"}, Requested(type),
             NEW frames \in Seq(ToGateway), Reply(frames), subscribed' = subscribed,
             \A i \in DOMAIN frames : frames[i].type \in OrderTypes
      PROVE  IInv'
  <2>1. type \notin ControlTypes /\ type \notin QueryTypes
    BY DEF ControlTypes, QueryTypes
  <2>2. NoControl(frames) /\ Count(frames, QueryTypes) = 0
    BY <1>2, OrderFrames
  <2>. QED
    BY <1>2, <2>1, <2>2, QuietReply
<1>3. ASSUME NEW frames \in Seq(ToGateway), NEW o \in Orders, NEW s \in {"open", "closed"},
             \A i \in DOMAIN frames : frames[i].type \in OrderTypes
      PROVE  /\ frames \o Push(o, s) \in Seq(ToGateway)
             /\ \A i \in DOMAIN (frames \o Push(o, s)) :
                   (frames \o Push(o, s))[i].type \in OrderTypes
  <2>1. PICK p \in Seq(ToGateway) :
           p = Push(o, s) /\ \A i \in DOMAIN p : p[i].type \in OrderTypes
    BY PushFrames
  <2>2. \A i \in DOMAIN (frames \o p) :
           \/ i \in DOMAIN frames /\ (frames \o p)[i] = frames[i]
           \/ i - Len(frames) \in DOMAIN p /\ (frames \o p)[i] = p[i - Len(frames)]
    OBVIOUS
  <2>. QED
    BY <1>3, <2>1, <2>2
<1>4. CASE ExchangeOrderPlace
  <2>. DEFINE o == Head(outbox).order
  <2>1. Requested("order_place") /\ subscribed' = subscribed
    BY <1>4 DEF ExchangeOrderPlace
  <2>2. o \in Orders
    BY <2>1, RequestedType, ToExchangeType DEF IInv
  <2>3. ASSUME NEW s \in {"received", "open", "closed", "rejected"}
        PROVE  /\ <<OrderPlaceAck(o, "received"), OrderPlaceAck(o, s)>> \in Seq(ToGateway)
               /\ \A i \in DOMAIN <<OrderPlaceAck(o, "received"), OrderPlaceAck(o, s)>> :
                     <<OrderPlaceAck(o, "received"), OrderPlaceAck(o, s)>>[i].type \in OrderTypes
    <3>1. \A r \in {"received", "open", "closed", "rejected"} :
             OrderPlaceAck(o, r) \in ToGateway /\ OrderPlaceAck(o, r).type \in OrderTypes
      BY <2>2, ToGatewayFrames DEF OrderPlaceAck, OrderTypes
    <3>. QED
      BY <3>1
  <2>4. PICK frames \in Seq(ToGateway) :
           Reply(frames) /\ \A i \in DOMAIN frames : frames[i].type \in OrderTypes
    <3>1. CASE Reply(<<OrderPlaceAck(o, "received"), OrderPlaceAck(o, "rejected")>>)
      BY <2>3, <3>1
    <3>2. ASSUME NEW s \in {"open", "closed"},
                 Reply(<<OrderPlaceAck(o, "received"), OrderPlaceAck(o, s)>> \o Push(o, s))
          PROVE  \E frames \in Seq(ToGateway) :
                    Reply(frames) /\ \A i \in DOMAIN frames : frames[i].type \in OrderTypes
      <4>1. PICK a \in Seq(ToGateway) :
               /\ a = <<OrderPlaceAck(o, "received"), OrderPlaceAck(o, s)>>
               /\ \A i \in DOMAIN a : a[i].type \in OrderTypes
        BY <2>3
      <4>2. /\ a \o Push(o, s) \in Seq(ToGateway)
            /\ \A i \in DOMAIN (a \o Push(o, s)) : (a \o Push(o, s))[i].type \in OrderTypes
        BY <1>3, <2>2, <4>1
      <4>. QED
        BY <3>2, <4>1, <4>2, Zenon
    <3>. QED
      BY <1>4, <3>1, <3>2 DEF ExchangeOrderPlace
  <2>. QED
    BY <1>2, <2>1, <2>4
<1>5. CASE ExchangeOrderCancel
  <2>. DEFINE o == Head(outbox).order
  <2>1. Requested("order_cancel") /\ subscribed' = subscribed
    BY <1>5 DEF ExchangeOrderCancel
  <2>2. o \in Orders
    BY <2>1, RequestedType, ToExchangeType DEF IInv
  <2>3. ASSUME NEW s \in {"closed", "rejected"}
        PROVE  /\ <<OrderCancelAck(o, s)>> \in Seq(ToGateway)
               /\ \A i \in DOMAIN <<OrderCancelAck(o, s)>> :
                     <<OrderCancelAck(o, s)>>[i].type \in OrderTypes
    <3>1. OrderCancelAck(o, s) \in ToGateway /\ OrderCancelAck(o, s).type \in OrderTypes
      BY <2>2, ToGatewayFrames DEF OrderCancelAck, OrderTypes
    <3>. QED
      BY <3>1
  <2>4. PICK frames \in Seq(ToGateway) :
           Reply(frames) /\ \A i \in DOMAIN frames : frames[i].type \in OrderTypes
    <3>1. CASE Reply(<<OrderCancelAck(o, "rejected")>>)
      BY <2>3, <3>1
    <3>2. CASE Reply(<<OrderCancelAck(o, "closed")>> \o Push(o, "closed"))
      <4>1. PICK a \in Seq(ToGateway) :
               /\ a = <<OrderCancelAck(o, "closed")>>
               /\ \A i \in DOMAIN a : a[i].type \in OrderTypes
        BY <2>3
      <4>2. /\ a \o Push(o, "closed") \in Seq(ToGateway)
            /\ \A i \in DOMAIN (a \o Push(o, "closed")) :
                  (a \o Push(o, "closed"))[i].type \in OrderTypes
        BY <1>3, <2>2, <4>1
      <4>. QED
        BY <3>2, <4>1, <4>2, Zenon
    <3>. QED
      BY <1>5, <3>1, <3>2 DEF ExchangeOrderCancel
  <2>. QED
    BY <1>2, <2>1, <2>4
<1>. QED
  BY <1>1, <1>4, <1>5

LEMMA ExchangeDownloadStep ==
    ASSUME IInv, TypeOK', ExchangeLogin \/ ExchangeSubscribe \/ ExchangeOrderList
    PROVE  IInv'
<1>1. ASSUME NEW type \in ControlTypes, Requested(type),
             NEW m \in ToGateway, m.type = type, Reply(<<m>>),
             Awaits(state, Head(outbox)) => Awaits(state, m),
             subscribed \subseteq subscribed',
             m.type = "subscribe" /\ m.status = "success" => m.channel \in subscribed'
      PROVE  IInv'
  <2>1. PICK frames \in Seq(ToGateway) : frames = <<m>>
    BY OneFrame, Zenon
  <2>2. Reply(frames)
    BY <1>1, <2>1
  <2>. QED
    BY <1>1, <2>1, <2>2, ControlReply
<1>2. CASE ExchangeLogin
  <2>1. PICK s \in {"success", "fail"} : Reply(<<LoginAck(s)>>)
    BY <1>2 DEF ExchangeLogin
  <2>2. LoginAck(s) \in ToGateway /\ LoginAck(s).type = "login" /\ "login" \in ControlTypes
    BY ToGatewayFrames DEF LoginAck, ControlTypes
  <2>3. Requested("login") /\ subscribed' = subscribed /\ Head(outbox).type = "login"
    BY <1>2 DEF ExchangeLogin, venue, Requested
  <2>4. Awaits(state, Head(outbox)) => Awaits(state, LoginAck(s))
    BY <2>2, <2>3 DEF Awaits
  <2>. QED
    BY <1>1, <2>1, <2>2, <2>3, <2>4
<1>3. CASE ExchangeOrderList
  <2>1. PICK S \in SUBSET Orders : Reply(<<OrderListAck(S)>>)
    BY <1>3 DEF ExchangeOrderList
  <2>2. /\ OrderListAck(S) \in ToGateway /\ OrderListAck(S).type = "order_list"
        /\ "order_list" \in ControlTypes
    BY ToGatewayFrames DEF OrderListAck, ControlTypes
  <2>3. Requested("order_list") /\ subscribed' = subscribed /\ Head(outbox).type = "order_list"
    BY <1>3 DEF ExchangeOrderList, venue, Requested
  <2>4. Awaits(state, Head(outbox)) => Awaits(state, OrderListAck(S))
    BY <2>2, <2>3 DEF Awaits
  <2>. QED
    BY <1>1, <2>1, <2>2, <2>3, <2>4
<1>4. CASE ExchangeSubscribe
  <2>. DEFINE c == Head(outbox).channel
  <2>1. Requested("subscribe") /\ Head(outbox).type = "subscribe" /\ c \in Channels
    BY <1>4, RequestedType, ToExchangeType DEF ExchangeSubscribe, IInv
  <2>2. PICK s \in {"success", "fail"} :
           /\ Reply(<<SubscribeAck(c, s)>>)
           /\ subscribed \subseteq subscribed'
           /\ s = "success" => c \in subscribed'
    BY <1>4 DEF ExchangeSubscribe
  <2>3. /\ SubscribeAck(c, s) \in ToGateway
        /\ SubscribeAck(c, s).type = "subscribe" /\ SubscribeAck(c, s).channel = c
        /\ SubscribeAck(c, s).status = s /\ "subscribe" \in ControlTypes
    BY <2>1, ToGatewayFrames DEF SubscribeAck, ControlTypes
  <2>4. Awaits(state, Head(outbox)) => Awaits(state, SubscribeAck(c, s))
    BY <2>1, <2>3 DEF Awaits
  <2>. QED
    BY <1>1, <2>1, <2>2, <2>3, <2>4
<1>. QED
  BY <1>2, <1>3, <1>4

LEMMA InitInvariant == Init => IInv
<1>. SUFFICES ASSUME Init PROVE IInv
  OBVIOUS
<1>1. TypeOK
  BY InitType
<1>2. Count(<<>>, QueryTypes) = 0
  BY CountEmpty
<1>3. QueriesCounted /\ NeverOutOfStep /\ DownloadIsAwaited /\ SessionConsistent
  BY <1>2 DEF Init, QueriesCounted, UnderWay, NeverOutOfStep, DownloadIsAwaited,
              SessionConsistent, Passed
<1>. QED
  BY <1>1, <1>3 DEF IInv

LEMMA NextInvariant == IInv /\ [Next]_vars => IInv'
<1>. SUFFICES ASSUME IInv, [Next]_vars PROVE IInv'
  OBVIOUS
<1>1. TypeOK'
  BY NextType DEF IInv
<1>2. CASE Next
  <2>1. CASE SocketReady \/ Disconnected
    BY <1>1, <2>1, ConnectionStep
  <2>2. CASE Receive
    <3>1. CASE TradeLogin \/ TradeSubscribe
      BY <1>1, <3>1, RefusedStep, TradeLoginStep, TradeSubscribeStep
    <3>2. CASE TradeOrderList \/ TradeOrderStatus
      BY <1>1, <3>2, TradeOrderListStep, TradeOrderStatusStep
    <3>3. CASE TradeOrders \/ TradeOrderPlace \/ TradeOrderCancel
      BY <1>1, <3>3, QuietReceive
    <3>. QED
      BY <2>2, <3>1, <3>2, <3>3 DEF Receive
  <2>3. CASE Timer
    BY <1>1, <2>3, TimerStep
  <2>4. CASE Exchange
    BY <1>1, <2>4, ExchangeOrderStep, ExchangeDownloadStep DEF Exchange
  <2>5. CASE \/ \E o \in Orders : CreateOrder(o) \/ CancelOrder(o) \/ ExchangeFinish(o)
             \/ \E k \in Requests : RequestCommit(k)
    BY <1>1, <2>5, OrderStep
  <2>. QED
    BY <1>2, <2>1, <2>2, <2>3, <2>4, <2>5 DEF Next
<1>3. CASE UNCHANGED vars
  BY <1>1, <1>3 DEF vars, IInv, QueriesCounted, UnderWay, NeverOutOfStep, DownloadIsAwaited,
                    AllAwaited, SessionConsistent, Running
<1>. QED
  BY <1>2, <1>3

(* The inductive invariant holds in every reachable state.                 *)
THEOREM SessionCorrect == Spec => []IInv
BY InitInvariant, NextInvariant, PTL DEF Spec

(* download_stale_orders_counter_ always is the number of status queries   *)
(* under way, so check_stale_orders and the answers never disagree.        *)
THEOREM QueriesAlwaysCounted == Spec => []QueriesCounted
<1>1. IInv => QueriesCounted
  BY DEF IInv
<1>. QED
  BY <1>1, SessionCorrect, PTL

(* Neither the fatal errors for an answer out of step nor the assertion of *)
(* DONE are reachable: the only ways to end the process are a refused      *)
(* login and a refused subscription.                                       *)
THEOREM NeverOutOfStepAlways == Spec => []NeverOutOfStep
<1>1. IInv => NeverOutOfStep
  BY DEF IInv
<1>. QED
  BY <1>1, SessionCorrect, PTL

(* Exactly what the download waits for is under way, once.                 *)
THEOREM DownloadAlwaysAwaited == Spec => []DownloadIsAwaited
<1>1. IInv => DownloadIsAwaited
  BY DEF IInv
<1>. QED
  BY <1>1, SessionCorrect, PTL

(* A ready stream has all its channels subscribed on the socket it uses.   *)
THEOREM ReadyAlwaysSubscribed == Spec => []ReadyIsSubscribed
<1>1. IInv => ReadyIsSubscribed
  <2>. SUFFICES ASSUME IInv, ready, Running PROVE subscribed = Channels /\ socket = "up"
    BY DEF ReadyIsSubscribed
  <2>1. state = "DONE" /\ socket = "up"
    BY DEF IInv, SessionConsistent
  <2>2. Channels \subseteq subscribed
    BY <2>1 DEF IInv, SessionConsistent, Passed
  <2>. QED
    BY <2>1, <2>2 DEF IInv, TypeOK
<1>. QED
  BY <1>1, SessionCorrect, PTL

-----------------------------------------------------------------------------
(* What frames are about, and what they tell of an order.                  *)

RequestTypes == {"order_status", "order_place", "order_cancel"}

Sends(m, o) == m.type \in RequestTypes /\ m.order = o

About(m, o) ==
    \/ m.type = "order_list" /\ o \in m.open
    \/ m.type \in RequestTypes \cup {"orders"} /\ m.order = o

Refuses(m, o) ==
    m.type \in {"order_status", "order_place"} /\ m.order = o /\ m.status \in {"none", "rejected"}

Opens(m, o) ==
    \/ m.type = "order_list" /\ o \in m.open
    \/ m.type \in {"order_status", "order_place", "orders"} /\ m.order = o /\ m.status = "open"

Closes(m, o) ==
    m.type \in RequestTypes \cup {"orders"} /\ m.order = o /\ m.status = "closed"

News(m, o) == Refuses(m, o) \/ Opens(m, o) \/ Closes(m, o)

(* News is about the order, and is one of the three.                       *)
LEMMA NewsKinds ==
    ASSUME NEW m, NEW o, News(m, o)
    PROVE  /\ About(m, o)
           /\ ~(Refuses(m, o) /\ Opens(m, o)) /\ ~(Refuses(m, o) /\ Closes(m, o))
           /\ ~(Opens(m, o) /\ Closes(m, o))
BY DEF News, Refuses, Opens, Closes, About, RequestTypes

(* What the frames of the exchange tell.                                   *)
LEMMA FramesTell ==
    ASSUME NEW o \in Orders
    PROVE  /\ \A s : ~About(LoginAck(s), o)
           /\ \A c, s : ~About(SubscribeAck(c, s), o)
           /\ \A S : /\ About(OrderListAck(S), o) <=> o \in S
                     /\ Opens(OrderListAck(S), o) <=> o \in S
                     /\ ~Refuses(OrderListAck(S), o) /\ ~Closes(OrderListAck(S), o)
           /\ \A p, s : /\ About(OrderQueryAck(p, s), o) <=> p = o
                        /\ About(OrderPlaceAck(p, s), o) <=> p = o
                        /\ About(OrderCancelAck(p, s), o) <=> p = o
                        /\ About(OrderUpdate(p, s), o) <=> p = o
                        /\ Refuses(OrderQueryAck(p, s), o) <=> p = o /\ s \in {"none", "rejected"}
                        /\ Refuses(OrderPlaceAck(p, s), o) <=> p = o /\ s \in {"none", "rejected"}
                        /\ ~Refuses(OrderCancelAck(p, s), o) /\ ~Refuses(OrderUpdate(p, s), o)
                        /\ Opens(OrderQueryAck(p, s), o) <=> p = o /\ s = "open"
                        /\ Opens(OrderPlaceAck(p, s), o) <=> p = o /\ s = "open"
                        /\ Opens(OrderUpdate(p, s), o) <=> p = o /\ s = "open"
                        /\ ~Opens(OrderCancelAck(p, s), o)
                        /\ Closes(OrderQueryAck(p, s), o) <=> p = o /\ s = "closed"
                        /\ Closes(OrderPlaceAck(p, s), o) <=> p = o /\ s = "closed"
                        /\ Closes(OrderCancelAck(p, s), o) <=> p = o /\ s = "closed"
                        /\ Closes(OrderUpdate(p, s), o) <=> p = o /\ s = "closed"
BY DEF About, Opens, Refuses, Closes, RequestTypes, LoginAck, SubscribeAck, OrderListAck,
       OrderQueryAck, OrderPlaceAck, OrderCancelAck, OrderUpdate

LEMMA RequestsSend ==
    ASSUME NEW o \in Orders
    PROVE  /\ ~Sends(Login, o) /\ ~Sends(OrderList, o) /\ \A c : ~Sends(Subscribe(c), o)
           /\ \A p : /\ Sends(OrderQuery(p), o) <=> p = o
                     /\ Sends(OrderPlace(p), o) <=> p = o
                     /\ Sends(OrderCancel(p), o) <=> p = o
                     /\ OrderQuery(p) # OrderPlace(o) /\ OrderCancel(p) # OrderPlace(o)
                     /\ OrderPlace(p) = OrderPlace(o) => p = o
BY DEF Sends, RequestTypes, Login, OrderList, Subscribe, OrderQuery, OrderPlace, OrderCancel

-----------------------------------------------------------------------------
(* Queues of frames.                                                       *)

(* What the frames tell of an order that is x at the exchange: only what   *)
(* is over may be older, and nothing is open after it was closed.          *)
Sound(s, o, x) ==
    \A i \in DOMAIN s :
        /\ Refuses(s[i], o) => x = "none"
        /\ Opens(s[i], o) => x = "open" \/ \E j \in DOMAIN s : j > i /\ Closes(s[j], o)
        /\ Closes(s[i], o) => x = "closed" /\ \A j \in DOMAIN s : j > i => ~Opens(s[j], o)

(* All of them tell what the order is.                                     *)
Fits(t, o, x) ==
    \A i \in DOMAIN t :
        /\ Refuses(t[i], o) => x = "none"
        /\ Opens(t[i], o) => x = "open"
        /\ Closes(t[i], o) => x = "closed"

AnyNews(s, o) == \E i \in DOMAIN s : News(s[i], o)

AnyAbout(s, o) == \E i \in DOMAIN s : About(s[i], o)

AnySends(s, o) == \E i \in DOMAIN s : Sends(s[i], o)

LEMMA QueueConcat ==
    ASSUME NEW S, NEW s \in Seq(S), NEW t \in Seq(S)
    PROVE  /\ s \o t \in Seq(S)
           /\ \A i \in DOMAIN s : i \in DOMAIN (s \o t) /\ (s \o t)[i] = s[i]
           /\ \A i \in DOMAIN t : Len(s) + i \in DOMAIN (s \o t) /\ (s \o t)[Len(s) + i] = t[i]
           /\ \A i \in DOMAIN (s \o t) :
                 \/ i \in DOMAIN s /\ (s \o t)[i] = s[i]
                 \/ \E j \in DOMAIN t : i = Len(s) + j /\ (s \o t)[i] = t[j]
           /\ \A i \in DOMAIN s, j \in DOMAIN t : Len(s) + j > i
           /\ \A i, j \in DOMAIN s : i > j => i \in Nat /\ j \in Nat
<1>1. /\ s \o t \in Seq(S) /\ Len(s \o t) = Len(s) + Len(t)
      /\ \A i \in 1 .. Len(s) + Len(t) :
            (s \o t)[i] = IF i <= Len(s) THEN s[i] ELSE t[i - Len(s)]
  BY ConcatProperties
<1>2. DOMAIN s = 1 .. Len(s) /\ DOMAIN t = 1 .. Len(t) /\ Len(s) \in Nat /\ Len(t) \in Nat
  OBVIOUS
<1>3. DOMAIN (s \o t) = 1 .. Len(s) + Len(t)
  BY <1>1
<1>4. \A i \in DOMAIN (s \o t) : i \notin DOMAIN s =>
         i - Len(s) \in DOMAIN t /\ i = Len(s) + (i - Len(s)) /\ ~(i <= Len(s))
  BY <1>2, <1>3
<1>5. \A i \in DOMAIN t : /\ Len(s) + i \in DOMAIN (s \o t) /\ ~(Len(s) + i <= Len(s))
                          /\ Len(s) + i - Len(s) = i
  BY <1>2, <1>3
<1>6. \A i \in DOMAIN s, j \in DOMAIN t : Len(s) + j > i
  BY <1>2
<1>7. \A i \in DOMAIN s : i \in DOMAIN (s \o t) /\ i <= Len(s) /\ i \in Nat
  BY <1>2, <1>3
<1>8. \A i \in DOMAIN s : (s \o t)[i] = s[i]
  BY <1>1, <1>3, <1>7
<1>9. \A i \in DOMAIN t : (s \o t)[Len(s) + i] = t[i]
  BY <1>1, <1>3, <1>5
<1>10. \A i \in DOMAIN (s \o t) : i \notin DOMAIN s => (s \o t)[i] = t[i - Len(s)]
  BY <1>1, <1>3, <1>4
<1> QED BY <1>1, <1>4, <1>5, <1>6, <1>7, <1>8, <1>9, <1>10

LEMMA QueueTail ==
    ASSUME NEW S, NEW s \in Seq(S), s # <<>>
    PROVE  /\ Head(s) \in S /\ Head(s) = s[1] /\ 1 \in DOMAIN s
           /\ Tail(s) \in Seq(S)
           /\ \A i \in DOMAIN s : i = 1 \/ (i - 1 \in DOMAIN Tail(s) /\ Tail(s)[i - 1] = s[i])
           /\ \A i \in DOMAIN Tail(s) : i + 1 \in DOMAIN s /\ Tail(s)[i] = s[i + 1] /\ i + 1 > 1
           /\ \A i, j \in DOMAIN Tail(s) : i > j <=> i + 1 > j + 1
           /\ \A i, j \in DOMAIN s : i > j => i \in Nat /\ j \in Nat /\ i # 1 /\ i - 1 > j - 1
<1>1. /\ Tail(s) \in Seq(S) /\ Len(Tail(s)) = Len(s) - 1 /\ Len(s) \in Nat /\ Len(s) # 0
      /\ \A i \in 1 .. Len(s) - 1 : Tail(s)[i] = s[i + 1]
  OBVIOUS
<1>2. DOMAIN s = 1 .. Len(s) /\ DOMAIN Tail(s) = 1 .. Len(s) - 1
  BY <1>1
<1>3. Head(s) = s[1] /\ 1 \in DOMAIN s /\ Head(s) \in S
  <2>1. 1 \in DOMAIN s
    BY <1>1, <1>2
  <2>2. Head(s) \in S
    BY HeadTailProperties
  <2> QED BY <2>1, <2>2
<1>4. \A i \in DOMAIN s : i # 1 => i - 1 \in 1 .. Len(s) - 1 /\ (i - 1) + 1 = i
  BY <1>1, <1>2
<1>5. \A i \in 1 .. Len(s) - 1 : i + 1 \in DOMAIN s /\ i + 1 > 1
  BY <1>1, <1>2
<1>6. \A i, j \in 1 .. Len(s) - 1 : i > j <=> i + 1 > j + 1
  BY <1>1
<1>7. \A i, j \in 1 .. Len(s) : i > j => i \in Nat /\ j \in Nat /\ i # 1 /\ i - 1 > j - 1
  BY <1>1
<1> QED BY <1>1, <1>2, <1>3, <1>4, <1>5, <1>6, <1>7

(* What is about an order in the rest or in more of a queue.               *)
LEMMA SomeConcat ==
    ASSUME NEW S, NEW s \in Seq(S), NEW t \in Seq(S), NEW o
    PROVE  /\ AnyNews(s \o t, o) <=> AnyNews(s, o) \/ AnyNews(t, o)
           /\ AnyAbout(s \o t, o) <=> AnyAbout(s, o) \/ AnyAbout(t, o)
           /\ AnySends(s \o t, o) <=> AnySends(s, o) \/ AnySends(t, o)
<1>1. /\ \A i \in DOMAIN s : i \in DOMAIN (s \o t) /\ (s \o t)[i] = s[i]
      /\ \A i \in DOMAIN t : Len(s) + i \in DOMAIN (s \o t) /\ (s \o t)[Len(s) + i] = t[i]
      /\ \A i \in DOMAIN (s \o t) :
            \/ i \in DOMAIN s /\ (s \o t)[i] = s[i]
            \/ \E j \in DOMAIN t : i = Len(s) + j /\ (s \o t)[i] = t[j]
  BY QueueConcat
<1>2. AnyNews(s \o t, o) <=> AnyNews(s, o) \/ AnyNews(t, o)
  BY <1>1 DEF AnyNews
<1>3. AnyAbout(s \o t, o) <=> AnyAbout(s, o) \/ AnyAbout(t, o)
  BY <1>1 DEF AnyAbout
<1>4. AnySends(s \o t, o) <=> AnySends(s, o) \/ AnySends(t, o)
  BY <1>1 DEF AnySends
<1> QED BY <1>2, <1>3, <1>4

LEMMA SomeTail ==
    ASSUME NEW S, NEW s \in Seq(S), s # <<>>, NEW o
    PROVE  /\ AnyNews(s, o) <=> News(Head(s), o) \/ AnyNews(Tail(s), o)
           /\ AnyAbout(s, o) <=> About(Head(s), o) \/ AnyAbout(Tail(s), o)
           /\ AnySends(s, o) <=> Sends(Head(s), o) \/ AnySends(Tail(s), o)
<1>1. /\ Head(s) = s[1] /\ 1 \in DOMAIN s
      /\ \A i \in DOMAIN s : i = 1 \/ (i - 1 \in DOMAIN Tail(s) /\ Tail(s)[i - 1] = s[i])
      /\ \A i \in DOMAIN Tail(s) : i + 1 \in DOMAIN s /\ Tail(s)[i] = s[i + 1]
  BY QueueTail
<1>2. AnyNews(s, o) <=> News(Head(s), o) \/ AnyNews(Tail(s), o)
  BY <1>1 DEF AnyNews
<1>3. AnyAbout(s, o) <=> About(Head(s), o) \/ AnyAbout(Tail(s), o)
  BY <1>1 DEF AnyAbout
<1>4. AnySends(s, o) <=> Sends(Head(s), o) \/ AnySends(Tail(s), o)
  BY <1>1 DEF AnySends
<1> QED BY <1>2, <1>3, <1>4

LEMMA NewsIsAbout ==
    ASSUME NEW s, NEW o, ~AnyAbout(s, o)
    PROVE  ~AnyNews(s, o)
BY NewsKinds DEF AnyAbout, AnyNews

(* A queue stays sound when its first frame is handled, and what is left   *)
(* is no older than that frame.                                            *)
LEMMA SoundTail ==
    ASSUME NEW S, NEW s \in Seq(S), s # <<>>, NEW o, NEW x, Sound(s, o, x)
    PROVE  /\ Sound(Tail(s), o, x)
           /\ Refuses(Head(s), o) => x = "none"
           /\ Opens(Head(s), o) => x # "none"
           /\ Opens(Head(s), o) => x = "open" \/ AnyNews(Tail(s), o)
           /\ Closes(Head(s), o) => x = "closed" /\ \A i \in DOMAIN Tail(s) : ~Opens(Tail(s)[i], o)
<1>. DEFINE t == Tail(s)
<1>1. /\ Head(s) = s[1] /\ 1 \in DOMAIN s
      /\ \A i \in DOMAIN s : i = 1 \/ (i - 1 \in DOMAIN t /\ t[i - 1] = s[i])
      /\ \A i \in DOMAIN t : i + 1 \in DOMAIN s /\ t[i] = s[i + 1] /\ i + 1 > 1
      /\ \A i, j \in DOMAIN t : i > j <=> i + 1 > j + 1
      /\ \A i, j \in DOMAIN s : i > j => i \in Nat /\ j \in Nat /\ i # 1 /\ i - 1 > j - 1
      /\ \A i \in DOMAIN t : (i + 1) - 1 = i
  <2>1. \A i \in DOMAIN t : (i + 1) - 1 = i
    OBVIOUS
  <2> QED BY <2>1, QueueTail
<1>. HIDE DEF t
<1>2. ASSUME NEW i \in DOMAIN t, Opens(t[i], o), x # "open"
      PROVE  \E j \in DOMAIN t : j > i /\ Closes(t[j], o)
  <2>1. PICK j \in DOMAIN s : j > i + 1 /\ Closes(s[j], o)
    BY <1>1, <1>2 DEF Sound
  <2>2. j # 1 /\ j - 1 > (i + 1) - 1 /\ j - 1 \in DOMAIN t /\ t[j - 1] = s[j]
    BY <1>1, <2>1
  <2> QED BY <1>1, <2>1, <2>2
<1>3. ASSUME NEW i \in DOMAIN t, Closes(t[i], o)
      PROVE  x = "closed" /\ \A j \in DOMAIN t : j > i => ~Opens(t[j], o)
  BY <1>1, <1>3 DEF Sound
<1>4. ASSUME NEW i \in DOMAIN t, Refuses(t[i], o)
      PROVE  x = "none"
  BY <1>1, <1>4 DEF Sound
<1>5. Sound(t, o, x)
  BY <1>2, <1>3, <1>4 DEF Sound
<1>6. Refuses(Head(s), o) => x = "none"
  BY <1>1 DEF Sound
<1>7. Closes(Head(s), o) => x = "closed" /\ \A i \in DOMAIN t : ~Opens(t[i], o)
  BY <1>1 DEF Sound
<1>8. ASSUME Opens(Head(s), o), x # "open" PROVE x = "closed" /\ AnyNews(t, o)
  <2>1. PICK j \in DOMAIN s : j > 1 /\ Closes(s[j], o)
    BY <1>1, <1>8 DEF Sound
  <2>2. j - 1 \in DOMAIN t /\ t[j - 1] = s[j] /\ x = "closed"
    BY <1>1, <2>1 DEF Sound
  <2> QED BY <2>1, <2>2 DEF AnyNews, News
<1> QED BY <1>5, <1>6, <1>7, <1>8 DEF t

(* Frames that tell what the order is may be added.                        *)
LEMMA SoundFits ==
    ASSUME NEW S, NEW s \in Seq(S), NEW t \in Seq(S), NEW o, NEW x,
           Sound(s, o, x), Fits(t, o, x)
    PROVE  Sound(s \o t, o, x)
<1>. DEFINE u == s \o t
<1>1. /\ \A i \in DOMAIN s : i \in DOMAIN u /\ u[i] = s[i]
      /\ \A i \in DOMAIN t : Len(s) + i \in DOMAIN u /\ u[Len(s) + i] = t[i]
      /\ \A i \in DOMAIN u :
            \/ i \in DOMAIN s /\ u[i] = s[i]
            \/ \E j \in DOMAIN t : i = Len(s) + j /\ u[i] = t[j]
  BY QueueConcat
<1>. HIDE DEF u
<1>2. ASSUME NEW i \in DOMAIN u, Refuses(u[i], o) PROVE x = "none"
  BY <1>1, <1>2 DEF Sound, Fits
<1>3. ASSUME NEW i \in DOMAIN u, Opens(u[i], o), x # "open"
      PROVE  \E j \in DOMAIN u : j > i /\ Closes(u[j], o)
  BY <1>1, <1>3 DEF Sound, Fits
<1>4. ASSUME NEW i \in DOMAIN u, Closes(u[i], o)
      PROVE  x = "closed" /\ \A j \in DOMAIN u : j > i => ~Opens(u[j], o)
  <2>1. x = "closed"
    BY <1>1, <1>4 DEF Sound, Fits
  <2>2. ASSUME NEW j \in DOMAIN u, j > i, Opens(u[j], o) PROVE FALSE
    <3>1. j \in DOMAIN s /\ u[j] = s[j]
      BY <1>1, <2>1, <2>2 DEF Fits
    <3>2. i \in DOMAIN s /\ u[i] = s[i]
      <4>1. ASSUME NEW k \in DOMAIN t, i = Len(s) + k PROVE FALSE
        <5>1. Len(s) + k > j /\ j \in Nat /\ Len(s) + k \in Nat
          BY <3>1
        <5> QED BY <2>2, <4>1, <5>1
      <4> QED BY <1>1, <4>1
    <3> QED BY <1>4, <2>2, <3>1, <3>2 DEF Sound
  <2> QED BY <2>1, <2>2
<1> QED BY <1>2, <1>3, <1>4 DEF Sound, u

(* An order that was open is closed: the exchange says so.                 *)
LEMMA SoundClosed ==
    ASSUME NEW S, NEW s \in Seq(S), NEW t \in Seq(S), NEW o,
           Sound(s, o, "open"), Fits(t, o, "closed"), AnyNews(t, o) \/ ~AnyNews(s, o)
    PROVE  Sound(s \o t, o, "closed")
<1>1. CASE AnyNews(t, o)
  <2>. DEFINE u == s \o t
  <2>1. /\ \A i \in DOMAIN s : i \in DOMAIN u /\ u[i] = s[i]
        /\ \A i \in DOMAIN t : Len(s) + i \in DOMAIN u /\ u[Len(s) + i] = t[i]
        /\ \A i \in DOMAIN u :
              \/ i \in DOMAIN s /\ u[i] = s[i]
              \/ \E j \in DOMAIN t : i = Len(s) + j /\ u[i] = t[j]
        /\ \A i \in DOMAIN s, j \in DOMAIN t : Len(s) + j > i
    BY QueueConcat
  <2>2. PICK k \in DOMAIN t : Closes(t[k], o)
    BY <1>1 DEF AnyNews, News, Fits
  <2>. HIDE DEF u
  <2>3. \A i \in DOMAIN s : ~Refuses(s[i], o) /\ ~Closes(s[i], o)
    BY DEF Sound
  <2>4. \A i \in DOMAIN t : ~Refuses(t[i], o) /\ ~Opens(t[i], o)
    BY DEF Fits
  <2>5. ASSUME NEW i \in DOMAIN u, Opens(u[i], o)
        PROVE  \E j \in DOMAIN u : j > i /\ Closes(u[j], o)
    BY <2>1, <2>2, <2>4, <2>5
  <2>6. ASSUME NEW i \in DOMAIN u, Closes(u[i], o), NEW j \in DOMAIN u, j > i, Opens(u[j], o)
        PROVE  FALSE
    <3>1. j \in DOMAIN s /\ j \in Nat
      BY <2>1, <2>4, <2>6
    <3>2. PICK m \in DOMAIN t : i = Len(s) + m
      BY <2>1, <2>3, <2>6
    <3>3. Len(s) + m > j /\ Len(s) + m \in Nat
      BY <2>1, <3>1
    <3> QED BY <2>6, <3>1, <3>2, <3>3
  <2>7. \A i \in DOMAIN u : ~Refuses(u[i], o)
    BY <2>1, <2>3, <2>4
  <2> QED BY <2>5, <2>6, <2>7 DEF Sound, u
<1>2. CASE ~AnyNews(s, o)
  <2>1. Sound(s, o, "closed")
    BY <1>2 DEF Sound, AnyNews, News
  <2> QED BY <2>1, SoundFits
<1> QED BY <1>1, <1>2

-----------------------------------------------------------------------------
(* Requests to place an order.                                             *)

Places(s, o) == \E i \in DOMAIN s : s[i] = OrderPlace(o)

(* The request to place an order is the only one about it.                 *)
Alone(s, o) ==
    \A i, j \in DOMAIN s : s[i] = OrderPlace(o) /\ Sends(s[j], o) => i = j

LEMMA PlacesConcat ==
    ASSUME NEW S, NEW s \in Seq(S), NEW t \in Seq(S), NEW o
    PROVE  Places(s \o t, o) <=> Places(s, o) \/ Places(t, o)
<1>1. /\ \A i \in DOMAIN s : i \in DOMAIN (s \o t) /\ (s \o t)[i] = s[i]
      /\ \A i \in DOMAIN t : Len(s) + i \in DOMAIN (s \o t) /\ (s \o t)[Len(s) + i] = t[i]
      /\ \A i \in DOMAIN (s \o t) :
            \/ i \in DOMAIN s /\ (s \o t)[i] = s[i]
            \/ \E j \in DOMAIN t : i = Len(s) + j /\ (s \o t)[i] = t[j]
  BY QueueConcat
<1> QED BY <1>1 DEF Places

LEMMA PlacesTail ==
    ASSUME NEW S, NEW s \in Seq(S), s # <<>>, NEW o
    PROVE  Places(s, o) <=> Head(s) = OrderPlace(o) \/ Places(Tail(s), o)
<1>1. /\ Head(s) = s[1] /\ 1 \in DOMAIN s
      /\ \A i \in DOMAIN s : i = 1 \/ (i - 1 \in DOMAIN Tail(s) /\ Tail(s)[i - 1] = s[i])
      /\ \A i \in DOMAIN Tail(s) : i + 1 \in DOMAIN s /\ Tail(s)[i] = s[i + 1]
  BY QueueTail
<1> QED BY <1>1 DEF Places

LEMMA PlacesSends ==
    ASSUME NEW s, NEW o, ~AnySends(s, o)
    PROVE  ~Places(s, o)
BY DEF AnySends, Places, Sends, OrderPlace, RequestTypes

LEMMA AloneConcat ==
    ASSUME NEW S, NEW s \in Seq(S), NEW t \in Seq(S), NEW o,
           Alone(s, o), ~AnySends(t, o) 
    PROVE  Alone(s \o t, o)
<1>1. \A i \in DOMAIN (s \o t) :
            \/ i \in DOMAIN s /\ (s \o t)[i] = s[i]
            \/ \E j \in DOMAIN t : i = Len(s) + j /\ (s \o t)[i] = t[j]
  BY QueueConcat
<1>2. \A i \in DOMAIN t : ~Sends(t[i], o) /\ t[i] # OrderPlace(o)
  BY DEF AnySends, Sends, OrderPlace, RequestTypes
<1>. DEFINE u == s \o t
<1>3. \A i \in DOMAIN u : \/ i \in DOMAIN s /\ u[i] = s[i]
                          \/ ~Sends(u[i], o) /\ u[i] # OrderPlace(o)
  BY <1>1, <1>2
<1>. HIDE DEF u
<1>4. Alone(u, o)
  BY <1>3 DEF Alone
<1> QED BY <1>4 DEF u

(* What is left when the first request is taken.                           *)
LEMMA AloneTail ==
    ASSUME NEW S, NEW s \in Seq(S), s # <<>>, NEW o, Alone(s, o)
    PROVE  /\ Alone(Tail(s), o)
           /\ Head(s) = OrderPlace(o) => ~AnySends(Tail(s), o)
           /\ Sends(Head(s), o) /\ Head(s) # OrderPlace(o) => ~Places(s, o)
<1>. DEFINE t == Tail(s)
<1>1. /\ Head(s) = s[1] /\ 1 \in DOMAIN s
      /\ \A i \in DOMAIN t : i + 1 \in DOMAIN s /\ t[i] = s[i + 1] /\ i + 1 > 1
      /\ \A i, j \in DOMAIN t : i > j <=> i + 1 > j + 1
  BY QueueTail
<1>2. DOMAIN t \subseteq Nat
  OBVIOUS
<1>. HIDE DEF t
<1>3. ASSUME NEW i \in DOMAIN t, NEW j \in DOMAIN t, t[i] = OrderPlace(o), Sends(t[j], o)
      PROVE  i = j
  <2>1. i + 1 = j + 1
    BY <1>1, <1>3 DEF Alone
  <2> QED BY <2>1, <1>2
<1>4. Alone(t, o)
  BY <1>3 DEF Alone
<1>5. ASSUME Head(s) = OrderPlace(o), NEW i \in DOMAIN t, Sends(t[i], o) PROVE FALSE
  <2>1. 1 = i + 1
    BY <1>1, <1>5 DEF Alone
  <2> QED BY <1>1, <2>1
<1>6. ASSUME Sends(Head(s), o), Head(s) # OrderPlace(o), Places(s, o) PROVE FALSE
  BY <1>1, <1>6 DEF Alone, Places
<1> QED BY <1>4, <1>5, <1>6 DEF t, AnySends

-----------------------------------------------------------------------------
(* The inductive invariant, of each order.                                 *)

(* A request to place an order is on its way: the exchange has not seen    *)
(* the order, and nothing else is said about it.                           *)
PlacedFirst(o) ==
    Places(outbox, o) => /\ oms[o] = "SENT" /\ o \notin stale /\ exch[o] = "none"
                         /\ ~AnyAbout(inbox, o)

(* Of an order the OMS does not know, nothing was asked.                   *)
UnknownUnasked(o) ==
    oms[o] = "UNDEFINED" => /\ o \notin stale /\ ~AnySends(outbox, o)
                            /\ exch[o] = "none" => ~AnyAbout(inbox, o)

(* What the OMS was told may be over, but is never ahead of the exchange.  *)
ToldTrue(o) ==
    /\ oms[o] = "COMPLETED" =>
          exch[o] = "closed" /\ \A i \in DOMAIN inbox : ~Opens(inbox[i], o)
    /\ oms[o] = "REJECTED" => exch[o] = "none"
    /\ oms[o] = "WORKING" => exch[o] # "none"

(* A live order that is not stale is what it seems, or news is coming.     *)
LiveIsFollowed(o) ==
    (Running /\ oms[o] \in Live /\ o \notin stale) =>
        /\ "orders" \in subscribed
        /\ \/ Places(outbox, o)
           \/ oms[o] = "WORKING" /\ exch[o] = "open"
           \/ AnyNews(inbox, o)

BeforeList == {"UNDEFINED", "SUBSCRIBE_BALANCES", "GET_BALANCES", "SUBSCRIBE_POSITIONS",
               "GET_POSITIONS", "SUBSCRIBE_ORDERS", "GET_OPEN_ORDERS"}

ListsHave(s, o) == \A i \in DOMAIN s : s[i].type = "order_list" => o \in s[i].open

(* An order that is open and not known will be in the list.                *)
OpenIsListed(o) ==
    (Running /\ "order_list" \notin Faults /\ exch[o] = "open" /\ oms[o] = "UNDEFINED") =>
        /\ state \in BeforeList \/ AnyNews(inbox, o)
        /\ ListsHave(inbox, o)

FollowsOrder(o) ==
    /\ PlacedFirst(o) /\ Alone(outbox, o) /\ UnknownUnasked(o)
    /\ Sound(inbox, o, exch[o]) /\ ToldTrue(o) /\ LiveIsFollowed(o)

(* Frames about orders are only sent once the updates are subscribed, and  *)
(* a stream is published READY only when the download is done.             *)
OrdersFirst(s) ==
    \A i \in DOMAIN s :
        s[i].type \in RequestTypes \cup {"order_list", "orders"} => "orders" \in subscribed

InOrder ==
    Running =>
        /\ OrdersFirst(outbox) /\ OrdersFirst(inbox)
        /\ connection_status = "READY" => state = "DONE"

OrderInv ==
    IInv /\ InOrder /\ \A o \in Orders : FollowsOrder(o) /\ OpenIsListed(o)

-----------------------------------------------------------------------------
(* What a step does to an order.                                           *)

(* The gateway sends something, nothing is heard.                          *)
Asking(o) ==
    /\ UNCHANGED <<inbox, subscribed>>
    /\ exch'[o] = exch[o] /\ oms'[o] = oms[o] /\ (o \in stale' <=> o \in stale)
    /\ \E q \in Seq(ToExchange) :
          /\ outbox' = outbox \o q
          /\ ~Places(q, o)
          /\ AnySends(q, o) => o \in stale \/ oms[o] = "WORKING"

Creating(o) ==
    /\ UNCHANGED <<inbox, subscribed, exch, stale>>
    /\ "orders" \in subscribed
    /\ oms[o] = "UNDEFINED" /\ exch[o] = "none" /\ oms'[o] = "SENT"
    /\ outbox' = outbox \o <<OrderPlace(o)>>

(* The gateway handles a frame, and asks about what is then stale.         *)
Hearing(o) ==
    /\ inbox # <<>> /\ inbox' = Tail(inbox)
    /\ subscribed' = subscribed
    /\ exch'[o] = exch[o]
    /\ \/ ~News(Head(inbox), o) /\ oms'[o] = oms[o] /\ (o \in stale' <=> o \in stale)
       \/ /\ o \notin stale'
          /\ \/ Refuses(Head(inbox), o) /\ oms'[o] = "REJECTED"
             \/ Opens(Head(inbox), o) /\ oms'[o] = "WORKING"
             \/ Closes(Head(inbox), o) /\ oms'[o] = "COMPLETED"
    /\ \E q \in Seq(ToExchange) :
          /\ outbox' = outbox \o q
          /\ ~Places(q, o)
          /\ AnySends(q, o) => o \in stale'

(* The exchange speaks: it takes a request from the outbox, or acts.       *)
Speaking(t) ==
    /\ t \in Seq(ToGateway)
    /\ inbox' = inbox \o t
    /\ UNCHANGED <<oms, stale>>
    /\ subscribed \subseteq subscribed'

Taking(o) == outbox # <<>> /\ outbox' = Tail(outbox) /\ Head(outbox) # OrderPlace(o)

Answering(o) ==
    \E t \in Seq(ToGateway) :
        /\ Speaking(t)
        /\ exch'[o] = exch[o]
        /\ Fits(t, o, exch[o])
        /\ outbox' = outbox \/ Taking(o)
        /\ AnyAbout(t, o) => exch[o] = "open" \/ (Taking(o) /\ Sends(Head(outbox), o))

Placing(o) ==
    \E t \in Seq(ToGateway) :
        /\ Speaking(t)
        /\ outbox # <<>> /\ outbox' = Tail(outbox) /\ Head(outbox) = OrderPlace(o)
        /\ Fits(t, o, exch'[o])
        /\ AnyNews(t, o)

Closing(o) ==
    \E t \in Seq(ToGateway) :
        /\ Speaking(t)
        /\ exch[o] = "open" /\ exch'[o] = "closed"
        /\ outbox' = outbox \/ Taking(o)
        /\ Fits(t, o, "closed")
        /\ "orders" \in subscribed => AnyNews(t, o)

Losing(o) ==
    /\ exch'[o] = exch[o] /\ oms'[o] = oms[o]
    /\ oms[o] = "UNDEFINED" => (o \in stale' <=> o \in stale)
    /\ oms[o] \in Live => o \in stale'
    /\ outbox' = <<>> /\ inbox' = <<>>

-----------------------------------------------------------------------------
(* Each kind of step keeps the invariant of the order.                     *)

LEMMA AskingStep ==
    ASSUME TypeOK, Running, NEW o \in Orders, FollowsOrder(o), Asking(o)
    PROVE  FollowsOrder(o)'
<1>1. PICK q \in Seq(ToExchange) :
         /\ outbox' = outbox \o q
         /\ ~Places(q, o)
         /\ AnySends(q, o) => o \in stale \/ oms[o] = "WORKING"
  BY DEF Asking
<1>2. /\ inbox' = inbox /\ subscribed' = subscribed
      /\ exch'[o] = exch[o] /\ oms'[o] = oms[o] /\ (o \in stale' <=> o \in stale)
      /\ outbox \in Seq(ToExchange)
  BY DEF Asking, TypeOK
<1>3. (Places(outbox, o))' <=> Places(outbox, o)
  BY <1>1, <1>2, PlacesConcat DEF Places
<1>4. (AnySends(outbox, o))' <=> AnySends(outbox, o) \/ AnySends(q, o)
  <2>1. AnySends(outbox \o q, o) <=> AnySends(outbox, o) \/ AnySends(q, o)
    BY <1>2, SomeConcat
  <2>2. (AnySends(outbox, o))' <=> AnySends(outbox \o q, o)
    BY <1>1 DEF AnySends
  <2> QED BY <2>1, <2>2
<1>5. PlacedFirst(o)'
  BY <1>2, <1>3 DEF FollowsOrder, PlacedFirst, AnyAbout
<1>6. (Alone(outbox, o))'
  <2>1. CASE Places(outbox, o)
    <3>1. ~AnySends(q, o)
      BY <1>1, <2>1 DEF FollowsOrder, PlacedFirst
    <3>2. Alone(outbox \o q, o)
      BY <1>2, <3>1, AloneConcat DEF FollowsOrder
    <3> QED BY <1>1, <3>2 DEF Alone
  <2>2. CASE ~Places(outbox, o)
    BY <1>3, <2>2 DEF Places, Alone
  <2> QED BY <2>1, <2>2
<1>7. UnknownUnasked(o)'
  <2>1. oms[o] = "UNDEFINED" => ~AnySends(q, o)
    BY <1>1 DEF FollowsOrder, UnknownUnasked
  <2> QED BY <1>2, <1>4, <2>1 DEF FollowsOrder, UnknownUnasked, AnyAbout
<1>8. (Sound(inbox, o, exch[o]))'
  BY <1>2 DEF FollowsOrder, Sound
<1>9. ToldTrue(o)'
  BY <1>2 DEF FollowsOrder, ToldTrue
<1>10. LiveIsFollowed(o)'
  BY <1>2, <1>3 DEF FollowsOrder, LiveIsFollowed, AnyNews
<1> QED BY <1>5, <1>6, <1>7, <1>8, <1>9, <1>10 DEF FollowsOrder

LEMMA CreatingStep ==
    ASSUME TypeOK, Running, NEW o \in Orders, FollowsOrder(o), Creating(o)
    PROVE  FollowsOrder(o)'
<1>1. /\ inbox' = inbox /\ subscribed' = subscribed /\ "orders" \in subscribed
      /\ exch' = exch /\ stale' = stale /\ exch[o] = "none" /\ oms'[o] = "SENT"
      /\ outbox' = outbox \o <<OrderPlace(o)>> /\ outbox \in Seq(ToExchange)
      /\ o \notin stale /\ ~AnySends(outbox, o) /\ ~AnyAbout(inbox, o)
  BY DEF Creating, TypeOK, FollowsOrder, UnknownUnasked
<1>2. PICK q \in Seq(ToExchange) : q = <<OrderPlace(o)>>
  BY ToExchangeFrames, OneFrame
<1>3. DOMAIN q = {1} /\ q[1] = OrderPlace(o)
  BY <1>2
<1>4. Places(q, o)
  BY <1>3 DEF Places
<1>5. (Places(outbox, o))'
  <2>1. Places(outbox \o q, o)
    BY <1>1, <1>4, PlacesConcat
  <2> QED BY <1>1, <1>2, <2>1 DEF Places
<1>6. (Alone(outbox, o))'
  <2>1. \A i \in DOMAIN outbox : ~Sends(outbox[i], o) /\ outbox[i] # OrderPlace(o)
    BY <1>1, PlacesSends DEF AnySends, Places
  <2>2. \A i \in DOMAIN (outbox \o q) :
            \/ i \in DOMAIN outbox /\ (outbox \o q)[i] = outbox[i]
            \/ \E j \in DOMAIN q : i = Len(outbox) + j
    BY <1>1, QueueConcat
  <2>3. \A i \in DOMAIN (outbox \o q) : Sends((outbox \o q)[i], o) \/ (outbox \o q)[i] = OrderPlace(o)
            => i = Len(outbox) + 1
    BY <1>3, <2>1, <2>2
  <2>4. Alone(outbox \o q, o)
    BY <2>3 DEF Alone
  <2> QED BY <1>1, <1>2, <2>4 DEF Alone
<1>7. PlacedFirst(o)'
  BY <1>1 DEF PlacedFirst, AnyAbout
<1>8. (Sound(inbox, o, exch[o]))'
  BY <1>1 DEF FollowsOrder, Sound
<1>9. LiveIsFollowed(o)'
  BY <1>1, <1>5 DEF LiveIsFollowed
<1> QED BY <1>1, <1>6, <1>7, <1>8, <1>9 DEF FollowsOrder, UnknownUnasked, ToldTrue

LEMMA LosingStep ==
    ASSUME TypeOK, NEW o \in Orders, FollowsOrder(o), Losing(o)
    PROVE  FollowsOrder(o)'
<1>1. /\ exch'[o] = exch[o] /\ oms'[o] = oms[o]
      /\ oms[o] = "UNDEFINED" => o \notin stale'
      /\ oms[o] \in Live => o \in stale'
      /\ outbox' = <<>> /\ inbox' = <<>>
  BY DEF Losing, FollowsOrder, UnknownUnasked
<1>2. DOMAIN outbox' = {} /\ DOMAIN inbox' = {}
  BY <1>1
<1>3. PlacedFirst(o)' /\ (Alone(outbox, o))' /\ UnknownUnasked(o)'
  BY <1>1, <1>2 DEF PlacedFirst, Places, Alone, UnknownUnasked, AnySends, AnyAbout
<1>4. (Sound(inbox, o, exch[o]))' /\ ToldTrue(o)' /\ LiveIsFollowed(o)'
  BY <1>1, <1>2 DEF FollowsOrder, Sound, ToldTrue, LiveIsFollowed
<1> QED BY <1>3, <1>4 DEF FollowsOrder

(* A frame is handled: it may be the news the OMS was waiting for.         *)
LEMMA HearingStep ==
    ASSUME TypeOK, Running, InOrder, NEW o \in Orders, FollowsOrder(o), Hearing(o)
    PROVE  FollowsOrder(o)'
<1>. DEFINE m == Head(inbox)
            r == Tail(inbox)
<1>1. PICK q \in Seq(ToExchange) :
         outbox' = outbox \o q /\ ~Places(q, o) /\ (AnySends(q, o) => o \in stale')
  BY DEF Hearing
<1>2. /\ inbox' = r /\ subscribed' = subscribed /\ exch'[o] = exch[o]
      /\ outbox \in Seq(ToExchange) /\ inbox \in Seq(ToGateway) /\ inbox # <<>>
      /\ r \in Seq(ToGateway) /\ exch[o] \in ExchangeStatus /\ oms[o] \in OrderStatus
  BY DEF Hearing, TypeOK
<1>3. \/ ~News(m, o) /\ oms'[o] = oms[o] /\ (o \in stale' <=> o \in stale)
      \/ o \notin stale' /\ \/ Refuses(m, o) /\ oms'[o] = "REJECTED"
                            \/ Opens(m, o) /\ oms'[o] = "WORKING"
                            \/ Closes(m, o) /\ oms'[o] = "COMPLETED"
  BY DEF Hearing
<1>4. /\ AnyNews(inbox, o) <=> News(m, o) \/ AnyNews(r, o)
      /\ AnyAbout(inbox, o) <=> About(m, o) \/ AnyAbout(r, o)
      /\ News(m, o) => About(m, o)
  BY <1>2, SomeTail, NewsKinds
<1>5. /\ Sound(r, o, exch[o])
      /\ Refuses(m, o) => exch[o] = "none"
      /\ Opens(m, o) => exch[o] # "none"
      /\ Opens(m, o) => exch[o] = "open" \/ AnyNews(r, o)
      /\ Closes(m, o) => exch[o] = "closed" /\ \A i \in DOMAIN r : ~Opens(r[i], o)
  BY <1>2, SoundTail DEF FollowsOrder
<1>6. (Places(outbox, o))' <=> Places(outbox, o)
  <2>1. Places(outbox \o q, o) <=> Places(outbox, o)
    BY <1>1, <1>2, PlacesConcat
  <2> QED BY <1>1, <2>1 DEF Places
<1>7. (AnySends(outbox, o))' <=> AnySends(outbox, o) \/ AnySends(q, o)
  <2>1. AnySends(outbox \o q, o) <=> AnySends(outbox, o) \/ AnySends(q, o)
    BY <1>2, SomeConcat
  <2>2. (AnySends(outbox, o))' <=> AnySends(outbox \o q, o)
    BY <1>1 DEF AnySends
  <2> QED BY <2>1, <2>2
<1>8. /\ (AnyAbout(inbox, o))' <=> AnyAbout(r, o)
      /\ (AnyNews(inbox, o))' <=> AnyNews(r, o)
  BY <1>2 DEF AnyAbout, AnyNews
<1>9. Opens(m, o) => ~ \A i \in DOMAIN inbox : ~Opens(inbox[i], o)
  <2>1. m = inbox[1] /\ 1 \in DOMAIN inbox
    BY <1>2, QueueTail
  <2> QED BY <2>1
<1>10. (\A i \in DOMAIN inbox : ~Opens(inbox[i], o)) => \A i \in DOMAIN r : ~Opens(r[i], o)
  BY <1>2, QueueTail
<1>. HIDE DEF m, r
<1>11. PlacedFirst(o)'
  <2>. SUFFICES ASSUME (Places(outbox, o))'
                PROVE  /\ oms'[o] = "SENT" /\ o \notin stale' /\ exch'[o] = "none"
                       /\ (~AnyAbout(inbox, o))'
    BY DEF PlacedFirst
  <2>1. Places(outbox, o)
    BY <1>6
  <2>2. oms[o] = "SENT" /\ o \notin stale /\ exch[o] = "none" /\ ~AnyAbout(inbox, o)
    BY <2>1 DEF FollowsOrder, PlacedFirst
  <2>3. ~News(m, o) /\ ~AnyAbout(r, o)
    BY <1>4, <2>2
  <2> QED BY <1>2, <1>3, <1>8, <2>2, <2>3, NewsKinds DEF News
<1>12. (Alone(outbox, o))'
  <2>1. CASE Places(outbox, o)
    <3>1. ~AnySends(q, o)
      BY <1>1, <1>3, <1>4, <2>1 DEF FollowsOrder, PlacedFirst
    <3>2. Alone(outbox \o q, o)
      BY <1>2, <3>1, AloneConcat DEF FollowsOrder
    <3> QED BY <1>1, <3>2 DEF Alone
  <2>2. CASE ~Places(outbox, o)
    BY <1>6, <2>2 DEF Places, Alone
  <2> QED BY <2>1, <2>2
<1>13. UnknownUnasked(o)'
  BY <1>1, <1>2, <1>3, <1>4, <1>7, <1>8 DEF FollowsOrder, UnknownUnasked
<1>14. (Sound(inbox, o, exch[o]))'
  BY <1>2, <1>5 DEF Sound
<1>15. ToldTrue(o)'
  BY <1>2, <1>3, <1>5, <1>9, <1>10 DEF FollowsOrder, ToldTrue
<1>16. News(m, o) => "orders" \in subscribed
  <2>1. m = inbox[1] /\ 1 \in DOMAIN inbox
    BY <1>2, QueueTail DEF m
  <2>2. News(m, o) => m.type \in RequestTypes \cup {"order_list", "orders"}
    BY DEF News, Refuses, Opens, Closes, RequestTypes
  <2> QED BY <2>1, <2>2 DEF InOrder, OrdersFirst
<1>17. LiveIsFollowed(o)'
  <2>. SUFFICES ASSUME Running', oms'[o] \in Live, o \notin stale'
                PROVE  /\ "orders" \in subscribed
                       /\ \/ (Places(outbox, o))'
                          \/ oms'[o] = "WORKING" /\ exch[o] = "open"
                          \/ AnyNews(r, o)
    BY <1>2, <1>8 DEF LiveIsFollowed
  <2>1. CASE ~News(m, o) /\ oms'[o] = oms[o] /\ (o \in stale' <=> o \in stale)
    <3>1. /\ "orders" \in subscribed
          /\ Places(outbox, o) \/ (oms[o] = "WORKING" /\ exch[o] = "open") \/ AnyNews(inbox, o)
      BY <2>1 DEF FollowsOrder, LiveIsFollowed
    <3> QED BY <1>4, <1>6, <2>1, <3>1
  <2>2. CASE Opens(m, o) /\ oms'[o] = "WORKING"
    BY <1>5, <1>16, <2>2 DEF News
  <2> QED BY <1>3, <2>1, <2>2 DEF Live
<1> QED BY <1>11, <1>12, <1>13, <1>14, <1>15, <1>17 DEF FollowsOrder

(* What the exchange says is appended to the inbox.                        *)
LEMMA Spoken ==
    ASSUME TypeOK, NEW o \in Orders, NEW t, Speaking(t)
    PROVE  /\ (AnyNews(inbox, o))' <=> AnyNews(inbox, o) \/ AnyNews(t, o)
           /\ (AnyAbout(inbox, o))' <=> AnyAbout(inbox, o) \/ AnyAbout(t, o)
           /\ \A i \in DOMAIN inbox' :
                 \/ i \in DOMAIN inbox /\ inbox'[i] = inbox[i]
                 \/ \E j \in DOMAIN t : inbox'[i] = t[j]
<1>1. /\ inbox \in Seq(ToGateway) /\ t \in Seq(ToGateway) /\ inbox' = inbox \o t
  BY DEF Speaking, TypeOK
<1>2. /\ AnyNews(inbox \o t, o) <=> AnyNews(inbox, o) \/ AnyNews(t, o)
      /\ AnyAbout(inbox \o t, o) <=> AnyAbout(inbox, o) \/ AnyAbout(t, o)
  BY <1>1, SomeConcat
<1>3. (AnyNews(inbox, o))' <=> AnyNews(inbox \o t, o)
  BY <1>1 DEF AnyNews
<1>4. (AnyAbout(inbox, o))' <=> AnyAbout(inbox \o t, o)
  BY <1>1 DEF AnyAbout
<1>5. \A i \in DOMAIN inbox' :
         \/ i \in DOMAIN inbox /\ inbox'[i] = inbox[i]
         \/ \E j \in DOMAIN t : inbox'[i] = t[j]
  BY <1>1, QueueConcat
<1> QED BY <1>2, <1>3, <1>4, <1>5

(* A request taken is not one that places the order.                       *)
LEMMA Taken ==
    ASSUME TypeOK, NEW o \in Orders, Alone(outbox, o), outbox' = outbox \/ Taking(o)
    PROVE  /\ (Places(outbox, o))' <=> Places(outbox, o)
           /\ (AnySends(outbox, o))' => AnySends(outbox, o)
           /\ (Alone(outbox, o))'
           /\ Places(outbox, o) => ~(Taking(o) /\ Sends(Head(outbox), o))
<1>1. CASE outbox' = outbox /\ ~Taking(o)
  BY <1>1 DEF Places, AnySends, Alone
<1>2. CASE Taking(o)
  <2>1. outbox \in Seq(ToExchange) /\ outbox # <<>> /\ outbox' = Tail(outbox)
        /\ Head(outbox) # OrderPlace(o)
    BY <1>2 DEF Taking, TypeOK
  <2>2. Places(Tail(outbox), o) <=> Places(outbox, o)
    BY <2>1, PlacesTail
  <2>3. AnySends(Tail(outbox), o) => AnySends(outbox, o)
    BY <2>1, SomeTail
  <2>4. Alone(Tail(outbox), o) /\ (Sends(Head(outbox), o) => ~Places(outbox, o))
    BY <2>1, AloneTail
  <2>5. /\ (Places(outbox, o))' <=> Places(Tail(outbox), o)
        /\ (AnySends(outbox, o))' <=> AnySends(Tail(outbox), o)
        /\ (Alone(outbox, o))' <=> Alone(Tail(outbox), o)
    BY <2>1 DEF Places, AnySends, Alone
  <2> QED BY <2>2, <2>3, <2>4, <2>5
<1> QED BY <1>1, <1>2

LEMMA AnsweringStep ==
    ASSUME TypeOK, Running, NEW o \in Orders, FollowsOrder(o), Answering(o)
    PROVE  FollowsOrder(o)'
<1>1. PICK t \in Seq(ToGateway) :
         /\ Speaking(t)
         /\ exch'[o] = exch[o] /\ Fits(t, o, exch[o])
         /\ outbox' = outbox \/ Taking(o)
         /\ AnyAbout(t, o) => exch[o] = "open" \/ (Taking(o) /\ Sends(Head(outbox), o))
  BY DEF Answering
<1>2. /\ inbox \in Seq(ToGateway) /\ inbox' = inbox \o t
      /\ oms' = oms /\ stale' = stale /\ subscribed \subseteq subscribed'
  BY <1>1 DEF Speaking, TypeOK
<1>3. /\ (AnyNews(inbox, o))' <=> AnyNews(inbox, o) \/ AnyNews(t, o)
      /\ (AnyAbout(inbox, o))' <=> AnyAbout(inbox, o) \/ AnyAbout(t, o)
      /\ \A i \in DOMAIN inbox' :
            \/ i \in DOMAIN inbox /\ inbox'[i] = inbox[i]
            \/ \E j \in DOMAIN t : inbox'[i] = t[j]
  BY <1>1, Spoken
<1>4. /\ (Places(outbox, o))' <=> Places(outbox, o)
      /\ (AnySends(outbox, o))' => AnySends(outbox, o)
      /\ (Alone(outbox, o))'
      /\ Places(outbox, o) => ~(Taking(o) /\ Sends(Head(outbox), o))
  BY <1>1, Taken DEF FollowsOrder
<1>5. Taking(o) /\ Sends(Head(outbox), o) => AnySends(outbox, o)
  <2>1. Taking(o) => outbox \in Seq(ToExchange) /\ outbox # <<>>
    BY DEF Taking, TypeOK
  <2> QED BY <2>1, SomeTail
<1>6. PlacedFirst(o)'
  <2>. SUFFICES ASSUME (Places(outbox, o))'
                PROVE  /\ oms'[o] = "SENT" /\ o \notin stale' /\ exch'[o] = "none"
                       /\ (~AnyAbout(inbox, o))'
    BY DEF PlacedFirst
  <2>1. oms[o] = "SENT" /\ o \notin stale /\ exch[o] = "none" /\ ~AnyAbout(inbox, o)
    BY <1>4 DEF FollowsOrder, PlacedFirst
  <2> QED BY <1>1, <1>2, <1>3, <1>4, <2>1
<1>7. UnknownUnasked(o)'
  BY <1>1, <1>2, <1>3, <1>4, <1>5 DEF FollowsOrder, UnknownUnasked
<1>8. (Sound(inbox, o, exch[o]))'
  <2>1. Sound(inbox \o t, o, exch[o])
    BY <1>1, <1>2, SoundFits DEF FollowsOrder
  <2> QED BY <1>1, <1>2, <2>1 DEF Sound
<1>9. ToldTrue(o)'
  <2>1. ASSUME oms[o] = "COMPLETED" PROVE (\A i \in DOMAIN inbox : ~Opens(inbox[i], o))'
    <3>1. exch[o] = "closed" /\ \A i \in DOMAIN inbox : ~Opens(inbox[i], o)
      BY <2>1 DEF FollowsOrder, ToldTrue
    <3>2. \A i \in DOMAIN t : ~Opens(t[i], o)
      BY <1>1, <3>1 DEF Fits
    <3> QED BY <1>3, <3>1, <3>2
  <2> QED BY <1>1, <1>2, <2>1 DEF FollowsOrder, ToldTrue
<1>10. LiveIsFollowed(o)'
  <2>. SUFFICES ASSUME oms[o] \in Live, o \notin stale
                PROVE  /\ "orders" \in subscribed'
                       /\ \/ (Places(outbox, o))'
                          \/ oms[o] = "WORKING" /\ exch[o] = "open"
                          \/ (AnyNews(inbox, o))'
    BY <1>1, <1>2 DEF LiveIsFollowed
  <2>1. /\ "orders" \in subscribed
        /\ Places(outbox, o) \/ (oms[o] = "WORKING" /\ exch[o] = "open") \/ AnyNews(inbox, o)
    BY DEF FollowsOrder, LiveIsFollowed
  <2> QED BY <1>2, <1>3, <1>4, <2>1
<1> QED BY <1>4, <1>6, <1>7, <1>8, <1>9, <1>10 DEF FollowsOrder

(* The exchange takes the request that places the order.                   *)
LEMMA PlacingStep ==
    ASSUME TypeOK, Running, InOrder, NEW o \in Orders, FollowsOrder(o), Placing(o)
    PROVE  FollowsOrder(o)'
<1>1. PICK t \in Seq(ToGateway) :
         /\ Speaking(t)
         /\ outbox # <<>> /\ outbox' = Tail(outbox) /\ Head(outbox) = OrderPlace(o)
         /\ Fits(t, o, exch'[o]) /\ AnyNews(t, o)
  BY DEF Placing
<1>2. /\ inbox \in Seq(ToGateway) /\ inbox' = inbox \o t
      /\ oms' = oms /\ stale' = stale /\ subscribed \subseteq subscribed'
      /\ outbox \in Seq(ToExchange)
  BY <1>1 DEF Speaking, TypeOK
<1>3. Places(outbox, o)
  BY <1>1, <1>2, PlacesTail
<1>4. oms[o] = "SENT" /\ ~AnyAbout(inbox, o)
  BY <1>3 DEF FollowsOrder, PlacedFirst
<1>5. Alone(Tail(outbox), o) /\ ~AnySends(Tail(outbox), o)
  BY <1>1, <1>2, AloneTail DEF FollowsOrder
<1>6. ~Places(Tail(outbox), o)
  BY <1>5, PlacesSends
<1>7. (~Places(outbox, o))' /\ (Alone(outbox, o))'
  BY <1>1, <1>5, <1>6 DEF Places, Alone
<1>8. PlacedFirst(o)' /\ UnknownUnasked(o)' /\ ToldTrue(o)'
  BY <1>2, <1>4, <1>7 DEF PlacedFirst, UnknownUnasked, ToldTrue
<1>9. (Sound(inbox, o, exch[o]))'
  <2>1. ~AnyNews(inbox, o)
    BY <1>4, NewsIsAbout
  <2>2. Sound(inbox, o, exch'[o])
    BY <2>1 DEF AnyNews, News, Sound
  <2>3. Sound(inbox \o t, o, exch'[o])
    BY <1>1, <1>2, <2>2, SoundFits
  <2> QED BY <1>2, <2>3 DEF Sound
<1>10. LiveIsFollowed(o)'
  <2>1. (AnyNews(inbox, o))'
    BY <1>1, Spoken
  <2>2. outbox[1] = Head(outbox) /\ 1 \in DOMAIN outbox
    BY <1>1, <1>2
  <2>3. Head(outbox).type \in RequestTypes
    BY <1>1 DEF OrderPlace, RequestTypes
  <2>4. "orders" \in subscribed
    BY <2>2, <2>3 DEF InOrder, OrdersFirst
  <2> QED BY <1>2, <2>1, <2>4 DEF LiveIsFollowed
<1> QED BY <1>7, <1>8, <1>9, <1>10 DEF FollowsOrder

(* An open order is done, and the OMS will hear of it.                     *)
LEMMA ClosingStep ==
    ASSUME TypeOK, Running, InOrder, NEW o \in Orders, FollowsOrder(o), Closing(o)
    PROVE  FollowsOrder(o)'
<1>1. PICK t \in Seq(ToGateway) :
         /\ Speaking(t)
         /\ exch[o] = "open" /\ exch'[o] = "closed"
         /\ outbox' = outbox \/ Taking(o)
         /\ Fits(t, o, "closed")
         /\ "orders" \in subscribed => AnyNews(t, o)
  BY DEF Closing
<1>2. /\ inbox \in Seq(ToGateway) /\ inbox' = inbox \o t
      /\ oms' = oms /\ stale' = stale /\ subscribed \subseteq subscribed'
  BY <1>1 DEF Speaking, TypeOK
<1>3. /\ (Places(outbox, o))' <=> Places(outbox, o)
      /\ (AnySends(outbox, o))' => AnySends(outbox, o)
      /\ (Alone(outbox, o))'
  BY <1>1, Taken DEF FollowsOrder
<1>4. ~Places(outbox, o)
  BY <1>1 DEF FollowsOrder, PlacedFirst
<1>5. PlacedFirst(o)'
  BY <1>3, <1>4 DEF PlacedFirst
<1>6. UnknownUnasked(o)'
  <2>1. (oms[o] = "UNDEFINED" => o \notin stale /\ ~AnySends(outbox, o))
    BY DEF FollowsOrder, UnknownUnasked
  <2> QED BY <1>1, <1>2, <1>3, <2>1 DEF UnknownUnasked
<1>7. AnyNews(t, o) \/ ~AnyNews(inbox, o)
  <2>1. ASSUME AnyNews(inbox, o) PROVE "orders" \in subscribed
    <3>1. PICK i \in DOMAIN inbox : News(inbox[i], o)
      BY <2>1 DEF AnyNews
    <3>2. inbox[i].type \in RequestTypes \cup {"order_list", "orders"}
      BY <3>1 DEF News, Refuses, Opens, Closes, RequestTypes
    <3> QED BY <3>2 DEF InOrder, OrdersFirst
  <2> QED BY <1>1, <2>1
<1>8. (Sound(inbox, o, exch[o]))'
  <2>1. Sound(inbox \o t, o, "closed")
    BY <1>1, <1>2, <1>7, SoundClosed DEF FollowsOrder
  <2> QED BY <1>1, <1>2, <2>1 DEF Sound
<1>9. ToldTrue(o)'
  BY <1>1, <1>2 DEF FollowsOrder, ToldTrue
<1>10. LiveIsFollowed(o)'
  <2>. SUFFICES ASSUME oms[o] \in Live, o \notin stale
                PROVE  "orders" \in subscribed' /\ (AnyNews(inbox, o))'
    BY <1>2 DEF LiveIsFollowed
  <2>1. "orders" \in subscribed
    BY DEF FollowsOrder, LiveIsFollowed
  <2>2. (AnyNews(inbox, o))' <=> AnyNews(inbox, o) \/ AnyNews(t, o)
    BY <1>1, Spoken
  <2> QED BY <1>1, <1>2, <2>1, <2>2
<1> QED BY <1>3, <1>5, <1>6, <1>8, <1>9, <1>10 DEF FollowsOrder

-----------------------------------------------------------------------------
(* What the gateway sends on its own.                                      *)

(* Beside what the session needs: the list of the open orders, and queries *)
(* about orders in S, both only once the updates are subscribed.           *)
OwnFrame(m, S) ==
    \/ m.type \in {"login", "subscribe"}
    \/ /\ "orders" \in subscribed
       /\ m = OrderList \/ \E o \in S : m = OrderQuery(o)

Sent(S) ==
    \E q \in Seq(ToExchange) :
        outbox' = outbox \o q /\ \A i \in DOMAIN q : OwnFrame(q[i], S)

(* The stream and its download, after the gateway sent what it had to.     *)
Moves(S) ==
    /\ Sent(S)
    /\ Running' =>
          /\ connection_status' = "READY" => state' = "DONE"
          /\ state \in BeforeList /\ state # "GET_OPEN_ORDERS" => state' \in BeforeList

LEMMA SentFacts ==
    ASSUME TypeOK, NEW S \in SUBSET Orders, Sent(S), NEW o \in Orders
    PROVE  \E q \in Seq(ToExchange) :
              outbox' = outbox \o q /\ ~Places(q, o) /\ (AnySends(q, o) => o \in S)
<1>1. PICK q \in Seq(ToExchange) : outbox' = outbox \o q /\ \A i \in DOMAIN q : OwnFrame(q[i], S)
  BY DEF Sent
<1>2. ASSUME NEW m, OwnFrame(m, S) PROVE m # OrderPlace(o) /\ (Sends(m, o) => o \in S)
  <2>1. CASE m.type \in {"login", "subscribe"}
    BY <2>1 DEF OrderPlace, Sends, RequestTypes
  <2>2. CASE m = OrderList
    BY <2>2 DEF OrderList, OrderPlace, Sends, RequestTypes
  <2>3. ASSUME NEW p \in S, m = OrderQuery(p) PROVE m # OrderPlace(o) /\ (Sends(m, o) => o \in S)
    BY <2>3, RequestsSend
  <2> QED BY <1>2, <2>1, <2>2, <2>3 DEF OwnFrame
<1>3. ~Places(q, o)
  BY <1>1, <1>2 DEF Places
<1>4. AnySends(q, o) => o \in S
  BY <1>1, <1>2 DEF AnySends
<1> QED BY <1>1, <1>3, <1>4

(* A queue keeps to the order when more is sent, or some is taken.         *)
LEMMA OrdersFirstConcat ==
    ASSUME NEW S, NEW s \in Seq(S), NEW t \in Seq(S), OrdersFirst(s), OrdersFirst(t)
    PROVE  OrdersFirst(s \o t)
<1>1. \A i \in DOMAIN (s \o t) :
            \/ i \in DOMAIN s /\ (s \o t)[i] = s[i]
            \/ \E j \in DOMAIN t : i = Len(s) + j /\ (s \o t)[i] = t[j]
  BY QueueConcat
<1> QED BY <1>1 DEF OrdersFirst

LEMMA OrdersFirstTail ==
    ASSUME NEW S, NEW s \in Seq(S), s # <<>>, OrdersFirst(s)
    PROVE  /\ OrdersFirst(Tail(s))
           /\ Head(s).type \in RequestTypes \cup {"order_list", "orders"} => "orders" \in subscribed
<1>1. /\ Head(s) = s[1] /\ 1 \in DOMAIN s
      /\ \A i \in DOMAIN Tail(s) : i + 1 \in DOMAIN s /\ Tail(s)[i] = s[i + 1]
  BY QueueTail
<1> QED BY <1>1 DEF OrdersFirst

LEMMA MovesInOrder ==
    ASSUME TypeOK, Running, InOrder, NEW S \in SUBSET Orders, Moves(S),
           subscribed' = subscribed, inbox' = inbox \/ (inbox # <<>> /\ inbox' = Tail(inbox))
    PROVE  InOrder'
<1>1. PICK q \in Seq(ToExchange) : outbox' = outbox \o q /\ \A i \in DOMAIN q : OwnFrame(q[i], S)
  BY DEF Moves, Sent
<1>2. OrdersFirst(q)
  BY <1>1 DEF OrdersFirst, OwnFrame, RequestTypes, OrderList, OrderQuery
<1>3. OrdersFirst(outbox \o q)
  BY <1>2, OrdersFirstConcat DEF InOrder, TypeOK
<1>4. CASE inbox' = inbox
  BY <1>1, <1>3, <1>4 DEF InOrder, OrdersFirst, Moves
<1>5. CASE inbox # <<>> /\ inbox' = Tail(inbox)
  <2>1. OrdersFirst(Tail(inbox))
    BY <1>5, OrdersFirstTail DEF InOrder, TypeOK
  <2> QED BY <1>1, <1>3, <1>5, <2>1 DEF InOrder, OrdersFirst, Moves
<1> QED BY <1>4, <1>5

LEMMA QueriesAreOwn ==
    ASSUME NEW S \in SUBSET Orders, NEW q \in StaleQueries(S), "orders" \in subscribed
    PROVE  q \in Seq(ToExchange) /\ \A i \in DOMAIN q : OwnFrame(q[i], S)
<1>1. q \in Seq(ToExchange)
  BY StaleQueriesType
<1>2. q \in [1..Cardinality(S) -> {OrderQuery(o) : o \in S}]
  BY DEF StaleQueries
<1> QED BY <1>1, <1>2 DEF OwnFrame

LEMMA StayMoves ==
    ASSUME TypeOK, Running, InOrder, NEW S \in SUBSET Orders, NEW q \in Seq(ToExchange), Stay(q),
           \A i \in DOMAIN q : OwnFrame(q[i], S)
    PROVE  Moves(S)
BY DEF Stay, Moves, Sent, InOrder

LEMMA MoveOnMoves ==
    ASSUME TypeOK, Running, NEW S \in SUBSET Orders, NEW n \in Nat, state # "DONE",
           NEW q \in Seq(ToExchange), \A i \in DOMAIN q : OwnFrame(q[i], S),
           MoveOn(state, n, q),
           state \in DOMAIN SubscribeState => SubscribeState[state] \in subscribed
    PROVE  Moves(S)
<1>. DEFINE t == NextState(state, n)
<1>1. /\ state' = t /\ connection_status' = (IF t = "DONE" THEN "READY" ELSE "DOWNLOADING")
      /\ outbox' = outbox \o q \o Frames(t) /\ t \in State /\ state \in State
  BY NextStateType DEF MoveOn, TypeOK
<1>2. state \in BeforeList /\ state # "GET_OPEN_ORDERS" => t \in BeforeList
  BY <1>1 DEF BeforeList, NextState, Skipped, Successor, State
<1>3. t = "GET_OPEN_ORDERS" => state = "SUBSCRIBE_ORDERS"
  BY <1>1 DEF NextState, Skipped, Successor, State
<1>. HIDE DEF t
<1>4. Frames(t) \in Seq(ToExchange)
  BY <1>1, FramesType
<1>5. ASSUME NEW i \in DOMAIN Frames(t) PROVE OwnFrame(Frames(t)[i], S)
  <2>1. CASE t \in DOMAIN SubscribeState
    <3>1. DOMAIN Frames(t) = {1} /\ Frames(t)[1].type = "subscribe"
      BY <2>1 DEF Frames, Subscribe
    <3> QED BY <1>5, <3>1 DEF OwnFrame
  <2>2. CASE t = "GET_OPEN_ORDERS"
    <3>1. DOMAIN Frames(t) = {1} /\ Frames(t)[1] = OrderList
      BY <2>2 DEF Frames, SubscribeState
    <3>2. "orders" \in subscribed
      BY <1>3, <2>2 DEF SubscribeState
    <3> QED BY <1>5, <3>1, <3>2 DEF OwnFrame
  <2>3. CASE t \notin DOMAIN SubscribeState /\ t # "GET_OPEN_ORDERS"
    <3>1. DOMAIN Frames(t) = {}
      BY <2>3 DEF Frames
    <3> QED BY <1>5, <3>1
  <2> QED BY <2>1, <2>2, <2>3
<1>6. q \o Frames(t) \in Seq(ToExchange) /\ outbox' = outbox \o (q \o Frames(t))
  <2>1. outbox \in Seq(ToExchange)
    BY DEF TypeOK
  <2>2. (outbox \o q) \o Frames(t) = outbox \o (q \o Frames(t))
    BY <1>4, <2>1, ConcatAssociative
  <2> QED BY <1>1, <1>4, <2>2, QueueConcat
<1>7. \A i \in DOMAIN (q \o Frames(t)) : OwnFrame((q \o Frames(t))[i], S)
  <2>1. \A i \in DOMAIN (q \o Frames(t)) :
            \/ i \in DOMAIN q /\ (q \o Frames(t))[i] = q[i]
            \/ \E j \in DOMAIN Frames(t) : (q \o Frames(t))[i] = Frames(t)[j]
    BY <1>4, QueueConcat
  <2> QED BY <1>5, <2>1
<1> QED BY <1>1, <1>2, <1>6, <1>7 DEF Moves, Sent

LEMMA OnWaitingFor ==
    ASSUME IInv, Arrived("subscribe"), Head(inbox).status = "success"
    PROVE  LET s == CHOOSE t \in DOMAIN SubscribeState : SubscribeState[t] = Head(inbox).channel
           IN  s = state /\ s \in DOMAIN SubscribeState /\ SubscribeState[s] \in subscribed
<1>. DEFINE s == CHOOSE t \in DOMAIN SubscribeState : SubscribeState[t] = Head(inbox).channel
<1>1. Awaits(state, Head(inbox)) /\ Head(inbox).type = "subscribe"
  BY LastAnswer DEF ControlTypes, Arrived
<1>2. state \in DOMAIN SubscribeState /\ Head(inbox).channel = SubscribeState[state]
  BY <1>1 DEF Awaits
<1>3. s \in DOMAIN SubscribeState /\ SubscribeState[s] = SubscribeState[state]
  BY <1>2
<1>4. \A t, u \in DOMAIN SubscribeState : SubscribeState[t] = SubscribeState[u] => t = u
  BY DEF SubscribeState
<1>5. s = state
  BY <1>2, <1>3, <1>4
<1>6. 1 \in DOMAIN inbox /\ Head(inbox) = inbox[1]
  BY DEF IInv, TypeOK, Arrived
<1>7. Head(inbox).channel \in subscribed
  BY <1>1, <1>6 DEF IInv, SessionConsistent, Arrived
<1> QED BY <1>2, <1>5, <1>7

LEMMA ReceiveMoves ==
    ASSUME IInv, TypeOK', InOrder, Receive
    PROVE  /\ Moves(stale') /\ subscribed' = subscribed
           /\ inbox # <<>> /\ inbox' = Tail(inbox) /\ exch' = exch
<1>1. /\ TypeOK /\ Running /\ subscribed' = subscribed /\ exch' = exch
      /\ inbox # <<>> /\ inbox' = Tail(inbox) /\ stale' \in SUBSET Orders
      /\ counter \in Nat /\ counter' \in Nat
  BY DEF Receive, TradeLogin, TradeSubscribe, TradeOrderList, TradeOrderStatus, TradeOrders,
         TradeOrderPlace, TradeOrderCancel, Arrived, venue, TypeOK, IInv
<1>. SUFFICES Moves(stale')
  BY <1>1
<1>2. PICK none \in Seq(ToExchange) : none = <<>>
  BY NoFrames
<1>3. DOMAIN none = {} /\ outbox = outbox \o none
  BY <1>1, <1>2 DEF TypeOK
<1>4. ASSUME UNCHANGED outbox, UNCHANGED <<connection_status, state>> \/ ~Running'
      PROVE  Moves(stale')
  <2>1. Sent(stale')
    BY <1>3, <1>4 DEF Sent
  <2> QED BY <1>1, <1>4, <2>1 DEF Moves, InOrder
<1>5. CASE TradeLogin
  <2>1. CASE Head(inbox).status = "success"
    <3>1. Awaits(state, Head(inbox)) /\ Head(inbox).type = "login"
      BY <1>5, LastAnswer DEF TradeLogin, ControlTypes, Arrived
    <3>2. state = "UNDEFINED" /\ state \notin DOMAIN SubscribeState /\ MoveOn(state, counter, none)
      BY <1>2, <1>5, <2>1, <3>1 DEF Awaits, TradeLogin, SubscribeState
    <3> QED BY <1>1, <1>3, <3>2, MoveOnMoves
  <2>2. CASE Head(inbox).status # "success"
    BY <1>4, <1>5, <2>2 DEF TradeLogin, gateway
  <2> QED BY <2>1, <2>2
<1>6. CASE TradeSubscribe
  <2>1. CASE Head(inbox).status = "success"
    <3>. DEFINE s == CHOOSE t \in DOMAIN SubscribeState : SubscribeState[t] = Head(inbox).channel
    <3>1. Check(s, counter)
      BY <1>6, <2>1 DEF TradeSubscribe
    <3>2. s = state /\ s \in DOMAIN SubscribeState /\ SubscribeState[s] \in subscribed
      BY <1>6, <2>1, OnWaitingFor DEF TradeSubscribe
    <3>. HIDE DEF s
    <3>3. MoveOn(state, counter, none) /\ state # "DONE"
      BY <1>2, <3>1, <3>2 DEF Check, SubscribeState
    <3> QED BY <1>1, <1>3, <3>2, <3>3, MoveOnMoves
  <2>2. CASE Head(inbox).status # "success"
    BY <1>4, <1>6, <2>2 DEF TradeSubscribe, gateway, Running
  <2> QED BY <2>1, <2>2
<1>7. CASE TradeOrderList
  <2>1. PICK q \in StaleQueries(stale') : CheckRelaxed("GET_OPEN_ORDERS", counter', q)
    BY <1>7 DEF TradeOrderList
  <2>2. Awaits(state, Head(inbox)) /\ Head(inbox).type = "order_list"
    BY <1>7, LastAnswer DEF TradeOrderList, ControlTypes, Arrived
  <2>3. state = "GET_OPEN_ORDERS" /\ state \notin DOMAIN SubscribeState
    BY <2>2 DEF Awaits, SubscribeState
  <2>4. "orders" \in subscribed
    BY <1>1, <2>3 DEF IInv, SessionConsistent, Passed
  <2>5. MoveOn(state, counter', q)
    BY <2>1, <2>3 DEF CheckRelaxed
  <2>6. q \in Seq(ToExchange) /\ \A i \in DOMAIN q : OwnFrame(q[i], stale')
    BY <1>1, <2>4, QueriesAreOwn
  <2> QED BY <1>1, <2>3, <2>5, <2>6, MoveOnMoves
<1>8. CASE TradeOrderStatus
  <2>1. CASE CheckRelaxed("GET_STALE_ORDERS", 0, <<>>) /\ state = "GET_STALE_ORDERS"
    <3>1. MoveOn(state, 0, none) /\ state \notin DOMAIN SubscribeState
      BY <1>2, <2>1 DEF CheckRelaxed, SubscribeState
    <3> QED BY <1>1, <1>3, <2>1, <3>1, MoveOnMoves
  <2>2. CASE Stay(<<>>)
    BY <1>1, <1>2, <1>3, <2>2, StayMoves
  <2>3. CASE fatal' = "order_status" /\ UNCHANGED outbox
    BY <1>4, <2>3 DEF Running
  <2> QED BY <1>8, <2>1, <2>2, <2>3 DEF TradeOrderStatus, CheckRelaxed
<1>9. CASE TradeOrders \/ TradeOrderPlace \/ TradeOrderCancel
  BY <1>4, <1>9 DEF TradeOrders, TradeOrderPlace, TradeOrderCancel, gateway
<1> QED BY <1>1, <1>5, <1>6, <1>7, <1>8, <1>9 DEF Receive

LEMMA TimerMoves ==
    ASSUME IInv, TypeOK', InOrder, Timer
    PROVE  Moves(stale)
<1>1. /\ TypeOK /\ Running /\ subscribed' = subscribed /\ inbox' = inbox
      /\ counter \in Nat /\ counter' \in Nat /\ stale \in SUBSET Orders
  BY DEF Timer, venue, TypeOK, IInv
<1>2. PICK none \in Seq(ToExchange) : none = <<>>
  BY NoFrames
<1>3. DOMAIN none = {}
  BY <1>2
<1>4. ASSUME Answered, NEW q \in Seq(ToExchange), \A i \in DOMAIN q : OwnFrame(q[i], stale),
             MoveOn(state, counter, q)
      PROVE  Moves(stale)
  <2>1. state # "DONE" /\ state \notin DOMAIN SubscribeState
    BY <1>4 DEF Answered, RequestState, SubscribeState
  <2> QED BY <1>1, <1>4, <2>1, MoveOnMoves
<1>5. ASSUME Answered, NEW q \in StaleQueries(stale), NextState(state, counter) = "DONE",
             MoveOn(state, counter, q)
      PROVE  Moves(stale)
  <2>1. state = "GET_TRADES"
    BY <1>5 DEF Answered, RequestState, NextState, Skipped, Successor
  <2>2. "orders" \in subscribed
    BY <1>1, <2>1 DEF IInv, SessionConsistent, Passed, Channels
  <2>3. q \in Seq(ToExchange) /\ \A i \in DOMAIN q : OwnFrame(q[i], stale)
    BY <1>1, <2>2, QueriesAreOwn
  <2> QED BY <1>4, <1>5, <2>3
<1>6. ASSUME connection_status = "READY", NEW q \in StaleQueries(stale), Stay(q)
      PROVE  Moves(stale)
  <2>1. "orders" \in subscribed
    BY <1>1, <1>6 DEF InOrder, IInv, SessionConsistent, Passed, Channels
  <2>2. q \in Seq(ToExchange) /\ \A i \in DOMAIN q : OwnFrame(q[i], stale)
    BY <1>1, <2>1, QueriesAreOwn
  <2> QED BY <1>1, <1>6, <2>2, StayMoves
<1>7. ASSUME Answered, MoveOn(state, counter, <<>>) PROVE Moves(stale)
  BY <1>2, <1>3, <1>4, <1>7
<1> QED BY <1>5, <1>6, <1>7 DEF Timer

-----------------------------------------------------------------------------
(* Every step is of one of the kinds, for each order.                      *)

LEMMA UpdateStatus ==
    ASSUME NEW m \in ToGateway, m.type = "orders"
    PROVE  m.status \in {"open", "closed"}
BY DEF ToGateway, LoginAck, SubscribeAck, OrderListAck, OrderQueryAck, OrderPlaceAck,
       OrderCancelAck, OrderUpdate

LEMMA ReceiveHears ==
    ASSUME IInv, TypeOK', InOrder, Receive, NEW o \in Orders
    PROVE  Hearing(o)
<1>. DEFINE m == Head(inbox)
            Heard == \/ ~News(m, o) /\ oms'[o] = oms[o] /\ (o \in stale' <=> o \in stale)
                     \/ /\ o \notin stale'
                        /\ \/ Refuses(m, o) /\ oms'[o] = "REJECTED"
                           \/ Opens(m, o) /\ oms'[o] = "WORKING"
                           \/ Closes(m, o) /\ oms'[o] = "COMPLETED"
<1>1. /\ TypeOK /\ Sent(stale') /\ subscribed' = subscribed
      /\ inbox # <<>> /\ inbox' = Tail(inbox) /\ exch' = exch /\ stale' \in SUBSET Orders
      /\ m \in ToGateway
  BY ReceiveMoves, ArrivedType DEF Moves, IInv, TypeOK
<1>2. \E q \in Seq(ToExchange) :
          outbox' = outbox \o q /\ ~Places(q, o) /\ (AnySends(q, o) => o \in stale')
  BY <1>1, SentFacts
<1>. SUFFICES Heard
  BY <1>1, <1>2 DEF Hearing
<1>3. ASSUME UNCHANGED omsVars, ~News(m, o) PROVE Heard
  BY <1>3 DEF omsVars
<1>4. ASSUME NEW S, NEW status, Report(S, status)
      PROVE  /\ o \in S => oms'[o] = status /\ o \notin stale'
             /\ o \notin S => oms'[o] = oms[o] /\ (o \in stale' <=> o \in stale)
  BY <1>1, <1>4 DEF Report
<1>. HIDE DEF m
<1>5. CASE TradeLogin \/ TradeSubscribe
  <2>1. m.type \in {"login", "subscribe"} /\ UNCHANGED omsVars
    BY <1>5 DEF TradeLogin, TradeSubscribe, Arrived, m
  <2> QED BY <1>3, <2>1 DEF News, Refuses, Opens, Closes, RequestTypes
<1>6. CASE TradeOrderList
  <2>1. m.type = "order_list" /\ Report(m.open, "WORKING")
    BY <1>6 DEF TradeOrderList, Arrived, m
  <2> QED BY <1>4, <2>1 DEF News, Refuses, Opens, Closes, RequestTypes
<1>7. CASE TradeOrderStatus
  <2>1. /\ m.type = "order_status"
        /\ \/ m.status = "none" /\ Report({m.order}, "REJECTED")
           \/ m.status = "error" /\ UNCHANGED omsVars
           \/ m.status \in {"open", "closed"} /\ Report({m.order}, StatusOf(m.status))
    BY <1>7 DEF TradeOrderStatus, Arrived, m
  <2> QED BY <1>3, <1>4, <2>1 DEF News, Refuses, Opens, Closes, RequestTypes, StatusOf
<1>8. CASE TradeOrders
  <2>1. m.type = "orders" /\ Report({m.order}, StatusOf(m.status))
    BY <1>8 DEF TradeOrders, Arrived, m
  <2>2. m.status \in {"open", "closed"}
    BY <1>1, <2>1, UpdateStatus
  <2> QED BY <1>4, <2>1, <2>2 DEF News, Refuses, Opens, Closes, RequestTypes, StatusOf
<1>9. CASE TradeOrderPlace
  <2>1. /\ m.type = "order_place"
        /\ \/ m.status = "received" /\ UNCHANGED omsVars
           \/ m.status = "rejected" /\ Report({m.order}, "REJECTED")
           \/ m.status \in {"open", "closed"} /\ Report({m.order}, StatusOf(m.status))
    BY <1>9 DEF TradeOrderPlace, Arrived, m
  <2> QED BY <1>3, <1>4, <2>1 DEF News, Refuses, Opens, Closes, RequestTypes, StatusOf
<1>10. CASE TradeOrderCancel
  <2>1. /\ m.type = "order_cancel"
        /\ \/ m.status = "rejected" /\ UNCHANGED omsVars
           \/ m.status = "closed" /\ Report({m.order}, "COMPLETED")
    BY <1>10 DEF TradeOrderCancel, Arrived, m
  <2> QED BY <1>3, <1>4, <2>1 DEF News, Refuses, Opens, Closes, RequestTypes, StatusOf
<1> QED BY <1>5, <1>6, <1>7, <1>8, <1>9, <1>10 DEF Receive

LEMMA GatewayKinds ==
    ASSUME IInv, TypeOK', InOrder, NEW o \in Orders, FollowsOrder(o),
           \/ SocketReady \/ Disconnected \/ Timer
           \/ \E p \in Orders : CreateOrder(p) \/ CancelOrder(p)
           \/ \E k \in Requests : RequestCommit(k)
    PROVE  Asking(o) \/ Creating(o) \/ Losing(o)
<1>1. TypeOK /\ outbox \in Seq(ToExchange)
  BY DEF IInv, TypeOK
<1>2. PICK none \in Seq(ToExchange) : none = <<>>
  BY NoFrames
<1>3. outbox = outbox \o none /\ ~Places(none, o) /\ ~AnySends(none, o)
  BY <1>1, <1>2 DEF Places, AnySends
<1>4. CASE SocketReady
  <2>1. PICK q \in Seq(ToExchange) : q = <<Login>>
    BY ToExchangeFrames, OneFrame
  <2>2. outbox' = outbox \o q
    BY <1>4, <2>1 DEF SocketReady, IInv, SessionConsistent, Running
  <2>3. ~AnySends(q, o) /\ ~Places(q, o)
    BY <2>1, RequestsSend DEF AnySends, Places, Login, OrderPlace
  <2> QED BY <1>4, <2>2, <2>3 DEF SocketReady, omsVars, venue, Asking
<1>5. CASE Disconnected
  <2>1. /\ exch' = exch /\ oms' = oms /\ outbox' = <<>> /\ inbox' = <<>>
        /\ stale' = stale \cup {p \in Orders : oms[p] \in Live}
    BY <1>5 DEF Disconnected
  <2> QED BY <2>1 DEF Losing, Live
<1>6. CASE Timer
  <2>1. Sent(stale)
    BY <1>6, TimerMoves DEF Moves
  <2>2. PICK q \in Seq(ToExchange) :
           outbox' = outbox \o q /\ ~Places(q, o) /\ (AnySends(q, o) => o \in stale)
    BY <1>1, <2>1, SentFacts DEF TypeOK
  <2> QED BY <1>6, <2>2 DEF Timer, omsVars, venue, Asking
<1>7. ASSUME NEW p \in Orders, CreateOrder(p) PROVE Asking(o) \/ Creating(o)
  <2>1. /\ UNCHANGED <<inbox, subscribed, exch, stale>> /\ oms[p] = "UNDEFINED" /\ exch[p] = "none"
        /\ oms' = [oms EXCEPT ![p] = "SENT"] /\ oms \in [Orders -> OrderStatus]
        /\ Running /\ connection_status = "READY" /\ outbox' = Append(outbox, OrderPlace(p))
    BY <1>1, <1>7 DEF CreateOrder, venue, TypeOK
  <2>2. PICK q \in Seq(ToExchange) : q = <<OrderPlace(p)>>
    BY ToExchangeFrames, OneFrame
  <2>3. outbox' = outbox \o q
    BY <1>1, <2>1, <2>2
  <2>4. CASE p = o
    <3>1. "orders" \in subscribed
      BY <2>1 DEF InOrder, IInv, SessionConsistent, Passed, Channels
    <3> QED BY <2>1, <2>2, <2>3, <2>4, <3>1 DEF Creating
  <2>5. CASE p # o
    <3>1. ~AnySends(q, o) /\ ~Places(q, o)
      BY <2>2, <2>5, RequestsSend, PlacesSends DEF AnySends
    <3> QED BY <2>1, <2>3, <2>5, <3>1 DEF Asking
  <2> QED BY <2>4, <2>5
<1>8. ASSUME NEW p \in Orders, CancelOrder(p) PROVE Asking(o)
  <2>1. /\ UNCHANGED <<inbox, subscribed, exch, stale, oms>> /\ oms[p] = "WORKING"
        /\ outbox' = Append(outbox, OrderCancel(p))
    BY <1>8 DEF CancelOrder, venue, omsVars
  <2>2. PICK q \in Seq(ToExchange) : q = <<OrderCancel(p)>>
    BY ToExchangeFrames, OneFrame
  <2>3. outbox' = outbox \o q
    BY <1>1, <2>1, <2>2
  <2>4. DOMAIN q = {1} /\ q[1] = OrderCancel(p)
    BY <2>2
  <2>5. ~Places(q, o) /\ (AnySends(q, o) => p = o)
    BY <2>4, RequestsSend DEF AnySends, Places
  <2> QED BY <2>1, <2>3, <2>5 DEF Asking
<1>9. ASSUME NEW k \in Requests, RequestCommit(k) PROVE Asking(o)
  BY <1>3, <1>9 DEF RequestCommit, Asking, omsVars, wire, venue
<1> QED BY <1>4, <1>5, <1>6, <1>7, <1>8, <1>9

(* One frame of the exchange, and what it tells.                           *)
LEMMA OneFits ==
    ASSUME NEW m \in ToGateway, NEW o \in Orders, NEW x,
           Refuses(m, o) => x = "none", Opens(m, o) => x = "open", Closes(m, o) => x = "closed"
    PROVE  /\ <<m>> \in Seq(ToGateway) /\ Fits(<<m>>, o, x)
           /\ AnyAbout(<<m>>, o) <=> About(m, o)
           /\ AnyNews(<<m>>, o) <=> News(m, o)
<1>1. <<m>> \in Seq(ToGateway) /\ DOMAIN <<m>> = {1} /\ <<m>>[1] = m
  OBVIOUS
<1>2. Fits(<<m>>, o, x)
  BY <1>1 DEF Fits
<1>3. AnyAbout(<<m>>, o) <=> About(m, o)
  BY <1>1 DEF AnyAbout
<1>4. AnyNews(<<m>>, o) <=> News(m, o)
  BY <1>1 DEF AnyNews
<1> QED BY <1>1, <1>2, <1>3, <1>4

LEMMA FitsConcat ==
    ASSUME NEW S, NEW s \in Seq(S), NEW t \in Seq(S), NEW o, NEW x, Fits(s, o, x), Fits(t, o, x)
    PROVE  Fits(s \o t, o, x)
<1>1. \A i \in DOMAIN (s \o t) :
            \/ i \in DOMAIN s /\ (s \o t)[i] = s[i]
            \/ \E j \in DOMAIN t : i = Len(s) + j /\ (s \o t)[i] = t[j]
  BY QueueConcat
<1> QED BY <1>1 DEF Fits

(* The updates of an order p.                                              *)
LEMMA PushFits ==
    ASSUME NEW p \in Orders, NEW s \in {"open", "closed"}, NEW o \in Orders, NEW x,
           p = o => x = s
    PROVE  /\ Push(p, s) \in Seq(ToGateway) /\ Fits(Push(p, s), o, x)
           /\ AnyAbout(Push(p, s), o) => p = o
           /\ p = o /\ "orders" \in subscribed => AnyNews(Push(p, s), o)
<1>1. Push(p, s) \in Seq(ToGateway)
  BY PushType
<1>2. CASE "orders" \in subscribed
  <2>1. Push(p, s) = <<OrderUpdate(p, s)>> /\ OrderUpdate(p, s) \in ToGateway
    BY <1>2, ToGatewayFrames DEF Push
  <2> QED BY <1>1, <2>1, FramesTell, OneFits DEF News
<1>3. CASE "orders" \notin subscribed
  <2>1. Push(p, s) = <<>>
    BY <1>3 DEF Push
  <2> QED BY <1>1, <1>3, <2>1 DEF Fits, AnyAbout
<1> QED BY <1>2, <1>3

LEMMA RequestForm ==
    ASSUME NEW m \in ToExchange
    PROVE  /\ m.type = "order_status" => m.order \in Orders /\ m = OrderQuery(m.order)
           /\ m.type = "order_place" => m.order \in Orders /\ m = OrderPlace(m.order)
           /\ m.type = "order_cancel" => m.order \in Orders /\ m = OrderCancel(m.order)
BY DEF ToExchange, Login, OrderList, Subscribe, OrderQuery, OrderPlace, OrderCancel

(* The answer to a request that places no order.                           *)
LEMMA OneAnswering ==
    ASSUME TypeOK, NEW o \in Orders, NEW type, Requested(type), type # "order_place",
           NEW m \in ToGateway, Reply(<<m>>), subscribed \subseteq subscribed',
           exch'[o] = exch[o],
           Refuses(m, o) => exch[o] = "none", Opens(m, o) => exch[o] = "open",
           Closes(m, o) => exch[o] = "closed",
           About(m, o) => exch[o] = "open" \/ Sends(Head(outbox), o)
    PROVE  Answering(o)
<1>1. PICK t \in Seq(ToGateway) : t = <<m>> /\ Fits(t, o, exch[o]) /\ (AnyAbout(t, o) <=> About(m, o))
  BY OneFits
<1>2. Speaking(t)
  BY <1>1 DEF Speaking, Reply, omsVars
<1>3. Taking(o)
  BY DEF Taking, Requested, Reply, OrderPlace
<1> QED BY <1>1, <1>2, <1>3 DEF Answering

(* The exchange does something about another order.                        *)
LEMMA OtherAnswering ==
    ASSUME NEW o \in Orders, NEW t \in Seq(ToGateway), Speaking(t), exch'[o] = exch[o],
           outbox' = outbox \/ Taking(o), ~AnyAbout(t, o)
    PROVE  Answering(o)
<1>1. Fits(t, o, exch[o])
  BY NewsIsAbout DEF Fits, AnyNews, News
<1> QED BY <1>1 DEF Answering

LEMMA PlaceFrames ==
    ASSUME NEW p \in Orders, NEW s \in {"open", "closed", "rejected"}, NEW u \in Seq(ToGateway),
           NEW o \in Orders, NEW x, p = o => x = (IF s = "rejected" THEN "none" ELSE s),
           Fits(u, o, x), AnyAbout(u, o) => p = o
    PROVE  /\ <<OrderPlaceAck(p, "received"), OrderPlaceAck(p, s)>> \o u \in Seq(ToGateway)
           /\ Fits(<<OrderPlaceAck(p, "received"), OrderPlaceAck(p, s)>> \o u, o, x)
           /\ AnyAbout(<<OrderPlaceAck(p, "received"), OrderPlaceAck(p, s)>> \o u, o) => p = o
           /\ p = o => AnyNews(<<OrderPlaceAck(p, "received"), OrderPlaceAck(p, s)>> \o u, o)
<1>. DEFINE m == OrderPlaceAck(p, "received")
            n == OrderPlaceAck(p, s)
            t == <<m, n>>
<1>1. m \in ToGateway /\ n \in ToGateway
  BY ToGatewayFrames
<1>2. /\ ~News(m, o) /\ (About(m, o) => p = o) /\ (About(n, o) => p = o)
      /\ Refuses(n, o) => x = "none"
      /\ Opens(n, o) => x = "open"
      /\ Closes(n, o) => x = "closed"
      /\ p = o => News(n, o)
  BY FramesTell DEF News
<1>. HIDE DEF m, n
<1>3. t \in Seq(ToGateway) /\ DOMAIN t = {1, 2} /\ t[1] = m /\ t[2] = n
  BY <1>1
<1>. HIDE DEF t
<1>4. Fits(t, o, x)
  BY <1>2, <1>3 DEF Fits, News
<1>5. AnyAbout(t, o) => p = o
  BY <1>2, <1>3 DEF AnyAbout
<1>6. p = o => AnyNews(t, o)
  BY <1>2, <1>3 DEF AnyNews
<1>7. /\ t \o u \in Seq(ToGateway)
      /\ Fits(t \o u, o, x)
      /\ AnyAbout(t \o u, o) => p = o
      /\ p = o => AnyNews(t \o u, o)
  BY <1>3, <1>4, <1>5, <1>6, FitsConcat, SomeConcat, QueueConcat
<1> QED BY <1>7 DEF t, m, n

LEMMA PlaceKinds ==
    ASSUME TypeOK, NEW o \in Orders, FollowsOrder(o), ExchangeOrderPlace
    PROVE  Answering(o) \/ Placing(o)
<1>. DEFINE p == Head(outbox).order
            T(s, u) == <<OrderPlaceAck(p, "received"), OrderPlaceAck(p, s)>> \o u
<1>1. /\ p \in Orders /\ Head(outbox) = OrderPlace(p) /\ outbox # <<>>
      /\ exch \in [Orders -> ExchangeStatus] /\ subscribed' = subscribed
      /\ outbox \in Seq(ToExchange)
  BY RequestedType, RequestForm DEF ExchangeOrderPlace, Requested, TypeOK
<1>2. \/ \E s \in {"open", "closed"} :
            exch' = [exch EXCEPT ![p] = s] /\ Reply(T(s, Push(p, s)))
      \/ /\ exch' = exch
         /\ Reply(<<OrderPlaceAck(p, "received"), OrderPlaceAck(p, "rejected")>>)
  BY DEF ExchangeOrderPlace
<1>3. p = o => exch[o] = "none"
  <2>1. p = o => Places(outbox, o)
    BY <1>1, PlacesTail
  <2> QED BY <2>1 DEF FollowsOrder, PlacedFirst
<1>. HIDE DEF p
<1>4. ASSUME NEW s \in {"open", "closed", "rejected"}, NEW u \in Seq(ToGateway), Reply(T(s, u)),
             NEW x, p = o => x = (IF s = "rejected" THEN "none" ELSE s) /\ exch'[o] = x,
             Fits(u, o, x), AnyAbout(u, o) => p = o, p # o => exch'[o] = exch[o]
      PROVE  Answering(o) \/ Placing(o)
  <2>1. PICK t \in Seq(ToGateway) :
           t = T(s, u) /\ Fits(t, o, x) /\ (AnyAbout(t, o) => p = o) /\ (p = o => AnyNews(t, o))
    <3>1. p = o => x = (IF s = "rejected" THEN "none" ELSE s)
      BY <1>4
    <3>2. /\ T(s, u) \in Seq(ToGateway) /\ Fits(T(s, u), o, x)
          /\ AnyAbout(T(s, u), o) => p = o
          /\ p = o => AnyNews(T(s, u), o)
      BY <1>1, <1>4, <3>1, PlaceFrames
    <3>. HIDE DEF T
    <3> QED BY <3>2
  <2>2. Speaking(t) /\ outbox' = Tail(outbox)
    BY <1>1, <1>4, <2>1 DEF Reply, Speaking, omsVars
  <2>3. CASE p = o
    BY <1>1, <1>4, <2>1, <2>2, <2>3 DEF Placing
  <2>4. CASE p # o
    <3>1. Taking(o)
      BY <1>1, <2>2, <2>4, RequestsSend DEF Taking
    <3> QED BY <1>4, <2>1, <2>2, <2>4, <3>1, OtherAnswering
  <2> QED BY <2>3, <2>4
<1>5. ASSUME NEW s \in {"open", "closed"}, exch' = [exch EXCEPT ![p] = s], Reply(T(s, Push(p, s)))
      PROVE  Answering(o) \/ Placing(o)
  <2>. DEFINE x == IF p = o THEN s ELSE "none"
  <2>1. /\ Push(p, s) \in Seq(ToGateway) /\ Fits(Push(p, s), o, x)
        /\ AnyAbout(Push(p, s), o) => p = o
    BY <1>1, PushFits
  <2>2. (p = o => exch'[o] = s) /\ (p # o => exch'[o] = exch[o])
    BY <1>1, <1>5
  <2> QED BY <1>4, <1>5, <2>1, <2>2
<1>6. ASSUME exch' = exch, Reply(<<OrderPlaceAck(p, "received"), OrderPlaceAck(p, "rejected")>>)
      PROVE  Answering(o) \/ Placing(o)
  <2>1. PICK u \in Seq(ToGateway) : u = <<>>
    BY NoFrames
  <2>2. <<OrderPlaceAck(p, "received"), OrderPlaceAck(p, "rejected")>> \in Seq(ToGateway)
    BY <1>1, ToGatewayFrames
  <2>3. T("rejected", u) = <<OrderPlaceAck(p, "received"), OrderPlaceAck(p, "rejected")>>
    BY <2>1, <2>2
  <2>4. Fits(u, o, "none") /\ ~AnyAbout(u, o)
    BY <2>1 DEF Fits, AnyAbout
  <2> QED BY <1>3, <1>4, <1>6, <2>3, <2>4
<1> QED BY <1>2, <1>5, <1>6

LEMMA CancelKinds ==
    ASSUME TypeOK, NEW o \in Orders, FollowsOrder(o),
           ExchangeOrderCancel \/ \E p \in Orders : ExchangeFinish(p)
    PROVE  Answering(o) \/ Closing(o)
<1>1. ASSUME NEW p \in Orders, NEW t \in Seq(ToGateway), Speaking(t), outbox' = outbox \/ Taking(o),
             exch[p] = "open", exch' = [exch EXCEPT ![p] = "closed"],
             Fits(t, o, IF p = o THEN "closed" ELSE exch[o]), AnyAbout(t, o) => p = o,
             p = o /\ "orders" \in subscribed => AnyNews(t, o)
      PROVE  Answering(o) \/ Closing(o)
  <2>1. CASE p = o
    <3>1. exch'[o] = "closed"
      BY <1>1, <2>1 DEF TypeOK
    <3> QED BY <1>1, <2>1, <3>1 DEF Closing
  <2>2. CASE p # o
    <3>1. exch'[o] = exch[o]
      BY <1>1, <2>2 DEF TypeOK
    <3> QED BY <1>1, <2>2, <3>1, OtherAnswering
  <2> QED BY <2>1, <2>2
<1>2. ASSUME NEW p \in Orders, ExchangeFinish(p) PROVE Answering(o) \/ Closing(o)
  <2>. DEFINE x == IF p = o THEN "closed" ELSE exch[o]
  <2>1. PICK t \in Seq(ToGateway) :
           /\ t = Push(p, "closed") /\ Fits(t, o, x) /\ (AnyAbout(t, o) => p = o)
           /\ p = o /\ "orders" \in subscribed => AnyNews(t, o)
    BY PushFits
  <2>2. Speaking(t) /\ outbox' = outbox /\ exch[p] = "open" /\ exch' = [exch EXCEPT ![p] = "closed"]
    BY <1>2, <2>1 DEF ExchangeFinish, Speaking, omsVars
  <2> QED BY <1>1, <2>1, <2>2
<1>3. CASE ExchangeOrderCancel
  <2>. DEFINE p == Head(outbox).order
  <2>1. /\ p \in Orders /\ Head(outbox) = OrderCancel(p) /\ Requested("order_cancel")
        /\ outbox # <<>> /\ subscribed' = subscribed
    BY <1>3, RequestedType, RequestForm DEF ExchangeOrderCancel, Requested
  <2>2. \/ /\ exch[p] = "open" /\ exch' = [exch EXCEPT ![p] = "closed"]
           /\ Reply(<<OrderCancelAck(p, "closed")>> \o Push(p, "closed"))
        \/ exch' = exch /\ Reply(<<OrderCancelAck(p, "rejected")>>)
    BY <1>3 DEF ExchangeOrderCancel
  <2>. HIDE DEF p
  <2>3. CASE /\ exch[p] = "open" /\ exch' = [exch EXCEPT ![p] = "closed"]
             /\ Reply(<<OrderCancelAck(p, "closed")>> \o Push(p, "closed"))
    <3>. DEFINE x == IF p = o THEN "closed" ELSE exch[o]
                m == OrderCancelAck(p, "closed")
    <3>1. PICK u \in Seq(ToGateway) :
             /\ u = Push(p, "closed") /\ Fits(u, o, x) /\ (AnyAbout(u, o) => p = o)
             /\ p = o /\ "orders" \in subscribed => AnyNews(u, o)
      BY <2>1, PushFits
    <3>2. /\ m \in ToGateway /\ ~Refuses(m, o) /\ ~Opens(m, o) /\ (Closes(m, o) => x = "closed")
          /\ About(m, o) <=> p = o
      BY <2>1, ToGatewayFrames, FramesTell
    <3>. HIDE DEF m, x
    <3>3. PICK s \in Seq(ToGateway) : s = <<m>> /\ Fits(s, o, x) /\ (AnyAbout(s, o) <=> p = o)
      BY <3>2, OneFits
    <3>4. /\ s \o u \in Seq(ToGateway) /\ Fits(s \o u, o, x) /\ (AnyAbout(s \o u, o) => p = o)
          /\ p = o /\ "orders" \in subscribed => AnyNews(s \o u, o)
      BY <3>1, <3>3, FitsConcat, SomeConcat, QueueConcat
    <3>5. Speaking(s \o u) /\ outbox' = Tail(outbox)
      BY <2>1, <2>3, <3>1, <3>3, <3>4 DEF Speaking, Reply, omsVars, m
    <3>6. Taking(o)
      BY <2>1, <3>5, RequestsSend DEF Taking
    <3> QED BY <1>1, <2>1, <2>3, <3>4, <3>5, <3>6 DEF x
  <2>4. CASE exch' = exch /\ Reply(<<OrderCancelAck(p, "rejected")>>)
    <3>. DEFINE m == OrderCancelAck(p, "rejected")
    <3>1. /\ m \in ToGateway /\ ~Refuses(m, o) /\ ~Opens(m, o) /\ ~Closes(m, o)
          /\ About(m, o) => Sends(Head(outbox), o)
      BY <2>1, ToGatewayFrames, FramesTell, RequestsSend
    <3>. HIDE DEF m
    <3>2. Reply(<<m>>)
      BY <2>4 DEF m
    <3> QED BY <2>1, <2>4, <3>1, <3>2, OneAnswering
  <2> QED BY <2>2, <2>3, <2>4
<1> QED BY <1>2, <1>3

LEMMA AnswerKinds ==
    ASSUME TypeOK, NEW o \in Orders, FollowsOrder(o),
           \/ ExchangeLogin \/ ExchangeSubscribe \/ ExchangeOrderList
           \/ ExchangeOrderStatus \/ ExchangeOrderStatusError
    PROVE  Answering(o)
<1>1. CASE ExchangeLogin
  <2>1. PICK s \in {"success", "fail"} : Reply(<<LoginAck(s)>>)
    BY <1>1 DEF ExchangeLogin
  <2>. DEFINE m == LoginAck(s)
  <2>2. m \in ToGateway /\ ~About(m, o)
    BY ToGatewayFrames, FramesTell
  <2>3. ~News(m, o)
    BY <2>2, NewsKinds
  <2> QED BY <1>1, <2>1, <2>2, <2>3, OneAnswering DEF ExchangeLogin, venue, News
<1>2. CASE ExchangeSubscribe
  <2>. DEFINE c == Head(outbox).channel
  <2>1. c \in Channels /\ Requested("subscribe")
    BY <1>2, RequestedType, ToExchangeType DEF ExchangeSubscribe
  <2>2. PICK s \in {"success", "fail"} :
           Reply(<<SubscribeAck(c, s)>>) /\ subscribed \subseteq subscribed' /\ exch' = exch
    BY <1>2 DEF ExchangeSubscribe
  <2>. DEFINE m == SubscribeAck(c, s)
  <2>3. m \in ToGateway /\ ~About(m, o)
    BY <2>1, ToGatewayFrames, FramesTell
  <2>4. ~News(m, o)
    BY <2>3, NewsKinds
  <2> QED BY <2>1, <2>2, <2>3, <2>4, OneAnswering DEF News
<1>3. CASE ExchangeOrderList
  <2>1. PICK S \in SUBSET Orders : Reply(<<OrderListAck(S)>>) /\ (o \in S => exch[o] = "open")
    BY <1>3 DEF ExchangeOrderList
  <2>. DEFINE m == OrderListAck(S)
  <2>2. /\ m \in ToGateway /\ ~Refuses(m, o) /\ ~Closes(m, o)
        /\ Opens(m, o) => exch[o] = "open"
        /\ About(m, o) => exch[o] = "open"
    BY <2>1, ToGatewayFrames, FramesTell
  <2>3. Requested("order_list") /\ exch' = exch /\ subscribed' = subscribed
    BY <1>3 DEF ExchangeOrderList, venue
  <2>. HIDE DEF m
  <2>4. Reply(<<m>>)
    BY <2>1 DEF m
  <2> QED BY <2>2, <2>3, <2>4, OneAnswering
<1>4. CASE ExchangeOrderStatus \/ ExchangeOrderStatusError
  <2>. DEFINE p == Head(outbox).order
  <2>1. /\ p \in Orders /\ Head(outbox) = OrderQuery(p) /\ Requested("order_status")
        /\ exch' = exch /\ subscribed' = subscribed
    BY <1>4, RequestedType, RequestForm DEF ExchangeOrderStatus, ExchangeOrderStatusError, venue
  <2>2. PICK s \in ExchangeStatus \cup {"error"} :
           Reply(<<OrderQueryAck(p, s)>>) /\ (s = exch[p] \/ s = "error")
    BY <1>4, <2>1 DEF ExchangeOrderStatus, ExchangeOrderStatusError, TypeOK
  <2>. DEFINE m == OrderQueryAck(p, s)
  <2>. HIDE DEF p
  <2>3. /\ m \in ToGateway
        /\ Refuses(m, o) => exch[o] = "none"
        /\ Opens(m, o) => exch[o] = "open"
        /\ Closes(m, o) => exch[o] = "closed"
        /\ About(m, o) => Sends(Head(outbox), o)
    BY <2>1, <2>2, ToGatewayFrames, FramesTell, RequestsSend DEF ExchangeStatus
  <2> QED BY <2>1, <2>2, <2>3, OneAnswering
<1> QED BY <1>1, <1>2, <1>3, <1>4

LEMMA NextFollows ==
    ASSUME IInv, TypeOK', InOrder, NEW o \in Orders, FollowsOrder(o), [Next]_vars
    PROVE  /\ FollowsOrder(o)'
           /\ \/ UNCHANGED vars
              \/ Asking(o) \/ Creating(o) \/ Losing(o) \/ Hearing(o)
              \/ Answering(o) \/ Placing(o) \/ Closing(o)
<1>1. TypeOK
  BY DEF IInv
<1>2. CASE UNCHANGED vars
  BY <1>2 DEF vars, FollowsOrder, PlacedFirst, Places, AnyAbout, Alone, UnknownUnasked, AnySends,
              Sound, ToldTrue, LiveIsFollowed, AnyNews, Running
<1>3. CASE Next
  <2>1. Running
    BY <1>3 DEF Next, SocketReady, Disconnected, Receive, TradeLogin, TradeSubscribe,
                TradeOrderList, TradeOrderStatus, TradeOrders, TradeOrderPlace, TradeOrderCancel,
                Arrived, Timer, Exchange, ExchangeLogin, ExchangeSubscribe, ExchangeOrderList,
                ExchangeOrderStatus, ExchangeOrderStatusError, ExchangeOrderPlace,
                ExchangeOrderCancel, Requested, CreateOrder, CancelOrder, ExchangeFinish,
                RequestCommit
  <2>2. \/ Asking(o) \/ Creating(o) \/ Losing(o) \/ Hearing(o)
        \/ Answering(o) \/ Placing(o) \/ Closing(o)
    BY <1>1, <1>3, GatewayKinds, ReceiveHears, PlaceKinds, CancelKinds, AnswerKinds
       DEF Next, Exchange
  <2> QED BY <1>1, <2>1, <2>2, AskingStep, CreatingStep, LosingStep, HearingStep, AnsweringStep,
             PlacingStep, ClosingStep
<1> QED BY <1>2, <1>3

-----------------------------------------------------------------------------
(* The order of frames is kept.                                            *)

(* What the exchange says is about a list only if it was asked for it, and *)
(* about orders only once their updates are subscribed.                    *)
Heeds(t, o) ==
    /\ OrdersFirst(t)
    /\ o \in Orders /\ "order_list" \notin Faults /\ exch[o] = "open" => ListsHave(t, o)

Listing(m, o) == o \in Orders /\ "order_list" \notin Faults /\ exch[o] = "open" => o \in m.open

LEMMA OneHeeds ==
    ASSUME NEW m \in ToGateway, NEW o,
           m.type \in RequestTypes \cup {"order_list", "orders"} => "orders" \in subscribed,
           m.type = "order_list" => Listing(m, o)
    PROVE  <<m>> \in Seq(ToGateway) /\ Heeds(<<m>>, o)
<1>1. <<m>> \in Seq(ToGateway) /\ DOMAIN <<m>> = {1} /\ <<m>>[1] = m
  OBVIOUS
<1>2. Heeds(<<m>>, o)
  BY <1>1 DEF Heeds, OrdersFirst, ListsHave, Listing
<1> QED BY <1>1, <1>2

LEMMA HeedsConcat ==
    ASSUME NEW s \in Seq(ToGateway), NEW t \in Seq(ToGateway), NEW o, Heeds(s, o), Heeds(t, o)
    PROVE  s \o t \in Seq(ToGateway) /\ Heeds(s \o t, o)
<1>1. /\ s \o t \in Seq(ToGateway)
      /\ \A i \in DOMAIN (s \o t) :
            \/ i \in DOMAIN s /\ (s \o t)[i] = s[i]
            \/ \E j \in DOMAIN t : i = Len(s) + j /\ (s \o t)[i] = t[j]
  BY QueueConcat
<1>2. Heeds(s \o t, o)
  BY <1>1 DEF Heeds, OrdersFirst, ListsHave
<1> QED BY <1>1, <1>2

LEMMA PushHeeds ==
    ASSUME NEW p \in Orders, NEW s \in {"open", "closed"}, NEW o
    PROVE  Push(p, s) \in Seq(ToGateway) /\ Heeds(Push(p, s), o)
<1>1. CASE "orders" \in subscribed
  <2>1. Push(p, s) = <<OrderUpdate(p, s)>> /\ OrderUpdate(p, s) \in ToGateway
    BY <1>1, ToGatewayFrames DEF Push
  <2>2. OrderUpdate(p, s).type # "order_list"
    BY DEF OrderUpdate
  <2> QED BY <1>1, <2>1, <2>2, OneHeeds
<1>2. CASE "orders" \notin subscribed
  <2>1. Push(p, s) = <<>>
    BY <1>2 DEF Push
  <2> QED BY <2>1, NoFrames DEF Heeds, OrdersFirst, ListsHave
<1> QED BY <1>1, <1>2

LEMMA ExchangeHeeds ==
    ASSUME TypeOK, Running, InOrder, NEW o, Exchange \/ \E p \in Orders : ExchangeFinish(p)
    PROVE  /\ \E t \in Seq(ToGateway) : inbox' = inbox \o t /\ Heeds(t, o)
           /\ UNCHANGED <<oms, state, connection_status, fatal>>
           /\ subscribed \subseteq subscribed'
           /\ outbox' = outbox \/ (outbox # <<>> /\ outbox' = Tail(outbox))
<1>1. /\ UNCHANGED <<oms, state, connection_status, fatal>>
      /\ subscribed \subseteq subscribed'
      /\ outbox' = outbox \/ (outbox # <<>> /\ outbox' = Tail(outbox))
  BY DEF Exchange, ExchangeLogin, ExchangeSubscribe, ExchangeOrderList, ExchangeOrderStatus,
         ExchangeOrderStatusError, ExchangeOrderPlace, ExchangeOrderCancel, ExchangeFinish,
         Reply, Requested, omsVars, gateway, venue
<1>. SUFFICES \E t \in Seq(ToGateway) : inbox' = inbox \o t /\ Heeds(t, o)
  BY <1>1
<1>2. ASSUME NEW m \in ToGateway, Reply(<<m>>),
             m.type \in RequestTypes \cup {"order_list", "orders"} => "orders" \in subscribed,
             m.type = "order_list" => Listing(m, o)
      PROVE  \E t \in Seq(ToGateway) : inbox' = inbox \o t /\ Heeds(t, o)
  BY <1>2, OneHeeds DEF Reply
<1>3. ASSUME NEW type \in RequestTypes \cup {"order_list"}, Requested(type) PROVE "orders" \in subscribed
  <2>1. outbox \in Seq(ToExchange) /\ outbox # <<>> /\ Head(outbox).type = type
    BY <1>3 DEF Requested, TypeOK
  <2> QED BY <2>1, OrdersFirstTail DEF InOrder
<1>4. CASE ExchangeLogin
  <2>1. PICK s \in {"success", "fail"} : Reply(<<LoginAck(s)>>)
    BY <1>4 DEF ExchangeLogin
  <2>2. LoginAck(s) \in ToGateway /\ LoginAck(s).type = "login"
    BY ToGatewayFrames DEF LoginAck
  <2> QED BY <1>2, <2>1, <2>2 DEF RequestTypes
<1>5. CASE ExchangeSubscribe
  <2>. DEFINE c == Head(outbox).channel
  <2>1. c \in Channels
    BY <1>5, RequestedType, ToExchangeType DEF ExchangeSubscribe
  <2>2. PICK s \in {"success", "fail"} : Reply(<<SubscribeAck(c, s)>>)
    BY <1>5 DEF ExchangeSubscribe
  <2>3. SubscribeAck(c, s) \in ToGateway /\ SubscribeAck(c, s).type = "subscribe"
    BY <2>1, ToGatewayFrames DEF SubscribeAck
  <2>. HIDE DEF c
  <2> QED BY <1>2, <2>2, <2>3 DEF RequestTypes
<1>6. CASE ExchangeOrderList
  <2>1. "orders" \in subscribed
    BY <1>3, <1>6 DEF ExchangeOrderList
  <2>2. PICK S \in SUBSET Orders :
           /\ Reply(<<OrderListAck(S)>>)
           /\ "order_list" \notin Faults => S = {p \in Orders : exch[p] = "open"}
    BY <1>6 DEF ExchangeOrderList
  <2>3. OrderListAck(S) \in ToGateway /\ OrderListAck(S).open = S
    BY ToGatewayFrames DEF OrderListAck
  <2> QED BY <1>2, <2>1, <2>2, <2>3 DEF Listing
<1>7. CASE ExchangeOrderStatus \/ ExchangeOrderStatusError
  <2>. DEFINE p == Head(outbox).order
  <2>1. "orders" \in subscribed /\ p \in Orders
    BY <1>3, <1>7, RequestedType, RequestForm
       DEF ExchangeOrderStatus, ExchangeOrderStatusError, RequestTypes
  <2>2. PICK s \in ExchangeStatus \cup {"error"} : Reply(<<OrderQueryAck(p, s)>>)
    BY <1>7, <2>1 DEF ExchangeOrderStatus, ExchangeOrderStatusError, TypeOK
  <2>3. OrderQueryAck(p, s) \in ToGateway /\ OrderQueryAck(p, s).type = "order_status"
    BY <2>1, ToGatewayFrames DEF OrderQueryAck
  <2>. HIDE DEF p
  <2> QED BY <1>2, <2>1, <2>2, <2>3
<1>8. CASE ExchangeOrderPlace
  <2>. DEFINE p == Head(outbox).order
              m == OrderPlaceAck(p, "received")
  <2>1. "orders" \in subscribed /\ p \in Orders
    BY <1>3, <1>8, RequestedType, RequestForm DEF ExchangeOrderPlace, RequestTypes
  <2>2. ASSUME NEW s \in {"open", "closed", "rejected"}, NEW u \in Seq(ToGateway), Heeds(u, o)
        PROVE  <<m, OrderPlaceAck(p, s)>> \o u \in Seq(ToGateway) /\ Heeds(<<m, OrderPlaceAck(p, s)>> \o u, o)
    <3>. DEFINE n == OrderPlaceAck(p, s)
                v == <<m, n>>
    <3>1. m \in ToGateway /\ n \in ToGateway /\ m.type = "order_place" /\ n.type = "order_place"
      BY <2>1, ToGatewayFrames DEF OrderPlaceAck
    <3>. HIDE DEF m, n
    <3>2. v \in Seq(ToGateway) /\ DOMAIN v = {1, 2} /\ v[1] = m /\ v[2] = n
      BY <3>1
    <3>. HIDE DEF v
    <3>3. Heeds(v, o)
      BY <2>1, <3>1, <3>2 DEF Heeds, OrdersFirst, ListsHave
    <3>4. v \o u \in Seq(ToGateway) /\ Heeds(v \o u, o)
      BY <2>2, <3>2, <3>3, HeedsConcat
    <3> QED BY <3>4 DEF v, n
  <2>3. CASE \E s \in {"open", "closed"} : Reply(<<m, OrderPlaceAck(p, s)>> \o Push(p, s))
    <3>1. PICK s \in {"open", "closed"} : Reply(<<m, OrderPlaceAck(p, s)>> \o Push(p, s))
      BY <2>3
    <3>2. Push(p, s) \in Seq(ToGateway) /\ Heeds(Push(p, s), o)
      BY <2>1, PushHeeds
    <3> QED BY <2>2, <3>1, <3>2 DEF Reply
  <2>4. CASE Reply(<<m, OrderPlaceAck(p, "rejected")>>)
    <3>1. <<>> \in Seq(ToGateway) /\ Heeds(<<>>, o)
      BY NoFrames DEF Heeds, OrdersFirst, ListsHave
    <3>2. <<m, OrderPlaceAck(p, "rejected")>> \in Seq(ToGateway)
      BY <2>1, ToGatewayFrames
    <3>3. <<m, OrderPlaceAck(p, "rejected")>> \o <<>> = <<m, OrderPlaceAck(p, "rejected")>>
      BY <3>2
    <3>4. Heeds(<<m, OrderPlaceAck(p, "rejected")>> \o <<>>, o)
      BY <2>2, <3>1
    <3> QED BY <2>4, <3>2, <3>3, <3>4 DEF Reply
  <2> QED BY <1>8, <2>3, <2>4 DEF ExchangeOrderPlace
<1>9. CASE ExchangeOrderCancel
  <2>. DEFINE p == Head(outbox).order
              m(s) == OrderCancelAck(p, s)
  <2>1. "orders" \in subscribed /\ p \in Orders
    BY <1>3, <1>9, RequestedType, RequestForm DEF ExchangeOrderCancel, RequestTypes
  <2>2. ASSUME NEW s \in {"closed", "rejected"} PROVE <<m(s)>> \in Seq(ToGateway) /\ Heeds(<<m(s)>>, o)
    <3>1. m(s) \in ToGateway /\ m(s).type = "order_cancel"
      BY <2>1, ToGatewayFrames DEF OrderCancelAck
    <3> QED BY <2>1, <3>1, OneHeeds
  <2>3. Push(p, "closed") \in Seq(ToGateway) /\ Heeds(Push(p, "closed"), o)
    BY <2>1, PushHeeds
  <2>4. Reply(<<m("closed")>> \o Push(p, "closed")) \/ Reply(<<m("rejected")>>)
    BY <1>9 DEF ExchangeOrderCancel
  <2>5. <<m("closed")>> \o Push(p, "closed") \in Seq(ToGateway) /\ Heeds(<<m("closed")>> \o Push(p, "closed"), o)
    BY <2>2, <2>3, HeedsConcat
  <2> QED BY <2>2, <2>4, <2>5 DEF Reply
<1>10. ASSUME NEW p \in Orders, ExchangeFinish(p)
       PROVE  \E t \in Seq(ToGateway) : inbox' = inbox \o t /\ Heeds(t, o)
  BY <1>10, PushHeeds DEF ExchangeFinish
<1> QED BY <1>4, <1>5, <1>6, <1>7, <1>8, <1>9, <1>10 DEF Exchange

LEMMA InOrderStep ==
    ASSUME IInv, TypeOK', InOrder, Next
    PROVE  InOrder'
<1>1. TypeOK /\ Running /\ outbox \in Seq(ToExchange) /\ inbox \in Seq(ToGateway)
      /\ stale \in SUBSET Orders /\ stale' \in SUBSET Orders
  <2>1. Running
    BY DEF Next, SocketReady, Disconnected, Receive, TradeLogin, TradeSubscribe,
           TradeOrderList, TradeOrderStatus, TradeOrders, TradeOrderPlace, TradeOrderCancel,
           Arrived, Timer, Exchange, ExchangeLogin, ExchangeSubscribe, ExchangeOrderList,
           ExchangeOrderStatus, ExchangeOrderStatusError, ExchangeOrderPlace,
           ExchangeOrderCancel, Requested, CreateOrder, CancelOrder, ExchangeFinish,
           RequestCommit
  <2> QED BY <2>1 DEF IInv, TypeOK
<1>2. CASE SocketReady
  <2>1. outbox' = <<Login>> /\ inbox' = inbox /\ connection_status' = "LOGIN_SENT"
        /\ subscribed' = subscribed
    BY <1>2 DEF SocketReady, venue
  <2>2. DOMAIN outbox' = {1} /\ outbox'[1].type = "login"
    BY <2>1 DEF Login
  <2> QED BY <1>1, <2>1, <2>2 DEF InOrder, OrdersFirst, RequestTypes
<1>3. CASE Disconnected
  <2>1. outbox' = <<>> /\ inbox' = <<>> /\ connection_status' = "DISCONNECTED"
    BY <1>3 DEF Disconnected
  <2> QED BY <2>1 DEF InOrder, OrdersFirst
<1>4. CASE Receive
  BY <1>1, <1>4, ReceiveMoves, MovesInOrder
<1>5. CASE Timer
  <2>1. Moves(stale) /\ subscribed' = subscribed /\ inbox' = inbox
    BY <1>5, TimerMoves DEF Timer, venue
  <2> QED BY <1>1, <2>1, MovesInOrder
<1>6. ASSUME Exchange \/ \E p \in Orders : ExchangeFinish(p) PROVE InOrder'
  <2>1. PICK t \in Seq(ToGateway) : inbox' = inbox \o t /\ Heeds(t, 0)
    BY <1>1, <1>6, ExchangeHeeds
  <2>2. /\ UNCHANGED <<state, connection_status, fatal>>
        /\ subscribed \subseteq subscribed'
        /\ outbox' = outbox \/ (outbox # <<>> /\ outbox' = Tail(outbox))
    BY <1>1, <1>6, ExchangeHeeds
  <2>3. OrdersFirst(inbox \o t)
    BY <1>1, <2>1, OrdersFirstConcat DEF InOrder, Heeds
  <2>4. outbox # <<>> => OrdersFirst(Tail(outbox))
    BY <1>1, OrdersFirstTail DEF InOrder
  <2> QED BY <1>1, <2>1, <2>2, <2>3, <2>4 DEF InOrder, OrdersFirst
<1>7. ASSUME NEW p \in Orders, CreateOrder(p) \/ CancelOrder(p) PROVE InOrder'
  <2>1. PICK m \in ToExchange : outbox' = Append(outbox, m)
    BY <1>7, ToExchangeFrames DEF CreateOrder, CancelOrder
  <2>2. /\ UNCHANGED <<connection_status, state, subscribed, inbox>>
        /\ connection_status = "READY"
    BY <1>7 DEF CreateOrder, CancelOrder, gateway, venue
  <2>3. "orders" \in subscribed
    BY <1>1, <2>2 DEF InOrder, IInv, SessionConsistent, Passed, Channels
  <2> QED BY <1>1, <2>1, <2>2, <2>3 DEF InOrder, OrdersFirst
<1>8. ASSUME NEW k \in Requests, RequestCommit(k) PROVE InOrder'
  BY <1>1, <1>8 DEF RequestCommit, wire, venue, InOrder, OrdersFirst
<1> QED BY <1>2, <1>3, <1>4, <1>5, <1>6, <1>7, <1>8 DEF Next

(* While the download waits for the list, only the list moves it on.       *)
LEMMA ListAwaited ==
    ASSUME IInv, Receive, Running', state = "GET_OPEN_ORDERS", Head(inbox).type # "order_list"
    PROVE  state' = state
<1>1. CASE TradeLogin \/ TradeSubscribe
  <2>1. Awaits(state, Head(inbox)) /\ Head(inbox).type \in {"login", "subscribe"}
    BY <1>1, LastAnswer DEF TradeLogin, TradeSubscribe, ControlTypes, Arrived
  <2> QED BY <2>1 DEF Awaits, SubscribeState
<1>2. CASE TradeOrderStatus
  BY <1>2 DEF TradeOrderStatus, CheckRelaxed, Stay, gateway
<1>3. CASE TradeOrders \/ TradeOrderPlace \/ TradeOrderCancel
  BY <1>3 DEF TradeOrders, TradeOrderPlace, TradeOrderCancel, gateway
<1>4. ~TradeOrderList
  BY DEF TradeOrderList, Arrived
<1> QED BY <1>1, <1>2, <1>3, <1>4 DEF Receive

(* Before the list, the gateway on its own does not go past it.            *)
LEMMA ListAhead ==
    ASSUME IInv, TypeOK', InOrder, Running', state \in BeforeList,
           \/ SocketReady \/ Disconnected \/ Timer
           \/ \E p \in Orders : CreateOrder(p) \/ CancelOrder(p)
           \/ \E k \in Requests : RequestCommit(k)
    PROVE  state' \in BeforeList
<1>1. CASE Timer
  <2>1. CASE state = "GET_OPEN_ORDERS"
    BY <1>1, <2>1 DEF Timer, Answered, RequestState, Stay
  <2>2. CASE state # "GET_OPEN_ORDERS"
    BY <1>1, <2>2, TimerMoves DEF Moves
  <2> QED BY <2>1, <2>2
<1>2. CASE Disconnected
  BY <1>2 DEF Disconnected, Reset, BeforeList
<1>3. CASE SocketReady \/ (\E p \in Orders : CreateOrder(p) \/ CancelOrder(p))
              \/ (\E k \in Requests : RequestCommit(k))
  BY <1>3 DEF SocketReady, CreateOrder, CancelOrder, RequestCommit, gateway
<1> QED BY <1>1, <1>2, <1>3

LEMMA ListedStep ==
    ASSUME IInv, TypeOK', InOrder, NEW o \in Orders, FollowsOrder(o), OpenIsListed(o), [Next]_vars
    PROVE  OpenIsListed(o)'
<1>. SUFFICES ASSUME Running', "order_list" \notin Faults, exch'[o] = "open", oms'[o] = "UNDEFINED"
              PROVE  /\ state' \in BeforeList \/ (AnyNews(inbox, o))'
                     /\ (ListsHave(inbox, o))'
  BY DEF OpenIsListed
<1>1. TypeOK /\ inbox \in Seq(ToGateway) /\ outbox \in Seq(ToExchange)
  BY DEF IInv, TypeOK
<1>2. CASE UNCHANGED vars
  BY <1>2 DEF vars, OpenIsListed, Running, AnyNews, ListsHave
<1>3. ASSUME Next, exch[o] = "open", oms[o] = "UNDEFINED"
      PROVE  /\ state \in BeforeList \/ AnyNews(inbox, o)
             /\ ListsHave(inbox, o) /\ Running
  <2>1. Running
    BY <1>3 DEF Next, SocketReady, Disconnected, Receive, TradeLogin, TradeSubscribe,
           TradeOrderList, TradeOrderStatus, TradeOrders, TradeOrderPlace, TradeOrderCancel,
           Arrived, Timer, Exchange, ExchangeLogin, ExchangeSubscribe, ExchangeOrderList,
           ExchangeOrderStatus, ExchangeOrderStatusError, ExchangeOrderPlace,
           ExchangeOrderCancel, Requested, CreateOrder, CancelOrder, ExchangeFinish,
           RequestCommit
  <2> QED BY <1>3, <2>1 DEF OpenIsListed
<1>4. CASE /\ Next
           /\ \/ SocketReady \/ Disconnected \/ Timer
              \/ \E p \in Orders : CreateOrder(p) \/ CancelOrder(p)
              \/ \E k \in Requests : RequestCommit(k)
  <2>1. CASE Losing(o)
    <3>1. DOMAIN inbox' = {} /\ exch[o] = "open" /\ oms[o] = "UNDEFINED"
      BY <2>1 DEF Losing
    <3>2. state' \in BeforeList
      <4>1. CASE Disconnected
        BY <4>1 DEF Disconnected, Reset, BeforeList
      <4>2. CASE ~Disconnected
        <5>1. inbox' = inbox
          BY <1>4, <4>2 DEF SocketReady, Timer, CreateOrder, CancelOrder, RequestCommit, wire
        <5>2. ~AnyNews(inbox, o)
          BY <3>1, <5>1 DEF AnyNews
        <5> QED BY <1>3, <1>4, <3>1, <5>2, ListAhead
      <4> QED BY <4>1, <4>2
    <3> QED BY <3>1, <3>2 DEF ListsHave
  <2>2. CASE Asking(o)
    <3>1. inbox' = inbox /\ exch[o] = "open" /\ oms[o] = "UNDEFINED"
      BY <2>2 DEF Asking
    <3>2. state \in BeforeList => state' \in BeforeList
      BY <1>4, ListAhead
    <3> QED BY <1>3, <1>4, <3>1, <3>2 DEF AnyNews, ListsHave
  <2>3. ~Creating(o)
    BY DEF Creating
  <2> QED BY <1>4, <2>1, <2>2, <2>3, GatewayKinds
<1>5. CASE Next /\ Receive
  <2>. DEFINE m == Head(inbox)
              r == Tail(inbox)
  <2>1. Hearing(o) /\ Moves(stale') /\ inbox # <<>> /\ inbox' = r
    BY <1>5, ReceiveHears, ReceiveMoves
  <2>2. ~News(m, o) /\ oms[o] = "UNDEFINED" /\ exch[o] = "open"
    BY <2>1 DEF Hearing
  <2>3. /\ state \in BeforeList \/ AnyNews(inbox, o)
        /\ ListsHave(inbox, o)
    BY <1>3, <1>5, <2>2
  <2>4. /\ AnyNews(inbox, o) => AnyNews(r, o)
        /\ m = inbox[1] /\ 1 \in DOMAIN inbox
        /\ \A i \in DOMAIN r : i + 1 \in DOMAIN inbox /\ r[i] = inbox[i + 1]
    BY <1>1, <2>1, <2>2, SomeTail, QueueTail
  <2>. HIDE DEF m, r
  <2>5. ListsHave(r, o)
    BY <2>3, <2>4 DEF ListsHave
  <2>6. m.type # "order_list"
    BY <2>2, <2>3, <2>4 DEF ListsHave, News, Opens
  <2>7. state \in BeforeList => state' \in BeforeList
    BY <1>5, <2>1, <2>6, ListAwaited DEF Moves, m
  <2> QED BY <2>1, <2>3, <2>4, <2>5, <2>7 DEF AnyNews, ListsHave
<1>6. CASE Next /\ (Exchange \/ \E p \in Orders : ExchangeFinish(p))
  <2>1. exch[o] = "open" /\ oms[o] = "UNDEFINED"
    <3>1. oms' = oms
      BY <1>6 DEF Exchange, ExchangeLogin, ExchangeSubscribe, ExchangeOrderList,
                  ExchangeOrderStatus, ExchangeOrderStatusError, ExchangeOrderPlace,
                  ExchangeOrderCancel, ExchangeFinish, Reply, omsVars
    <3>2. ~Placing(o)
      <4>1. Placing(o) => Places(outbox, o)
        BY <1>1, PlacesTail DEF Placing
      <4> QED BY <3>1, <4>1 DEF FollowsOrder, PlacedFirst
    <3>3. ~Closing(o)
      BY DEF Closing
    <3>4. Answering(o)
      BY <1>1, <1>6, <3>2, <3>3, PlaceKinds, CancelKinds, AnswerKinds DEF Exchange
    <3> QED BY <3>1, <3>4 DEF Answering
  <2>2. Running /\ (state \in BeforeList \/ AnyNews(inbox, o)) /\ ListsHave(inbox, o)
    BY <1>3, <1>6, <2>1
  <2>3. PICK t \in Seq(ToGateway) : inbox' = inbox \o t /\ Heeds(t, o)
    BY <1>1, <1>6, <2>2, ExchangeHeeds
  <2>4. state' = state
    BY <1>1, <1>6, <2>2, ExchangeHeeds
  <2>5. AnyNews(inbox, o) => AnyNews(inbox \o t, o)
    BY <1>1, SomeConcat
  <2>6. ListsHave(t, o)
    BY <2>1, <2>3 DEF Heeds
  <2>7. ListsHave(inbox \o t, o)
    <3>1. \A i \in DOMAIN (inbox \o t) :
             \/ i \in DOMAIN inbox /\ (inbox \o t)[i] = inbox[i]
             \/ \E j \in DOMAIN t : i = Len(inbox) + j /\ (inbox \o t)[i] = t[j]
      BY <1>1, QueueConcat
    <3> QED BY <2>2, <2>6, <3>1 DEF ListsHave
  <2> QED BY <2>2, <2>3, <2>4, <2>5, <2>7 DEF AnyNews, ListsHave
<1> QED BY <1>2, <1>4, <1>5, <1>6 DEF Next

-----------------------------------------------------------------------------
(* The invariant, and what it says of the orders.                          *)

LEMMA InitFollows == Init => OrderInv
<1>. SUFFICES ASSUME Init PROVE OrderInv
  OBVIOUS
<1>1. IInv
  BY InitInvariant
<1>2. /\ DOMAIN outbox = {} /\ DOMAIN inbox = {} /\ connection_status = "DISCONNECTED"
      /\ stale = {} /\ state = "UNDEFINED"
      /\ \A o \in Orders : oms[o] = "UNDEFINED" /\ exch[o] \in {"none", "open"}
  BY DEF Init
<1>3. InOrder
  BY <1>2 DEF InOrder, OrdersFirst
<1>4. ASSUME NEW o \in Orders PROVE FollowsOrder(o) /\ OpenIsListed(o)
  <2>1. PlacedFirst(o) /\ Alone(outbox, o) /\ UnknownUnasked(o) /\ Sound(inbox, o, exch[o])
    BY <1>2 DEF PlacedFirst, Places, Alone, UnknownUnasked, AnySends, AnyAbout, Sound
  <2>2. ToldTrue(o) /\ LiveIsFollowed(o) /\ OpenIsListed(o)
    BY <1>2 DEF ToldTrue, LiveIsFollowed, Live, OpenIsListed, BeforeList, ListsHave
  <2> QED BY <2>1, <2>2 DEF FollowsOrder
<1> QED BY <1>1, <1>3, <1>4 DEF OrderInv

LEMMA NextFollowsAll == OrderInv /\ [Next]_vars => OrderInv'
<1>. SUFFICES ASSUME OrderInv, [Next]_vars PROVE OrderInv'
  OBVIOUS
<1>1. IInv /\ InOrder /\ \A o \in Orders : FollowsOrder(o) /\ OpenIsListed(o)
  BY DEF OrderInv
<1>2. IInv' /\ TypeOK'
  BY <1>1, NextInvariant DEF IInv
<1>3. InOrder'
  <2>1. CASE UNCHANGED vars
    BY <1>1, <2>1 DEF vars, InOrder, OrdersFirst, Running
  <2>2. CASE Next
    BY <1>1, <1>2, <2>2, InOrderStep
  <2> QED BY <2>1, <2>2
<1>4. ASSUME NEW o \in Orders PROVE FollowsOrder(o)' /\ OpenIsListed(o)'
  BY <1>1, <1>2, NextFollows, ListedStep
<1> QED BY <1>2, <1>3, <1>4 DEF OrderInv

LEMMA OrdersFollowed == Spec => []OrderInv
<1>1. Init => OrderInv
  BY InitFollows
<1>2. OrderInv /\ [Next]_vars => OrderInv'
  BY NextFollowsAll
<1> QED BY <1>1, <1>2, PTL DEF Spec

LEMMA NewsInFlight ==
    ASSUME TypeOK, NEW o \in Orders, AnyNews(inbox, o) \/ Places(outbox, o)
    PROVE  InFlight(o)
<1>1. CASE AnyNews(inbox, o)
  <2>1. PICK i \in DOMAIN inbox : News(inbox[i], o)
    BY <1>1 DEF AnyNews
  <2>2. inbox[i] \in ToGateway
    BY <2>1 DEF TypeOK
  <2>3. inbox[i].type # "order_list" => "order" \in DOMAIN inbox[i] /\ inbox[i].order = o
    BY <2>1, <2>2 DEF News, Refuses, Opens, Closes, RequestTypes, ToGateway, LoginAck, SubscribeAck,
                      OrderListAck, OrderQueryAck, OrderPlaceAck, OrderCancelAck, OrderUpdate
  <2>4. inbox[i].type = "order_list" => o \in inbox[i].open
    BY <2>1 DEF News, Refuses, Opens, Closes, RequestTypes
  <2> QED BY <2>1, <2>3, <2>4 DEF InFlight
<1>2. CASE Places(outbox, o)
  BY <1>2 DEF Places, OrderPlace, InFlight
<1> QED BY <1>1, <1>2

(* Once the stream is ready, an order that is not reported stale and of    *)
(* which nothing is under way has the status it has at the exchange,       *)
(* whatever happened while the stream was down (drop_copy.cpp, the order   *)
(* list, the search for stale orders and the updates together).            *)
THEOREM OrdersReconciled == Spec => []Reconciled
<1>1. OrderInv => Reconciled
  <2>. SUFFICES ASSUME OrderInv, ready, Running, NEW o \in Orders,
                       oms[o] # "UNDEFINED", o \notin stale, ~InFlight(o)
                PROVE  Agree(oms[o], exch[o])
    BY DEF Reconciled
  <2>1. TypeOK /\ ToldTrue(o) /\ LiveIsFollowed(o)
    BY DEF OrderInv, IInv, FollowsOrder
  <2>2. ~AnyNews(inbox, o) /\ ~Places(outbox, o)
    BY <2>1, NewsInFlight
  <2>3. oms[o] \in OrderStatus \ {"UNDEFINED"}
    BY <2>1 DEF TypeOK
  <2> QED BY <2>1, <2>2, <2>3 DEF ToldTrue, LiveIsFollowed, Live, Agree, OrderStatus
<1> QED BY <1>1, OrdersFollowed, PTL

(* An order that an earlier run left open is known when the stream is      *)
(* ready, if the exchange never refuses the list of the open orders (the   *)
(* handler takes a refused list for an empty one).                         *)
THEOREM LeftOrdersKnown ==
    ASSUME "order_list" \notin Faults
    PROVE  Spec => []OpenOrdersKnown
<1>1. OrderInv => OpenOrdersKnown
  <2>. SUFFICES ASSUME OrderInv, ready, Running, NEW o \in Orders,
                       exch[o] = "open", ~InFlight(o), oms[o] = "UNDEFINED"
                PROVE  FALSE
    BY DEF OpenOrdersKnown
  <2>1. TypeOK /\ OpenIsListed(o) /\ state = "DONE"
    BY DEF OrderInv, IInv, SessionConsistent
  <2>2. ~AnyNews(inbox, o)
    BY <2>1, NewsInFlight
  <2> QED BY <2>1, <2>2 DEF OpenIsListed, BeforeList
<1> QED BY <1>1, OrdersFollowed, PTL

(* No list, answer or update ever brings an order back that the OMS was    *)
(* told is completed or rejected: what comes out of the socket is never    *)
(* older than what came before.                                            *)
THEOREM TerminalNeverRevived == Spec => TerminalIsFinal
<1>1. OrderInv /\ OrderInv' /\ [Next]_vars =>
         [\A o \in Orders : oms[o] \in {"COMPLETED", "REJECTED"} => oms'[o] = oms[o]]_vars
  <2>. SUFFICES ASSUME OrderInv, OrderInv', [Next]_vars,
                       NEW o \in Orders, oms[o] \in {"COMPLETED", "REJECTED"}
                PROVE  oms'[o] = oms[o]
    OBVIOUS
  <2>1. IInv /\ TypeOK' /\ InOrder /\ FollowsOrder(o)
    BY DEF OrderInv, IInv
  <2>2. \/ UNCHANGED vars
        \/ Asking(o) \/ Creating(o) \/ Losing(o) \/ Hearing(o)
        \/ Answering(o) \/ Placing(o) \/ Closing(o)
    BY <2>1, NextFollows
  <2>3. CASE UNCHANGED vars
    BY <2>3 DEF vars
  <2>4. CASE Hearing(o)
    <3>. DEFINE m == Head(inbox)
    <3>1. inbox \in Seq(ToGateway) /\ inbox # <<>> /\ Sound(inbox, o, exch[o]) /\ ToldTrue(o)
      BY <2>1, <2>4 DEF Hearing, IInv, TypeOK, FollowsOrder
    <3>2. m = inbox[1] /\ 1 \in DOMAIN inbox
      BY <3>1, QueueTail
    <3>3. /\ Refuses(m, o) => exch[o] = "none"
          /\ Opens(m, o) => exch[o] # "none"
          /\ Closes(m, o) => exch[o] = "closed"
      BY <3>1, SoundTail
    <3>. HIDE DEF m
    <3>4. \/ oms'[o] = oms[o]
          \/ Refuses(m, o) /\ oms'[o] = "REJECTED"
          \/ Opens(m, o) /\ oms'[o] = "WORKING"
          \/ Closes(m, o) /\ oms'[o] = "COMPLETED"
      BY <2>4 DEF Hearing, m
    <3> QED BY <3>1, <3>2, <3>3, <3>4 DEF ToldTrue
  <2>5. CASE Asking(o) \/ Creating(o) \/ Losing(o) \/ Answering(o) \/ Placing(o) \/ Closing(o)
    BY <2>5 DEF Asking, Creating, Losing, Answering, Placing, Closing, Speaking
  <2> QED BY <2>2, <2>3, <2>4, <2>5
<1> QED BY <1>1, OrdersFollowed, PTL DEF Spec, TerminalIsFinal

(* The download asks for the trades only when every stale order it asked   *)
(* about was answered.                                                     *)
THEOREM StaleResolvedFirst == Spec => StaleBeforeTrades
<1>1. TypeOK /\ [Next]_vars =>
         [(state # state' /\ state' = "SUBSCRIBE_TRADES") => counter' = 0]_vars
  <2>. SUFFICES ASSUME TypeOK, Next, state # state', state' = "SUBSCRIBE_TRADES"
                PROVE  counter' = 0
    BY DEF vars
  <2>1. ASSUME NEW s \in State, NEW n, NextState(s, n) = "SUBSCRIBE_TRADES"
        PROVE  s = "GET_STALE_ORDERS" \/ (s = "GET_OPEN_ORDERS" /\ n = 0)
    BY <2>1 DEF NextState, Skipped, Successor, State
  <2>2. ASSUME NEW s \in State, NEW n, NEW q, MoveOn(s, n, q)
        PROVE  s = "GET_STALE_ORDERS" \/ (s = "GET_OPEN_ORDERS" /\ n = 0)
    BY <2>1, <2>2 DEF MoveOn
  <2>3. CASE TradeLogin
    BY <2>2, <2>3 DEF TradeLogin, gateway, State
  <2>4. CASE TradeSubscribe
    <3>1. PICK s \in DOMAIN SubscribeState : Check(s, counter) \/ state' = state
      <4>1. Head(inbox).channel \in Channels
        BY <2>4, ArrivedType, ToGatewayType DEF TradeSubscribe
      <4>2. \E s \in DOMAIN SubscribeState : SubscribeState[s] = Head(inbox).channel
        BY <4>1 DEF SubscribeState, Channels
      <4> QED BY <2>4, <4>2 DEF TradeSubscribe, gateway
    <3> QED BY <2>2, <3>1 DEF Check, SubscribeState, State
  <2>5. CASE TradeOrderList
    BY <2>2, <2>5 DEF TradeOrderList, CheckRelaxed, Stay, State
  <2>6. CASE TradeOrderStatus
    BY <2>6 DEF TradeOrderStatus, Stay, gateway
  <2>7. CASE Timer
    BY <2>2, <2>7 DEF Timer, Answered, RequestState, Stay, TypeOK
  <2>8. CASE ~(TradeLogin \/ TradeSubscribe \/ TradeOrderList \/ TradeOrderStatus \/ Timer)
    BY <2>8 DEF Next, SocketReady, Disconnected, Reset, Receive, TradeOrders, TradeOrderPlace,
                TradeOrderCancel, Exchange, ExchangeLogin, ExchangeSubscribe, ExchangeOrderList,
                ExchangeOrderStatus, ExchangeOrderStatusError, ExchangeOrderPlace,
                ExchangeOrderCancel, Reply, CreateOrder, CancelOrder, ExchangeFinish,
                RequestCommit, gateway
  <2> QED BY <2>3, <2>4, <2>5, <2>6, <2>7, <2>8
<1> QED BY <1>1, TypeCorrect, PTL DEF Spec, StaleBeforeTrades
=============================================================================
