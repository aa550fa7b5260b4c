------------------------ MODULE OrderRequestsProofs ------------------------
(***************************************************************************)
(* Every request gets one answer and the answer is true: for any orders,   *)
(* contracts, number of cancel-alls and frames under way.                  *)
(***************************************************************************)
EXTENDS OrderRequests, FiniteSetTheorems, SequenceTheorems, TLAPS

-----------------------------------------------------------------------------
(* The frames of each direction.                                           *)

Of(t) == [type : {t}, order : Orders]

ToExchange ==
    [channel : {"order_place"}, request : Of("CREATE_ORDER")]
    \cup [channel : {"order_amend"}, request : Of("MODIFY_ORDER")]
    \cup [channel : {"order_cancel"}, request : Of("CANCEL_ORDER")]
    \cup [channel : {"order_cancel_cp"}, request : CancelAllRequest, symbol : Symbols]

AnswerTo(c, t) ==
    [channel : {c}, request : Of(t), status : {200, 400}, text : Orders \cup {NoOrder},
     order_status : {"none", "open", "closed"}]

ToGateway ==
    AnswerTo("order_place", "CREATE_ORDER")
    \cup AnswerTo("order_amend", "MODIFY_ORDER")
    \cup AnswerTo("order_cancel", "CANCEL_ORDER")
    \cup [channel : {"order_cancel_cp"}, request : CancelAllRequest, symbol : Symbols,
          status : {200, 400}]
    \cup [channel : {"orders"}, text : Orders, order_status : {"open", "closed"}]

Responses == [type : RequestType \cup {"CANCEL_ALL_ORDERS"}, status : RequestStatus]

(* It says only that the request to create an order was received.          *)
Received(m) == m.channel = "order_place" /\ m.status = 200 /\ m.text = NoOrder

(* The answers to a frame.                                                 *)
Answers(f) ==
    {m \in ToGateway :
        /\ m.channel = f.channel /\ m.request = f.request /\ ~Received(m)
        /\ m.channel = "order_cancel_cp" => m.symbol = f.symbol}

None(s, S) == \A i \in DOMAIN s : s[i] \notin S

AtMostOne(s, S) == \A i, j \in DOMAIN s : s[i] \in S /\ s[j] \in S => i = j

(* The frames whose request has no answer yet.                             *)
Awaited ==
    {f \in ToExchange :
        /\ f.request \in asked
        /\ IF f.channel = "order_cancel_cp"
           THEN f.symbol \in pending[f.request.number]
           ELSE responses[f.request] = <<>>}

-----------------------------------------------------------------------------
(* The inductive invariant.                                                *)

Types ==
    /\ socket \in {"up", "down"}
    /\ asked \subseteq Request
    /\ exch \in [Orders -> {"none", "open", "closed"}]
    /\ oms \in [Orders -> {"none", "live", "finished"}]
    /\ pending \in [CancelAlls -> SUBSET Symbols]
    /\ covered \in [CancelAlls -> SUBSET Orders]
    /\ outbox \in Seq(ToExchange)
    /\ inbox \in Seq(ToGateway)
    /\ responses \in [Request -> Seq(Responses)]

(* Only what was asked is under way or answered.                           *)
OnlyAsked ==
    /\ \A i \in DOMAIN inbox : inbox[i].channel # "orders" => inbox[i].request \in asked
    /\ \A r \in Request : r \notin asked => responses[r] = <<>>
    /\ \A o \in Orders : RequestId("CREATE_ORDER", o) \in asked <=> oms[o] # "none"

(* Of a request without an answer one frame is under way, or its answer;   *)
(* of one with an answer nothing is.                                       *)
OneUnderWay ==
    \A f \in ToExchange :
        /\ AtMostOne(outbox, {f}) /\ AtMostOne(inbox, Answers(f))
        /\ None(outbox, {f}) \/ None(inbox, Answers(f))
        /\ f \notin Awaited => None(outbox, {f}) /\ None(inbox, Answers(f))

PlaceOf(o) == OrderFrame("order_place", RequestId("CREATE_ORDER", o))

(* The orders that are not open and will not be.                           *)
Settled == {o \in Orders : exch[o] # "open" /\ None(outbox, {PlaceOf(o)})}

(* What a frame from the exchange says is true of the orders there (e),    *)
(* when a cancel-all covers those of c and those of S are settled.         *)
IsTrue(m, e, c, S) ==
    /\ m.channel = "orders" =>
          /\ e[m.text] # "none"
          /\ m.order_status = "closed" => e[m.text] = "closed"
    /\ (m.channel \in {"order_place", "order_amend", "order_cancel"} /\ m.status = 200
        /\ ~Received(m)) =>
          /\ m.text = m.request.order
          /\ e[m.text] # "none"
          /\ (m.channel = "order_cancel" \/ m.order_status = "closed") => e[m.text] = "closed"
    /\ m.channel = "order_place" /\ m.status # 200 => e[m.request.order] = "none"
    /\ m.channel = "order_cancel_cp" /\ m.status = 200 =>
          \A o \in c[m.request.number] : SymbolOf[o] = m.symbol => o \in S

InboxIsTrue == \A i \in DOMAIN inbox : IsTrue(inbox[i], exch, covered, Settled)

(* An order gets to the exchange once, and the OMS knows of it before.     *)
OrdersAgree ==
    \A o \in Orders :
        /\ exch[o] # "none" => oms[o] # "none" /\ None(outbox, {PlaceOf(o)})
        /\ oms[o] = "finished" => o \in Settled

(* Frames to cancel a symbol follow those that create its orders.          *)
Behind(s, f, g) == \A i, j \in DOMAIN s : s[i] = f /\ s[j] = g => j < i

CancelAllFollows ==
    \A n \in CancelAlls : \A o \in covered[n] :
        /\ oms[o] # "none"
        /\ Behind(outbox, CancelFrame(CancelAllId(n), SymbolOf[o]), PlaceOf(o))
        /\ SymbolOf[o] \notin pending[n] =>
              Got(CancelAllId(n), "CANCEL_ALL_ORDERS", "REJECTED") \/ o \in Settled

IInv ==
    /\ Types /\ OnlyAsked /\ OneUnderWay /\ InboxIsTrue /\ OrdersAgree /\ CancelAllFollows
    /\ AnsweredOnce /\ AnswersAreTrue

-----------------------------------------------------------------------------
(* Sequences of frames.                                                    *)

LEMMA NoneOf ==
    ASSUME NEW S, NEW s \in Seq(S), NEW t \in Seq(S), NEW K
    PROVE  None(s \o t, K) <=> None(s, K) /\ None(t, K)
<1>1. \A i \in DOMAIN s : i \in DOMAIN (s \o t) /\ (s \o t)[i] = s[i]
  OBVIOUS
<1>2. \A i \in DOMAIN t : i + Len(s) \in DOMAIN (s \o t) /\ (s \o t)[i + Len(s)] = t[i]
  OBVIOUS
<1>3. \A i \in DOMAIN (s \o t) :
         \/ i \in DOMAIN s /\ (s \o t)[i] = s[i]
         \/ i - Len(s) \in DOMAIN t /\ (s \o t)[i] = t[i - Len(s)]
  OBVIOUS
<1> QED
  BY <1>1, <1>2, <1>3 DEF None

LEMMA OneOf ==
    ASSUME NEW S, NEW s \in Seq(S), NEW t \in Seq(S), NEW K,
           AtMostOne(s, K), AtMostOne(t, K), None(s, K) \/ None(t, K)
    PROVE  AtMostOne(s \o t, K)
<1>1. \A i \in DOMAIN (s \o t) :
         /\ i \in DOMAIN s => (s \o t)[i] = s[i]
         /\ i \notin DOMAIN s => i - Len(s) \in DOMAIN t /\ (s \o t)[i] = t[i - Len(s)]
  OBVIOUS
<1>2. SUFFICES ASSUME NEW i \in DOMAIN (s \o t), NEW j \in DOMAIN (s \o t),
                      (s \o t)[i] \in K, (s \o t)[j] \in K
               PROVE  i = j
  BY DEF AtMostOne
<1>3. i \in Int /\ j \in Int /\ Len(s) \in Int
  OBVIOUS
<1>4. CASE None(s, K)
  <2>1. i \notin DOMAIN s /\ j \notin DOMAIN s
    BY <1>1, <1>2, <1>4 DEF None
  <2>2. i - Len(s) = j - Len(s)
    BY <1>1, <1>2, <2>1 DEF AtMostOne
  <2> QED
    BY <1>3, <2>2
<1>5. CASE None(t, K)
  <2>1. i \in DOMAIN s /\ j \in DOMAIN s
    BY <1>1, <1>2, <1>5 DEF None
  <2> QED
    BY <1>1, <1>2, <2>1 DEF AtMostOne
<1> QED
  BY <1>4, <1>5

LEMMA TailOf ==
    ASSUME NEW S, NEW s \in Seq(S), s # <<>>
    PROVE  /\ Head(s) \in S /\ Tail(s) \in Seq(S) /\ 1 \in DOMAIN s /\ s[1] = Head(s)
           /\ \A i \in DOMAIN Tail(s) : i + 1 \in DOMAIN s /\ Tail(s)[i] = s[i + 1]
           /\ \A i \in DOMAIN s : i # 1 => i - 1 \in DOMAIN Tail(s) /\ Tail(s)[i - 1] = s[i]
           /\ \A K : None(s, K) <=> Head(s) \notin K /\ None(Tail(s), K)
           /\ \A K : AtMostOne(s, K) =>
                 AtMostOne(Tail(s), K) /\ (Head(s) \in K => None(Tail(s), K))
<1>1. Head(s) \in S /\ Tail(s) \in Seq(S) /\ 1 \in DOMAIN s /\ s[1] = Head(s)
  OBVIOUS
<1>2. \A i \in DOMAIN Tail(s) : i \in Nat \ {0} /\ i + 1 \in DOMAIN s /\ Tail(s)[i] = s[i + 1]
  OBVIOUS
<1>3. \A i \in DOMAIN s : i # 1 => i - 1 \in DOMAIN Tail(s) /\ Tail(s)[i - 1] = s[i]
  OBVIOUS
<1>4. ASSUME NEW K PROVE None(s, K) <=> Head(s) \notin K /\ None(Tail(s), K)
  BY <1>1, <1>2, <1>3 DEF None
<1>5. ASSUME NEW K, AtMostOne(s, K)
      PROVE  AtMostOne(Tail(s), K) /\ (Head(s) \in K => None(Tail(s), K))
  <2>1. ASSUME NEW i \in DOMAIN Tail(s), NEW j \in DOMAIN Tail(s),
               Tail(s)[i] \in K, Tail(s)[j] \in K
        PROVE  i = j
    <3>1. i + 1 = j + 1
      BY <1>2, <1>5, <2>1 DEF AtMostOne
    <3> QED
      BY <1>2, <3>1
  <2>2. ASSUME Head(s) \in K, NEW i \in DOMAIN Tail(s), Tail(s)[i] \in K
        PROVE  FALSE
    <3>1. i + 1 = 1
      BY <1>1, <1>2, <1>5, <2>2 DEF AtMostOne
    <3> QED
      BY <1>2, <3>1
  <2> QED
    BY <2>1, <2>2 DEF AtMostOne, None
<1> QED
  BY <1>1, <1>2, <1>3, <1>4, <1>5

LEMMA BehindOf ==
    ASSUME NEW S, NEW s \in Seq(S), NEW f, NEW g, f # g, Behind(s, f, g)
    PROVE  /\ \A t \in Seq(S) : None(t, {g}) => Behind(s \o t, f, g)
           /\ s # <<>> => Behind(Tail(s), f, g) /\ (Head(s) = f => None(s, {g}))
<1>1. ASSUME NEW t \in Seq(S), None(t, {g}) PROVE Behind(s \o t, f, g)
  <2>1. \A i \in DOMAIN (s \o t) :
           /\ i \in Int
           /\ i \in DOMAIN s => (s \o t)[i] = s[i] /\ i <= Len(s)
           /\ i \notin DOMAIN s => i - Len(s) \in DOMAIN t /\ (s \o t)[i] = t[i - Len(s)] /\ i > Len(s)
    OBVIOUS
  <2>2. SUFFICES ASSUME NEW i \in DOMAIN (s \o t), NEW j \in DOMAIN (s \o t),
                        (s \o t)[i] = f, (s \o t)[j] = g
                 PROVE  j < i
    BY DEF Behind
  <2>3. j \in DOMAIN s
    BY <1>1, <2>1, <2>2 DEF None
  <2>4. CASE i \in DOMAIN s
    BY <2>1, <2>2, <2>3, <2>4 DEF Behind
  <2>5. CASE i \notin DOMAIN s
    <3>1. Len(s) \in Int
      OBVIOUS
    <3> QED
      BY <2>1, <2>3, <2>5, <3>1
  <2> QED
    BY <2>4, <2>5
<1>2. ASSUME s # <<>> PROVE Behind(Tail(s), f, g) /\ (Head(s) = f => None(s, {g}))
  <2>1. \A i \in DOMAIN Tail(s) : i \in Nat \ {0} /\ i + 1 \in DOMAIN s /\ Tail(s)[i] = s[i + 1]
    BY <1>2
  <2>2. Behind(Tail(s), f, g)
    BY <2>1 DEF Behind
  <2>3. 1 \in DOMAIN s /\ s[1] = Head(s) /\ \A j \in DOMAIN s : j \in Nat \ {0}
    BY <1>2
  <2>4. Head(s) = f => None(s, {g})
    BY <2>3 DEF Behind, None
  <2> QED
    BY <2>2, <2>4
<1> QED
  BY <1>1, <1>2

-----------------------------------------------------------------------------
(* One frame under way.                                                    *)

(* The first frame that arrived is handled: what it answers is answered.   *)
LEMMA HandledLeavesOne ==
    ASSUME Types, OneUnderWay, inbox # <<>>, inbox' = Tail(inbox), outbox' = outbox,
           \A f \in Awaited : Head(inbox) \in Answers(f) \/ f \in Awaited'
    PROVE  OneUnderWay'
<1>1. SUFFICES ASSUME NEW f \in ToExchange
               PROVE  /\ AtMostOne(outbox, {f}) /\ AtMostOne(Tail(inbox), Answers(f))
                      /\ None(outbox, {f}) \/ None(Tail(inbox), Answers(f))
                      /\ f \notin Awaited' => None(outbox, {f}) /\ None(Tail(inbox), Answers(f))
  BY DEF OneUnderWay
<1> DEFINE K == Answers(f)
<1>2. inbox \in Seq(ToGateway)
  BY DEF Types
<1> HIDE DEF K
<1>3. /\ None(inbox, K) <=> Head(inbox) \notin K /\ None(Tail(inbox), K)
      /\ AtMostOne(inbox, K) =>
            AtMostOne(Tail(inbox), K) /\ (Head(inbox) \in K => None(Tail(inbox), K))
  BY <1>2, TailOf
<1>4. /\ AtMostOne(outbox, {f}) /\ AtMostOne(inbox, K)
      /\ None(outbox, {f}) \/ None(inbox, K)
      /\ f \notin Awaited => None(outbox, {f}) /\ None(inbox, K)
  BY DEF OneUnderWay, K
<1>5. f \in Awaited => Head(inbox) \in K \/ f \in Awaited'
  BY DEF K
<1> QED
  BY <1>3, <1>4, <1>5 DEF K

(* The exchange answers the first frame that was sent, and no other.       *)
LEMMA ReplyLeavesOne ==
    ASSUME Types, OneUnderWay, outbox # <<>>, NEW frames \in Seq(ToGateway), Reply(frames),
           AtMostOne(frames, Answers(Head(outbox))),
           \A g \in ToExchange : g # Head(outbox) => None(frames, Answers(g))
    PROVE  OneUnderWay'
<1>1. Awaited' = Awaited /\ outbox' = Tail(outbox) /\ inbox' = inbox \o frames
  BY DEF Reply, Awaited
<1>2. SUFFICES ASSUME NEW f \in ToExchange
               PROVE  /\ AtMostOne(Tail(outbox), {f}) /\ AtMostOne(inbox \o frames, Answers(f))
                      /\ None(Tail(outbox), {f}) \/ None(inbox \o frames, Answers(f))
                      /\ f \notin Awaited =>
                            None(Tail(outbox), {f}) /\ None(inbox \o frames, Answers(f))
  BY <1>1 DEF OneUnderWay
<1> DEFINE K == Answers(f)
<1>3. outbox \in Seq(ToExchange) /\ inbox \in Seq(ToGateway)
  BY DEF Types
<1>4. AtMostOne(frames, K) /\ (f # Head(outbox) => None(frames, K))
  <2>1. None(frames, K) => AtMostOne(frames, K)
    BY DEF None, AtMostOne
  <2> QED
    BY <2>1
<1> HIDE DEF K
<1>5. /\ None(outbox, {f}) <=> Head(outbox) \notin {f} /\ None(Tail(outbox), {f})
      /\ AtMostOne(outbox, {f}) =>
            AtMostOne(Tail(outbox), {f}) /\ (Head(outbox) \in {f} => None(Tail(outbox), {f}))
  BY <1>3, TailOf
<1>6. /\ None(inbox \o frames, K) <=> None(inbox, K) /\ None(frames, K)
      /\ AtMostOne(inbox, K) /\ (None(inbox, K) \/ None(frames, K))
            => AtMostOne(inbox \o frames, K)
  BY <1>3, <1>4, NoneOf, OneOf
<1>7. /\ AtMostOne(outbox, {f}) /\ AtMostOne(inbox, K)
      /\ None(outbox, {f}) \/ None(inbox, K)
      /\ f \notin Awaited => None(outbox, {f}) /\ None(inbox, K)
  BY DEF OneUnderWay, K
<1>8. CASE f = Head(outbox)
  BY <1>5, <1>6, <1>7, <1>8 DEF K
<1>9. CASE f # Head(outbox)
  BY <1>4, <1>5, <1>6, <1>7, <1>9 DEF K
<1> QED
  BY <1>8, <1>9

(* Frames for what was not awaited are sent once each.                     *)
LEMMA SendLeavesOne ==
    ASSUME Types, OneUnderWay, NEW frames \in Seq(ToExchange), Send(frames), inbox' = inbox,
           Awaited \subseteq Awaited',
           \A f \in ToExchange :
              /\ AtMostOne(frames, {f})
              /\ None(frames, {f}) \/ (f \notin Awaited /\ f \in Awaited')
    PROVE  OneUnderWay'
<1>1. outbox' = outbox \o frames
  BY DEF Send
<1>2. SUFFICES ASSUME NEW f \in ToExchange
               PROVE  /\ AtMostOne(outbox \o frames, {f}) /\ AtMostOne(inbox, Answers(f))
                      /\ None(outbox \o frames, {f}) \/ None(inbox, Answers(f))
                      /\ f \notin Awaited' => None(outbox \o frames, {f}) /\ None(inbox, Answers(f))
  BY <1>1 DEF OneUnderWay
<1>3. outbox \in Seq(ToExchange)
  BY DEF Types
<1>4. AtMostOne(frames, {f}) /\ (None(frames, {f}) \/ (f \notin Awaited /\ f \in Awaited'))
  OBVIOUS
<1>5. /\ None(outbox \o frames, {f}) <=> None(outbox, {f}) /\ None(frames, {f})
      /\ AtMostOne(outbox, {f}) /\ (None(outbox, {f}) \/ None(frames, {f}))
            => AtMostOne(outbox \o frames, {f})
  BY <1>3, <1>4, NoneOf, OneOf
<1>6. /\ AtMostOne(outbox, {f}) /\ AtMostOne(inbox, Answers(f))
      /\ None(outbox, {f}) \/ None(inbox, Answers(f))
      /\ f \notin Awaited => None(outbox, {f}) /\ None(inbox, Answers(f))
  BY DEF OneUnderWay
<1> QED
  BY <1>4, <1>5, <1>6

-----------------------------------------------------------------------------
(* The orders at the exchange.                                             *)

(* An order gets there by its first frame only, and once closed it stays   *)
(* closed; and a frame to create it is sent only if the OMS has none.      *)
Steady ==
    \A o \in Orders :
        /\ exch[o] # "none" => exch'[o] # "none"
        /\ exch[o] = "closed" => exch'[o] = "closed"
        /\ None(outbox, {PlaceOf(o)}) /\ exch[o] = "none" => exch'[o] = "none"
        /\ None(outbox, {PlaceOf(o)}) /\ oms[o] # "none" => None(outbox', {PlaceOf(o)})

LEMMA SettledStays ==
    ASSUME Types, Steady, NEW o \in Settled, oms[o] # "none"
    PROVE  o \in Settled'
<1>1. o \in Orders /\ exch[o] \in {"none", "closed"} /\ None(outbox, {PlaceOf(o)})
  BY DEF Types, Settled
<1>2. exch'[o] # "open"
  BY <1>1 DEF Steady
<1>3. None(outbox', {PlaceOf(o)})
  BY <1>1 DEF Steady
<1> QED
  BY <1>1, <1>2, <1>3 DEF Settled

(* What a frame says stays true.                                           *)
LEMMA TrueStays ==
    ASSUME Types, OnlyAsked, OneUnderWay, CancelAllFollows, Steady,
           \A n \in CancelAlls : CancelAllId(n) \in asked => covered'[n] = covered[n],
           NEW i \in DOMAIN inbox, IsTrue(inbox[i], exch, covered, Settled)
    PROVE  IsTrue(inbox[i], exch', covered', Settled')
<1> DEFINE m == inbox[i]
<1>1. m \in ToGateway /\ (m.channel # "orders" => m.request \in asked)
  BY DEF Types, OnlyAsked
<1>2. IsTrue(m, exch, covered, Settled)
  OBVIOUS
<1> HIDE DEF m
<1>3. CASE m.channel = "orders"
  <2>1. m.text \in Orders
    BY <1>1, <1>3 DEF ToGateway, AnswerTo
  <2> QED
    BY <1>2, <1>3, <2>1 DEF IsTrue, Steady, m
<1>4. CASE m.channel \in {"order_place", "order_amend", "order_cancel"} /\ m.status = 200
  <2>1. m.text \in Orders \/ Received(m)
    <3>1. m.request.order \in Orders
      BY <1>1, <1>4 DEF ToGateway, AnswerTo, Of
    <3> QED
      BY <1>2, <1>4, <3>1 DEF IsTrue
  <2> QED
    BY <1>2, <1>4, <2>1 DEF IsTrue, Steady, m
<1>5. CASE m.channel = "order_place" /\ m.status # 200
  <2> DEFINE o == m.request.order
  <2>1. o \in Orders /\ m.request = RequestId("CREATE_ORDER", o)
    BY <1>1, <1>5 DEF ToGateway, AnswerTo, Of, RequestId
  <2>2. PlaceOf(o) \in ToExchange
    BY <2>1 DEF ToExchange, PlaceOf, OrderFrame, RequestId, Of
  <2>3. m \in Answers(PlaceOf(o))
    BY <1>1, <1>5, <2>1 DEF Answers, PlaceOf, OrderFrame, Received
  <2>4. ~None(inbox, Answers(PlaceOf(o)))
    BY <2>3 DEF None, m
  <2>5. None(outbox, {PlaceOf(o)})
    BY <2>2, <2>4 DEF OneUnderWay
  <2>6. exch[o] = "none"
    BY <1>2, <1>5 DEF IsTrue
  <2>7. exch'[o] = "none"
    BY <2>1, <2>5, <2>6 DEF Steady
  <2> QED
    BY <1>5, <2>7 DEF IsTrue, m
<1>6. CASE m.channel = "order_cancel_cp"
  <2> DEFINE n == m.request.number
  <2>1. n \in CancelAlls /\ m.request = CancelAllId(n)
    BY <1>1, <1>6 DEF ToGateway, AnswerTo, CancelAllRequest, CancelAllId
  <2>2. covered'[n] = covered[n]
    BY <1>1, <1>6, <2>1
  <2>3. \A o \in covered[n] : oms[o] # "none"
    BY <2>1 DEF CancelAllFollows
  <2>4. \A o \in covered[n] : o \in Settled => o \in Settled'
    BY <2>3, SettledStays
  <2> QED
    BY <1>2, <1>6, <2>2, <2>4 DEF IsTrue, m
<1>7. m.channel \in {"orders", "order_place", "order_amend", "order_cancel", "order_cancel_cp"}
  BY <1>1 DEF ToGateway, AnswerTo
<1>8. CASE m.channel \in {"order_amend", "order_cancel"} /\ m.status # 200
  BY <1>8 DEF IsTrue, m
<1> QED
  BY <1>3, <1>4, <1>5, <1>6, <1>7, <1>8

-----------------------------------------------------------------------------
(* What frames carry.                                                      *)

LEMMA FrameFields ==
    ASSUME NEW f \in ToExchange
    PROVE  /\ f.request \in Request
           /\ f.channel # "order_cancel_cp" =>
                 /\ f.request \in OrderRequest
                 /\ f = [channel |-> f.channel, request |-> f.request]
           /\ f.channel = "order_cancel_cp" =>
                 /\ f.request.number \in CancelAlls
                 /\ f.request = CancelAllId(f.request.number)
                 /\ f.symbol \in Symbols /\ f = CancelFrame(f.request, f.symbol)
           /\ f.request.type =
                 CASE f.channel = "order_place" -> "CREATE_ORDER"
                   [] f.channel = "order_amend" -> "MODIFY_ORDER"
                   [] f.channel = "order_cancel" -> "CANCEL_ORDER"
                   [] f.channel = "order_cancel_cp" -> "CANCEL_ALL_ORDERS"
           /\ f.channel \in {"order_place", "order_amend", "order_cancel", "order_cancel_cp"}
BY DEF ToExchange, Of, Request, OrderRequest, RequestType, CancelAllRequest, CancelAllId, CancelFrame

(* An order request has one frame.                                         *)
LEMMA OneFrame ==
    ASSUME NEW f \in ToExchange, NEW g \in ToExchange, f.request = g.request,
           f.channel # "order_cancel_cp"
    PROVE  f = g
<1>1. f.request.type = g.request.type
  OBVIOUS
<1>2. f.channel = g.channel
  BY <1>1, FrameFields
<1>3. f = [channel |-> f.channel, request |-> f.request]
  BY FrameFields
<1>4. g = [channel |-> g.channel, request |-> g.request]
  BY <1>2, FrameFields
<1> QED
  BY <1>2, <1>3, <1>4

LEMMA PlaceFrame ==
    ASSUME NEW o \in Orders
    PROVE  /\ PlaceOf(o) \in ToExchange
           /\ PlaceOf(o).channel = "order_place"
           /\ PlaceOf(o).request = RequestId("CREATE_ORDER", o)
           /\ RequestId("CREATE_ORDER", o) \in OrderRequest
           /\ RequestId("CREATE_ORDER", o).order = o
           /\ \A p \in Orders : PlaceOf(o) = PlaceOf(p) => o = p
BY DEF PlaceOf, OrderFrame, RequestId, ToExchange, Of, OrderRequest, RequestType

LEMMA CancelFrames ==
    ASSUME NEW n \in CancelAlls, NEW s \in Symbols
    PROVE  /\ CancelFrame(CancelAllId(n), s) \in ToExchange
           /\ CancelFrame(CancelAllId(n), s).channel = "order_cancel_cp"
           /\ CancelFrame(CancelAllId(n), s).request = CancelAllId(n)
           /\ CancelFrame(CancelAllId(n), s).symbol = s
           /\ CancelAllId(n).number = n /\ CancelAllId(n) \in CancelAllRequest
           /\ CancelAllId(n) \in Request
BY DEF CancelFrame, CancelAllId, ToExchange, CancelAllRequest, Request

(* While an order is on its way it is not at the exchange, the OMS has it, *)
(* and there is no answer.                                                 *)
LEMMA OnItsWay ==
    ASSUME Types, OnlyAsked, OneUnderWay, OrdersAgree, NEW o \in Orders,
           ~None(outbox, {PlaceOf(o)})
    PROVE  exch[o] = "none" /\ oms[o] # "none" /\ responses[RequestId("CREATE_ORDER", o)] = <<>>
<1>1. PlaceOf(o) \in Awaited
  BY PlaceFrame DEF OneUnderWay
<1>2. RequestId("CREATE_ORDER", o) \in asked /\ responses[RequestId("CREATE_ORDER", o)] = <<>>
  BY <1>1, PlaceFrame DEF Awaited
<1> QED
  BY <1>2 DEF OnlyAsked, OrdersAgree

-----------------------------------------------------------------------------
(* A step of the exchange.                                                 *)
LEMMA ExchangeStep ==
    ASSUME IInv, Steady, OneUnderWay',
           exch' \in [Orders -> {"none", "open", "closed"}],
           UNCHANGED <<socket, asked, oms, responses, pending, covered>>,
           outbox' = outbox \/ (outbox # <<>> /\ outbox' = Tail(outbox)),
           \A o \in Orders : exch[o] = "none" /\ exch'[o] # "none" =>
              oms[o] # "none" /\ None(outbox', {PlaceOf(o)}),
           NEW frames \in Seq(ToGateway), inbox' = inbox \o frames,
           \A i \in DOMAIN frames :
              /\ frames[i].channel # "orders" => frames[i].request \in asked
              /\ IsTrue(frames[i], exch', covered, Settled')
    PROVE  IInv'
<1>1. Types /\ OnlyAsked /\ OneUnderWay /\ InboxIsTrue /\ OrdersAgree /\ CancelAllFollows
      /\ AnsweredOnce /\ AnswersAreTrue
  BY DEF IInv
<1>2. outbox \in Seq(ToExchange) /\ inbox \in Seq(ToGateway)
  BY <1>1 DEF Types
<1>3. outbox' \in Seq(ToExchange) /\ inbox' \in Seq(ToGateway)
  <2>1. outbox # <<>> => Tail(outbox) \in Seq(ToExchange)
    BY <1>2, TailOf
  <2>2. inbox \o frames \in Seq(ToGateway)
    BY <1>2, ConcatProperties
  <2> QED
    BY <1>2, <2>1, <2>2
<1>4. \A i \in DOMAIN inbox' :
         \/ i \in DOMAIN inbox /\ inbox'[i] = inbox[i]
         \/ i - Len(inbox) \in DOMAIN frames /\ inbox'[i] = frames[i - Len(inbox)]
  BY <1>2
<1>5. Types'
  BY <1>1, <1>3 DEF Types
<1>6. OnlyAsked'
  BY <1>1, <1>4 DEF OnlyAsked
<1>7. InboxIsTrue'
  <2>1. \A i \in DOMAIN inbox : IsTrue(inbox[i], exch', covered', Settled')
    BY <1>1, TrueStays DEF InboxIsTrue
  <2>2. \A i \in DOMAIN inbox' : IsTrue(inbox'[i], exch', covered', Settled')
    BY <1>4, <2>1
  <2> QED
    BY <2>2 DEF InboxIsTrue
<1>8. \A o \in Orders : oms[o] # "none" /\ o \in Settled => o \in Settled'
  BY <1>1, SettledStays
<1>9. OrdersAgree'
  <2>1. \A o \in Orders : exch'[o] # "none" => oms[o] # "none" /\ None(outbox', {PlaceOf(o)})
    BY <1>1 DEF Steady, OrdersAgree
  <2>2. \A o \in Orders : oms[o] = "finished" => o \in Settled'
    BY <1>1, <1>8 DEF OrdersAgree
  <2> QED
    BY <2>1, <2>2 DEF OrdersAgree
<1>10. CancelAllFollows'
  <2>1. ASSUME NEW n \in CancelAlls, NEW o \in covered[n]
        PROVE  /\ oms[o] # "none"
               /\ Behind(outbox', CancelFrame(CancelAllId(n), SymbolOf[o]), PlaceOf(o))
               /\ SymbolOf[o] \notin pending[n] =>
                     Got(CancelAllId(n), "CANCEL_ALL_ORDERS", "REJECTED") \/ o \in Settled'
    <3>1. o \in Orders /\ SymbolOf[o] \in Symbols
      BY <1>1, OrderRequestsAssumption DEF Types, OrderRequestsAssumption
    <3>2. CancelFrame(CancelAllId(n), SymbolOf[o]) # PlaceOf(o)
      BY <3>1, PlaceFrame, CancelFrames
    <3>3. Behind(outbox', CancelFrame(CancelAllId(n), SymbolOf[o]), PlaceOf(o))
      BY <1>1, <1>2, <3>2, BehindOf DEF CancelAllFollows
    <3> QED
      BY <1>1, <1>8, <3>1, <3>3 DEF CancelAllFollows
  <2> QED
    BY <2>1 DEF CancelAllFollows, Got
<1>11. AnsweredOnce'
  BY <1>1 DEF AnsweredOnce
<1>12. AnswersAreTrue'
  <2>1. ASSUME NEW o \in Orders, exch[o] = "none",
               responses[RequestId("CREATE_ORDER", o)] # <<>>
        PROVE  exch'[o] = "none"
    <3>1. None(outbox, {PlaceOf(o)})
      BY <1>1, <2>1, OnItsWay
    <3> QED
      BY <2>1, <3>1 DEF Steady
  <2>2. ASSUME NEW o \in Orders, oms[o] = "finished" PROVE exch'[o] # "open"
    BY <1>9, <2>2 DEF OrdersAgree, Settled
  <2>3. \A r, t, s : Got(r, t, s)' <=> Got(r, t, s)
    BY DEF Got
  <2>4. \A o \in Orders : Got(RequestId("CREATE_ORDER", o), "CREATE_ORDER", "REJECTED") =>
            responses[RequestId("CREATE_ORDER", o)] # <<>>
    BY DEF Got
  <2> HIDE DEF Got
  <2>5. ASSUME NEW o \in Orders
        PROVE  /\ Got(RequestId("CREATE_ORDER", o), "CREATE_ORDER", "ACCEPTED") => exch'[o] # "none"
               /\ Got(RequestId("CREATE_ORDER", o), "CREATE_ORDER", "REJECTED") => exch'[o] = "none"
               /\ Got(RequestId("MODIFY_ORDER", o), "MODIFY_ORDER", "ACCEPTED") => exch'[o] # "none"
               /\ Got(RequestId("CANCEL_ORDER", o), "CANCEL_ORDER", "ACCEPTED") => exch'[o] = "closed"
    BY <1>1, <2>1, <2>4 DEF AnswersAreTrue, Steady
  <2> QED
    BY <2>2, <2>5 DEF AnswersAreTrue, Got
<1> QED
  BY <1>5, <1>6, <1>7, <1>9, <1>10, <1>11, <1>12 DEF IInv

-----------------------------------------------------------------------------
(* The exchange takes a frame and answers it.                              *)

(* The frames are the answer to f, once, and otherwise say only what       *)
(* became of orders or that f was received; and they are true.             *)
Answered(f, frames) ==
    /\ frames \in Seq(ToGateway)
    /\ AtMostOne(frames, Answers(f))
    /\ \A i \in DOMAIN frames :
          /\ frames[i].channel # "orders" =>
                /\ frames[i].channel = f.channel /\ frames[i].request = f.request
                /\ f.channel = "order_cancel_cp" => frames[i].symbol = f.symbol
          /\ IsTrue(frames[i], exch', covered, Settled')

LEMMA OthersNotAnswered ==
    ASSUME NEW f \in ToExchange, NEW g \in ToExchange, g # f, NEW m \in ToGateway,
           m.channel # "orders" =>
              /\ m.channel = f.channel /\ m.request = f.request
              /\ f.channel = "order_cancel_cp" => m.symbol = f.symbol
    PROVE  m \notin Answers(g)
<1>1. SUFFICES ASSUME m \in Answers(g) PROVE FALSE
  OBVIOUS
<1>2. m.channel = g.channel /\ m.request = g.request
      /\ (m.channel = "order_cancel_cp" => m.symbol = g.symbol)
  BY <1>1 DEF Answers
<1>3. m.channel # "orders"
  BY <1>2, FrameFields
<1>4. CASE f.channel # "order_cancel_cp"
  BY <1>2, <1>3, <1>4, OneFrame
<1>5. CASE f.channel = "order_cancel_cp"
  <2>1. f = CancelFrame(f.request, f.symbol) /\ g = CancelFrame(g.request, g.symbol)
    BY <1>2, <1>3, <1>5, FrameFields
  <2> QED
    BY <1>2, <1>3, <1>5, <2>1
<1> QED
  BY <1>4, <1>5

LEMMA ReplyStep ==
    ASSUME IInv, outbox # <<>>, NEW frames, Answered(Head(outbox), frames), Reply(frames),
           exch' \in [Orders -> {"none", "open", "closed"}],
           \A o \in Orders :
              /\ exch[o] # "none" => exch'[o] # "none"
              /\ exch[o] = "closed" => exch'[o] = "closed"
              /\ exch[o] = "none" /\ exch'[o] # "none" => Head(outbox) = PlaceOf(o)
    PROVE  IInv'
<1> DEFINE f == Head(outbox)
<1>1. Types /\ OnlyAsked /\ OneUnderWay /\ OrdersAgree
  BY DEF IInv
<1>2. /\ f \in ToExchange
      /\ \A K : None(outbox, K) <=> f \notin K /\ None(Tail(outbox), K)
      /\ \A K : (AtMostOne(outbox, K) /\ f \in K) => None(Tail(outbox), K)
  BY <1>1, TailOf DEF Types
<1>3. /\ outbox' = Tail(outbox) /\ inbox' = inbox \o frames
      /\ UNCHANGED <<socket, asked, oms, responses, pending, covered>>
  BY DEF Reply
<1>4. frames \in Seq(ToGateway) /\ \A i \in DOMAIN frames : frames[i] \in ToGateway
  BY DEF Answered
<1>5. \A g \in ToExchange : g # f => None(frames, Answers(g))
  <2>1. SUFFICES ASSUME NEW g \in ToExchange, g # f, NEW i \in DOMAIN frames
                 PROVE  frames[i] \notin Answers(g)
    BY DEF None
  <2> QED
    BY <1>2, <1>4, <2>1, OthersNotAnswered DEF Answered
<1>6. OneUnderWay'
  BY <1>1, <1>4, <1>5, ReplyLeavesOne DEF Answered
<1>7. f.request \in asked
  BY <1>1, <1>2 DEF OneUnderWay, Awaited
<1>8. Steady
  <2>1. ASSUME NEW o \in Orders, None(outbox, {PlaceOf(o)})
        PROVE  f # PlaceOf(o) /\ None(outbox', {PlaceOf(o)})
    BY <1>2, <1>3, <2>1
  <2> QED
    BY <2>1 DEF Steady
<1>9. ASSUME NEW o \in Orders, exch[o] = "none", exch'[o] # "none"
      PROVE  oms[o] # "none" /\ None(outbox', {PlaceOf(o)})
  <2>1. f = PlaceOf(o)
    BY <1>9
  <2>2. ~None(outbox, {PlaceOf(o)})
    BY <1>2, <2>1
  <2>3. oms[o] # "none"
    BY <1>1, <2>2, OnItsWay
  <2>4. AtMostOne(outbox, {PlaceOf(o)})
    BY <1>1, <1>2, <2>1 DEF OneUnderWay
  <2> QED
    BY <1>2, <1>3, <2>1, <2>3, <2>4
<1>10. \A i \in DOMAIN frames : frames[i].channel # "orders" => frames[i].request \in asked
  BY <1>7 DEF Answered
<1>11. \A i \in DOMAIN frames : IsTrue(frames[i], exch', covered, Settled')
  BY DEF Answered
<1> HIDE DEF f
<1> QED
  BY <1>3, <1>4, <1>6, <1>8, <1>9, <1>10, <1>11, ExchangeStep

-----------------------------------------------------------------------------
(* The frames of an answer.                                                *)

(* A frame that may be among the answers to f.                             *)
Says(m, f) ==
    /\ m \in ToGateway
    /\ m.channel # "orders" =>
          /\ m.channel = f.channel /\ m.request = f.request
          /\ f.channel = "order_cancel_cp" => m.symbol = f.symbol
    /\ IsTrue(m, exch', covered, Settled')

LEMMA OneSays ==
    ASSUME NEW f, NEW a, Says(a, f)
    PROVE  Answered(f, <<a>>)
<1> DEFINE s == <<a>>
<1>1. s \in Seq(ToGateway) /\ DOMAIN s = {1} /\ s[1] = a
  BY DEF Says
<1> HIDE DEF s
<1>2. AtMostOne(s, Answers(f))
  BY <1>1 DEF AtMostOne
<1> QED
  BY <1>1, <1>2 DEF Answered, Says, s

LEMMA TwoSay ==
    ASSUME NEW f, NEW a, NEW b, Says(a, f), Says(b, f),
           a \notin Answers(f) \/ b \notin Answers(f)
    PROVE  Answered(f, <<a, b>>)
<1> DEFINE s == <<a, b>>
<1>1. s \in Seq(ToGateway) /\ DOMAIN s = {1, 2} /\ s[1] = a /\ s[2] = b
  BY DEF Says
<1> HIDE DEF s
<1>2. AtMostOne(s, Answers(f))
  BY <1>1 DEF AtMostOne
<1> QED
  BY <1>1, <1>2 DEF Answered, Says, s

LEMMA ThreeSay ==
    ASSUME NEW f, NEW a, NEW b, NEW c, Says(a, f), Says(b, f), Says(c, f),
           a \notin Answers(f), b \notin Answers(f) \/ c \notin Answers(f)
    PROVE  Answered(f, <<a, b, c>>)
<1> DEFINE s == <<a, b, c>>
<1>1. s \in Seq(ToGateway) /\ DOMAIN s = {1, 2, 3} /\ s[1] = a /\ s[2] = b /\ s[3] = c
  BY DEF Says
<1> HIDE DEF s
<1>2. AtMostOne(s, Answers(f))
  BY <1>1 DEF AtMostOne
<1> QED
  BY <1>1, <1>2 DEF Answered, Says, s

LEMMA UpdateFrame ==
    ASSUME NEW o \in Orders, NEW st \in {"open", "closed"}
    PROVE  /\ Update(o, st) \in ToGateway /\ Update(o, st).channel = "orders"
           /\ \A f \in ToExchange : Update(o, st) \notin Answers(f)
           /\ exch'[o] = st => IsTrue(Update(o, st), exch', covered, Settled')
<1>1. /\ Update(o, st) \in ToGateway /\ Update(o, st).channel = "orders"
      /\ Update(o, st).text = o /\ Update(o, st).order_status = st
  BY DEF Update, ToGateway
<1>2. \A f \in ToExchange : Update(o, st) \notin Answers(f)
  BY <1>1, FrameFields DEF Answers
<1>3. exch'[o] = st => IsTrue(Update(o, st), exch', covered, Settled')
  BY <1>1 DEF IsTrue
<1> QED
  BY <1>1, <1>2, <1>3

LEMMA UpdateSays ==
    ASSUME NEW f \in ToExchange, NEW o \in Orders, NEW st \in {"open", "closed"}, exch'[o] = st
    PROVE  Says(Update(o, st), f) /\ Update(o, st) \notin Answers(f)
BY UpdateFrame DEF Says

LEMMA OrderOfFrame ==
    ASSUME NEW f \in ToExchange, f.channel # "order_cancel_cp"
    PROVE  /\ f.request.order \in Orders
           /\ f.channel = "order_place" => f = PlaceOf(f.request.order)
BY DEF ToExchange, Of, PlaceOf, OrderFrame, RequestId

LEMMA OkSays ==
    ASSUME NEW f \in ToExchange, f.channel # "order_cancel_cp", NEW st \in {"open", "closed"},
           f.channel = "order_cancel" => st = "closed",
           exch'[f.request.order] = st
    PROVE  Says(Ok(f, f.request.order, st), f)
<1> DEFINE m == Ok(f, f.request.order, st)
<1>1. /\ m.channel = f.channel /\ m.request = f.request /\ m.status = 200
      /\ m.text = f.request.order /\ m.order_status = st
  BY DEF Ok, Answer
<1>2. m \in ToGateway
  BY OrderOfFrame, FrameFields DEF ToExchange, ToGateway, AnswerTo, Ok, Answer
<1>3. f.channel \in {"order_place", "order_amend", "order_cancel"}
  BY FrameFields
<1> HIDE DEF m
<1>4. IsTrue(m, exch', covered, Settled')
  BY <1>1, <1>3 DEF IsTrue
<1> QED
  BY <1>1, <1>2, <1>4 DEF Says, m

LEMMA ReceivedSays ==
    ASSUME NEW f \in ToExchange, f.channel = "order_place"
    PROVE  Says(Ok(f, NoOrder, "none"), f) /\ Ok(f, NoOrder, "none") \notin Answers(f)
<1> DEFINE m == Ok(f, NoOrder, "none")
<1>1. /\ m.channel = "order_place" /\ m.request = f.request /\ m.status = 200
      /\ m.text = NoOrder
  BY DEF Ok, Answer
<1>2. m \in ToGateway
  BY DEF ToExchange, ToGateway, AnswerTo, Ok, Answer
<1>3. Received(m)
  BY <1>1 DEF Received
<1> HIDE DEF m
<1>4. IsTrue(m, exch', covered, Settled')
  BY <1>1, <1>3 DEF IsTrue
<1> QED
  BY <1>1, <1>2, <1>3, <1>4 DEF Says, Answers, m

LEMMA RefusedSays ==
    ASSUME NEW f \in ToExchange, f.channel # "order_cancel_cp",
           f.channel = "order_place" => exch'[f.request.order] = "none"
    PROVE  Says(Refused(f), f)
<1> DEFINE m == Refused(f)
<1>1. m.channel = f.channel /\ m.request = f.request /\ m.status = 400
  BY DEF Refused, Answer
<1>2. m \in ToGateway
  BY OrderOfFrame, FrameFields DEF ToExchange, ToGateway, AnswerTo, Refused, Answer
<1>3. f.channel \in {"order_place", "order_amend", "order_cancel"}
  BY FrameFields
<1> HIDE DEF m
<1>4. IsTrue(m, exch', covered, Settled')
  BY <1>1, <1>3 DEF IsTrue
<1> QED
  BY <1>1, <1>2, <1>4 DEF Says, m

LEMMA AckSays ==
    ASSUME NEW f \in ToExchange, f.channel = "order_cancel_cp", NEW s \in {200, 400},
           s = 200 => \A o \in covered[f.request.number] : SymbolOf[o] = f.symbol => o \in Settled'
    PROVE  Says(CancelAck(f, s), f)
<1> DEFINE m == CancelAck(f, s)
<1>1. /\ m.channel = f.channel /\ m.request = f.request /\ m.symbol = f.symbol
      /\ m.status = s
  BY DEF CancelAck
<1>2. m \in ToGateway
  BY DEF ToExchange, ToGateway, CancelAck
<1> HIDE DEF m
<1>3. IsTrue(m, exch', covered, Settled')
  BY <1>1 DEF IsTrue
<1> QED
  BY <1>1, <1>2, <1>3 DEF Says, m

-----------------------------------------------------------------------------
(* The actions of the exchange.                                            *)

LEMMA PlaceTaken == IInv /\ ExchangeOrderPlace => IInv'
<1> SUFFICES ASSUME IInv, ExchangeOrderPlace PROVE IInv'
  OBVIOUS
<1> DEFINE f == Head(outbox)
           o == f.request.order
           received == Ok(f, NoOrder, "none")
<1>1. outbox # <<>> /\ f.channel = "order_place"
  BY DEF ExchangeOrderPlace, Taken
<1>2. f \in ToExchange /\ exch \in [Orders -> {"none", "open", "closed"}]
  BY <1>1, TailOf DEF IInv, Types
<1>3. o \in Orders /\ f = PlaceOf(o)
  BY <1>1, <1>2, OrderOfFrame
<1>4. exch[o] = "none"
  <2>1. ~None(outbox, {PlaceOf(o)})
    BY <1>1, <1>3, TailOf DEF IInv, Types
  <2> QED
    BY <1>3, <2>1, OnItsWay DEF IInv
<1>5. Says(received, f) /\ received \notin Answers(f)
  BY <1>1, <1>2, ReceivedSays
<1>6. \/ \E st \in {"open", "closed"} :
            /\ exch' = [exch EXCEPT ![o] = st]
            /\ \/ Reply(<<received, Ok(f, o, st), Update(o, st)>>)
               \/ Reply(<<received, Update(o, st), Ok(f, o, st)>>)
      \/ Reply(<<received, Refused(f)>>) /\ UNCHANGED exch
      \/ Reply(<<Refused(f)>>) /\ UNCHANGED exch
  BY DEF ExchangeOrderPlace
<1> HIDE DEF f, received
<1> USE DEF f
<1>7. CASE \E st \in {"open", "closed"} :
              /\ exch' = [exch EXCEPT ![o] = st]
              /\ \/ Reply(<<received, Ok(f, o, st), Update(o, st)>>)
                 \/ Reply(<<received, Update(o, st), Ok(f, o, st)>>)
  <2>1. PICK st \in {"open", "closed"} :
              /\ exch' = [exch EXCEPT ![o] = st]
              /\ \/ Reply(<<received, Ok(f, o, st), Update(o, st)>>)
                 \/ Reply(<<received, Update(o, st), Ok(f, o, st)>>)
    BY <1>7
  <2>2. /\ exch' \in [Orders -> {"none", "open", "closed"}] /\ exch'[o] = st
        /\ \A p \in Orders : p # o => exch'[p] = exch[p]
    BY <1>2, <1>3, <2>1
  <2>3. Says(Ok(f, o, st), f)
    BY <1>1, <1>2, <2>2, OkSays
  <2>4. Says(Update(o, st), f) /\ Update(o, st) \notin Answers(f)
    BY <1>2, <1>3, <2>2, UpdateSays
  <2>5. /\ Answered(f, <<received, Ok(f, o, st), Update(o, st)>>)
        /\ Answered(f, <<received, Update(o, st), Ok(f, o, st)>>)
    BY <1>5, <2>3, <2>4, ThreeSay
  <2>6. \A p \in Orders :
           /\ exch[p] # "none" => exch'[p] # "none"
           /\ exch[p] = "closed" => exch'[p] = "closed"
           /\ exch[p] = "none" /\ exch'[p] # "none" => f = PlaceOf(p)
    BY <1>3, <1>4, <2>2
  <2> QED
    BY <1>1, <2>1, <2>2, <2>5, <2>6, ReplyStep
<1>8. CASE /\ Reply(<<received, Refused(f)>>) \/ Reply(<<Refused(f)>>)
           /\ UNCHANGED exch
  <2>1. Says(Refused(f), f)
    BY <1>1, <1>2, <1>4, <1>8, RefusedSays
  <2>2. Answered(f, <<received, Refused(f)>>) /\ Answered(f, <<Refused(f)>>)
    BY <1>5, <2>1, OneSays, TwoSay
  <2> QED
    BY <1>1, <1>2, <1>8, <2>2, ReplyStep
<1> QED
  BY <1>6, <1>7, <1>8

LEMMA AmendTaken == IInv /\ ExchangeOrderAmend => IInv'
<1> SUFFICES ASSUME IInv, ExchangeOrderAmend PROVE IInv'
  OBVIOUS
<1> DEFINE f == Head(outbox)
           o == f.request.order
<1>1. outbox # <<>> /\ f.channel = "order_amend"
  BY DEF ExchangeOrderAmend, Taken
<1>2. f \in ToExchange /\ exch \in [Orders -> {"none", "open", "closed"}]
  BY <1>1, TailOf DEF IInv, Types
<1>3. o \in Orders
  BY <1>1, <1>2, OrderOfFrame
<1>4. \/ /\ exch[o] = "open"
         /\ \E st \in {"open", "closed"} :
               /\ exch' = [exch EXCEPT ![o] = st]
               /\ \/ Reply(<<Ok(f, o, st), Update(o, st)>>)
                  \/ Reply(<<Update(o, st), Ok(f, o, st)>>)
      \/ Reply(<<Refused(f)>>) /\ UNCHANGED exch
  BY DEF ExchangeOrderAmend
<1>5. ASSUME exch[o] = "open", NEW st \in {"open", "closed"},
             exch' = [exch EXCEPT ![o] = st],
             \/ Reply(<<Ok(f, o, st), Update(o, st)>>)
             \/ Reply(<<Update(o, st), Ok(f, o, st)>>)
      PROVE  IInv'
  <2>1. /\ exch' \in [Orders -> {"none", "open", "closed"}] /\ exch'[o] = st
        /\ \A p \in Orders : p # o => exch'[p] = exch[p]
    BY <1>2, <1>3, <1>5
  <2>2. Says(Ok(f, o, st), f)
    BY <1>1, <1>2, <2>1, OkSays
  <2>3. Says(Update(o, st), f) /\ Update(o, st) \notin Answers(f)
    BY <1>2, <1>3, <2>1, UpdateSays
  <2>4. /\ Answered(f, <<Ok(f, o, st), Update(o, st)>>)
        /\ Answered(f, <<Update(o, st), Ok(f, o, st)>>)
    BY <2>2, <2>3, TwoSay
  <2>5. \A p \in Orders :
           /\ exch[p] # "none" => exch'[p] # "none"
           /\ exch[p] = "closed" => exch'[p] = "closed"
           /\ exch[p] = "none" /\ exch'[p] # "none" => f = PlaceOf(p)
    BY <1>5, <2>1
  <2> QED
    BY <1>1, <1>5, <2>1, <2>4, <2>5, ReplyStep
<1>6. ASSUME Reply(<<Refused(f)>>), UNCHANGED exch
      PROVE  IInv'
  <2>1. Answered(f, <<Refused(f)>>)
    BY <1>1, <1>2, RefusedSays, OneSays
  <2> QED
    BY <1>1, <1>2, <1>6, <2>1, ReplyStep
<1> QED
  BY <1>4, <1>5, <1>6

LEMMA CancelTaken == IInv /\ ExchangeOrderCancel => IInv'
<1> SUFFICES ASSUME IInv, ExchangeOrderCancel PROVE IInv'
  OBVIOUS
<1> DEFINE f == Head(outbox)
           o == f.request.order
<1>1. outbox # <<>> /\ f.channel = "order_cancel"
  BY DEF ExchangeOrderCancel, Taken
<1>2. f \in ToExchange /\ exch \in [Orders -> {"none", "open", "closed"}]
  BY <1>1, TailOf DEF IInv, Types
<1>3. o \in Orders
  BY <1>1, <1>2, OrderOfFrame
<1>4. \/ /\ exch[o] = "open"
         /\ exch' = [exch EXCEPT ![o] = "closed"]
         /\ \/ Reply(<<Ok(f, o, "closed"), Update(o, "closed")>>)
            \/ Reply(<<Update(o, "closed"), Ok(f, o, "closed")>>)
      \/ Reply(<<Refused(f)>>) /\ UNCHANGED exch
  BY DEF ExchangeOrderCancel
<1>5. ASSUME exch[o] = "open", exch' = [exch EXCEPT ![o] = "closed"],
             \/ Reply(<<Ok(f, o, "closed"), Update(o, "closed")>>)
             \/ Reply(<<Update(o, "closed"), Ok(f, o, "closed")>>)
      PROVE  IInv'
  <2>1. /\ exch' \in [Orders -> {"none", "open", "closed"}] /\ exch'[o] = "closed"
        /\ \A p \in Orders : p # o => exch'[p] = exch[p]
    BY <1>2, <1>3, <1>5
  <2>2. Says(Ok(f, o, "closed"), f)
    BY <1>1, <1>2, <2>1, OkSays
  <2>3. Says(Update(o, "closed"), f) /\ Update(o, "closed") \notin Answers(f)
    BY <1>2, <1>3, <2>1, UpdateSays
  <2>4. /\ Answered(f, <<Ok(f, o, "closed"), Update(o, "closed")>>)
        /\ Answered(f, <<Update(o, "closed"), Ok(f, o, "closed")>>)
    BY <2>2, <2>3, TwoSay
  <2>5. \A p \in Orders :
           /\ exch[p] # "none" => exch'[p] # "none"
           /\ exch[p] = "closed" => exch'[p] = "closed"
           /\ exch[p] = "none" /\ exch'[p] # "none" => f = PlaceOf(p)
    BY <1>5, <2>1
  <2> QED
    BY <1>1, <1>5, <2>1, <2>4, <2>5, ReplyStep
<1>6. ASSUME Reply(<<Refused(f)>>), UNCHANGED exch
      PROVE  IInv'
  <2>1. Answered(f, <<Refused(f)>>)
    BY <1>1, <1>2, RefusedSays, OneSays
  <2> QED
    BY <1>1, <1>2, <1>6, <2>1, ReplyStep
<1> QED
  BY <1>4, <1>5, <1>6

(* The updates of the orders that are cancelled, and the acknowledgement.  *)
LEMMA PushedSays ==
    ASSUME NEW f \in ToExchange, f.channel = "order_cancel_cp", NEW S \in SUBSET Orders,
           NEW q \in SetToSeqs(S), IsFiniteSet(S), \A o \in S : exch'[o] = "closed",
           Says(CancelAck(f, 200), f),
           NEW p, p = [i \in DOMAIN q |-> Update(q[i], "closed")]
    PROVE  Answered(f, Append(p, CancelAck(f, 200))) /\ Answered(f, <<CancelAck(f, 200)>> \o p)
<1> DEFINE n == Cardinality(S)
           ack == CancelAck(f, 200)
<1>1. n \in Nat /\ q \in [1..n -> S]
  BY FS_CardinalityType DEF SetToSeqs
<1>2. \A i \in 1..n : p[i] \in ToGateway /\ Says(p[i], f) /\ p[i] \notin Answers(f)
  <2>1. ASSUME NEW i \in 1..n
        PROVE  p[i] \in ToGateway /\ Says(p[i], f) /\ p[i] \notin Answers(f)
    <3>1. q[i] \in Orders /\ exch'[q[i]] = "closed" /\ p[i] = Update(q[i], "closed")
      BY <1>1
    <3> QED
      BY <3>1, UpdateSays DEF Says
  <2> QED
    BY <2>1
<1>3. p \in Seq(ToGateway) /\ Len(p) = n
  <2>1. p \in [1..n -> ToGateway]
    BY <1>1, <1>2
  <2> QED
    BY <1>1, <2>1
<1>4. ack \in ToGateway /\ Says(ack, f)
  BY DEF Says
<1> HIDE DEF ack, n
<1> DEFINE Has(s, k) ==
              \A i \in DOMAIN s : (i = k /\ s[i] = ack) \/ (i # k /\ \E j \in 1..n : s[i] = p[j])
<1>5. ASSUME NEW s \in Seq(ToGateway), NEW k, Has(s, k)
      PROVE  Answered(f, s)
  <2>1. \A i \in DOMAIN s : Says(s[i], f) /\ (i # k => s[i] \notin Answers(f))
    BY <1>2, <1>4, <1>5
  <2>2. AtMostOne(s, Answers(f))
    BY <2>1 DEF AtMostOne
  <2> QED
    BY <2>1, <2>2 DEF Answered, Says
<1>6. Append(p, ack) \in Seq(ToGateway) /\ Has(Append(p, ack), n + 1)
  BY <1>1, <1>3, <1>4
<1>7. <<ack>> \o p \in Seq(ToGateway) /\ Has(<<ack>> \o p, 1)
  <2>1. <<ack>> \o p \in Seq(ToGateway)
    BY <1>3, <1>4
  <2>2. \A i \in DOMAIN (<<ack>> \o p) :
           (i = 1 /\ (<<ack>> \o p)[i] = ack)
           \/ (i # 1 /\ i - 1 \in 1..n /\ (<<ack>> \o p)[i] = p[i - 1])
    BY <1>1, <1>3, <1>4
  <2> QED
    BY <2>1, <2>2
<1> HIDE DEF Has
<1>8. Answered(f, Append(p, ack))
  BY <1>5, <1>6
<1>9. Answered(f, <<ack>> \o p)
  BY <1>5, <1>7
<1> QED
  BY <1>8, <1>9 DEF ack

LEMMA CancelCPTaken == IInv /\ ExchangeOrderCancelCP => IInv'
<1> SUFFICES ASSUME IInv, ExchangeOrderCancelCP PROVE IInv'
  OBVIOUS
<1> DEFINE f == Head(outbox)
           n == f.request.number
           open == {o \in Orders : SymbolOf[o] = f.symbol /\ exch[o] = "open"}
           pushed(q) == [i \in DOMAIN q |-> Update(q[i], "closed")]
<1>1. outbox # <<>> /\ f.channel = "order_cancel_cp"
  BY DEF ExchangeOrderCancelCP, Taken
<1>2. f \in ToExchange /\ exch \in [Orders -> {"none", "open", "closed"}]
  BY <1>1, TailOf DEF IInv, Types
<1>3. n \in CancelAlls /\ f.symbol \in Symbols /\ f = CancelFrame(CancelAllId(n), f.symbol)
  BY <1>1, <1>2, FrameFields
<1>4. \/ /\ exch' = [o \in Orders |-> IF o \in open THEN "closed" ELSE exch[o]]
         /\ \E q \in SetToSeqs(open) :
               \/ Reply(Append(pushed(q), CancelAck(f, 200)))
               \/ Reply(<<CancelAck(f, 200)>> \o pushed(q))
      \/ Reply(<<CancelAck(f, 400)>>) /\ UNCHANGED exch
  BY DEF ExchangeOrderCancelCP
<1>5. ASSUME exch' = [o \in Orders |-> IF o \in open THEN "closed" ELSE exch[o]],
             NEW q \in SetToSeqs(open),
             \/ Reply(Append(pushed(q), CancelAck(f, 200)))
             \/ Reply(<<CancelAck(f, 200)>> \o pushed(q))
      PROVE  IInv'
  <2>1. outbox' = Tail(outbox)
    BY <1>5 DEF Reply
  <2>2. exch' \in [Orders -> {"none", "open", "closed"}]
    BY <1>2, <1>5
  <2>3. \A o \in Orders : exch[o] = "none" => exch'[o] = "none"
    BY <1>5
  <2>4. \A o \in Orders : exch[o] # "none" =>
           exch'[o] # "none" /\ (exch[o] = "closed" => exch'[o] = "closed")
    BY <1>2, <1>5
  <2>5. \A o \in covered[n] : SymbolOf[o] = f.symbol => o \in Settled'
    <3>1. ASSUME NEW o \in covered[n], SymbolOf[o] = f.symbol
          PROVE  o \in Settled'
      <4>1. o \in Orders
        BY <1>3, <3>1 DEF IInv, Types
      <4>2. Behind(outbox, f, PlaceOf(o))
        BY <1>3, <3>1 DEF IInv, CancelAllFollows
      <4>3. f # PlaceOf(o)
        BY <1>1, <4>1, PlaceFrame
      <4>4. None(outbox, {PlaceOf(o)})
        BY <1>1, <1>2, <4>2, <4>3, BehindOf DEF IInv, Types
      <4>5. None(outbox', {PlaceOf(o)})
        BY <1>1, <2>1, <4>4, TailOf DEF IInv, Types
      <4>6. exch'[o] # "open"
        BY <1>5, <3>1, <4>1
      <4> QED
        BY <4>1, <4>5, <4>6 DEF Settled
    <3> QED
      BY <3>1
  <2>6. Says(CancelAck(f, 200), f)
    BY <1>1, <1>2, <2>5, AckSays
  <2>7. IsFiniteSet(open) /\ open \in SUBSET Orders
    BY FS_Subset, OrderRequestsAssumption DEF OrderRequestsAssumption
  <2>8. \A o \in open : exch'[o] = "closed"
    BY <1>5
  <2> HIDE DEF f, n, open
  <2>9. /\ Answered(f, Append(pushed(q), CancelAck(f, 200)))
        /\ Answered(f, <<CancelAck(f, 200)>> \o pushed(q))
    BY <1>1, <1>2, <1>5, <2>6, <2>7, <2>8, PushedSays
  <2> HIDE DEF pushed
  <2> QED
    BY <1>1, <1>5, <2>2, <2>3, <2>4, <2>9, ReplyStep DEF f
<1>6. ASSUME Reply(<<CancelAck(f, 400)>>), UNCHANGED exch
      PROVE  IInv'
  <2>1. Answered(f, <<CancelAck(f, 400)>>)
    BY <1>1, <1>2, AckSays, OneSays
  <2> QED
    BY <1>1, <1>2, <1>6, <2>1, ReplyStep
<1> QED
  BY <1>4, <1>5, <1>6

(* An order ends by itself.                                                *)
LEMMA OrderFinishes ==
    ASSUME IInv, NEW o \in Orders, ExchangeFinish(o)
    PROVE  IInv'
<1> DEFINE frames == <<Update(o, "closed")>>
<1>1. Types /\ OneUnderWay
  BY DEF IInv
<1>2. /\ exch[o] = "open" /\ exch' = [exch EXCEPT ![o] = "closed"]
      /\ inbox' = inbox \o frames
      /\ UNCHANGED <<socket, asked, outbox, oms, responses, pending, covered>>
  BY <1>1 DEF ExchangeFinish, Types
<1>3. /\ exch' \in [Orders -> {"none", "open", "closed"}] /\ exch'[o] = "closed"
      /\ \A p \in Orders : p # o => exch'[p] = exch[p]
  BY <1>1, <1>2 DEF Types
<1>4. Steady
  BY <1>2, <1>3 DEF Steady
<1>5. Update(o, "closed") \in ToGateway /\ Update(o, "closed").channel = "orders"
      /\ IsTrue(Update(o, "closed"), exch', covered, Settled')
      /\ \A f \in ToExchange : Update(o, "closed") \notin Answers(f)
  BY <1>3, UpdateFrame
<1>6. frames \in Seq(ToGateway) /\ DOMAIN frames = {1} /\ frames[1] = Update(o, "closed")
  BY <1>5
<1> HIDE DEF frames
<1>7. OneUnderWay'
  <2>1. Awaited' = Awaited
    BY <1>2 DEF Awaited
  <2>2. ASSUME NEW f \in ToExchange
        PROVE  /\ None(inbox', Answers(f)) <=> None(inbox, Answers(f))
               /\ AtMostOne(inbox, Answers(f)) => AtMostOne(inbox', Answers(f))
    <3>1. None(frames, Answers(f)) /\ AtMostOne(frames, Answers(f))
      BY <1>5, <1>6 DEF None, AtMostOne
    <3>2. inbox \in Seq(ToGateway)
      BY <1>1 DEF Types
    <3> QED
      BY <1>2, <1>6, <3>1, <3>2, NoneOf, OneOf
  <2> QED
    BY <1>1, <1>2, <2>1, <2>2 DEF OneUnderWay
<1>8. \A i \in DOMAIN frames :
         /\ frames[i].channel # "orders" => frames[i].request \in asked
         /\ IsTrue(frames[i], exch', covered, Settled')
  BY <1>5, <1>6
<1>9. \A p \in Orders : exch[p] = "none" /\ exch'[p] # "none" =>
         oms[p] # "none" /\ None(outbox', {PlaceOf(p)})
  BY <1>2, <1>3
<1> QED
  BY <1>2, <1>3, <1>4, <1>6, <1>7, <1>8, <1>9, ExchangeStep

-----------------------------------------------------------------------------
(* A frame is handled.                                                     *)

(* The OMS only takes orders for finished that are settled.                *)
OmsStep ==
    /\ oms' \in [Orders -> {"none", "live", "finished"}]
    /\ \A o \in Orders :
          oms'[o] = oms[o] \/ (oms'[o] = "finished" /\ oms[o] # "none" /\ o \in Settled)

LEMMA HandlerKeeps ==
    ASSUME IInv, inbox # <<>>, Handled, OmsStep,
           pending' \in [CancelAlls -> SUBSET Symbols],
           responses' \in [Request -> Seq(Responses)],
           \A r \in Request : r \notin asked => responses'[r] = responses[r]
    PROVE  Types' /\ OnlyAsked' /\ InboxIsTrue' /\ OrdersAgree' /\ Settled' = Settled
<1>1. Types /\ OnlyAsked /\ InboxIsTrue /\ OrdersAgree
  BY DEF IInv
<1>2. inbox' = Tail(inbox) /\ UNCHANGED <<socket, asked, outbox, exch, covered>>
  BY DEF Handled
<1>3. /\ inbox' \in Seq(ToGateway)
      /\ \A i \in DOMAIN inbox' : i + 1 \in DOMAIN inbox /\ inbox'[i] = inbox[i + 1]
  BY <1>1, <1>2, TailOf DEF Types
<1>4. Types'
  BY <1>1, <1>2, <1>3 DEF Types, OmsStep
<1>5. OnlyAsked'
  <2>1. \A o \in Orders : oms'[o] # "none" <=> oms[o] # "none"
    BY DEF OmsStep
  <2> QED
    BY <1>1, <1>2, <1>3, <2>1 DEF OnlyAsked
<1>6. Settled' = Settled
  BY <1>2 DEF Settled
<1>7. InboxIsTrue'
  BY <1>1, <1>2, <1>3, <1>6 DEF InboxIsTrue
<1>8. OrdersAgree'
  <2>1. \A o \in Orders : oms[o] # "none" => oms'[o] # "none"
    BY DEF OmsStep
  <2>2. \A o \in Orders : oms'[o] = "finished" => o \in Settled'
    BY <1>1, <1>6 DEF OmsStep, OrdersAgree
  <2> QED
    BY <1>1, <1>2, <2>1, <2>2 DEF OrdersAgree
<1> QED
  BY <1>4, <1>5, <1>6, <1>7, <1>8

(* A frame that is no answer: an update, or that a request was received.   *)
LEMMA NoAnswerHandled ==
    ASSUME IInv, inbox # <<>>, Handled, OmsStep, UNCHANGED <<responses, pending>>
    PROVE  IInv'
<1>1. Types' /\ OnlyAsked' /\ InboxIsTrue' /\ OrdersAgree' /\ Settled' = Settled
  BY HandlerKeeps DEF IInv, Types
<1>2. UNCHANGED <<asked, outbox, exch, covered>>
  BY DEF Handled
<1>3. OneUnderWay'
  <2>1. Awaited' = Awaited
    BY <1>2 DEF Awaited
  <2> QED
    BY <2>1, HandledLeavesOne DEF IInv, Handled
<1>4. CancelAllFollows'
  <2>1. \A n \in CancelAlls : covered[n] \subseteq Orders
    BY DEF IInv, Types
  <2>2. \A o \in Orders : oms[o] # "none" => oms'[o] # "none"
    BY DEF OmsStep
  <2> QED
    BY <1>1, <1>2, <2>1, <2>2 DEF IInv, CancelAllFollows, Got
<1>5. AnsweredOnce'
  BY <1>2 DEF IInv, AnsweredOnce
<1>6. AnswersAreTrue'
  <2>1. \A o \in Orders : oms'[o] = "finished" => exch[o] # "open"
    BY <1>1, <1>2 DEF OrdersAgree, Settled
  <2> QED
    BY <1>2, <2>1 DEF IInv, AnswersAreTrue, Got
<1> QED
  BY <1>1, <1>3, <1>4, <1>5, <1>6 DEF IInv

(* The answer x to an order request r is true of the orders of e.          *)
ResponseIsTrue(r, x, e) ==
    \A o \in Orders :
        /\ r = RequestId("CREATE_ORDER", o) /\ x = Response("CREATE_ORDER", "ACCEPTED")
              => e[o] # "none"
        /\ r = RequestId("CREATE_ORDER", o) /\ x = Response("CREATE_ORDER", "REJECTED")
              => e[o] = "none"
        /\ r = RequestId("MODIFY_ORDER", o) /\ x = Response("MODIFY_ORDER", "ACCEPTED")
              => e[o] # "none"
        /\ r = RequestId("CANCEL_ORDER", o) /\ x = Response("CANCEL_ORDER", "ACCEPTED")
              => e[o] = "closed"

LEMMA OrderRequestIds ==
    ASSUME NEW o \in Orders
    PROVE  /\ RequestId("CREATE_ORDER", o) \in OrderRequest
           /\ RequestId("MODIFY_ORDER", o) \in OrderRequest
           /\ RequestId("CANCEL_ORDER", o) \in OrderRequest
           /\ OrderRequest \subseteq Request
           /\ \A n \in CancelAlls : CancelAllId(n) \notin OrderRequest
BY DEF RequestId, OrderRequest, RequestType, Request, CancelAllId

(* The answer to an order request.                                         *)
LEMMA OrderAnswerHandled ==
    ASSUME IInv, inbox # <<>>, Handled, OmsStep, UNCHANGED pending,
           NEW f \in ToExchange, f.channel # "order_cancel_cp", Head(inbox) \in Answers(f),
           NEW x \in Responses, Dispatch(f.request, x), ResponseIsTrue(f.request, x, exch)
    PROVE  IInv'
<1> DEFINE r == f.request
<1>1. Types /\ OnlyAsked /\ OneUnderWay
  BY DEF IInv
<1>2. r \in OrderRequest /\ r \in Request
  BY FrameFields
<1>3. f \in Awaited
  <2>1. ~None(inbox, Answers(f))
    BY <1>1, TailOf DEF Types
  <2> QED
    BY <1>1, <2>1 DEF OneUnderWay
<1>4. r \in asked /\ responses[r] = <<>>
  BY <1>3 DEF Awaited
<1>5. /\ responses' = [responses EXCEPT ![r] = <<x>>]
      /\ responses' \in [Request -> Seq(Responses)]
  <2>1. responses' = [responses EXCEPT ![r] = Append(responses[r], x)]
    BY <1>1, <1>2 DEF Dispatch, Types
  <2>2. Append(<<>>, x) = <<x>> /\ <<x>> \in Seq(Responses)
    OBVIOUS
  <2> QED
    BY <1>1, <1>2, <1>4, <2>1, <2>2 DEF Types
<1>6. responses'[r] = <<x>> /\ \A q \in Request : q # r => responses'[q] = responses[q]
  BY <1>1, <1>2, <1>5 DEF Types
<1>7. UNCHANGED <<asked, outbox, exch, covered, pending>>
  BY DEF Handled
<1> HIDE DEF r
<1>8. Types' /\ OnlyAsked' /\ InboxIsTrue' /\ OrdersAgree' /\ Settled' = Settled
  BY <1>1, <1>4, <1>5, <1>6, <1>7, HandlerKeeps DEF Types
<1>9. OneUnderWay'
  <2>1. ASSUME NEW g \in Awaited PROVE Head(inbox) \in Answers(g) \/ g \in Awaited'
    <3>1. CASE g = f
      BY <3>1
    <3>2. CASE g # f
      <4>1. g \in ToExchange /\ g.request \in Request
        BY FrameFields DEF Awaited
      <4>2. g.request # r
        BY <3>2, <4>1, OneFrame DEF r
      <4>3. responses'[g.request] = responses[g.request]
        BY <1>6, <4>1, <4>2
      <4> QED
        BY <1>7, <4>3 DEF Awaited
    <3> QED
      BY <3>1, <3>2
  <2> QED
    BY <1>1, <1>7, <2>1, HandledLeavesOne DEF Handled
<1>10. \A n \in CancelAlls : responses'[CancelAllId(n)] = responses[CancelAllId(n)]
  <2>1. \A n \in CancelAlls : CancelAllId(n) \in Request /\ CancelAllId(n) \notin OrderRequest
    BY DEF CancelAllId, Request, CancelAllRequest, OrderRequest
  <2> QED
    BY <1>2, <1>6, <2>1
<1>11. CancelAllFollows'
  <2>1. \A n \in CancelAlls : covered[n] \subseteq Orders
    BY <1>1 DEF Types
  <2>2. \A o \in Orders : oms[o] # "none" => oms'[o] # "none"
    BY DEF OmsStep
  <2> QED
    BY <1>7, <1>8, <1>10, <2>1, <2>2 DEF IInv, CancelAllFollows, Got
<1>12. AnsweredOnce'
  <2>1. Len(<<x>>) = 1
    OBVIOUS
  <2>2. \A q \in OrderRequest : Len(responses'[q]) <= 1
    <3>1. \A q \in OrderRequest : q \in Request /\ Len(responses[q]) <= 1
      BY DEF IInv, AnsweredOnce, Request
    <3>2. \A q \in OrderRequest : q = r \/ responses'[q] = responses[q]
      BY <1>6, <3>1
    <3>3. Len(responses'[r]) <= 1
      BY <1>6, <2>1
    <3> QED
      BY <3>1, <3>2, <3>3
  <2> QED
    BY <1>7, <1>10, <2>2 DEF IInv, AnsweredOnce
<1>13. AnswersAreTrue'
  <2>1. \A o \in Orders : oms'[o] = "finished" => exch[o] # "open"
    BY <1>7, <1>8 DEF OrdersAgree, Settled
  <2>2. \A i \in DOMAIN <<x>> : <<x>>[i] = x
    OBVIOUS
  <2>3. \A q \in Request : \A t, s :
           (\E i \in DOMAIN responses'[q] : responses'[q][i] = Response(t, s))
              => Got(q, t, s) \/ (q = r /\ x = Response(t, s))
    BY <1>6, <2>2 DEF Got
  <2>4. ASSUME NEW o \in Orders
        PROVE  /\ Got(RequestId("CREATE_ORDER", o), "CREATE_ORDER", "ACCEPTED")' => exch[o] # "none"
               /\ Got(RequestId("CREATE_ORDER", o), "CREATE_ORDER", "REJECTED")' => exch[o] = "none"
               /\ Got(RequestId("MODIFY_ORDER", o), "MODIFY_ORDER", "ACCEPTED")' => exch[o] # "none"
               /\ Got(RequestId("CANCEL_ORDER", o), "CANCEL_ORDER", "ACCEPTED")' => exch[o] = "closed"
    <3>1. /\ RequestId("CREATE_ORDER", o) \in Request /\ RequestId("MODIFY_ORDER", o) \in Request
          /\ RequestId("CANCEL_ORDER", o) \in Request
      BY OrderRequestIds
    <3>2. \A q \in Request : \A t, s : Got(q, t, s)' => Got(q, t, s) \/ (q = r /\ x = Response(t, s))
      BY <2>3 DEF Got
    <3> QED
      BY <3>1, <3>2 DEF IInv, AnswersAreTrue, ResponseIsTrue, r
  <2> QED
    BY <1>7, <2>1, <2>4 DEF AnswersAreTrue
<1> QED
  BY <1>8, <1>9, <1>11, <1>12, <1>13 DEF IInv

(* The answer to a cancel-all.                                             *)
LEMMA CancelAllAnswerHandled ==
    ASSUME IInv, Arrived("order_cancel_cp"), TradeOrderCancelCP
    PROVE  IInv'
<1> DEFINE m == Head(inbox)
           n == m.request.number
           r == CancelAllId(n)
           x == Response("CANCEL_ALL_ORDERS", IF m.status = 200 THEN "ACCEPTED" ELSE "REJECTED")
           f == CancelFrame(r, m.symbol)
<1>1. Types /\ OnlyAsked /\ OneUnderWay /\ InboxIsTrue /\ CancelAllFollows
  BY DEF IInv
<1>2. inbox # <<>> /\ m \in ToGateway /\ m.channel = "order_cancel_cp" /\ 1 \in DOMAIN inbox
      /\ inbox[1] = m
  BY <1>1, TailOf DEF Arrived, Types
<1>3. n \in CancelAlls /\ m.request = r /\ m.symbol \in Symbols
  BY <1>2 DEF ToGateway, AnswerTo, CancelAllRequest, CancelAllId
<1>4. /\ Dispatch(r, x) /\ pending' = [pending EXCEPT ![n] = @ \ {m.symbol}]
      /\ Handled /\ UNCHANGED oms
  BY <1>3 DEF TradeOrderCancelCP
<1>5. /\ f \in ToExchange /\ f.channel = "order_cancel_cp" /\ f.request = r
      /\ f.symbol = m.symbol /\ r.number = n /\ r \in Request
  BY <1>3, CancelFrames
<1>6. IsTrue(m, exch, covered, Settled)
  BY <1>1, <1>2 DEF InboxIsTrue
<1>7. m \in Answers(f)
  BY <1>2, <1>3, <1>5 DEF Answers, Received
<1>8. x \in Responses /\ (m.status # 200 => x = Response("CANCEL_ALL_ORDERS", "REJECTED"))
  BY DEF Response, Responses, RequestStatus
<1> HIDE DEF m, n, r, x, f
<1>9. f \in Awaited
  <2>1. ~None(inbox, Answers(f))
    BY <1>1, <1>2, <1>7, TailOf DEF Types, m
  <2> QED
    BY <1>1, <1>5, <2>1 DEF OneUnderWay
<1>10. r \in asked /\ m.symbol \in pending[n]
  BY <1>5, <1>9 DEF Awaited
<1>11. /\ pending' \in [CancelAlls -> SUBSET Symbols]
       /\ pending'[n] = pending[n] \ {m.symbol}
       /\ \A k \in CancelAlls : k # n => pending'[k] = pending[k]
  BY <1>1, <1>3, <1>4 DEF Types
<1>12. /\ responses' \in [Request -> Seq(Responses)]
       /\ responses'[r] = Append(responses[r], x)
       /\ \A q \in Request : q # r => responses'[q] = responses[q]
       /\ responses[r] \in Seq(Responses)
  BY <1>1, <1>4, <1>5, <1>8 DEF Dispatch, Types
<1>13. OmsStep
  BY <1>1, <1>4 DEF OmsStep, Types
<1>14. Types' /\ OnlyAsked' /\ InboxIsTrue' /\ OrdersAgree' /\ Settled' = Settled
  BY <1>2, <1>4, <1>10, <1>11, <1>12, <1>13, HandlerKeeps
<1>15. UNCHANGED <<asked, outbox, exch, covered>> /\ inbox' = Tail(inbox)
  BY <1>4 DEF Handled
<1>16. \A k \in CancelAlls : CancelAllId(k) \in Request /\ (CancelAllId(k) = r => k = n)
  BY <1>5, CancelFrames DEF CancelAllId, Request, CancelAllRequest
<1>17. \A q \in OrderRequest : q \in Request /\ q # r
  BY DEF OrderRequest, RequestType, Request, r, CancelAllId
<1>18. OneUnderWay'
  <2>1. ASSUME NEW g \in Awaited PROVE m \in Answers(g) \/ g \in Awaited'
    <3>1. g \in ToExchange /\ g.request \in asked
      BY DEF Awaited
    <3>2. CASE g.channel # "order_cancel_cp"
      <4>1. responses'[g.request] = responses[g.request]
        BY <1>12, <1>17, <3>1, <3>2, FrameFields
      <4> QED
        BY <1>15, <3>2, <4>1 DEF Awaited
    <3>3. CASE g.channel = "order_cancel_cp"
      <4> DEFINE k == g.request.number
      <4>1. k \in CancelAlls /\ g.request = CancelAllId(k) /\ g.symbol \in pending[k]
        BY <3>1, <3>3, FrameFields DEF Awaited
      <4>2. CASE k = n /\ g.symbol = m.symbol
        BY <1>2, <1>3, <3>3, <4>1, <4>2 DEF Answers, Received, r
      <4>3. CASE ~(k = n /\ g.symbol = m.symbol)
        <5>1. g.symbol \in pending'[k]
          BY <1>11, <4>1, <4>3
        <5> QED
          BY <1>15, <3>1, <3>3, <5>1 DEF Awaited
      <4> QED
        BY <4>2, <4>3
    <3> QED
      BY <3>2, <3>3
  <2> QED
    BY <1>1, <1>2, <1>15, <2>1, HandledLeavesOne DEF m
<1>19. \A q \in Request : \A t, s : (\E i \in DOMAIN responses[q] : responses[q][i] = Response(t, s))
           => \E i \in DOMAIN responses'[q] : responses'[q][i] = Response(t, s)
  <2>1. \A i \in DOMAIN responses[r] :
           i \in DOMAIN responses'[r] /\ responses'[r][i] = responses[r][i]
    BY <1>12
  <2> QED
    BY <1>12, <2>1
<1>20. CancelAllFollows'
  <2>1. ASSUME NEW k \in CancelAlls, NEW o \in covered[k], SymbolOf[o] \notin pending'[k]
        PROVE  Got(CancelAllId(k), "CANCEL_ALL_ORDERS", "REJECTED")' \/ o \in Settled
    <3>1. CASE SymbolOf[o] \notin pending[k]
      <4>1. Got(CancelAllId(k), "CANCEL_ALL_ORDERS", "REJECTED") \/ o \in Settled
        BY <1>1, <2>1, <3>1 DEF CancelAllFollows
      <4> QED
        BY <1>16, <1>19, <4>1 DEF Got
    <3>2. CASE SymbolOf[o] \in pending[k]
      <4>1. k = n /\ SymbolOf[o] = m.symbol
        BY <1>11, <2>1, <3>2
      <4>2. CASE m.status = 200
        BY <1>2, <1>6, <2>1, <4>1, <4>2 DEF IsTrue, n
      <4>3. CASE m.status # 200
        <5>1. /\ Len(responses[r]) + 1 \in DOMAIN responses'[r]
              /\ responses'[r][Len(responses[r]) + 1] = Response("CANCEL_ALL_ORDERS", "REJECTED")
          BY <1>8, <1>12, <4>3
        <5> QED
          BY <4>1, <5>1 DEF Got, r
      <4> QED
        BY <4>2, <4>3
    <3> QED
      BY <3>1, <3>2
  <2>2. \A k \in CancelAlls : \A o \in covered[k] :
           /\ oms'[o] # "none"
           /\ Behind(outbox', CancelFrame(CancelAllId(k), SymbolOf[o]), PlaceOf(o))
    BY <1>1, <1>4, <1>15 DEF CancelAllFollows
  <2> QED
    BY <1>14, <1>15, <2>1, <2>2 DEF CancelAllFollows
<1>21. AnsweredOnce'
  <2>1. \A q \in OrderRequest : Len(responses'[q]) <= 1
    BY <1>12, <1>17 DEF IInv, AnsweredOnce
  <2>2. Len(responses'[r]) + Cardinality(pending'[n]) = Len(responses[r]) + Cardinality(pending[n])
    <3>1. IsFiniteSet(pending[n])
      BY <1>1, <1>3, OrderRequestsAssumption, FS_Subset DEF Types, OrderRequestsAssumption
    <3>2. Cardinality(pending'[n]) = Cardinality(pending[n]) - 1
      BY <1>10, <1>11, <3>1, FS_RemoveElement
    <3>3. Cardinality(pending[n]) \in Nat
      BY <3>1, FS_CardinalityType
    <3>4. Len(responses'[r]) = Len(responses[r]) + 1 /\ Len(responses[r]) \in Nat
      BY <1>12
    <3> QED
      BY <3>2, <3>3, <3>4
  <2>3. ASSUME NEW k \in CancelAlls
        PROVE  Len(responses'[CancelAllId(k)]) + Cardinality(pending'[k])
                  <= Cardinality({SymbolOf[o] : o \in covered[k]})
    <3>1. Len(responses[CancelAllId(k)]) + Cardinality(pending[k])
              <= Cardinality({SymbolOf[o] : o \in covered[k]})
      BY DEF IInv, AnsweredOnce
    <3>2. CASE k = n
      BY <2>2, <3>1, <3>2 DEF r
    <3>3. CASE k # n
      <4>1. responses'[CancelAllId(k)] = responses[CancelAllId(k)] /\ pending'[k] = pending[k]
        BY <1>11, <1>12, <1>16, <3>3
      <4> QED
        BY <3>1, <4>1
    <3> QED
      BY <3>2, <3>3
  <2> QED
    BY <1>15, <2>1, <2>3 DEF AnsweredOnce
<1>22. AnswersAreTrue'
  <2>1. \A o \in Orders :
           /\ responses'[RequestId("CREATE_ORDER", o)] = responses[RequestId("CREATE_ORDER", o)]
           /\ responses'[RequestId("MODIFY_ORDER", o)] = responses[RequestId("MODIFY_ORDER", o)]
           /\ responses'[RequestId("CANCEL_ORDER", o)] = responses[RequestId("CANCEL_ORDER", o)]
    BY <1>12, <1>17, OrderRequestIds
  <2> QED
    BY <1>4, <1>15, <2>1 DEF IInv, AnswersAreTrue, Got
<1> QED
  BY <1>14, <1>18, <1>20, <1>21, <1>22 DEF IInv

(* An order of the exchange that is closed is finished at the OMS.         *)
LEMMA OmsFollows ==
    ASSUME IInv, NEW o \in Orders \cup {NoOrder}, NEW st, OrderUpdate(o, st),
           o \in Orders /\ st = "closed" => exch[o] = "closed"
    PROVE  OmsStep
<1>1. oms \in [Orders -> {"none", "live", "finished"}] /\ OrdersAgree
  BY DEF IInv, Types
<1>2. CASE o = NoOrder \/ st # "closed"
  BY <1>1, <1>2 DEF OrderUpdate, OmsStep
<1>3. CASE ~(o = NoOrder \/ st # "closed")
  <2>1. o \in Orders /\ exch[o] = "closed" /\ oms' = [oms EXCEPT ![o] = "finished"]
    BY <1>3 DEF OrderUpdate
  <2>2. oms[o] # "none" /\ o \in Settled
    BY <1>1, <2>1 DEF OrdersAgree, Settled
  <2> QED
    BY <1>1, <2>1, <2>2 DEF OmsStep
<1> QED
  BY <1>2, <1>3

(* What an answer to an order request says.                                *)
LEMMA OrderAnswer ==
    ASSUME IInv, inbox # <<>>, NEW c, NEW t, Head(inbox).channel = c,
           <<c, t>> \in {<<"order_place", "CREATE_ORDER">>, <<"order_amend", "MODIFY_ORDER">>,
                         <<"order_cancel", "CANCEL_ORDER">>}
    PROVE  LET m == Head(inbox)
               f == OrderFrame(c, m.request)
           IN  /\ m \in AnswerTo(c, t)
               /\ f \in ToExchange /\ f.channel = c /\ f.request = m.request
               /\ m.request = RequestId(t, m.request.order) /\ m.request.order \in Orders
               /\ ~Received(m) => m \in Answers(f)
               /\ IsTrue(m, exch, covered, Settled)
<1> DEFINE m == Head(inbox)
           f == OrderFrame(c, m.request)
<1>1. m \in ToGateway /\ 1 \in DOMAIN inbox /\ inbox[1] = m
  BY TailOf DEF IInv, Types
<1>2. m \in AnswerTo(c, t)
  BY <1>1 DEF ToGateway, AnswerTo
<1>3. m.request = RequestId(t, m.request.order) /\ m.request.order \in Orders /\ m.request \in Of(t)
  BY <1>2 DEF AnswerTo, Of, RequestId
<1>4. f \in ToExchange /\ f.channel = c /\ f.request = m.request
  BY <1>3 DEF ToExchange, OrderFrame
<1>5. IsTrue(m, exch, covered, Settled)
  BY <1>1 DEF IInv, InboxIsTrue
<1>6. ~Received(m) => m \in Answers(f)
  BY <1>1, <1>4 DEF Answers
<1> QED
  BY <1>2, <1>3, <1>4, <1>5, <1>6

LEMMA PlaceHandled == IInv /\ TradeOrderPlace => IInv'
<1> SUFFICES ASSUME IInv, TradeOrderPlace PROVE IInv'
  OBVIOUS
<1> DEFINE m == Head(inbox)
           o == m.request.order
           f == OrderFrame("order_place", m.request)
<1>1. inbox # <<>> /\ m.channel = "order_place"
  BY DEF TradeOrderPlace, Arrived
<1>2. /\ m \in AnswerTo("order_place", "CREATE_ORDER")
      /\ f \in ToExchange /\ f.channel = "order_place" /\ f.request = m.request
      /\ m.request = RequestId("CREATE_ORDER", o) /\ o \in Orders
      /\ ~Received(m) => m \in Answers(f)
      /\ IsTrue(m, exch, covered, Settled)
  BY <1>1, OrderAnswer
<1>3. Handled /\ UNCHANGED pending
  BY DEF TradeOrderPlace
<1>4. \/ m.status = 200 /\ m.text # NoOrder /\ Accepted("CREATE_ORDER", m)
      \/ m.status = 200 /\ m.text = NoOrder /\ UNCHANGED <<oms, responses>>
      \/ /\ m.status # 200
         /\ Dispatch(m.request, Response("CREATE_ORDER", "REJECTED"))
         /\ oms' = [oms EXCEPT ![o] = "finished"]
  BY DEF TradeOrderPlace
<1>5. ASSUME m.status = 200, m.text # NoOrder, Accepted("CREATE_ORDER", m)
      PROVE  IInv'
  <2>1. ~Received(m)
    BY <1>5 DEF Received
  <2>2. /\ m.text = o /\ exch[o] # "none"
        /\ m.order_status = "closed" => exch[o] = "closed"
    BY <1>1, <1>2, <1>5, <2>1 DEF IsTrue
  <2>3. OmsStep
    BY <1>2, <1>5, <2>2, OmsFollows DEF Accepted
  <2>4. ResponseIsTrue(m.request, Response("CREATE_ORDER", "ACCEPTED"), exch)
    BY <1>2, <2>2 DEF ResponseIsTrue, RequestId, Response
  <2>5. Response("CREATE_ORDER", "ACCEPTED") \in Responses
    BY DEF Response, Responses, RequestType, RequestStatus
  <2> HIDE DEF f
  <2> QED
    BY <1>1, <1>2, <1>3, <1>5, <2>1, <2>3, <2>4, <2>5, OrderAnswerHandled DEF Accepted
<1>6. ASSUME UNCHANGED <<oms, responses>>
      PROVE  IInv'
  <2>1. OmsStep
    BY <1>6 DEF OmsStep, IInv, Types
  <2> QED
    BY <1>1, <1>3, <1>6, <2>1, NoAnswerHandled
<1>7. ASSUME m.status # 200, Dispatch(m.request, Response("CREATE_ORDER", "REJECTED")),
             oms' = [oms EXCEPT ![o] = "finished"]
      PROVE  IInv'
  <2>1. ~Received(m)
    BY <1>7 DEF Received
  <2>2. exch[o] = "none"
    BY <1>1, <1>2, <1>7 DEF IsTrue
  <2>3. f = PlaceOf(o)
    BY <1>2 DEF PlaceOf
  <2>4. ~None(inbox, Answers(f))
    BY <1>1, <1>2, <2>1, TailOf DEF IInv, Types
  <2>5. None(outbox, {PlaceOf(o)}) /\ f \in Awaited
    BY <1>2, <2>3, <2>4 DEF IInv, OneUnderWay
  <2>6. oms[o] # "none"
    BY <1>2, <2>5 DEF Awaited, IInv, OnlyAsked
  <2>7. o \in Settled
    BY <1>2, <2>2, <2>5 DEF Settled
  <2>8. OmsStep
    BY <1>2, <1>7, <2>6, <2>7 DEF OmsStep, IInv, Types
  <2>9. ResponseIsTrue(m.request, Response("CREATE_ORDER", "REJECTED"), exch)
    BY <1>2, <2>2 DEF ResponseIsTrue, RequestId, Response
  <2>10. Response("CREATE_ORDER", "REJECTED") \in Responses
    BY DEF Response, Responses, RequestType, RequestStatus
  <2> HIDE DEF f
  <2> QED
    BY <1>1, <1>2, <1>3, <1>7, <2>1, <2>8, <2>9, <2>10, OrderAnswerHandled
<1> QED
  BY <1>4, <1>5, <1>6, <1>7

LEMMA AmendHandled == IInv /\ TradeOrderAmend => IInv'
<1> SUFFICES ASSUME IInv, TradeOrderAmend PROVE IInv'
  OBVIOUS
<1> DEFINE m == Head(inbox)
           o == m.request.order
           f == OrderFrame("order_amend", m.request)
<1>1. inbox # <<>> /\ m.channel = "order_amend"
  BY DEF TradeOrderAmend, Arrived
<1>2. /\ m \in AnswerTo("order_amend", "MODIFY_ORDER")
      /\ f \in ToExchange /\ f.channel = "order_amend" /\ f.request = m.request
      /\ m.request = RequestId("MODIFY_ORDER", o) /\ o \in Orders
      /\ ~Received(m) => m \in Answers(f)
      /\ IsTrue(m, exch, covered, Settled)
  BY <1>1, OrderAnswer
<1>3. Handled /\ UNCHANGED pending /\ ~Received(m)
  BY <1>1 DEF TradeOrderAmend, Received
<1>4. \/ m.status = 200 /\ Accepted("MODIFY_ORDER", m)
      \/ m.status # 200 /\ Rejected("CANCEL_ORDER", m)
  BY DEF TradeOrderAmend
<1>5. ASSUME m.status = 200, Accepted("MODIFY_ORDER", m)
      PROVE  IInv'
  <2>1. /\ m.text = o /\ exch[o] # "none"
        /\ m.order_status = "closed" => exch[o] = "closed"
    BY <1>1, <1>2, <1>3, <1>5 DEF IsTrue
  <2>2. OmsStep
    BY <1>2, <1>5, <2>1, OmsFollows DEF Accepted
  <2>3. ResponseIsTrue(m.request, Response("MODIFY_ORDER", "ACCEPTED"), exch)
    BY <1>2, <2>1 DEF ResponseIsTrue, RequestId, Response
  <2>4. Response("MODIFY_ORDER", "ACCEPTED") \in Responses
    BY DEF Response, Responses, RequestType, RequestStatus
  <2> HIDE DEF f
  <2> QED
    BY <1>1, <1>2, <1>3, <1>5, <2>2, <2>3, <2>4, OrderAnswerHandled DEF Accepted
<1>6. ASSUME Rejected("CANCEL_ORDER", m)
      PROVE  IInv'
  <2>1. OmsStep
    BY <1>6 DEF Rejected, OmsStep, IInv, Types
  <2>2. ResponseIsTrue(m.request, Response("CANCEL_ORDER", "REJECTED"), exch)
    BY DEF ResponseIsTrue, Response
  <2>3. Response("CANCEL_ORDER", "REJECTED") \in Responses
    BY DEF Response, Responses, RequestType, RequestStatus
  <2> HIDE DEF f
  <2> QED
    BY <1>1, <1>2, <1>3, <1>6, <2>1, <2>2, <2>3, OrderAnswerHandled DEF Rejected
<1> QED
  BY <1>4, <1>5, <1>6

LEMMA CancelHandled == IInv /\ TradeOrderCancel => IInv'
<1> SUFFICES ASSUME IInv, TradeOrderCancel PROVE IInv'
  OBVIOUS
<1> DEFINE m == Head(inbox)
           o == m.request.order
           f == OrderFrame("order_cancel", m.request)
<1>1. inbox # <<>> /\ m.channel = "order_cancel"
  BY DEF TradeOrderCancel, Arrived
<1>2. /\ m \in AnswerTo("order_cancel", "CANCEL_ORDER")
      /\ f \in ToExchange /\ f.channel = "order_cancel" /\ f.request = m.request
      /\ m.request = RequestId("CANCEL_ORDER", o) /\ o \in Orders
      /\ ~Received(m) => m \in Answers(f)
      /\ IsTrue(m, exch, covered, Settled)
  BY <1>1, OrderAnswer
<1>3. Handled /\ UNCHANGED pending /\ ~Received(m)
  BY <1>1 DEF TradeOrderCancel, Received
<1>4. \/ m.status = 200 /\ Accepted("CANCEL_ORDER", m)
      \/ m.status # 200 /\ Rejected("CANCEL_ORDER", m)
  BY DEF TradeOrderCancel
<1>5. ASSUME m.status = 200, Accepted("CANCEL_ORDER", m)
      PROVE  IInv'
  <2>1. m.text = o /\ exch[o] = "closed"
    BY <1>1, <1>2, <1>3, <1>5 DEF IsTrue
  <2>2. OmsStep
    BY <1>2, <1>5, <2>1, OmsFollows DEF Accepted
  <2>3. ResponseIsTrue(m.request, Response("CANCEL_ORDER", "ACCEPTED"), exch)
    BY <1>2, <2>1 DEF ResponseIsTrue, RequestId, Response
  <2>4. Response("CANCEL_ORDER", "ACCEPTED") \in Responses
    BY DEF Response, Responses, RequestType, RequestStatus
  <2> HIDE DEF f
  <2> QED
    BY <1>1, <1>2, <1>3, <1>5, <2>2, <2>3, <2>4, OrderAnswerHandled DEF Accepted
<1>6. ASSUME Rejected("CANCEL_ORDER", m)
      PROVE  IInv'
  <2>1. OmsStep
    BY <1>6 DEF Rejected, OmsStep, IInv, Types
  <2>2. ResponseIsTrue(m.request, Response("CANCEL_ORDER", "REJECTED"), exch)
    BY DEF ResponseIsTrue, Response
  <2>3. Response("CANCEL_ORDER", "REJECTED") \in Responses
    BY DEF Response, Responses, RequestType, RequestStatus
  <2> HIDE DEF f
  <2> QED
    BY <1>1, <1>2, <1>3, <1>6, <2>1, <2>2, <2>3, OrderAnswerHandled DEF Rejected
<1> QED
  BY <1>4, <1>5, <1>6

LEMMA UpdateHandled == IInv /\ TradeOrders => IInv'
<1> SUFFICES ASSUME IInv, TradeOrders PROVE IInv'
  OBVIOUS
<1> DEFINE m == Head(inbox)
<1>1. inbox # <<>> /\ m.channel = "orders"
  BY DEF TradeOrders, Arrived
<1>2. m \in ToGateway /\ 1 \in DOMAIN inbox /\ inbox[1] = m
  BY <1>1, TailOf DEF IInv, Types
<1>3. m.text \in Orders
  BY <1>1, <1>2 DEF ToGateway, AnswerTo
<1>4. m.order_status = "closed" => exch[m.text] = "closed"
  BY <1>1, <1>2 DEF IInv, InboxIsTrue, IsTrue
<1>5. OmsStep
  BY <1>3, <1>4, OmsFollows DEF TradeOrders
<1> QED
  BY <1>1, <1>5, NoAnswerHandled DEF TradeOrders

-----------------------------------------------------------------------------
(* The OMS asks.                                                           *)

(* A request is sent; only orders the OMS did not have are created.        *)
LEMMA RequestStep ==
    ASSUME IInv, NEW asks \in SUBSET Request, asks \cap asked = {}, asked' = asked \cup asks,
           NEW frames \in Seq(ToExchange), Send(frames),
           \A f \in ToExchange : AtMostOne(frames, {f}),
           \A f \in ToExchange : None(frames, {f}) \/ (f.request \in asks /\ f \in Awaited'),
           \A o \in Orders : None(frames, {PlaceOf(o)}) \/ oms[o] = "none",
           oms' \in [Orders -> {"none", "live", "finished"}],
           \A o \in Orders :
              \/ oms'[o] = oms[o] /\ RequestId("CREATE_ORDER", o) \notin asks
              \/ oms'[o] = "live" /\ RequestId("CREATE_ORDER", o) \in asks,
           \A o \in Orders : oms[o] # "none" => oms'[o] = oms[o],
           Awaited \subseteq Awaited', CancelAllFollows', AnsweredOnce',
           pending' \in [CancelAlls -> SUBSET Symbols],
           covered' \in [CancelAlls -> SUBSET Orders],
           \A n \in CancelAlls : CancelAllId(n) \in asked => covered'[n] = covered[n],
           UNCHANGED <<socket, inbox, exch, responses>>
    PROVE  IInv'
<1>1. Types /\ OnlyAsked /\ OneUnderWay /\ InboxIsTrue /\ OrdersAgree /\ CancelAllFollows
      /\ AnsweredOnce /\ AnswersAreTrue
  BY DEF IInv
<1>2. outbox' = outbox \o frames /\ outbox \in Seq(ToExchange)
  BY <1>1 DEF Send, Types
<1>3. Types'
  <2>1. outbox \o frames \in Seq(ToExchange)
    BY <1>2, ConcatProperties
  <2> QED
    BY <1>1, <1>2, <2>1 DEF Types
<1>4. OnlyAsked'
  BY <1>1 DEF OnlyAsked
<1>5. OneUnderWay'
  <2>1. \A f \in ToExchange : f.request \in asks => f \notin Awaited
    BY DEF Awaited
  <2> QED
    BY <1>1, <2>1, SendLeavesOne
<1>6. Steady
  <2>1. \A o \in Orders : None(outbox', {PlaceOf(o)})
           <=> None(outbox, {PlaceOf(o)}) /\ None(frames, {PlaceOf(o)})
    BY <1>2, NoneOf
  <2> QED
    BY <2>1 DEF Steady
<1>7. InboxIsTrue'
  BY <1>1, <1>6, TrueStays DEF InboxIsTrue
<1>8. \A o \in Orders : o \in Settled /\ oms[o] # "none" => o \in Settled'
  BY <1>1, <1>6, SettledStays
<1>9. OrdersAgree'
  <2>1. \A o \in Orders : exch[o] # "none" => oms'[o] # "none" /\ None(outbox', {PlaceOf(o)})
    BY <1>1, <1>6 DEF OrdersAgree, Steady
  <2>2. \A o \in Orders : oms'[o] = "finished" => o \in Settled'
    BY <1>1, <1>8 DEF OrdersAgree
  <2> QED
    BY <2>1, <2>2 DEF OrdersAgree
<1>10. AnswersAreTrue'
  <2>1. \A o \in Orders : oms'[o] = "finished" => exch[o] # "open"
    BY <1>9 DEF OrdersAgree, Settled
  <2> QED
    BY <1>1, <2>1 DEF AnswersAreTrue, Got
<1> QED
  BY <1>3, <1>4, <1>5, <1>7, <1>9, <1>10 DEF IInv

(* Of one order.                                                           *)
LEMMA OrderRequestStep ==
    ASSUME IInv, NEW f \in ToExchange, f.channel # "order_cancel_cp", f.request \notin asked,
           asked' = asked \cup {f.request}, Send(<<f>>),
           \/ f.channel # "order_place" /\ oms' = oms
           \/ /\ f.channel = "order_place" /\ oms[f.request.order] = "none"
              /\ oms' = [oms EXCEPT ![f.request.order] = "live"],
           UNCHANGED <<socket, inbox, exch, responses, pending, covered>>
    PROVE  IInv'
<1> DEFINE frames == <<f>>
           o == f.request.order
<1>1. Types /\ OnlyAsked /\ CancelAllFollows /\ AnsweredOnce
  BY DEF IInv
<1>2. frames \in Seq(ToExchange) /\ \A i \in DOMAIN frames : i = 1 /\ frames[i] = f
  OBVIOUS
<1>3. f.request \in Request /\ o \in Orders
  BY FrameFields, OrderOfFrame
<1> HIDE DEF frames
<1>4. \A g \in ToExchange : AtMostOne(frames, {g}) /\ (g # f => None(frames, {g}))
  BY <1>2 DEF AtMostOne, None
<1>5. Awaited \subseteq Awaited'
  BY DEF Awaited
<1>6. f \in Awaited'
  BY <1>1, <1>3 DEF Awaited, OnlyAsked
<1>7. ASSUME NEW p \in Orders
      PROVE  /\ None(frames, {PlaceOf(p)}) \/ oms[p] = "none"
             /\ \/ oms'[p] = oms[p] /\ RequestId("CREATE_ORDER", p) # f.request
                \/ oms'[p] = "live" /\ RequestId("CREATE_ORDER", p) = f.request
             /\ oms[p] # "none" => oms'[p] = oms[p]
  <2>1. PlaceOf(p) \in ToExchange /\ PlaceOf(p).channel = "order_place"
        /\ PlaceOf(p).request = RequestId("CREATE_ORDER", p)
        /\ RequestId("CREATE_ORDER", p).order = p
    BY PlaceFrame
  <2>2. f = PlaceOf(p) <=> f.request = RequestId("CREATE_ORDER", p)
    BY <2>1, OneFrame
  <2>3. CASE f.channel # "order_place"
    BY <1>4, <2>1, <2>2, <2>3
  <2>4. CASE f.channel = "order_place"
    <3>1. f = PlaceOf(o)
      BY <2>4, OrderOfFrame
    <3>2. f = PlaceOf(p) <=> o = p
      BY <1>3, <3>1, PlaceFrame
    <3>3. oms'[o] = "live" /\ oms[o] = "none" /\ \A q \in Orders : q # o => oms'[q] = oms[q]
      BY <1>1, <1>3, <2>4 DEF Types
    <3> QED
      BY <1>4, <2>1, <2>2, <3>2, <3>3
  <2> QED
    BY <2>3, <2>4
<1>8. oms' \in [Orders -> {"none", "live", "finished"}]
  BY <1>1, <1>3 DEF Types
<1>9. AnsweredOnce'
  BY <1>1 DEF AnsweredOnce
<1>10. CancelAllFollows'
  <2>1. ASSUME NEW n \in CancelAlls, NEW p \in covered[n]
        PROVE  /\ oms'[p] # "none"
               /\ Behind(outbox', CancelFrame(CancelAllId(n), SymbolOf[p]), PlaceOf(p))
               /\ SymbolOf[p] \notin pending[n] =>
                     Got(CancelAllId(n), "CANCEL_ALL_ORDERS", "REJECTED") \/ p \in Settled'
    <3>1. p \in Orders /\ SymbolOf[p] \in Symbols
      BY <1>1, OrderRequestsAssumption DEF Types, OrderRequestsAssumption
    <3>2. /\ oms[p] # "none"
          /\ Behind(outbox, CancelFrame(CancelAllId(n), SymbolOf[p]), PlaceOf(p))
          /\ SymbolOf[p] \notin pending[n] =>
                Got(CancelAllId(n), "CANCEL_ALL_ORDERS", "REJECTED") \/ p \in Settled
      BY <1>1 DEF CancelAllFollows
    <3>3. oms'[p] # "none" /\ None(frames, {PlaceOf(p)})
      BY <1>7, <3>1, <3>2
    <3>4. CancelFrame(CancelAllId(n), SymbolOf[p]) # PlaceOf(p)
      BY <3>1, PlaceFrame, CancelFrames
    <3>5. outbox' = outbox \o frames /\ outbox \in Seq(ToExchange)
      BY <1>1 DEF Send, Types, frames
    <3>6. Behind(outbox', CancelFrame(CancelAllId(n), SymbolOf[p]), PlaceOf(p))
      BY <1>2, <3>2, <3>3, <3>4, <3>5, BehindOf
    <3>7. None(outbox, {PlaceOf(p)}) => None(outbox', {PlaceOf(p)})
      BY <1>2, <3>3, <3>5, NoneOf
    <3>8. p \in Settled => p \in Settled'
      BY <3>7 DEF Settled
    <3> QED
      BY <3>2, <3>3, <3>6, <3>8
  <2> QED
    BY <2>1 DEF CancelAllFollows, Got
<1>11. Send(frames)
  BY DEF frames
<1>12. \A n \in CancelAlls : CancelAllId(n) \in asked => covered'[n] = covered[n]
  OBVIOUS
<1>13. \A g \in ToExchange : None(frames, {g}) \/ (g.request \in {f.request} /\ g \in Awaited')
  BY <1>4, <1>6
<1>14. \A p \in Orders :
          /\ None(frames, {PlaceOf(p)}) \/ oms[p] = "none"
          /\ \/ oms'[p] = oms[p] /\ RequestId("CREATE_ORDER", p) \notin {f.request}
             \/ oms'[p] = "live" /\ RequestId("CREATE_ORDER", p) \in {f.request}
          /\ oms[p] # "none" => oms'[p] = oms[p]
  BY <1>7
<1>15. pending' \in [CancelAlls -> SUBSET Symbols] /\ covered' \in [CancelAlls -> SUBSET Orders]
  BY <1>1 DEF Types
<1> DEFINE asks == {f.request}
<1>16. asks \in SUBSET Request /\ asks \cap asked = {} /\ asked' = asked \cup asks
  BY <1>3
<1>17. /\ \A g \in ToExchange : None(frames, {g}) \/ (g.request \in asks /\ g \in Awaited')
       /\ \A p \in Orders :
             \/ oms'[p] = oms[p] /\ RequestId("CREATE_ORDER", p) \notin asks
             \/ oms'[p] = "live" /\ RequestId("CREATE_ORDER", p) \in asks
  BY <1>13, <1>14
<1> HIDE DEF asks
<1> QED
  BY <1>2, <1>4, <1>5, <1>8, <1>9, <1>10, <1>11, <1>12, <1>14, <1>15, <1>16, <1>17, RequestStep

LEMMA OrderCreated ==
    ASSUME IInv, NEW o \in Orders, CreateOrder(o)
    PROVE  IInv'
<1> DEFINE f == PlaceOf(o)
<1>1. f \in ToExchange /\ f.channel = "order_place" /\ f.request = RequestId("CREATE_ORDER", o)
      /\ f.request.order = o
  BY PlaceFrame
<1>2. f.request \notin asked
  BY <1>1 DEF CreateOrder, IInv, OnlyAsked
<1>3. Send(<<f>>) /\ asked' = asked \cup {f.request}
  BY <1>1 DEF CreateOrder, PlaceOf
<1> HIDE DEF f
<1> QED
  BY <1>1, <1>2, <1>3, OrderRequestStep DEF CreateOrder

LEMMA OrderChanged ==
    ASSUME IInv, NEW o \in Orders, ModifyOrder(o) \/ CancelOrder(o)
    PROVE  IInv'
<1>1. ASSUME NEW c, NEW t,
             <<c, t>> \in {<<"order_amend", "MODIFY_ORDER">>, <<"order_cancel", "CANCEL_ORDER">>},
             RequestId(t, o) \notin asked, asked' = asked \cup {RequestId(t, o)},
             Send(<<OrderFrame(c, RequestId(t, o))>>),
             UNCHANGED <<socket, inbox, exch, oms, responses, pending, covered>>
      PROVE  IInv'
  <2> DEFINE f == OrderFrame(c, RequestId(t, o))
  <2>1. f \in ToExchange /\ f.channel = c /\ f.request = RequestId(t, o)
    BY <1>1 DEF ToExchange, Of, OrderFrame, RequestId
  <2> HIDE DEF f
  <2>2. Send(<<f>>)
    BY <1>1 DEF f
  <2> QED
    BY <1>1, <2>1, <2>2, OrderRequestStep
<1>2. CASE ModifyOrder(o)
  BY <1>1, <1>2 DEF ModifyOrder
<1>3. CASE CancelOrder(o)
  BY <1>1, <1>3 DEF CancelOrder
<1> QED
  BY <1>2, <1>3

LEMMA AllCancelled ==
    ASSUME IInv, NEW n \in CancelAlls, CancelAllOrders(n)
    PROVE  IInv'
<1> DEFINE r == CancelAllId(n)
           S == OrderSymbols
<1>1. Types /\ OnlyAsked /\ CancelAllFollows /\ AnsweredOnce
  BY DEF IInv
<1>2. /\ r \notin asked /\ asked' = asked \cup {r}
      /\ pending' = [pending EXCEPT ![n] = S] /\ covered' = [covered EXCEPT ![n] = Live]
      /\ UNCHANGED <<socket, inbox, exch, oms, responses>>
  BY DEF CancelAllOrders
<1>3. Live \in SUBSET Orders /\ S \in SUBSET Symbols /\ IsFiniteSet(S)
  <2>1. Live \in SUBSET Orders
    BY DEF Live
  <2>2. S \in SUBSET Symbols
    BY OrderRequestsAssumption DEF OrderRequestsAssumption, OrderSymbols, Live
  <2> QED
    BY <2>1, <2>2, FS_Subset, OrderRequestsAssumption DEF OrderRequestsAssumption
<1>4. PICK q \in SetToSeqs(S) : Send([i \in DOMAIN q |-> CancelFrame(r, q[i])])
  BY DEF CancelAllOrders
<1> DEFINE frames == [i \in DOMAIN q |-> CancelFrame(r, q[i])]
           k == Cardinality(S)
<1>5. k \in Nat /\ q \in [1..k -> S] /\ \A i, j \in 1..k : i # j => q[i] # q[j]
  BY <1>3, FS_CardinalityType DEF SetToSeqs
<1>6. /\ DOMAIN frames = 1..k
      /\ \A i \in 1..k : /\ q[i] \in S /\ frames[i] = CancelFrame(r, q[i])
                         /\ frames[i] \in ToExchange /\ frames[i].channel = "order_cancel_cp"
                         /\ frames[i].request = r /\ frames[i].symbol = q[i]
  BY <1>3, <1>5, CancelFrames
<1>7. frames \in Seq(ToExchange)
  <2>1. frames \in [1..k -> ToExchange]
    BY <1>5, <1>6
  <2> QED
    BY <1>5, <2>1
<1>8. r \in Request /\ r.number = n
  BY CancelFrames DEF r, CancelAllId, CancelAllRequest, Request
<1>9. Send(frames)
  BY <1>4
<1> HIDE DEF frames, r, S, k
<1>10. \A f \in ToExchange : AtMostOne(frames, {f})
  BY <1>5, <1>6 DEF AtMostOne
<1>11. /\ pending' \in [CancelAlls -> SUBSET Symbols] /\ pending'[n] = S
       /\ covered' \in [CancelAlls -> SUBSET Orders] /\ covered'[n] = Live
       /\ \A l \in CancelAlls : l # n => pending'[l] = pending[l] /\ covered'[l] = covered[l]
  BY <1>1, <1>2, <1>3 DEF Types
<1>12. \A l \in CancelAlls : CancelAllId(l) \in asked => l # n
  BY <1>2 DEF r
<1>13. \A f \in ToExchange : None(frames, {f}) \/ (f.request \in {r} /\ f \in Awaited')
  <2>1. ASSUME NEW f \in ToExchange, NEW i \in DOMAIN frames, frames[i] = f
        PROVE  f.request = r /\ f \in Awaited'
    <3>1. f.request = r /\ f.channel = "order_cancel_cp" /\ f.symbol \in S
      BY <1>6, <2>1
    <3> QED
      BY <1>2, <1>8, <1>11, <3>1 DEF Awaited
  <2> QED
    BY <2>1 DEF None
<1>14. \A o \in Orders : None(frames, {PlaceOf(o)})
  BY <1>6, PlaceFrame DEF None
<1>15. Awaited \subseteq Awaited'
  <2>1. ASSUME NEW f \in Awaited PROVE f \in Awaited'
    <3>1. f \in ToExchange /\ f.request \in asked
      BY DEF Awaited
    <3>2. CASE f.channel # "order_cancel_cp"
      BY <1>2, <3>2 DEF Awaited
    <3>3. CASE f.channel = "order_cancel_cp"
      <4>1. f.request.number \in CancelAlls /\ f.request.number # n
        BY <1>12, <3>1, <3>3, FrameFields
      <4> QED
        BY <1>2, <1>11, <3>3, <4>1 DEF Awaited
    <3> QED
      BY <3>2, <3>3
  <2> QED
    BY <2>1
<1>16. outbox' = outbox \o frames /\ outbox \in Seq(ToExchange)
  BY <1>1, <1>9 DEF Send, Types
<1>17. Settled \subseteq Settled'
  <2>1. \A o \in Orders : None(outbox, {PlaceOf(o)}) => None(outbox', {PlaceOf(o)})
    BY <1>7, <1>14, <1>16, NoneOf
  <2> QED
    BY <1>2, <2>1 DEF Settled
<1>18. CancelAllFollows'
  <2>1. ASSUME NEW l \in CancelAlls, NEW o \in covered'[l]
        PROVE  /\ oms[o] # "none"
               /\ Behind(outbox', CancelFrame(CancelAllId(l), SymbolOf[o]), PlaceOf(o))
               /\ SymbolOf[o] \notin pending'[l] =>
                     Got(CancelAllId(l), "CANCEL_ALL_ORDERS", "REJECTED") \/ o \in Settled'
    <3>1. o \in Orders /\ SymbolOf[o] \in Symbols
      BY <1>11, OrderRequestsAssumption DEF OrderRequestsAssumption
    <3> DEFINE f == CancelFrame(CancelAllId(l), SymbolOf[o])
    <3>2. f # PlaceOf(o) /\ f \in ToExchange /\ f.request = CancelAllId(l)
      BY <3>1, PlaceFrame, CancelFrames
    <3> HIDE DEF f
    <3>3. CASE l # n
      <4>1. o \in covered[l] /\ pending'[l] = pending[l]
        BY <1>11, <2>1, <3>3
      <4>2. /\ oms[o] # "none" /\ Behind(outbox, f, PlaceOf(o))
            /\ SymbolOf[o] \notin pending[l] =>
                  Got(CancelAllId(l), "CANCEL_ALL_ORDERS", "REJECTED") \/ o \in Settled
        BY <1>1, <4>1 DEF CancelAllFollows, f
      <4>3. Behind(outbox', f, PlaceOf(o))
        BY <1>7, <1>14, <1>16, <3>1, <3>2, <4>2, BehindOf
      <4> QED
        BY <1>17, <4>1, <4>2, <4>3 DEF f
    <3>4. CASE l = n
      <4>1. o \in Live /\ SymbolOf[o] \in S
        BY <1>11, <2>1, <3>4 DEF S, OrderSymbols
      <4>2. oms[o] # "none"
        BY <4>1 DEF Live
      <4>3. None(outbox, {f})
        <5>1. f \notin Awaited
          BY <1>2, <3>2, <3>4 DEF Awaited, r
        <5> QED
          BY <3>2, <5>1 DEF IInv, OneUnderWay
      <4>4. Behind(outbox, f, PlaceOf(o))
        BY <4>3 DEF Behind, None
      <4>5. Behind(outbox', f, PlaceOf(o))
        BY <1>7, <1>14, <1>16, <3>1, <3>2, <4>4, BehindOf
      <4> QED
        BY <1>11, <3>4, <4>1, <4>2, <4>5 DEF f
    <3> QED
      BY <3>3, <3>4
  <2> QED
    BY <1>2, <2>1 DEF CancelAllFollows, Got
<1>19. AnsweredOnce'
  <2>1. ASSUME NEW l \in CancelAlls
        PROVE  Len(responses[CancelAllId(l)]) + Cardinality(pending'[l])
                  <= Cardinality({SymbolOf[o] : o \in covered'[l]})
    <3>1. CASE l # n
      BY <1>1, <1>11, <3>1 DEF AnsweredOnce
    <3>2. CASE l = n
      <4>1. responses[CancelAllId(l)] = <<>>
        BY <1>1, <1>2, <1>8, <3>2 DEF OnlyAsked, r
      <4>2. {SymbolOf[o] : o \in covered'[l]} = S /\ pending'[l] = S
        BY <1>11, <3>2 DEF S, OrderSymbols
      <4>3. Cardinality(S) \in Nat /\ Len(<<>>) = 0
        BY <1>3, FS_CardinalityType
      <4>4. Len(responses[CancelAllId(l)]) = 0
        BY <4>1, <4>3
      <4>5. 0 + Cardinality(S) <= Cardinality(S)
        BY <4>3
      <4> QED
        BY <4>2, <4>4, <4>5
    <3> QED
      BY <3>1, <3>2
  <2> QED
    BY <1>1, <1>2, <2>1 DEF AnsweredOnce
<1>20. \A o \in Orders : RequestId("CREATE_ORDER", o) \notin {r}
  BY DEF RequestId, r, CancelAllId
<1>21. \A l \in CancelAlls : CancelAllId(l) \in asked => covered'[l] = covered[l]
  BY <1>11, <1>12
<1>22. {r} \in SUBSET Request /\ {r} \cap asked = {}
  BY <1>2, <1>8
<1>23. \A o \in Orders :
          /\ None(frames, {PlaceOf(o)}) \/ oms[o] = "none"
          /\ \/ oms'[o] = oms[o] /\ RequestId("CREATE_ORDER", o) \notin {r}
             \/ oms'[o] = "live" /\ RequestId("CREATE_ORDER", o) \in {r}
          /\ oms[o] # "none" => oms'[o] = oms[o]
  BY <1>2, <1>14, <1>20
<1>24. oms' \in [Orders -> {"none", "live", "finished"}]
  BY <1>1, <1>2 DEF Types
<1> DEFINE asks == {r}
<1>25. /\ asks \in SUBSET Request /\ asks \cap asked = {} /\ asked' = asked \cup asks
       /\ \A f \in ToExchange : None(frames, {f}) \/ (f.request \in asks /\ f \in Awaited')
       /\ \A o \in Orders :
             \/ oms'[o] = oms[o] /\ RequestId("CREATE_ORDER", o) \notin asks
             \/ oms'[o] = "live" /\ RequestId("CREATE_ORDER", o) \in asks
  BY <1>2, <1>13, <1>22, <1>23
<1> HIDE DEF asks
<1> QED
  BY <1>2, <1>7, <1>9, <1>10, <1>11, <1>15, <1>18, <1>19, <1>21, <1>23, <1>24, <1>25, RequestStep

-----------------------------------------------------------------------------
(* The connection is lost, with the frames of both directions.             *)
LEMMA ConnectionLost == IInv /\ Disconnected => IInv'
<1> SUFFICES ASSUME IInv, Disconnected PROVE IInv'
  OBVIOUS
<1>1. Types /\ OnlyAsked /\ OneUnderWay /\ InboxIsTrue /\ OrdersAgree /\ CancelAllFollows
      /\ AnsweredOnce /\ AnswersAreTrue
  BY DEF IInv
<1>2. /\ socket' = "down" /\ outbox' = <<>> /\ inbox' = <<>>
      /\ UNCHANGED <<asked, exch, oms, responses, pending, covered>>
  BY DEF Disconnected
<1>3. \A K : None(<<>>, K) /\ AtMostOne(<<>>, K)
  BY DEF None, AtMostOne
<1>4. Types'
  <2>1. <<>> \in Seq(ToExchange) /\ <<>> \in Seq(ToGateway)
    OBVIOUS
  <2> QED
    BY <1>1, <1>2, <2>1 DEF Types
<1>5. OnlyAsked' /\ InboxIsTrue'
  BY <1>1, <1>2 DEF OnlyAsked, InboxIsTrue
<1>6. OneUnderWay'
  BY <1>2, <1>3 DEF OneUnderWay
<1>7. Settled \subseteq Settled'
  BY <1>2, <1>3 DEF Settled
<1>8. OrdersAgree'
  BY <1>1, <1>2, <1>3, <1>7 DEF OrdersAgree
<1>9. CancelAllFollows'
  <2>1. \A f, g : Behind(<<>>, f, g)
    BY DEF Behind
  <2> QED
    BY <1>1, <1>2, <1>7, <2>1 DEF CancelAllFollows, Got
<1>10. AnsweredOnce' /\ AnswersAreTrue'
  BY <1>1, <1>2 DEF AnsweredOnce, AnswersAreTrue, Got
<1> QED
  BY <1>4, <1>5, <1>6, <1>8, <1>9, <1>10 DEF IInv

LEMMA InitIInv == Init => IInv
<1> SUFFICES ASSUME Init PROVE IInv
  OBVIOUS
<1>1. \A K : None(<<>>, K) /\ AtMostOne(<<>>, K)
  BY DEF None, AtMostOne
<1>2. Types
  <2>1. <<>> \in Seq(ToExchange) /\ <<>> \in Seq(ToGateway) /\ <<>> \in Seq(Responses)
    OBVIOUS
  <2> QED
    BY <2>1 DEF Init, Types
<1>3. OnlyAsked /\ InboxIsTrue /\ OrdersAgree
  BY OrderRequestIds DEF Init, OnlyAsked, InboxIsTrue, OrdersAgree
<1>4. OneUnderWay
  BY <1>1 DEF Init, OneUnderWay
<1>5. CancelAllFollows
  BY DEF Init, CancelAllFollows
<1>6. AnsweredOnce
  <2>1. Cardinality({}) = 0 /\ Len(<<>>) = 0
    BY FS_EmptySet
  <2>2. \A r \in OrderRequest : Len(responses[r]) <= 1
    BY <2>1 DEF Init, Request
  <2>3. \A n \in CancelAlls :
           /\ responses[CancelAllId(n)] = <<>> /\ pending[n] = {} /\ covered[n] = {}
    BY CancelFrames DEF Init, CancelAllId, Request, CancelAllRequest
  <2>4. \A n \in CancelAlls : {SymbolOf[o] : o \in covered[n]} = {}
    BY <2>3
  <2>5. \A n \in CancelAlls :
           /\ Len(responses[CancelAllId(n)]) = 0 /\ Cardinality(pending[n]) = 0
           /\ Cardinality({SymbolOf[o] : o \in covered[n]}) = 0
    BY <2>1, <2>3, <2>4
  <2> QED
    BY <2>2, <2>5 DEF AnsweredOnce
<1>7. AnswersAreTrue
  BY OrderRequestIds DEF Init, AnswersAreTrue, Got
<1> QED
  BY <1>2, <1>3, <1>4, <1>5, <1>6, <1>7 DEF IInv

LEMMA NextIInv == IInv /\ [Next]_vars => IInv'
<1> SUFFICES ASSUME IInv, [Next]_vars PROVE IInv'
  OBVIOUS
<1>1. CASE Ask
  <2>1. ASSUME NEW o \in Orders, CreateOrder(o) \/ ModifyOrder(o) \/ CancelOrder(o)
        PROVE  IInv'
    BY <2>1, OrderCreated, OrderChanged
  <2>2. ASSUME NEW n \in CancelAlls, CancelAllOrders(n)
        PROVE  IInv'
    BY <2>2, AllCancelled
  <2> QED
    BY <1>1, <2>1, <2>2 DEF Ask
<1>2. CASE Receive
  <2>1. CASE TradeOrderCancelCP
    BY <2>1, CancelAllAnswerHandled DEF TradeOrderCancelCP
  <2> QED
    BY <1>2, <2>1, PlaceHandled, AmendHandled, CancelHandled, UpdateHandled DEF Receive
<1>3. CASE Exchange
  BY <1>3, PlaceTaken, AmendTaken, CancelTaken, CancelCPTaken DEF Exchange
<1>4. CASE Disconnected
  BY <1>4, ConnectionLost
<1>5. ASSUME NEW o \in Orders, ExchangeFinish(o)
      PROVE  IInv'
  BY <1>5, OrderFinishes
<1>6. CASE UNCHANGED vars
  <2>1. Types' /\ OnlyAsked' /\ OrdersAgree' /\ AnsweredOnce' /\ AnswersAreTrue'
    BY <1>6 DEF vars, IInv, Types, OnlyAsked, OrdersAgree, AnsweredOnce, AnswersAreTrue, Got,
                Settled
  <2>2. OneUnderWay' /\ InboxIsTrue' /\ CancelAllFollows'
    BY <1>6 DEF vars, IInv, OneUnderWay, Awaited, InboxIsTrue, CancelAllFollows, Settled, Got
  <2> QED
    BY <2>1, <2>2 DEF IInv
<1> QED
  BY <1>1, <1>2, <1>3, <1>4, <1>5, <1>6 DEF Next

LEMMA Invariant == Spec => []IInv
BY InitIInv, NextIInv, PTL DEF Spec

-----------------------------------------------------------------------------
(* Every variable has its type, and nothing is on the wire that the OMS    *)
(* did not ask for.                                                        *)
THEOREM TypeCorrect == Spec => []TypeOK
<1>1. ASSUME IInv PROVE TypeOK
  <2>1. Types /\ OnlyAsked /\ OneUnderWay
    BY <1>1 DEF IInv
  <2>2. ASSUME NEW i \in DOMAIN outbox PROVE outbox[i].request \in asked
    <3>1. outbox[i] \in ToExchange
      BY <2>1 DEF Types
    <3>2. ~None(outbox, {outbox[i]})
      BY DEF None
    <3> QED
      BY <2>1, <3>1, <3>2 DEF OneUnderWay, Awaited
  <2>3. \A r \in Request : \A i \in DOMAIN responses[r] :
           responses[r][i].type \in RequestType \cup {"CANCEL_ALL_ORDERS"}
    <3>1. \A r \in Request : \A i \in DOMAIN responses[r] : responses[r][i] \in Responses
      BY <2>1 DEF Types
    <3> QED
      BY <3>1 DEF Responses
  <2> QED
    BY <2>1, <2>2, <2>3 DEF Types, OnlyAsked, TypeOK
<1>2. IInv => TypeOK
  BY <1>1
<1> QED
  BY <1>2, Invariant, PTL

(* A request for one order is answered at most once, whatever the exchange *)
(* acknowledges, and a cancel-all once for each symbol it was sent for.    *)
THEOREM OneAnswer == Spec => []AnsweredOnce
<1>1. IInv => AnsweredOnce
  BY DEF IInv
<1> QED
  BY <1>1, Invariant, PTL

(* In every order of answers, updates and losses: a creation that was      *)
(* accepted or refused, a cancel that was accepted, and an end that was    *)
(* reported are what became of the order at the exchange, and a change     *)
(* that was accepted is of an order the exchange knows.                    *)
THEOREM TrueAnswers == Spec => []AnswersAreTrue
<1>1. IInv => AnswersAreTrue
  BY DEF IInv
<1> QED
  BY <1>1, Invariant, PTL

(* A cancel-all that was answered for all its symbols without a refusal    *)
(* leaves none of the orders open that the OMS had, those included whose   *)
(* creation was still on its way when it was sent.                         *)
THEOREM CompleteCancelAll == Spec => []CancelAllIsComplete
<1>1. ASSUME IInv PROVE CancelAllIsComplete
  <2>1. SUFFICES ASSUME NEW n \in CancelAlls, pending[n] = {},
                        ~Got(CancelAllId(n), "CANCEL_ALL_ORDERS", "REJECTED"),
                        NEW o \in covered[n]
                 PROVE  exch[o] # "open"
    BY DEF CancelAllIsComplete
  <2>2. o \in Settled
    BY <1>1, <2>1 DEF IInv, CancelAllFollows
  <2> QED
    BY <2>2 DEF Settled
<1>2. IInv => CancelAllIsComplete
  BY <1>1
<1> QED
  BY <1>2, Invariant, PTL
=============================================================================
