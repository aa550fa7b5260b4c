--------------------------- MODULE OrderLifeProofs ---------------------------
(***************************************************************************)
(* The OMS has what was asked for and what the exchange has, and the       *)
(* exchange does what was asked for: for any requests and changes, any     *)
(* number of sessions, and any executions.                                 *)
(***************************************************************************)
EXTENDS OrderLife, SequenceTheorems, TLAPS

-----------------------------------------------------------------------------
(* An order of the exchange that is what was asked for.                    *)

AskedQuantities(a, c) == ({a.quantity} \cup {m.quantity : m \in c}) \ {NaN}

AskedPrices(a, c) == ({Price(a)} \cup {m.price : m \in c}) \ {NaN}

(* Its numbers: signed by the side, and what is left is part of the size.  *)
Measured(v, side) ==
    /\ Side(v.size) = side /\ Abs(v.left) <= Abs(v.size)
    /\ v.left # 0 => Side(v.left) = side

(* Only an open order has something left that may be executed.             *)
Ended(v) ==
    /\ v.status = "open" => v.left # 0 /\ v.finish_as \in {"", "new", "update"}
    /\ v.status # "open" => v.finish_as \notin {"", "new", "update", "reduce_out"}

Wanted(v, a, c) ==
    /\ a \in Requests /\ Supported(a)
    /\ v \in ExchangeOrder
    /\ v.tif = Tif(a)
    /\ v.reduce_only = ("DO_NOT_INCREASE" \in a.execution_instructions)
    /\ v.price \in AskedPrices(a, c) /\ Abs(v.size) \in AskedQuantities(a, c)
    /\ Measured(v, a.side) /\ Ended(v)

(* What the OMS has is read from such an order.                            *)
Reported(o, a, c) ==
    o.order_status \notin {"SENT", "REJECTED"} =>
        /\ o.side = a.side
        /\ o.quantity \in AskedQuantities(a, c)
        /\ o.time_in_force = (CASE IsMarket(a) -> "IOC"
                                [] ~IsMarket(a) /\ PostOnly(a) -> "GTC"
                                [] OTHER -> a.time_in_force)
        /\ o.traded + o.remaining = o.quantity
        /\ o.remaining \in 0 .. o.quantity

-----------------------------------------------------------------------------
(* The frames of each direction.                                           *)

Placements(a) ==
    {[type |-> "order_place", order |-> OrderPlace(r)] : r \in {r \in Requests : r = a /\ Supported(r)}}

Amendments(a, c) ==
    {[type |-> "order_amend", change |-> OrderAmend(n, r.side)] :
        n \in c, r \in {r \in Requests : r = a}}

Queries == [type : {"order_status"}, settle : {"", "usdt"}]

Cancels == [type : {"order_cancel"}]

Lists == [type : {"order_list"}]

ToExchange(a, c) == Placements(a) \cup Amendments(a, c) \cup Queries \cup Cancels \cup Lists

Values == ExchangeOrder \cup {NoOrder}

ToGateway ==
    [type : {"orders"}, value : ExchangeOrder]
    \cup [type : {"answer"}, request : {"order_place", "order_amend", "order_cancel"}, value : Values]
    \cup [type : {"order_list"}, value : Values]
    \cup {m \in [type : {"order_status"}, status : {200, 400, 404}, value : Values] :
             m.status = 200 => m.value # NoOrder}

(* The frames that the OMS takes an order from, and those that reject it.  *)
Carries(m) == m.value # NoOrder /\ (m.type = "order_status" => m.status = 200)

Rejects(m) ==
    \/ m.type = "answer" /\ m.request = "order_place" /\ m.value = NoOrder
    \/ m.type = "order_status" /\ m.status = 404

Like(v, w) ==
    /\ v.size = w.size /\ v.left = w.left /\ v.price = w.price /\ v.status = w.status

(* Frames carry the order as it was asked for, and its end as it ended.    *)
Heard(a, c, e) ==
    {m \in ToGateway :
        Carries(m) => /\ e # NoOrder /\ Wanted(m.value, a, c)
                      /\ m.value.status # "open" => Like(m.value, e)}

None(s, T) == \A i \in DOMAIN s : s[i].type \notin T

NoneCarries(s) == \A i \in DOMAIN s : ~Carries(s[i])

NoneRejects(s) == \A i \in DOMAIN s : ~Rejects(s[i])

AtMostOne(s, T) == \A i, j \in DOMAIN s : s[i].type \in T /\ s[j].type \in T => i = j

(* The last frame that carries the order has it as it is.                  *)
LastIsLike(s, e) ==
    \A i \in DOMAIN s :
        Carries(s[i]) /\ (\A j \in DOMAIN s : j > i => ~Carries(s[j])) => Like(s[i].value, e)

-----------------------------------------------------------------------------
(* The inductive invariant.                                                *)

Types ==
    /\ outbox \in Seq(ToExchange(asked, changes))
    /\ inbox \in Seq(Heard(asked, changes, exch))
    /\ asked \in Requests \cup {NoOrder} /\ changes \subseteq Changes
    /\ stale \in BOOLEAN /\ taken \in Nat

(* Nothing is heard of an order that nobody asked for.                     *)
OnlyAsked == asked = NoOrder => exch = NoOrder /\ oms = NoOrder

OmsIsAsked ==
    oms # NoOrder =>
        oms \in OmsOrder /\ oms.side = asked.side /\ Reported(oms, asked, changes)

ExchIsAsked ==
    /\ exch # NoOrder => Wanted(exch, asked, changes) /\ (IsOpen(exch) => exch.finish_as = "")
    /\ taken > 0 => exch # NoOrder /\ exch.tif # "poc"

Lost == state = "UNDEFINED" => outbox = <<>> /\ inbox = <<>> /\ (Lives(oms) => stale)

(* Only an order that the OMS has is asked about, or rejected.             *)
OnlyKnown ==
    \/ oms # NoOrder
    \/ ~stale /\ None(outbox, {"order_status", "order_place"}) /\ NoneRejects(inbox)

Placing ==
    \/ None(outbox, {"order_place"})
    \/ /\ exch = NoOrder /\ Lives(oms) /\ ~stale
       /\ AtMostOne(outbox, {"order_place"}) /\ None(outbox, {"order_status"})
       /\ NoneRejects(inbox)

Refused == NoneRejects(inbox) \/ exch = NoOrder

(* The OMS has an order that the exchange does not have.                   *)
Unplaced ==
    (exch = NoOrder /\ Lives(oms)) =>
        stale \/ ~None(outbox, {"order_place"}) \/ ~NoneRejects(inbox)

Agrees(o, e) ==
    /\ o.quantity = Abs(e.size) /\ o.remaining = Abs(e.left) /\ o.price = e.price
    /\ (o.order_status = "WORKING") = (e.status = "open")

(* The exchange has an order, of which nothing is under way.               *)
Settled ==
    (exch # NoOrder /\ NoneCarries(inbox)) =>
        \/ stale
        \/ oms # NoOrder /\ Agrees(oms, exch)
        \/ oms = NoOrder /\ (IsOpen(exch) => state = "UNDEFINED" \/ ~None(outbox, {"order_list"}))

(* An order that the OMS takes for finished is.                            *)
Over == (exch # NoOrder /\ oms # NoOrder /\ ~Lives(oms)) => ~IsOpen(exch) /\ Agrees(oms, exch)

Told == exch # NoOrder => LastIsLike(inbox, exch)

IInv ==
    /\ Types /\ OnlyAsked /\ OmsIsAsked /\ ExchIsAsked
    /\ Lost /\ OnlyKnown /\ Placing /\ Refused /\ Unplaced /\ Settled /\ Over /\ Told

-----------------------------------------------------------------------------
(* Sequences of frames.                                                    *)

LEMMA ConcatOf ==
    ASSUME NEW S, NEW s \in Seq(S), NEW t \in Seq(S)
    PROVE  /\ s \o t \in Seq(S)
           /\ \A T : None(s \o t, T) <=> None(s, T) /\ None(t, T)
           /\ NoneCarries(s \o t) <=> NoneCarries(s) /\ NoneCarries(t)
           /\ NoneRejects(s \o t) <=> NoneRejects(s) /\ NoneRejects(t)
<1>1. \A i \in DOMAIN s : i \in DOMAIN (s \o t) /\ (s \o t)[i] = s[i]
  OBVIOUS
<1>2. \A i \in DOMAIN t : i + Len(s) \in DOMAIN (s \o t) /\ (s \o t)[i + Len(s)] = t[i]
  OBVIOUS
<1>3. \A i \in DOMAIN (s \o t) :
         \/ i \in DOMAIN s /\ (s \o t)[i] = s[i]
         \/ i - Len(s) \in DOMAIN t /\ (s \o t)[i] = t[i - Len(s)]
  OBVIOUS
<1>4. s \o t \in Seq(S)
  OBVIOUS
<1>5. ASSUME NEW T PROVE None(s \o t, T) <=> None(s, T) /\ None(t, T)
  BY <1>1, <1>2, <1>3 DEF None
<1>6. NoneCarries(s \o t) <=> NoneCarries(s) /\ NoneCarries(t)
  BY <1>1, <1>2, <1>3 DEF NoneCarries
<1>7. NoneRejects(s \o t) <=> NoneRejects(s) /\ NoneRejects(t)
  BY <1>1, <1>2, <1>3 DEF NoneRejects
<1> QED BY <1>4, <1>5, <1>6, <1>7

LEMMA OneOf ==
    ASSUME NEW S, NEW s \in Seq(S), NEW t \in Seq(S), NEW T,
           AtMostOne(s, T), AtMostOne(t, T), None(s, T) \/ None(t, T)
    PROVE  AtMostOne(s \o t, T)
<1>1. \A i \in DOMAIN (s \o t) :
         /\ i \in DOMAIN s => (s \o t)[i] = s[i]
         /\ i \notin DOMAIN s => i - Len(s) \in DOMAIN t /\ (s \o t)[i] = t[i - Len(s)]
  OBVIOUS
<1>2. SUFFICES ASSUME NEW i \in DOMAIN (s \o t), NEW j \in DOMAIN (s \o t),
                      (s \o t)[i].type \in T, (s \o t)[j].type \in T
               PROVE  i = j
  BY DEF AtMostOne
<1>3. i \in Int /\ j \in Int /\ Len(s) \in Int
  OBVIOUS
<1>4. CASE None(s, T)
  <2>1. i \notin DOMAIN s /\ j \notin DOMAIN s
    BY <1>1, <1>2, <1>4 DEF None
  <2>2. i - Len(s) = j - Len(s)
    BY <1>1, <1>2, <2>1 DEF AtMostOne
  <2> QED BY <1>3, <2>2
<1>5. CASE None(t, T)
  <2>1. i \in DOMAIN s /\ j \in DOMAIN s
    BY <1>1, <1>2, <1>5 DEF None
  <2> QED BY <1>1, <1>2, <2>1 DEF AtMostOne
<1> QED BY <1>4, <1>5

LEMMA TailOf ==
    ASSUME NEW S, NEW s \in Seq(S), s # <<>>
    PROVE  /\ Head(s) \in S /\ Tail(s) \in Seq(S)
           /\ \A T : None(s, T) <=> Head(s).type \notin T /\ None(Tail(s), T)
           /\ NoneCarries(s) <=> ~Carries(Head(s)) /\ NoneCarries(Tail(s))
           /\ NoneRejects(s) <=> ~Rejects(Head(s)) /\ NoneRejects(Tail(s))
           /\ \A T : AtMostOne(s, T) =>
                 AtMostOne(Tail(s), T) /\ (Head(s).type \in T => None(Tail(s), T))
<1>1. Head(s) \in S /\ Tail(s) \in Seq(S) /\ 1 \in DOMAIN s /\ s[1] = Head(s)
  OBVIOUS
<1>2. \A i \in DOMAIN Tail(s) : i \in Nat \ {0} /\ i + 1 \in DOMAIN s /\ Tail(s)[i] = s[i + 1]
  OBVIOUS
<1>3. \A i \in DOMAIN s : i # 1 => i - 1 \in DOMAIN Tail(s) /\ Tail(s)[i - 1] = s[i]
  OBVIOUS
<1>4. ASSUME NEW T PROVE None(s, T) <=> Head(s).type \notin T /\ None(Tail(s), T)
  BY <1>1, <1>2, <1>3 DEF None
<1>5. NoneCarries(s) <=> ~Carries(Head(s)) /\ NoneCarries(Tail(s))
  BY <1>1, <1>2, <1>3 DEF NoneCarries
<1>6. NoneRejects(s) <=> ~Rejects(Head(s)) /\ NoneRejects(Tail(s))
  BY <1>1, <1>2, <1>3 DEF NoneRejects
<1>7. ASSUME NEW T, AtMostOne(s, T)
      PROVE  AtMostOne(Tail(s), T) /\ (Head(s).type \in T => None(Tail(s), T))
  <2>1. ASSUME NEW i \in DOMAIN Tail(s), NEW j \in DOMAIN Tail(s),
               Tail(s)[i].type \in T, Tail(s)[j].type \in T
        PROVE  i = j
    <3>1. i + 1 = j + 1
      BY <1>2, <1>7, <2>1 DEF AtMostOne
    <3> QED BY <1>2, <3>1
  <2>2. ASSUME Head(s).type \in T, NEW i \in DOMAIN Tail(s), Tail(s)[i].type \in T
        PROVE  FALSE
    <3>1. i + 1 = 1
      BY <1>1, <1>2, <1>7, <2>2 DEF AtMostOne
    <3> QED BY <1>2, <3>1
  <2> QED BY <2>1, <2>2 DEF AtMostOne, None
<1> QED BY <1>1, <1>4, <1>5, <1>6, <1>7

(* What carries the order is behind, or nothing that was appended does.    *)
LEMMA LastOfConcat ==
    ASSUME NEW S, NEW s \in Seq(S), NEW t \in Seq(S), NEW e,
           \A i \in DOMAIN t : Carries(t[i]) => Like(t[i].value, e),
           NoneCarries(t) => LastIsLike(s, e)
    PROVE  LastIsLike(s \o t, e)
<1>1. \A i \in DOMAIN s : i \in DOMAIN (s \o t) /\ (s \o t)[i] = s[i] /\ i <= Len(s)
  OBVIOUS
<1>2. \A i \in DOMAIN t :
         /\ i \in Int /\ i >= 1
         /\ i + Len(s) \in DOMAIN (s \o t) /\ (s \o t)[i + Len(s)] = t[i]
  OBVIOUS
<1>3. \A i \in DOMAIN (s \o t) :
         \/ i \in DOMAIN s /\ (s \o t)[i] = s[i]
         \/ i - Len(s) \in DOMAIN t /\ (s \o t)[i] = t[i - Len(s)]
  OBVIOUS
<1>4. SUFFICES ASSUME NEW i \in DOMAIN (s \o t), Carries((s \o t)[i]),
                      \A j \in DOMAIN (s \o t) : j > i => ~Carries((s \o t)[j])
               PROVE  Like((s \o t)[i].value, e)
  BY DEF LastIsLike
<1>5. CASE i - Len(s) \in DOMAIN t /\ (s \o t)[i] = t[i - Len(s)]
  BY <1>4, <1>5
<1>6. CASE i \in DOMAIN s /\ (s \o t)[i] = s[i]
  <2>1. i \in Int /\ Len(s) \in Int
    BY <1>6
  <2>2. \A j \in DOMAIN t : j + Len(s) > i
    BY <1>1, <1>2, <1>6, <2>1
  <2>3. NoneCarries(t)
    BY <1>2, <1>4, <2>2 DEF NoneCarries
  <2>4. \A j \in DOMAIN s : j > i => ~Carries(s[j])
    BY <1>1, <1>4
  <2> QED BY <1>4, <1>6, <2>3, <2>4 DEF LastIsLike
<1> QED BY <1>3, <1>5, <1>6

LEMMA LastOfTail ==
    ASSUME NEW S, NEW s \in Seq(S), s # <<>>, NEW e, LastIsLike(s, e)
    PROVE  /\ LastIsLike(Tail(s), e)
           /\ Carries(Head(s)) /\ NoneCarries(Tail(s)) => Like(Head(s).value, e)
<1>1. \A i \in DOMAIN Tail(s) : i \in Nat \ {0} /\ i + 1 \in DOMAIN s /\ Tail(s)[i] = s[i + 1]
  OBVIOUS
<1>2. \A i \in DOMAIN s : i \in Int /\ i >= 1 /\ (i # 1 => i - 1 \in DOMAIN Tail(s) /\ Tail(s)[i - 1] = s[i])
  OBVIOUS
<1>3. 1 \in DOMAIN s /\ s[1] = Head(s)
  OBVIOUS
<1>4. ASSUME NEW i \in DOMAIN Tail(s), Carries(Tail(s)[i]),
             \A j \in DOMAIN Tail(s) : j > i => ~Carries(Tail(s)[j])
      PROVE  Like(Tail(s)[i].value, e)
  <2>1. i \in Int /\ i >= 1 /\ i + 1 \in DOMAIN s /\ Tail(s)[i] = s[i + 1]
    BY <1>1
  <2>2. ASSUME NEW j \in DOMAIN s, j > i + 1 PROVE ~Carries(s[j])
    <3>1. j # 1 /\ j - 1 > i
      BY <1>2, <2>1, <2>2
    <3> QED BY <1>2, <1>4, <3>1
  <2> QED BY <1>4, <2>1, <2>2 DEF LastIsLike
<1>5. ASSUME Carries(Head(s)), NoneCarries(Tail(s)) PROVE Like(Head(s).value, e)
  <2>1. ASSUME NEW j \in DOMAIN s, j > 1 PROVE ~Carries(s[j])
    <3>1. j # 1
      BY <1>2, <2>1
    <3> QED BY <1>2, <1>5, <3>1 DEF NoneCarries
  <2> QED BY <1>3, <1>5, <2>1 DEF LastIsLike
<1> QED BY <1>4, <1>5 DEF LastIsLike

LEMMA ElementsOf ==
    ASSUME NEW S, NEW s \in Seq(S)
    PROVE  /\ \A i \in DOMAIN s : s[i] \in S
           /\ s # <<>> => 1 \in DOMAIN s
           /\ \A T : (\A i \in DOMAIN s : s[i] \in T) => s \in Seq(T)
OBVIOUS

LEMMA EmptyOf ==
    /\ \A S : <<>> \in Seq(S)
    /\ \A T : None(<<>>, T) /\ AtMostOne(<<>>, T)
    /\ NoneCarries(<<>>) /\ NoneRejects(<<>>) /\ \A e : LastIsLike(<<>>, e)
BY DEF None, AtMostOne, NoneCarries, NoneRejects, LastIsLike

LEMMA SingleOf ==
    ASSUME NEW m
    PROVE  /\ \A S : m \in S => <<m>> \in Seq(S)
           /\ \A T : (None(<<m>>, T) <=> m.type \notin T) /\ AtMostOne(<<m>>, T)
           /\ NoneCarries(<<m>>) <=> ~Carries(m)
           /\ NoneRejects(<<m>>) <=> ~Rejects(m)
           /\ <<m>> # <<>> /\ \A i \in DOMAIN <<m>> : <<m>>[i] = m
<1>1. DOMAIN <<m>> = {1} /\ <<m>>[1] = m
  OBVIOUS
<1>2. \A S : m \in S => <<m>> \in Seq(S)
  OBVIOUS
<1> QED BY <1>1, <1>2 DEF None, AtMostOne, NoneCarries, NoneRejects

LEMMA PairOf ==
    ASSUME NEW m, NEW n
    PROVE  /\ \A S : m \in S /\ n \in S => <<m, n>> \in Seq(S)
           /\ \A T : (None(<<m, n>>, T) <=> m.type \notin T /\ n.type \notin T)
           /\ NoneCarries(<<m, n>>) <=> ~Carries(m) /\ ~Carries(n)
           /\ NoneRejects(<<m, n>>) <=> ~Rejects(m) /\ ~Rejects(n)
           /\ <<m, n>> # <<>> /\ \A i \in DOMAIN <<m, n>> : <<m, n>>[i] \in {m, n}
<1>1. DOMAIN <<m, n>> = {1, 2} /\ <<m, n>>[1] = m /\ <<m, n>>[2] = n
  OBVIOUS
<1>2. \A S : m \in S /\ n \in S => <<m, n>> \in Seq(S)
  OBVIOUS
<1> QED BY <1>1, <1>2 DEF None, NoneCarries, NoneRejects

-----------------------------------------------------------------------------
(* An order keeps to what was asked for.                                   *)

LEMMA RequestFields ==
    ASSUME NEW c \in Requests
    PROVE  /\ c.side \in {"BUY", "SELL"} /\ c.order_type \in {"LIMIT", "MARKET"}
           /\ c.quantity \in Nat \ {0} /\ c.price \in (Nat \ {0}) \cup {NaN}
           /\ c.time_in_force \in TimesInForce
           /\ c # NoOrder
BY OrderLifeAssumption DEF OrderLifeAssumption, OrderRequest

LEMMA ChangeFields ==
    ASSUME NEW m \in Changes
    PROVE  /\ m.quantity \in (Nat \ {0}) \cup {NaN}
           /\ m.price \in (Nat \ {0}) \cup {NaN} /\ m.price \in Int
<1>1. m.quantity \in (Nat \ {0}) \cup {NaN} /\ m.price \in (Nat \ {0}) \cup {NaN}
  BY OrderLifeAssumption DEF OrderLifeAssumption, ChangeRequest
<1>2. \A n \in (Nat \ {0}) \cup {NaN} : n \in Int
  BY DEF NaN
<1> QED BY <1>1, <1>2

LEMMA AskedNumbers ==
    ASSUME NEW a \in Requests, NEW c \in SUBSET Changes
    PROVE  /\ AskedQuantities(a, c) \subseteq Nat \ {0} /\ a.quantity \in AskedQuantities(a, c)
           /\ AskedPrices(a, c) \subseteq Nat /\ Price(a) \in AskedPrices(a, c)
BY RequestFields, ChangeFields DEF AskedQuantities, AskedPrices, Price, NaN

LEMMA TifType ==
    ASSUME NEW a \in Requests, Supported(a)
    PROVE  /\ Tif(a) \in {"gtc", "ioc", "fok", "poc"}
           /\ Tif(a) = "poc" <=> ~IsMarket(a) /\ PostOnly(a)
           /\ TimeInForce[Tif(a)] = (CASE IsMarket(a) -> "IOC"
                                       [] ~IsMarket(a) /\ PostOnly(a) -> "GTC"
                                       [] OTHER -> a.time_in_force)
<1>1. DOMAIN TifOf = {"GTC", "IOC", "FOK"}
  BY DEF TifOf
<1>2. CASE IsMarket(a)
  BY <1>2 DEF Tif, TimeInForce
<1>3. CASE ~IsMarket(a) /\ PostOnly(a)
  BY <1>3 DEF Tif, TimeInForce
<1>4. CASE ~IsMarket(a) /\ ~PostOnly(a)
  <2>1. Tif(a) = TifOf[a.time_in_force] /\ a.time_in_force \in {"GTC", "IOC", "FOK"}
    BY <1>1, <1>4 DEF Tif, Supported
  <2> QED BY <1>4, <2>1 DEF TifOf, TimeInForce
<1> QED BY <1>2, <1>3, <1>4

LEMMA MoreIsWanted ==
    ASSUME NEW v, NEW a, NEW c, NEW d, c \subseteq d, Wanted(v, a, c)
    PROVE  Wanted(v, a, d)
BY DEF Wanted, AskedQuantities, AskedPrices

LEMMA MoreIsReported ==
    ASSUME NEW o, NEW a, NEW c, NEW d, c \subseteq d, Reported(o, a, c)
    PROVE  Reported(o, a, d)
BY DEF Reported, AskedQuantities

(* A quantity gets the sign of the side.                                   *)
LEMMA SignedQuantity ==
    ASSUME NEW side \in {"BUY", "SELL"}, NEW q \in Nat \ {0}
    PROVE  /\ Sign(side) * q \in Int /\ Sign(side) * q # 0
           /\ Side(Sign(side) * q) = side /\ Abs(Sign(side) * q) = q
<1>1. CASE side = "BUY"
  <2>1. Sign(side) * q = q
    BY <1>1 DEF Sign
  <2> QED BY <1>1, <2>1 DEF Side, Abs
<1>2. CASE side = "SELL"
  <2>1. Sign(side) * q = -q /\ q \in Int /\ q > 0
    BY <1>2 DEF Sign
  <2> QED BY <1>2, <2>1 DEF Side, Abs
<1> QED BY <1>1, <1>2

(* What is placed.                                                         *)
LEMMA PlacedIsWanted ==
    ASSUME NEW a \in Requests, NEW c \in SUBSET Changes, Supported(a)
    PROVE  /\ Wanted(Resting(OrderPlace(a)), a, c)
           /\ IsOpen(Resting(OrderPlace(a))) /\ Resting(OrderPlace(a)).finish_as = ""
           /\ Resting(OrderPlace(a)).tif = Tif(a)
<1> DEFINE v == Resting(OrderPlace(a))
<1>s. v.size = Sign(a.side) * a.quantity
  BY DEF Resting, OrderPlace
<1>1. /\ v.left = v.size /\ v.price = Price(a)
      /\ v.tif = Tif(a) /\ v.status = "open" /\ v.finish_as = ""
  BY DEF Resting, OrderPlace
<1>r. v.reduce_only = ("DO_NOT_INCREASE" \in a.execution_instructions)
  BY DEF Resting, OrderPlace
<1>2. v = [size |-> v.size, left |-> v.left, price |-> v.price, tif |-> v.tif,
           reduce_only |-> v.reduce_only, status |-> v.status, finish_as |-> v.finish_as]
  BY DEF Resting, OrderPlace
<1> HIDE DEF v
<1>3. a.side \in {"BUY", "SELL"} /\ a.quantity \in Nat \ {0}
  BY RequestFields
<1>4. v.size \in Int /\ v.size # 0 /\ Side(v.size) = a.side /\ Abs(v.size) = a.quantity
  BY <1>s, <1>3, SignedQuantity
<1>5. v.price \in AskedPrices(a, c) /\ v.price \in Int /\ Abs(v.size) \in AskedQuantities(a, c)
  <2>1. Price(a) \in AskedPrices(a, c) /\ AskedPrices(a, c) \subseteq Nat
        /\ a.quantity \in AskedQuantities(a, c)
    BY AskedNumbers
  <2>2. v.price \in AskedPrices(a, c)
    BY <1>1, <2>1
  <2>3. v.price \in Int
    BY <2>1, <2>2
  <2>4. Abs(v.size) \in AskedQuantities(a, c)
    BY <1>4, <2>1
  <2> QED BY <2>2, <2>3, <2>4
<1>6. Measured(v, a.side) /\ Ended(v)
  <2>1. Abs(v.left) <= Abs(v.size)
    <3>1. Abs(v.left) = a.quantity /\ Abs(v.size) = a.quantity
      BY <1>1, <1>4
    <3> QED BY <1>3, <3>1
  <2>2. v.left # 0 /\ Side(v.left) = a.side
    BY <1>1, <1>4
  <2> QED BY <1>1, <1>4, <2>1, <2>2 DEF Measured, Ended
<1>7. v \in ExchangeOrder
  <2>1. v.tif \in DOMAIN TimeInForce
    BY <1>1, TifType DEF TimeInForce
  <2>2. v.reduce_only \in BOOLEAN
    BY <1>r
  <2> QED BY <1>1, <1>2, <1>4, <1>5, <2>1, <2>2 DEF ExchangeOrder
<1>8. v # NoOrder
  BY <1>7, OrderLifeAssumption DEF OrderLifeAssumption
<1>9. Wanted(v, a, c)
  BY <1>1, <1>r, <1>5, <1>6, <1>7 DEF Wanted
<1> QED BY <1>1, <1>8, <1>9 DEF v, IsOpen

-----------------------------------------------------------------------------

(* Some of what is left is executed.                                       *)
LEMMA LeftIsLess ==
    ASSUME NEW size \in Int, NEW left \in Int, NEW side,
           Side(size) = side, Abs(left) <= Abs(size), left # 0 => Side(left) = side,
           NEW n \in 0 .. Abs(left)
    PROVE  LET less == IF size < 0 THEN left + n ELSE left - n
           IN  /\ less \in Int /\ Abs(less) <= Abs(size) /\ (less # 0 => Side(less) = side)
<1>1. Abs(left) \in Int /\ Abs(size) \in Int /\ n \in Int /\ 0 <= n /\ n <= Abs(left)
  BY DEF Abs
<1>2. CASE size < 0
  <2>1. left <= 0
    BY <1>2 DEF Side
  <2>2. left + n <= 0 /\ Abs(left) = -left
    BY <1>1, <2>1 DEF Abs
  <2> QED BY <1>1, <1>2, <2>1, <2>2 DEF Abs, Side
<1>3. CASE ~(size < 0)
  <2>1. left >= 0
    BY <1>3 DEF Side
  <2>2. left - n >= 0 /\ Abs(left) = left
    BY <1>1, <2>1 DEF Abs
  <2> QED BY <1>1, <1>3, <2>1, <2>2 DEF Abs, Side
<1> QED BY <1>2, <1>3

LEMMA WantedFields ==
    ASSUME NEW v, NEW a, NEW c, Wanted(v, a, c)
    PROVE  /\ v \in ExchangeOrder /\ v # NoOrder
           /\ v.size \in Int /\ v.left \in Int /\ v.price \in Int
           /\ v.tif \in {"gtc", "ioc", "fok", "poc"}
           /\ v.status \in {"open", "finished"}
<1>1. v \in ExchangeOrder
  BY DEF Wanted
<1>2. v # NoOrder
  BY <1>1, OrderLifeAssumption DEF OrderLifeAssumption
<1> QED BY <1>1, <1>2 DEF ExchangeOrder, TimeInForce

(* What changes of an order is how much is left and whether that is all.   *)
LEMMA LeftIsWanted ==
    ASSUME NEW v, NEW a, NEW c, Wanted(v, a, c),
           NEW left \in Int, Abs(left) <= Abs(v.size), left # 0 => Side(left) = a.side,
           NEW status \in {"open", "finished"}, NEW finish_as \in DOMAIN FinishedAs \cup {""},
           status = "open" => left # 0 /\ finish_as = "",
           status = "finished" => finish_as \notin {"", "new", "update", "reduce_out"}
    PROVE  Wanted([v EXCEPT !.left = left, !.status = status, !.finish_as = finish_as], a, c)
<1> DEFINE w == [v EXCEPT !.left = left, !.status = status, !.finish_as = finish_as]
<1>1. v \in ExchangeOrder
  BY DEF Wanted
<1>2. w \in ExchangeOrder
  BY <1>1 DEF ExchangeOrder
<1>3. w.size = v.size /\ w.left = left /\ w.status = status /\ w.finish_as = finish_as
      /\ w.price = v.price /\ w.tif = v.tif
  BY <1>1 DEF ExchangeOrder
<1>4. w.reduce_only = v.reduce_only
  BY <1>1 DEF ExchangeOrder
<1> HIDE DEF w
<1>5. Measured(w, a.side)
  BY <1>3 DEF Wanted, Measured
<1>6. Ended(w)
  BY <1>3 DEF Ended
<1>7. Wanted(w, a, c)
  BY <1>2, <1>3, <1>4, <1>5, <1>6 DEF Wanted
<1> QED BY <1>7 DEF w

LEMMA ExecutedIsWanted ==
    ASSUME NEW v, NEW a, NEW c, Wanted(v, a, c), v.status = "open", v.finish_as = "",
           NEW n \in 0 .. Abs(v.left)
    PROVE  /\ Wanted(Execute(v, n), a, c)
           /\ Execute(v, n).tif = v.tif
           /\ Execute(v, n).status = "open" => Execute(v, n).finish_as = ""
<1> DEFINE left == IF v.size < 0 THEN v.left + n ELSE v.left - n
<1>1. v \in ExchangeOrder /\ v.size \in Int /\ v.left \in Int
  BY WantedFields
<1>2. Side(v.size) = a.side /\ Abs(v.left) <= Abs(v.size) /\ (v.left # 0 => Side(v.left) = a.side)
  BY DEF Wanted, Measured
<1>3. left \in Int /\ Abs(left) <= Abs(v.size) /\ (left # 0 => Side(left) = a.side)
  BY <1>1, <1>2, LeftIsLess
<1>4. {"filled", "ioc"} \subseteq DOMAIN FinishedAs
  BY DEF FinishedAs
<1> HIDE DEF left
<1>5. CASE left = 0
  <2>1. Execute(v, n) = [v EXCEPT !.left = 0, !.status = "finished", !.finish_as = "filled"]
    BY <1>5 DEF Execute, left
  <2>2. Wanted([v EXCEPT !.left = left, !.status = "finished", !.finish_as = "filled"], a, c)
    BY <1>3, <1>4, LeftIsWanted
  <2> QED BY <1>1, <1>5, <2>1, <2>2 DEF ExchangeOrder
<1>6. CASE left # 0 /\ v.tif \in {"ioc", "fok"}
  <2>1. Execute(v, n) = [v EXCEPT !.left = left, !.status = "finished", !.finish_as = "ioc"]
    BY <1>6 DEF Execute, left
  <2>2. Wanted([v EXCEPT !.left = left, !.status = "finished", !.finish_as = "ioc"], a, c)
    BY <1>3, <1>4, LeftIsWanted
  <2> QED BY <1>1, <2>1, <2>2 DEF ExchangeOrder
<1>7. CASE left # 0 /\ v.tif \notin {"ioc", "fok"}
  <2>1. Execute(v, n) = [v EXCEPT !.left = left]
    BY <1>7 DEF Execute, left
  <2>2. Wanted([v EXCEPT !.left = left, !.status = "open", !.finish_as = ""], a, c)
    BY <1>3, <1>7, LeftIsWanted
  <2>3. [v EXCEPT !.left = left] = [v EXCEPT !.left = left, !.status = "open", !.finish_as = ""]
    BY <1>1 DEF ExchangeOrder
  <2> QED BY <1>1, <2>1, <2>2, <2>3 DEF ExchangeOrder
<1> QED BY <1>5, <1>6, <1>7

(* An order that may rest takes none, all or some of what is left.         *)
LEMMA TakesSome ==
    ASSUME NEW v, NEW a, NEW c, Wanted(v, a, c), NEW n \in Takes(v)
    PROVE  n \in 0 .. Abs(v.left) /\ n \in Nat /\ (v.tif = "poc" => n = 0)
<1>1. Abs(v.left) \in Nat
  BY WantedFields DEF Abs
<1>2. CASE v.tif = "poc"
  BY <1>1, <1>2 DEF Takes
<1>3. CASE v.tif = "fok"
  BY <1>1, <1>3 DEF Takes
<1>4. CASE v.tif \notin {"poc", "fok"}
  BY <1>1, <1>4 DEF Takes
<1> QED BY <1>2, <1>3, <1>4

(* An order that the exchange ends.                                        *)
LEMMA EndedIsWanted ==
    ASSUME NEW v, NEW a, NEW c, Wanted(v, a, c),
           NEW how \in DOMAIN FinishedAs, how \notin {"new", "update", "reduce_out"}
    PROVE  /\ Wanted([v EXCEPT !.status = "finished", !.finish_as = how], a, c)
           /\ [v EXCEPT !.status = "finished", !.finish_as = how].status = "finished"
           /\ [v EXCEPT !.status = "finished", !.finish_as = how].tif = v.tif
<1>1. v \in ExchangeOrder /\ v.left \in Int
  BY WantedFields
<1>2. Abs(v.left) <= Abs(v.size) /\ (v.left # 0 => Side(v.left) = a.side)
  BY DEF Wanted, Measured
<1>3. how # ""
  BY DEF FinishedAs
<1>4. Wanted([v EXCEPT !.left = v.left, !.status = "finished", !.finish_as = how], a, c)
  BY <1>1, <1>2, <1>3, LeftIsWanted
<1>5. [v EXCEPT !.left = v.left, !.status = "finished", !.finish_as = how]
         = [v EXCEPT !.status = "finished", !.finish_as = how]
  BY <1>1 DEF ExchangeOrder
<1> QED BY <1>1, <1>4, <1>5 DEF ExchangeOrder

(* What is pushed is the order, and says how an open order came about.     *)
LEMMA PushedIsWanted ==
    ASSUME NEW v, NEW a, NEW c, Wanted(v, a, c), NEW how \in {"", "new", "update"}
    PROVE  /\ Wanted(Push(v, how).value, a, c) /\ Like(Push(v, how).value, v)
           /\ Push(v, how) = [type |-> "orders", value |-> Push(v, how).value]
<1> DEFINE w == Push(v, how).value
<1>1. Push(v, how) = [type |-> "orders", value |-> w]
  BY DEF Push
<1>2. v \in ExchangeOrder /\ Ended(v)
  BY DEF Wanted
<1>3. CASE v.status = "open"
  <2>1. w = [v EXCEPT !.finish_as = how]
    BY <1>3 DEF Push
  <2> HIDE DEF w
  <2>2. how \in DOMAIN FinishedAs \cup {""}
    BY DEF FinishedAs
  <2>3. w \in ExchangeOrder
    BY <1>2, <2>1, <2>2 DEF ExchangeOrder
  <2>4. /\ w.size = v.size /\ w.left = v.left /\ w.price = v.price /\ w.status = v.status
        /\ w.tif = v.tif /\ w.finish_as = how
    BY <1>2, <2>1 DEF ExchangeOrder
  <2>5. w.reduce_only = v.reduce_only
    BY <1>2, <2>1 DEF ExchangeOrder
  <2>6. Measured(w, a.side) /\ Ended(w)
    BY <1>2, <1>3, <2>4 DEF Wanted, Measured, Ended
  <2>7. Wanted(w, a, c)
    BY <2>3, <2>4, <2>5, <2>6 DEF Wanted
  <2>8. Wanted(w, a, c) /\ Like(w, v)
    BY <2>4, <2>7 DEF Like
  <2> QED BY <1>1, <2>8 DEF w
<1>4. CASE v.status # "open"
  <2>1. w = v
    BY <1>4 DEF Push
  <2> QED BY <1>1, <2>1 DEF Like
<1> QED BY <1>3, <1>4

(* The fields of a change that is sent.                                    *)
LEMMA ChangeSent ==
    ASSUME NEW m, NEW side, NEW d
    PROVE  /\ Change(OrderAmend(m, side), "size", d)
                 = IF m.quantity = NaN THEN d ELSE Sign(side) * m.quantity
           /\ Change(OrderAmend(m, side), "price", d) = IF m.price = NaN THEN d ELSE m.price
<1> DEFINE f == OrderAmend(m, side)
           given == [size |-> m.quantity # NaN, price |-> m.price # NaN]
<1>1. DOMAIN given = {"size", "price"}
      /\ (given["size"] <=> m.quantity # NaN) /\ (given["price"] <=> m.price # NaN)
  OBVIOUS
<1>2. f = [k \in {k \in DOMAIN given : given[k]} |->
              IF k = "size" THEN Sign(side) * m.quantity ELSE m.price]
  BY DEF OrderAmend
<1> HIDE DEF given, f
<1>3. /\ "size" \in DOMAIN f <=> m.quantity # NaN
      /\ "price" \in DOMAIN f <=> m.price # NaN
      /\ "size" \in DOMAIN f => f["size"] = Sign(side) * m.quantity
      /\ "price" \in DOMAIN f => f["price"] = m.price
  BY <1>1, <1>2
<1> QED BY <1>3 DEF Change, f

LEMMA UpdateNumbers ==
    ASSUME NEW size \in Int, NEW left \in Int, Abs(left) <= Abs(size)
    PROVE  /\ Abs(size) \in Nat /\ Abs(left) \in 0 .. Abs(size)
           /\ Abs(size) - Abs(left) \in Nat
           /\ (Abs(size) - Abs(left)) + Abs(left) = Abs(size)
BY DEF Abs

LEMMA SameSign ==
    ASSUME NEW m \in Int, NEW n \in Int, m * n > 0
    PROVE  (m < 0 /\ n < 0) \/ (m > 0 /\ n > 0)
<1>1. m # 0 /\ n # 0
  BY SMT
<1>2. CASE m < 0 /\ n > 0
  <2>1. m * n < 0
    BY <1>2, SMT
  <2> QED BY <2>1
<1>3. CASE m > 0 /\ n < 0
  <2>1. m * n < 0
    BY <1>3, SMT
  <2> QED BY <2>1
<1> QED BY <1>1, <1>2, <1>3

(* What is left after the size was changed.                                *)
LEMMA LeftOfSize ==
    ASSUME NEW size \in Int, NEW executed \in Nat,
           LET left == IF size < 0 THEN size + executed ELSE size - executed IN left * size > 0
    PROVE  LET left == IF size < 0 THEN size + executed ELSE size - executed
           IN  /\ left \in Int /\ left # 0 /\ Side(left) = Side(size) /\ Abs(left) <= Abs(size)
<1> DEFINE left == IF size < 0 THEN size + executed ELSE size - executed
<1>1. left \in Int /\ left * size > 0
  OBVIOUS
<1>2. (size < 0 => left = size + executed) /\ (~(size < 0) => left = size - executed)
  OBVIOUS
<1> HIDE DEF left
<1>3. (left < 0 /\ size < 0) \/ (left > 0 /\ size > 0)
  BY <1>1, SameSign
<1>4. left # 0 /\ Side(left) = Side(size) /\ Abs(left) <= Abs(size)
  BY <1>1, <1>2, <1>3 DEF Side, Abs
<1> QED BY <1>1, <1>4 DEF left

(* An order that is changed on request.                                    *)
NewSize(e, m, side) == Change(OrderAmend(m, side), "size", e.size)

NewLeft(e, m, side) ==
    IF NewSize(e, m, side) < 0 THEN NewSize(e, m, side) + Executed(e)
    ELSE NewSize(e, m, side) - Executed(e)

NewPrice(e, m, side) == Change(OrderAmend(m, side), "price", e.price)

SomeIsLeft(e, m, side) == NewLeft(e, m, side) * NewSize(e, m, side) > 0

Amended(e, m, side) ==
    [e EXCEPT !.size = NewSize(e, m, side), !.left = NewLeft(e, m, side),
              !.price = NewPrice(e, m, side)]

LEMMA AmendedIsWanted ==
    ASSUME NEW e, NEW a, NEW c \in SUBSET Changes, NEW m \in c,
           Wanted(e, a, c), e.status = "open", e.finish_as = "", SomeIsLeft(e, m, a.side)
    PROVE  LET w == Amended(e, m, a.side)
           IN  Wanted(w, a, c) /\ w.status = "open" /\ w.finish_as = "" /\ w.tif = e.tif
<1> DEFINE size == NewSize(e, m, a.side)
           left == NewLeft(e, m, a.side)
           price == NewPrice(e, m, a.side)
           w == Amended(e, m, a.side)
<1>1. e \in ExchangeOrder /\ e.size \in Int /\ e.left \in Int /\ e.price \in Int
  BY WantedFields
<1>2. a \in Requests /\ m \in Changes /\ a.side \in {"BUY", "SELL"}
  BY RequestFields DEF Wanted
<1>3. m.quantity \in (Nat \ {0}) \cup {NaN} /\ m.price \in (Nat \ {0}) \cup {NaN}
  BY <1>2, ChangeFields
<1>4. size \in Int /\ Side(size) = a.side /\ Abs(size) \in AskedQuantities(a, c)
  <2>1. CASE m.quantity = NaN
    <3>1. size = e.size
      BY <2>1, ChangeSent DEF NewSize
    <3> QED BY <1>1, <3>1 DEF Wanted, Measured
  <2>2. CASE m.quantity # NaN
    <3>1. size = Sign(a.side) * m.quantity
      BY <2>2, ChangeSent DEF NewSize
    <3>2. m.quantity \in Nat \ {0} /\ m.quantity \in AskedQuantities(a, c)
      BY <1>3, <2>2 DEF AskedQuantities
    <3>3. Sign(a.side) * m.quantity \in Int /\ Side(Sign(a.side) * m.quantity) = a.side
          /\ Abs(Sign(a.side) * m.quantity) = m.quantity
      BY <1>2, <3>2, SignedQuantity
    <3> QED BY <3>1, <3>2, <3>3
  <2> QED BY <2>1, <2>2
<1>5. price \in Int /\ price \in AskedPrices(a, c)
  <2>1. CASE m.price = NaN
    <3>1. price = e.price
      BY <2>1, ChangeSent DEF NewPrice
    <3> QED BY <1>1, <3>1 DEF Wanted
  <2>2. CASE m.price # NaN
    <3>1. price = m.price
      BY <2>2, ChangeSent DEF NewPrice
    <3>2. m.price \in Int
      BY <1>2, ChangeFields
    <3>3. m.price \in AskedPrices(a, c)
      BY <2>2 DEF AskedPrices
    <3> QED BY <3>1, <3>2, <3>3, Zenon
  <2> QED BY <2>1, <2>2
<1>6. Executed(e) \in Nat
  <2>1. Abs(e.left) <= Abs(e.size)
    BY DEF Wanted, Measured
  <2>2. Abs(e.size) - Abs(e.left) \in Nat
    BY <1>1, <2>1, UpdateNumbers
  <2> QED BY <2>2 DEF Executed
<1>7. left \in Int /\ left # 0 /\ Side(left) = Side(size) /\ Abs(left) <= Abs(size)
  <2>1. LET l == IF size < 0 THEN size + Executed(e) ELSE size - Executed(e) IN l * size > 0
    BY DEF SomeIsLeft, NewLeft
  <2>2. LET l == IF size < 0 THEN size + Executed(e) ELSE size - Executed(e)
        IN  l \in Int /\ l # 0 /\ Side(l) = Side(size) /\ Abs(l) <= Abs(size)
    BY <1>4, <1>6, <2>1, LeftOfSize
  <2> QED BY <2>2 DEF NewLeft
<1> HIDE DEF size, left, price
<1>8. w = [e EXCEPT !.size = size, !.left = left, !.price = price]
  BY DEF Amended, size, left, price
<1> HIDE DEF w
<1>9. w \in ExchangeOrder
  BY <1>1, <1>4, <1>5, <1>7, <1>8 DEF ExchangeOrder
<1>10. w.size = size /\ w.left = left /\ w.price = price /\ w.tif = e.tif
       /\ w.status = "open" /\ w.finish_as = ""
  BY <1>1, <1>8 DEF ExchangeOrder
<1>11. w.reduce_only = e.reduce_only
  BY <1>1, <1>8 DEF ExchangeOrder
<1>12. Measured(w, a.side) /\ Ended(w)
  BY <1>4, <1>7, <1>10 DEF Measured, Ended
<1>13. Wanted(w, a, c)
  BY <1>4, <1>5, <1>9, <1>10, <1>11, <1>12 DEF Wanted
<1> QED BY <1>10, <1>13 DEF w

-----------------------------------------------------------------------------
(* What the OMS is told.                                                   *)

LEMMA UpdateStatus ==
    ASSUME NEW v \in ExchangeOrder, Ended(v)
    PROVE  /\ OrderStatus(v) \in {"WORKING", "COMPLETED", "CANCELED"}
           /\ OrderStatus(v) = "WORKING" <=> v.status = "open"
<1>1. v.finish_as \in DOMAIN FinishedAs \cup {""} /\ v.status \in {"open", "finished"}
  BY DEF ExchangeOrder
<1>2. "" \notin DOMAIN FinishedAs
  BY DEF FinishedAs
<1>3. CASE v.finish_as = ""
  <2>1. v.status = "open"
    BY <1>1, <1>3 DEF Ended
  <2> QED BY <1>2, <1>3, <2>1 DEF OrderStatus
<1>4. CASE v.finish_as # ""
  <2>1. OrderStatus(v) = FinishedAs[v.finish_as] /\ v.finish_as \in DOMAIN FinishedAs
    BY <1>1, <1>4 DEF OrderStatus
  <2>2. CASE v.status = "open"
    <3>1. v.finish_as \in {"new", "update"}
      BY <1>4, <2>2 DEF Ended
    <3> QED BY <2>1, <2>2, <3>1 DEF FinishedAs
  <2>3. CASE v.status # "open"
    <3>1. v.finish_as \notin {"new", "update", "reduce_out"}
      BY <2>3 DEF Ended
    <3>2. FinishedAs[v.finish_as] \in {"COMPLETED", "CANCELED"}
      BY <2>1, <3>1 DEF FinishedAs
    <3> QED BY <2>1, <2>3, <3>2
  <2> QED BY <2>2, <2>3
<1> QED BY <1>3, <1>4

(* create_order_update tells the OMS what was asked for and what is.       *)
LEMMA UpdateIsReported ==
    ASSUME NEW v, NEW a, NEW c \in SUBSET Changes, Wanted(v, a, c),
           NEW t \in {"INCREMENTAL", "SNAPSHOT"}
    PROVE  LET u == CreateOrderUpdate(v, t)
           IN  /\ u \in OmsOrder /\ u.side = a.side /\ Reported(u, a, c) /\ Agrees(u, v)
               /\ u.order_status \in {"WORKING", "COMPLETED", "CANCELED"}
<1> DEFINE u == CreateOrderUpdate(v, t)
<1>1. /\ u.side = Side(v.size) /\ u.order_type = OrderType(t)
      /\ u.time_in_force = TimeInForce[v.tif] /\ u.order_status = OrderStatus(v)
      /\ u.price = v.price /\ u.quantity = Abs(v.size) /\ u.remaining = Abs(v.left)
  BY DEF CreateOrderUpdate
<1>2. u.traded = Abs(v.size) - Abs(v.left)
  BY DEF CreateOrderUpdate
<1>3. u = [side |-> u.side, order_type |-> u.order_type, time_in_force |-> u.time_in_force,
           order_status |-> u.order_status, price |-> u.price, quantity |-> u.quantity,
           remaining |-> u.remaining, traded |-> u.traded]
  BY DEF CreateOrderUpdate
<1> HIDE DEF u
<1>4. v \in ExchangeOrder /\ v.size \in Int /\ v.left \in Int /\ v.price \in Int
      /\ a \in Requests /\ Supported(a) /\ Ended(v)
  BY WantedFields DEF Wanted
<1>5. u.side = a.side /\ a.side \in {"BUY", "SELL"}
  BY <1>1, <1>4, RequestFields DEF Wanted, Measured
<1>6. u.order_status \in {"WORKING", "COMPLETED", "CANCELED"}
      /\ (u.order_status = "WORKING" <=> v.status = "open")
  BY <1>1, <1>4, UpdateStatus
<1>7. /\ u.quantity \in Int /\ u.remaining \in Int /\ u.remaining \in 0 .. u.quantity
      /\ u.traded \in Int /\ u.traded + u.remaining = u.quantity
  <2>1. Abs(v.left) <= Abs(v.size)
    BY DEF Wanted, Measured
  <2>2. /\ Abs(v.size) \in Nat /\ Abs(v.left) \in 0 .. Abs(v.size)
        /\ Abs(v.size) - Abs(v.left) \in Nat
        /\ (Abs(v.size) - Abs(v.left)) + Abs(v.left) = Abs(v.size)
    BY <1>4, <2>1, UpdateNumbers
  <2> QED BY <1>1, <1>2, <2>2
<1>8. /\ u.time_in_force \in TimesInForce
      /\ u.time_in_force = (CASE IsMarket(a) -> "IOC"
                              [] ~IsMarket(a) /\ PostOnly(a) -> "GTC"
                              [] OTHER -> a.time_in_force)
  <2>1. v.tif = Tif(a)
    BY DEF Wanted
  <2>2. Tif(a) \in {"gtc", "ioc", "fok", "poc"}
        /\ TimeInForce[Tif(a)] = (CASE IsMarket(a) -> "IOC"
                                    [] ~IsMarket(a) /\ PostOnly(a) -> "GTC"
                                    [] OTHER -> a.time_in_force)
    BY <1>4, TifType
  <2>3. TimeInForce[Tif(a)] \in TimesInForce
    BY <2>2 DEF TimeInForce, TimesInForce
  <2> QED BY <1>1, <2>1, <2>2, <2>3
<1>9. u \in OmsOrder
  <2>1. u.order_type \in {"LIMIT", "MARKET", "UNDEFINED"} /\ u.price \in Int
    BY <1>1, <1>4 DEF OrderType
  <2> QED BY <1>3, <1>5, <1>6, <1>7, <1>8, <2>1 DEF OmsOrder
<1>10. Reported(u, a, c)
  <2>1. u.quantity \in AskedQuantities(a, c)
    BY <1>1 DEF Wanted
  <2> QED BY <1>5, <1>7, <1>8, <2>1 DEF Reported
<1>11. Agrees(u, v)
  BY <1>1, <1>6 DEF Agrees
<1> QED BY <1>5, <1>6, <1>9, <1>10, <1>11 DEF u

(* What an update is made of stays when the OMS keeps the type of order.   *)
LEMMA Updated ==
    ASSUME Types, OmsIsAsked, NEW v, Wanted(v, asked, changes),
           NEW t \in {"INCREMENTAL", "SNAPSHOT"}, Update(v, t)
    PROVE  /\ oms' \in OmsOrder /\ oms' # NoOrder /\ oms'.side = asked.side
           /\ Reported(oms', asked, changes) /\ Agrees(oms', v)
           /\ oms'.order_status \in {"WORKING", "COMPLETED", "CANCELED"}
           /\ stale' = FALSE
<1> DEFINE u == CreateOrderUpdate(v, t)
<1>1. u \in OmsOrder /\ u.side = asked.side /\ Reported(u, asked, changes) /\ Agrees(u, v)
      /\ u.order_status \in {"WORKING", "COMPLETED", "CANCELED"}
  BY UpdateIsReported DEF Types
<1>2. oms' = (IF u.order_type = "UNDEFINED" /\ oms # NoOrder
              THEN [u EXCEPT !.order_type = oms.order_type] ELSE u) /\ stale' = FALSE
  BY DEF Update
<1> HIDE DEF u
<1>3. NoOrder \notin OmsOrder
  BY OrderLifeAssumption DEF OrderLifeAssumption
<1>4. CASE oms' = u
  BY <1>1, <1>2, <1>3, <1>4
<1>5. CASE oms # NoOrder /\ oms' = [u EXCEPT !.order_type = oms.order_type]
  <2>1. oms.order_type \in {"LIMIT", "MARKET", "UNDEFINED"}
    BY <1>5 DEF OmsIsAsked, OmsOrder
  <2>2. oms' \in OmsOrder
    BY <1>1, <1>5, <2>1 DEF OmsOrder
  <2>3. /\ oms'.side = u.side /\ oms'.quantity = u.quantity /\ oms'.remaining = u.remaining
        /\ oms'.traded = u.traded /\ oms'.price = u.price
        /\ oms'.order_status = u.order_status /\ oms'.time_in_force = u.time_in_force
    BY <1>1, <1>5 DEF OmsOrder
  <2>4. Reported(oms', asked, changes)
    BY <1>1, <2>3 DEF Reported
  <2>5. Agrees(oms', v)
    BY <1>1, <2>3 DEF Agrees
  <2> QED BY <1>1, <1>2, <1>3, <2>2, <2>3, <2>4, <2>5
<1> QED BY <1>2, <1>4, <1>5

LEMMA Rejected ==
    ASSUME OmsIsAsked, oms # NoOrder, Reject
    PROVE  /\ oms' \in OmsOrder /\ oms' # NoOrder /\ oms'.side = asked.side
           /\ Reported(oms', asked, changes) /\ oms'.order_status = "REJECTED"
           /\ stale' = FALSE
<1>1. oms \in OmsOrder /\ oms.side = asked.side
  BY DEF OmsIsAsked
<1>2. oms' = [oms EXCEPT !.order_status = "REJECTED"] /\ stale' = FALSE
  BY DEF Reject
<1>3. oms' \in OmsOrder /\ oms'.side = oms.side /\ oms'.order_status = "REJECTED"
  BY <1>1, <1>2 DEF OmsOrder
<1>4. oms' # NoOrder
  BY <1>3, OrderLifeAssumption DEF OrderLifeAssumption
<1>5. Reported(oms', asked, changes)
  BY <1>3 DEF Reported
<1> QED BY <1>1, <1>2, <1>3, <1>4, <1>5

LEMMA LikeAgrees ==
    ASSUME NEW o, NEW v, NEW e, Agrees(o, v), Like(v, e)
    PROVE  Agrees(o, e)
BY DEF Agrees, Like

-----------------------------------------------------------------------------
(* What a frame that is heard can say.                                     *)

LEMMA HeardFrame ==
    ASSUME NEW a, NEW c, NEW e, NEW m \in Heard(a, c, e)
    PROVE  /\ m \in ToGateway
           /\ Carries(m) => e # NoOrder /\ Wanted(m.value, a, c)
           /\ Carries(m) /\ m.value.status # "open" => Like(m.value, e)
BY DEF Heard

(* More may be heard the more was asked for, and later in an order's life. *)
LEMMA MoreIsHeard ==
    ASSUME NEW a, NEW c, NEW d, c \subseteq d, NEW e
    PROVE  Heard(a, c, e) \subseteq Heard(a, d, e)
BY MoreIsWanted DEF Heard

LEMMA LaterIsHeard ==
    ASSUME NEW a, NEW c, NEW e, NEW f, e = NoOrder \/ (IsOpen(e) /\ f # NoOrder)
    PROVE  Heard(a, c, e) \subseteq Heard(a, c, f)
<1>1. SUFFICES ASSUME NEW m \in Heard(a, c, e), Carries(m)
               PROVE  /\ f # NoOrder /\ Wanted(m.value, a, c)
                      /\ m.value.status # "open" => Like(m.value, f)
  BY DEF Heard
<1>2. e # NoOrder /\ Wanted(m.value, a, c) /\ (m.value.status # "open" => Like(m.value, e))
  BY <1>1, HeardFrame
<1>3. m.value.status = "open"
  BY <1>2 DEF IsOpen, Like
<1> QED BY <1>2, <1>3

LEMMA MoreIsSent ==
    ASSUME NEW a, NEW c, NEW d, c \subseteq d
    PROVE  ToExchange(a, c) \subseteq ToExchange(a, d)
BY DEF ToExchange, Amendments

LEMMA QueriesSent ==
    ASSUME NEW q \in Seq(Queries)
    PROVE  /\ \A a, c : q \in Seq(ToExchange(a, c))
           /\ \A T : "order_status" \notin T => None(q, T)
           /\ AtMostOne(q, {"order_place"}) /\ (q # <<>> => ~None(q, {"order_status"}))
<1>1. \A i \in DOMAIN q : q[i] \in Queries /\ q[i].type = "order_status"
  <2>1. \A i \in DOMAIN q : q[i] \in Queries
    OBVIOUS
  <2>2. \A m \in Queries : m.type = "order_status"
    BY DEF Queries
  <2> QED BY <2>1, <2>2
<1>2. \A a, c : Queries \subseteq ToExchange(a, c)
  BY DEF ToExchange
<1>3. ASSUME NEW a, NEW c PROVE q \in Seq(ToExchange(a, c))
  BY <1>2, SeqMonotonic
<1>4. \A T : "order_status" \notin T => None(q, T)
  BY <1>1 DEF None
<1>5. AtMostOne(q, {"order_place"})
  BY <1>1 DEF AtMostOne
<1>6. q # <<>> => ~None(q, {"order_status"})
  <2>1. q # <<>> => 1 \in DOMAIN q
    OBVIOUS
  <2> QED BY <1>1, <2>1 DEF None
<1> QED BY <1>3, <1>4, <1>5, <1>6

-----------------------------------------------------------------------------
(* A frame that arrived is handled.                                        *)

LEMMA Handling ==
    ASSUME IInv, inbox # <<>>, inbox' = Tail(inbox),
           UNCHANGED <<asked, changes, exch, taken>>, state' # "UNDEFINED",
           NEW q \in Seq(Queries), outbox' = outbox \o q, q # <<>> => stale',
           \/ /\ Carries(Head(inbox))
              /\ \E t \in {"INCREMENTAL", "SNAPSHOT"} : Update(Head(inbox).value, t)
           \/ ~Carries(Head(inbox)) /\ Rejects(Head(inbox)) /\ Reject
           \/ ~Carries(Head(inbox)) /\ ~Rejects(Head(inbox)) /\ oms' = oms /\ stale' = stale
    PROVE  IInv'
<1> DEFINE h == Head(inbox)
           v == Head(inbox).value
           rest == Tail(inbox)
<1>1. /\ Types /\ OnlyAsked /\ OmsIsAsked /\ ExchIsAsked
      /\ Lost /\ OnlyKnown /\ Placing /\ Refused /\ Unplaced /\ Settled /\ Over /\ Told
  BY DEF IInv
<1>2. /\ h \in Heard(asked, changes, exch) /\ rest \in Seq(Heard(asked, changes, exch))
      /\ NoneCarries(inbox) <=> ~Carries(h) /\ NoneCarries(rest)
      /\ NoneRejects(inbox) <=> ~Rejects(h) /\ NoneRejects(rest)
  BY <1>1, TailOf DEF Types
<1>3. /\ outbox' \in Seq(ToExchange(asked, changes))
      /\ \A T : None(outbox', T) <=> None(outbox, T) /\ None(q, T)
      /\ None(q, {"order_place"}) /\ None(q, {"order_list"}) /\ AtMostOne(q, {"order_place"})
  <2>1. q \in Seq(ToExchange(asked, changes)) /\ None(q, {"order_place"})
        /\ None(q, {"order_list"}) /\ AtMostOne(q, {"order_place"})
    BY QueriesSent
  <2> QED BY <1>1, <2>1, ConcatOf DEF Types
<1>4. Carries(h) => exch # NoOrder /\ Wanted(v, asked, changes)
                    /\ (v.status # "open" => Like(v, exch))
  BY <1>2, HeardFrame
<1>5. Rejects(h) => oms # NoOrder /\ exch = NoOrder
  BY <1>1, <1>2 DEF OnlyKnown, Refused
<1>6. ASSUME Carries(h)
      PROVE  /\ oms' \in OmsOrder /\ oms' # NoOrder /\ oms'.side = asked.side
             /\ Reported(oms', asked, changes) /\ Agrees(oms', v)
             /\ oms'.order_status \in {"WORKING", "COMPLETED", "CANCELED"}
             /\ stale' = FALSE
  BY <1>1, <1>4, <1>6, Updated
<1>7. ASSUME ~Carries(h), Rejects(h)
      PROVE  /\ oms' \in OmsOrder /\ oms' # NoOrder /\ oms'.side = asked.side
             /\ Reported(oms', asked, changes) /\ oms'.order_status = "REJECTED"
             /\ stale' = FALSE
  BY <1>1, <1>5, <1>7, Rejected
<1>8. ASSUME ~Carries(h), ~Rejects(h)
      PROVE  /\ oms' = oms /\ stale' = stale
             /\ NoneCarries(inbox) <=> NoneCarries(rest)
             /\ NoneRejects(inbox) <=> NoneRejects(rest)
  BY <1>2, <1>8
<1>9. /\ asked' = asked /\ changes' = changes /\ exch' = exch /\ taken' = taken
      /\ inbox' = rest
  OBVIOUS
<1> HIDE DEF h, v, rest
<1>10. Types'
  <2>1. stale' \in BOOLEAN
    BY <1>1, <1>6, <1>7, <1>8 DEF Types
  <2> QED BY <1>1, <1>2, <1>3, <1>9, <2>1 DEF Types
<1>11. OnlyAsked'
  BY <1>1, <1>4, <1>5, <1>8, <1>9 DEF OnlyAsked
<1>12. OmsIsAsked'
  BY <1>1, <1>6, <1>7, <1>8, <1>9 DEF OmsIsAsked
<1>13. ExchIsAsked'
  BY <1>1, <1>9 DEF ExchIsAsked, IsOpen
<1>14. Lost'
  BY DEF Lost
<1>15. OnlyKnown'
  <2>1. CASE oms' # NoOrder
    BY <2>1 DEF OnlyKnown
  <2>2. CASE oms' = NoOrder
    <3>1. ~Carries(h) /\ ~Rejects(h) /\ oms = NoOrder /\ ~stale /\ ~stale'
      BY <1>1, <1>6, <1>7, <1>8, <2>2 DEF OnlyKnown
    <3>2. q = <<>>
      BY <3>1
    <3>3. None(q, {"order_status", "order_place"})
      BY <3>2, EmptyOf
    <3> QED BY <1>1, <1>3, <1>8, <1>9, <3>1, <3>3 DEF OnlyKnown
  <2> QED BY <2>1, <2>2
<1>16. Placing'
  <2>1. CASE None(outbox, {"order_place"})
    <3>1. None(outbox', {"order_place"})
      BY <1>3, <2>1
    <3> QED BY <3>1 DEF Placing
  <2>2. CASE ~None(outbox, {"order_place"})
    <3>1. /\ exch = NoOrder /\ Lives(oms) /\ ~stale /\ NoneRejects(inbox)
          /\ AtMostOne(outbox, {"order_place"}) /\ None(outbox, {"order_status"})
      BY <1>1, <2>2 DEF Placing
    <3>2. ~Carries(h) /\ ~Rejects(h)
      BY <1>2, <1>4, <3>1
    <3>3. q = <<>>
      BY <1>8, <3>1, <3>2
    <3>4. outbox' = outbox
      BY <1>1, <3>3 DEF Types
    <3> QED BY <1>8, <1>9, <3>1, <3>2, <3>4 DEF Placing, Lives
  <2> QED BY <2>1, <2>2
<1>17. Refused'
  BY <1>1, <1>2, <1>9 DEF Refused
<1>18. Unplaced'
  <2>1. SUFFICES ASSUME exch = NoOrder, Lives(oms)'
                 PROVE  stale' \/ ~None(outbox', {"order_place"}) \/ ~NoneRejects(rest)
    BY <1>9 DEF Unplaced
  <2>2. ~Carries(h) /\ ~Rejects(h)
    BY <1>4, <1>7, <2>1 DEF Lives, Finished
  <2>3. Lives(oms)
    BY <1>8, <2>1, <2>2 DEF Lives
  <2> QED BY <1>1, <1>3, <1>8, <2>1, <2>2, <2>3 DEF Unplaced
<1>19. Settled'
  <2>1. SUFFICES ASSUME exch # NoOrder, NoneCarries(rest)
                 PROVE  \/ stale'
                        \/ oms' # NoOrder /\ Agrees(oms', exch)
                        \/ oms' = NoOrder /\ (IsOpen(exch) => ~None(outbox', {"order_list"}))
    BY <1>9 DEF Settled, IsOpen
  <2>2. ~Rejects(h)
    BY <1>5, <2>1
  <2>3. CASE Carries(h)
    <3>1. Like(v, exch)
      BY <1>1, <2>1, <2>3, LastOfTail DEF Told, Types, h, v, rest
    <3>2. Agrees(oms', exch)
      BY <1>6, <2>3, <3>1, LikeAgrees
    <3> QED BY <1>6, <2>3, <3>2
  <2>4. CASE ~Carries(h)
    <3>1. NoneCarries(inbox) /\ oms' = oms /\ stale' = stale
      BY <1>8, <2>1, <2>2, <2>4
    <3>2. state # "UNDEFINED"
      BY <1>1 DEF Lost
    <3> QED BY <1>1, <1>3, <2>1, <3>1, <3>2 DEF Settled
  <2> QED BY <2>3, <2>4
<1>20. Over'
  <2>1. SUFFICES ASSUME exch # NoOrder, oms' # NoOrder, oms'.order_status \in Finished
                 PROVE  ~IsOpen(exch) /\ Agrees(oms', exch)
    BY <1>9 DEF Over, Lives, IsOpen
  <2>2. ~Rejects(h)
    BY <1>5, <2>1
  <2>3. CASE Carries(h)
    <3>1. oms'.order_status # "WORKING" /\ v.status # "open"
      BY <1>6, <2>1, <2>3 DEF Agrees, Finished
    <3>2. Like(v, exch)
      BY <1>4, <2>3, <3>1
    <3>3. Agrees(oms', exch)
      BY <1>6, <2>3, <3>2, LikeAgrees
    <3> QED BY <3>1, <3>2, <3>3 DEF IsOpen, Like
  <2>4. CASE ~Carries(h)
    BY <1>1, <1>8, <2>1, <2>2, <2>4 DEF Over, Lives
  <2> QED BY <2>3, <2>4
<1>21. Told'
  <2>1. exch # NoOrder => LastIsLike(rest, exch)
    BY <1>1, LastOfTail DEF Told, Types, rest
  <2> QED BY <1>9, <2>1 DEF Told
<1> QED
  BY <1>10, <1>11, <1>12, <1>13, <1>14, <1>15, <1>16, <1>17, <1>18, <1>19, <1>20, <1>21 DEF IInv

-----------------------------------------------------------------------------
(* The exchange tells what became of the order.                            *)

Hears(r) == inbox' = inbox \o r

Answers == outbox # <<>> /\ outbox' = Tail(outbox)

LEMMA Telling ==
    ASSUME IInv, state # "UNDEFINED", UNCHANGED <<asked, changes, oms, stale, state>>,
           NEW r \in Seq(ToGateway), r # <<>>, Hears(r), outbox' = outbox \/ Answers,
           \/ exch' = exch \/ IsOpen(exch)
           \/ exch = NoOrder /\ Answers /\ Head(outbox).type = "order_place",
           exch' # NoOrder, Wanted(exch', asked, changes), IsOpen(exch)' => exch'.finish_as = "",
           taken' \in Nat, taken' > 0 => exch'.tif # "poc",
           \A i \in DOMAIN r : /\ Carries(r[i]) /\ ~Rejects(r[i])
                               /\ Wanted(r[i].value, asked, changes) /\ Like(r[i].value, exch')
    PROVE  IInv'
<1>1. /\ Types /\ OnlyAsked /\ OmsIsAsked /\ ExchIsAsked
      /\ Lost /\ OnlyKnown /\ Placing /\ Refused /\ Unplaced /\ Settled /\ Over /\ Told
  BY DEF IInv
<1>2. /\ asked' = asked /\ changes' = changes /\ oms' = oms /\ stale' = stale /\ state' = state
  OBVIOUS
<1>3. ~NoneCarries(r) /\ NoneRejects(r)
  <2>1. 1 \in DOMAIN r
    BY ElementsOf
  <2> QED BY <2>1 DEF NoneCarries, NoneRejects
<1>4. /\ outbox' \in Seq(ToExchange(asked, changes))
      /\ \A T : None(outbox, T) => None(outbox', T)
  <2>1. CASE outbox' = outbox
    BY <1>1, <2>1 DEF Types
  <2>2. CASE Answers
    BY <1>1, <2>2, TailOf DEF Types, Answers
  <2> QED BY <2>1, <2>2
<1>5. exch # NoOrder => None(outbox, {"order_place"}) /\ NoneRejects(inbox)
  BY <1>1 DEF Placing, Refused
<1>6. exch = NoOrder =>
         /\ None(outbox', {"order_place"}) /\ NoneRejects(inbox) /\ Lives(oms)
  <2>1. SUFFICES ASSUME exch = NoOrder
                 PROVE  None(outbox', {"order_place"}) /\ NoneRejects(inbox) /\ Lives(oms)
    OBVIOUS
  <2>2. outbox # <<>> /\ Head(outbox).type = "order_place" /\ outbox' = Tail(outbox)
    BY <2>1 DEF IsOpen, Answers
  <2>3. ~None(outbox, {"order_place"})
    BY <1>1, <2>2, TailOf DEF Types
  <2>4. AtMostOne(outbox, {"order_place"}) /\ NoneRejects(inbox) /\ Lives(oms)
    BY <1>1, <2>3 DEF Placing
  <2> QED BY <1>1, <2>2, <2>4, TailOf DEF Types
<1>7. /\ inbox' \in Seq(Heard(asked, changes, exch'))
      /\ ~NoneCarries(inbox') /\ NoneRejects(inbox')
  <2>1. \A i \in DOMAIN r : r[i] \in ToGateway
    BY ElementsOf
  <2>2. \A i \in DOMAIN r : r[i] \in Heard(asked, changes, exch')
    BY <2>1 DEF Heard
  <2>3. r \in Seq(Heard(asked, changes, exch'))
    BY <2>2, ElementsOf
  <2>4. Heard(asked, changes, exch) \subseteq Heard(asked, changes, exch')
    BY LaterIsHeard
  <2>5. inbox \in Seq(Heard(asked, changes, exch'))
    BY <1>1, <2>4, SeqMonotonic DEF Types
  <2>6. /\ inbox \o r \in Seq(Heard(asked, changes, exch'))
        /\ NoneCarries(inbox \o r) <=> NoneCarries(inbox) /\ NoneCarries(r)
        /\ NoneRejects(inbox \o r) <=> NoneRejects(inbox) /\ NoneRejects(r)
    BY <2>3, <2>5, ConcatOf
  <2> QED BY <1>3, <1>5, <1>6, <2>6 DEF Hears
<1>8. Types'
  BY <1>1, <1>2, <1>4, <1>7 DEF Types
<1>9. OnlyAsked'
  BY <1>2, RequestFields DEF OnlyAsked, Wanted
<1>10. OmsIsAsked'
  BY <1>1, <1>2 DEF OmsIsAsked
<1>11. ExchIsAsked'
  BY <1>2 DEF ExchIsAsked
<1>12. Lost'
  BY <1>2 DEF Lost
<1>13. OnlyKnown'
  <2>1. None(outbox, {"order_status", "order_place"}) => None(outbox', {"order_status", "order_place"})
    BY <1>4
  <2>2. CASE oms # NoOrder
    BY <1>2, <2>2 DEF OnlyKnown
  <2>3. CASE oms = NoOrder
    <3>1. ~stale /\ None(outbox, {"order_status", "order_place"})
      BY <1>1, <2>3 DEF OnlyKnown
    <3>2. None(outbox', {"order_status", "order_place"})
      BY <2>1, <3>1
    <3>3. ~stale'
      <4>1. stale' = stale
        BY <1>2
      <4>2. stale = FALSE
        BY <1>1, <3>1 DEF Types
      <4> QED BY <4>1, <4>2
    <3>4. NoneRejects(inbox')
      BY <1>7
    <3> QED BY <3>2, <3>3, <3>4 DEF OnlyKnown
  <2> QED BY <2>2, <2>3
<1>14. Placing'
  BY <1>4, <1>5, <1>6 DEF Placing
<1>15. Refused' /\ Unplaced' /\ Settled'
  BY <1>7 DEF Refused, Unplaced, Settled
<1>16. Over'
  <2>1. SUFFICES ASSUME oms # NoOrder, ~Lives(oms)
                 PROVE  ~(exch'.status = "open") /\ Agrees(oms, exch')
    BY <1>2 DEF Over, IsOpen, Lives
  <2>2. exch # NoOrder
    BY <1>6, <2>1
  <2>3. ~IsOpen(exch) /\ Agrees(oms, exch)
    BY <1>1, <2>1, <2>2 DEF Over
  <2> QED BY <2>2, <2>3 DEF IsOpen
<1>17. Told'
  <2>1. inbox \in Seq(ToGateway)
    <3>1. Heard(asked, changes, exch) \subseteq ToGateway
      BY DEF Heard
    <3> QED BY <1>1, <3>1, SeqMonotonic DEF Types
  <2>2. LastIsLike(inbox \o r, exch')
    BY <1>3, <2>1, LastOfConcat
  <2> QED BY <2>2 DEF Told, Hears
<1> QED BY <1>8, <1>9, <1>10, <1>11, <1>12, <1>13, <1>14, <1>15, <1>16, <1>17 DEF IInv

(* The exchange answers without an order.                                  *)
LEMMA Silent ==
    ASSUME IInv, Answers,
           UNCHANGED <<asked, changes, oms, stale, state, exch, taken>>,
           NEW r \in Seq(ToGateway), Hears(r), NoneCarries(r),
           \/ NoneRejects(r)
           \/ exch = NoOrder /\ Head(outbox).type \in {"order_place", "order_status"},
           Head(outbox).type = "order_place" => ~NoneRejects(r),
           Head(outbox).type = "order_list" => ~IsOpen(exch)
    PROVE  IInv'
<1> DEFINE h == Head(outbox)
           rest == Tail(outbox)
<1>1. /\ Types /\ OnlyAsked /\ OmsIsAsked /\ ExchIsAsked
      /\ Lost /\ OnlyKnown /\ Placing /\ Refused /\ Unplaced /\ Settled /\ Over /\ Told
  BY DEF IInv
<1>2. /\ asked' = asked /\ changes' = changes /\ oms' = oms /\ stale' = stale /\ state' = state
      /\ exch' = exch /\ taken' = taken /\ outbox' = rest /\ outbox # <<>>
  BY DEF Answers
<1>3. /\ rest \in Seq(ToExchange(asked, changes))
      /\ \A T : None(outbox, T) <=> h.type \notin T /\ None(rest, T)
      /\ \A T : AtMostOne(outbox, T) =>
            AtMostOne(rest, T) /\ (h.type \in T => None(rest, T))
  BY <1>1, <1>2, TailOf DEF Types
<1>4. /\ inbox \in Seq(ToGateway) /\ r \in Seq(Heard(asked, changes, exch))
  <2>1. Heard(asked, changes, exch) \subseteq ToGateway
    BY DEF Heard
  <2>2. inbox \in Seq(ToGateway)
    BY <1>1, <2>1, SeqMonotonic DEF Types
  <2>3. \A i \in DOMAIN r : r[i] \in ToGateway
    BY ElementsOf
  <2>4. \A i \in DOMAIN r : r[i] \in Heard(asked, changes, exch)
    BY <2>3 DEF Heard, NoneCarries
  <2> QED BY <2>2, <2>4, ElementsOf
<1>5. /\ inbox' \in Seq(Heard(asked, changes, exch))
      /\ NoneCarries(inbox') <=> NoneCarries(inbox)
      /\ NoneRejects(inbox') <=> NoneRejects(inbox) /\ NoneRejects(r)
  BY <1>1, <1>4, ConcatOf DEF Types, Hears
<1> HIDE DEF h, rest
<1>6. h.type = "order_place" => ~NoneRejects(r)
  BY DEF h
<1>7. NoneRejects(r) \/ (exch = NoOrder /\ h.type \in {"order_place", "order_status"})
  BY DEF h
<1>8. h.type = "order_list" => ~IsOpen(exch)
  BY DEF h
<1>9. Types'
  BY <1>1, <1>2, <1>3, <1>5 DEF Types
<1>10. OnlyAsked' /\ OmsIsAsked' /\ ExchIsAsked'
  BY <1>1, <1>2 DEF OnlyAsked, OmsIsAsked, ExchIsAsked, IsOpen
<1>11. Lost'
  BY <1>1, <1>2 DEF Lost
<1>12. OnlyKnown'
  <2>1. CASE oms # NoOrder
    BY <1>2, <2>1 DEF OnlyKnown
  <2>2. CASE oms = NoOrder
    <3>1. ~stale /\ None(outbox, {"order_status", "order_place"}) /\ NoneRejects(inbox)
      BY <1>1, <2>2 DEF OnlyKnown
    <3>2. h.type \notin {"order_status", "order_place"} /\ None(rest, {"order_status", "order_place"})
      BY <1>3, <3>1
    <3> QED BY <1>2, <1>5, <1>7, <3>1, <3>2 DEF OnlyKnown
  <2> QED BY <2>1, <2>2
<1>13. Placing'
  <2>1. CASE None(rest, {"order_place"})
    BY <1>2, <2>1 DEF Placing
  <2>2. CASE ~None(rest, {"order_place"})
    <3>1. ~None(outbox, {"order_place"})
      BY <1>3, <2>2
    <3>2. /\ exch = NoOrder /\ Lives(oms) /\ ~stale /\ NoneRejects(inbox)
          /\ AtMostOne(outbox, {"order_place"}) /\ None(outbox, {"order_status"})
      BY <1>1, <3>1 DEF Placing
    <3>3. h.type # "order_place" /\ h.type # "order_status"
          /\ AtMostOne(rest, {"order_place"}) /\ None(rest, {"order_status"})
      BY <1>3, <2>2, <3>2
    <3>4. NoneRejects(inbox')
      BY <1>5, <1>7, <3>2, <3>3
    <3> QED BY <1>2, <3>2, <3>3, <3>4 DEF Placing, Lives
  <2> QED BY <2>1, <2>2
<1>14. Refused'
  BY <1>1, <1>2, <1>5, <1>7 DEF Refused
<1>15. Unplaced'
  <2>1. SUFFICES ASSUME exch = NoOrder, Lives(oms)
                 PROVE  stale \/ ~None(rest, {"order_place"}) \/ ~NoneRejects(inbox')
    BY <1>2 DEF Unplaced, Lives
  <2> QED BY <1>1, <1>3, <1>5, <1>6, <2>1 DEF Unplaced
<1>16. Settled'
  <2>1. SUFFICES ASSUME exch # NoOrder, NoneCarries(inbox)
                 PROVE  \/ stale
                        \/ oms # NoOrder /\ Agrees(oms, exch)
                        \/ oms = NoOrder /\ (IsOpen(exch) => state = "UNDEFINED" \/ ~None(rest, {"order_list"}))
    BY <1>2, <1>5 DEF Settled, IsOpen
  <2>2. \/ stale
        \/ oms # NoOrder /\ Agrees(oms, exch)
        \/ oms = NoOrder /\ (IsOpen(exch) => state = "UNDEFINED" \/ ~None(outbox, {"order_list"}))
    BY <1>1, <2>1 DEF Settled
  <2>3. IsOpen(exch) /\ ~None(outbox, {"order_list"}) => ~None(rest, {"order_list"})
    BY <1>3, <1>8
  <2> QED BY <2>2, <2>3
<1>17. Over'
  BY <1>1, <1>2 DEF Over, Lives, IsOpen
<1>18. Told'
  <2>1. exch # NoOrder => LastIsLike(inbox \o r, exch)
    <3>1. \A i \in DOMAIN r : ~Carries(r[i])
      BY DEF NoneCarries
    <3> QED BY <1>1, <1>4, <3>1, LastOfConcat DEF Told
  <2> QED BY <1>2, <2>1 DEF Told, Hears
<1> QED
  BY <1>9, <1>10, <1>11, <1>12, <1>13, <1>14, <1>15, <1>16, <1>17, <1>18 DEF IInv

-----------------------------------------------------------------------------
(* The gateway sends something about an order that the OMS has.            *)

Sends(q) == outbox' = outbox \o q

LEMMA Sending ==
    ASSUME IInv, oms # NoOrder, state # "UNDEFINED",
           UNCHANGED <<inbox, asked, oms, stale, state, exch, taken>>,
           changes \subseteq changes', changes' \subseteq Changes,
           NEW q \in Seq(ToExchange(asked, changes')), Sends(q),
           None(q, {"order_place"}), None(q, {"order_status"}) \/ stale
    PROVE  IInv'
<1>1. /\ Types /\ OnlyAsked /\ OmsIsAsked /\ ExchIsAsked
      /\ Lost /\ OnlyKnown /\ Placing /\ Refused /\ Unplaced /\ Settled /\ Over /\ Told
  BY DEF IInv
<1>2. /\ asked' = asked /\ oms' = oms /\ stale' = stale /\ state' = state
      /\ exch' = exch /\ taken' = taken /\ inbox' = inbox
  OBVIOUS
<1>3. /\ outbox \in Seq(ToExchange(asked, changes'))
      /\ inbox \in Seq(Heard(asked, changes', exch))
  <2>1. ToExchange(asked, changes) \subseteq ToExchange(asked, changes')
        /\ Heard(asked, changes, exch) \subseteq Heard(asked, changes', exch)
    BY MoreIsSent, MoreIsHeard
  <2>2. outbox \in Seq(ToExchange(asked, changes)) /\ inbox \in Seq(Heard(asked, changes, exch))
    BY <1>1 DEF Types
  <2> QED BY <2>1, <2>2, SeqMonotonic
<1>4. /\ outbox' \in Seq(ToExchange(asked, changes'))
      /\ \A T : None(outbox', T) <=> None(outbox, T) /\ None(q, T)
  BY <1>3, ConcatOf DEF Sends
<1>5. AtMostOne(outbox, {"order_place"}) => AtMostOne(outbox', {"order_place"})
  <2>1. AtMostOne(q, {"order_place"})
    BY DEF None, AtMostOne
  <2> QED BY <1>3, <2>1, OneOf DEF Sends
<1>6. Types'
  BY <1>1, <1>2, <1>3, <1>4 DEF Types
<1>7. OnlyAsked'
  BY <1>1, <1>2 DEF OnlyAsked
<1>8. OmsIsAsked'
  BY <1>1, <1>2, MoreIsReported DEF OmsIsAsked
<1>9. ExchIsAsked'
  BY <1>1, <1>2, MoreIsWanted DEF ExchIsAsked, IsOpen
<1>10. Lost' /\ OnlyKnown' /\ Refused'
  BY <1>1, <1>2 DEF Lost, OnlyKnown, Refused
<1>11. Placing'
  <2>1. CASE None(outbox, {"order_place"})
    <3>1. None(outbox', {"order_place"})
      BY <1>4, <2>1
    <3> QED BY <3>1 DEF Placing
  <2>2. CASE ~None(outbox, {"order_place"})
    <3>1. /\ exch = NoOrder /\ Lives(oms) /\ ~stale /\ NoneRejects(inbox)
          /\ AtMostOne(outbox, {"order_place"}) /\ None(outbox, {"order_status"})
      BY <1>1, <2>2 DEF Placing
    <3>2. None(outbox', {"order_status"}) /\ AtMostOne(outbox', {"order_place"})
      BY <1>4, <1>5, <3>1
    <3>3. stale' = FALSE
      BY <1>1, <1>2, <3>1 DEF Types
    <3> QED BY <1>2, <3>1, <3>2, <3>3 DEF Placing, Lives
  <2> QED BY <2>1, <2>2
<1>12. Unplaced'
  <2>1. None(outbox', {"order_place"}) => None(outbox, {"order_place"})
    BY <1>4
  <2> QED BY <1>1, <1>2, <2>1 DEF Unplaced, Lives
<1>13. Settled'
  BY <1>1, <1>2 DEF Settled
<1>14. Over' /\ Told'
  BY <1>1, <1>2 DEF Over, Told, Lives, IsOpen
<1> QED
  BY <1>6, <1>7, <1>8, <1>9, <1>10, <1>11, <1>12, <1>13, <1>14 DEF IInv

(* A client asks for the order.                                            *)
LEMMA NewOrderType ==
    ASSUME NEW c \in Requests, NEW status \in {"SENT", "REJECTED"}
    PROVE  /\ NewOrder(c, status) \in OmsOrder /\ NewOrder(c, status).side = c.side
           /\ NewOrder(c, status).order_status = status /\ NewOrder(c, status) # NoOrder
<1>1. /\ c.side \in {"BUY", "SELL"} /\ c.order_type \in {"LIMIT", "MARKET"}
      /\ c.time_in_force \in TimesInForce
  BY RequestFields
<1>2. c.quantity \in Int /\ c.price \in Int
  <2>1. \A n \in (Nat \ {0}) \cup {NaN} : n \in Int
    BY DEF NaN
  <2> QED BY <2>1, RequestFields
<1>3. NewOrder(c, status) \in OmsOrder
  BY <1>1, <1>2 DEF NewOrder, OmsOrder
<1> QED BY <1>3, OrderLifeAssumption DEF OrderLifeAssumption, NewOrder

LEMMA Created ==
    ASSUME IInv, NEW c \in Requests, CreateOrder(c)
    PROVE  IInv'
<1>1. /\ Types /\ OnlyAsked /\ OmsIsAsked /\ ExchIsAsked
      /\ Lost /\ OnlyKnown /\ Placing /\ Refused /\ Unplaced /\ Settled /\ Over /\ Told
  BY DEF IInv
<1>2. /\ asked = NoOrder /\ asked' = c /\ changes' = changes /\ stale' = stale /\ state' = state
      /\ exch' = exch /\ taken' = taken /\ inbox' = inbox /\ state # "UNDEFINED"
  BY DEF CreateOrder, MaySend, venue
<1>3. exch = NoOrder /\ oms = NoOrder
  BY <1>1, <1>2 DEF OnlyAsked
<1>4. stale = FALSE /\ None(outbox, {"order_status", "order_place"}) /\ NoneRejects(inbox)
  BY <1>1, <1>3 DEF OnlyKnown, Types
<1>5. None(outbox, {"order_status"}) /\ None(outbox, {"order_place"})
  BY <1>4 DEF None
<1>6. outbox \in Seq(ToExchange(c, changes)) /\ inbox \in Seq(Heard(c, changes, NoOrder))
  <2>1. NoOrder \notin Requests
    BY RequestFields
  <2>2. ToExchange(NoOrder, changes) \subseteq ToExchange(c, changes)
    <3>1. Placements(NoOrder) = {} /\ Amendments(NoOrder, changes) = {}
      BY <2>1 DEF Placements, Amendments
    <3> QED BY <3>1 DEF ToExchange
  <2>3. Heard(NoOrder, changes, NoOrder) \subseteq Heard(c, changes, NoOrder)
    BY DEF Heard
  <2>4. outbox \in Seq(ToExchange(NoOrder, changes))
        /\ inbox \in Seq(Heard(NoOrder, changes, NoOrder))
    BY <1>1, <1>2, <1>3 DEF Types
  <2> QED BY <2>2, <2>3, <2>4, SeqMonotonic
<1>7. /\ outbox' \in Seq(ToExchange(c, changes)) /\ OmsIsAsked' /\ oms' # NoOrder
      /\ \/ ~None(outbox', {"order_place"}) /\ None(outbox', {"order_status"})
            /\ AtMostOne(outbox', {"order_place"}) /\ Lives(oms')
         \/ None(outbox', {"order_place"}) /\ ~Lives(oms')
  <2>1. CASE Supported(c) /\ oms' = NewOrder(c, "SENT")
             /\ Send([type |-> "order_place", order |-> OrderPlace(c)])
    <3> DEFINE f == [type |-> "order_place", order |-> OrderPlace(c)]
    <3>1. f \in ToExchange(c, changes) /\ f.type = "order_place"
      BY <2>1 DEF ToExchange, Placements
    <3>2. outbox' = outbox \o <<f>>
      BY <1>6, <2>1, AppendIsConcat DEF Send
    <3> HIDE DEF f
    <3>3. /\ <<f>> \in Seq(ToExchange(c, changes)) /\ ~None(<<f>>, {"order_place"})
          /\ None(<<f>>, {"order_status"}) /\ AtMostOne(<<f>>, {"order_place"})
      BY <3>1, SingleOf
    <3>4. /\ outbox \o <<f>> \in Seq(ToExchange(c, changes))
          /\ ~None(outbox \o <<f>>, {"order_place"}) /\ None(outbox \o <<f>>, {"order_status"})
      BY <1>5, <1>6, <3>3, ConcatOf
    <3>5. AtMostOne(outbox, {"order_place"})
      BY <1>5 DEF None, AtMostOne
    <3>6. AtMostOne(outbox \o <<f>>, {"order_place"})
      BY <1>5, <1>6, <3>3, <3>5, OneOf
    <3>7. /\ oms' \in OmsOrder /\ oms'.side = c.side /\ oms' # NoOrder
          /\ oms'.order_status = "SENT"
      BY <2>1, NewOrderType
    <3>8. OmsIsAsked' /\ Lives(oms')
      BY <1>2, <3>7 DEF OmsIsAsked, Reported, Lives, Finished
    <3> QED BY <3>2, <3>4, <3>6, <3>7, <3>8
  <2>2. CASE oms' = NewOrder(c, "REJECTED") /\ outbox' = outbox
    <3>1. /\ oms' \in OmsOrder /\ oms'.side = c.side /\ oms' # NoOrder
          /\ oms'.order_status = "REJECTED"
      BY <2>2, NewOrderType
    <3>2. OmsIsAsked' /\ ~Lives(oms')
      BY <1>2, <3>1 DEF OmsIsAsked, Reported, Lives, Finished
    <3> QED BY <1>5, <1>6, <2>2, <3>1, <3>2
  <2> QED BY <2>1, <2>2 DEF CreateOrder
<1>8. Types'
  BY <1>1, <1>2, <1>3, <1>6, <1>7 DEF Types
<1>9. OnlyAsked'
  BY <1>2, RequestFields DEF OnlyAsked
<1>10. ExchIsAsked'
  BY <1>1, <1>2, <1>3 DEF ExchIsAsked, IsOpen
<1>11. Lost' /\ OnlyKnown' /\ Refused' /\ Settled' /\ Over' /\ Told'
  BY <1>2, <1>3, <1>7 DEF Lost, OnlyKnown, Refused, Settled, Over, Told
<1>12. Placing' /\ Unplaced'
  <2>1. stale' = FALSE /\ NoneRejects(inbox') /\ exch' = NoOrder
    BY <1>2, <1>3, <1>4
  <2>2. CASE ~None(outbox', {"order_place"}) /\ None(outbox', {"order_status"})
             /\ AtMostOne(outbox', {"order_place"}) /\ Lives(oms')
    BY <2>1, <2>2 DEF Placing, Unplaced, Lives
  <2>3. CASE None(outbox', {"order_place"}) /\ ~Lives(oms')
    BY <2>1, <2>3 DEF Placing, Unplaced, Lives
  <2> QED BY <1>7, <2>2, <2>3
<1> QED BY <1>7, <1>8, <1>9, <1>10, <1>11, <1>12 DEF IInv

LEMMA Changed ==
    ASSUME IInv, NEW m \in Changes, ModifyOrder(m)
    PROVE  IInv'
<1> DEFINE f == [type |-> "order_amend", change |-> OrderAmend(m, oms.side)]
<1>1. /\ outbox \in Seq(ToExchange(asked, changes)) /\ changes \subseteq Changes
      /\ OmsIsAsked /\ asked \in Requests \cup {NoOrder} /\ OnlyAsked
  BY DEF IInv, Types
<1>2. /\ oms # NoOrder /\ state # "UNDEFINED" /\ changes' = changes \cup {m}
      /\ UNCHANGED <<inbox, asked, oms, stale, state, exch, taken>>
      /\ outbox' = Append(outbox, f)
  BY DEF ModifyOrder, MaySend, Lives, Send, omsVars, venue
<1>3. asked \in Requests /\ oms.side = asked.side
  BY <1>1, <1>2 DEF OmsIsAsked, OnlyAsked
<1>4. f \in ToExchange(asked, changes') /\ f.type = "order_amend"
  BY <1>2, <1>3 DEF ToExchange, Amendments
<1>5. Sends(<<f>>)
  BY <1>1, <1>2, AppendIsConcat DEF Sends
<1> HIDE DEF f
<1>6. <<f>> \in Seq(ToExchange(asked, changes')) /\ None(<<f>>, {"order_place"})
      /\ None(<<f>>, {"order_status"})
  BY <1>4, SingleOf
<1>7. changes \subseteq changes' /\ changes' \subseteq Changes
  BY <1>1, <1>2
<1> QED BY <1>2, <1>5, <1>6, <1>7, Sending

LEMMA Cancelled ==
    ASSUME IInv, CancelOrder
    PROVE  IInv'
<1> DEFINE f == [type |-> "order_cancel"]
<1>1. outbox \in Seq(ToExchange(asked, changes)) /\ changes \subseteq Changes
  BY DEF IInv, Types
<1>2. /\ oms # NoOrder /\ state # "UNDEFINED" /\ changes' = changes
      /\ UNCHANGED <<inbox, asked, oms, stale, state, exch, taken>>
      /\ outbox' = Append(outbox, f)
  BY DEF CancelOrder, MaySend, Lives, Send, omsVars, venue, history
<1>3. f \in ToExchange(asked, changes') /\ f.type = "order_cancel"
  BY DEF ToExchange, Cancels
<1>4. Sends(<<f>>)
  BY <1>1, <1>2, AppendIsConcat DEF Sends
<1> HIDE DEF f
<1>5. <<f>> \in Seq(ToExchange(asked, changes')) /\ None(<<f>>, {"order_place"})
      /\ None(<<f>>, {"order_status"})
  BY <1>3, SingleOf
<1>6. changes \subseteq changes' /\ changes' \subseteq Changes
  BY <1>1, <1>2
<1> QED BY <1>2, <1>4, <1>5, <1>6, Sending

(* The gateway asks for the order only when it is stale.                   *)
LEMMA StaleQueryType ==
    ASSUME CheckStaleOrders
    PROVE  \E q \in Seq(Queries) : Sends(q) /\ (q # <<>> => stale')
<1>1. SettleCoin \in {"", "usdt"}
  BY DEF SettleCoin
<1>2. StaleQuery \in Seq(Queries) /\ (StaleQuery # <<>> => stale')
  <2>1. CASE stale'
    <3>1. [type |-> "order_status", settle |-> SettleCoin] \in Queries
      BY <1>1 DEF Queries
    <3> QED BY <2>1, <3>1, SingleOf DEF StaleQuery
  <2>2. CASE ~stale'
    <3>1. StaleQuery = <<>>
      BY <2>2 DEF StaleQuery
    <3> QED BY <3>1, EmptyOf
  <2> QED BY <2>1, <2>2
<1>3. Sends(StaleQuery)
  BY DEF CheckStaleOrders, Sends
<1> QED BY <1>2, <1>3

LEMMA Repeated ==
    ASSUME IInv, Timer
    PROVE  IInv'
<1>1. changes \subseteq Changes /\ OnlyKnown
  BY DEF IInv, Types
<1>2. /\ stale /\ state # "UNDEFINED" /\ changes' = changes /\ CheckStaleOrders
      /\ UNCHANGED <<inbox, asked, oms, stale, state, exch, taken>>
  BY DEF Timer, omsVars, venue, history
<1>3. oms # NoOrder
  BY <1>1, <1>2 DEF OnlyKnown
<1>4. PICK q \in Seq(Queries) : Sends(q)
  BY <1>2, StaleQueryType
<1>5. q \in Seq(ToExchange(asked, changes')) /\ None(q, {"order_place"})
  BY QueriesSent
<1>6. changes \subseteq changes' /\ changes' \subseteq Changes
  BY <1>1, <1>2
<1> QED BY <1>2, <1>3, <1>4, <1>5, <1>6, Sending

-----------------------------------------------------------------------------
(* The sessions.                                                           *)

LEMMA Opened ==
    ASSUME IInv, SocketReady
    PROVE  IInv'
<1> DEFINE f == [type |-> "order_list"]
<1>1. /\ Types /\ OnlyAsked /\ OmsIsAsked /\ ExchIsAsked
      /\ Lost /\ OnlyKnown /\ Placing /\ Refused /\ Unplaced /\ Settled /\ Over /\ Told
  BY DEF IInv
<1>2. /\ asked' = asked /\ changes' = changes /\ oms' = oms /\ stale' = stale
      /\ exch' = exch /\ taken' = taken /\ inbox' = inbox
      /\ state = "UNDEFINED" /\ state' = "GET_OPEN_ORDERS" /\ outbox' = <<f>>
  BY DEF SocketReady, omsVars, venue, history
<1>3. outbox = <<>> /\ inbox = <<>> /\ (Lives(oms) => stale)
  BY <1>1, <1>2 DEF Lost
<1>4. f \in ToExchange(asked, changes) /\ f.type = "order_list"
  BY DEF ToExchange, Lists
<1> HIDE DEF f
<1>5. /\ outbox' \in Seq(ToExchange(asked, changes))
      /\ None(outbox', {"order_place"}) /\ None(outbox', {"order_status", "order_place"})
      /\ ~None(outbox', {"order_list"})
  BY <1>2, <1>4, SingleOf
<1>6. Types'
  BY <1>1, <1>2, <1>5 DEF Types
<1>7. OnlyAsked' /\ OmsIsAsked' /\ ExchIsAsked' /\ Refused' /\ Told'
  BY <1>1, <1>2 DEF OnlyAsked, OmsIsAsked, ExchIsAsked, Refused, Told, IsOpen
<1>8. Lost' /\ Placing'
  BY <1>2, <1>5 DEF Lost, Placing
<1>9. OnlyKnown'
  <2>1. CASE oms # NoOrder
    BY <1>2, <2>1 DEF OnlyKnown
  <2>2. CASE oms = NoOrder
    <3>1. stale' = FALSE /\ NoneRejects(inbox')
      BY <1>1, <1>2, <2>2 DEF OnlyKnown, Types
    <3> QED BY <1>5, <3>1 DEF OnlyKnown
  <2> QED BY <2>1, <2>2
<1>10. Unplaced'
  BY <1>2, <1>3 DEF Unplaced, Lives
<1>11. Settled'
  BY <1>1, <1>2, <1>5 DEF Settled
<1>12. Over'
  BY <1>1, <1>2 DEF Over, Lives, IsOpen
<1> QED BY <1>6, <1>7, <1>8, <1>9, <1>10, <1>11, <1>12 DEF IInv

LEMMA Closed ==
    ASSUME IInv, Disconnected
    PROVE  IInv'
<1>1. /\ Types /\ OnlyAsked /\ OmsIsAsked /\ ExchIsAsked
      /\ Lost /\ OnlyKnown /\ Placing /\ Refused /\ Unplaced /\ Settled /\ Over /\ Told
  BY DEF IInv
<1>2. /\ asked' = asked /\ changes' = changes /\ oms' = oms
      /\ exch' = exch /\ taken' = taken /\ inbox' = <<>> /\ outbox' = <<>>
      /\ state' = "UNDEFINED" /\ stale' = (stale \/ Lives(oms))
  BY DEF Disconnected, venue, history
<1>3. stale' \in BOOLEAN /\ (Lives(oms) => stale') /\ (stale' => stale \/ Lives(oms))
  BY <1>1, <1>2 DEF Types
<1>4. Types'
  BY <1>1, <1>2, <1>3, EmptyOf DEF Types
<1>5. OnlyAsked' /\ OmsIsAsked' /\ ExchIsAsked' /\ Over'
  BY <1>1, <1>2 DEF OnlyAsked, OmsIsAsked, ExchIsAsked, Over, Lives, IsOpen
<1>6. Lost'
  BY <1>2, <1>3 DEF Lost, Lives
<1>7. Placing' /\ Refused' /\ Told'
  BY <1>2, EmptyOf DEF Placing, Refused, Told
<1>8. OnlyKnown'
  BY <1>1, <1>2, <1>3, EmptyOf DEF OnlyKnown, Lives
<1>9. Unplaced'
  BY <1>2, <1>3 DEF Unplaced, Lives
<1>10. Settled'
  <2>1. SUFFICES ASSUME exch # NoOrder, oms # NoOrder, ~stale'
                 PROVE  Agrees(oms, exch)
    BY <1>2 DEF Settled
  <2> QED BY <1>1, <1>3, <2>1 DEF Over
<1> QED BY <1>4, <1>5, <1>6, <1>7, <1>8, <1>9, <1>10 DEF IInv

(* The order is executed or ended while nobody listens.                    *)
LEMMA Unheard ==
    ASSUME IInv, state = "UNDEFINED", UNCHANGED <<asked, changes, oms, stale, state, inbox, outbox>>,
           IsOpen(exch), exch' # NoOrder, Wanted(exch', asked, changes),
           IsOpen(exch)' => exch'.finish_as = "", taken' = taken, exch'.tif = exch.tif
    PROVE  IInv'
<1>1. /\ Types /\ OnlyAsked /\ OmsIsAsked /\ ExchIsAsked
      /\ Lost /\ OnlyKnown /\ Placing /\ Refused /\ Unplaced /\ Settled /\ Over /\ Told
  BY DEF IInv
<1>2. /\ asked' = asked /\ changes' = changes /\ oms' = oms /\ stale' = stale /\ state' = state
      /\ inbox' = <<>> /\ outbox' = <<>> /\ taken' = taken /\ (Lives(oms) => stale)
  BY <1>1 DEF Lost
<1>3. exch # NoOrder
  BY DEF IsOpen
<1>4. Types'
  BY <1>1, <1>2, EmptyOf DEF Types
<1>5. OnlyAsked'
  BY <1>1, <1>2, <1>3 DEF OnlyAsked
<1>6. OmsIsAsked' /\ Lost'
  <2>1. OmsIsAsked'
    BY <1>1, <1>2 DEF OmsIsAsked
  <2>2. Lives(oms) => stale' = TRUE
    BY <1>1, <1>2 DEF Types
  <2>3. Lives(oms)' => stale'
    BY <1>2, <2>2 DEF Lives
  <2> QED BY <1>2, <2>1, <2>3 DEF Lost
<1>7. ExchIsAsked'
  BY <1>1, <1>2 DEF ExchIsAsked
<1>8. Placing' /\ Refused' /\ Told'
  BY <1>2, EmptyOf DEF Placing, Refused, Told
<1>9. OnlyKnown'
  <2>1. oms = NoOrder => stale' = FALSE
    BY <1>1, <1>2 DEF OnlyKnown, Types
  <2> QED BY <1>2, <2>1, EmptyOf DEF OnlyKnown
<1>10. Unplaced'
  BY DEF Unplaced
<1>11. oms # NoOrder => Lives(oms) /\ stale' = TRUE
  BY <1>1, <1>2, <1>3 DEF Over, Types
<1>12. Settled' /\ Over'
  <2>1. oms' # NoOrder => Lives(oms)' /\ stale' = TRUE
    BY <1>2, <1>11 DEF Lives
  <2> QED BY <1>2, <2>1 DEF Settled, Over
<1> QED BY <1>4, <1>5, <1>6, <1>7, <1>8, <1>9, <1>10, <1>12 DEF IInv

-----------------------------------------------------------------------------
(* The handlers.                                                           *)

LEMMA FrameKinds ==
    ASSUME NEW m \in ToGateway
    PROVE  /\ m.type = "orders" => Carries(m)
           /\ m.type # "order_status" => (Carries(m) <=> m.value # NoOrder)
           /\ m.type = "order_status" => /\ m.status \in {200, 400, 404}
                                         /\ Carries(m) <=> m.status = 200
                                         /\ Rejects(m) <=> m.status = 404
           /\ m.type = "answer" =>
                 (Rejects(m) <=> m.request = "order_place" /\ m.value = NoOrder)
           /\ m.type \in {"orders", "order_list"} => ~Rejects(m)
<1>1. ~Carries(m) <=> m.value = NoOrder \/ (m.type = "order_status" /\ m.status # 200)
  BY DEF Carries
<1>2. CASE m \in [type : {"orders"}, value : ExchangeOrder]
  <2>1. m.type = "orders" /\ m.value # NoOrder
    BY <1>2, OrderLifeAssumption DEF OrderLifeAssumption
  <2> QED BY <2>1 DEF Carries, Rejects
<1>3. CASE m \in [type : {"answer"}, request : {"order_place", "order_amend", "order_cancel"},
                  value : Values]
  <2>1. m.type = "answer"
    BY <1>3
  <2> QED BY <2>1 DEF Carries, Rejects
<1>4. CASE m \in [type : {"order_list"}, value : Values]
  <2>1. m.type = "order_list"
    BY <1>4
  <2> QED BY <2>1 DEF Carries, Rejects
<1>5. CASE /\ m \in [type : {"order_status"}, status : {200, 400, 404}, value : Values]
           /\ m.status = 200 => m.value # NoOrder
  <2>1. m.type = "order_status" /\ m.status \in {200, 400, 404}
        /\ (m.status = 200 => m.value # NoOrder)
    BY <1>5
  <2> QED BY <2>1 DEF Carries, Rejects
<1> QED BY <1>2, <1>3, <1>4, <1>5 DEF ToGateway

(* What is in the inbox while there is a socket.                           *)
LEMMA Arriving ==
    ASSUME IInv, NEW t, Arrived(t), Handled
    PROVE  /\ inbox # <<>> /\ inbox' = Tail(inbox) /\ state # "UNDEFINED"
           /\ Head(inbox) \in ToGateway /\ Head(inbox).type = t
           /\ UNCHANGED <<asked, changes, exch, taken>>
<1>1. /\ inbox # <<>> /\ inbox' = Tail(inbox) /\ Head(inbox).type = t
      /\ UNCHANGED <<asked, changes, exch, taken>>
  BY DEF Arrived, Handled, history, venue
<1>2. inbox \in Seq(Heard(asked, changes, exch)) /\ state # "UNDEFINED"
  BY <1>1 DEF IInv, Types, Lost
<1>3. Head(inbox) \in Heard(asked, changes, exch)
  BY <1>1, <1>2, TailOf
<1>4. Head(inbox) \in ToGateway
  BY <1>3 DEF Heard
<1> QED BY <1>1, <1>2, <1>4

LEMMA NothingSent ==
    ASSUME IInv, outbox' = outbox
    PROVE  <<>> \in Seq(Queries) /\ outbox' = outbox \o <<>>
<1>1. outbox \in Seq(ToExchange(asked, changes))
  BY DEF IInv, Types
<1>2. outbox \o <<>> = outbox
  BY <1>1, ConcatEmptySeq
<1> QED BY <1>2, EmptyOf

LEMMA PushTaken ==
    ASSUME IInv, TradeOrders
    PROVE  IInv'
<1>1. Arrived("orders") /\ Handled /\ Quiet /\ Update(Head(inbox).value, "INCREMENTAL")
  BY DEF TradeOrders
<1>2. /\ inbox # <<>> /\ inbox' = Tail(inbox) /\ state # "UNDEFINED"
      /\ Head(inbox) \in ToGateway /\ Head(inbox).type = "orders"
      /\ UNCHANGED <<asked, changes, exch, taken>>
  BY <1>1, Arriving
<1>3. Carries(Head(inbox))
  BY <1>2, FrameKinds
<1>4. state' # "UNDEFINED" /\ outbox' = outbox
  BY <1>1, <1>2 DEF Quiet
<1>5. <<>> \in Seq(Queries) /\ outbox' = outbox \o <<>>
  BY <1>4, NothingSent
<1> QED BY <1>1, <1>2, <1>3, <1>4, <1>5, Handling

LEMMA AnswerTaken ==
    ASSUME IInv, TradeOrderRequest
    PROVE  IInv'
<1> DEFINE m == Head(inbox)
<1>1. Arrived("answer") /\ Handled /\ Quiet
  BY DEF TradeOrderRequest
<1>2. /\ inbox # <<>> /\ inbox' = Tail(inbox) /\ state # "UNDEFINED"
      /\ m \in ToGateway /\ m.type = "answer"
      /\ UNCHANGED <<asked, changes, exch, taken>>
  BY <1>1, Arriving
<1>3. /\ Carries(m) <=> m.value # NoOrder
      /\ Rejects(m) <=> m.request = "order_place" /\ m.value = NoOrder
  BY <1>2, FrameKinds
<1>4. \/ Carries(m) /\ Update(m.value, "INCREMENTAL")
      \/ ~Carries(m) /\ Rejects(m) /\ Reject
      \/ ~Carries(m) /\ ~Rejects(m) /\ oms' = oms /\ stale' = stale
  <2>1. \/ m.value # NoOrder /\ Update(m.value, "INCREMENTAL")
        \/ m.value = NoOrder /\ m.request = "order_place" /\ Reject
        \/ m.value = NoOrder /\ m.request # "order_place" /\ UNCHANGED omsVars
    BY DEF TradeOrderRequest
  <2>2. UNCHANGED omsVars => oms' = oms /\ stale' = stale
    BY DEF omsVars
  <2> QED BY <1>3, <2>1, <2>2
<1>5. state' # "UNDEFINED" /\ outbox' = outbox
  BY <1>1, <1>2 DEF Quiet
<1>6. <<>> \in Seq(Queries) /\ outbox' = outbox \o <<>>
  BY <1>5, NothingSent
<1> QED BY <1>2, <1>4, <1>5, <1>6, Handling

LEMMA ListTaken ==
    ASSUME IInv, TradeOrderList
    PROVE  IInv'
<1> DEFINE m == Head(inbox)
<1>1. Arrived("order_list") /\ Handled /\ CheckStaleOrders
  BY DEF TradeOrderList
<1>2. /\ inbox # <<>> /\ inbox' = Tail(inbox) /\ m \in ToGateway /\ m.type = "order_list"
      /\ UNCHANGED <<asked, changes, exch, taken>>
  BY <1>1, Arriving
<1>3. (Carries(m) <=> m.value # NoOrder) /\ ~Rejects(m)
  BY <1>2, FrameKinds
<1>4. \/ Carries(m) /\ Update(m.value, "SNAPSHOT")
      \/ ~Carries(m) /\ ~Rejects(m) /\ oms' = oms /\ stale' = stale
  <2>1. \/ m.value # NoOrder /\ Update(m.value, "SNAPSHOT")
        \/ m.value = NoOrder /\ UNCHANGED omsVars
    BY DEF TradeOrderList
  <2>2. UNCHANGED omsVars => oms' = oms /\ stale' = stale
    BY DEF omsVars
  <2> QED BY <1>3, <2>1, <2>2
<1>5. PICK q \in Seq(Queries) : Sends(q) /\ (q # <<>> => stale')
  BY <1>1, StaleQueryType
<1>6. outbox' = outbox \o q
  BY <1>5 DEF Sends
<1>7. state' # "UNDEFINED"
  BY DEF TradeOrderList, MoveOn
<1> QED BY <1>2, <1>4, <1>5, <1>6, <1>7, Handling

LEMMA StatusTaken ==
    ASSUME IInv, TradeOrderStatus
    PROVE  IInv'
<1> DEFINE m == Head(inbox)
<1>1. Arrived("order_status") /\ Handled /\ outbox' = outbox
  BY DEF TradeOrderStatus
<1>2. /\ inbox # <<>> /\ inbox' = Tail(inbox) /\ state # "UNDEFINED"
      /\ m \in ToGateway /\ m.type = "order_status"
      /\ UNCHANGED <<asked, changes, exch, taken>>
  BY <1>1, Arriving
<1>3. /\ Carries(m) <=> m.status = 200
      /\ Rejects(m) <=> m.status = 404
  BY <1>2, FrameKinds
<1>4. \/ Carries(m) /\ Update(m.value, "SNAPSHOT")
      \/ ~Carries(m) /\ Rejects(m) /\ Reject
      \/ ~Carries(m) /\ ~Rejects(m) /\ oms' = oms /\ stale' = stale
  <2>1. \/ m.status = 404 /\ Reject
        \/ m.status = 400 /\ UNCHANGED omsVars
        \/ m.status = 200 /\ Update(m.value, "SNAPSHOT")
    BY DEF TradeOrderStatus
  <2>2. UNCHANGED omsVars => oms' = oms /\ stale' = stale
    BY DEF omsVars
  <2> QED BY <1>3, <2>1, <2>2
<1>5. state' # "UNDEFINED"
  BY <1>2 DEF TradeOrderStatus, MoveOn
<1>6. <<>> \in Seq(Queries) /\ outbox' = outbox \o <<>>
  BY <1>1, NothingSent
<1> QED BY <1>2, <1>4, <1>5, <1>6, Handling

-----------------------------------------------------------------------------
(* The exchange.                                                           *)

LEMMA FramesSent ==
    ASSUME NEW a, NEW c, NEW h \in ToExchange(a, c)
    PROVE  /\ h.type = "order_place" =>
                 a \in Requests /\ Supported(a) /\ h.order = OrderPlace(a)
           /\ h.type = "order_amend" =>
                 a \in Requests /\ \E n \in c : h.change = OrderAmend(n, a.side)
<1>1. CASE h \in Placements(a)
  <2>1. h.type = "order_place" /\ a \in Requests /\ Supported(a) /\ h.order = OrderPlace(a)
    BY <1>1 DEF Placements
  <2> QED BY <2>1
<1>2. CASE h \in Amendments(a, c)
  <2>1. h.type = "order_amend" /\ a \in Requests /\ \E n \in c : h.change = OrderAmend(n, a.side)
    BY <1>2 DEF Amendments
  <2> QED BY <2>1
<1>3. CASE h \in Queries \cup Cancels \cup Lists
  <2>1. h.type \in {"order_status", "order_cancel", "order_list"}
    BY <1>3 DEF Queries, Cancels, Lists
  <2> QED BY <2>1
<1> QED BY <1>1, <1>2, <1>3 DEF ToExchange

(* What the exchange says of an order as it is.                            *)
Tells(m, e) ==
    /\ m \in ToGateway /\ Carries(m) /\ ~Rejects(m)
    /\ Wanted(m.value, asked, changes) /\ Like(m.value, e)

LEMMA FramesTold ==
    ASSUME NEW e, Wanted(e, asked, changes)
    PROVE  /\ \A r \in {"order_place", "order_amend", "order_cancel"} : Tells(Answer(r, e), e)
           /\ \A how \in {"", "new", "update"} : Tells(Push(e, how), e)
           /\ Tells([type |-> "order_list", value |-> e], e)
           /\ Tells([type |-> "order_status", status |-> 200, value |-> e], e)
<1>1. e \in Values /\ e # NoOrder /\ Like(e, e)
  BY WantedFields DEF Values, Like
<1>2. ASSUME NEW r \in {"order_place", "order_amend", "order_cancel"}
      PROVE  Tells(Answer(r, e), e)
  <2>1. Answer(r, e) \in ToGateway /\ Answer(r, e).type = "answer" /\ Answer(r, e).value = e
    BY <1>1 DEF Answer, ToGateway
  <2>2. Carries(Answer(r, e)) /\ ~Rejects(Answer(r, e))
    BY <1>1, <2>1 DEF Carries, Rejects
  <2> QED BY <1>1, <2>1, <2>2 DEF Tells
<1>3. ASSUME NEW how \in {"", "new", "update"} PROVE Tells(Push(e, how), e)
  <2> DEFINE m == Push(e, how)
             w == m.value
  <2>1. Wanted(w, asked, changes) /\ Like(w, e) /\ m = [type |-> "orders", value |-> w]
    BY PushedIsWanted
  <2> HIDE DEF m
  <2>2. w \in ExchangeOrder /\ w # NoOrder
    BY <2>1, WantedFields
  <2>3. m \in ToGateway /\ m.type = "orders"
    <3> HIDE DEF w
    <3> QED BY <2>1, <2>2 DEF ToGateway
  <2>4. Carries(m) /\ ~Rejects(m)
    BY <2>2, <2>3 DEF Carries, Rejects
  <2>5. Tells(m, e)
    BY <2>1, <2>3, <2>4 DEF Tells
  <2> QED BY <2>5 DEF m
<1>4. Tells([type |-> "order_list", value |-> e], e)
  <2> DEFINE m == [type |-> "order_list", value |-> e]
  <2>1. m \in ToGateway /\ m.type = "order_list" /\ m.value = e
    BY <1>1 DEF ToGateway
  <2> HIDE DEF m
  <2>2. Carries(m) /\ ~Rejects(m)
    BY <1>1, <2>1 DEF Carries, Rejects
  <2>3. Tells(m, e)
    BY <1>1, <2>1, <2>2 DEF Tells
  <2> QED BY <2>3 DEF m
<1>5. Tells([type |-> "order_status", status |-> 200, value |-> e], e)
  <2> DEFINE m == [type |-> "order_status", status |-> 200, value |-> e]
  <2>1. m \in ToGateway /\ m.type = "order_status" /\ m.status = 200 /\ m.value = e
    BY <1>1 DEF ToGateway
  <2> HIDE DEF m
  <2>2. Carries(m) /\ ~Rejects(m)
    BY <1>1, <2>1 DEF Carries, Rejects
  <2>3. Tells(m, e)
    BY <1>1, <2>1, <2>2 DEF Tells
  <2> QED BY <2>3 DEF m
<1> QED BY <1>2, <1>3, <1>4, <1>5

LEMMA PairTold ==
    ASSUME NEW e, NEW m, NEW n, Tells(m, e), Tells(n, e)
    PROVE  /\ <<m, n>> \in Seq(ToGateway) /\ <<m, n>> # <<>>
           /\ \A i \in DOMAIN <<m, n>> : Tells(<<m, n>>[i], e)
<1>1. m \in ToGateway /\ n \in ToGateway
  BY DEF Tells
<1>2. <<m, n>> \in Seq(ToGateway) /\ <<m, n>> # <<>>
  BY <1>1, PairOf
<1>3. \A i \in DOMAIN <<m, n>> : <<m, n>>[i] \in {m, n}
  BY PairOf
<1> QED BY <1>2, <1>3

(* A request is under way only while there is a socket.                    *)
LEMMA Asking ==
    ASSUME IInv, NEW t, Requested(t), NEW r, Reply(r)
    PROVE  /\ Answers /\ Hears(r) /\ state # "UNDEFINED"
           /\ UNCHANGED <<asked, changes, oms, stale, state>>
           /\ Head(outbox).type = t /\ Head(outbox) \in ToExchange(asked, changes)
<1>1. /\ Answers /\ Hears(r) /\ outbox # <<>> /\ Head(outbox).type = t
      /\ UNCHANGED <<asked, changes, oms, stale, state>>
  BY DEF Requested, Reply, Answers, Hears, history, omsVars
<1>2. outbox \in Seq(ToExchange(asked, changes)) /\ state # "UNDEFINED"
  BY <1>1 DEF IInv, Types, Lost
<1>3. Head(outbox) \in ToExchange(asked, changes)
  BY <1>1, <1>2, TailOf
<1> QED BY <1>1, <1>2, <1>3

LEMMA NothingAnswered ==
    ASSUME NEW r \in {"order_place", "order_amend", "order_cancel"}
    PROVE  /\ <<Answer(r, NoOrder)>> \in Seq(ToGateway)
           /\ NoneCarries(<<Answer(r, NoOrder)>>)
           /\ NoneRejects(<<Answer(r, NoOrder)>>) <=> r # "order_place"
<1>1. /\ Answer(r, NoOrder) \in ToGateway /\ Answer(r, NoOrder).type = "answer"
      /\ Answer(r, NoOrder).value = NoOrder /\ Answer(r, NoOrder).request = r
  BY DEF Answer, ToGateway, Values
<1>2. ~Carries(Answer(r, NoOrder)) /\ (Rejects(Answer(r, NoOrder)) <=> r = "order_place")
  BY <1>1 DEF Carries, Rejects
<1> QED BY <1>1, <1>2, SingleOf

(* A new order finds the exchange without one.                             *)
LEMMA NewAtExchange ==
    ASSUME IInv, Requested("order_place")
    PROVE  exch = NoOrder
<1>1. outbox \in Seq(ToExchange(asked, changes)) /\ Placing /\ outbox # <<>>
      /\ Head(outbox).type = "order_place"
  BY DEF IInv, Types, Requested
<1>2. ~None(outbox, {"order_place"})
  BY <1>1, TailOf
<1> QED BY <1>1, <1>2 DEF Placing

LEMMA RefusedOrder ==
    ASSUME IInv, NEW t \in {"order_place", "order_amend", "order_cancel"},
           Requested(t), Refuse(t)
    PROVE  IInv'
<1> DEFINE r == <<Answer(t, NoOrder)>>
<1>1. Reply(r) /\ exch' = exch /\ taken' = taken
  BY DEF Refuse, venue
<1>2. /\ r \in Seq(ToGateway) /\ NoneCarries(r) /\ (NoneRejects(r) <=> t # "order_place")
  BY NothingAnswered
<1> HIDE DEF r
<1>3. /\ Answers /\ Hears(r) /\ UNCHANGED <<asked, changes, oms, stale, state>>
      /\ Head(outbox).type = t
  BY <1>1, Asking
<1>4. t = "order_place" => exch = NoOrder
  BY NewAtExchange
<1> QED BY <1>1, <1>2, <1>3, <1>4, Silent

LEMMA MoreTaken ==
    ASSUME NEW m \in Nat, NEW n \in Nat
    PROVE  m + n \in Nat /\ (n = 0 => m + n = m)
OBVIOUS

(* An order is executed against the book, and both frames tell it.         *)
LEMMA Matched ==
    ASSUME IInv, NEW t \in {"order_place", "order_amend"}, Requested(t),
           NEW how \in {"new", "update"}, NEW v, Match(v, t, how),
           Wanted(v, asked, changes), v.status = "open", v.finish_as = "",
           t # "order_place" => IsOpen(exch)
    PROVE  IInv'
<1>1. PICK n \in Takes(v) :
         /\ exch' = Execute(v, n) /\ taken' = taken + n
         /\ \/ Reply(<<Answer(t, exch'), Push(exch', how)>>)
            \/ Reply(<<Push(exch', how), Answer(t, exch')>>)
  BY DEF Match
<1>2. n \in 0 .. Abs(v.left) /\ n \in Nat /\ (v.tif = "poc" => n = 0)
  BY TakesSome
<1>3. /\ Wanted(exch', asked, changes) /\ exch'.tif = v.tif
      /\ exch'.status = "open" => exch'.finish_as = ""
  BY <1>1, <1>2, ExecutedIsWanted
<1>4. exch' # NoOrder
  BY <1>3, WantedFields
<1>5. taken \in Nat /\ ExchIsAsked
  BY DEF IInv, Types
<1>6. taken' \in Nat /\ (taken' > 0 => exch'.tif # "poc")
  <2>1. taken > 0 => v.tif # "poc"
    BY <1>5 DEF ExchIsAsked, Wanted
  <2>2. taken' = taken + n /\ exch'.tif = v.tif
    BY <1>1, <1>3
  <2>3. taken + n \in Nat /\ (n = 0 => taken + n = taken)
    BY <1>2, <1>5, MoreTaken
  <2>4. v.tif = "poc" => taken' = taken
    BY <1>2, <2>2, <2>3
  <2> QED BY <2>1, <2>2, <2>3, <2>4
<1>7. Tells(Answer(t, exch'), exch') /\ Tells(Push(exch', how), exch')
  BY <1>3, FramesTold
<1>8. PICK r : Reply(r) /\ r \in {<<Answer(t, exch'), Push(exch', how)>>,
                                  <<Push(exch', how), Answer(t, exch')>>}
  BY <1>1
<1>9. r \in Seq(ToGateway) /\ r # <<>> /\ \A i \in DOMAIN r : Tells(r[i], exch')
  <2>1. CASE r = <<Answer(t, exch'), Push(exch', how)>>
    BY <1>7, <2>1, PairTold
  <2>2. CASE r = <<Push(exch', how), Answer(t, exch')>>
    BY <1>7, <2>2, PairTold
  <2> QED BY <1>8, <2>1, <2>2
<1>10. /\ Answers /\ Hears(r) /\ state # "UNDEFINED"
       /\ UNCHANGED <<asked, changes, oms, stale, state>> /\ Head(outbox).type = t
  BY <1>8, Asking
<1>11. t = "order_place" => exch = NoOrder
  BY NewAtExchange
<1>12. IsOpen(exch)' => exch'.finish_as = ""
  BY <1>3 DEF IsOpen
<1>13. \A i \in DOMAIN r : /\ Carries(r[i]) /\ ~Rejects(r[i])
                           /\ Wanted(r[i].value, asked, changes) /\ Like(r[i].value, exch')
  BY <1>9 DEF Tells
<1> QED BY <1>3, <1>4, <1>6, <1>9, <1>10, <1>11, <1>12, <1>13, Telling

LEMMA Placed ==
    ASSUME IInv, ExchangeOrderPlace
    PROVE  IInv'
<1> DEFINE f == Head(outbox).order
<1>1. Requested("order_place")
  BY DEF ExchangeOrderPlace
<1>2. CASE Refuse("order_place")
  BY <1>1, <1>2, RefusedOrder
<1>3. CASE Match(Resting(f), "order_place", "new")
  <2>1. PICK r : Reply(r)
    BY <1>3 DEF Match
  <2>2. Head(outbox).type = "order_place" /\ Head(outbox) \in ToExchange(asked, changes)
    BY <1>1, <2>1, Asking
  <2>3. asked \in Requests /\ Supported(asked) /\ f = OrderPlace(asked)
    BY <2>2, FramesSent
  <2>4. changes \in SUBSET Changes
    BY DEF IInv, Types
  <2>5. /\ Wanted(Resting(f), asked, changes) /\ Resting(f).status = "open"
        /\ Resting(f).finish_as = ""
    BY <2>3, <2>4, PlacedIsWanted DEF IsOpen
  <2> HIDE DEF f
  <2> QED BY <1>1, <1>3, <2>5, Matched
<1> QED BY <1>2, <1>3 DEF ExchangeOrderPlace

LEMMA AmendedAtExchange ==
    ASSUME IInv, ExchangeOrderAmend
    PROVE  IInv'
<1> DEFINE f == Head(outbox).change
           size == Change(f, "size", exch.size)
           left == IF size < 0 THEN size + Executed(exch) ELSE size - Executed(exch)
           w == [exch EXCEPT !.size = size, !.left = left, !.price = Change(f, "price", exch.price)]
<1>1. Requested("order_amend")
  BY DEF ExchangeOrderAmend
<1>2. CASE Refuse("order_amend")
  BY <1>1, <1>2, RefusedOrder
<1>3. CASE IsOpen(exch) /\ left * size > 0 /\ Match(w, "order_amend", "update")
  <2>1. PICK r : Reply(r)
    BY <1>3 DEF Match
  <2>2. Head(outbox).type = "order_amend" /\ Head(outbox) \in ToExchange(asked, changes)
    BY <1>1, <2>1, Asking
  <2>3. PICK m \in changes : f = OrderAmend(m, asked.side)
    BY <2>2, FramesSent
  <2>4. exch # NoOrder /\ exch.status = "open"
    BY <1>3 DEF IsOpen
  <2>5. /\ changes \in SUBSET Changes /\ Wanted(exch, asked, changes) /\ exch.finish_as = ""
    BY <1>3, <2>4 DEF IInv, Types, ExchIsAsked
  <2>6. SomeIsLeft(exch, m, asked.side) /\ w = Amended(exch, m, asked.side)
    BY <1>3, <2>3 DEF SomeIsLeft, NewLeft, NewSize, NewPrice, Amended
  <2> HIDE DEF w
  <2>7. Wanted(w, asked, changes) /\ w.status = "open" /\ w.finish_as = ""
    BY <2>4, <2>5, <2>6, AmendedIsWanted
  <2>8. Match(w, "order_amend", "update")
    BY <1>3
  <2> QED BY <1>1, <1>3, <2>7, <2>8, Matched
<1> QED BY <1>2, <1>3 DEF ExchangeOrderAmend

LEMMA CancelledAtExchange ==
    ASSUME IInv, ExchangeOrderCancel
    PROVE  IInv'
<1> DEFINE w == [exch EXCEPT !.status = "finished", !.finish_as = "cancelled"]
<1>1. Requested("order_cancel")
  BY DEF ExchangeOrderCancel
<1>2. CASE Refuse("order_cancel")
  BY <1>1, <1>2, RefusedOrder
<1>3. CASE /\ IsOpen(exch) /\ exch' = w /\ taken' = taken
           /\ Reply(<<Push(exch', ""), Answer("order_cancel", exch')>>)
  <2>1. ExchIsAsked /\ taken \in Nat
    BY DEF IInv, Types
  <2>2. exch # NoOrder /\ Wanted(exch, asked, changes)
    BY <1>3, <2>1 DEF IsOpen, ExchIsAsked
  <2>3. "cancelled" \in DOMAIN FinishedAs
    BY DEF FinishedAs
  <2>4. /\ Wanted(exch', asked, changes) /\ exch'.status = "finished" /\ exch'.tif = exch.tif
    BY <1>3, <2>2, <2>3, EndedIsWanted
  <2>5. exch' # NoOrder
    BY <2>4, WantedFields
  <2>6. Tells(Push(exch', ""), exch') /\ Tells(Answer("order_cancel", exch'), exch')
    BY <2>4, FramesTold
  <2> DEFINE r == <<Push(exch', ""), Answer("order_cancel", exch')>>
  <2>7. r \in Seq(ToGateway) /\ r # <<>> /\ \A i \in DOMAIN r : Tells(r[i], exch')
    BY <2>6, PairTold
  <2>8. Reply(r)
    BY <1>3
  <2> HIDE DEF r
  <2>9. /\ Answers /\ Hears(r) /\ state # "UNDEFINED"
        /\ UNCHANGED <<asked, changes, oms, stale, state>>
    BY <1>1, <2>8, Asking
  <2>10. \A i \in DOMAIN r : /\ Carries(r[i]) /\ ~Rejects(r[i])
                             /\ Wanted(r[i].value, asked, changes) /\ Like(r[i].value, exch')
    BY <2>7 DEF Tells
  <2>11. taken' \in Nat /\ (taken' > 0 => exch'.tif # "poc")
    BY <1>3, <2>1, <2>4 DEF ExchIsAsked
  <2>12. IsOpen(exch)' => exch'.finish_as = ""
    BY <2>4 DEF IsOpen
  <2> QED BY <1>3, <2>4, <2>5, <2>7, <2>9, <2>10, <2>11, <2>12, Telling
<1> QED BY <1>2, <1>3 DEF ExchangeOrderCancel

(* The exchange tells of the order as it is, whatever it was asked.        *)
LEMMA Described ==
    ASSUME IInv, NEW t, Requested(t), UNCHANGED <<exch, taken>>, exch # NoOrder,
           NEW m, Tells(m, exch), Reply(<<m>>)
    PROVE  IInv'
<1>1. ExchIsAsked /\ taken \in Nat
  BY DEF IInv, Types
<1>2. /\ Wanted(exch', asked, changes) /\ exch' # NoOrder /\ taken' \in Nat
      /\ IsOpen(exch)' => exch'.finish_as = ""
  BY <1>1 DEF ExchIsAsked, IsOpen
<1>3. taken' > 0 => exch'.tif # "poc"
  BY <1>1 DEF ExchIsAsked
<1>4. /\ <<m>> \in Seq(ToGateway) /\ <<m>> # <<>> /\ \A i \in DOMAIN <<m>> : <<m>>[i] = m
  BY SingleOf DEF Tells
<1>5. \A i \in DOMAIN <<m>> :
         /\ Carries(<<m>>[i]) /\ ~Rejects(<<m>>[i])
         /\ Wanted(<<m>>[i].value, asked, changes) /\ Like(<<m>>[i].value, exch')
  BY <1>4 DEF Tells
<1>6. /\ Answers /\ Hears(<<m>>) /\ state # "UNDEFINED"
      /\ UNCHANGED <<asked, changes, oms, stale, state>>
  BY Asking
<1> QED BY <1>2, <1>3, <1>4, <1>5, <1>6, Telling

LEMMA Listed ==
    ASSUME IInv, ExchangeOrderList
    PROVE  IInv'
<1>1. Requested("order_list") /\ exch' = exch /\ taken' = taken
  BY DEF ExchangeOrderList, venue
<1>2. CASE IsOpen(exch)
  <2> DEFINE m == [type |-> "order_list", value |-> exch]
  <2>1. Reply(<<m>>)
    BY <1>2 DEF ExchangeOrderList
  <2>2. exch # NoOrder /\ Wanted(exch, asked, changes)
    BY <1>2 DEF IInv, ExchIsAsked, IsOpen
  <2>3. Tells(m, exch)
    BY <2>2, FramesTold
  <2> HIDE DEF m
  <2> QED BY <1>1, <2>1, <2>2, <2>3, Described
<1>3. CASE ~IsOpen(exch)
  <2> DEFINE m == [type |-> "order_list", value |-> NoOrder]
  <2>1. Reply(<<m>>)
    BY <1>3 DEF ExchangeOrderList
  <2>2. m \in ToGateway /\ m.type = "order_list" /\ m.value = NoOrder
    BY DEF ToGateway, Values
  <2> HIDE DEF m
  <2>3. ~Carries(m) /\ ~Rejects(m)
    BY <2>2 DEF Carries, Rejects
  <2>4. <<m>> \in Seq(ToGateway) /\ NoneCarries(<<m>>) /\ NoneRejects(<<m>>)
    BY <2>2, <2>3, SingleOf
  <2>5. /\ Answers /\ Hears(<<m>>) /\ UNCHANGED <<asked, changes, oms, stale, state>>
        /\ Head(outbox).type = "order_list"
    BY <1>1, <2>1, Asking
  <2> QED BY <1>1, <1>3, <2>4, <2>5, Silent
<1> QED BY <1>2, <1>3

LEMMA Queried ==
    ASSUME IInv, ExchangeOrderStatus
    PROVE  IInv'
<1> DEFINE s == CASE Head(outbox).settle = "" -> 400
                  [] Head(outbox).settle # "" /\ exch = NoOrder -> 404
                  [] OTHER -> 200
           m == [type |-> "order_status", status |-> s, value |-> exch]
<1>1. Requested("order_status") /\ exch' = exch /\ taken' = taken /\ Reply(<<m>>)
  BY DEF ExchangeOrderStatus, venue
<1>2. s \in {200, 400, 404} /\ (s = 200 => exch # NoOrder) /\ (s = 404 => exch = NoOrder)
  <2>1. Head(outbox).settle = "" => s = 400
    OBVIOUS
  <2>2. Head(outbox).settle # "" /\ exch = NoOrder => s = 404
    OBVIOUS
  <2>3. Head(outbox).settle # "" /\ exch # NoOrder => s = 200
    OBVIOUS
  <2> HIDE DEF s, m
  <2>4. s = 400 \/ (s = 404 /\ exch = NoOrder) \/ (s = 200 /\ exch # NoOrder)
    BY <2>1, <2>2, <2>3
  <2>5. 400 # 404 /\ 400 # 200 /\ 404 # 200
    OBVIOUS
  <2> QED BY <2>4, <2>5
<1> HIDE DEF s
<1>3. ExchIsAsked
  BY DEF IInv
<1>4. CASE s = 200
  <2>1. exch # NoOrder /\ Wanted(exch, asked, changes)
    BY <1>2, <1>3, <1>4 DEF ExchIsAsked
  <2>2. m = [type |-> "order_status", status |-> 200, value |-> exch]
    BY <1>4
  <2>3. Tells(m, exch)
    BY <2>1, <2>2, FramesTold
  <2> HIDE DEF m
  <2> QED BY <1>1, <2>1, <2>3, Described
<1>5. CASE s # 200
  <2>1. exch \in Values
    BY <1>3, WantedFields DEF ExchIsAsked, Values
  <2>2. /\ m \in ToGateway /\ m.type = "order_status" /\ m.status = s
    BY <1>2, <1>5, <2>1 DEF ToGateway
  <2> HIDE DEF m
  <2>3. ~Carries(m) /\ (Rejects(m) <=> s = 404)
    BY <1>5, <2>2 DEF Carries, Rejects
  <2>4. <<m>> \in Seq(ToGateway) /\ NoneCarries(<<m>>) /\ (NoneRejects(<<m>>) <=> s # 404)
    BY <2>2, <2>3, SingleOf
  <2>5. /\ Answers /\ Hears(<<m>>) /\ UNCHANGED <<asked, changes, oms, stale, state>>
        /\ Head(outbox).type = "order_status"
    BY <1>1, Asking
  <2>6. NoneRejects(<<m>>) \/ exch = NoOrder
    BY <1>2, <2>4
  <2> QED BY <1>1, <2>4, <2>5, <2>6, Silent
<1> QED BY <1>4, <1>5

LEMMA Filled ==
    ASSUME IInv, ExchangeFill
    PROVE  IInv'
<1>1. ExchIsAsked /\ taken \in Nat /\ Lost /\ inbox \in Seq(Heard(asked, changes, exch))
  BY DEF IInv, Types
<1>2. /\ IsOpen(exch) /\ UNCHANGED <<asked, changes, oms, stale, state, outbox, taken>>
      /\ inbox' = IF state = "UNDEFINED" THEN inbox ELSE Append(inbox, Push(exch', "update"))
  BY DEF ExchangeFill, history, omsVars
<1>3. /\ exch # NoOrder /\ exch.status = "open" /\ Wanted(exch, asked, changes)
      /\ exch.finish_as = "" /\ (taken > 0 => exch.tif # "poc")
  BY <1>1, <1>2 DEF ExchIsAsked, IsOpen
<1>4. /\ Wanted(exch', asked, changes) /\ exch'.tif = exch.tif
      /\ exch'.status = "open" => exch'.finish_as = ""
  <2>1. ASSUME NEW n \in 1 .. Abs(exch.left), exch' = Execute(exch, n)
        PROVE  /\ Wanted(exch', asked, changes) /\ exch'.tif = exch.tif
               /\ exch'.status = "open" => exch'.finish_as = ""
    <3>1. n \in 0 .. Abs(exch.left)
      <4>1. \A k \in Int : \A i \in 1 .. k : i \in 0 .. k
        OBVIOUS
      <4>2. exch.left \in Int
        BY <1>3, WantedFields
      <4>3. Abs(exch.left) \in Int
        BY <4>2 DEF Abs
      <4> QED BY <4>1, <4>3
    <3> QED BY <1>3, <2>1, <3>1, ExecutedIsWanted
  <2>2. ASSUME NEW how \in {"liquidated", "auto_deleveraged", "reduce_only", "position_close", "stp"},
               exch' = [exch EXCEPT !.status = "finished", !.finish_as = how]
        PROVE  /\ Wanted(exch', asked, changes) /\ exch'.tif = exch.tif
               /\ exch'.status = "open" => exch'.finish_as = ""
    <3>1. how \in DOMAIN FinishedAs /\ how \notin {"new", "update", "reduce_out"}
      BY DEF FinishedAs
    <3> QED BY <1>3, <2>2, <3>1, EndedIsWanted
  <2> QED BY <2>1, <2>2 DEF ExchangeFill
<1>5. exch' # NoOrder /\ (IsOpen(exch)' => exch'.finish_as = "")
  BY <1>4, WantedFields DEF IsOpen
<1>6. CASE state = "UNDEFINED"
  BY <1>2, <1>4, <1>5, <1>6, Unheard
<1>7. CASE state # "UNDEFINED"
  <2> DEFINE m == Push(exch', "update")
  <2>1. Tells(m, exch')
    BY <1>4, FramesTold
  <2>2. Hears(<<m>>)
    BY <1>1, <1>2, <1>7, AppendIsConcat DEF Hears
  <2> HIDE DEF m
  <2>3. /\ <<m>> \in Seq(ToGateway) /\ <<m>> # <<>> /\ \A i \in DOMAIN <<m>> : <<m>>[i] = m
    BY <2>1, SingleOf DEF Tells
  <2>4. \A i \in DOMAIN <<m>> :
           /\ Carries(<<m>>[i]) /\ ~Rejects(<<m>>[i])
           /\ Wanted(<<m>>[i].value, asked, changes) /\ Like(<<m>>[i].value, exch')
    BY <2>1, <2>3 DEF Tells
  <2>5. taken' \in Nat /\ (taken' > 0 => exch'.tif # "poc")
    BY <1>1, <1>2, <1>3, <1>4
  <2> QED BY <1>2, <1>4, <1>5, <1>7, <2>2, <2>3, <2>4, <2>5, Telling
<1> QED BY <1>6, <1>7

-----------------------------------------------------------------------------
(* The invariant holds at first and stays.                                 *)

LEMMA InitIInv == Init => IInv
<1>1. SUFFICES ASSUME Init PROVE IInv
  OBVIOUS
<1>2. /\ state = "UNDEFINED" /\ outbox = <<>> /\ inbox = <<>> /\ changes = {}
      /\ oms = NoOrder /\ stale = FALSE /\ taken = 0
  BY <1>1 DEF Init
<1>3. \/ asked = NoOrder /\ exch = NoOrder
      \/ /\ asked \in Requests /\ Wanted(exch, asked, changes) /\ IsOpen(exch)
         /\ exch.finish_as = ""
  <2>1. ASSUME NEW c \in Requests, Supported(c), asked = c, exch = Resting(OrderPlace(c))
        PROVE  /\ asked \in Requests /\ Wanted(exch, asked, changes) /\ IsOpen(exch)
               /\ exch.finish_as = ""
    <3>1. changes \in SUBSET Changes
      BY <1>2
    <3> QED BY <2>1, <3>1, PlacedIsWanted
  <2> QED BY <1>1, <2>1 DEF Init
<1>4. asked # NoOrder => asked \in Requests /\ exch # NoOrder /\ IsOpen(exch)
  BY <1>3, WantedFields
<1>5. asked \in Requests => asked # NoOrder
  BY RequestFields
<1>6. Types
  BY <1>2, <1>3, EmptyOf DEF Types
<1>7. OnlyAsked /\ OmsIsAsked
  BY <1>2, <1>3, <1>5 DEF OnlyAsked, OmsIsAsked
<1>8. ExchIsAsked
  <2>1. exch # NoOrder => Wanted(exch, asked, changes) /\ (IsOpen(exch) => exch.finish_as = "")
    BY <1>3
  <2>2. ~(taken > 0)
    BY <1>2
  <2> QED BY <2>1, <2>2 DEF ExchIsAsked
<1>9. Lost /\ Unplaced
  BY <1>2 DEF Lost, Unplaced, Lives
<1>10. OnlyKnown
  BY <1>2, EmptyOf DEF OnlyKnown
<1>11. Placing /\ Refused /\ Told
  BY <1>2, EmptyOf DEF Placing, Refused, Told
<1>12. Settled /\ Over
  BY <1>2 DEF Settled, Over
<1> QED BY <1>6, <1>7, <1>8, <1>9, <1>10, <1>11, <1>12 DEF IInv

LEMMA NextIInv == IInv /\ [Next]_vars => IInv'
<1>1. SUFFICES ASSUME IInv, [Next]_vars PROVE IInv'
  OBVIOUS
<1>2. ASSUME UNCHANGED <<state, outbox, inbox, asked, changes, oms, stale, exch, taken>>
      PROVE  IInv'
  BY <1>1, <1>2 DEF IInv, Types, OnlyAsked, OmsIsAsked, ExchIsAsked, Lost, OnlyKnown, Placing,
       Refused, Unplaced, Settled, Over, Told, Lives, IsOpen
<1>3. CASE SocketReady
  BY <1>1, <1>3, Opened
<1>4. CASE Disconnected
  BY <1>1, <1>4, Closed
<1>5. CASE ContractsAck
  BY <1>2, <1>5 DEF ContractsAck, history, omsVars, venue
<1>6. CASE Timer
  BY <1>1, <1>6, Repeated
<1>7. ASSUME NEW c \in Requests, CreateOrder(c) PROVE IInv'
  BY <1>1, <1>7, Created
<1>8. ASSUME NEW m \in Changes, ModifyOrder(m) PROVE IInv'
  BY <1>1, <1>8, Changed
<1>9. CASE CancelOrder
  BY <1>1, <1>9, Cancelled
<1>10. CASE TradeOrders
  BY <1>1, <1>10, PushTaken
<1>11. CASE TradeOrderRequest
  BY <1>1, <1>11, AnswerTaken
<1>12. CASE TradeOrderList
  BY <1>1, <1>12, ListTaken
<1>13. CASE TradeOrderStatus
  BY <1>1, <1>13, StatusTaken
<1>14. CASE ExchangeOrderPlace
  BY <1>1, <1>14, Placed
<1>15. CASE ExchangeOrderAmend
  BY <1>1, <1>15, AmendedAtExchange
<1>16. CASE ExchangeOrderCancel
  BY <1>1, <1>16, CancelledAtExchange
<1>17. CASE ExchangeOrderList
  BY <1>1, <1>17, Listed
<1>18. CASE ExchangeOrderStatus
  BY <1>1, <1>18, Queried
<1>19. CASE ExchangeFill
  BY <1>1, <1>19, Filled
<1>20. CASE UNCHANGED vars
  BY <1>2, <1>20 DEF vars
<1> QED
  BY <1>1, <1>3, <1>4, <1>5, <1>6, <1>7, <1>8, <1>9, <1>10, <1>11, <1>12, <1>13, <1>14, <1>15,
     <1>16, <1>17, <1>18, <1>19, <1>20 DEF Next, Receive, Exchange

LEMMA Invariant == Spec => []IInv
BY InitIInv, NextIInv, PTL DEF Spec

-----------------------------------------------------------------------------
(* Whatever the OMS was told, over any answers, pushes, lists and queries  *)
(* in any order they may arrive in, and whatever was lost with a socket,   *)
(* what it has of the order is what was asked for (create_order_update).   *)
THEOREM ReportedAlwaysAsAsked == Spec => []ReportedAsAsked
<1>1. IInv => ReportedAsAsked
  <2>1. SUFFICES ASSUME IInv, oms # NoOrder, oms.order_status \notin {"SENT", "REJECTED"}
                 PROVE  /\ oms.side = asked.side
                        /\ oms.quantity \in Quantities
                        /\ oms.time_in_force = ReportedTif
                        /\ oms.traded + oms.remaining = oms.quantity
                        /\ oms.remaining \in 0 .. oms.quantity
    BY DEF ReportedAsAsked
  <2>2. oms.side = asked.side /\ Reported(oms, asked, changes)
    BY <2>1 DEF IInv, OmsIsAsked
  <2>3. /\ oms.quantity \in AskedQuantities(asked, changes)
        /\ oms.traded + oms.remaining = oms.quantity
        /\ oms.remaining \in 0 .. oms.quantity
    BY <2>1, <2>2 DEF Reported
  <2>4. oms.time_in_force = ReportedTif
    BY <2>1, <2>2 DEF Reported, ReportedTif
  <2> QED BY <2>2, <2>3, <2>4 DEF AskedQuantities, Quantities
<1> QED BY Invariant, <1>1, PTL

(* The exchange never executes a post-only order on arrival, never lets an *)
(* order that is not to increase the position do so, and never has a price *)
(* that nobody asked for, however often the order was amended (the         *)
(* order_place and order_amend frames of the encoder).                     *)
THEOREM ExecutedAlwaysAsAsked == Spec => []ExecutedAsAsked
<1>1. IInv => ExecutedAsAsked
  <2>1. SUFFICES ASSUME IInv, exch # NoOrder
                 PROVE  /\ taken > 0 => IsMarket(asked) \/ ~PostOnly(asked)
                        /\ exch.reduce_only = ("DO_NOT_INCREASE" \in asked.execution_instructions)
                        /\ exch.price = 0 => IsMarket(asked) \/ asked.price = NaN
                        /\ exch.price \in Prices
    BY DEF ExecutedAsAsked
  <2>2. /\ Wanted(exch, asked, changes) /\ (taken > 0 => exch.tif # "poc")
        /\ changes \subseteq Changes
    BY <2>1 DEF IInv, ExchIsAsked, Types
  <2>3. asked \in Requests /\ Supported(asked) /\ exch.tif = Tif(asked)
    BY <2>2 DEF Wanted
  <2>4. taken > 0 => IsMarket(asked) \/ ~PostOnly(asked)
    BY <2>2, <2>3, TifType
  <2>5. exch.reduce_only = ("DO_NOT_INCREASE" \in asked.execution_instructions)
    BY <2>2 DEF Wanted
  <2>6. exch.price \in Prices
    BY <2>2 DEF Wanted, AskedPrices, Prices
  <2>7. ASSUME exch.price = 0 PROVE IsMarket(asked) \/ asked.price = NaN
    <3>1. 0 = Price(asked) \/ \E m \in changes : 0 = m.price
      BY <2>6, <2>7 DEF Prices
    <3>2. \A n \in (Nat \ {0}) \cup {NaN} : n # 0
      BY DEF NaN
    <3>3. \A m \in changes : m.price # 0
      BY <2>2, <3>2, ChangeFields
    <3>4. asked.price # 0
      BY <2>3, <3>2, RequestFields
    <3> QED BY <3>1, <3>3, <3>4 DEF Price
  <2> QED BY <2>4, <2>5, <2>6, <2>7
<1> QED BY Invariant, <1>1, PTL

(* When the stream is ready, nothing is under way and the order is not     *)
(* stale, the OMS has it as the exchange has it, number by number, however *)
(* many sessions broke and whatever happened to the order in between.      *)
THEOREM OrderAlwaysFollows == Spec => []OrderFollows
<1>1. IInv => OrderFollows
  <2>1. SUFFICES ASSUME IInv, state = "DONE", outbox = <<>>, inbox = <<>>, ~stale
                 PROVE  \/ exch = NoOrder /\ ~Lives(oms)
                        \/ oms = NoOrder /\ ~IsOpen(exch)
                        \/ /\ exch # NoOrder /\ oms # NoOrder
                           /\ oms.quantity = Abs(exch.size)
                           /\ oms.remaining = Abs(exch.left)
                           /\ oms.price = exch.price
                           /\ (oms.order_status = "WORKING") = IsOpen(exch)
    BY DEF OrderFollows
  <2>2. /\ \A T : None(outbox, T)
        /\ NoneCarries(inbox) /\ NoneRejects(inbox)
    BY <2>1, EmptyOf
  <2>3. Unplaced /\ Settled
    BY <2>1 DEF IInv
  <2>4. CASE exch = NoOrder
    BY <2>1, <2>2, <2>3, <2>4 DEF Unplaced
  <2>5. CASE exch # NoOrder
    <3>1. \/ oms # NoOrder /\ Agrees(oms, exch)
          \/ oms = NoOrder /\ ~IsOpen(exch)
      BY <2>1, <2>2, <2>3, <2>5 DEF Settled
    <3> QED BY <2>5, <3>1 DEF Agrees, IsOpen
  <2> QED BY <2>4, <2>5
<1> QED BY Invariant, <1>1, PTL
=============================================================================
