------------------------ MODULE SubscriptionsProofs ------------------------
(***************************************************************************)
(* Symbols, slices, streams and the download agree: for any contracts,     *)
(* size of a slice, connections and errors.                                *)
(***************************************************************************)
EXTENDS Subscriptions, FiniteSetTheorems, SequenceTheorems, TLAPS

-----------------------------------------------------------------------------
(* Sequences of distinct symbols.                                          *)

Distinct(s) == \A i, j \in DOMAIN s : s[i] = s[j] => i = j

(* An ordering of a finite set has each of its elements once.              *)
LEMMA OrderingsListAll ==
    ASSUME NEW S, IsFiniteSet(S), NEW q \in Orderings(S)
    PROVE  q \in Seq(S) /\ Distinct(q) /\ Range(q) = S
<1> DEFINE n == Cardinality(S)
<1>1. n \in Nat
  BY FS_CardinalityType
<1>2. q \in [1..n -> S] /\ Distinct(q)
  BY DEF Orderings, Distinct
<1>3. IsFiniteSet(1..n) /\ Cardinality(1..n) = n
  BY <1>1, FS_Interval
<1>4. q \in Injection(1..n, S)
  BY <1>2 DEF Injection, IsInjective, Distinct
<1>5. q \in Surjection(1..n, S)
  BY <1>3, <1>4, FS_Injection
<1>6. Range(q) = S
  BY <1>2, <1>5 DEF Surjection, Range
<1>7. q \in Seq(S)
  BY <1>1, <1>2
<1> QED
  BY <1>2, <1>6, <1>7

(* Elements that are not there yet may be appended.                        *)
LEMMA DistinctConcat ==
    ASSUME NEW S, NEW s \in Seq(S), NEW t \in Seq(S), Distinct(s), Distinct(t),
           Range(s) \cap Range(t) = {}
    PROVE  Distinct(s \o t) /\ Range(s \o t) = Range(s) \cup Range(t)
<1>1. DOMAIN (s \o t) = 1..(Len(s) + Len(t))
  OBVIOUS
<1>2. \A i \in DOMAIN (s \o t) :
          \/ i \in DOMAIN s /\ (s \o t)[i] = s[i]
          \/ i - Len(s) \in DOMAIN t /\ i \notin DOMAIN s /\ (s \o t)[i] = t[i - Len(s)]
  OBVIOUS
<1>3. \A i \in DOMAIN s : i \in DOMAIN (s \o t) /\ (s \o t)[i] = s[i]
  OBVIOUS
<1>4. \A i \in DOMAIN t :
          Len(s) + i \in DOMAIN (s \o t) /\ (s \o t)[Len(s) + i] = t[i]
  OBVIOUS
<1>5. Range(s \o t) = Range(s) \cup Range(t)
  <2> DEFINE u == s \o t
  <2>1. \A i \in DOMAIN u : u[i] \in Range(s) \cup Range(t)
    BY <1>2 DEF Range
  <2>2. \A i \in DOMAIN s : s[i] \in Range(u)
    BY <1>3 DEF Range
  <2>3. \A i \in DOMAIN t : t[i] \in Range(u)
    BY <1>4 DEF Range
  <2> HIDE DEF u
  <2>4. Range(u) = Range(s) \cup Range(t)
    BY <2>1, <2>2, <2>3 DEF Range
  <2> QED
    BY <2>4 DEF u
<1>6. ASSUME NEW i \in DOMAIN (s \o t), NEW j \in DOMAIN (s \o t),
             (s \o t)[i] = (s \o t)[j]
      PROVE  i = j
  <2>1. CASE i \in DOMAIN s /\ j \in DOMAIN s
    BY <2>1, <1>3, <1>6 DEF Distinct
  <2>2. CASE i \notin DOMAIN s /\ j \notin DOMAIN s
    <3>1. t[i - Len(s)] = t[j - Len(s)] /\ i - Len(s) \in DOMAIN t /\ j - Len(s) \in DOMAIN t
      BY <2>2, <1>2, <1>6
    <3>2. i - Len(s) = j - Len(s)
      BY <3>1 DEF Distinct
    <3> QED
      BY <3>2, <1>1
  <2>3. CASE i \in DOMAIN s /\ j \notin DOMAIN s
    BY <2>3, <1>2, <1>3, <1>6 DEF Range
  <2>4. CASE i \notin DOMAIN s /\ j \in DOMAIN s
    BY <2>4, <1>2, <1>3, <1>6 DEF Range
  <2> QED
    BY <2>1, <2>2, <2>3, <2>4
<1> QED
  BY <1>5, <1>6 DEF Distinct

-----------------------------------------------------------------------------
(* Slices.                                                                 *)

(* Their number is a natural number, and grows with the symbols.           *)
LEMMA SlicesGrow ==
    ASSUME NEW s \in Seq(Symbols), NEW t \in Seq(Symbols), Len(s) <= Len(t)
    PROVE  Slices(s) \in Nat /\ Slices(t) \in Nat /\ Slices(s) <= Slices(t)
<1> DEFINE a == Len(s) + SliceSize - 1
           b == Len(t) + SliceSize - 1
<1>1. SliceSize \in Nat \ {0} /\ a \in Nat /\ b \in Nat /\ a <= b
  BY SubscriptionsAssumption DEF SubscriptionsAssumption
<1> HIDE DEF a, b
<1>2. a \div SliceSize \in Nat /\ b \div SliceSize \in Nat /\ a \div SliceSize <= b \div SliceSize
  BY <1>1
<1> QED
  BY <1>2 DEF Slices, a, b

(* A window onto a sequence.                                               *)
End(s, b) == IF b < Len(s) THEN b ELSE Len(s)

Window(s, a, b) == SubSeq(s, a + 1, End(s, b))

WindowFacts(S, s, a, b) ==
    /\ End(s, b) \in Nat
    /\ b <= Len(s) => End(s, b) = b
    /\ b > Len(s) => End(s, b) = Len(s)
    /\ Window(s, a, b) \in Seq(S)
    /\ a <= End(s, b) => Len(Window(s, a, b)) = End(s, b) - a
    /\ a >= End(s, b) => Len(Window(s, a, b)) = 0
    /\ \A j \in 1..(End(s, b) - a) : Window(s, a, b)[j] = s[a + j]

LEMMA WindowOfSeq ==
    ASSUME NEW S, NEW s \in Seq(S), NEW a \in Nat, NEW b \in Nat
    PROVE  WindowFacts(S, s, a, b)
<1> DEFINE e == End(s, b)
<1>1. e \in Nat /\ e <= Len(s) /\ (b <= Len(s) => e = b) /\ (b > Len(s) => e = Len(s))
  BY DEF End
<1> HIDE DEF e
<1>2. \A j \in (a + 1)..e : s[j] \in S
  BY <1>1
<1>3. /\ SubSeq(s, a + 1, e) \in Seq(S)
      /\ Len(SubSeq(s, a + 1, e)) = IF a + 1 <= e THEN e - (a + 1) + 1 ELSE 0
      /\ \A j \in 1..(e - (a + 1) + 1) : SubSeq(s, a + 1, e)[j] = s[a + 1 + j - 1]
  BY <1>1, <1>2, SubSeqProperties, a + 1 \in Int, e \in Int
<1>4. Window(s, a, b) = SubSeq(s, a + 1, e)
  BY DEF Window, e
<1>5. e - (a + 1) + 1 = e - a /\ (a + 1 <= e <=> a < e)
  BY <1>1
<1>6. \A j \in 1..(e - a) : a + 1 + j - 1 = a + j
  BY <1>1
<1> QED
  BY <1>1, <1>3, <1>4, <1>5, <1>6 DEF e, WindowFacts

(* The numbers of a window from a to b: it ends at e of l symbols, and x   *)
(* are shown.                                                              *)
Ends(b, l, e) ==
    /\ e \in Nat
    /\ b <= l => e = b
    /\ b > l => e = l

Shows(a, e, x) ==
    /\ x \in Nat
    /\ a <= e => x = e - a
    /\ a >= e => x = 0

(* Behind the x that were shown come those from m on, up to z.             *)
Continues(a, l, e, f, m, x, y, z) ==
    /\ x + y = z
    /\ \A j \in 1..z :
          /\ j \in 1..(f - a)
          /\ j <= x => j \in 1..(e - a) /\ a + j \in 1..l
          /\ ~(j <= x) => m + (j - x) = a + j /\ j - x \in 1..(f - m)

LEMMA WindowNumbers ==
    ASSUME NEW a \in Nat, NEW b \in Nat, NEW l \in Nat, NEW k \in Nat,
           NEW e, NEW f, NEW x, NEW y, NEW z, a < b, l <= k,
           Ends(b, l, e), Ends(b, k, f),
           Shows(a, e, x), Shows(Later(a, l), f, y), Shows(a, f, z)
    PROVE  Continues(a, l, e, f, Later(a, l), x, y, z)
<1> DEFINE m == Later(a, l)
<1>1. m \in Nat /\ (a < l => m = l) /\ (a >= l => m = a)
  BY DEF Later
<1> HIDE DEF m
<1>2. Shows(m, f, y)
  BY DEF m
<1>3. Continues(a, l, e, f, m, x, y, z)
  BY <1>1, <1>2 DEF Ends, Shows, Continues
<1> QED
  BY <1>3 DEF m

(* When the sequence grows, the window shows what it did and, behind it,   *)
(* what of it is new.                                                      *)
LEMMA WindowGrows ==
    ASSUME NEW S, NEW s \in Seq(S), NEW t \in Seq(S),
           NEW a \in Nat, NEW b \in Nat, a < b
    PROVE  /\ Window(s \o t, Later(a, Len(s)), b) \in Seq(S)
           /\ Window(s \o t, a, b) = Window(s, a, b) \o Window(s \o t, Later(a, Len(s)), b)
<1> DEFINE u == s \o t
           m == Later(a, Len(s))
<1>1. u \in Seq(S) /\ Len(u) = Len(s) + Len(t) /\ \A j \in 1..Len(s) : u[j] = s[j]
  OBVIOUS
<1>2. m \in Nat
  BY DEF Later
<1> HIDE DEF u, m
<1> DEFINE e == End(s, b)
           f == End(u, b)
           x == Window(s, a, b)
           y == Window(u, m, b)
           z == Window(u, a, b)
<1>3. WindowFacts(S, s, a, b) /\ WindowFacts(S, u, m, b) /\ WindowFacts(S, u, a, b)
  BY <1>1, <1>2, WindowOfSeq
<1>4. /\ x \in Seq(S) /\ \A j \in 1..(e - a) : x[j] = s[a + j]
      /\ y \in Seq(S) /\ \A j \in 1..(f - m) : y[j] = u[m + j]
      /\ z \in Seq(S) /\ \A j \in 1..(f - a) : z[j] = u[a + j]
  BY <1>3 DEF WindowFacts
<1>5. /\ Ends(b, Len(s), e) /\ Ends(b, Len(u), f)
      /\ Shows(a, e, Len(x)) /\ Shows(m, f, Len(y)) /\ Shows(a, f, Len(z))
  BY <1>3, <1>4, LenProperties DEF WindowFacts, Ends, Shows
<1> HIDE DEF e, f, x, y, z
<1>6. Len(s) \in Nat /\ Len(u) \in Nat /\ Len(s) <= Len(u)
  BY <1>1
<1>7. /\ Len(x) + Len(y) = Len(z)
      /\ \A j \in 1..Len(z) :
            /\ j \in 1..(f - a)
            /\ j <= Len(x) => j \in 1..(e - a) /\ a + j \in 1..Len(s)
            /\ ~(j <= Len(x)) => m + (j - Len(x)) = a + j /\ j - Len(x) \in 1..(f - m)
  <2>1. Continues(a, Len(s), e, f, m, Len(x), Len(y), Len(z))
    BY <1>5, <1>6, WindowNumbers DEF m
  <2> QED
    BY <2>1 DEF Continues
<1>8. /\ x \o y \in Seq(S) /\ Len(x \o y) = Len(x) + Len(y)
      /\ \A j \in 1..(Len(x) + Len(y)) : (x \o y)[j] = IF j <= Len(x) THEN x[j] ELSE y[j - Len(x)]
  BY <1>4, ConcatProperties
<1>9. ASSUME NEW j \in 1..Len(z)
      PROVE  (x \o y)[j] = z[j]
  <2>1. (x \o y)[j] = IF j <= Len(x) THEN x[j] ELSE y[j - Len(x)]
    BY <1>7, <1>8
  <2>2. z[j] = u[a + j]
    BY <1>4, <1>7
  <2>3. CASE j <= Len(x)
    <3>1. x[j] = s[a + j] /\ u[a + j] = s[a + j]
      BY <2>3, <1>1, <1>4, <1>7
    <3> QED
      BY <2>1, <2>2, <2>3, <3>1
  <2>4. CASE ~(j <= Len(x))
    <3>1. y[j - Len(x)] = u[a + j]
      BY <2>4, <1>4, <1>7
    <3> QED
      BY <2>1, <2>2, <2>4, <3>1
  <2> QED
    BY <2>3, <2>4
<1>10. x \o y = z
  BY <1>4, <1>7, <1>8, <1>9, SeqEqual
<1> QED
  BY <1>4, <1>10 DEF u, m, x, y, z

(* What the symbols that are added bring to a slice is what it lacks.      *)
LEMMA SliceGrows ==
    ASSUME NEW s \in Seq(Symbols), NEW new \in Seq(Symbols), NEW i \in Nat \ {0}
    PROVE  /\ Slice(s, i, 0) \in Seq(Symbols)
           /\ Slice(s \o new, i, Len(s)) \in Seq(Symbols)
           /\ Slice(s \o new, i, 0) = Slice(s, i, 0) \o Slice(s \o new, i, Len(s))
<1> DEFINE a == (i - 1) * SliceSize
           b == i * SliceSize
<1>1. a \in Nat /\ b \in Nat /\ a < b
  <2>1. SliceSize \in Nat \ {0}
    BY SubscriptionsAssumption DEF SubscriptionsAssumption
  <2> QED
    BY <2>1
<1>2. \A t, n : Slice(t, i, n) = Window(t, Later(a, n), b)
  BY DEF Slice, Window, End
<1> HIDE DEF a, b
<1>3. Later(a, 0) = a
  BY <1>1 DEF Later
<1>4. Window(s, a, b) \in Seq(Symbols)
  BY <1>1, WindowOfSeq DEF WindowFacts
<1>5. /\ Window(s \o new, Later(a, Len(s)), b) \in Seq(Symbols)
      /\ Window(s \o new, a, b)
            = Window(s, a, b) \o Window(s \o new, Later(a, Len(s)), b)
  BY <1>1, WindowGrows
<1> QED
  BY <1>2, <1>3, <1>4, <1>5

(* What stream i shows at k is the symbol at (i - 1) * SliceSize + k.      *)
LEMMA SliceShows ==
    ASSUME NEW s \in Seq(Symbols), NEW i \in Nat \ {0}
    PROVE  /\ Slice(s, i, 0) \in Seq(Symbols)
           /\ \A k \in DOMAIN Slice(s, i, 0) :
                 /\ k \in 1..SliceSize
                 /\ (i - 1) * SliceSize + k \in DOMAIN s
                 /\ Slice(s, i, 0)[k] = s[(i - 1) * SliceSize + k]
           /\ \A k \in 1..SliceSize :
                 (i - 1) * SliceSize + k \in DOMAIN s => k \in DOMAIN Slice(s, i, 0)
<1> DEFINE a == (i - 1) * SliceSize
           b == i * SliceSize
           e == End(s, b)
           w == Window(s, a, b)
<1>1. SliceSize \in Nat \ {0}
  BY SubscriptionsAssumption DEF SubscriptionsAssumption
<1>2. a \in Nat /\ b \in Nat /\ b = a + SliceSize
  BY <1>1
<1>3. Slice(s, i, 0) = w
  BY <1>2 DEF Slice, Window, End, Later
<1> HIDE DEF a, b
<1>4. WindowFacts(Symbols, s, a, b)
  BY <1>2, WindowOfSeq
<1>5. w \in Seq(Symbols) /\ \A j \in 1..(e - a) : w[j] = s[a + j]
  BY <1>4 DEF WindowFacts
<1>6. Ends(b, Len(s), e) /\ Shows(a, e, Len(w))
  BY <1>4, <1>5, LenProperties DEF WindowFacts, Ends, Shows
<1> HIDE DEF e, w
<1>7. /\ \A k \in 1..Len(w) : k \in 1..SliceSize /\ a + k \in 1..Len(s) /\ k \in 1..(e - a)
      /\ \A k \in 1..SliceSize : a + k \in 1..Len(s) => k \in 1..Len(w)
  <2>1. Len(s) \in Nat
    OBVIOUS
  <2> QED
    BY <1>1, <1>2, <1>6, <2>1 DEF Ends, Shows
<1>8. DOMAIN w = 1..Len(w) /\ DOMAIN s = 1..Len(s)
  BY <1>5
<1>9. /\ \A k \in DOMAIN w : k \in 1..SliceSize /\ a + k \in DOMAIN s /\ w[k] = s[a + k]
      /\ \A k \in 1..SliceSize : a + k \in DOMAIN s => k \in DOMAIN w
  BY <1>5, <1>7, <1>8
<1> QED
  BY <1>3, <1>5, <1>9 DEF a

(* Each position is in a slice, and in no other.                           *)
LEMMA SlicePositions ==
    ASSUME NEW l \in Nat, NEW p \in 1..l
    PROVE  /\ \E i \in 1..((l + SliceSize - 1) \div SliceSize), k \in 1..SliceSize :
                 p = (i - 1) * SliceSize + k
           /\ \A i, j \in Nat \ {0}, k, m \in 1..SliceSize :
                 p = (i - 1) * SliceSize + k /\ p = (j - 1) * SliceSize + m => i = j
<1> DEFINE n == SliceSize
           q == (p - 1) \div n
           r == (p - 1) % n
<1>1. n \in Nat \ {0}
  BY SubscriptionsAssumption DEF SubscriptionsAssumption
<1> HIDE DEF n
<1>2. q \in Nat /\ r \in 0..(n - 1) /\ p - 1 = q * n + r
  BY <1>1
<1>3. q + 1 <= (l + n - 1) \div n /\ (l + n - 1) \div n \in Nat
  <2>1. (p - 1 + n) \div n = q + 1
    BY <1>1
  <2>2. p - 1 + n \in Nat /\ l + n - 1 \in Nat /\ p - 1 + n <= l + n - 1
    BY <1>1
  <2> DEFINE a == p - 1 + n
             b == l + n - 1
  <2> HIDE DEF a, b
  <2>3. a \in Nat /\ b \in Nat /\ a <= b => a \div n <= b \div n /\ b \div n \in Nat
    BY <1>1
  <2> QED
    BY <2>1, <2>2, <2>3 DEF a, b
<1> HIDE DEF q, r
<1>4. p = ((q + 1) - 1) * n + (r + 1) /\ r + 1 \in 1..n /\ q + 1 \in 1..((l + n - 1) \div n)
  BY <1>1, <1>2, <1>3
<1>5. ASSUME NEW i \in Nat \ {0}, NEW j \in Nat \ {0}, NEW k \in 1..n, NEW m \in 1..n,
             (i - 1) * n + k = (j - 1) * n + m
      PROVE  i = j
  <2>1. ~(i < j)
    <3>1. i < j => (j - 1) * n >= (i - 1) * n + n
      BY <1>1
    <3> QED
      BY <1>1, <1>5, <3>1
  <2>2. ~(j < i)
    <3>1. j < i => (i - 1) * n >= (j - 1) * n + n
      BY <1>1
    <3> QED
      BY <1>1, <1>5, <3>1
  <2> QED
    BY <2>1, <2>2
<1> QED
  BY <1>4, <1>5 DEF n

-----------------------------------------------------------------------------
(* What the handlers that touch symbols and streams preserve.              *)
FeedInv ==
    /\ all_symbols \subseteq Symbols
    /\ symbols \in Seq(Symbols)
    /\ market_data \in Seq(Stream)
    /\ EverySymbolHasAStream
    /\ ReadyIsSubscribed

(* A stream that subscribes what is new has all of its longer slice.       *)
LEMMA StreamSubscribesNew ==
    ASSUME NEW s \in Seq(Symbols), NEW new \in Seq(Symbols), NEW i \in Nat \ {0},
           NEW stream \in Stream,
           stream.subscribed = IF stream.status = "READY" THEN Slice(s, i, 0) ELSE <<>>
    PROVE  LET t == SubscribeStream(stream, s \o new, i, Len(s))
           IN  /\ t \in Stream
               /\ t.subscribed = IF t.status = "READY" THEN Slice(s \o new, i, 0) ELSE <<>>
<1>1. /\ Slice(s, i, 0) \in Seq(Symbols)
      /\ Slice(s \o new, i, Len(s)) \in Seq(Symbols)
      /\ Slice(s \o new, i, 0) = Slice(s, i, 0) \o Slice(s \o new, i, Len(s))
  BY SliceGrows
<1> DEFINE old == Slice(s, i, 0)
           more == Slice(s \o new, i, Len(s))
<1>2. old \o more \in Seq(Symbols)
  BY <1>1, ConcatProperties
<1>3. Slice(s \o new, i, 0) = old \o more
  BY <1>1
<1> HIDE DEF old, more
<1>4. CASE stream.status = "READY"
  <2>1. stream.subscribed = old
    BY <1>4 DEF old
  <2>2. SubscribeStream(stream, s \o new, i, Len(s))
            = [stream EXCEPT !.subscribed = stream.subscribed \o more]
    BY <1>4 DEF SubscribeStream, more
  <2> QED
    BY <1>2, <1>3, <1>4, <2>1, <2>2 DEF Stream
<1>5. CASE stream.status # "READY"
  BY <1>5 DEF SubscribeStream
<1> QED
  BY <1>4, <1>5

(* New symbols are added and every stream, old or new, keeps its slice.    *)
LEMMA SymbolsAreAdded ==
    ASSUME FeedInv, NEW new \in Seq(Symbols), Distinct(new),
           Range(new) \cap all_symbols = {},
           SymbolsUpdate(new), all_symbols' = all_symbols \cup Range(new)
    PROVE  FeedInv'
<1> DEFINE all == symbols \o new
           N == Slices(all)
           old(i) == IF i \in DOMAIN market_data THEN market_data[i] ELSE NewStream
<1>1. symbols \in Seq(Symbols) /\ Distinct(symbols) /\ Range(symbols) = all_symbols
  BY DEF FeedInv, EverySymbolHasAStream, Distinct
<1>2. all \in Seq(Symbols) /\ Len(symbols) <= Len(all)
  BY <1>1, ConcatProperties, LenProperties
<1>3. Distinct(all) /\ Range(all) = all_symbols \cup Range(new)
  BY <1>1, DistinctConcat
<1>4. Range(new) \subseteq Symbols
  BY DEF Range
<1> HIDE DEF all
<1>5. N \in Nat /\ Slices(symbols) <= N /\ Slices(symbols) \in Nat
  BY <1>1, <1>2, SlicesGrow
<1>6. Len(market_data) = Slices(symbols)
  BY DEF FeedInv, EverySymbolHasAStream
<1>7. Later(Len(market_data), N) = N
  BY <1>5, <1>6 DEF Later
<1>8. /\ symbols' = all
      /\ market_data' = [i \in 1..N |-> SubscribeStream(old(i), all, i, Len(symbols))]
  BY <1>7 DEF SymbolsUpdate, all
<1>9. ASSUME NEW i \in 1..N
      PROVE  /\ old(i) \in Stream
             /\ old(i).subscribed
                    = IF old(i).status = "READY" THEN Slice(symbols, i, 0) ELSE <<>>
  <2>1. CASE i \in DOMAIN market_data
    BY <2>1 DEF FeedInv, ReadyIsSubscribed
  <2>2. CASE i \notin DOMAIN market_data
    <3>1. <<>> \in Seq(Symbols) /\ 0 \in 0..MaxConnects
      BY SubscriptionsAssumption DEF SubscriptionsAssumption
    <3> QED
      BY <2>2, <3>1 DEF NewStream, Stream
  <2> QED
    BY <2>1, <2>2
<1> HIDE DEF old
<1>10. ASSUME NEW i \in 1..N
       PROVE  /\ market_data'[i] \in Stream
              /\ market_data'[i].subscribed
                    = IF market_data'[i].status = "READY" THEN Slice(all, i, 0) ELSE <<>>
  <2>1. i \in Nat \ {0}
    BY <1>5
  <2>2. market_data'[i] = SubscribeStream(old(i), all, i, Len(symbols))
    BY <1>8
  <2> QED
    BY <1>1, <1>9, <2>1, <2>2, StreamSubscribesNew DEF all
<1>11. market_data' \in Seq(Stream) /\ Len(market_data') = N /\ DOMAIN market_data' = 1..N
  <2>1. market_data' \in [1..N -> Stream]
    BY <1>8, <1>10
  <2> QED
    BY <1>5, <2>1
<1>12. EverySymbolHasAStream'
  BY <1>3, <1>8, <1>11 DEF EverySymbolHasAStream, Distinct
<1>13. ReadyIsSubscribed'
  BY <1>8, <1>10, <1>11 DEF ReadyIsSubscribed
<1> QED
  BY <1>2, <1>4, <1>8, <1>11, <1>12, <1>13 DEF FeedInv

-----------------------------------------------------------------------------
(* What the handlers of the download preserve.                             *)
RestInv ==
    /\ rest \in {"down", "up"}
    /\ rest_connects \in 0..MaxConnects
    /\ rest_status \in {"DISCONNECTED", "DOWNLOADING", "READY"}
    /\ state \in {"UNDEFINED", "CURRENCIES", "CONTRACTS", "DONE"}
    /\ sequence \in Nat
    /\ requests \subseteq [state : {"CURRENCIES", "CONTRACTS"}, sequence : Nat]
    /\ errors \in 0..MaxErrors
    /\ DownloadIsAwaited

(* A state that is entered has its request, and none is awaited when the   *)
(* download is done.                                                       *)
LEMMA EnteredIsAwaited ==
    ASSUME RestInv, NEW s \in {"UNDEFINED", "CURRENCIES", "CONTRACTS"},
           NEW others \in SUBSET requests, Enter(s), Await(others)
    PROVE  /\ rest_status' \in {"DOWNLOADING", "READY"}
           /\ state' \in {"CURRENCIES", "CONTRACTS", "DONE"}
           /\ sequence' \in Nat
           /\ requests' \subseteq [state : {"CURRENCIES", "CONTRACTS"}, sequence : Nat]
           /\ DownloadIsAwaited'
<1>1. /\ state' \in {"CURRENCIES", "CONTRACTS", "DONE"}
      /\ sequence' = sequence + 1 /\ sequence' \in Nat
      /\ rest_status' \in {"DOWNLOADING", "READY"}
  BY DEF RestInv, Enter, Next0
<1>2. CASE state' = "DONE"
  <2>1. requests' = others
    BY <1>2 DEF Await
  <2> QED
    BY <1>1, <1>2, <2>1 DEF RestInv, DownloadIsAwaited, Downloading, Skip
<1>3. CASE state' # "DONE"
  <2>1. requests' = others \cup {Request(state', sequence')}
    BY <1>3 DEF Await
  <2>2. Request(state', sequence') \in [state : {"CURRENCIES", "CONTRACTS"}, sequence : Nat]
    BY <1>1, <1>3 DEF Request
  <2>3. \E r \in requests' : r.sequence = sequence' /\ r.state = state'
    <3>1. Request(state', sequence') \in requests'
      BY <2>1
    <3>2. Request(state', sequence').sequence = sequence' /\ Request(state', sequence').state = state'
      BY DEF Request
    <3> QED
      BY <3>1, <3>2
  <2>4. Downloading'
    BY <1>1, <1>3 DEF Downloading
  <2>5. DownloadIsAwaited'
    BY <2>3, <2>4 DEF DownloadIsAwaited, Skip
  <2> QED
    BY <1>1, <2>1, <2>2, <2>5 DEF RestInv
<1> QED
  BY <1>2, <1>3

(* The request of the state, repeated with a later sequence number.        *)
LEMMA RepeatedIsAwaited ==
    ASSUME RestInv, Downloading, NEW others \in SUBSET requests,
           state' = state, sequence' = sequence + 1,
           requests' = others \cup {Request(state, sequence')}
    PROVE  /\ sequence' \in Nat
           /\ requests' \subseteq [state : {"CURRENCIES", "CONTRACTS"}, sequence : Nat]
           /\ DownloadIsAwaited'
<1>1. sequence' \in Nat
  BY DEF RestInv
<1>2. Request(state, sequence') \in [state : {"CURRENCIES", "CONTRACTS"}, sequence : Nat]
  BY <1>1 DEF Request, Downloading
<1>3. \E r \in requests' : r.sequence = sequence' /\ r.state = state'
  <2>1. Request(state, sequence') \in requests'
    OBVIOUS
  <2>2. Request(state, sequence').sequence = sequence' /\ Request(state, sequence').state = state'
    BY DEF Request
  <2> QED
    BY <2>1, <2>2
<1>4. Downloading'
  BY DEF Downloading
<1> QED
  BY <1>1, <1>2, <1>3, <1>4 DEF RestInv, DownloadIsAwaited, Skip

(* A request whose answer is skipped is not missed.                        *)
LEMMA SkippedIsNotAwaited ==
    ASSUME RestInv, NEW r \in requests, Skip(r), requests' = requests \ {r},
           UNCHANGED <<rest, state, sequence>>
    PROVE  DownloadIsAwaited'
BY DEF RestInv, DownloadIsAwaited, Downloading, Skip

-----------------------------------------------------------------------------
IInv == listed \subseteq Symbols /\ RestInv /\ FeedInv

LEMMA InitIInv == Init => IInv
<1> SUFFICES ASSUME Init PROVE IInv
  OBVIOUS
<1>1. RestInv
  BY SubscriptionsAssumption
     DEF SubscriptionsAssumption, Init, RestInv, DownloadIsAwaited, Downloading
<1>2. Slices(<<>>) = 0
  <2>1. SliceSize \in Nat \ {0}
    BY SubscriptionsAssumption DEF SubscriptionsAssumption
  <2>2. (0 + SliceSize - 1) \div SliceSize = 0
    BY <2>1
  <2> QED
    BY <2>2 DEF Slices
<1>3. FeedInv
  BY <1>2 DEF Init, FeedInv, EverySymbolHasAStream, ReadyIsSubscribed, Range
<1> QED
  BY <1>1, <1>3 DEF Init, IInv

(* A set of symbols that is not known yet may be added in any order.       *)
LEMMA NewSymbolsAreAdded ==
    ASSUME FeedInv, NEW S \in SUBSET Symbols, S \cap all_symbols = {},
           NEW new \in Orderings(S)
    PROVE  /\ new \in Seq(Symbols) /\ Range(new) = S
           /\ SymbolsUpdate(new) /\ all_symbols' = all_symbols \cup S => FeedInv'
           /\ new = <<>> => S = {}
<1>1. IsFiniteSet(S)
  BY SubscriptionsAssumption, FS_Subset DEF SubscriptionsAssumption
<1>2. new \in Seq(S) /\ Distinct(new) /\ Range(new) = S
  BY <1>1, OrderingsListAll
<1>3. new \in Seq(Symbols)
  BY <1>2
<1>4. new = <<>> => S = {}
  BY <1>2 DEF Range
<1> QED
  BY <1>2, <1>3, <1>4, SymbolsAreAdded

LEMMA FeedUnchanged ==
    ASSUME FeedInv, UNCHANGED feedVars
    PROVE  FeedInv'
BY DEF FeedInv, feedVars, EverySymbolHasAStream, ReadyIsSubscribed

LEMMA RestUnchanged ==
    ASSUME RestInv, UNCHANGED restVars
    PROVE  RestInv'
BY DEF RestInv, restVars, DownloadIsAwaited, Downloading, Skip

LEMMA StreamsSubscribe ==
    ASSUME FeedInv, NEW i \in DOMAIN market_data, StreamReady(i)
    PROVE  FeedInv'
<1> DEFINE stream == market_data[i]
           slice == Slice(symbols, i, 0)
           up == [stream EXCEPT !.status = "READY", !.connects = stream.connects + 1]
<1>1. stream \in Stream /\ stream.subscribed = <<>> /\ i \in Nat \ {0}
  BY DEF FeedInv, ReadyIsSubscribed, StreamReady
<1>2. slice \in Seq(Symbols)
  BY <1>1, SliceGrows, <<>> \in Seq(Symbols) DEF FeedInv
<1>3. up \in Stream /\ up.status = "READY" /\ up.subscribed = <<>>
  <2>1. stream.connects + 1 \in 0..MaxConnects
    BY <1>1, SubscriptionsAssumption DEF SubscriptionsAssumption, StreamReady, Stream
  <2> QED
    BY <1>1, <2>1 DEF Stream
<1>4. <<>> \o slice = slice
  BY <1>2
<1>5. SubscribeStream(up, symbols, i, 0) = [up EXCEPT !.subscribed = slice]
  BY <1>3, <1>4 DEF SubscribeStream
<1>6. market_data' = [market_data EXCEPT ![i] = SubscribeStream(up, symbols, i, 0)]
  BY DEF StreamReady
<1>7. market_data' = [market_data EXCEPT ![i] = [up EXCEPT !.subscribed = slice]]
  BY <1>5, <1>6
<1> HIDE DEF up
<1>8. [up EXCEPT !.subscribed = slice] \in Stream
  BY <1>2, <1>3 DEF Stream
<1>9. market_data' \in Seq(Stream) /\ Len(market_data') = Len(market_data)
      /\ DOMAIN market_data' = DOMAIN market_data
  BY <1>7, <1>8, ExceptSeq DEF FeedInv
<1>10. ReadyIsSubscribed'
  <2>1. SUFFICES ASSUME NEW k \in DOMAIN market_data
                 PROVE  market_data'[k].subscribed =
                           IF market_data'[k].status = "READY" THEN Slice(symbols', k, 0) ELSE <<>>
    BY <1>9 DEF ReadyIsSubscribed
  <2>2. symbols' = symbols
    BY DEF StreamReady
  <2>3. CASE k = i
    BY <1>1, <1>3, <1>7, <2>2, <2>3 DEF Stream
  <2>4. CASE k # i
    BY <1>7, <2>2, <2>4 DEF FeedInv, ReadyIsSubscribed
  <2> QED
    BY <2>3, <2>4
<1> QED
  BY <1>9, <1>10 DEF FeedInv, StreamReady, EverySymbolHasAStream

LEMMA StreamsForget ==
    ASSUME FeedInv, NEW i \in DOMAIN market_data, StreamDisconnected(i)
    PROVE  FeedInv'
<1> DEFINE down == [market_data[i] EXCEPT !.status = "DISCONNECTED", !.subscribed = <<>>]
<1>1. market_data[i] \in Stream
  BY DEF FeedInv
<1>2. down \in Stream /\ down.status = "DISCONNECTED" /\ down.subscribed = <<>>
  BY <1>1, <<>> \in Seq(Symbols) DEF Stream
<1>3. market_data' = [market_data EXCEPT ![i] = down]
  BY <1>1 DEF StreamDisconnected, FeedInv
<1> HIDE DEF down
<1>4. market_data' \in Seq(Stream) /\ Len(market_data') = Len(market_data)
      /\ DOMAIN market_data' = DOMAIN market_data
  BY <1>2, <1>3, ExceptSeq DEF FeedInv
<1>5. ReadyIsSubscribed'
  BY <1>2, <1>3, <1>4 DEF FeedInv, ReadyIsSubscribed, StreamDisconnected
<1> QED
  BY <1>4, <1>5 DEF FeedInv, StreamDisconnected, EverySymbolHasAStream

LEMMA NextIInv == IInv /\ [Next]_vars => IInv'
<1> SUFFICES ASSUME IInv, [Next]_vars PROVE IInv'
  OBVIOUS
<1>0. listed \subseteq Symbols /\ RestInv /\ FeedInv
  BY DEF IInv
<1>1. CASE Connected
  <2>1. FeedInv' /\ listed' \subseteq Symbols
    BY <1>0, <1>1, FeedUnchanged DEF Connected
  <2>2. rest' = "up" /\ rest_connects' \in 0..MaxConnects /\ errors' = errors
    BY <1>0, <1>1, SubscriptionsAssumption DEF SubscriptionsAssumption, Connected, RestInv
  <2>3. CASE Downloading
    <3>1. /\ state' = state /\ sequence' = sequence + 1 /\ rest_status' = rest_status
          /\ requests' = requests \cup {Request(state, sequence')}
      BY <1>1, <2>3 DEF Connected
    <3> QED
      BY <1>0, <2>1, <2>2, <2>3, <3>1, RepeatedIsAwaited DEF IInv, RestInv
  <2>4. CASE ~Downloading
    <3>1. Enter("UNDEFINED") /\ Await(requests)
      BY <1>1, <2>4 DEF Connected
    <3> QED
      BY <1>0, <2>1, <2>2, <3>1, EnteredIsAwaited DEF IInv, RestInv
  <2> QED
    BY <2>3, <2>4
<1>2. CASE Disconnected
  <2>1. FeedInv' /\ listed' \subseteq Symbols
    BY <1>0, <1>2, FeedUnchanged DEF Disconnected
  <2>2. DownloadIsAwaited'
    BY <1>0, <1>2 DEF Disconnected, RestInv, DownloadIsAwaited, Downloading, Skip
  <2> QED
    BY <1>0, <1>2, <2>1, <2>2 DEF IInv, RestInv, Disconnected
<1>3. ASSUME NEW r \in requests, CurrenciesAck(r)
      PROVE  IInv'
  <2>1. FeedInv' /\ listed' \subseteq Symbols
    BY <1>0, <1>3, FeedUnchanged DEF CurrenciesAck
  <2>2. UNCHANGED <<rest, rest_connects, errors>>
    BY <1>3 DEF CurrenciesAck
  <2>3. CASE Skip(r)
    <3>1. requests' = requests \ {r} /\ UNCHANGED <<rest_status, state, sequence>>
      BY <1>3, <2>3 DEF CurrenciesAck
    <3>2. DownloadIsAwaited'
      BY <1>0, <2>2, <2>3, <3>1, SkippedIsNotAwaited
    <3> QED
      BY <1>0, <2>1, <2>2, <3>1, <3>2 DEF IInv, RestInv
  <2>4. CASE ~Skip(r)
    <3>1. Enter("CURRENCIES") /\ Await(requests \ {r})
      BY <1>3, <2>4 DEF CurrenciesAck
    <3> QED
      BY <1>0, <2>1, <2>2, <3>1, EnteredIsAwaited DEF IInv, RestInv
  <2> QED
    BY <2>3, <2>4
<1>4. ASSUME NEW r \in requests, ContractsAck(r)
      PROVE  IInv'
  <2>1. UNCHANGED <<listed, rest, rest_connects, errors>>
    BY <1>4 DEF ContractsAck
  <2>2. CASE Skip(r)
    <3>1. requests' = requests \ {r} /\ UNCHANGED <<rest_status, state, sequence, feedVars>>
      BY <1>4, <2>2 DEF ContractsAck
    <3>2. DownloadIsAwaited'
      BY <1>0, <2>1, <2>2, <3>1, SkippedIsNotAwaited
    <3>3. FeedInv'
      BY <1>0, <3>1, FeedUnchanged
    <3> QED
      BY <1>0, <2>1, <3>1, <3>2, <3>3 DEF IInv, RestInv
  <2>3. CASE ~Skip(r)
    <3>1. PICK new \in Orderings(NewContracts(listed)) :
              /\ all_symbols' = all_symbols \cup Range(new)
              /\ IF new # <<>> THEN SymbolsUpdate(new) ELSE UNCHANGED <<symbols, market_data>>
      BY <1>4, <2>3 DEF ContractsAck
    <3>2. NewContracts(listed) \in SUBSET Symbols /\ NewContracts(listed) \cap all_symbols = {}
      BY <1>0 DEF NewContracts
    <3>3. FeedInv'
      <4>1. CASE new # <<>>
        BY <1>0, <3>1, <3>2, <4>1, NewSymbolsAreAdded
      <4>2. CASE new = <<>>
        <5>1. Range(new) = {}
          BY <1>0, <3>2, <4>2, NewSymbolsAreAdded
        <5>2. UNCHANGED feedVars
          BY <3>1, <4>2, <5>1 DEF feedVars
        <5> QED
          BY <1>0, <5>2, FeedUnchanged
      <4> QED
        BY <4>1, <4>2
    <3>4. Enter("CONTRACTS") /\ Await(requests \ {r})
      BY <1>4, <2>3 DEF ContractsAck
    <3> QED
      BY <1>0, <2>1, <3>3, <3>4, EnteredIsAwaited DEF IInv, RestInv
  <2> QED
    BY <2>2, <2>3
<1>5. ASSUME NEW r \in requests, RequestError(r)
      PROVE  IInv'
  <2>1. FeedInv' /\ listed' \subseteq Symbols
    BY <1>0, <1>5, FeedUnchanged DEF RequestError
  <2>2. UNCHANGED <<rest, rest_connects, rest_status, state>> /\ errors' \in 0..MaxErrors
    BY <1>0, <1>5, SubscriptionsAssumption DEF SubscriptionsAssumption, RequestError, RestInv
  <2>3. CASE state = r.state
    <3>1. Downloading
      BY <1>0, <2>3 DEF RestInv, Downloading
    <3>2. sequence' = sequence + 1 /\ requests' = (requests \ {r}) \cup {Request(state, sequence')}
      BY <1>5, <2>3 DEF RequestError
    <3>3. /\ sequence' \in Nat
          /\ requests' \subseteq [state : {"CURRENCIES", "CONTRACTS"}, sequence : Nat]
          /\ DownloadIsAwaited'
      BY <1>0, <2>2, <3>1, <3>2, RepeatedIsAwaited, requests \ {r} \in SUBSET requests
    <3> QED
      BY <1>0, <2>1, <2>2, <3>3 DEF IInv, RestInv
  <2>4. CASE state # r.state
    <3>1. sequence' = sequence /\ requests' = requests \ {r} /\ Skip(r)
      BY <1>5, <2>4 DEF RequestError, Skip
    <3>2. DownloadIsAwaited'
      BY <1>0, <2>2, <3>1, SkippedIsNotAwaited
    <3> QED
      BY <1>0, <2>1, <2>2, <3>1, <3>2 DEF IInv, RestInv
  <2> QED
    BY <2>3, <2>4
<1>6. ASSUME NEW i \in DOMAIN market_data, StreamReady(i) \/ StreamDisconnected(i)
      PROVE  IInv'
  <2>1. FeedInv'
    BY <1>0, <1>6, StreamsSubscribe, StreamsForget
  <2>2. UNCHANGED <<listed, restVars>>
    BY <1>6 DEF StreamReady, StreamDisconnected
  <2> QED
    BY <1>0, <2>1, <2>2, RestUnchanged DEF IInv
<1>7. ASSUME NEW S \in SUBSET Wanted, Subscribe(S)
      PROVE  IInv'
  <2>1. PICK new \in Orderings(S \ all_symbols) : SymbolsUpdate(new)
    BY <1>7 DEF Subscribe
  <2>2. S \ all_symbols \in SUBSET Symbols /\ (S \ all_symbols) \cap all_symbols = {}
    BY SubscriptionsAssumption DEF SubscriptionsAssumption
  <2>3. all_symbols' = all_symbols \cup (S \ all_symbols)
    BY <1>7 DEF Subscribe
  <2>4. FeedInv'
    BY <1>0, <2>1, <2>2, <2>3, NewSymbolsAreAdded
  <2>5. UNCHANGED <<listed, restVars>>
    BY <1>7 DEF Subscribe
  <2> QED
    BY <1>0, <2>4, <2>5, RestUnchanged DEF IInv
<1>8. ASSUME NEW s \in Symbols, List(s)
      PROVE  IInv'
  BY <1>0, <1>8, RestUnchanged, FeedUnchanged DEF List, IInv
<1>9. CASE UNCHANGED vars
  <2>1. UNCHANGED restVars /\ UNCHANGED feedVars /\ listed' = listed
    BY <1>9 DEF vars, restVars, feedVars
  <2> QED
    BY <1>0, <2>1, RestUnchanged, FeedUnchanged DEF IInv
<1> QED
  BY <1>1, <1>2, <1>3, <1>4, <1>5, <1>6, <1>7, <1>8, <1>9 DEF Next, RestNext, StreamNext

LEMMA Invariant == Spec => []IInv
BY InitIInv, NextIInv, PTL DEF Spec

-----------------------------------------------------------------------------
(* Every variable of the public connection, the symbols and the streams    *)
(* has its type.                                                           *)
THEOREM TypeCorrect == Spec => []TypeOK
<1>1. IInv => TypeOK
  BY DEF IInv, RestInv, FeedInv, TypeOK
<1> QED
  BY <1>1, Invariant, PTL

(* Whoever adds a symbol, the download or a client, it is in the slices    *)
(* once, and there are as many streams as slices.                          *)
THEOREM EverySymbolOnce == Spec => []EverySymbolHasAStream
<1>1. IInv => EverySymbolHasAStream
  BY DEF IInv, FeedInv
<1> QED
  BY <1>1, Invariant, PTL

(* A ready stream has subscribed exactly its slice, in order: what was     *)
(* there when it got ready and what was added later.                       *)
THEOREM ReadyStreamsAreSubscribed == Spec => []ReadyIsSubscribed
<1>1. IInv => ReadyIsSubscribed
  BY DEF IInv, FeedInv
<1> QED
  BY <1>1, Invariant, PTL

(* The download never waits for an answer that it will skip, through any   *)
(* number of failures and reconnects, and never applies one it no longer   *)
(* waits for.                                                              *)
THEOREM DownloadNeverStuck == Spec => []DownloadIsAwaited
<1>1. IInv => DownloadIsAwaited
  BY DEF IInv, RestInv
<1> QED
  BY <1>1, Invariant, PTL

(* Every symbol has a stream of its own: that one has subscribed it when   *)
(* it is ready, and no other ever has.                                     *)
OneStreamEach ==
    \A x \in all_symbols : \E i \in DOMAIN market_data : \A j \in DOMAIN market_data :
        x \in Range(market_data[j].subscribed) <=> j = i /\ market_data[j].status = "READY"

(* A symbol that was added by the download or by a client is subscribed by *)
(* one stream and never by two: the slices of the ready streams neither    *)
(* overlap nor leave a gap, however many symbols were added, and when.     *)
THEOREM OneStreamPerSymbol == Spec => []OneStreamEach
<1>1. ASSUME FeedInv PROVE OneStreamEach
  <2>1. SUFFICES ASSUME NEW x \in all_symbols
                 PROVE  \E i \in DOMAIN market_data : \A j \in DOMAIN market_data :
                           x \in Range(market_data[j].subscribed)
                              <=> j = i /\ market_data[j].status = "READY"
    BY DEF OneStreamEach
  <2>2. symbols \in Seq(Symbols) /\ Distinct(symbols) /\ Range(symbols) = all_symbols
    BY <1>1 DEF FeedInv, EverySymbolHasAStream, Distinct
  <2>3. PICK p \in DOMAIN symbols : symbols[p] = x
    BY <2>2 DEF Range
  <2>4. Len(symbols) \in Nat /\ p \in 1..Len(symbols)
    BY <2>2
  <2>5. PICK i \in 1..Slices(symbols), k \in 1..SliceSize : p = (i - 1) * SliceSize + k
    BY <2>4, SlicePositions DEF Slices
  <2>6. DOMAIN market_data = 1..Slices(symbols) /\ 1..Slices(symbols) \subseteq Nat \ {0}
    <3>1. Slices(symbols) \in Nat
      BY <2>2, SlicesGrow
    <3>2. market_data \in Seq(Stream) /\ Len(market_data) = Slices(symbols)
      BY <1>1 DEF FeedInv, EverySymbolHasAStream
    <3> QED
      BY <3>1, <3>2
  <2>7. x \in Range(Slice(symbols, i, 0))
    <3>1. k \in DOMAIN Slice(symbols, i, 0)
      BY <2>2, <2>3, <2>5, <2>6, SliceShows
    <3>2. Slice(symbols, i, 0)[k] = x
      BY <2>2, <2>3, <2>5, <2>6, <3>1, SliceShows
    <3> QED
      BY <3>1, <3>2 DEF Range
  <2>8. ASSUME NEW j \in DOMAIN market_data, x \in Range(Slice(symbols, j, 0))
        PROVE  j = i
    <3>1. PICK m \in DOMAIN Slice(symbols, j, 0) : Slice(symbols, j, 0)[m] = x
      BY <2>8 DEF Range
    <3>2. /\ m \in 1..SliceSize /\ (j - 1) * SliceSize + m \in DOMAIN symbols
          /\ symbols[(j - 1) * SliceSize + m] = x
      BY <2>2, <2>6, <3>1, SliceShows
    <3>3. p = (j - 1) * SliceSize + m
      BY <2>2, <2>3, <3>2 DEF Distinct
    <3> QED
      BY <2>4, <2>5, <2>6, <3>2, <3>3, SlicePositions
  <2>9. \A j \in DOMAIN market_data :
           market_data[j].subscribed
              = IF market_data[j].status = "READY" THEN Slice(symbols, j, 0) ELSE <<>>
    BY <1>1 DEF FeedInv, ReadyIsSubscribed
  <2>10. Range(<<>>) = {}
    BY DEF Range
  <2> QED
    BY <2>5, <2>6, <2>7, <2>8, <2>9, <2>10
<1>2. IInv => OneStreamEach
  BY <1>1 DEF IInv
<1> QED
  BY <1>2, Invariant, PTL
=============================================================================
