-------------------------- MODULE MarketFeedProofs --------------------------
(***************************************************************************)
(* The history of bars is awaited: for any contracts, connections, errors  *)
(* and messages.  A message of any length is cut into whole updates, by    *)
(* the least item after which what is collected would not be whole.        *)
(***************************************************************************)
EXTENDS MarketFeed, SequenceTheorems, WellFoundedInduction, TLAPS

(* What the queue and the requests are: needed to cut and join them.       *)
SequencesOK ==
    /\ symbols \in Seq(Symbols)
    /\ queue \in Seq(Symbols)
    /\ requests \in Seq(Symbols)

IInv == SequencesOK /\ HistoryIsAwaited

-----------------------------------------------------------------------------
(* Names of sequences.                                                     *)

(* The names are the elements, by their places.                            *)
LEMMA NamesByPlace ==
    ASSUME NEW S, NEW s \in Seq(S)
    PROVE  /\ \A i \in 1..Len(s) : s[i] \in Names(s)
           /\ \A x \in Names(s) : \E i \in 1..Len(s) : x = s[i]
  BY DEF Names

(* Joining two sequences keeps the names of both.                          *)
LEMMA NamesOfConcat ==
    ASSUME NEW S, NEW s \in Seq(S), NEW t \in Seq(S)
    PROVE  s \o t \in Seq(S) /\ Names(s \o t) = Names(s) \cup Names(t)
<1>1. s \o t \in Seq(S) /\ Len(s \o t) = Len(s) + Len(t)
  OBVIOUS
<1>2. \A i \in 1..Len(s) : (s \o t)[i] = s[i]
  OBVIOUS
<1>3. \A i \in 1..Len(t) : (s \o t)[Len(s) + i] = t[i]
  OBVIOUS
<1>4. Names(s \o t) \subseteq Names(s) \cup Names(t)
  <2> SUFFICES ASSUME NEW i \in 1..(Len(s) + Len(t))
               PROVE  (s \o t)[i] \in Names(s) \cup Names(t)
    BY <1>1 DEF Names
  <2>1. CASE i <= Len(s)
    BY <2>1, <1>2 DEF Names
  <2>2. CASE i > Len(s)
    <3>1. i - Len(s) \in 1..Len(t)
      BY <2>2
    <3>2. (s \o t)[i] = t[i - Len(s)]
      BY <2>2, <3>1
    <3> QED
      BY <3>1, <3>2 DEF Names
  <2> QED
    BY <2>1, <2>2
<1>5. Names(s) \subseteq Names(s \o t)
  BY <1>1, <1>2 DEF Names
<1>6. Names(t) \subseteq Names(s \o t)
  <2> SUFFICES ASSUME NEW i \in 1..Len(t)
               PROVE  t[i] \in Names(s \o t)
    BY DEF Names
  <2> QED
    BY <1>1, <1>3, Len(s) + i \in 1..(Len(s) + Len(t)) DEF Names
<1> QED
  BY <1>1, <1>4, <1>5, <1>6

(* Cutting a sequence in two loses no name.                                *)
LEMMA NamesOfCut ==
    ASSUME NEW S, NEW s \in Seq(S), NEW n \in 1..Len(s)
    PROVE  /\ SubSeq(s, 1, n) \in Seq(S)
           /\ SubSeq(s, n + 1, Len(s)) \in Seq(S)
           /\ Names(s) \subseteq Names(SubSeq(s, 1, n)) \cup Names(SubSeq(s, n + 1, Len(s)))
<1> DEFINE a == SubSeq(s, 1, n)
           b == SubSeq(s, n + 1, Len(s))
<1>1. a \in Seq(S) /\ Len(a) = n /\ \A i \in 1..n : a[i] = s[i]
  OBVIOUS
<1>2. b \in Seq(S) /\ Len(b) = Len(s) - n /\ \A i \in 1..(Len(s) - n) : b[i] = s[n + i]
  OBVIOUS
<1> HIDE DEF a, b
<1>3. ASSUME NEW i \in 1..Len(s)
      PROVE  s[i] \in Names(a) \cup Names(b)
  <2>1. CASE i <= n
    BY <2>1, <1>1, NamesByPlace
  <2>2. CASE i > n
    <3>1. i - n \in 1..(Len(s) - n) /\ n + (i - n) = i
      BY <2>2
    <3>2. b[i - n] = s[i]
      BY <3>1, <1>2
    <3> QED
      BY <3>1, <3>2, <1>2, NamesByPlace
  <2> QED
    BY <2>1, <2>2
<1>4. Names(s) \subseteq Names(a) \cup Names(b)
  BY <1>3, NamesByPlace
<1> QED
  BY <1>1, <1>2, <1>4 DEF a, b

(* Removing an element loses no name but its own.                          *)
LEMMA NamesOfRemove ==
    ASSUME NEW S, NEW s \in Seq(S), NEW i \in DOMAIN s
    PROVE  /\ RemoveAt(s, i) \in Seq(S)
           /\ Names(s) \subseteq Names(RemoveAt(s, i)) \cup {s[i]}
<1> DEFINE a == SubSeq(s, 1, i - 1)
           b == SubSeq(s, i + 1, Len(s))
<1>1. a \in Seq(S) /\ Len(a) = i - 1 /\ \A j \in 1..(i - 1) : a[j] = s[j]
  OBVIOUS
<1>2. b \in Seq(S) /\ Len(b) = Len(s) - i /\ \A j \in 1..(Len(s) - i) : b[j] = s[i + j]
  OBVIOUS
<1>3. RemoveAt(s, i) = a \o b
  BY DEF RemoveAt
<1> HIDE DEF a, b
<1>4. RemoveAt(s, i) \in Seq(S) /\ Names(RemoveAt(s, i)) = Names(a) \cup Names(b)
  BY <1>1, <1>2, <1>3, NamesOfConcat
<1>5. ASSUME NEW j \in 1..Len(s), j # i
      PROVE  s[j] \in Names(a) \cup Names(b)
  <2>1. CASE j < i
    BY <2>1, <1>1, j \in 1..(i - 1), NamesByPlace
  <2>2. CASE j > i
    <3>1. j - i \in 1..(Len(s) - i) /\ i + (j - i) = j
      BY <2>2
    <3>2. b[j - i] = s[j]
      BY <3>1, <1>2
    <3> QED
      BY <3>1, <3>2, <1>2, NamesByPlace
  <2> QED
    BY <2>1, <2>2, <1>5
<1>6. Names(s) \subseteq Names(a) \cup Names(b) \cup {s[i]}
  BY <1>5, NamesByPlace
<1> QED
  BY <1>4, <1>6

-----------------------------------------------------------------------------
(* The steps.                                                              *)

(* A subscription puts what it makes stale into the queue.                 *)
LEMMA SubscribeAwaits ==
    ASSUME IInv, NEW new \in Seq(Symbols), Subscribe(new), UNCHANGED requests
    PROVE  queue' \in Seq(Symbols) /\ HistoryIsAwaited'
<1>1. queue \o new \in Seq(Symbols) /\ Names(queue \o new) = Names(queue) \cup Names(new)
  BY NamesOfConcat DEF IInv, SequencesOK
<1>2. queue' \in Seq(Symbols)
  BY <1>1 DEF Subscribe, IInv, SequencesOK
<1>3. CASE ~TimeSeriesLookback
  BY <1>2, <1>3 DEF HistoryIsAwaited
<1>4. CASE TimeSeriesLookback
  <2>1. Names(queue') = Names(queue) \cup Names(new)
    BY <1>1, <1>4 DEF Subscribe
  <2> QED
    BY <1>2, <1>4, <2>1 DEF Subscribe, IInv, HistoryIsAwaited
<1> QED
  BY <1>3, <1>4, MarketFeedAssumption DEF MarketFeedAssumption

(* Nothing is queued, asked for or answered at first, nor subscribed.      *)
LEMMA InitAwaits == Init => IInv
  BY DEF Init, IInv, SequencesOK, HistoryIsAwaited

(* Every step keeps the names where they are, moves them on or, when a     *)
(* request ends, records what became of it.                                *)
LEMMA NextAwaits == IInv /\ [Next]_vars => IInv'
<1> SUFFICES ASSUME IInv, [Next]_vars
             PROVE  IInv'
  OBVIOUS
<1> USE DEF IInv, SequencesOK
<1>1. CASE StreamReady
  <2>1. UNCHANGED <<symbols, requests>>
    BY <1>1 DEF StreamReady, restVars
  <2>2. queue' \in Seq(Symbols) /\ HistoryIsAwaited'
    BY <1>1, <2>1, SubscribeAwaits DEF StreamReady
  <2> QED
    BY <2>1, <2>2
<1>2. CASE StreamDisconnected
  BY <1>2 DEF StreamDisconnected, restVars, historyVars, HistoryIsAwaited
<1>3. CASE SymbolsUpdate
  <2>1. PICK s \in Symbols \ Names(symbols) :
            /\ symbols' = Append(symbols, s)
            /\ IF stream = "READY" THEN Subscribe(<<s>>) ELSE UNCHANGED <<subscribed, historyVars>>
    BY <1>3 DEF SymbolsUpdate
  <2>2. UNCHANGED requests
    BY <1>3 DEF SymbolsUpdate, restVars
  <2>3. symbols' \in Seq(Symbols)
    BY <2>1
  <2>4. CASE stream = "READY"
    BY <2>1, <2>2, <2>3, <2>4, <<s>> \in Seq(Symbols), SubscribeAwaits
  <2>5. CASE stream # "READY"
    BY <2>1, <2>2, <2>3, <2>5 DEF historyVars, HistoryIsAwaited
  <2> QED
    BY <2>4, <2>5
<1>4. CASE ParserDispatch
  <2>1. UNCHANGED <<streamVars, restVars, historyVars>>
    BY <1>4 DEF ParserDispatch, Tickers, Trades, BookTicker, Candlesticks, Received
  <2> QED
    BY <2>1 DEF streamVars, restVars, historyVars, HistoryIsAwaited
<1>5. CASE RestReady
  BY <1>5 DEF RestReady, streamVars, historyVars, HistoryIsAwaited
<1>6. CASE RestDisconnected
  <2>1. /\ UNCHANGED <<symbols, subscribed, queue, history>>
        /\ requests' = <<>> /\ failed' = failed \cup Names(requests)
    BY <1>6 DEF RestDisconnected, streamVars
  <2> QED
    BY <2>1 DEF HistoryIsAwaited
<1>7. CASE CheckRequestQueue
  <2>1. PICK n \in 1..Len(queue) :
            /\ requests' = requests \o SubSeq(queue, 1, n)
            /\ queue' = SubSeq(queue, n + 1, Len(queue))
    BY <1>7 DEF CheckRequestQueue
  <2>2. UNCHANGED <<symbols, subscribed, history, failed>>
    BY <1>7 DEF CheckRequestQueue, streamVars
  <2>3. /\ SubSeq(queue, 1, n) \in Seq(Symbols) /\ queue' \in Seq(Symbols)
        /\ Names(queue) \subseteq Names(SubSeq(queue, 1, n)) \cup Names(queue')
    BY <2>1, NamesOfCut
  <2>4. /\ requests' \in Seq(Symbols)
        /\ Names(requests') = Names(requests) \cup Names(SubSeq(queue, 1, n))
    <3> DEFINE c == SubSeq(queue, 1, n)
    <3>1. c \in Seq(Symbols) /\ requests' = requests \o c
      BY <2>1, <2>3
    <3> HIDE DEF c
    <3>2. requests \o c \in Seq(Symbols) /\ Names(requests \o c) = Names(requests) \cup Names(c)
      BY <3>1, NamesOfConcat
    <3> QED
      BY <3>1, <3>2 DEF c
  <2>5. HistoryIsAwaited'
    BY <2>2, <2>3, <2>4 DEF HistoryIsAwaited
  <2> QED
    BY <2>2, <2>3, <2>4, <2>5
<1>8. CASE CandlesticksError
  <2>1. PICK i \in DOMAIN requests :
            requests' = RemoveAt(requests, i) /\ failed' = failed \cup {requests[i]}
    BY <1>8 DEF CandlesticksError
  <2>2. UNCHANGED <<symbols, subscribed, queue, history>>
    BY <1>8 DEF CandlesticksError, streamVars
  <2>3. requests' \in Seq(Symbols) /\ Names(requests) \subseteq Names(requests') \cup {requests[i]}
    BY <2>1, NamesOfRemove
  <2> QED
    BY <2>1, <2>2, <2>3 DEF HistoryIsAwaited
<1>9. CASE CandlesticksAck
  <2>1. PICK i \in DOMAIN requests :
            requests' = RemoveAt(requests, i) /\ history' = history \cup {requests[i]}
    BY <1>9 DEF CandlesticksAck
  <2>2. UNCHANGED <<symbols, subscribed, queue, failed>>
    BY <1>9 DEF CandlesticksAck, streamVars
  <2>3. requests' \in Seq(Symbols) /\ Names(requests) \subseteq Names(requests') \cup {requests[i]}
    BY <2>1, NamesOfRemove
  <2> QED
    BY <2>1, <2>2, <2>3 DEF HistoryIsAwaited
<1>10. CASE UNCHANGED vars
  BY <1>10 DEF vars, streamVars, restVars, historyVars, HistoryIsAwaited
<1> QED
  BY <1>1, <1>2, <1>3, <1>4, <1>5, <1>6, <1>7, <1>8, <1>9, <1>10 DEF Next

-----------------------------------------------------------------------------
(* For every number of contracts, connections, messages and errors: the    *)
(* history of every subscribed contract is queued by the stream, asked for *)
(* or answered on the public REST connection, or its request failed        *)
(* (MarketData::subscribe, Rest::check_request_queue and                   *)
(* Rest::get_candlesticks_ack).                                            *)
THEOREM HistoryAlwaysAwaited == Spec => []HistoryIsAwaited
<1>1. IInv => HistoryIsAwaited
  BY DEF IInv
<1> QED
  BY InitAwaits, NextAwaits, <1>1, PTL DEF Spec

-----------------------------------------------------------------------------
(* Places in a list of updates.                                            *)

USE DEF Update

Updates(I) == Seq([symbol : Symbols \cup {NoSymbol}, items : Seq(I), time : Nat])

(* What a place is: the number of an update and of an item in it.          *)
LEMMA PlaceIs ==
    ASSUME NEW us, NEW p
    PROVE  p \in Places(us) <=> \E i \in DOMAIN us : \E j \in DOMAIN us[i].items : p = <<i, j>>
<1>1. p \in Places(us) <=> \E i \in DOMAIN us : p \in {i} \X DOMAIN us[i].items
  BY DEF Places
<1>2. \A i : p \in {i} \X DOMAIN us[i].items <=> \E j \in DOMAIN us[i].items : p = <<i, j>>
  OBVIOUS
<1> QED
  BY <1>1, <1>2

(* What appending an element does, element by element.                     *)
LEMMA AppendIs ==
    ASSUME NEW S, NEW s \in Seq(S), NEW e \in S
    PROVE  /\ Append(s, e) \in Seq(S) /\ Len(s) \in Nat /\ Len(Append(s, e)) = Len(s) + 1
           /\ Len(s) + 1 \in DOMAIN Append(s, e) /\ Append(s, e)[Len(s) + 1] = e
           /\ \A k \in DOMAIN s : /\ k \in DOMAIN Append(s, e) /\ Append(s, e)[k] = s[k]
                                  /\ k \in Nat /\ k < Len(s) + 1
           /\ \A k \in DOMAIN Append(s, e) : k \in DOMAIN s \/ k = Len(s) + 1
           /\ Append(s, e) # <<>>
<1>1. /\ Append(s, e) \in Seq(S) /\ Len(Append(s, e)) = Len(s) + 1
      /\ \A i \in 1 .. Len(s) : Append(s, e)[i] = s[i]
      /\ Append(s, e)[Len(s) + 1] = e
  BY AppendProperties
<1>2. Len(s) \in Nat /\ DOMAIN s = 1 .. Len(s)
  BY LenProperties
<1>3. DOMAIN Append(s, e) = 1 .. Len(s) + 1
  BY <1>1, LenProperties
<1>4. /\ \A k : k \in 1 .. Len(s) + 1 <=> k \in 1 .. Len(s) \/ k = Len(s) + 1
      /\ \A k \in 1 .. Len(s) : k \in Nat /\ k < Len(s) + 1
  BY <1>2
<1>5. Append(s, e) # <<>>
  <2>1. Len(<<>>) = 0 /\ Len(Append(s, e)) # 0
    BY <1>1, <1>2, EmptySeq
  <2> QED
    BY <2>1
<1> QED
  BY <1>1, <1>2, <1>3, <1>4, <1>5

(* Places of a list with one more update.                                  *)
LEMMA PlacesOfAppend ==
    ASSUME NEW I, NEW us \in Updates(I), NEW u \in [symbol : Symbols \cup {NoSymbol}, items : Seq(I), time : Nat]
    PROVE  LET vs == Append(us, u)
               n == Len(us) + 1 IN
           /\ \A p \in Places(us) : p \in Places(vs) /\ At(vs, p) = At(us, p)
           /\ \A j \in DOMAIN u.items : <<n, j>> \in Places(vs) /\ At(vs, <<n, j>>) = u.items[j]
           /\ \A p \in Places(vs) : p \in Places(us) \/ \E j \in DOMAIN u.items : p = <<n, j>>
           /\ \A p \in Places(us) : p[1] \in Nat /\ p[1] < n
<1> DEFINE vs == Append(us, u)
           n == Len(us) + 1
<1>1. /\ n \in DOMAIN vs /\ vs[n] = u
      /\ \A k \in DOMAIN us : k \in DOMAIN vs /\ vs[k] = us[k] /\ k \in Nat /\ k < n
      /\ \A k \in DOMAIN vs : k \in DOMAIN us \/ k = n
  BY AppendIs DEF Updates
<1> HIDE DEF vs, n
<1>2. ASSUME NEW p \in Places(us)
      PROVE  p \in Places(vs) /\ At(vs, p) = At(us, p) /\ p[1] \in Nat /\ p[1] < n
  <2>1. PICK i \in DOMAIN us : \E j \in DOMAIN us[i].items : p = <<i, j>>
    BY PlaceIs
  <2>2. PICK j \in DOMAIN us[i].items : p = <<i, j>>
    BY <2>1
  <2>3. i \in DOMAIN vs /\ vs[i] = us[i] /\ i \in Nat /\ i < n
    BY <1>1
  <2>4. p \in Places(vs)
    BY <2>2, <2>3, PlaceIs
  <2>5. p[1] = i /\ p[2] = j
    BY <2>2
  <2> QED
    BY <2>3, <2>4, <2>5 DEF At
<1>3. ASSUME NEW j \in DOMAIN u.items
      PROVE  <<n, j>> \in Places(vs) /\ At(vs, <<n, j>>) = u.items[j]
  <2>1. <<n, j>> \in Places(vs)
    BY <1>1, PlaceIs
  <2> QED
    BY <1>1, <2>1 DEF At
<1>4. ASSUME NEW p \in Places(vs)
      PROVE  p \in Places(us) \/ \E j \in DOMAIN u.items : p = <<n, j>>
  <2>1. PICK i \in DOMAIN vs : \E j \in DOMAIN vs[i].items : p = <<i, j>>
    BY PlaceIs
  <2>2. CASE i = n
    BY <1>1, <2>1, <2>2
  <2>3. CASE i \in DOMAIN us
    BY <1>1, <2>1, <2>3, PlaceIs
  <2> QED
    BY <1>1, <2>2, <2>3
<1> QED
  BY <1>2, <1>3, <1>4 DEF vs, n

(* Items of a message, those numbered in K, are in the updates in turn.    *)
InTurn(items, K, us) ==
    \E place \in Surjection(K, Places(us)) :
        \A k, l \in DOMAIN place :
            /\ At(us, place[k]) = items[k]
            /\ k < l => Before(place[k], place[l])

(* An update without items has no places.                                  *)
LEMMA EmptyUpdate ==
    ASSUME NEW I, NEW us \in Updates(I),
           NEW u \in [symbol : Symbols \cup {NoSymbol}, items : Seq(I), time : Nat],
           u.items = <<>>, NEW items, NEW K
    PROVE  InTurn(items, K, us) <=> InTurn(items, K, Append(us, u))
<1> DEFINE vs == Append(us, u)
<1>1. DOMAIN u.items = {}
  OBVIOUS
<1>2. /\ \A p \in Places(us) : p \in Places(vs) /\ At(vs, p) = At(us, p)
      /\ \A p \in Places(vs) : p \in Places(us)
  BY <1>1, PlacesOfAppend
<1> HIDE DEF vs
<1>3. Places(us) = Places(vs)
  BY <1>2
<1>4. \A place \in Surjection(K, Places(us)) : \A k \in DOMAIN place : place[k] \in Places(us)
  BY DEF Surjection
<1>5. \A place \in Surjection(K, Places(us)) : \A k \in DOMAIN place :
         At(us, place[k]) = At(vs, place[k])
  BY <1>2, <1>4
<1>6. InTurn(items, K, us) <=> InTurn(items, K, vs)
  BY <1>3, <1>5 DEF InTurn
<1> QED
  BY <1>6 DEF vs

(* A number above all others is not among them.                            *)
LEMMA LastIs ==
    ASSUME NEW K \in SUBSET Nat, NEW m \in Nat, \A k \in K : k < m
    PROVE  m \notin K /\ ~(m < m) /\ \A i \in K : ~(m < i)
<1>1. ASSUME NEW i \in K PROVE ~(m < i) /\ i # m
  <2>1. i \in Nat /\ i < m
    OBVIOUS
  <2> QED
    BY <2>1
<1> QED
  BY <1>1

(* The next item goes behind the others of the last update.                *)
LEMMA ItemAppended ==
    ASSUME NEW I, NEW us \in Updates(I), NEW x \in I,
           NEW u \in [symbol : Symbols \cup {NoSymbol}, items : Seq(I), time : Nat],
           NEW v \in [symbol : Symbols \cup {NoSymbol}, items : Seq(I), time : Nat],
           v.items = Append(u.items, x),
           NEW items, NEW K \in SUBSET Nat, NEW m \in Nat, items[m] = x,
           \A k \in K : k < m,
           InTurn(items, K, Append(us, u))
    PROVE  InTurn(items, K \cup {m}, Append(us, v))
<1> DEFINE vs == Append(us, u)
           ws == Append(us, v)
           n == Len(us) + 1
           e == Len(u.items) + 1
<1>1. /\ \A p \in Places(us) : p \in Places(vs) /\ At(vs, p) = At(us, p)
      /\ \A j \in DOMAIN u.items : <<n, j>> \in Places(vs) /\ At(vs, <<n, j>>) = u.items[j]
      /\ \A p \in Places(vs) : p \in Places(us) \/ \E j \in DOMAIN u.items : p = <<n, j>>
      /\ \A p \in Places(us) : p[1] \in Nat /\ p[1] < n
  BY PlacesOfAppend
<1>2. /\ \A p \in Places(us) : p \in Places(ws) /\ At(ws, p) = At(us, p)
      /\ \A j \in DOMAIN v.items : <<n, j>> \in Places(ws) /\ At(ws, <<n, j>>) = v.items[j]
      /\ \A p \in Places(ws) : p \in Places(us) \/ \E j \in DOMAIN v.items : p = <<n, j>>
  BY PlacesOfAppend
<1>3. /\ e \in DOMAIN v.items /\ v.items[e] = x
      /\ \A j \in DOMAIN u.items : j \in DOMAIN v.items /\ v.items[j] = u.items[j] /\ j < e
      /\ \A j \in DOMAIN v.items : j \in DOMAIN u.items \/ j = e
  <2>1. u.items \in Seq(I)
    OBVIOUS
  <2> QED
    BY <2>1, AppendIs
<1>4. PICK place \in Surjection(K, Places(vs)) :
        \A k, l \in DOMAIN place :
            /\ At(vs, place[k]) = items[k]
            /\ k < l => Before(place[k], place[l])
  BY DEF InTurn
<1> HIDE DEF vs, ws, n, e
<1>5. ASSUME NEW p \in Places(vs)
      PROVE  p \in Places(ws) /\ At(ws, p) = At(vs, p) /\ Before(p, <<n, e>>)
  <2>1. CASE p \in Places(us)
    BY <1>1, <1>2, <2>1 DEF Before
  <2>2. ASSUME NEW j \in DOMAIN u.items, p = <<n, j>>
        PROVE  p \in Places(ws) /\ At(ws, p) = At(vs, p) /\ Before(p, <<n, e>>)
    BY <1>1, <1>2, <1>3, <2>2 DEF Before
  <2> QED
    BY <1>1, <2>1, <2>2
<1>6. <<n, e>> \in Places(ws) /\ At(ws, <<n, e>>) = x
  BY <1>2, <1>3
<1>7. \A p \in Places(ws) : p \in Places(vs) \/ p = <<n, e>>
  BY <1>1, <1>2, <1>3
<1>8. /\ DOMAIN place = K /\ \A k \in K : place[k] \in Places(vs)
      /\ \A p \in Places(vs) : \E k \in K : place[k] = p
  BY <1>4 DEF Surjection
<1> DEFINE next == [k \in K \cup {m} |-> IF k = m THEN <<n, e>> ELSE place[k]]
<1>9. /\ DOMAIN next = K \cup {m} /\ next[m] = <<n, e>> /\ m \notin K
      /\ \A k \in K : next[k] = place[k]
  BY LastIs
<1>10. next \in Surjection(K \cup {m}, Places(ws))
  <2>1. next \in [K \cup {m} -> Places(ws)]
    BY <1>5, <1>6, <1>8
  <2>2. \A p \in Places(ws) : \E k \in K \cup {m} : next[k] = p
    BY <1>7, <1>8, <1>9
  <2> QED
    BY <2>1, <2>2 DEF Surjection
<1> HIDE DEF next
<1>11. ASSUME NEW k \in DOMAIN next, NEW l \in DOMAIN next
       PROVE  At(ws, next[k]) = items[k] /\ (k < l => Before(next[k], next[l]))
  <2>1. At(ws, next[k]) = items[k]
    BY <1>4, <1>5, <1>6, <1>8, <1>9
  <2>0. ~(m < m) /\ \A i \in K : ~(m < i)
    BY LastIs
  <2>2. CASE l = m
    <3>1. CASE k = m
      BY <2>0, <2>1, <2>2, <3>1
    <3>2. CASE k # m
      <4>1. k \in K /\ next[k] = place[k] /\ place[k] \in Places(vs) /\ next[l] = <<n, e>>
        BY <1>8, <1>9, <2>2, <3>2
      <4> QED
        BY <1>5, <2>1, <4>1
    <3> QED
      BY <3>1, <3>2
  <2>3. CASE k = m /\ l # m
    <3>1. l \in K
      BY <1>9, <2>3
    <3> QED
      BY <2>0, <2>1, <2>3, <3>1
  <2>4. CASE k # m /\ l # m
    BY <1>4, <1>8, <1>9, <2>1, <2>4
  <2> QED
    BY <2>2, <2>3, <2>4
<1> QED
  BY <1>10, <1>11 DEF InTurn, ws

-----------------------------------------------------------------------------
(* Collecting the items of a message one after the other.                  *)

(* Numbers have a least one.                                               *)
LEMMA LeastOf ==
    ASSUME NEW S \in SUBSET Nat, S # {}
    PROVE  \E x \in S : \A y \in S : x <= y
<1>1. PICK x \in S : \A y \in S : <<y, x>> \notin OpToRel(<, Nat)
  BY NatLessThanWellFounded, WFMin, Zenon
<1>2. \A y \in S : ~(y < x)
  BY <1>1 DEF OpToRel
<1> QED
  BY <1>2

(* What was collected of the first items is what the next is added to.     *)
LEMMA CollectedInTurn ==
    ASSUME NEW channel, NEW start, NEW items, Len(items) \in Nat
    PROVE  \E g : /\ g[0] = start
                  /\ \A i \in 1 .. Len(items) : g[i] = Add(channel, g[i - 1], items[i])
                  /\ Collected(channel, start, items) = g[Len(items)]
<1> DEFINE Is(g, n) == g = [i \in 0 .. n |-> IF i = 0 THEN start ELSE Add(channel, g[i - 1], items[i])]
           S == {n \in Nat : ~\E g : Is(g, n)}
<1>1. S = {}
  <2> SUFFICES ASSUME S # {} PROVE FALSE
    OBVIOUS
  <2>1. PICK n \in S : \A m \in S : n <= m
    <3>1. S \in SUBSET Nat
      OBVIOUS
    <3> HIDE DEF S
    <3> QED
      BY <3>1, LeastOf
  <2>2. n \in Nat /\ ~\E g : Is(g, n)
    OBVIOUS
  <2>3. CASE n = 0
    <3> DEFINE g == [i \in 0 .. 0 |-> start]
    <3>1. Is(g, 0)
      OBVIOUS
    <3> QED
      BY <2>2, <2>3, <3>1
  <2>4. CASE n # 0
    <3>1. n - 1 \in Nat /\ ~(n <= n - 1)
      BY <2>2, <2>4
    <3>2. PICK g : Is(g, n - 1)
      BY <2>1, <3>1
    <3> DEFINE h == [i \in 0 .. n |-> IF i = n THEN Add(channel, g[n - 1], items[n]) ELSE g[i]]
    <3>3. ASSUME NEW i \in 0 .. n
          PROVE  h[i] = IF i = 0 THEN start ELSE Add(channel, h[i - 1], items[i])
      <4>1. CASE i = n
        <5>1. n - 1 \in 0 .. n /\ n - 1 # n
          BY <2>2, <2>4
        <5>2. h[n - 1] = g[n - 1] /\ h[n] = Add(channel, g[n - 1], items[n])
          BY <2>2, <5>1
        <5> QED
          BY <2>4, <4>1, <5>2
      <4>2. CASE i # n
        <5>1. i \in 0 .. n - 1 /\ h[i] = g[i]
          BY <2>2, <4>2
        <5>2. g[i] = IF i = 0 THEN start ELSE Add(channel, g[i - 1], items[i])
          BY <3>2, <5>1
        <5>3. i # 0 => i - 1 \in 0 .. n /\ i - 1 # n
          BY <2>2, <4>2
        <5>4. i # 0 => h[i - 1] = g[i - 1]
          BY <5>3
        <5> QED
          BY <5>1, <5>2, <5>4
      <4> QED
        BY <4>1, <4>2
    <3>4. Is(h, n)
      <4>1. h = [i \in 0 .. n |-> h[i]]
        OBVIOUS
      <4> HIDE DEF h
      <4> QED
        BY <3>3, <4>1
    <3> QED
      BY <2>2, <3>4
  <2> QED
    BY <2>3, <2>4
<1>2. \E g : Is(g, Len(items))
  BY <1>1
<1> DEFINE c == CHOOSE g : Is(g, Len(items))
<1>3. Is(c, Len(items))
  BY <1>2
<1>4. Collected(channel, start, items) = c[Len(items)]
  BY DEF Collected
<1> HIDE DEF c
<1>5. c[0] = start /\ \A i \in 1 .. Len(items) : c[i] = Add(channel, c[i - 1], items[i])
  <2>1. 0 \in 0 .. Len(items) /\ \A i \in 1 .. Len(items) : i \in 0 .. Len(items) /\ i # 0
    OBVIOUS
  <2> QED
    BY <1>3, <2>1
<1> QED
  BY <1>4, <1>5

(* What the cutting of a message keeps.                                    *)
Collector(I) ==
    [symbol : Symbols \cup {NoSymbol}, time : Nat, items : Seq(I), updates : Updates(I)]

(* What is collected for the next update.                                  *)
Pending(g) == Update(g.symbol, g.items, g.time)

(* An update has items of its contract only.                               *)
UnderOne(u) == \A j \in DOMAIN u.items : u.items[j].symbol = u.symbol

(* The time of an update is the greatest of its items.                     *)
Timed(u) ==
    u.items # <<>> =>
        /\ \E j \in DOMAIN u.items : u.items[j].time = u.time
        /\ \A j \in DOMAIN u.items : u.items[j].time <= u.time

(* The updates are whole, and have the items numbered in K.                *)
Whole(us, items, K, timed) ==
    /\ InTurn(items, K, us)
    /\ \A i \in DOMAIN us : UnderOne(us[i]) /\ us[i].items # <<>> /\ (timed => Timed(us[i]))

(* So are they, with those that are pending.                               *)
WholeWith(g, items, K, timed) ==
    /\ InTurn(items, K, Append(g.updates, Pending(g)))
    /\ \A i \in DOMAIN g.updates :
          UnderOne(g.updates[i]) /\ g.updates[i].items # <<>> /\ (timed => Timed(g.updates[i]))
    /\ UnderOne(Pending(g))
    /\ timed => Timed(Pending(g)) /\ (g.items = <<>> => g.time = 0)

(* What is pending is an update.                                           *)
LEMMA PendingType ==
    ASSUME NEW I, NEW g \in Collector(I)
    PROVE  /\ Pending(g) \in [symbol : Symbols \cup {NoSymbol}, items : Seq(I), time : Nat]
           /\ Pending(g).symbol = g.symbol /\ Pending(g).items = g.items /\ Pending(g).time = g.time
           /\ g.updates \in Updates(I) /\ g.items \in Seq(I)
BY DEF Pending, Collector

(* Flushing makes what is pending the last update.                         *)
LEMMA FlushWhole ==
    ASSUME NEW I, NEW g \in Collector(I), NEW items, NEW K, NEW timed \in BOOLEAN,
           WholeWith(g, items, K, timed)
    PROVE  /\ Flush(g) \in Collector(I) /\ Flush(g).items = <<>>
           /\ Whole(Flush(g).updates, items, K, timed)
<1> DEFINE f == Flush(g)
           u == Pending(g)
<1>0. /\ u \in [symbol : Symbols \cup {NoSymbol}, items : Seq(I), time : Nat]
      /\ u.symbol = g.symbol /\ u.items = g.items /\ u.time = g.time
      /\ g.updates \in Updates(I) /\ g.items \in Seq(I)
  BY PendingType
<1>1. CASE g.items = <<>>
  <2>1. f = g
    BY <1>1 DEF Flush
  <2>2. InTurn(items, K, g.updates)
    <3> HIDE DEF u
    <3>1. InTurn(items, K, Append(g.updates, u))
      BY DEF WholeWith, u
    <3> QED
      BY <1>0, <1>1, <3>1, EmptyUpdate
  <2> QED
    BY <1>1, <2>1, <2>2 DEF Whole, WholeWith
<1>2. CASE g.items # <<>>
  <2>1. f = [symbol |-> g.symbol, time |-> g.time, items |-> <<>>,
             updates |-> Append(g.updates, u)]
    BY <1>2 DEF Flush, Pending, Collector
  <2> HIDE DEF u
  <2>2. /\ Append(g.updates, u) \in Updates(I)
        /\ Append(g.updates, u)[Len(g.updates) + 1] = u
        /\ \A k \in DOMAIN g.updates : Append(g.updates, u)[k] = g.updates[k]
        /\ \A k \in DOMAIN Append(g.updates, u) : k \in DOMAIN g.updates \/ k = Len(g.updates) + 1
    BY <1>0, AppendIs DEF Updates
  <2>3. f \in Collector(I)
    BY <2>1, <2>2 DEF Collector
  <2>4. Whole(Append(g.updates, u), items, K, timed)
    <3>1. UnderOne(u) /\ u.items # <<>> /\ (timed => Timed(u))
      BY <1>0, <1>2 DEF WholeWith, u
    <3> QED
      BY <2>2, <3>1 DEF WholeWith, Whole, u
  <2> QED
    BY <2>1, <2>3, <2>4
<1> QED
  BY <1>1, <1>2

(* Another contract starts with nothing pending.                           *)
LEMMA EnterWhole ==
    ASSUME NEW I, NEW g \in Collector(I), NEW items, NEW K, NEW timed \in BOOLEAN,
           WholeWith(g, items, K, timed), NEW s \in Symbols
    PROVE  /\ Enter(g, s) \in Collector(I) /\ Enter(g, s).symbol = s
           /\ WholeWith(Enter(g, s), items, K, timed)
<1> DEFINE f == Flush(g)
           h == Enter(g, s)
<1>1. CASE s = g.symbol
  BY <1>1 DEF Enter
<1>2. CASE s # g.symbol
  <2>1. /\ f \in Collector(I) /\ f.items = <<>>
        /\ Whole(f.updates, items, K, timed)
    BY FlushWhole
  <2>2. h = [f EXCEPT !.symbol = s, !.time = 0]
    BY <1>2 DEF Enter
  <2> HIDE DEF f, h
  <2>3. /\ h \in Collector(I) /\ h.symbol = s /\ h.time = 0 /\ h.items = <<>>
        /\ h.updates = f.updates
    BY <2>1, <2>2 DEF Collector
  <2>4. /\ Pending(h) \in [symbol : Symbols \cup {NoSymbol}, items : Seq(I), time : Nat]
        /\ Pending(h).items = <<>> /\ h.updates \in Updates(I)
    BY <2>3, PendingType
  <2>5. InTurn(items, K, h.updates)
    BY <2>1, <2>3 DEF Whole
  <2>6. InTurn(items, K, Append(h.updates, Pending(h)))
    BY <2>4, <2>5, EmptyUpdate
  <2>7. UnderOne(Pending(h)) /\ Timed(Pending(h))
    <3>1. DOMAIN Pending(h).items = {}
      BY <2>4
    <3> QED
      BY <2>4, <3>1 DEF UnderOne, Timed
  <2>8. WholeWith(h, items, K, timed)
    BY <2>1, <2>3, <2>6, <2>7 DEF WholeWith, Whole
  <2> QED
    BY <2>3, <2>8 DEF h
<1> QED
  BY <1>1, <1>2

(* One more item of the contract that is collected.                        *)
LEMMA ItemWhole ==
    ASSUME NEW I, NEW g \in Collector(I), NEW items, NEW K \in SUBSET Nat, NEW timed \in BOOLEAN,
           WholeWith(g, items, K, timed),
           NEW m \in Nat, \A k \in K : k < m, NEW x \in I, items[m] = x, x.symbol = g.symbol,
           NEW h \in Collector(I), h.symbol = g.symbol, h.updates = g.updates,
           h.items = Append(g.items, x),
           timed => /\ x.time \in Nat /\ h.time \in {g.time, x.time}
                    /\ g.time <= h.time /\ x.time <= h.time
                    /\ \A i \in DOMAIN g.items : g.items[i].time \in Nat
    PROVE  WholeWith(h, items, K \cup {m}, timed)
<1>1. /\ Pending(g) \in [symbol : Symbols \cup {NoSymbol}, items : Seq(I), time : Nat]
      /\ Pending(g).symbol = g.symbol /\ Pending(g).items = g.items /\ Pending(g).time = g.time
      /\ Pending(h) \in [symbol : Symbols \cup {NoSymbol}, items : Seq(I), time : Nat]
      /\ Pending(h).symbol = g.symbol /\ Pending(h).items = Append(g.items, x)
      /\ Pending(h).time = h.time
      /\ g.updates \in Updates(I) /\ g.items \in Seq(I) /\ g.time \in Nat /\ h.time \in Nat
  BY PendingType DEF Collector
<1>2. InTurn(items, K \cup {m}, Append(h.updates, Pending(h)))
  <2>1. InTurn(items, K, Append(g.updates, Pending(g)))
    BY DEF WholeWith
  <2>2. InTurn(items, K \cup {m}, Append(g.updates, Pending(h)))
    BY <1>1, <2>1, ItemAppended
  <2> QED
    BY <2>2
<1> DEFINE t == Append(g.items, x)
           n == Len(g.items) + 1
<1>3. /\ n \in DOMAIN t /\ t[n] = x /\ t # <<>>
      /\ \A k \in DOMAIN g.items : k \in DOMAIN t /\ t[k] = g.items[k]
      /\ \A k \in DOMAIN t : k \in DOMAIN g.items \/ k = n
  BY <1>1, AppendIs
<1>4. h.items = t /\ Pending(h).items = t
  BY <1>1
<1> HIDE DEF t, n
<1>5. UnderOne(Pending(h))
  BY <1>1, <1>3, <1>4 DEF UnderOne, WholeWith
<1>6. ASSUME timed PROVE Timed(Pending(h))
  <2>1. /\ Timed(Pending(g)) /\ (g.items = <<>> => g.time = 0)
    BY <1>6 DEF WholeWith
  <2>2. /\ x.time \in Nat /\ h.time \in {g.time, x.time}
        /\ g.time <= h.time /\ x.time <= h.time
        /\ \A i \in DOMAIN g.items : g.items[i].time \in Nat
    BY <1>6
  <2>3. \A j \in DOMAIN g.items : g.items[j].time <= g.time
    <3>1. g.items = <<>> => DOMAIN g.items = {}
      OBVIOUS
    <3> QED
      BY <1>1, <2>1, <3>1 DEF Timed
  <2>4. \A j \in DOMAIN t : t[j].time <= h.time
    BY <1>1, <1>3, <2>2, <2>3
  <2>5. \E j \in DOMAIN t : t[j].time = h.time
    <3>1. CASE h.time = x.time
      BY <1>3, <3>1
    <3>2. CASE h.time # x.time
      <4>1. h.time = g.time
        BY <2>2, <3>2
      <4>2. g.items # <<>>
        BY <1>1, <2>1, <2>2, <3>2, <4>1
      <4>3. \E j \in DOMAIN g.items : g.items[j].time = g.time
        BY <1>1, <2>1, <4>2 DEF Timed
      <4> QED
        BY <1>3, <4>1, <4>3
    <3> QED
      BY <3>1, <3>2
  <2> QED
    BY <1>1, <1>4, <2>4, <2>5 DEF Timed
<1>7. h.items # <<>>
  BY <1>3, <1>4
<1> QED
  BY <1>2, <1>5, <1>6, <1>7 DEF WholeWith

(* The greater of two numbers.                                             *)
LEMMA MaxOfTwo ==
    ASSUME NEW a \in Nat, NEW b \in Nat
    PROVE  Max({a, b}) \in {a, b} /\ a <= Max({a, b}) /\ b <= Max({a, b}) /\ Max({a, b}) \in Nat
<1>1. \E x \in {a, b} : \A y \in {a, b} : x >= y
  <2>1. CASE a <= b
    BY <2>1
  <2>2. CASE b <= a
    BY <2>2
  <2> QED
    BY <2>1, <2>2
<1>2. Max({a, b}) \in {a, b} /\ \A y \in {a, b} : Max({a, b}) >= y
  BY <1>1 DEF Max
<1>3. Max({a, b}) \in Nat
  BY <1>2
<1>4. Max({a, b}) >= a /\ Max({a, b}) >= b
  BY <1>2
<1> QED
  BY <1>2, <1>3, <1>4

(* The items of trades and of bars.                                        *)
ItemsOf(channel) ==
    IF channel = "trades" THEN [symbol : Symbols, time : Nat]
    ELSE [symbol : Symbols, confirmed : BOOLEAN]

(* Trades are all passed on, bars if they are wanted.                      *)
PassedOn(channel, item) == channel = "trades" \/ Wanted(item)

(* The next item is added, or is not to be passed on.                      *)
LEMMA AddWhole ==
    ASSUME NEW channel, NEW I, I = ItemsOf(channel), NEW g \in Collector(I), NEW items,
           NEW K \in SUBSET Nat, NEW m \in Nat, \A k \in K : k < m, items[m] \in I,
           WholeWith(g, items, K, channel = "trades")
    PROVE  /\ Add(channel, g, items[m]) \in Collector(I)
           /\ WholeWith(Add(channel, g, items[m]), items,
                        IF PassedOn(channel, items[m]) THEN K \cup {m} ELSE K,
                        channel = "trades")
<1> DEFINE x == items[m]
           timed == channel = "trades"
           e == Enter(g, x.symbol)
           h == Add(channel, g, x)
<1>1. x \in I /\ x.symbol \in Symbols /\ (timed => x.time \in Nat) /\ timed \in BOOLEAN
  BY DEF ItemsOf
<1>2. WholeWith(g, items, K, timed)
  OBVIOUS
<1> HIDE DEF x, timed
<1>3. e \in Collector(I) /\ e.symbol = x.symbol /\ WholeWith(e, items, K, timed)
  BY <1>1, <1>2, EnterWhole
<1> HIDE DEF e
<1>4. e.items \in Seq(I) /\ e.time \in Nat
  BY <1>3 DEF Collector
<1>5. Append(e.items, x) \in Seq(I)
  BY <1>1, <1>4, AppendIs
<1>6. CASE timed
  <2>1. h = [e EXCEPT !.items = Append(@, x), !.time = Max({@, x.time})]
    BY <1>6 DEF Add, AddTrade, e, timed
  <2>2. /\ Max({e.time, x.time}) \in {e.time, x.time} /\ Max({e.time, x.time}) \in Nat
        /\ e.time <= Max({e.time, x.time}) /\ x.time <= Max({e.time, x.time})
    BY <1>1, <1>4, <1>6, MaxOfTwo
  <2>3. \A i \in DOMAIN e.items : e.items[i].time \in Nat
    <3>1. I = [symbol : Symbols, time : Nat]
      BY <1>6 DEF ItemsOf, timed
    <3>2. \A i \in DOMAIN e.items : e.items[i] \in I
      BY <1>4
    <3> QED
      BY <3>1, <3>2
  <2> HIDE DEF h
  <2>4. /\ h \in Collector(I) /\ h.symbol = e.symbol /\ h.updates = e.updates
        /\ h.items = Append(e.items, x) /\ h.time = Max({e.time, x.time})
    BY <1>3, <1>5, <2>1, <2>2 DEF Collector
  <2>5. items[m] = x /\ x.symbol = e.symbol
    BY <1>3 DEF x
  <2>6. timed => /\ x.time \in Nat /\ h.time \in {e.time, x.time}
                 /\ e.time <= h.time /\ x.time <= h.time
                 /\ \A i \in DOMAIN e.items : e.items[i].time \in Nat
    BY <1>1, <2>2, <2>3, <2>4
  <2>7. WholeWith(h, items, K \cup {m}, timed)
    BY <1>1, <1>3, <2>4, <2>5, <2>6, ItemWhole
  <2> QED
    BY <1>6, <2>4, <2>7 DEF PassedOn, timed, h, x
<1>7. CASE ~timed /\ Wanted(x)
  <2>1. h = [e EXCEPT !.items = Append(@, x)]
    BY <1>7 DEF Add, AddBar, e, timed
  <2> HIDE DEF h
  <2>2. /\ h \in Collector(I) /\ h.symbol = e.symbol /\ h.updates = e.updates
        /\ h.items = Append(e.items, x)
    BY <1>3, <1>5, <2>1 DEF Collector
  <2>3. items[m] = x /\ x.symbol = e.symbol
    BY <1>3 DEF x
  <2>4. timed => /\ x.time \in Nat /\ h.time \in {e.time, x.time}
                 /\ e.time <= h.time /\ x.time <= h.time
                 /\ \A i \in DOMAIN e.items : e.items[i].time \in Nat
    BY <1>7
  <2>5. WholeWith(h, items, K \cup {m}, timed)
    BY <1>1, <1>3, <2>2, <2>3, <2>4, ItemWhole
  <2> QED
    BY <1>7, <2>2, <2>5 DEF PassedOn, timed, h, x
<1>8. CASE ~timed /\ ~Wanted(x)
  <2>1. h = e
    BY <1>8 DEF Add, AddBar, e, timed
  <2> QED
    BY <1>3, <1>8, <2>1 DEF PassedOn, timed, x
<1> QED
  BY <1>6, <1>7, <1>8

(* The numbers of the first n items that are passed on.                    *)
PassedUpTo(channel, items, n) == {k \in 1 .. n : PassedOn(channel, items[k])}

(* Nothing is collected at first.                                          *)
LEMMA CollectWhole ==
    ASSUME NEW I, NEW items, NEW timed \in BOOLEAN
    PROVE  Collect(<<>>) \in Collector(I) /\ WholeWith(Collect(<<>>), items, {}, timed)
<1> DEFINE c == Collect(<<>>)
<1>1. /\ c.symbol = NoSymbol /\ c.time = 0 /\ c.items = <<>> /\ c.updates = <<>>
      /\ c = [symbol |-> NoSymbol, time |-> 0, items |-> <<>>, updates |-> <<>>]
  BY DEF Collect
<1> HIDE DEF c
<1>2. c \in Collector(I)
  BY <1>1 DEF Collector, Updates
<1>3. InTurn(items, {}, <<>>)
  <2>1. Places(<<>>) = {}
    BY DEF Places
  <2>2. [k \in {} |-> k] \in Surjection({}, Places(<<>>))
    BY <2>1 DEF Surjection
  <2>3. DOMAIN [k \in {} |-> k] = {}
    OBVIOUS
  <2> QED
    BY <2>2, <2>3 DEF InTurn
<1>4. /\ Pending(c) \in [symbol : Symbols \cup {NoSymbol}, items : Seq(I), time : Nat]
      /\ Pending(c).items = <<>> /\ c.updates \in Updates(I)
  BY <1>1, <1>2, PendingType
<1>5. InTurn(items, {}, Append(c.updates, Pending(c)))
  BY <1>1, <1>3, <1>4, EmptyUpdate
<1>6. UnderOne(Pending(c)) /\ Timed(Pending(c))
  <2>1. DOMAIN Pending(c).items = {}
    BY <1>4
  <2> QED
    BY <1>4, <2>1 DEF UnderOne, Timed
<1>7. DOMAIN c.updates = {}
  BY <1>1
<1>8. WholeWith(c, items, {}, timed)
  BY <1>1, <1>5, <1>6, <1>7 DEF WholeWith
<1> QED
  BY <1>2, <1>8 DEF c

(* A message is cut into whole updates.                                    *)
LEMMA CollectedWhole ==
    ASSUME NEW channel, NEW items \in Seq(ItemsOf(channel))
    PROVE  LET f == Flush(Collected(channel, Collect(<<>>), items)) IN
           /\ f \in Collector(ItemsOf(channel))
           /\ Whole(f.updates, items, PassedUpTo(channel, items, Len(items)), channel = "trades")
<1> DEFINE I == ItemsOf(channel)
           c == Collected(channel, Collect(<<>>), items)
           timed == channel = "trades"
<1>1. Len(items) \in Nat /\ DOMAIN items = 1 .. Len(items) /\ \A k \in DOMAIN items : items[k] \in I
  OBVIOUS
<1>2. PICK g : /\ g[0] = Collect(<<>>)
               /\ \A i \in 1 .. Len(items) : g[i] = Add(channel, g[i - 1], items[i])
               /\ Collected(channel, Collect(<<>>), items) = g[Len(items)]
  <2> DEFINE start == Collect(<<>>)
  <2>1. Len(items) \in Nat
    BY <1>1
  <2> HIDE DEF start
  <2>2. \E g : /\ g[0] = start
               /\ \A i \in 1 .. Len(items) : g[i] = Add(channel, g[i - 1], items[i])
               /\ Collected(channel, start, items) = g[Len(items)]
    BY <2>1, CollectedInTurn
  <2> QED
    BY <2>2 DEF start
<1> DEFINE Good(n) == /\ g[n] \in Collector(I)
                      /\ WholeWith(g[n], items, PassedUpTo(channel, items, n), timed)
           S == {n \in 0 .. Len(items) : ~Good(n)}
<1>3. Good(0)
  <2>1. PassedUpTo(channel, items, 0) = {}
    BY DEF PassedUpTo
  <2>2. timed \in BOOLEAN
    OBVIOUS
  <2> HIDE DEF I, timed
  <2> QED
    BY <1>2, <2>1, <2>2, CollectWhole
<1>4. ASSUME NEW n \in 1 .. Len(items), Good(n - 1) PROVE Good(n)
  <2> DEFINE K == PassedUpTo(channel, items, n - 1)
  <2>1. /\ K \in SUBSET Nat /\ n \in Nat /\ \A k \in K : k < n
    BY <1>1 DEF PassedUpTo
  <2>2. PassedUpTo(channel, items, n) = IF PassedOn(channel, items[n]) THEN K \cup {n} ELSE K
    <3>1. \A k : k \in 1 .. n <=> k \in 1 .. n - 1 \/ k = n
      BY <1>1
    <3> QED
      BY <3>1 DEF PassedUpTo
  <2>3. items[n] \in I /\ g[n] = Add(channel, g[n - 1], items[n])
    BY <1>1, <1>2
  <2>4. g[n - 1] \in Collector(I) /\ WholeWith(g[n - 1], items, K, timed)
    BY <1>4
  <2> HIDE DEF K
  <2>5. I = ItemsOf(channel)
    OBVIOUS
  <2> HIDE DEF I
  <2>6. /\ Add(channel, g[n - 1], items[n]) \in Collector(I)
        /\ WholeWith(Add(channel, g[n - 1], items[n]), items,
                     IF PassedOn(channel, items[n]) THEN K \cup {n} ELSE K, timed)
    BY <2>1, <2>3, <2>4, <2>5, AddWhole
  <2> QED
    BY <2>2, <2>3, <2>6
<1> HIDE DEF Good
<1>5. S = {}
  <2> SUFFICES ASSUME S # {} PROVE FALSE
    OBVIOUS
  <2>1. PICK n \in S : \A m \in S : n <= m
    <3>1. S \in SUBSET Nat
      BY <1>1
    <3> HIDE DEF S
    <3> QED
      BY <3>1, LeastOf
  <2>2. n \in 0 .. Len(items) /\ ~Good(n)
    OBVIOUS
  <2>3. n # 0
    BY <1>3, <2>2
  <2>4. n \in 1 .. Len(items) /\ n - 1 \in 0 .. Len(items) /\ ~(n <= n - 1)
    BY <1>1, <2>2, <2>3
  <2>5. Good(n - 1)
    BY <2>1, <2>4
  <2> QED
    BY <1>4, <2>2, <2>4, <2>5
<1>6. Good(Len(items))
  <2>1. Len(items) \in 0 .. Len(items)
    BY <1>1
  <2> QED
    BY <1>5, <2>1
<1>7. /\ c \in Collector(I)
      /\ WholeWith(c, items, PassedUpTo(channel, items, Len(items)), timed)
  BY <1>2, <1>6 DEF Good
<1>8. timed \in BOOLEAN
  OBVIOUS
<1> HIDE DEF c, timed, I
<1>9. Flush(c) \in Collector(I) /\ Whole(Flush(c).updates, items, PassedUpTo(channel, items, Len(items)), timed)
  BY <1>7, <1>8, FlushWhole
<1> QED
  BY <1>9 DEF c, timed, I

-----------------------------------------------------------------------------
(* The messages.                                                           *)

(* The elements of a sequence.                                             *)
LEMMA ElementsOf ==
    ASSUME NEW S, NEW s \in Seq(S)
    PROVE  \A i \in DOMAIN s : s[i] \in S
OBVIOUS

(* The time of an update is the maximum of its items' times.               *)
LEMMA TimedIsMax ==
    ASSUME NEW u \in [symbol : Symbols \cup {NoSymbol}, items : Seq([symbol : Symbols, time : Nat]), time : Nat],
           u.items # <<>>, Timed(u)
    PROVE  u.time = Max({u.items[j].time : j \in DOMAIN u.items})
<1> DEFINE T == {u.items[j].time : j \in DOMAIN u.items}
<1>1. T \in SUBSET Nat
  <2>1. u.items \in Seq([symbol : Symbols, time : Nat])
    OBVIOUS
  <2>2. \A j \in DOMAIN u.items : u.items[j] \in [symbol : Symbols, time : Nat]
    BY <2>1, ElementsOf
  <2> QED
    BY <2>2
<1>2. u.time \in T /\ (\A t \in T : t <= u.time) /\ u.time \in Nat
  BY DEF Timed
<1> HIDE DEF T
<1>3. \A t \in T : u.time >= t
  BY <1>1, <1>2
<1>4. Max(T) \in T /\ \A t \in T : Max(T) >= t
  BY <1>2, <1>3 DEF Max
<1>5. Max(T) = u.time
  <2>1. Max(T) \in Nat /\ Max(T) >= u.time /\ Max(T) <= u.time
    BY <1>1, <1>2, <1>4
  <2> QED
    BY <1>2, <2>1
<1> QED
  BY <1>5 DEF T

(* What UpdatesAreWhole says of one update.                                *)
WholeUpdate(u, channel) ==
    /\ UnderOne(u)
    /\ u.items # <<>> \/ channel = "history"
    /\ channel = "trades" => u.time = Max({u.items[j].time : j \in DOMAIN u.items})

(* A message is whole if its updates are whole and have its items in turn. *)
LEMMA MessageIsWhole ==
    ASSUME NEW channel, NEW items, NEW us, Dispatch(channel, items, us), NEW K,
           \A k : k \in K <=> k \in DOMAIN items /\ (channel = "candlesticks" => Wanted(items[k])),
           InTurn(items, K, us), \A i \in DOMAIN us : WholeUpdate(us[i], channel)
    PROVE  UpdatesAreWhole'
<1>1. updates' = us /\ message'.channel = channel /\ message'.items = items
  BY DEF Dispatch
<1>2. {k \in DOMAIN items : channel = "candlesticks" => Wanted(items[k])} = K
  OBVIOUS
<1>3. {k \in DOMAIN message'.items : Passed(message.items[k])'} = K
  BY <1>1, <1>2 DEF Passed, Wanted
<1>4. \E place \in Surjection(K, Places(us)) :
         \A k, l \in DOMAIN place :
              /\ At(us, place[k]) = items[k]
              /\ k < l => Before(place[k], place[l])
  BY DEF InTurn
<1>5. \E place \in Surjection({k \in DOMAIN message'.items : Passed(message.items[k])'}, Places(updates')) :
         \A k, l \in DOMAIN place :
              /\ At(updates', place[k]) = message'.items[k]
              /\ k < l => Before(place[k], place[l])
  BY <1>1, <1>3, <1>4
<1>6. \A i \in DOMAIN updates' : WholeUpdate(updates'[i], message'.channel)
  BY <1>1
<1> QED
  BY <1>5, <1>6 DEF UpdatesAreWhole, Places, At, WholeUpdate, UnderOne

(* Trades and bars, cut where the contract changes.                        *)
LEMMA CutIsWhole ==
    ASSUME NEW channel \in {"trades", "candlesticks"}, NEW items \in Seq(ItemsOf(channel)),
           Dispatch(channel, items, Flush(Collected(channel, Collect(<<>>), items)).updates)
    PROVE  UpdatesAreWhole'
<1> DEFINE us == Flush(Collected(channel, Collect(<<>>), items)).updates
           K == PassedUpTo(channel, items, Len(items))
<1>1. us \in Updates(ItemsOf(channel)) /\ Whole(us, items, K, channel = "trades")
  BY CollectedWhole DEF Collector
<1>2. Dispatch(channel, items, us)
  OBVIOUS
<1>3. \A k : k \in K <=> k \in DOMAIN items /\ (channel = "candlesticks" => Wanted(items[k]))
  <2>1. DOMAIN items = 1 .. Len(items)
    OBVIOUS
  <2> QED
    BY <2>1 DEF PassedUpTo, PassedOn
<1> HIDE DEF us, K
<1>4. ASSUME NEW i \in DOMAIN us, channel = "trades"
      PROVE  us[i].time = Max({us[i].items[j].time : j \in DOMAIN us[i].items})
  <2>1. ItemsOf(channel) = [symbol : Symbols, time : Nat]
    BY <1>4 DEF ItemsOf
  <2>2. us[i] \in [symbol : Symbols \cup {NoSymbol}, items : Seq([symbol : Symbols, time : Nat]), time : Nat]
    BY <1>1, <2>1, ElementsOf DEF Updates
  <2>3. us[i].items # <<>> /\ Timed(us[i])
    BY <1>1, <1>4 DEF Whole
  <2> QED
    BY <2>2, <2>3, TimedIsMax
<1>5. \A i \in DOMAIN us : UnderOne(us[i]) /\ us[i].items # <<>>
  BY <1>1 DEF Whole
<1>6. InTurn(items, K, us)
  BY <1>1 DEF Whole
<1>7. \A i \in DOMAIN us : WholeUpdate(us[i], channel)
  BY <1>4, <1>5 DEF WholeUpdate
<1> QED
  BY <1>2, <1>3, <1>6, <1>7, MessageIsWhole

(* One update with all of a message.                                       *)
LEMMA OneUpdate ==
    ASSUME NEW I, NEW items \in Seq(I), NEW s, NEW t
    PROVE  InTurn(items, DOMAIN items, <<Update(s, items, t)>>)
<1> DEFINE us == <<Update(s, items, t)>>
           place == [k \in DOMAIN items |-> <<1, k>>]
<1>1. DOMAIN us = {1} /\ us[1].items = items
  OBVIOUS
<1> HIDE DEF us
<1>2. \A p : p \in Places(us) <=> \E k \in DOMAIN items : p = <<1, k>>
  BY <1>1, PlaceIs
<1>3. place \in Surjection(DOMAIN items, Places(us))
  <2>1. place \in [DOMAIN items -> Places(us)]
    BY <1>2
  <2>2. \A p \in Places(us) : \E k \in DOMAIN items : place[k] = p
    BY <1>2
  <2> QED
    BY <2>1, <2>2 DEF Surjection
<1>4. \A k \in DOMAIN place : place[k] = <<1, k>> /\ At(us, place[k]) = items[k]
  BY <1>1 DEF At
<1>5. \A k, l \in DOMAIN place : k < l => Before(place[k], place[l])
  BY DEF Before
<1> HIDE DEF place
<1> QED
  BY <1>3, <1>4, <1>5 DEF InTurn, us

(* One update for each item.                                               *)
LEMMA UpdateEach ==
    ASSUME NEW items
    PROVE  InTurn(items, DOMAIN items, [i \in DOMAIN items |-> Update(items[i].symbol, <<items[i]>>, 0)])
<1> DEFINE us == [i \in DOMAIN items |-> Update(items[i].symbol, <<items[i]>>, 0)]
           place == [k \in DOMAIN items |-> <<k, 1>>]
<1>1. /\ DOMAIN us = DOMAIN items
      /\ \A i \in DOMAIN items : us[i].items = <<items[i]>>
  OBVIOUS
<1>2. \A i \in DOMAIN items : DOMAIN us[i].items = {1} /\ us[i].items[1] = items[i]
  BY <1>1
<1> HIDE DEF us
<1>3. \A p : p \in Places(us) <=> \E k \in DOMAIN items : p = <<k, 1>>
  BY <1>1, <1>2, PlaceIs
<1>4. place \in Surjection(DOMAIN items, Places(us))
  <2>1. place \in [DOMAIN items -> Places(us)]
    BY <1>3
  <2>2. \A p \in Places(us) : \E k \in DOMAIN items : place[k] = p
    BY <1>3
  <2> QED
    BY <2>1, <2>2 DEF Surjection
<1>5. \A k \in DOMAIN place : place[k] = <<k, 1>> /\ At(us, place[k]) = items[k]
  BY <1>2 DEF At
<1>6. \A k, l \in DOMAIN place : k < l => Before(place[k], place[l])
  BY DEF Before
<1> HIDE DEF place
<1> QED
  BY <1>4, <1>5, <1>6 DEF InTurn, us

(* A function on 1 .. n is a sequence.                                     *)
LEMMA ListOf ==
    ASSUME NEW S, NEW n \in Nat, NEW f \in [1 .. n -> S]
    PROVE  f \in Seq(S)
OBVIOUS

(* What a list of items is.                                                *)
LEMMA ListIs ==
    ASSUME NEW I, NEW items \in Lists(I)
    PROVE  items \in Seq(I) /\ DOMAIN items \subseteq 1 .. MaxItems
<1>1. PICK n \in 0 .. MaxItems : items \in [1 .. n -> I]
  BY DEF Lists
<1>2. n \in Nat /\ 1 .. n \subseteq 1 .. MaxItems
  BY MarketFeedAssumption
<1> QED
  BY <1>1, <1>2

(* A step that passes nothing on.                                          *)
LEMMA NothingDispatched ==
    ASSUME Dispatch("none", <<>>, <<>>)
    PROVE  UpdatesAreWhole'
<1>1. InTurn(<<>>, DOMAIN <<>>, [i \in DOMAIN <<>> |-> Update(<<>>[i].symbol, <<<<>>[i]>>, 0)])
  BY UpdateEach
<1>2. DOMAIN <<>> = {} /\ [i \in DOMAIN <<>> |-> Update(<<>>[i].symbol, <<<<>>[i]>>, 0)] = <<>>
  OBVIOUS
<1>3. InTurn(<<>>, {}, <<>>)
  BY <1>1, <1>2
<1>4. /\ \A k : k \in {} <=> k \in DOMAIN <<>> /\ ("none" = "candlesticks" => Wanted(<<>>[k]))
      /\ \A i \in DOMAIN <<>> : WholeUpdate(<<>>[i], "none")
  BY <1>2
<1> QED
  BY <1>3, <1>4, MessageIsWhole

-----------------------------------------------------------------------------
(* The steps that pass something on.                                       *)

(* One update for each ticker.                                             *)
LEMMA TickersAreWhole == Tickers => UpdatesAreWhole'
<1> SUFFICES ASSUME Tickers PROVE UpdatesAreWhole'
  OBVIOUS
<1>1. PICK items \in SymbolLists :
          Dispatch("tickers", items,
                   [i \in DOMAIN items |-> Update(items[i].symbol, <<items[i]>>, 0)])
  BY DEF Tickers
<1> DEFINE us == [i \in DOMAIN items |-> Update(items[i].symbol, <<items[i]>>, 0)]
<1>2. InTurn(items, DOMAIN items, us)
  BY UpdateEach
<1>3. ASSUME NEW i \in DOMAIN us PROVE WholeUpdate(us[i], "tickers")
  <2>1. us[i].items = <<items[i]>> /\ us[i].symbol = items[i].symbol
    OBVIOUS
  <2>2. DOMAIN us[i].items = {1} /\ us[i].items[1] = items[i] /\ us[i].items # <<>>
    BY <2>1
  <2> HIDE DEF us
  <2> QED
    BY <2>1, <2>2 DEF WholeUpdate, UnderOne
<1>4. \A k : k \in DOMAIN items <=>
                k \in DOMAIN items /\ ("tickers" = "candlesticks" => Wanted(items[k]))
  OBVIOUS
<1>5. Dispatch("tickers", items, us)
  BY <1>1
<1> HIDE DEF us
<1> QED
  BY <1>2, <1>3, <1>4, <1>5, MessageIsWhole

(* Trades, with the time each has in the message.                          *)
LEMMA TradesAreWhole == Trades => UpdatesAreWhole'
<1> SUFFICES ASSUME Trades PROVE UpdatesAreWhole'
  OBVIOUS
<1>1. PICK s \in SymbolLists :
          LET items == [i \in DOMAIN s |-> [symbol |-> s[i].symbol, time |-> Times[i]]]
          IN  Dispatch("trades", items, Flush(Collected("trades", Collect(GetTrades), items)).updates)
  BY DEF Trades
<1> DEFINE items == [i \in DOMAIN s |-> [symbol |-> s[i].symbol, time |-> Times[i]]]
<1>2. items \in Seq(ItemsOf("trades"))
  <2>1. s \in Seq([symbol : Symbols]) /\ DOMAIN s \subseteq 1 .. MaxItems
    BY ListIs DEF SymbolLists
  <2>2. \A i \in DOMAIN s : s[i] \in [symbol : Symbols]
    BY <2>1, ElementsOf
  <2>3. \A i \in DOMAIN s : Times[i] \in Nat
    BY <2>1, MarketFeedAssumption DEF MarketFeedAssumption
  <2>4. \A i \in DOMAIN s : [symbol |-> s[i].symbol, time |-> Times[i]] \in [symbol : Symbols, time : Nat]
    BY <2>2, <2>3
  <2>5. Len(s) \in Nat /\ DOMAIN s = 1 .. Len(s)
    BY <2>1
  <2>6. items \in [1 .. Len(s) -> [symbol : Symbols, time : Nat]]
    BY <2>4, <2>5
  <2>7. items \in Seq([symbol : Symbols, time : Nat])
    <3> HIDE DEF items
    <3> QED
      BY <2>5, <2>6, ListOf
  <2> QED
    BY <2>7 DEF ItemsOf
<1>3. Dispatch("trades", items, Flush(Collected("trades", Collect(<<>>), items)).updates)
  BY <1>1 DEF GetTrades
<1> HIDE DEF items
<1>4. "trades" \in {"trades", "candlesticks"}
  OBVIOUS
<1> QED
  BY <1>2, <1>3, <1>4, CutIsWhole

(* One update with one item.                                               *)
LEMMA BookTickerIsWhole == BookTicker => UpdatesAreWhole'
<1> SUFFICES ASSUME BookTicker PROVE UpdatesAreWhole'
  OBVIOUS
<1>1. PICK s \in Symbols :
          Dispatch("book_ticker", <<[symbol |-> s]>>, <<Update(s, <<[symbol |-> s]>>, 0)>>)
  BY DEF BookTicker
<1> DEFINE item == [symbol |-> s]
           items == <<item>>
           us == <<Update(s, items, 0)>>
<1>2. items \in Seq([symbol : Symbols])
  OBVIOUS
<1>3. InTurn(items, DOMAIN items, us)
  BY <1>2, OneUpdate
<1>4. ASSUME NEW i \in DOMAIN us PROVE WholeUpdate(us[i], "book_ticker")
  <2>1. us[i].items = <<item>> /\ us[i].symbol = s
    OBVIOUS
  <2>2. DOMAIN us[i].items = {1} /\ us[i].items[1].symbol = s /\ us[i].items # <<>>
    BY <2>1
  <2> HIDE DEF us
  <2> QED
    BY <2>1, <2>2 DEF WholeUpdate, UnderOne
<1>5. \A k : k \in DOMAIN items <=>
                k \in DOMAIN items /\ ("book_ticker" = "candlesticks" => Wanted(items[k]))
  OBVIOUS
<1>6. Dispatch("book_ticker", items, us)
  BY <1>1
<1> HIDE DEF us, items, item
<1> QED
  BY <1>3, <1>4, <1>5, <1>6, MessageIsWhole

(* Bars, without those that are not confirmed unless they are wanted.      *)
LEMMA CandlesticksAreWhole == Candlesticks => UpdatesAreWhole'
<1> SUFFICES ASSUME Candlesticks PROVE UpdatesAreWhole'
  OBVIOUS
<1>1. PICK items \in BarLists :
          Dispatch("candlesticks", items, Flush(Collected("candlesticks", Collect(<<>>), items)).updates)
  BY DEF Candlesticks
<1>2. items \in Seq(ItemsOf("candlesticks"))
  <2>1. items \in Seq([symbol : Symbols, confirmed : BOOLEAN])
    BY ListIs DEF BarLists
  <2> QED
    BY <2>1 DEF ItemsOf
<1>3. "candlesticks" \in {"trades", "candlesticks"}
  OBVIOUS
<1> QED
  BY <1>1, <1>2, <1>3, CutIsWhole

(* A history is one update, which may be empty.                            *)
LEMMA CandlesticksAckIsWhole == CandlesticksAck => UpdatesAreWhole'
<1> SUFFICES ASSUME CandlesticksAck PROVE UpdatesAreWhole'
  OBVIOUS
<1>1. PICK i \in DOMAIN requests, n \in 0 .. MaxItems :
          LET items == [j \in 1 .. n |-> [symbol |-> requests[i], confirmed |-> TRUE]]
          IN  Dispatch("history", items, <<Update(requests[i], items, 0)>>)
  BY DEF CandlesticksAck
<1> DEFINE s == requests[i]
           items == [j \in 1 .. n |-> [symbol |-> s, confirmed |-> TRUE]]
           us == <<Update(s, items, 0)>>
<1>2. items \in Seq([symbol : {s}, confirmed : BOOLEAN])
  <2>1. n \in Nat
    BY MarketFeedAssumption DEF MarketFeedAssumption
  <2> HIDE DEF s
  <2>2. items \in [1 .. n -> [symbol : {s}, confirmed : BOOLEAN]]
    OBVIOUS
  <2> HIDE DEF items
  <2> QED
    BY <2>1, <2>2, ListOf
<1>3. \A j \in DOMAIN items : items[j].symbol = s
  OBVIOUS
<1> HIDE DEF items, s
<1>4. InTurn(items, DOMAIN items, us)
  BY <1>2, OneUpdate
<1>5. ASSUME NEW k \in DOMAIN us PROVE WholeUpdate(us[k], "history")
  <2>1. us[k].items = items /\ us[k].symbol = s
    OBVIOUS
  <2> HIDE DEF us
  <2> QED
    BY <1>3, <2>1 DEF WholeUpdate, UnderOne
<1>6. \A k : k \in DOMAIN items <=>
                k \in DOMAIN items /\ ("history" = "candlesticks" => Wanted(items[k]))
  OBVIOUS
<1>7. Dispatch("history", items, us)
  BY <1>1 DEF items, s
<1> HIDE DEF us
<1> QED
  BY <1>4, <1>5, <1>6, <1>7, MessageIsWhole

(* Nothing was passed on at first, and a step passes a whole message on or *)
(* nothing.                                                                *)
LEMMA InitWhole == Init => UpdatesAreWhole
<1> SUFFICES ASSUME Init PROVE UpdatesAreWhole
  OBVIOUS
<1>1. message.items = <<>> /\ updates = <<>>
  BY DEF Init
<1>2. DOMAIN message.items = {} /\ DOMAIN updates = {}
  BY <1>1
<1>3. Places(updates) = {}
  BY <1>2 DEF Places
<1>4. {k \in DOMAIN message.items : Passed(message.items[k])} = {}
  BY <1>2
<1>5. [k \in {} |-> k] \in Surjection({}, {}) /\ DOMAIN [k \in {} |-> k] = {}
  BY DEF Surjection
<1> QED
  BY <1>2, <1>3, <1>4, <1>5 DEF UpdatesAreWhole

(* Every step passes a whole message on, or nothing.                       *)
LEMMA NextWhole == UpdatesAreWhole /\ [Next]_vars => UpdatesAreWhole'
<1> SUFFICES ASSUME UpdatesAreWhole, [Next]_vars
             PROVE  UpdatesAreWhole'
  OBVIOUS
<1>1. CASE ParserDispatch
  BY <1>1, TickersAreWhole, TradesAreWhole, BookTickerIsWhole, CandlesticksAreWhole
  DEF ParserDispatch
<1>2. CASE CandlesticksAck
  BY <1>2, CandlesticksAckIsWhole
<1>3. CASE \/ StreamReady \/ StreamDisconnected \/ SymbolsUpdate
           \/ RestReady \/ RestDisconnected \/ CheckRequestQueue \/ CandlesticksError
  <2>1. NoDispatch
    BY <1>3 DEF StreamReady, StreamDisconnected, SymbolsUpdate, RestReady, RestDisconnected,
                CheckRequestQueue, CandlesticksError
  <2> QED
    BY <2>1, NothingDispatched DEF NoDispatch
<1>4. CASE UNCHANGED vars
  <2>1. message' = message /\ updates' = updates
    BY <1>4 DEF vars, feedVars
  <2>2. {k \in DOMAIN message'.items : Passed(message.items[k])'}
            = {k \in DOMAIN message.items : Passed(message.items[k])}
    BY <2>1 DEF Passed, Wanted
  <2>3. /\ Places(updates') = Places(updates)
        /\ \A p : At(updates', p) = At(updates, p)
    BY <2>1
  <2>4. \E place \in Surjection({k \in DOMAIN message'.items : Passed(message.items[k])'},
                               Places(updates')) :
            \A k, l \in DOMAIN place :
                /\ At(updates', place[k]) = message'.items[k]
                /\ k < l => Before(place[k], place[l])
    BY <2>1, <2>2, <2>3 DEF UpdatesAreWhole
  <2>5. \A i \in DOMAIN updates : WholeUpdate(updates[i], message.channel)
    BY DEF UpdatesAreWhole, WholeUpdate, UnderOne
  <2>6. \A i \in DOMAIN updates' : WholeUpdate(updates'[i], message'.channel)
    BY <2>1, <2>5
  <2> QED
    BY <2>4, <2>6 DEF UpdatesAreWhole, Places, At, WholeUpdate, UnderOne
<1> QED
  BY <1>1, <1>2, <1>3, <1>4 DEF Next

(* For every number of contracts, messages and items, and for any times:   *)
(* the updates a message is cut into have its items, each once, in order   *)
(* and under its contract, nothing of an earlier message, and the time of  *)
(* the last trade (MarketData::operator() for trades and candlesticks,     *)
(* with the vectors that Shared keeps between messages).                   *)
THEOREM MessagesAreWhole == Spec => []UpdatesAreWhole
  BY InitWhole, NextWhole, PTL DEF Spec
=============================================================================
