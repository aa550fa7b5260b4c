-------------------------- MODULE OrderBookProofs --------------------------
(***************************************************************************)
(* Two things are proved of the order book of a contract, each from an     *)
(* inductive invariant of its own.  A book that is not live is on its way  *)
(* to be, unless a request for its snapshot failed.  And what clients are  *)
(* given is true: OrderBook implements BookFeed.                           *)
(***************************************************************************)
EXTENDS OrderBook, SequenceTheorems, WellFoundedInduction, TLAPS

USE DEF Update

(* What of the types the argument needs; snapshots have sequence numbers.  *)
Types ==
    /\ exchange \in Nat /\ sent \in Nat
    /\ feed \in Seq([first : Nat, last : Nat])
    /\ queue \in Nat /\ requests \in Nat /\ failed \in Nat
    /\ answers \in Seq(Nat \ {0})
    /\ sequencer \in Sequencer

(* A sequencer that is not live and has no updates has no sequence number. *)
NothingBuffered ==
    (~sequencer.live /\ sequencer.updates = <<>>) => sequencer.last_sequence = 0

AwaitedInv == Types /\ NothingBuffered /\ SnapshotIsAwaited

(* What is appended makes a sequence longer.                               *)
LEMMA Appended ==
    ASSUME NEW S, NEW s \in Seq(S), NEW e \in S
    PROVE  Append(s, e) \in Seq(S) /\ Append(s, e) # <<>>
<1>1. /\ Append(s, e) \in Seq(S)
      /\ Len(Append(s, e)) = Len(s) + 1
  BY AppendProperties
<1>2. Len(s) \in Nat /\ Len(<<>>) = 0
  BY LenProperties, EmptySeq
<1>3. QED BY <1>1, <1>2

LEMMA InitAwaited == Init => AwaitedInv
BY DEF Init, FeedInit, AwaitedInv, Types, NothingBuffered, SnapshotIsAwaited,
       NewSequencer, Sequencer

(* A request is queued, or the process ends.                               *)
LEMMA RequestQueued ==
    ASSUME queue \in Nat, NEW retries \in Nat, RequestSnapshot(retries)
    PROVE  queue' \in Nat /\ (queue' > 0 \/ fatal')
BY DEF RequestSnapshot

(* What Join leaves is awaited, if a snapshot that is missing was awaited  *)
(* before or is asked for by the first update.                             *)
LEMMA JoinAwaited ==
    ASSUME queue \in Nat, NEW q \in Sequencer, ~q.live, NEW first \in BOOLEAN,
           q.updates = <<>> => q.last_sequence = 0,
           NEW awaited \in BOOLEAN, Join(q, first),
           (q.snapshot = 0 /\ ~first) => awaited
    PROVE  /\ queue' \in Nat
           /\ sequencer' \in Sequencer
           /\ NothingBuffered'
           /\ \/ sequencer'.live
              \/ queue' > 0
              \/ fatal'
              \/ sequencer'.snapshot > sequencer'.last_sequence
              \/ awaited /\ queue' = queue /\ fatal' = fatal
<1>1. CASE /\ Fits(q)
           /\ sequencer' = [NewSequencer EXCEPT !.live = TRUE, !.last_sequence = q.last_sequence]
           /\ UNCHANGED <<queue, fatal>>
  <2>1. sequencer' = [live |-> TRUE, last_sequence |-> q.last_sequence,
                       updates |-> <<>>, snapshot |-> 0, retries |-> 0]
    BY <1>1 DEF NewSequencer
  <2>2. q.last_sequence \in Nat
    BY DEF Sequencer
  <2>3. sequencer' \in Sequencer /\ sequencer'.live
    BY <2>1, <2>2 DEF Sequencer
  <2>4. QED BY <1>1, <2>3 DEF NothingBuffered
<1>2. CASE /\ TooOld(q)
           /\ sequencer' = [q EXCEPT !.snapshot = 0, !.retries = @ + 1]
           /\ RequestSnapshot(q.retries + 1)
  <2>1. q.retries + 1 \in Nat
    BY DEF Sequencer
  <2>2. queue' \in Nat /\ (queue' > 0 \/ fatal')
    BY <1>2, <2>1, RequestQueued
  <2>3. sequencer' \in Sequencer /\ NothingBuffered'
    <3>1. sequencer' \in Sequencer
      BY <1>2, <2>1 DEF Sequencer
    <3>2. sequencer'.updates # <<>>
      BY <1>2 DEF TooOld, Sequencer
    <3>3. QED BY <3>1, <3>2 DEF NothingBuffered
  <2>4. QED BY <2>2, <2>3
<1>3. CASE /\ ~Fits(q) /\ ~TooOld(q)
           /\ sequencer' = q
           /\ IF first /\ q.snapshot = 0
              THEN RequestSnapshot(0) ELSE UNCHANGED <<queue, fatal>>
  <2>1. sequencer' \in Sequencer /\ NothingBuffered'
    BY <1>3 DEF NothingBuffered
  <2>2. CASE first /\ q.snapshot = 0
    BY <1>3, <2>1, <2>2, RequestQueued
  <2>3. CASE ~first /\ q.snapshot = 0
    BY <1>3, <2>1, <2>3
  <2>4. CASE q.snapshot # 0 /\ q.updates = <<>>
    BY <1>3, <2>1, <2>4 DEF Sequencer
  <2>5. CASE q.snapshot # 0 /\ q.updates # <<>>
    <3>1. Head(q.updates).first \in Nat
      <4>1. q.updates \in Seq([first : Nat, last : Nat])
        BY DEF Sequencer
      <4>2. Head(q.updates) \in [first : Nat, last : Nat]
        BY <2>5, <4>1, HeadTailProperties
      <4>3. QED BY <4>2
    <3>2. q.snapshot \in Nat /\ q.last_sequence \in Nat
      BY DEF Sequencer
    <3>3. q.snapshot > q.last_sequence
      BY <1>3, <2>5, <3>1, <3>2 DEF Fits, TooOld
    <3>4. QED BY <1>3, <2>1, <2>5, <3>3
  <2>6. QED BY <2>2, <2>3, <2>4, <2>5
<1>4. QED BY <1>1, <1>2, <1>3 DEF Join

LEMMA OrderBookUpdateAwaited ==
    ASSUME AwaitedInv, OrderBookUpdate
    PROVE  AwaitedInv'
<1> DEFINE u == Head(feed)
           q == [sequencer EXCEPT !.last_sequence = u.last]
           p == [q EXCEPT !.updates = Append(@, u)]
<1>1. /\ u \in [first : Nat, last : Nat]
      /\ feed' \in Seq([first : Nat, last : Nat])
  BY HeadTailProperties DEF AwaitedInv, Types, OrderBookUpdate
<1>2. UNCHANGED <<exchange, sent, requests, failed, answers>>
  BY DEF OrderBookUpdate, restVars
<1>3. q \in Sequencer
  BY <1>1 DEF AwaitedInv, Types, Sequencer
<1>4. CASE BadState
  BY <1>1, <1>2, <1>4 DEF AwaitedInv, Types, BadState, NewSequencer, Sequencer,
     NothingBuffered, SnapshotIsAwaited
<1>5. CASE sequencer.live /\ sequencer' = q /\ UNCHANGED <<queue, fatal>>
  BY <1>1, <1>2, <1>3, <1>5 DEF AwaitedInv, Types, Sequencer, NothingBuffered,
     SnapshotIsAwaited
<1>6. CASE ~sequencer.live /\ Join(p, q.updates = <<>>)
  <2> DEFINE awaited == requests > 0 \/ answers # <<>> \/ queue > 0 \/ failed # 0 \/ fatal
  <2>1. /\ p \in Sequencer /\ ~p.live /\ p.updates # <<>>
        /\ p.snapshot = sequencer.snapshot /\ q.updates = sequencer.updates
    <3>1. q.updates \in Seq([first : Nat, last : Nat])
      BY <1>3 DEF Sequencer
    <3>2. /\ Append(q.updates, u) \in Seq([first : Nat, last : Nat])
          /\ Append(q.updates, u) # <<>>
      BY <1>1, <3>1, Appended
    <3>3. QED BY <1>3, <1>6, <3>2 DEF Sequencer, AwaitedInv, Types
  <2>2. (p.snapshot = 0 /\ ~(q.updates = <<>>)) => awaited
    BY <1>6, <2>1 DEF AwaitedInv, SnapshotIsAwaited, Types, Sequencer
  <2>3. /\ queue' \in Nat /\ sequencer' \in Sequencer /\ NothingBuffered'
        /\ \/ sequencer'.live
           \/ queue' > 0
           \/ fatal'
           \/ sequencer'.snapshot > sequencer'.last_sequence
           \/ awaited /\ queue' = queue /\ fatal' = fatal
    <3> HIDE DEF awaited, p, q
    <3>1. queue \in Nat /\ awaited \in BOOLEAN
      BY DEF AwaitedInv, Types, awaited
    <3>2. QED BY <1>6, <2>1, <2>2, <3>1, JoinAwaited
  <2>4. Types'
    BY <1>1, <1>2, <2>3 DEF AwaitedInv, Types
  <2>5. SnapshotIsAwaited'
    BY <1>2, <2>3 DEF SnapshotIsAwaited
  <2>6. QED BY <2>3, <2>4, <2>5 DEF AwaitedInv
<1>7. QED BY <1>4, <1>5, <1>6 DEF OrderBookUpdate

LEMMA OrderBookAckAwaited ==
    ASSUME AwaitedInv, OrderBookAck
    PROVE  AwaitedInv'
<1> DEFINE q == [sequencer EXCEPT !.snapshot = Head(answers)]
<1>1. Head(answers) \in Nat \ {0} /\ answers' \in Seq(Nat \ {0})
  BY HeadTailProperties DEF AwaitedInv, Types, OrderBookAck
<1>2. UNCHANGED <<exchange, sent, feed, requests, failed>>
  BY DEF OrderBookAck, streamVars
<1>3. CASE sequencer.live
  BY <1>1, <1>2, <1>3 DEF AwaitedInv, Types, NothingBuffered, SnapshotIsAwaited,
     OrderBookAck, bookVars
<1>4. CASE ~sequencer.live
  <2>1. /\ q \in Sequencer /\ ~q.live /\ q.snapshot # 0
        /\ q.updates = <<>> => q.last_sequence = 0
    BY <1>1, <1>4 DEF AwaitedInv, Types, Sequencer, NothingBuffered
  <2>2. Join(q, FALSE)
    BY <1>4 DEF OrderBookAck
  <2>3. /\ queue' \in Nat /\ sequencer' \in Sequencer /\ NothingBuffered'
        /\ \/ sequencer'.live
           \/ queue' > 0
           \/ fatal'
           \/ sequencer'.snapshot > sequencer'.last_sequence
    <3> HIDE DEF q
    <3>1. queue \in Nat
      BY DEF AwaitedInv, Types
    <3>2. QED BY <2>1, <2>2, <3>1, JoinAwaited
  <2>4. QED BY <1>1, <1>2, <2>3 DEF AwaitedInv, Types, SnapshotIsAwaited
<1>5. QED BY <1>3, <1>4

LEMMA OrderBookRefusedAwaited ==
    ASSUME AwaitedInv, OrderBookRefused
    PROVE  AwaitedInv'
<1>1. answers' \in Seq(Nat \ {0})
  BY HeadTailProperties DEF AwaitedInv, Types, OrderBookRefused
<1>2. UNCHANGED <<exchange, sent, feed, requests, failed>> /\ BadState
  BY DEF OrderBookRefused, streamVars
<1>3. QED
  BY <1>1, <1>2 DEF AwaitedInv, Types, BadState, NewSequencer, Sequencer,
     NothingBuffered, SnapshotIsAwaited

(* The steps that leave the sequencer alone keep the snapshot awaited.     *)
LEMMA NextAwaited == AwaitedInv /\ [Next]_vars => AwaitedInv'
<1> SUFFICES ASSUME AwaitedInv, [Next]_vars PROVE AwaitedInv'
  OBVIOUS
<1> USE DEF AwaitedInv, Types, NothingBuffered, SnapshotIsAwaited
<1>1. CASE StreamReady
  BY <1>1 DEF StreamReady, restVars, bookVars
<1>2. CASE StreamDisconnected
  BY <1>2 DEF StreamDisconnected, restVars, bookVars
<1>3. CASE OrderBookUpdate
  BY <1>3, OrderBookUpdateAwaited
<1>4. CASE RestReady
  BY <1>4 DEF RestReady, streamVars, bookVars
<1>5. CASE RestDisconnected
  <2>1. Len(answers) \in Nat /\ (Len(answers) = 0 => answers = <<>>)
    BY LenProperties, EmptySeq
  <2>2. QED BY <1>5, <2>1 DEF RestDisconnected, streamVars, bookVars
<1>6. CASE CheckRequestQueue
  <2>1. PICK n \in 1..queue : queue' = queue - n /\ requests' = requests + n
    BY <1>6 DEF CheckRequestQueue
  <2>2. QED BY <1>6, <2>1 DEF CheckRequestQueue, streamVars
<1>7. CASE OrderBookError
  BY <1>7 DEF OrderBookError, streamVars, bookVars
<1>8. CASE OrderBookAck
  BY <1>8, OrderBookAckAwaited
<1>9. CASE ExchangeChange
  BY <1>9 DEF ExchangeChange, Change, streamVars, restVars
<1>10. CASE ExchangeUpdate
  BY <1>10, AppendProperties DEF ExchangeUpdate, restVars, bookVars
<1>11. CASE ExchangeOrderBook
  <2>1. PICK n \in 1..exchange : answers' = Append(answers, n)
    BY <1>11 DEF ExchangeOrderBook
  <2>2. answers' \in Seq(Nat \ {0}) /\ answers' # <<>>
    <3>1. n \in Nat \ {0}
      BY <2>1
    <3>2. QED BY <2>1, <3>1, Appended
  <2>3. requests' \in Nat
    BY <1>11 DEF ExchangeOrderBook
  <2>4. UNCHANGED <<exchange, sent, feed, queue, failed, sequencer, published, fatal>>
    BY <1>11 DEF ExchangeOrderBook, streamVars, bookVars
  <2>5. QED BY <2>2, <2>3, <2>4
<1>12. CASE UNCHANGED vars
  BY <1>12 DEF vars, streamVars, restVars, bookVars
<1>13. CASE OrderBookRefused
  BY <1>13, OrderBookRefusedAwaited
<1>14. QED
  BY <1>1, <1>2, <1>3, <1>4, <1>5, <1>6, <1>7, <1>8, <1>9, <1>10, <1>11, <1>12,
     <1>13
  DEF Next, StreamNext, RestNext, ExchangeNext

(* Whatever is lost, late or answered twice: a book that is not live is    *)
(* being asked for or waits for the update that reaches its snapshot, or a *)
(* request failed, which the gateway does not make up for.                 *)
THEOREM BookIsAwaited == Spec => []SnapshotIsAwaited
<1>1. AwaitedInv => SnapshotIsAwaited
  BY DEF AwaitedInv
<1>2. QED BY <1>1, InitAwaited, NextAwaited, PTL DEF Spec

-----------------------------------------------------------------------------
(* Greatest elements, and the books of the exchange.                       *)

LEMMA LeastOf ==
    ASSUME NEW S \in SUBSET Nat, S # {}
    PROVE  \E x \in S : \A y \in S : x <= y
<1>1. PICK x \in S : \A y \in S : <<y, x>> \notin OpToRel(<, Nat)
  BY NatLessThanWellFounded, WFMin, Zenon
<1>2. \A y \in S : ~(y < x)
  BY <1>1 DEF OpToRel
<1>3. QED BY <1>2

LEMMA MaxOf ==
    ASSUME NEW n \in Nat, NEW S \in SUBSET (0 .. n), S # {}
    PROVE  Max(S) \in S /\ \A y \in S : y <= Max(S)
<1> DEFINE T == {n - x : x \in S}
<1>1. T \in SUBSET Nat /\ T # {}
  <2>1. \A x \in 0 .. n : n - x \in Nat
    OBVIOUS
  <2>2. \A x \in S : n - x \in Nat
    BY <2>1
  <2>3. QED BY <2>2
<1>2. PICK t \in T : \A y \in T : t <= y
  <2> HIDE DEF T
  <2>1. QED BY <1>1, LeastOf
<1>3. PICK x \in S : t = n - x
  BY <1>2
<1>4. \A y \in S : y <= x
  <2>1. \A y \in S : n - x <= n - y
    BY <1>2, <1>3
  <2>2. QED BY <2>1
<1>5. \A y \in S : x >= y
  BY <1>4
<1>6. Max(S) \in S /\ \A y \in S : Max(S) >= y
  BY <1>5 DEF Max
<1>7. QED BY <1>6

LEMMA MaxIs ==
    ASSUME NEW n \in Nat, NEW S \in SUBSET (0 .. n), NEW m \in S, \A y \in S : y <= m
    PROVE  Max(S) = m
<1>1. Max(S) \in S /\ \A y \in S : y <= Max(S)
  BY MaxOf
<1>2. Max(S) <= m /\ m <= Max(S)
  BY <1>1
<1>3. \A x, y \in 0 .. n : x <= y /\ y <= x => x = y
  OBVIOUS
<1>4. Max(S) \in 0 .. n /\ m \in 0 .. n
  BY <1>1
<1>5. QED BY <1>2, <1>3, <1>4

LEMMA ChangesOfBounds ==
    ASSUME NEW l, NEW a \in Nat, NEW b \in Nat
    PROVE  /\ ChangesOf(l, a, b) \in SUBSET (0 .. b)
           /\ \A i : i \in ChangesOf(l, a, b) <=> i \in Nat /\ a <= i /\ i <= b /\ LevelOf[i] = l
BY DEF ChangesOf

(* The quantity of a level of the exchange after change n.                 *)
LEMMA LevelAt ==
    ASSUME NEW l \in Levels, NEW n \in Nat
    PROVE  BookAt(n)[l] = IF ChangesOf(l, 1, n) = {} THEN 0 ELSE Max(ChangesOf(l, 1, n))
BY DEF BookAt, ApplyUpdate, EmptyBook

LEMMA BookType ==
    ASSUME NEW n \in Nat
    PROVE  BookAt(n) \in [Levels -> Nat]
<1>1. ASSUME NEW l \in Levels PROVE BookAt(n)[l] \in Nat
  <2>1. CASE ChangesOf(l, 1, n) = {}
    BY <2>1, LevelAt
  <2>2. CASE ChangesOf(l, 1, n) # {}
    <3>1. ChangesOf(l, 1, n) \in SUBSET (0 .. n)
      BY ChangesOfBounds
    <3>2. Max(ChangesOf(l, 1, n)) \in 0 .. n
      BY <2>2, <3>1, MaxOf
    <3>3. QED BY <2>2, <3>2, LevelAt
  <2>3. QED BY <2>1, <2>2
<1>2. BookAt(n) = [l \in Levels |-> BookAt(n)[l]]
  BY DEF BookAt, ApplyUpdate
<1>3. QED BY <1>1, <1>2

(* A level that a later change sets has its quantity from that change.     *)
LEMMA LevelAtLater ==
    ASSUME NEW l \in Levels, NEW a \in Nat, NEW b \in Nat, NEW n \in Nat,
           1 <= a, b <= n, ChangesOf(l, a, b) # {}, ChangesOf(l, b + 1, n) = {}
    PROVE  BookAt(n)[l] = Max(ChangesOf(l, a, b))
<1> DEFINE S == ChangesOf(l, a, b)
           T == ChangesOf(l, 1, n)
<1>1. /\ S \in SUBSET (0 .. b) /\ T \in SUBSET (0 .. n)
      /\ \A i : i \in S <=> i \in Nat /\ a <= i /\ i <= b /\ LevelOf[i] = l
      /\ \A i : i \in T <=> i \in Nat /\ 1 <= i /\ i <= n /\ LevelOf[i] = l
      /\ \A i : i \in ChangesOf(l, b + 1, n) <=> i \in Nat /\ b + 1 <= i /\ i <= n /\ LevelOf[i] = l
  BY ChangesOfBounds
<1> HIDE DEF S, T
<1>2. Max(S) \in S /\ \A y \in S : y <= Max(S)
  BY <1>1, MaxOf DEF S
<1>3. Max(S) \in T
  BY <1>1, <1>2
<1>4. ASSUME NEW y \in T PROVE y <= Max(S)
  <2>1. y \in Nat /\ 1 <= y /\ y <= n /\ LevelOf[y] = l /\ y \notin ChangesOf(l, b + 1, n)
    BY <1>1, <1>4
  <2>2. y <= b
    BY <1>1, <2>1
  <2>3. CASE a <= y
    BY <1>1, <1>2, <2>1, <2>2, <2>3
  <2>4. CASE y < a
    <3>1. a <= Max(S) /\ Max(S) \in Nat
      BY <1>1, <1>2
    <3>2. QED BY <2>1, <2>4, <3>1
  <2>5. QED BY <2>1, <2>3, <2>4
<1>5. Max(T) = Max(S) /\ T # {}
  BY <1>1, <1>3, <1>4, MaxIs
<1>6. QED BY <1>5, LevelAt DEF S, T

(* A level that no later change sets stays as it was.                      *)
LEMMA LevelStays ==
    ASSUME NEW l \in Levels, NEW m \in Nat, NEW n \in Nat, m <= n, ChangesOf(l, m + 1, n) = {}
    PROVE  BookAt(n)[l] = BookAt(m)[l]
<1>1. ChangesOf(l, 1, n) = ChangesOf(l, 1, m)
  <2>1. /\ \A i : i \in ChangesOf(l, 1, n) <=> i \in Nat /\ 1 <= i /\ i <= n /\ LevelOf[i] = l
        /\ \A i : i \in ChangesOf(l, 1, m) <=> i \in Nat /\ 1 <= i /\ i <= m /\ LevelOf[i] = l
        /\ \A i : i \in ChangesOf(l, m + 1, n) <=> i \in Nat /\ m + 1 <= i /\ i <= n /\ LevelOf[i] = l
    BY ChangesOfBounds
  <2>2. \A i : i \in ChangesOf(l, 1, n) <=> i \in ChangesOf(l, 1, m)
    BY <2>1
  <2>3. QED BY <2>2
<1>2. QED BY <1>1, LevelAt

LEMMA UpdateMakesBook ==
    ASSUME NEW a \in Nat, NEW b \in Nat, a + 1 <= b
    PROVE  ApplyUpdate(BookAt(a), a + 1, b) = BookAt(b)
<1>1. ASSUME NEW l \in Levels
      PROVE  BookAt(b)[l] = IF ChangesOf(l, a + 1, b) = {} THEN BookAt(a)[l]
                            ELSE Max(ChangesOf(l, a + 1, b))
  <2>1. CASE ChangesOf(l, a + 1, b) = {}
    <3>1. a <= b
      OBVIOUS
    <3>2. QED BY <2>1, <3>1, LevelStays
  <2>2. CASE ChangesOf(l, a + 1, b) # {}
    <3>1. ChangesOf(l, b + 1, b) = {}
      BY DEF ChangesOf
    <3>2. a + 1 \in Nat /\ 1 <= a + 1 /\ b <= b
      OBVIOUS
    <3>3. QED BY <2>2, <3>1, <3>2, LevelAtLater
  <2>3. QED BY <2>1, <2>2
<1>2. BookAt(b) = [l \in Levels |-> BookAt(b)[l]]
  BY DEF BookAt, ApplyUpdate
<1>3. QED BY <1>1, <1>2 DEF ApplyUpdate

-----------------------------------------------------------------------------
(* The updates that are buffered.                                          *)

Ascending(s) == \A i, j \in DOMAIN s : i < j => s[i].last < s[j].first

(* Every change from the first buffered one is in a buffered update.       *)
Covers(s, n) == \A c \in Head(s).first .. n : \E k \in DOMAIN s : s[k].first <= c /\ c <= s[k].last

(* The updates of q are newer than what was published, p, and lead to its  *)
(* sequence number without a gap.                                          *)
Buffered(q, p) ==
    /\ q.updates = <<>> => q.last_sequence = 0
    /\ q.updates # <<>> =>
          /\ \A k \in DOMAIN q.updates :
                /\ p < q.updates[k].first
                /\ q.updates[k].first <= q.updates[k].last /\ q.updates[k].last <= q.last_sequence
          /\ Ascending(q.updates) /\ Covers(q.updates, q.last_sequence)

LEMMA ElementsOf ==
    ASSUME NEW S, NEW s \in Seq(S)
    PROVE  \A i \in DOMAIN s : s[i] \in S
OBVIOUS

LEMMA UpdateFields ==
    ASSUME NEW s \in Seq([first : Nat, last : Nat])
    PROVE  /\ \A k \in DOMAIN s : k \in Nat /\ 1 <= k /\ k <= Len(s)
                                  /\ s[k].first \in Nat /\ s[k].last \in Nat
           /\ Len(s) \in Nat
           /\ s # <<>> => 1 \in DOMAIN s /\ Head(s) = s[1] /\ Tail(s) \in Seq([first : Nat, last : Nat])
<1>1. \A k \in DOMAIN s : k \in Nat /\ 1 <= k /\ k <= Len(s) /\ s[k] \in [first : Nat, last : Nat]
  <2>1. DOMAIN s = 1 .. Len(s) /\ Len(s) \in Nat
    OBVIOUS
  <2>2. \A k \in DOMAIN s : s[k] \in [first : Nat, last : Nat]
    BY ElementsOf
  <2>3. \A k \in 1 .. Len(s) : k \in Nat /\ 1 <= k /\ k <= Len(s)
    BY <2>1
  <2>4. QED BY <2>1, <2>2, <2>3
<1>2. s # <<>> => 1 \in DOMAIN s /\ Head(s) = s[1] /\ Tail(s) \in Seq([first : Nat, last : Nat])
  OBVIOUS
<1>3. Len(s) \in Nat
  OBVIOUS
<1>4. \A u \in [first : Nat, last : Nat] : u.first \in Nat /\ u.last \in Nat
  OBVIOUS
<1>5. QED BY <1>1, <1>2, <1>3, <1>4

(* A snapshot that fits becomes the book of the last update.               *)
LEMMA AppliedMakesBook ==
    ASSUME NEW q \in Sequencer, NEW p \in Nat, Buffered(q, p), Fits(q)
    PROVE  Applied(BookAt(q.snapshot), q.updates, q.snapshot) = BookAt(q.last_sequence)
<1> DEFINE s == q.updates
           m == q.snapshot
           n == q.last_sequence
<1>1. s \in Seq([first : Nat, last : Nat]) /\ m \in Nat /\ n \in Nat
  BY DEF Sequencer
<1>2. s # <<>> /\ m <= n /\ s[1].first - 1 <= m
  BY <1>1, UpdateFields DEF Fits
<1>3. /\ \A k \in DOMAIN s : /\ k \in Nat /\ 1 <= k /\ k <= Len(s)
                             /\ s[k].first \in Nat /\ s[k].last \in Nat
                             /\ 1 <= s[k].first /\ s[k].first <= s[k].last /\ s[k].last <= n
      /\ Len(s) \in Nat /\ 1 \in DOMAIN s /\ Head(s) = s[1]
  <2>1. \A k \in DOMAIN s : p < s[k].first /\ s[k].first <= s[k].last /\ s[k].last <= n
    BY <1>2 DEF Buffered
  <2>2. QED BY <1>1, <1>2, <2>1, UpdateFields
<1>4. Ascending(s)
  BY <1>2 DEF Buffered
<1>5. \A c \in Nat : s[1].first <= c /\ c <= n =>
         \E k \in DOMAIN s : s[k].first <= c /\ c <= s[k].last
  <2>1. Covers(s, n)
    BY <1>2 DEF Buffered
  <2>2. QED BY <1>1, <1>3, <2>1 DEF Covers
<1>6. Applied(BookAt(m), s, m)
        = [l \in Levels |->
              LET sets == {k \in DOMAIN s : s[k].last > m
                                            /\ ChangesOf(l, s[k].first, s[k].last) # {}}
                  u == s[Max(sets)]
              IN  IF sets = {} THEN BookAt(m)[l] ELSE Max(ChangesOf(l, u.first, u.last))]
  BY DEF Applied
<1> HIDE DEF s, m, n
<1>7. ASSUME NEW l \in Levels
      PROVE  BookAt(n)[l] = (LET sets == {k \in DOMAIN s : s[k].last > m
                                            /\ ChangesOf(l, s[k].first, s[k].last) # {}}
                                 u == s[Max(sets)]
                             IN  IF sets = {} THEN BookAt(m)[l] ELSE Max(ChangesOf(l, u.first, u.last)))
  <2> DEFINE sets == {k \in DOMAIN s : s[k].last > m
                                       /\ ChangesOf(l, s[k].first, s[k].last) # {}}
  <2>1. ASSUME NEW c \in ChangesOf(l, m + 1, n)
        PROVE  \E k \in sets : s[k].first <= c /\ c <= s[k].last
    <3>1. c \in Nat /\ m + 1 <= c /\ c <= n /\ LevelOf[c] = l
      BY <1>1, <2>1 DEF ChangesOf
    <3>2. s[1].first <= c
      BY <1>1, <1>2, <1>3, <3>1
    <3>3. PICK k \in DOMAIN s : s[k].first <= c /\ c <= s[k].last
      BY <1>5, <3>1, <3>2
    <3>4. s[k].last > m /\ c \in ChangesOf(l, s[k].first, s[k].last)
      BY <1>1, <1>3, <3>1, <3>3 DEF ChangesOf
    <3>5. QED BY <3>3, <3>4
  <2>2. CASE sets = {}
    <3>1. ChangesOf(l, m + 1, n) = {}
      BY <2>1, <2>2
    <3>2. BookAt(n)[l] = BookAt(m)[l]
      BY <1>1, <1>2, <3>1, LevelStays
    <3>3. QED BY <2>2, <3>2
  <2>3. CASE sets # {}
    <3> DEFINE k == Max(sets)
    <3>1. sets \in SUBSET (0 .. Len(s))
      BY <1>3
    <3>2. k \in sets /\ \A j \in sets : j <= k
      <4> HIDE DEF sets
      <4>1. QED BY <1>3, <2>3, <3>1, MaxOf
    <3>3. k \in DOMAIN s /\ ChangesOf(l, s[k].first, s[k].last) # {} /\ s[k].last > m
      BY <3>2
    <3>4. ChangesOf(l, s[k].last + 1, n) = {}
      <4>1. SUFFICES ASSUME NEW c \in ChangesOf(l, s[k].last + 1, n) PROVE FALSE
        OBVIOUS
      <4> HIDE DEF k
      <4>2. c \in Nat /\ s[k].last + 1 <= c /\ c <= n /\ LevelOf[c] = l
        BY <1>1, <1>3, <3>3, <4>1 DEF ChangesOf
      <4>3. c \in ChangesOf(l, m + 1, n)
        BY <1>1, <1>3, <3>3, <4>2 DEF ChangesOf
      <4>4. PICK j \in sets : s[j].first <= c /\ c <= s[j].last
        BY <2>1, <4>3
      <4>5. j \in DOMAIN s /\ j <= k /\ j # k
        <5>1. j \in DOMAIN s
          BY <4>4
        <5>2. j <= k
          BY <3>2, <4>4
        <5>3. j # k
          BY <1>3, <3>3, <4>2, <4>4
        <5>4. QED BY <5>1, <5>2, <5>3
      <4>6. s[j].last < s[k].first
        BY <1>3, <1>4, <3>3, <4>5 DEF Ascending
      <4>7. QED BY <1>3, <3>3, <4>2, <4>4, <4>5, <4>6
    <3>5. BookAt(n)[l] = Max(ChangesOf(l, s[k].first, s[k].last))
      <4> HIDE DEF k
      <4>1. s[k].first \in Nat /\ s[k].last \in Nat /\ 1 <= s[k].first /\ s[k].last <= n
        BY <1>3, <3>3
      <4>2. ChangesOf(l, s[k].first, s[k].last) # {}
        BY <3>3
      <4>3. \A a, b \in Nat :
               (1 <= a /\ b <= n /\ ChangesOf(l, a, b) # {} /\ ChangesOf(l, b + 1, n) = {})
                  => BookAt(n)[l] = Max(ChangesOf(l, a, b))
        BY <1>1, LevelAtLater
      <4>4. QED BY <3>4, <4>1, <4>2, <4>3
    <3>6. QED BY <2>3, <3>5
  <2>4. QED BY <2>2, <2>3
<1>8. BookAt(n) = [l \in Levels |-> BookAt(n)[l]]
  BY DEF BookAt, ApplyUpdate
<1>9. Applied(BookAt(m), s, m) = BookAt(n)
  BY <1>6, <1>7, <1>8
<1>10. QED BY <1>9 DEF s, m, n

(* What is under way is appended at one end and taken at the other.        *)
LEMMA AppendedElements ==
    ASSUME NEW S, NEW s \in Seq(S), NEW e \in S
    PROVE  /\ Append(s, e) \in Seq(S) /\ Append(s, e) # <<>>
           /\ Len(s) \in Nat
           /\ Len(s) + 1 \in DOMAIN Append(s, e) /\ Append(s, e)[Len(s) + 1] = e
           /\ \A k \in DOMAIN s : /\ k \in DOMAIN Append(s, e) /\ Append(s, e)[k] = s[k]
                                  /\ k \in Nat /\ k <= Len(s)
           /\ \A k \in DOMAIN Append(s, e) : k \in DOMAIN s \/ k = Len(s) + 1
           /\ Head(Append(s, e)) = IF s = <<>> THEN e ELSE Head(s)
<1>1. Append(s, e) \in Seq(S) /\ Append(s, e) # <<>>
  BY Appended
<1>2. Len(s) \in Nat /\ DOMAIN s = 1 .. Len(s)
  BY LenProperties
<1>3. /\ Len(Append(s, e)) = Len(s) + 1
      /\ \A i \in 1 .. Len(s) : Append(s, e)[i] = s[i]
      /\ Append(s, e)[Len(s) + 1] = e
  BY AppendProperties
<1>4. DOMAIN Append(s, e) = 1 .. Len(s) + 1
  BY <1>1, <1>3, LenProperties
<1>5. \A k : k \in 1 .. Len(s) + 1 <=> k \in 1 .. Len(s) \/ k = Len(s) + 1
  BY <1>2
<1>6. Head(Append(s, e)) = Append(s, e)[1]
  BY <1>1, HeadTailProperties
<1>7. CASE s = <<>>
  <2>1. Len(s) = 0
    BY <1>7, EmptySeq
  <2>2. Append(s, e)[1] = e
    <3>1. Len(s) + 1 = 1
      BY <2>1
    <3>2. QED BY <1>3, <3>1
  <2>3. QED BY <1>1, <1>2, <1>3, <1>4, <1>5, <1>6, <1>7, <2>2
<1>8. CASE s # <<>>
  <2>1. Head(s) = s[1] /\ 1 \in 1 .. Len(s)
    <3>1. Len(s) # 0
      BY <1>8, EmptySeq
    <3>2. QED BY <1>2, <1>8, <3>1, HeadTailProperties
  <2>2. QED BY <1>1, <1>2, <1>3, <1>4, <1>5, <1>6, <1>8, <2>1
<1>9. QED BY <1>7, <1>8

LEMMA TailElements ==
    ASSUME NEW S, NEW s \in Seq(S), s # <<>>
    PROVE  /\ Tail(s) \in Seq(S) /\ Head(s) \in S /\ Head(s) = s[1] /\ 1 \in DOMAIN s
           /\ \A k \in DOMAIN s : k \in Nat
           /\ \A k \in DOMAIN Tail(s) :
                 k \in Nat /\ 1 <= k /\ k + 1 \in DOMAIN s /\ Tail(s)[k] = s[k + 1]
<1>1. /\ Tail(s) \in Seq(S) /\ Head(s) \in S /\ Head(s) = s[1]
      /\ Len(Tail(s)) = Len(s) - 1 /\ \A i \in 1 .. Len(Tail(s)) : Tail(s)[i] = s[i + 1]
  BY HeadTailProperties
<1>2. Len(s) \in Nat /\ DOMAIN s = 1 .. Len(s) /\ Len(s) # 0
  BY LenProperties, EmptySeq
<1>3. DOMAIN Tail(s) = 1 .. Len(Tail(s))
  BY <1>1, LenProperties
<1>4. \A k \in 1 .. Len(s) - 1 : k \in Nat /\ 1 <= k /\ k + 1 \in 1 .. Len(s)
  BY <1>2
<1>5. 1 \in 1 .. Len(s) /\ \A k \in 1 .. Len(s) : k \in Nat
  BY <1>2
<1>6. QED BY <1>1, <1>2, <1>3, <1>4, <1>5

LEMMA AscendingAppended ==
    ASSUME NEW s \in Seq([first : Nat, last : Nat]), Ascending(s),
           NEW u \in [first : Nat, last : Nat], \A k \in DOMAIN s : s[k].last < u.first
    PROVE  Ascending(Append(s, u))
<1> DEFINE t == Append(s, u)
<1>1. /\ Len(s) \in Nat /\ t[Len(s) + 1] = u
      /\ \A k \in DOMAIN s : t[k] = s[k] /\ k \in Nat /\ k <= Len(s)
      /\ \A k \in DOMAIN t : k \in DOMAIN s \/ k = Len(s) + 1
  BY AppendedElements
<1> HIDE DEF t
<1>2. ASSUME NEW i \in DOMAIN t, NEW j \in DOMAIN t, i < j PROVE t[i].last < t[j].first
  <2>1. CASE i \in DOMAIN s /\ j \in DOMAIN s
    BY <1>1, <1>2, <2>1 DEF Ascending
  <2>2. CASE i \in DOMAIN s /\ j = Len(s) + 1
    BY <1>1, <2>2
  <2>3. CASE i = Len(s) + 1
    <3>1. j <= Len(s) + 1 /\ j \in Nat
      BY <1>1
    <3>2. QED BY <1>1, <1>2, <2>3, <3>1
  <2>4. QED BY <1>1, <2>1, <2>2, <2>3
<1>3. QED BY <1>2 DEF Ascending, t

LEMMA AscendingTail ==
    ASSUME NEW s \in Seq([first : Nat, last : Nat]), Ascending(s), s # <<>>
    PROVE  Ascending(Tail(s)) /\ \A k \in DOMAIN Tail(s) : Head(s).last < Tail(s)[k].first
<1>1. /\ Head(s) = s[1] /\ 1 \in DOMAIN s
      /\ \A k \in DOMAIN Tail(s) :
            k \in Nat /\ 1 <= k /\ k + 1 \in DOMAIN s /\ Tail(s)[k] = s[k + 1]
  BY TailElements
<1>2. \A k \in Nat : 1 <= k => 1 < k + 1
  OBVIOUS
<1>3. \A i, j \in Nat : i < j => i + 1 < j + 1
  OBVIOUS
<1>4. QED BY <1>1, <1>2, <1>3 DEF Ascending

(* An update that follows the buffered ones is buffered with them.         *)
LEMMA BufferedGrows ==
    ASSUME NEW q \in Sequencer, NEW p \in Nat, Buffered(q, p),
           NEW u \in [first : Nat, last : Nat], p < u.first, u.first <= u.last,
           q.last_sequence < u.first, ~Broken(q, u.first - 1),
           NEW r \in Sequencer, r.updates = Append(q.updates, u), r.last_sequence = u.last
    PROVE  Buffered(r, p)
<1> DEFINE s == q.updates
           t == Append(s, u)
<1>1. s \in Seq([first : Nat, last : Nat]) /\ q.last_sequence \in Nat
  BY DEF Sequencer
<1>2. /\ t # <<>> /\ Len(s) \in Nat
      /\ Len(s) + 1 \in DOMAIN t /\ t[Len(s) + 1] = u
      /\ \A k \in DOMAIN s : k \in DOMAIN t /\ t[k] = s[k] /\ k \in Nat /\ k <= Len(s)
      /\ \A k \in DOMAIN t : k \in DOMAIN s \/ k = Len(s) + 1
      /\ Head(t) = IF s = <<>> THEN u ELSE Head(s)
  <2> HIDE DEF s
  <2>1. QED BY <1>1, AppendedElements
<1>3. \A k \in DOMAIN s : s[k].first \in Nat /\ s[k].last \in Nat
  BY <1>1, UpdateFields
<1>4. s = <<>> => DOMAIN s = {}
  OBVIOUS
<1>5. s # <<>> => /\ \A k \in DOMAIN s : p < s[k].first /\ s[k].first <= s[k].last
                                         /\ s[k].last <= q.last_sequence
                  /\ Ascending(s) /\ Covers(s, q.last_sequence)
                  /\ Head(s) = s[1] /\ 1 \in DOMAIN s
  BY <1>1, UpdateFields DEF Buffered
<1>6. s # <<>> => u.first = q.last_sequence + 1
  <2> HIDE DEF s
  <2>1. ASSUME s # <<>> PROVE q.last_sequence # 0
    <3>1. s[1].first \in Nat /\ s[1].last \in Nat
      BY <1>3, <1>5, <2>1
    <3>2. p < s[1].first /\ s[1].first <= s[1].last /\ s[1].last <= q.last_sequence
      BY <1>5, <2>1
    <3>3. QED BY <1>1, <3>1, <3>2
  <2>2. QED BY <1>1, <2>1 DEF Broken
<1> HIDE DEF s, t
<1>7. \A k \in DOMAIN s : p < s[k].first /\ s[k].first <= s[k].last /\ s[k].last < u.first
  BY <1>1, <1>3, <1>4, <1>5
<1>8. \A k \in DOMAIN t : p < t[k].first /\ t[k].first <= t[k].last /\ t[k].last <= u.last
  <2>1. ASSUME NEW k \in DOMAIN s
        PROVE  p < t[k].first /\ t[k].first <= t[k].last /\ t[k].last <= u.last
    <3>1. t[k] = s[k] /\ s[k].last \in Nat
      BY <1>2, <1>3, <2>1
    <3>2. s[k].last <= u.last
      BY <1>7, <2>1, <3>1
    <3>3. QED BY <1>7, <2>1, <3>1, <3>2
  <2>2. QED BY <1>2, <2>1
<1>9. Ascending(t)
  <2>1. Ascending(s)
    <3>1. s = <<>> => Ascending(s)
      BY <1>4 DEF Ascending
    <3>2. QED BY <1>5, <3>1
  <2>2. QED BY <1>1, <1>7, <2>1, AscendingAppended DEF s, t
<1>10. Covers(t, u.last)
  <2>1. SUFFICES ASSUME NEW c \in Head(t).first .. u.last
                 PROVE  \E k \in DOMAIN t : t[k].first <= c /\ c <= t[k].last
    BY DEF Covers
  <2>2. CASE u.first <= c
    BY <1>2, <2>1, <2>2
  <2>3. CASE c < u.first
    <3>1. Head(t).first \in Nat
      <4>1. CASE s = <<>>
        BY <1>2, <4>1
      <4>2. CASE s # <<>>
        BY <1>2, <1>3, <1>5, <4>2
      <4>3. QED BY <4>1, <4>2
    <3>2. s # <<>>
      BY <1>2, <2>1, <2>3, <3>1
    <3>3. c \in Head(s).first .. q.last_sequence
      <4>1. Head(t) = Head(s) /\ u.first = q.last_sequence + 1
        BY <1>2, <1>6, <3>2
      <4>2. QED BY <1>1, <2>1, <2>3, <3>1, <4>1
    <3>4. PICK k \in DOMAIN s : s[k].first <= c /\ c <= s[k].last
      BY <1>5, <3>2, <3>3 DEF Covers
    <3>5. QED BY <1>2, <3>4
  <2>4. c \in Int
    BY <2>1
  <2>5. QED BY <2>2, <2>3, <2>4
<1>11. r.updates = t /\ r.last_sequence = u.last
  BY DEF t, s
<1>12. QED BY <1>2, <1>8, <1>9, <1>10, <1>11 DEF Buffered

-----------------------------------------------------------------------------
(* The inductive invariant: the book that was published is the true one,   *)
(* and every update still under way is newer than all that was used.       *)

TrueBook == published.book = BookAt(published.sequence) /\ published.sequence <= sent

FeedAhead ==
    /\ sent <= exchange /\ sequencer.last_sequence <= sent
    /\ \A k \in DOMAIN feed :
          /\ published.sequence < feed[k].first /\ sequencer.last_sequence < feed[k].first
          /\ feed[k].first <= feed[k].last /\ feed[k].last <= sent
    /\ Ascending(feed)

SnapshotsKnown ==
    /\ sequencer.snapshot <= exchange
    /\ \A i \in DOMAIN answers : 1 <= answers[i] /\ answers[i] <= exchange

SequencerKnown ==
    IF sequencer.live
    THEN sequencer.last_sequence = published.sequence /\ published.sequence # 0
    ELSE Buffered(sequencer, published.sequence)

FeedInv == TypeOK /\ TrueBook /\ FeedAhead /\ SnapshotsKnown /\ SequencerKnown

FeedStep == [FeedNext]_<<exchange, published>>

LEMMA InitFeed == Init => FeedInv /\ FeedInit
<1> SUFFICES ASSUME Init PROVE FeedInv /\ FeedInit
  OBVIOUS
<1>1. FeedInit /\ published = [sequence |-> 0, book |-> EmptyBook] /\ exchange = 1
  BY DEF Init, FeedInit
<1>2. BookAt(0) = EmptyBook /\ EmptyBook \in [Levels -> Nat]
  <2>1. \A l : ChangesOf(l, 1, 0) = {}
    BY DEF ChangesOf
  <2>2. QED BY <2>1 DEF BookAt, ApplyUpdate, EmptyBook
<1>3. sequencer = [live |-> FALSE, last_sequence |-> 0, updates |-> <<>>,
                   snapshot |-> 0, retries |-> 0]
  BY DEF Init, NewSequencer
<1>4. sequencer \in Sequencer
  BY <1>3 DEF Sequencer
<1>5. TypeOK
  <2>1. exchange \in 1 .. MaxChanges
    BY <1>1, BookFeedAssumption
  <2>2. published \in [sequence : Nat, book : [Levels -> Nat]]
    BY <1>1, <1>2
  <2>3. /\ streams \in 0 .. MaxConnects /\ rests \in 0 .. MaxConnects
        /\ failed \in 0 .. MaxErrors /\ refused \in 0 .. MaxRefusals
    BY OrderBookAssumption DEF Init
  <2>4. feed \in Seq([first : Nat, last : Nat]) /\ answers \in Seq(Nat)
    BY DEF Init
  <2>5. /\ stream = "DISCONNECTED" /\ rest = "DISCONNECTED" /\ fatal = FALSE
        /\ since = 0 /\ sent = 0 /\ queue = 0 /\ requests = 0
    BY DEF Init
  <2>6. QED BY <1>4, <2>1, <2>2, <2>3, <2>4, <2>5 DEF TypeOK
<1>6. TrueBook /\ FeedAhead /\ SnapshotsKnown
  BY <1>1, <1>2, <1>3 DEF Init, TrueBook, FeedAhead, SnapshotsKnown, Ascending
<1>7. SequencerKnown
  BY <1>3 DEF SequencerKnown, Buffered
<1>8. QED BY <1>1, <1>5, <1>6, <1>7 DEF FeedInv

(* What the sequencer publishes when a snapshot fits is the book of the    *)
(* last update, which is newer than the book before it.                    *)
LEMMA JoinPublishes ==
    ASSUME queue \in Nat, fatal \in BOOLEAN, NEW p \in Nat, published.sequence = p,
           NEW q \in Sequencer, ~q.live, Buffered(q, p), NEW first \in BOOLEAN, Join(q, first)
    PROVE  /\ queue' \in Nat /\ fatal' \in BOOLEAN
           /\ sequencer' \in Sequencer /\ sequencer'.last_sequence = q.last_sequence
           /\ sequencer'.snapshot \in {0, q.snapshot}
           /\ SequencerKnown'
           /\ \/ published' = published
              \/ /\ published' = [sequence |-> q.last_sequence, book |-> BookAt(q.last_sequence)]
                 /\ p < q.last_sequence
<1>1. CASE /\ Fits(q)
           /\ sequencer' = [NewSequencer EXCEPT !.live = TRUE, !.last_sequence = q.last_sequence]
           /\ PublishSnapshot(q)
           /\ UNCHANGED <<queue, fatal>>
  <2>1. sequencer' = [live |-> TRUE, last_sequence |-> q.last_sequence,
                       updates |-> <<>>, snapshot |-> 0, retries |-> 0]
    BY <1>1 DEF NewSequencer
  <2>2. q.last_sequence \in Nat /\ q.updates \in Seq([first : Nat, last : Nat])
    BY DEF Sequencer
  <2>3. /\ sequencer' \in Sequencer /\ sequencer'.last_sequence = q.last_sequence
        /\ sequencer'.live /\ sequencer'.snapshot = 0
    BY <2>1, <2>2 DEF Sequencer
  <2>4. published' = [sequence |-> q.last_sequence, book |-> BookAt(q.last_sequence)]
    BY <1>1, AppliedMakesBook DEF PublishSnapshot
  <2>5. p < q.last_sequence
    <3>1. q.updates # <<>>
      BY <1>1 DEF Fits
    <3>2. /\ 1 \in DOMAIN q.updates
          /\ q.updates[1].first \in Nat /\ q.updates[1].last \in Nat
      BY <2>2, <3>1, UpdateFields
    <3>3. /\ p < q.updates[1].first /\ q.updates[1].first <= q.updates[1].last
          /\ q.updates[1].last <= q.last_sequence
      BY <3>1, <3>2 DEF Buffered
    <3>4. QED BY <2>2, <3>2, <3>3
  <2>6. SequencerKnown'
    <3>1. published'.sequence = q.last_sequence
      BY <2>4
    <3>2. published'.sequence # 0
      BY <2>2, <2>5, <3>1
    <3>3. QED BY <2>3, <3>1, <3>2 DEF SequencerKnown
  <2>7. QED BY <1>1, <2>3, <2>4, <2>5, <2>6
<1>2. CASE /\ TooOld(q)
           /\ sequencer' = [q EXCEPT !.snapshot = 0, !.retries = @ + 1]
           /\ RequestSnapshot(q.retries + 1)
           /\ UNCHANGED published
  <2>1. q.retries + 1 \in Nat
    BY DEF Sequencer
  <2>2. queue' \in Nat /\ fatal' \in BOOLEAN
    BY <1>2, <2>1, RequestQueued DEF RequestSnapshot
  <2>3. /\ sequencer' \in Sequencer /\ sequencer'.last_sequence = q.last_sequence
        /\ sequencer'.updates = q.updates /\ ~sequencer'.live /\ sequencer'.snapshot = 0
    BY <1>2, <2>1 DEF Sequencer
  <2>4. Buffered(sequencer', p)
    BY <2>3 DEF Buffered
  <2>5. QED BY <1>2, <2>2, <2>3, <2>4 DEF SequencerKnown
<1>3. CASE /\ ~Fits(q) /\ ~TooOld(q)
           /\ sequencer' = q
           /\ IF first /\ q.snapshot = 0
              THEN RequestSnapshot(0) ELSE UNCHANGED <<queue, fatal>>
           /\ UNCHANGED published
  <2>1. queue' \in Nat /\ fatal' \in BOOLEAN
    BY <1>3, RequestQueued DEF RequestSnapshot
  <2>2. QED BY <1>3, <2>1 DEF SequencerKnown
<1>4. QED BY <1>1, <1>2, <1>3 DEF Join

(* The number of a change.                                                 *)
LEMMA Numbers ==
    ASSUME FeedInv
    PROVE  /\ exchange \in Nat /\ sent \in Nat /\ published.sequence \in Nat
           /\ published.sequence <= sent /\ sent <= exchange
           /\ sequencer \in Sequencer /\ sequencer.last_sequence \in Nat
           /\ sequencer.snapshot \in Nat /\ sequencer.updates \in Seq([first : Nat, last : Nat])
<1>1. exchange \in Nat /\ sent \in Nat /\ published.sequence \in Nat
  BY BookFeedAssumption DEF FeedInv, TypeOK
<1>2. sequencer \in Sequencer
  BY DEF FeedInv, TypeOK
<1>3. QED BY <1>1, <1>2 DEF FeedInv, TrueBook, FeedAhead, Sequencer

(* The book that is published is a later book of the exchange.             *)
LEMMA PublishStep ==
    ASSUME FeedInv, UNCHANGED exchange,
           \/ published' = published
           \/ \E n \in Nat : /\ published' = [sequence |-> n, book |-> BookAt(n)]
                             /\ published.sequence < n /\ n <= exchange
    PROVE  FeedStep
<1>1. CASE published' = published
  BY <1>1 DEF FeedStep
<1>2. ASSUME NEW n \in Nat, published' = [sequence |-> n, book |-> BookAt(n)],
             published.sequence < n, n <= exchange
      PROVE  Publish
  <2>1. n \in (published.sequence + 1) .. exchange
    BY <1>2, Numbers
  <2>2. QED BY <1>2, <2>1 DEF Publish
<1>3. QED BY <1>1, <1>2 DEF FeedStep, FeedNext

(* The feed without its head is newer still.                               *)
LEMMA FeedTail ==
    ASSUME FeedInv, feed # <<>>
    PROVE  LET u == Head(feed) IN
           /\ u \in [first : Nat, last : Nat] /\ Tail(feed) \in Seq([first : Nat, last : Nat])
           /\ published.sequence < u.first /\ sequencer.last_sequence < u.first
           /\ u.first <= u.last /\ u.last <= sent
           /\ Ascending(Tail(feed))
           /\ \A k \in DOMAIN Tail(feed) :
                 LET v == Tail(feed)[k] IN
                 /\ v.first \in Nat /\ v.last \in Nat
                 /\ published.sequence < v.first /\ sequencer.last_sequence < v.first
                 /\ u.last < v.first /\ v.first <= v.last /\ v.last <= sent
<1>1. /\ feed \in Seq([first : Nat, last : Nat]) /\ Ascending(feed)
      /\ \A k \in DOMAIN feed :
          /\ published.sequence < feed[k].first /\ sequencer.last_sequence < feed[k].first
          /\ feed[k].first <= feed[k].last /\ feed[k].last <= sent
  BY DEF FeedInv, TypeOK, FeedAhead
<1>2. /\ Tail(feed) \in Seq([first : Nat, last : Nat])
      /\ Head(feed) \in [first : Nat, last : Nat] /\ Head(feed) = feed[1] /\ 1 \in DOMAIN feed
      /\ \A k \in DOMAIN Tail(feed) : k + 1 \in DOMAIN feed /\ Tail(feed)[k] = feed[k + 1]
  BY <1>1, TailElements
<1>3. \A k \in DOMAIN Tail(feed) : Tail(feed)[k].first \in Nat /\ Tail(feed)[k].last \in Nat
  BY <1>2, UpdateFields
<1>4. Ascending(Tail(feed)) /\ \A k \in DOMAIN Tail(feed) : Head(feed).last < Tail(feed)[k].first
  BY <1>1, AscendingTail
<1>5. \A k \in DOMAIN Tail(feed) :
          /\ published.sequence < Tail(feed)[k].first
          /\ sequencer.last_sequence < Tail(feed)[k].first
          /\ Tail(feed)[k].first <= Tail(feed)[k].last /\ Tail(feed)[k].last <= sent
  BY <1>1, <1>2
<1>6. QED BY <1>1, <1>2, <1>3, <1>4, <1>5

(* The sequencer after an update or a snapshot: what it publishes and      *)
(* keeps is newer than what it had, and older than what is under way.      *)
Follows(top) ==
    /\ queue' \in Nat /\ fatal' \in BOOLEAN
    /\ sequencer' \in Sequencer /\ sequencer'.last_sequence \in {0, top}
    /\ sequencer'.snapshot <= exchange
    /\ SequencerKnown'
    /\ \/ published' = published
       \/ /\ published' = [sequence |-> top, book |-> BookAt(top)]
          /\ published.sequence < top

LEMMA OrderBookUpdateFeed ==
    ASSUME FeedInv, OrderBookUpdate
    PROVE  Follows(Head(feed).last)
<1> DEFINE u == Head(feed)
           q == [sequencer EXCEPT !.last_sequence = u.last]
           r == [q EXCEPT !.updates = Append(@, u)]
<1>1. /\ u \in [first : Nat, last : Nat]
      /\ published.sequence < u.first /\ sequencer.last_sequence < u.first
      /\ u.first <= u.last /\ u.last <= sent
  BY FeedTail DEF OrderBookUpdate
<1>2. /\ exchange \in Nat /\ sent \in Nat /\ published.sequence \in Nat
      /\ sequencer \in Sequencer /\ sequencer.last_sequence \in Nat
      /\ sequencer.snapshot \in Nat /\ sequencer.snapshot <= exchange
      /\ sequencer.updates \in Seq([first : Nat, last : Nat])
  BY Numbers DEF FeedInv, SnapshotsKnown
<1>3. u.first \in Nat /\ u.last \in Nat
  BY <1>1
<1>4. queue \in Nat /\ fatal \in BOOLEAN
  BY DEF FeedInv, TypeOK
<1>5. CASE BadState
  <2>1. sequencer' = [live |-> FALSE, last_sequence |-> 0, updates |-> <<>>,
                       snapshot |-> 0, retries |-> 0]
    BY <1>5 DEF BadState, NewSequencer
  <2>2. sequencer' \in Sequencer
    BY <2>1 DEF Sequencer
  <2>3. SequencerKnown'
    BY <2>1 DEF SequencerKnown, Buffered
  <2>4. queue' \in Nat /\ fatal' \in BOOLEAN /\ published' = published
    BY <1>4, <1>5 DEF BadState
  <2>5. sequencer'.last_sequence = 0 /\ sequencer'.snapshot <= exchange
    BY <1>2, <2>1
  <2>6. QED BY <2>2, <2>3, <2>4, <2>5 DEF Follows
<1>6. CASE /\ ~Broken(sequencer, u.first - 1) /\ sequencer.live
           /\ sequencer' = q
           /\ PublishUpdate(u)
           /\ UNCHANGED <<queue, fatal>>
  <2>1. sequencer.last_sequence = published.sequence /\ published.sequence # 0
    BY <1>6 DEF FeedInv, SequencerKnown
  <2>2. u.first = published.sequence + 1
    BY <1>2, <1>3, <1>6, <2>1 DEF Broken
  <2>3. /\ sequencer' \in Sequencer /\ sequencer'.last_sequence = u.last
        /\ sequencer'.live /\ sequencer'.snapshot = sequencer.snapshot
    BY <1>2, <1>3, <1>6 DEF Sequencer
  <2>4. published' = [sequence |-> u.last, book |-> BookAt(u.last)]
    <3>1. published.book = BookAt(published.sequence)
      BY DEF FeedInv, TrueBook
    <3>2. published.sequence + 1 <= u.last
      BY <1>1, <2>2
    <3>3. \A a, b \in Nat : a + 1 <= b => ApplyUpdate(BookAt(a), a + 1, b) = BookAt(b)
      BY UpdateMakesBook
    <3>4. ApplyUpdate(published.book, u.first, u.last) = BookAt(u.last)
      BY <1>2, <1>3, <2>2, <3>1, <3>2, <3>3
    <3>5. QED BY <1>6, <3>4 DEF PublishUpdate
  <2>5. published.sequence < u.last
    BY <1>1, <1>2, <1>3
  <2>6. SequencerKnown'
    <3>1. published'.sequence = u.last /\ u.last # 0
      BY <1>2, <1>3, <2>4, <2>5
    <3>2. QED BY <2>3, <3>1 DEF SequencerKnown
  <2>7. QED BY <1>2, <1>4, <1>6, <2>3, <2>4, <2>5, <2>6 DEF Follows
<1>7. CASE /\ ~Broken(sequencer, u.first - 1) /\ ~sequencer.live
           /\ Join(r, q.updates = <<>>)
  <2>1. Append(sequencer.updates, u) \in Seq([first : Nat, last : Nat])
    BY <1>1, <1>2, AppendedElements
  <2>2. /\ r \in Sequencer /\ ~r.live /\ r.last_sequence = u.last
        /\ r.updates = Append(sequencer.updates, u) /\ r.snapshot = sequencer.snapshot
    BY <1>2, <1>3, <1>7, <2>1 DEF Sequencer
  <2>3. Buffered(sequencer, published.sequence)
    BY <1>7 DEF FeedInv, SequencerKnown
  <2> DEFINE first == q.updates = <<>>
  <2>4. first \in BOOLEAN /\ Join(r, first)
    BY <1>7
  <2> HIDE DEF first, u, q, r
  <2>5. Buffered(r, published.sequence)
    BY <1>1, <1>2, <1>7, <2>2, <2>3, BufferedGrows
  <2>6. /\ queue' \in Nat /\ fatal' \in BOOLEAN
        /\ sequencer' \in Sequencer /\ sequencer'.last_sequence = r.last_sequence
        /\ sequencer'.snapshot \in {0, r.snapshot}
        /\ SequencerKnown'
        /\ \/ published' = published
           \/ /\ published' = [sequence |-> r.last_sequence, book |-> BookAt(r.last_sequence)]
              /\ published.sequence < r.last_sequence
    BY <1>2, <1>4, <2>2, <2>4, <2>5, JoinPublishes
  <2>7. sequencer'.snapshot <= exchange
    BY <1>2, <2>2, <2>6
  <2>8. QED BY <2>2, <2>6, <2>7 DEF Follows, u
<1>8. QED BY <1>5, <1>6, <1>7 DEF OrderBookUpdate

(* The snapshots under way after the head are known.                       *)
LEMMA AnswersTail ==
    ASSUME FeedInv, answers # <<>>
    PROVE  /\ Head(answers) \in Nat /\ Head(answers) <= exchange
           /\ Tail(answers) \in Seq(Nat)
           /\ \A i \in DOMAIN Tail(answers) : 1 <= Tail(answers)[i] /\ Tail(answers)[i] <= exchange
<1>1. answers \in Seq(Nat) /\ \A i \in DOMAIN answers : 1 <= answers[i] /\ answers[i] <= exchange
  BY DEF FeedInv, TypeOK, SnapshotsKnown
<1>2. /\ Tail(answers) \in Seq(Nat) /\ Head(answers) \in Nat
      /\ Head(answers) = answers[1] /\ 1 \in DOMAIN answers
      /\ \A k \in DOMAIN Tail(answers) :
            k + 1 \in DOMAIN answers /\ Tail(answers)[k] = answers[k + 1]
  BY <1>1, TailElements
<1>3. QED BY <1>1, <1>2

LEMMA OrderBookAckFeed ==
    ASSUME FeedInv, OrderBookAck, ~sequencer.live
    PROVE  Follows(sequencer.last_sequence)
<1> DEFINE q == [sequencer EXCEPT !.snapshot = Head(answers)]
<1>1. Head(answers) \in Nat /\ Head(answers) <= exchange
  BY AnswersTail DEF OrderBookAck
<1>2. /\ q \in Sequencer /\ ~q.live /\ q.last_sequence = sequencer.last_sequence
      /\ q.updates = sequencer.updates /\ q.snapshot = Head(answers)
  BY <1>1, Numbers DEF Sequencer
<1>3. Join(q, FALSE)
  BY DEF OrderBookAck
<1>4. Buffered(sequencer, published.sequence)
  BY DEF FeedInv, SequencerKnown
<1>5. queue \in Nat /\ fatal \in BOOLEAN /\ published.sequence \in Nat /\ exchange \in Nat
  BY Numbers DEF FeedInv, TypeOK
<1> HIDE DEF q
<1>6. Buffered(q, published.sequence)
  BY <1>2, <1>4 DEF Buffered
<1>7. /\ queue' \in Nat /\ fatal' \in BOOLEAN
      /\ sequencer' \in Sequencer /\ sequencer'.last_sequence = q.last_sequence
      /\ sequencer'.snapshot \in {0, q.snapshot}
      /\ SequencerKnown'
      /\ \/ published' = published
         \/ /\ published' = [sequence |-> q.last_sequence, book |-> BookAt(q.last_sequence)]
            /\ published.sequence < q.last_sequence
  BY <1>2, <1>3, <1>5, <1>6, JoinPublishes
<1>8. sequencer'.snapshot <= exchange
  BY <1>1, <1>2, <1>5, <1>7
<1>9. QED BY <1>2, <1>7, <1>8 DEF Follows

(* What the handlers of updates and snapshots do keeps the invariant.      *)
LEMMA HandledFeed ==
    ASSUME FeedInv, NEW top \in Nat, Follows(top), UNCHANGED <<exchange, sent>>,
           top <= sent,
           \A k \in DOMAIN feed' :
              /\ feed'[k].first \in Nat
              /\ published.sequence < feed'[k].first /\ top < feed'[k].first
              /\ feed'[k].first <= feed'[k].last /\ feed'[k].last <= sent,
           Ascending(feed'),
           \A i \in DOMAIN answers' : 1 <= answers'[i] /\ answers'[i] <= exchange
    PROVE  /\ FeedStep
           /\ TrueBook' /\ FeedAhead' /\ SnapshotsKnown' /\ SequencerKnown'
           /\ published' \in [sequence : Nat, book : [Levels -> Nat]]
<1>1. /\ exchange \in Nat /\ sent \in Nat /\ published.sequence \in Nat
      /\ published.sequence <= sent /\ sent <= exchange
  BY Numbers
<1>2. FeedStep
  <2>1. top <= exchange
    BY <1>1
  <2>2. QED BY <2>1, PublishStep DEF Follows
<1>3. published' = published
      \/ published' = [sequence |-> top, book |-> BookAt(top)]
  BY DEF Follows
<1>4. /\ published' \in [sequence : Nat, book : [Levels -> Nat]]
      /\ published'.book = BookAt(published'.sequence)
      /\ published'.sequence \in {published.sequence, top}
  <2>1. CASE published' = published
    BY <2>1 DEF FeedInv, TypeOK, TrueBook
  <2>2. CASE published' = [sequence |-> top, book |-> BookAt(top)]
    <3>1. BookAt(top) \in [Levels -> Nat]
      BY BookType
    <3>2. QED BY <2>2, <3>1
  <2>3. QED BY <1>3, <2>1, <2>2
<1>5. TrueBook'
  BY <1>1, <1>4 DEF TrueBook
<1>6. FeedAhead'
  <2>1. sequencer'.last_sequence \in {0, top}
    BY DEF Follows
  <2>2. sequencer'.last_sequence <= sent
    BY <1>1, <2>1
  <2>3. \A k \in DOMAIN feed' : published'.sequence < feed'[k].first
    BY <1>4
  <2>4. \A k \in DOMAIN feed' : sequencer'.last_sequence < feed'[k].first
    <3>1. \A f \in Nat : top < f => 0 < f
      OBVIOUS
    <3>2. QED BY <2>1, <3>1
  <2>5. QED BY <1>1, <2>2, <2>3, <2>4 DEF FeedAhead
<1>7. SnapshotsKnown' /\ SequencerKnown'
  BY DEF Follows, SnapshotsKnown
<1>8. QED BY <1>2, <1>4, <1>5, <1>6, <1>7

LEMMA UpdateKeepsFeed ==
    ASSUME FeedInv, OrderBookUpdate
    PROVE  FeedInv' /\ FeedStep
<1> DEFINE top == Head(feed).last
<1>1. /\ feed' = Tail(feed) /\ feed # <<>>
      /\ UNCHANGED <<exchange, sent, stream, streams, since, restVars>>
  BY DEF OrderBookUpdate
<1>2. /\ Head(feed) \in [first : Nat, last : Nat]
      /\ Tail(feed) \in Seq([first : Nat, last : Nat]) /\ top <= sent
      /\ Ascending(Tail(feed))
      /\ \A k \in DOMAIN Tail(feed) :
            LET v == Tail(feed)[k] IN
            /\ v.first \in Nat
            /\ published.sequence < v.first
            /\ top < v.first /\ v.first <= v.last /\ v.last <= sent
  BY <1>1, FeedTail
<1>3. top \in Nat /\ Follows(top)
  BY <1>2, OrderBookUpdateFeed
<1>4. \A i \in DOMAIN answers' : 1 <= answers'[i] /\ answers'[i] <= exchange
  BY <1>1 DEF FeedInv, SnapshotsKnown, restVars
<1>5. \A k \in DOMAIN feed' :
              /\ feed'[k].first \in Nat
              /\ published.sequence < feed'[k].first /\ top < feed'[k].first
              /\ feed'[k].first <= feed'[k].last /\ feed'[k].last <= sent
  BY <1>1, <1>2
<1> HIDE DEF top
<1>6. /\ FeedStep
      /\ TrueBook' /\ FeedAhead' /\ SnapshotsKnown' /\ SequencerKnown'
      /\ published' \in [sequence : Nat, book : [Levels -> Nat]]
  BY <1>1, <1>2, <1>3, <1>4, <1>5, HandledFeed
<1>7. TypeOK'
  <2>1. queue' \in Nat /\ fatal' \in BOOLEAN /\ sequencer' \in Sequencer
    BY <1>3 DEF Follows
  <2>2. QED BY <1>1, <1>2, <1>6, <2>1 DEF FeedInv, TypeOK, restVars
<1>8. QED BY <1>6, <1>7 DEF FeedInv

LEMMA AckKeepsFeed ==
    ASSUME FeedInv, OrderBookAck
    PROVE  FeedInv' /\ FeedStep
<1>1. /\ answers' = Tail(answers) /\ answers # <<>>
      /\ UNCHANGED <<exchange, stream, streams, since, sent, feed,
                     rest, rests, requests, failed, refused>>
  BY DEF OrderBookAck, streamVars
<1>2. /\ Tail(answers) \in Seq(Nat)
      /\ \A i \in DOMAIN Tail(answers) : 1 <= Tail(answers)[i] /\ Tail(answers)[i] <= exchange
  BY <1>1, AnswersTail
<1>3. CASE sequencer.live
  <2>1. UNCHANGED <<published, queue, sequencer, fatal>>
    BY <1>3 DEF OrderBookAck, bookVars
  <2>2. TypeOK'
    BY <1>1, <1>2, <2>1 DEF FeedInv, TypeOK
  <2>3. TrueBook' /\ FeedAhead' /\ SnapshotsKnown' /\ SequencerKnown'
    BY <1>1, <1>2, <2>1 DEF FeedInv, TrueBook, FeedAhead, SnapshotsKnown, SequencerKnown
  <2>4. QED BY <1>1, <2>1, <2>2, <2>3 DEF FeedInv, FeedStep
<1>4. CASE ~sequencer.live
  <2> DEFINE top == sequencer.last_sequence
  <2>1. Follows(top) /\ top \in Nat /\ top <= sent
    BY <1>4, OrderBookAckFeed, Numbers DEF FeedInv, FeedAhead
  <2>2. feed' \in Seq([first : Nat, last : Nat])
    BY <1>1 DEF FeedInv, TypeOK
  <2>3. \A k \in DOMAIN feed' : feed'[k].first \in Nat
    BY <2>2, UpdateFields
  <2>4. /\ \A k \in DOMAIN feed' :
              /\ feed'[k].first \in Nat
              /\ published.sequence < feed'[k].first /\ top < feed'[k].first
              /\ feed'[k].first <= feed'[k].last /\ feed'[k].last <= sent
        /\ Ascending(feed')
    BY <1>1, <2>3 DEF FeedInv, FeedAhead
  <2>5. \A i \in DOMAIN answers' : 1 <= answers'[i] /\ answers'[i] <= exchange
    BY <1>1, <1>2
  <2> HIDE DEF top
  <2>6. /\ FeedStep
        /\ TrueBook' /\ FeedAhead' /\ SnapshotsKnown' /\ SequencerKnown'
        /\ published' \in [sequence : Nat, book : [Levels -> Nat]]
    BY <1>1, <2>1, <2>4, <2>5, HandledFeed
  <2>7. TypeOK'
    <3>1. queue' \in Nat /\ fatal' \in BOOLEAN /\ sequencer' \in Sequencer
      BY <2>1 DEF Follows
    <3>2. QED BY <1>1, <1>2, <2>2, <2>6, <3>1 DEF FeedInv, TypeOK
  <2>8. QED BY <2>6, <2>7 DEF FeedInv
<1>5. QED BY <1>3, <1>4

LEMMA RefusedKeepsFeed ==
    ASSUME FeedInv, OrderBookRefused
    PROVE  FeedInv' /\ FeedStep
<1>1. /\ answers' = Tail(answers) /\ answers # <<>> /\ queue' = queue + 1
      /\ refused < MaxRefusals /\ refused' = refused + 1
      /\ UNCHANGED <<exchange, stream, streams, since, sent, feed,
                     rest, rests, requests, failed, published, fatal>>
  BY DEF OrderBookRefused, streamVars, BadState
<1>2. /\ Tail(answers) \in Seq(Nat)
      /\ \A i \in DOMAIN Tail(answers) : 1 <= Tail(answers)[i] /\ Tail(answers)[i] <= exchange
  BY <1>1, AnswersTail
<1>3. sequencer' = [live |-> FALSE, last_sequence |-> 0, updates |-> <<>>,
                     snapshot |-> 0, retries |-> 0]
  BY DEF OrderBookRefused, BadState, NewSequencer
<1>4. sequencer' \in Sequencer
  BY <1>3 DEF Sequencer
<1>5. refused' \in 0 .. MaxRefusals
  BY <1>1, OrderBookAssumption DEF FeedInv, TypeOK
<1>6. queue' \in Nat
  BY <1>1 DEF FeedInv, TypeOK
<1>7. TypeOK'
  BY <1>1, <1>2, <1>4, <1>5, <1>6 DEF FeedInv, TypeOK
<1>8. SequencerKnown'
  BY <1>3 DEF SequencerKnown, Buffered
<1>9. TrueBook' /\ SnapshotsKnown'
  BY <1>1, <1>2, <1>3, Numbers DEF FeedInv, TrueBook, SnapshotsKnown
<1>10. FeedAhead'
  <2>1. \A k \in DOMAIN feed : 0 < feed[k].first
    <3>1. \A k \in DOMAIN feed : feed[k].first \in Nat
      BY UpdateFields DEF FeedInv, TypeOK
    <3>2. \A k \in DOMAIN feed : published.sequence < feed[k].first
      BY DEF FeedInv, FeedAhead
    <3>3. published.sequence \in Nat
      BY Numbers
    <3>4. QED BY <3>1, <3>2, <3>3
  <2>2. sequencer'.last_sequence = 0 /\ 0 <= sent
    BY <1>3, Numbers
  <2>3. QED BY <1>1, <2>1, <2>2 DEF FeedInv, FeedAhead
<1>11. QED BY <1>1, <1>7, <1>8, <1>9, <1>10 DEF FeedInv, FeedStep

LEMMA ExchangeUpdateKeepsFeed ==
    ASSUME FeedInv, ExchangeUpdate
    PROVE  FeedInv' /\ FeedStep
<1> DEFINE u == Update(sent + 1, exchange)
<1>1. /\ sent < exchange /\ feed' = Append(feed, u) /\ sent' = exchange
      /\ UNCHANGED <<exchange, stream, streams, since, rest, rests, requests, answers,
                     failed, refused, published, queue, sequencer, fatal>>
  BY DEF ExchangeUpdate, restVars, bookVars
<1>2. /\ exchange \in Nat /\ sent \in Nat /\ published.sequence \in Nat
      /\ published.sequence <= sent /\ sent <= exchange
      /\ sequencer.last_sequence \in Nat /\ sequencer.last_sequence <= sent
  BY Numbers DEF FeedInv, FeedAhead
<1>3. u \in [first : Nat, last : Nat] /\ u.first = sent + 1 /\ u.last = exchange
  BY <1>2
<1>4. /\ feed \in Seq([first : Nat, last : Nat]) /\ Ascending(feed)
      /\ \A k \in DOMAIN feed :
            /\ published.sequence < feed[k].first /\ sequencer.last_sequence < feed[k].first
            /\ feed[k].first <= feed[k].last /\ feed[k].last <= sent
  BY DEF FeedInv, TypeOK, FeedAhead
<1>5. \A k \in DOMAIN feed : feed[k].first \in Nat /\ feed[k].last \in Nat
  BY <1>4, UpdateFields
<1> HIDE DEF u
<1>6. /\ feed' \in Seq([first : Nat, last : Nat])
      /\ feed'[Len(feed) + 1] = u
      /\ \A k \in DOMAIN feed : feed'[k] = feed[k]
      /\ \A k \in DOMAIN feed' : k \in DOMAIN feed \/ k = Len(feed) + 1
  BY <1>1, <1>3, <1>4, AppendedElements
<1>7. Ascending(feed')
  <2>1. \A k \in DOMAIN feed : feed[k].last < u.first
    BY <1>2, <1>3, <1>4, <1>5
  <2>2. QED BY <1>1, <1>3, <1>4, <2>1, AscendingAppended
<1>8. \A k \in DOMAIN feed' :
          /\ published.sequence < feed'[k].first /\ sequencer.last_sequence < feed'[k].first
          /\ feed'[k].first <= feed'[k].last /\ feed'[k].last <= exchange
  <2>1. \A k \in DOMAIN feed : feed[k].last <= exchange
    BY <1>2, <1>4, <1>5
  <2>2. /\ published.sequence < u.first /\ sequencer.last_sequence < u.first
        /\ u.first <= u.last /\ u.last <= exchange
    BY <1>1, <1>2, <1>3
  <2>3. QED BY <1>4, <1>6, <2>1, <2>2
<1>9. published.sequence <= exchange /\ sequencer.last_sequence <= exchange
  BY <1>2
<1>10. FeedAhead'
  BY <1>1, <1>2, <1>7, <1>8, <1>9 DEF FeedAhead
<1>11. TrueBook' /\ SnapshotsKnown' /\ SequencerKnown'
  BY <1>1, <1>9 DEF FeedInv, TrueBook, SnapshotsKnown, SequencerKnown
<1>12. TypeOK'
  BY <1>1, <1>2, <1>6 DEF FeedInv, TypeOK
<1>13. QED BY <1>1, <1>10, <1>11, <1>12 DEF FeedInv, FeedStep

LEMMA ExchangeOrderBookKeepsFeed ==
    ASSUME FeedInv, ExchangeOrderBook
    PROVE  FeedInv' /\ FeedStep
<1>1. PICK n \in 1 .. exchange : answers' = Append(answers, n)
  BY DEF ExchangeOrderBook
<1>2. /\ requests > 0 /\ requests' = requests - 1
      /\ UNCHANGED <<exchange, stream, streams, since, sent, feed, rest, rests,
                     failed, refused, published, queue, sequencer, fatal>>
  BY DEF ExchangeOrderBook, streamVars, bookVars
<1>3. n \in Nat /\ 1 <= n /\ n <= exchange
  BY <1>1, Numbers
<1>4. answers \in Seq(Nat) /\ \A i \in DOMAIN answers : 1 <= answers[i] /\ answers[i] <= exchange
  BY DEF FeedInv, TypeOK, SnapshotsKnown
<1>5. /\ answers' \in Seq(Nat)
      /\ answers'[Len(answers) + 1] = n
      /\ \A k \in DOMAIN answers : answers'[k] = answers[k]
      /\ \A k \in DOMAIN answers' : k \in DOMAIN answers \/ k = Len(answers) + 1
  BY <1>1, <1>3, <1>4, AppendedElements
<1>6. \A i \in DOMAIN answers' : 1 <= answers'[i] /\ answers'[i] <= exchange
  BY <1>3, <1>4, <1>5
<1>7. requests' \in Nat
  BY <1>2 DEF FeedInv, TypeOK
<1>8. TypeOK'
  BY <1>2, <1>5, <1>7 DEF FeedInv, TypeOK
<1>9. TrueBook' /\ FeedAhead' /\ SnapshotsKnown' /\ SequencerKnown'
  BY <1>2, <1>6 DEF FeedInv, TrueBook, FeedAhead, SnapshotsKnown, SequencerKnown
<1>10. QED BY <1>2, <1>8, <1>9 DEF FeedInv, FeedStep

(* The steps that leave books, updates and snapshots as they are.          *)
LEMMA OthersKeepFeed ==
    ASSUME FeedInv, TypeOK',
           UNCHANGED <<exchange, published, sent, feed, sequencer>>,
           answers' = answers \/ answers' = <<>>
    PROVE  FeedInv' /\ FeedStep
BY DEF FeedInv, TrueBook, FeedAhead, SnapshotsKnown, SequencerKnown, FeedStep

LEMMA NextFeed == FeedInv /\ [Next]_vars => FeedInv' /\ FeedStep
<1> SUFFICES ASSUME FeedInv, [Next]_vars PROVE FeedInv' /\ FeedStep
  OBVIOUS
<1>1. CASE StreamReady
  <2>1. TypeOK'
    <3>1. streams' \in 0 .. MaxConnects
      BY <1>1, OrderBookAssumption DEF StreamReady, FeedInv, TypeOK
    <3>2. exchange \in Nat
      BY Numbers
    <3>3. QED BY <1>1, <3>1, <3>2 DEF StreamReady, FeedInv, TypeOK, restVars, bookVars
  <2>2. /\ sent' = exchange
        /\ UNCHANGED <<exchange, feed, published, sequencer, answers>>
    BY <1>1 DEF StreamReady, restVars, bookVars
  <2>3. /\ exchange \in Nat /\ sent \in Nat /\ published.sequence \in Nat
        /\ published.sequence <= sent /\ sent <= exchange
        /\ sequencer.last_sequence \in Nat /\ sequencer.last_sequence <= sent
    BY Numbers DEF FeedInv, FeedAhead
  <2>4. published.sequence <= exchange /\ sequencer.last_sequence <= exchange
    BY <2>3
  <2>5. \A k \in DOMAIN feed : feed[k].last <= exchange
    <3>1. \A k \in DOMAIN feed : feed[k].last \in Nat
      BY UpdateFields DEF FeedInv, TypeOK
    <3>2. \A k \in DOMAIN feed : feed[k].last <= sent
      BY DEF FeedInv, FeedAhead
    <3>3. QED BY <2>3, <3>1, <3>2
  <2>6. FeedAhead'
    <3>1. exchange <= exchange
      BY <2>3
    <3>2. QED BY <2>2, <2>4, <2>5, <3>1 DEF FeedInv, FeedAhead
  <2>7. TrueBook' /\ SnapshotsKnown' /\ SequencerKnown'
    BY <2>2, <2>4 DEF FeedInv, TrueBook, SnapshotsKnown, SequencerKnown
  <2>8. QED BY <2>1, <2>2, <2>6, <2>7 DEF FeedInv, FeedStep
<1>2. CASE StreamDisconnected
  <2>1. /\ feed' = <<>> /\ stream' = "DISCONNECTED"
        /\ UNCHANGED <<exchange, streams, since, sent, rest, rests, requests, answers,
                       failed, refused, published, queue, sequencer, fatal>>
    BY <1>2 DEF StreamDisconnected, restVars, bookVars
  <2>2. TypeOK'
    BY <2>1 DEF FeedInv, TypeOK
  <2>3. TrueBook' /\ FeedAhead' /\ SnapshotsKnown' /\ SequencerKnown'
    BY <2>1 DEF FeedInv, TrueBook, FeedAhead, SnapshotsKnown, SequencerKnown, Ascending
  <2>4. QED BY <2>1, <2>2, <2>3 DEF FeedInv, FeedStep
<1>3. CASE OrderBookUpdate
  BY <1>3, UpdateKeepsFeed
<1>4. CASE RestReady
  <2>1. rests' \in 0 .. MaxConnects
    BY <1>4, OrderBookAssumption DEF RestReady, FeedInv, TypeOK
  <2>2. TypeOK'
    BY <1>4, <2>1 DEF RestReady, FeedInv, TypeOK, streamVars, bookVars
  <2>3. UNCHANGED <<exchange, published, sent, feed, sequencer, answers>>
    BY <1>4 DEF RestReady, streamVars, bookVars
  <2>4. QED BY <2>2, <2>3, OthersKeepFeed
<1>5. CASE RestDisconnected
  <2>1. failed' \in 0 .. MaxErrors
    <3>1. Len(answers) \in Nat /\ failed \in Nat /\ requests \in Nat
      BY OrderBookAssumption, LenProperties DEF FeedInv, TypeOK
    <3>2. QED BY <1>5, <3>1, OrderBookAssumption DEF RestDisconnected
  <2>2. /\ rest' = "DISCONNECTED" /\ requests' = 0 /\ answers' = <<>>
        /\ UNCHANGED <<exchange, stream, streams, since, sent, feed, rests, refused,
                       published, queue, sequencer, fatal>>
    BY <1>5 DEF RestDisconnected, streamVars, bookVars
  <2>3. TypeOK'
    BY <2>1, <2>2 DEF FeedInv, TypeOK
  <2>4. QED BY <2>2, <2>3, OthersKeepFeed
<1>6. CASE CheckRequestQueue
  <2>1. PICK n \in 1 .. queue : queue' = queue - n /\ requests' = requests + n
    BY <1>6 DEF CheckRequestQueue
  <2>2. queue' \in Nat /\ requests' \in Nat
    BY <2>1 DEF FeedInv, TypeOK
  <2>3. UNCHANGED <<exchange, stream, streams, since, sent, feed, rest, rests, answers,
                    failed, refused, published, sequencer, fatal>>
    BY <1>6 DEF CheckRequestQueue, streamVars
  <2>4. TypeOK'
    BY <2>2, <2>3 DEF FeedInv, TypeOK
  <2>5. QED BY <2>3, <2>4, OthersKeepFeed
<1>7. CASE OrderBookError
  <2>1. requests' \in Nat /\ failed' \in 0 .. MaxErrors
    BY <1>7, OrderBookAssumption DEF OrderBookError, FeedInv, TypeOK
  <2>2. UNCHANGED <<exchange, stream, streams, since, sent, feed, rest, rests, answers,
                    refused, published, queue, sequencer, fatal>>
    BY <1>7 DEF OrderBookError, streamVars, bookVars
  <2>3. TypeOK'
    BY <2>1, <2>2 DEF FeedInv, TypeOK
  <2>4. QED BY <2>2, <2>3, OthersKeepFeed
<1>8. CASE OrderBookAck
  BY <1>8, AckKeepsFeed
<1>9. CASE OrderBookRefused
  BY <1>9, RefusedKeepsFeed
<1>10. CASE ExchangeChange
  <2>1. /\ exchange < MaxChanges /\ exchange' = exchange + 1
        /\ UNCHANGED <<stream, streams, since, sent, feed, rest, rests, requests, answers,
                       failed, refused, published, queue, sequencer, fatal>>
    BY <1>10 DEF ExchangeChange, Change, streamVars, restVars
  <2>2. exchange' \in 1 .. MaxChanges
    BY <2>1, BookFeedAssumption DEF FeedInv, TypeOK
  <2>3. TypeOK'
    BY <2>1, <2>2 DEF FeedInv, TypeOK
  <2>4. exchange \in Nat /\ \A x \in Nat : x <= exchange => x <= exchange'
    BY <2>1, Numbers
  <2>5. SnapshotsKnown'
    <3>1. answers \in Seq(Nat) /\ sequencer.snapshot \in Nat
      BY Numbers DEF FeedInv, TypeOK
    <3>2. \A i \in DOMAIN answers : answers[i] \in Nat
      BY <3>1, ElementsOf
    <3>3. QED BY <2>1, <2>4, <3>1, <3>2 DEF FeedInv, SnapshotsKnown
  <2>6. FeedAhead'
    BY <2>1, <2>4, Numbers DEF FeedInv, FeedAhead
  <2>7. TrueBook' /\ SequencerKnown'
    BY <2>1 DEF FeedInv, TrueBook, SequencerKnown
  <2>8. Change
    BY <1>10 DEF ExchangeChange
  <2>9. QED BY <2>3, <2>5, <2>6, <2>7, <2>8 DEF FeedInv, FeedStep, FeedNext
<1>11. CASE ExchangeUpdate
  BY <1>11, ExchangeUpdateKeepsFeed
<1>12. CASE ExchangeOrderBook
  BY <1>12, ExchangeOrderBookKeepsFeed
<1>13. CASE UNCHANGED vars
  <2>1. UNCHANGED <<exchange, stream, streams, since, sent, feed, rest, rests, requests, answers,
                    failed, refused, published, queue, sequencer, fatal>>
    BY <1>13 DEF vars, streamVars, restVars, bookVars
  <2>2. TypeOK'
    BY <2>1 DEF FeedInv, TypeOK
  <2>3. QED BY <2>1, <2>2, OthersKeepFeed
<1>14. QED
  BY <1>1, <1>2, <1>3, <1>4, <1>5, <1>6, <1>7, <1>8, <1>9, <1>10, <1>11, <1>12, <1>13
  DEF Next, StreamNext, RestNext, ExchangeNext

(* Every variable keeps its type, whatever the connections do: no update,  *)
(* snapshot or retry takes a counter of the book below zero.               *)
THEOREM TypesHold == Spec => []TypeOK
<1>1. FeedInv => TypeOK
  BY DEF FeedInv
<1>2. QED BY <1>1, InitFeed, NextFeed, PTL DEF Spec

(* The order book of a contract implements what clients may rely on: each  *)
(* book they are given is the book the exchange had at the sequence number *)
(* it is given with, and the next one is newer.                            *)
THEOREM BookIsTrue == Spec => ImplementsBookFeed
<1>1. FeedInv /\ [Next]_vars => [FeedNext]_<<exchange, published>>
  BY NextFeed DEF FeedStep
<1>2. QED BY <1>1, InitFeed, NextFeed, PTL DEF Spec, ImplementsBookFeed, FeedSpec
=============================================================================
