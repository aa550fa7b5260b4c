------------------------------ MODULE BookFeed ------------------------------
(***************************************************************************)
(* What the clients of the gateway may rely on for one contract: every     *)
(* order book they are given is the book the exchange had at the sequence  *)
(* number it is given with, and the sequence numbers grow.  OrderBook is   *)
(* shown to implement it.                                                  *)
(*                                                                         *)
(* The exchange numbers its changes.  A change sets one price level to a   *)
(* new quantity; the number of the change stands for the quantity.         *)
(***************************************************************************)
EXTENDS Naturals, FiniteSetsExt

CONSTANTS
    Levels,      \* the price levels
    MaxChanges,  \* bound: how often the exchange changes the book
    LevelOf      \* the level that each change sets

ASSUME BookFeedAssumption ==
    /\ MaxChanges \in Nat \ {0}
    /\ LevelOf \in [1..MaxChanges -> Levels]

VARIABLES
    exchange,    \* the number of the last change at the exchange
    published    \* the book that was published last

ChangesOf(l, first, last) == {i \in first..last : LevelOf[i] = l}

(* The levels of an update set what the changes from first to last leave.  *)
ApplyUpdate(book, first, last) ==
    [l \in Levels |-> IF ChangesOf(l, first, last) = {} THEN book[l]
                      ELSE Max(ChangesOf(l, first, last))]

EmptyBook == [l \in Levels |-> 0]

(* The book of the exchange after change n.                                *)
BookAt(n) == ApplyUpdate(EmptyBook, 1, n)

FeedInit ==
    /\ exchange = 1
    /\ published = [sequence |-> 0, book |-> EmptyBook]

Change ==
    /\ exchange < MaxChanges
    /\ exchange' = exchange + 1
    /\ UNCHANGED published

Publish ==
    /\ \E n \in (published.sequence + 1)..exchange :
          published' = [sequence |-> n, book |-> BookAt(n)]
    /\ UNCHANGED exchange

FeedNext == Change \/ Publish

FeedSpec == FeedInit /\ [][FeedNext]_<<exchange, published>>
=============================================================================
