----------------------------- MODULE OrderBook -----------------------------
(***************************************************************************)
(* The order book of one contract: updates from a market data stream       *)
(* (gateway/market_data.cpp) and snapshots from the public REST connection *)
(* (gateway/rest.cpp) meet in the sequencer that both share                *)
(* (gateway/shared.hpp).  Contracts are independent of each other.         *)
(*                                                                         *)
(* Every handler runs to completion on one thread and is one action.       *)
(* market::mbp::Sequencer and core::limit::Queue are not in the repository *)
(* and are modelled from the arguments, callbacks and exception with which *)
(* the handlers use them: updates in unbroken sequence are buffered until  *)
(* a snapshot fits them, a snapshot is asked for with the first of them    *)
(* and again when it is too old, and a break throws BadState.              *)
(***************************************************************************)
EXTENDS BookFeed, Sequences

CONSTANTS
    MaxRetries,   \* flag ws.mbp_request_max_retries
    Lag,          \* how many changes a snapshot may be behind the exchange
    MaxConnects,  \* bound: how often each connection is made
    MaxErrors,    \* bound: requests for a snapshot that fail
    MaxRefusals   \* bound: snapshots the sequencer refuses

ASSUME OrderBookAssumption ==
    /\ MaxRetries \in Nat
    /\ Lag \in Nat
    /\ MaxConnects \in Nat
    /\ MaxErrors \in Nat
    /\ MaxRefusals \in Nat

VARIABLES
    stream,     \* MarketData::connection_status_
    streams,    \* how often it was made
    since,      \* the last change before the exchange began to send updates
    sent,       \* the last change it has sent
    feed,       \* the updates under way
    rest,       \* Rest::connection_status_
    rests,      \* how often it was made
    queue,      \* how often the contract is in Shared::depth_request_queue
    requests,   \* requests for a snapshot under way
    answers,    \* the snapshots under way
    failed,     \* how many requests failed
    refused,    \* how many snapshots the sequencer refused
    sequencer,  \* the entry of Shared::mbp_sequencer
    fatal       \* the process ended

streamVars == <<stream, streams, since, sent, feed>>
restVars   == <<rest, rests, requests, answers, failed, refused>>
bookVars   == <<published, queue, sequencer, fatal>>

vars == <<exchange, streamVars, restVars, bookVars>>

Update(first, last) == [first |-> first, last |-> last]

-----------------------------------------------------------------------------
(* The sequencer.                                                          *)

NewSequencer ==
    [live |-> FALSE, last_sequence |-> 0, updates |-> <<>>, snapshot |-> 0, retries |-> 0]

(* An update that does not follow the one before it.                       *)
Broken(q, previous) == q.last_sequence # 0 /\ previous # q.last_sequence

(* The snapshot is older than what the buffered updates build on.          *)
TooOld(q) == q.snapshot # 0 /\ q.updates # <<>> /\ q.snapshot < Head(q.updates).first - 1

(* The buffered updates lead on from the snapshot.                         *)
Fits(q) ==
    /\ q.snapshot # 0 /\ q.updates # <<>>
    /\ Head(q.updates).first - 1 <= q.snapshot /\ q.snapshot <= q.last_sequence

(* Sequencer::apply: the buffered updates after a sequence number, one     *)
(* after the other, so that the last that sets a level is the one to stay. *)
Applied(book, updates, sequence) ==
    [l \in Levels |->
        LET sets == {k \in DOMAIN updates :
                        /\ updates[k].last > sequence
                        /\ ChangesOf(l, updates[k].first, updates[k].last) # {}}
            u == updates[Max(sets)]
        IN  IF sets = {} THEN book[l] ELSE Max(ChangesOf(l, u.first, u.last))]

-----------------------------------------------------------------------------
(* The callbacks of the sequencer.                                         *)

(* publish_update.                                                         *)
PublishUpdate(u) ==
    published' = [sequence |-> u.last,
                  book |-> ApplyUpdate(published.book, u.first, u.last)]

(* Mutant: the book is published with the sequence number of the snapshot. *)
PublishUnderSnapshot(q) ==
    published' = [sequence |-> q.snapshot,
                  book |-> Applied(BookAt(q.snapshot), q.updates, q.snapshot)]

(* publish_snapshot: the snapshot and the updates after it, under the      *)
(* sequence number of the last of them.                                    *)
PublishSnapshot(q) ==
    published' = [sequence |-> q.last_sequence,
                  book |-> Applied(BookAt(q.snapshot), q.updates, q.snapshot)]

(* request_snapshot: too many retries end the process.                     *)
RequestSnapshot(retries) ==
    IF MaxRetries # 0 /\ MaxRetries < retries
    THEN fatal' = TRUE /\ UNCHANGED queue
    ELSE queue' = queue + 1 /\ UNCHANGED fatal

(* A sequencer q that is not live, with one more update or snapshot: the   *)
(* snapshot fits, has to be asked for again, or waits for more updates.    *)
(* The first update asks for a snapshot if none waits.                     *)
Join(q, first_update) ==
    \/ /\ Fits(q)
       /\ sequencer' = [NewSequencer EXCEPT !.live = TRUE, !.last_sequence = q.last_sequence]
       /\ PublishSnapshot(q)
       /\ UNCHANGED <<queue, fatal>>
    \/ /\ TooOld(q)
       /\ sequencer' = [q EXCEPT !.snapshot = 0, !.retries = @ + 1]
       /\ RequestSnapshot(q.retries + 1)
       /\ UNCHANGED published
    \/ /\ ~Fits(q) /\ ~TooOld(q)
       /\ sequencer' = q
       /\ IF first_update /\ q.snapshot = 0
          THEN RequestSnapshot(0) ELSE UNCHANGED <<queue, fatal>>
       /\ UNCHANGED published

(* Mutant: nothing is queued.                                              *)
ClearOnly ==
    /\ sequencer' = NewSequencer
    /\ UNCHANGED <<published, queue, fatal>>

(* Mutant: the sequencer is not cleared.                                   *)
QueueOnly ==
    /\ queue' = queue + 1
    /\ UNCHANGED <<published, sequencer, fatal>>

(* BadState: start again.  What was published stays.                       *)
BadState ==
    /\ sequencer' = NewSequencer
    /\ queue' = queue + 1
    /\ UNCHANGED <<published, fatal>>

-----------------------------------------------------------------------------
(* The market data stream.                                                 *)

(* The exchange sends the changes that come after the subscription.        *)
StreamReady ==
    /\ stream = "DISCONNECTED" /\ streams < MaxConnects
    /\ stream' = "READY" /\ streams' = streams + 1
    /\ since' = exchange /\ sent' = exchange
    /\ UNCHANGED <<exchange, feed, restVars, bookVars>>

(* Updates under way are lost; the sequencer is left as it is.             *)
StreamDisconnected ==
    /\ stream = "READY" /\ streams < MaxConnects
    /\ stream' = "DISCONNECTED" /\ feed' = <<>>
    /\ UNCHANGED <<exchange, streams, since, sent, restVars, bookVars>>

(* The update at the head of the feed may have any number of changes.      *)
OrderBookUpdate ==
    /\ ~fatal
    /\ feed # <<>> /\ feed' = Tail(feed)
    /\ LET u == Head(feed)
           q == [sequencer EXCEPT !.last_sequence = u.last]
       IN  \/ /\ Broken(sequencer, u.first - 1)
              /\ BadState
           \/ /\ ~Broken(sequencer, u.first - 1) /\ sequencer.live
              /\ sequencer' = q
              /\ PublishUpdate(u)
              /\ UNCHANGED <<queue, fatal>>
           \/ /\ ~Broken(sequencer, u.first - 1) /\ ~sequencer.live
              /\ Join([q EXCEPT !.updates = Append(@, u)], q.updates = <<>>)
    /\ UNCHANGED <<exchange, stream, streams, since, sent, restVars>>

-----------------------------------------------------------------------------
(* The public REST connection.                                             *)

(* Its status is ready once the contracts are downloaded.                  *)
RestReady ==
    /\ rest = "DISCONNECTED" /\ rests < MaxConnects
    /\ rest' = "READY" /\ rests' = rests + 1
    /\ UNCHANGED <<exchange, streamVars, requests, answers, failed, refused, bookVars>>

(* A request that was sent fails with the connection.                      *)
RestDisconnected ==
    /\ rest = "READY" /\ rests < MaxConnects
    /\ failed + requests + Len(answers) <= MaxErrors
    /\ rest' = "DISCONNECTED"
    /\ failed' = failed + requests + Len(answers)
    /\ requests' = 0 /\ answers' = <<>>
    /\ UNCHANGED <<exchange, streamVars, rests, refused, bookVars>>

(* Mutant: the timer does not look whether something is queued.            *)
AlwaysRequest ==
    /\ ~fatal
    /\ rest = "READY"
    /\ queue' = queue - 1 /\ requests' = requests + 1
    /\ UNCHANGED <<exchange, streamVars, rest, rests, answers, failed, refused,
                   published, sequencer, fatal>>

(* The timer: check_request_queue sends what the rate limiter allows.      *)
CheckRequestQueue ==
    /\ ~fatal
    /\ rest = "READY"
    /\ \E n \in 1..queue : queue' = queue - n /\ requests' = requests + n
    /\ UNCHANGED <<exchange, streamVars, rest, rests, answers, failed, refused,
                   published, sequencer, fatal>>

(* get_order_book_ack: an error is only logged.                            *)
OrderBookError ==
    /\ ~fatal
    /\ requests > 0 /\ failed < MaxErrors
    /\ requests' = requests - 1 /\ failed' = failed + 1
    /\ UNCHANGED <<exchange, streamVars, rest, rests, answers, refused, bookVars>>

(* A snapshot; the sequencer of a book that is live has no use for it.     *)
OrderBookAck ==
    /\ ~fatal
    /\ answers # <<>> /\ answers' = Tail(answers)
    /\ IF sequencer.live
       THEN UNCHANGED bookVars
       ELSE Join([sequencer EXCEPT !.snapshot = Head(answers)], FALSE)
    /\ UNCHANGED <<exchange, streamVars, rest, rests, requests, failed, refused>>

(* The sequencer may throw at a snapshot, too; when is not known here.     *)
OrderBookRefused ==
    /\ ~fatal
    /\ refused < MaxRefusals /\ refused' = refused + 1
    /\ answers # <<>> /\ answers' = Tail(answers)
    /\ BadState
    /\ UNCHANGED <<exchange, streamVars, rest, rests, requests, failed>>

-----------------------------------------------------------------------------
(* The exchange.                                                           *)

ExchangeChange ==
    /\ Change
    /\ UNCHANGED <<streamVars, restVars, queue, sequencer, fatal>>

(* All changes since the last update go into the next.                     *)
ExchangeUpdate ==
    /\ stream = "READY" /\ sent < exchange
    /\ feed' = Append(feed, Update(sent + 1, exchange))
    /\ sent' = exchange
    /\ UNCHANGED <<exchange, stream, streams, since, restVars, bookVars>>

ExchangeOrderBook ==
    /\ requests > 0 /\ requests' = requests - 1
    /\ \E n \in 1..exchange :
          n + Lag >= exchange /\ answers' = Append(answers, n)
    /\ UNCHANGED <<exchange, streamVars, rest, rests, failed, refused, bookVars>>

Init ==
    /\ FeedInit
    /\ stream = "DISCONNECTED" /\ streams = 0 /\ since = 0 /\ sent = 0 /\ feed = <<>>
    /\ rest = "DISCONNECTED" /\ rests = 0 /\ requests = 0 /\ answers = <<>>
    /\ failed = 0 /\ refused = 0
    /\ queue = 0 /\ sequencer = NewSequencer /\ fatal = FALSE

StreamNext == StreamReady \/ StreamDisconnected \/ OrderBookUpdate

RestNext ==
    \/ RestReady \/ RestDisconnected \/ CheckRequestQueue
    \/ OrderBookError \/ OrderBookAck \/ OrderBookRefused

ExchangeNext == ExchangeChange \/ ExchangeUpdate \/ ExchangeOrderBook

Next == StreamNext \/ RestNext \/ ExchangeNext

Spec == Init /\ [][Next]_vars

(***************************************************************************)
(* The event loop polls the sockets and fires the timer, the connection    *)
(* managers reconnect, the rate limiter lets requests through in time, and *)
(* the exchange sends what was subscribed and answers what was asked.      *)
(***************************************************************************)
Fairness ==
    /\ WF_vars(StreamReady)
    /\ WF_vars(OrderBookUpdate)
    /\ WF_vars(RestReady)
    /\ WF_vars(CheckRequestQueue)
    /\ WF_vars(OrderBookAck)
    /\ WF_vars(ExchangeUpdate)
    /\ WF_vars(ExchangeOrderBook)

FairSpec == Spec /\ Fairness

-----------------------------------------------------------------------------
Sequencer ==
    [live : BOOLEAN, last_sequence : Nat, updates : Seq([first : Nat, last : Nat]),
     snapshot : Nat, retries : Nat]

(* Every variable has its type.                                            *)
TypeOK ==
    /\ exchange \in 1..MaxChanges
    /\ published \in [sequence : Nat, book : [Levels -> Nat]]
    /\ stream \in {"DISCONNECTED", "READY"} /\ streams \in 0..MaxConnects
    /\ since \in Nat /\ sent \in Nat
    /\ feed \in Seq([first : Nat, last : Nat])
    /\ rest \in {"DISCONNECTED", "READY"} /\ rests \in 0..MaxConnects
    /\ queue \in Nat /\ requests \in Nat
    /\ answers \in Seq(Nat) /\ failed \in 0..MaxErrors /\ refused \in 0..MaxRefusals
    /\ sequencer \in Sequencer
    /\ fatal \in BOOLEAN

(* What clients are given is the true book of its sequence number and goes *)
(* forward only, whatever is lost, repeated or late on either connection.  *)
ImplementsBookFeed == FeedSpec

(* A book that is not live although updates came or it was live before is  *)
(* on its way: its snapshot is queued, asked for or under way, or is there *)
(* and waits for the update that reaches it.  Only a request that failed   *)
(* leaves it waiting for nothing.                                          *)
SnapshotIsAwaited ==
    ( /\ ~sequencer.live
      /\ sequencer.updates # <<>> \/ published.sequence # 0
      /\ failed = 0 /\ ~fatal ) =>
        \/ queue > 0 \/ requests > 0 \/ answers # <<>>
        \/ sequencer.snapshot > sequencer.last_sequence

(* A stream that stays up and was sent something ends with all of it       *)
(* published, or with a snapshot that the next update will complete.       *)
Followed ==
    \/ sequencer.live /\ published.sequence = sent
    \/ sequencer.snapshot # 0

EventuallyFollowed ==
    <>[](Followed \/ stream = "DISCONNECTED" \/ sent = since \/ failed > 0 \/ fatal)
=============================================================================
