# roq-gate-futures in TLA+

roq-gate-futures is a gateway between the roq trading system and the futures
exchange Gate.io. It is one process with one event loop: every handler runs to
completion on one thread, so a handler is one action. What makes it hard is
everything between the handlers: four kinds of connections that are lost and
made again at any moment, frames and answers under way in both directions, a
download that depends on two connections of an account, a rate limiter and a
throttle that all of them share, and an order management system (OMS) and an
exchange whose views of the orders must agree in the end.

Source paths below are relative to `src/src/roq/gate_futures/`. `PROJECT.json`
maps every definition to its lines.

## Inventory

| component | state | operations | modelled in |
|---|---|---|---|
| `Controller` (gateway/controller.cpp) | the streams | start, timer, client subscriptions, symbol updates, routing of orders | Subscriptions, OrderEntry (timer order), OrderLife (routing, one account) |
| `Rest` (gateway/rest.cpp), public REST | status, download | connect, disconnect, currencies, contracts, order book snapshots, candlesticks | Subscriptions, OrderBook, MarketFeed (candlesticks), OrderLife (settlement coins) |
| `OrderEntry` (gateway/order_entry.cpp), private REST, one per account | status, `download_trades_is_first_` | connect, disconnect, accounts, positions, trades | OrderEntry, AccountData (contents) |
| `Request` (gateway/request.cpp), one per account | balances, positions and trades: asked, sent, answered | request, check_pending, commit | RequestService, OrderEntry, DropCopy, AccountData |
| `DropCopy` (gateway/drop_copy.cpp), private websocket, one per account | `ready_`, status, download, `download_stale_orders_counter_` | login, subscribe, download, order list, order status, create, modify, cancel, cancel-all and their answers, updates of orders, positions and trades | DropCopy, OrderRequests, OrderLife, AccountData |
| `MarketData` (gateway/market_data.cpp), public websockets | status, slice | subscribe, tickers, trades, books, candlesticks | Subscriptions, OrderBook, MarketFeed |
| `Shared` (gateway/shared.hpp) | symbols, `all_symbols`, rate limiter, request queues, sequencers, settlement coins, `bars`, `trades`, throttle | | Subscriptions, OrderEntry, OrderBook, MarketFeed, OrderLife, Throttle |
| `Throttle` (tools/throttle.cpp) | limit, `suspend_until_` | response headers, end of response | Throttle |
| JSON encoder, maps, parsers (protocol/json) | none | conversions, dispatch | OrderFields, OrderRequests and MarketFeed (dispatch) |
| account and crypto, configuration, launchers | none that changes | | not modelled |

How they interact: DropCopy asks for balances, positions and trades through
`Request`; OrderEntry's timer sends them and commits the answers; DropCopy's
timer sees the answer and moves its download on. Rest finds contracts and sends
`SymbolsUpdate` to the controller, which creates market data streams and makes
them subscribe their slices. Market data streams queue order book requests that
Rest sends, and requests for the history of bars, under the same rate limiter as
OrderEntry. DropCopy asks for the status of an order with a settlement coin that
only Rest knows. All REST clients pass the
headers of responses to the one Throttle and ask it whether they may send.

What must be right, and is hard to test: a session never leaves anything behind
for the next one; a download always waits for something that will come, and
nothing else moves it; the OMS and the exchange agree once the stream says it
is ready, whatever happened while it was down; every order request is answered
once and truthfully; no symbol is lost or subscribed twice between slices,
streams and reconnects; one signed request at a time; an exhausted or blocked
limit holds requests back; what a client asks for is what the exchange gets, and
what the exchange says is what clients hear, number by number. `PROJECT.json` lists the hazards, each at its line.

The libraries the gateway is built on (roq-core, roq-server, roq-web) are not in
the repository. `core::Download`, `core::Download2`, `core::limit::Request`,
`core::limit::RateLimiter`, `core::limit::Queue`, `core::Symbols`,
`market::mbp::Sequencer`, the sockets, the OMS behind
`server::Dispatcher` and the exchange are modelled from how the code uses them
and are marked external in the map.

## Modules

### DropCopy

One account's private websocket through several sessions. `outbox` and `inbox`
are the FIFO queues of the socket; both are lost when it fails. `state` is the
download state; `MoveOn` is `core::Download2` moving on through
`DropCopy::download` until there is something to wait for, with the frames and
REST requests it makes. Each `Trade...` action is the handler of that message;
`Timer` is the timer with `check_request_queue` and `check_stale_orders_2`;
`RequestCommit` is what OrderEntry does for it. `oms` and `stale` are what the
OMS knows: a snapshot or update changes the status of an order, a lost socket
makes live orders stale. `Exchange...` actions answer, refuse or push; orders
are filled at any moment and may be left open by an earlier run. `fatal` records
every `log::fatal` and `assert` of the class.

### OrderRequests

The order requests of one session in detail: create, modify, cancel,
cancel-all, the two acknowledgements of a new order, refusals before and after
them, fills and pushes between. `responses` holds what was dispatched to the OMS
for every request id. DropCopy has only create and cancel, as the others have no
part in the download; OrderRequests has one session, as the next one begins with
DropCopy's reconciliation.

### RequestService and OrderEntry

RequestService is what the two connections of an account promise each other: ask
as often as you like, and every request that was asked for is committed.
OrderEntry is the private REST connection with `check_request_queue`'s order,
the rate limiter that the public connection uses first (`dispatch_helper`), and
the trades lookback. It implements RequestService under the mapping `Status`;
DropCopy relies on nothing else (`request`, `RequestCommit`).

### AccountData

OrderEntry composed with the sessions of the websocket that ask it, and with an
exchange that fills orders all the while. A session subscribes to a channel
before it asks for what the channel cannot push (`Successor`, the `SUBSCRIBE_` and
`GET_` states of `DropCopy::download`), and any commit counts as its answer. An
answer is composed at one moment (`ExchangeAnswer`) and arrives at another, perhaps
for a session that is over. Fill n is the n-th; `known` are the fills that were
dispatched, `position` the last position of each update type: the answers of REST are
`SNAPSHOT`, the pushes of the websocket `INCREMENTAL`. The code dispatches every
position as it comes (`Dispatch`), and nothing it passes on orders the two: the time of
an answer is in whole seconds, that of a push in milliseconds, and an answer may come
after a push that is newer. So `PositionFollows` promises no more than that one of the
two ends with the account's position; it fails if a session asks before it subscribes.
Fills become older than the lookback at any moment (`Age`).

### OrderFields and OrderLife

OrderFields is the encoder's and the maps' tables: the sign of a size, price zero,
`Tif`, the fields of an amend; and `CreateOrderUpdate`, the way back. OrderLife
sends one order through them, over two sessions: placed, amended, cancelled, its
answers and pushes in both orders, executed as its time in force demands, ended by
the exchange for every reason in `FinishedAs` but `reduce_out`, lost with the socket
and found again by the order list or a status query. A query that goes out before
the public connection knows the contracts names no settlement coin; its refusal
counts as an answer, and only the timer asks again. The requests of
`MCOrderLife` are one for every way through the encoder: each side, each time in force, one that is
not supported, post-only with and without effect, reduce-only, without a price.

### Throttle

Any number of REST connections whose responses are headers in either order and
an end, read part by part in any interleaving; the exchange counts requests per
window and its firewall may refuse with 403. `now` is the system clock, the
headers are on the real-time clock, `Offset` ahead.

### Subscriptions

The public download with its sequence numbers, retries and bumps, the contracts
the exchange lists, client subscriptions, `core::Symbols` cut into slices, and
one market data stream per slice. `market_data[i].subscribed` is what the
exchange has subscribed for stream i on this socket.

### BookFeed and OrderBook

OrderBook is one contract's order book: updates of a market data stream
(`feed`), requests for snapshots from `Shared::depth_request_queue` through the
public REST connection (`queue`, `requests`, `answers`), and the sequencer in
which the two meet. Contracts do not influence each other except by the rate
limiter, so one is enough. The sequencer is a library: the module has what its
arguments, callbacks and exception say of it (buffer updates in unbroken
sequence, ask for a snapshot with the first of them and again when it is too
old, publish when one fits, throw `BadState` at a break); when it throws at a
snapshot is not known, so `OrderBookRefused` may happen at any. A change of the
exchange sets one level and its number stands for the quantity, so a book says
which changes it contains. BookFeed is the promise to clients: every book is the
exchange's book at its sequence number, and the numbers grow.

### MarketFeed

The rest of one market data stream. A message is a list of items, which the
handlers cut into updates of one contract each (`Enter`, `Flush`), using vectors
of `Shared` that keep what the last message left in them (`trades`, `bars`).
`queue` is `Shared::time_series_request_queue`, to which the stream adds what it
subscribes, and from which the public REST connection asks for the history of bars. An
item is its contract and what a handler decides by (the time of a trade, whether
a bar is confirmed). The sequence of messages is bounded by two, as
nothing but the two vectors is carried from one to the next; three items are the
least for a contract that comes back after another one.

### Others

FrameCounts counts frames of a type in a queue. `MC*` give constants to TLC.
`*Proofs` hold the proofs. Definitions commented as mutants are the plausible
bugs that each property is known to catch.

## Runs

| run | shows |
|---|---|
| dropcopy_safety | three sessions, two orders, every refusal: `QueriesCounted`, `NeverOutOfStep`, `DownloadIsAwaited`, `ReadyIsSubscribed`, `Reconciled`, `TerminalIsFinal`, `StaleBeforeTrades` |
| dropcopy_liveness | the stream becomes ready for good, stale orders are resolved, and orders left open by an earlier run are found, if the exchange does not refuse the list |
| order_requests | answers are given once, are true, and come while the connection lasts; a complete cancel-all leaves nothing open |
| order_requests_amend | violation: a refused amend is reported as a refused cancel |
| order_life | what goes out is what was asked for (`ExecutedAsAsked`), what comes back is the order as it is (`ReportedAsAsked`, `OrderFollows`), a stale order is found out about even if the settlement coins come late |
| order_life_download | violation: a market order is downloaded as a limit order |
| account_data | one request at a time, the restart lookback, `RequestService!FairSpec`; once a session is complete every fill was dispatched and one of the two sources of positions ends with the true one |
| order_book | what is published is the true book and goes forward (`FeedSpec` of BookFeed); a book that is not live is on its way, unless a request failed; a stream that stays up ends with all its updates published |
| market_feed | every item of a message is in one update, under its contract, once; the history of bars of a subscribed contract is never forgotten, unless a request failed |
| throttle_safety | an exhausted limit suspends; only news of remaining requests cuts it short |
| throttle_blocked | violation: the ten minutes after a 403 are cleared at once |
| subscriptions | every symbol in one slice, every ready stream has subscribed exactly its slice, the download never stuck, and every listed contract is in the end subscribed |

### Bounds

Two orders show every race between two orders and with the list; three sessions
are one before a loss, one that inherits from it, and one after that, with
`MaxSessions` also ending the losses so that liveness says something. `MaxQueries
= 3` lets the timer repeat a search while one is under way. In OrderRequests two
orders in two contracts are the least for which cancel-all fans out, once;
`MaxFrames = 2` only delays the OMS, never the exchange or a handler, so two
requests can still cross. AccountData has a limit of one request and a backlog
of one: the public connection can take everything and has to come back for more.
Its three fills are one of somebody else's order and one of the gateway's before the
start, and one that turns the position around while the gateway runs; two
sessions are one to leave a request under way and one to take its answer for its own.
In OrderLife two sessions are one to lose an order in and one to find it again;
two amends change the size and the price; one query that is refused and one that
repeats it are within `MaxFrames = 2`. MarketFeed has two contracts, the second
added at any moment, two connections of each kind, and one request that fails.
In Throttle time runs to 8 with windows of 3 and back-offs of 2 and 4 seconds, so
a suspension outlives a window and a window outlives a back-off. Subscriptions
has four symbols in slices of two and three connections, one of them discarded by the dispatcher and
two of them asked for by a client, so an update can fill a slice and open
another. OrderBook has five changes of two levels, so that a book can be wrong in
one level and right in the other, a stream that is lost once and comes back after
a gap or without one, snapshots up to two changes behind the exchange, and one
failed and one refused snapshot; two retries let the process end, too.
`CHECK_DEADLOCK` is off where the bounds let the system come to rest; in DropCopy the process also ends by `log::fatal`.

### Fairness

Weak fairness of timers and of handlers of what has arrived: the event loop
polls every socket and fires the timer for ever. Weak fairness of reconnecting:
the connection managers always reconnect. Weak fairness of answers: REST
requests have a timeout that is an answer, too; the exchange answers frames while
a socket lasts. OrderLife adds that the public connection learns the contracts in
the end, which the run of Subscriptions shows (`EventuallySubscribed`). `SF` of a successful status query in DropCopy: the exchange may
refuse some, not all for ever. Nothing is assumed of losses, refusals, fills,
clients and time.

Some liveness results hold only with a bound that is worth knowing. OrderEntry
serves all kinds only if the websocket does not ask for ever: balances come
first in `check_request_queue`, so sessions that fail again and again would keep
positions and trades waiting. `EventuallySubscribed` is about contracts that are
listed when the gateway starts: later ones are only seen at a reconnect.

`EventuallyFollowed` in OrderBook excuses four cases that are how the code is: a
request for a snapshot that failed is not repeated (`get_order_book_ack`, "XXX
WHAT ???"), so the book stays as it was until the sequence breaks again; a
reconnected stream on which nothing was sent yet cannot know what it missed; too
many retries end the process; and a snapshot that came after the last update
waits for the next.

## Findings

- *The block after a 403 is cleared* (throttle_blocked, tools/throttle.cpp:82).
  `BLOCKED_BACKOFF` is "very serious", but any header that says requests remain
  clears the suspension, and a response of another connection may be under way.
- *A refused amend is reported as a refused cancel* (order_requests_amend,
  gateway/drop_copy.cpp:573). The success branch says `MODIFY_ORDER`.
- *A market order is downloaded as a limit order* (order_life_download,
  gateway/drop_copy.cpp:765). "download orders must be limit" is true of the order
  list, but a status query downloads any order that became stale, one
  whose answer was lost with the socket included.

## Proofs

All theorems hold for every value of the constants under the named assumptions
of the modules (finite sets of orders, naturals, flags). Every invariant that a run
checks is also a theorem. Those that need a strengthening have it described below, and
TLC checked it before it was proved.

**DropCopy** (`DropCopyProofs`). `TypeCorrect` first. None of the session properties
is inductive: that the counter equals the queries under way needs to know that
nothing of an earlier session is in the queues; that an answer finds the download in
its state needs to know that there is exactly one request or answer of the download
under way, and that it is the one the download waits for. The inductive invariant is

    IInv == TypeOK /\ QueriesCounted /\ NeverOutOfStep /\ DownloadIsAwaited /\ SessionConsistent

where `SessionConsistent` says how `ready`, `connection_status`, `state` and
`subscribed` depend on each other and on the socket. The proof classifies the
steps: those that touch neither the download nor the counted frames (`Quiet...`
lemmas), those that answer a control frame, and those that move the download on
(`MoveOnStep`). Counting frames in a queue is finite-set cardinality, with lemmas
for concatenation, head and tail. `SessionCorrect` gives `QueriesAlwaysCounted`,
`NeverOutOfStepAlways`, `DownloadAlwaysAwaited` and `ReadyAlwaysSubscribed`.

The orders come on top of it:

    OrderInv == IInv /\ InOrder /\ \A o \in Orders : FollowsOrder(o) /\ OpenIsListed(o)

`FollowsOrder` relates what the OMS was told, what is in the two queues and the
exchange: a placing frame comes before all else (`PlacedFirst`, `Alone`), what is
under way never takes an order back (`Sound`), what the OMS has is true or news of it
is coming (`ToldTrue`, `LiveIsFollowed`). `OpenIsListed` says that an unknown open
order is in every list to come. To an order a step can only be one of seven things
(`Asking`, `Creating`, `Losing`, `Hearing`, `Answering`, `Placing`, `Closing`); every
action is shown to be one of them, and every one of them to keep the invariant.
`OrdersReconciled`, `LeftOrdersKnown`, `TerminalNeverRevived` and
`StaleResolvedFirst` follow. `LeftOrdersKnown` assumes that the exchange never
refuses the list, because the code takes a refused list for an empty one.

**OrderRequests** (`OrderRequestsProofs`). A frame that was sent is in the outbox, or
its answer is in the inbox, or it was answered, never two of them (`OneUnderWay`).
What the inbox says is true of the exchange and stays true (`InboxIsTrue`: orders are
placed once, `OrdersAgree`, and never reopened). For a cancel-all, the frame that
cancels a contract stays behind the frames that create its orders
(`CancelAllFollows`), so an answer to it means that they are settled.

    IInv == Types /\ OnlyAsked /\ OneUnderWay /\ InboxIsTrue /\ OrdersAgree /\ CancelAllFollows
            /\ AnsweredOnce /\ AnswersAreTrue

**OrderLife** (`OrderLifeProofs`). Every frame carries the order as it was asked for
(`Types`, with sets of frames that depend on what was asked), a frame that says the
order is over has it as it ended, and the last frame that carries it has it as it is
(`Told`). Where nothing is under way the OMS agrees with the exchange, or the order
is stale, or the list will have it (`Settled`), and what the OMS takes for finished is
(`Over`); the other parts say which frames may be under way together.

    IInv == Types /\ OnlyAsked /\ OmsIsAsked /\ ExchIsAsked /\ Lost /\ OnlyKnown /\ Placing
            /\ Refused /\ Unplaced /\ Settled /\ Over /\ Told

There is one lemma for each kind of step: frames sent, a frame handled, a frame
told, silence, and executions nobody hears of. `OrderLifeAssumption` says that
requests have positive quantities and prices, as the exchange takes no others, and
that `NoOrder` is not an order.

**AccountData** (`AccountDataProofs`, with OrderEntry). Of OrderEntry, `OneAtATime`
needs that `Ready` looks at all kinds, and `RestartCovered` needs `Reach`: as long as
no trades came, the request under way has the long lookback.
`ImplementsRequestService` is the safety part of the refinement: asking is `Ask`, an
answer is `Commit`, everything else stutters. `AccountDoesOrderEntry` shows that
AccountData only restricts OrderEntry, so its theorems carry over. Then

    DataInv == DataTypes /\ AnswersInFlight /\ Acks /\ ChannelsSubscribed
               /\ PositionsInOrder /\ PositionsFollow /\ Restarted /\ TradesFollow

A fill that must be known is known, or pushed, or in an answer that is composed, or an
answer that is not composed yet is still to come (`TradesFollow`; `PositionsFollow` is
the same of the account's position), from the moment the session has asked. What each
source of positions has only gets newer (`PositionsInOrder`: frames are handled in the
order they were pushed, and one answer is under way at a time), so what one of them had
last is not lost. All this holds because it asks only when the channel is subscribed (`ChannelsSubscribed`), which
needs that only one acknowledgement is ever under way (`Acks`). `NoFillIsMissed` and
`PositionAlwaysFollows` have `AsksAgain` as a hypothesis: see below.

**Subscriptions** (`SubscriptionsProofs`). `IInv` is about the download (`RestInv`:
it waits for an answer that it will not skip) and the streams (`FeedInv`: symbols
are distinct, there are as many streams as slices, a ready one has subscribed its
slice). The lemmas on slices say what appending a symbol does: the last slice
grows, or a new one begins. `OneStreamPerSymbol` follows: no symbol is in two slices.

**Throttle** (`ThrottleProofs`). `ExhaustedIsSuspended` is inductive with
`TypeOK`, because `update_suspend_until` takes the later of two times whenever
nothing remains and 403 and 429 only extend. `CutShortByNews` is the same case
distinction as an action property.

**OrderBook** (`OrderBookProofs`). `BookIsAwaited` is `SnapshotIsAwaited` for every
number of changes, retries, faults and any lag. It needs that a sequencer without
updates has no sequence number (`NothingBuffered`) and that snapshots have one;
`JoinAwaited` is the case distinction that the handlers of both connections share.
`BookIsTrue` is the refinement of BookFeed. Its invariant is

    FeedInv == TypeOK /\ TrueBook /\ FeedAhead /\ SnapshotsKnown /\ SequencerKnown

What was published is the exchange's book (`TrueBook`), all that is under way is
newer and in order (`FeedAhead`), and the sequencer has either just that book or
updates without a gap (`SequencerKnown`, `Buffered`). A change of a level stays until
a later change of it (`LevelAtLater`, `LevelStays`), so an update that follows makes
the next book (`UpdateMakesBook`), and a snapshot with the updates from it on makes
that of the last (`AppliedMakesBook`), though they overlap. That a non-empty set of
numbers has a least element comes from the library's well-founded order.

**MarketFeed** (`MarketFeedProofs`). `HistoryAlwaysAwaited` holds for any contracts,
connections, messages and errors. `HistoryIsAwaited` is inductive once the queue and
the requests are known to be sequences: every step keeps a name where it is or moves it
on, and the lemmas on `Names` say that joining, cutting and removing lose nothing
but the element that is removed. `MessagesAreWhole` needs no invariant of the state: a
message and its updates come from one step. `UpdatesAreWhole` asks for a map from
the items that are passed on to places in the updates that reaches every place, keeps the order
and finds the item there. While the items are collected, the updates so far
and what is pending (`WholeWith`) have such a map for the items seen, and one more item
(`AddWhole`: the contract changes or not, the item is passed on or not) extends it. The
library's induction cannot be used for the recursive function `Collected`, so `CollectedWhole` takes
the least number of items after which `WholeWith` would fail, which leads to a
contradiction.

Only model-checked: `ServesRequests` as far as it is more than
`ImplementsRequestService`, and all liveness, which like ENABLED is out of the prover's
reach.

## Hazards without a property

Eight of the hazards in `PROJECT.json` have none, because what would be right is decided
outside the repository or left open in its code: a cancel-all that sends nothing as there is no order
(gateway/drop_copy.cpp:211), a 429 without rate limit headers after a suspension that
is over (tools/throttle.cpp:130), the old book that clients keep between a break
and the next snapshot (gateway/rest.cpp:488), an order that finished as `reduce_out`, which stays working
(protocol/json/map.cpp:48), a limit order without a price that goes out with price 0
(protocol/json/encoder.cpp:36), a position of an answer that comes after a newer one was
pushed (gateway/order_entry.cpp:293), and a request for an order book or for a history
of bars that failed and is not repeated (gateway/rest.cpp:420 and 520, "XXX WHAT ???").
The models have the last four: `ExecutedAsAsked` allows price 0 where no price was
asked for, `PositionFollows` does not say which of two positions is the newer one, and
`SnapshotIsAwaited`, `EventuallyFollowed` and `HistoryIsAwaited` are stated for what no
request failed of.

`FillsAddUp` and `PositionFollows` depend on a library: with `AsksAgain = FALSE`, that is, if
`core::limit::Request` does not send again what is in flight, the late answer to an
earlier session's request counts as the answer of this one: a fill from between that
answer and the subscription to trades is lost, and a position from before the
subscription to positions stays. The run has `AsksAgain = TRUE`, and `NoFillIsMissed` and
`PositionAlwaysFollows` have it as a hypothesis. OrderEntry alone does not assume it.

## Not modelled

- Balances, funding rates, liquidity of fills, and reference data, which are
  passed on or logged and never read again. What a bar says is left out, too:
  `market_data.cpp` and `rest.cpp` set all four prices to `open`, and `rest.cpp` says of
  every bar of a history that it is confirmed.
- Whether the history of bars and the bars of the stream meet without a gap: an
  answer may be composed before the subscription takes effect.
- Several accounts: they share the throttle and the rate limiter, which Throttle
  and OrderEntry have with any other user of them.
- Decimal places, texts, signatures (pure functions), configuration and flags (the
  CONSTANTS of the modules), metrics, latencies and logging, the generated JSON types, the
  launchers.
- Pings, idle timeouts and proxies belong to the websocket library; their effect is
  `Disconnected`.

## Plan

Done: FrameCounts, DropCopy, OrderRequests, RequestService, OrderEntry,
AccountData, OrderFields, OrderLife, Throttle, Subscriptions, BookFeed, OrderBook,
MarketFeed, and the proofs above: every safety invariant of the runs is a theorem. Of
the temporal properties, the refinements are proved as far as safety goes. What is
left to TLC is liveness.
