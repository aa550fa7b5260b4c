----------------------------- MODULE MarketFeed -----------------------------
(***************************************************************************)
(* What one market data stream subscribes and passes on besides the order  *)
(* book: statistics, trades, the top of the book and bars                  *)
(* (gateway/market_data.cpp), and the history of bars that the public REST *)
(* connection downloads for it (gateway/rest.cpp) with the queue and the   *)
(* vectors that both share (gateway/shared.hpp).                           *)
(*                                                                         *)
(* A message of the exchange is a list of items of several contracts; the  *)
(* handlers cut it into updates of one contract each.  Subscriptions has   *)
(* the other streams, OrderBook the book.                                  *)
(***************************************************************************)
EXTENDS Naturals, SequencesExt

CONSTANTS
    Symbols,             \* the contracts of the stream
    NoSymbol,            \* the empty name
    TimeSeriesLookback,  \* flag download.time_series_lookback is not zero
    Realtime,            \* flag time_series.realtime
    Times,               \* when the trades of a message were, in their order
    MaxMessages,         \* bound: messages of the stream
    MaxItems,            \* bound: the items of a message
    MaxConnects,         \* bound: how often each connection is made
    MaxErrors            \* bound: requests for the history that fail

ASSUME MarketFeedAssumption ==
    /\ NoSymbol \notin Symbols
    /\ TimeSeriesLookback \in BOOLEAN /\ Realtime \in BOOLEAN
    /\ MaxMessages \in Nat /\ MaxItems \in Nat /\ MaxConnects \in Nat /\ MaxErrors \in Nat
    /\ Times \in [1..MaxItems -> Nat]

VARIABLES
    symbols,     \* the slice of the stream in Shared::symbols
    stream,      \* MarketData::connection_status_
    streams,     \* how often it was made
    subscribed,  \* the contracts the exchange sends, on all channels
    messages,    \* how many messages it sent
    rest,        \* Rest::connection_status_
    rests,       \* how often it was made
    queue,       \* Shared::time_series_request_queue
    requests,    \* the requests for a history under way
    history,     \* history: contracts whose history came since they were subscribed
    failed,      \* history: requests that failed, contract by contract
    trades,      \* Shared::trades
    bars,        \* Shared::bars
    message,     \* history: the message that was handled last
    updates      \* history: what it was cut into

streamVars == <<symbols, stream, streams, subscribed>>
restVars == <<rest, rests, requests>>
historyVars == <<queue, history, failed>>
feedVars == <<messages, trades, bars, message, updates>>

vars == <<streamVars, restVars, historyVars, feedVars>>

Names(s) == {s[i] : i \in DOMAIN s}

-----------------------------------------------------------------------------
(* Cutting a message: items are collected until the contract changes.      *)

Update(symbol, items, time) == [symbol |-> symbol, items |-> items, time |-> time]

Collect(items) == [symbol |-> NoSymbol, time |-> 0, items |-> items, updates |-> <<>>]

(* What was collected becomes an update, if there is anything.             *)
Flush(g) ==
    IF g.items = <<>> THEN g
    ELSE [g EXCEPT !.items = <<>>, !.updates = Append(@, Update(g.symbol, g.items, g.time))]

(* Another contract: what was collected for the last goes out first.       *)
Enter(g, symbol) ==
    IF symbol = g.symbol THEN g ELSE [Flush(g) EXCEPT !.symbol = symbol, !.time = 0]

(* The time of an update is that of its last trade.                        *)
AddTrade(g, item) ==
    LET h == Enter(g, item.symbol)
    IN  [h EXCEPT !.items = Append(@, item), !.time = Max({@, item.time})]

(* A bar that may still change is only passed on if that is wanted.        *)
Wanted(item) == item.confirmed \/ Realtime

AddBar(g, item) ==
    LET h == Enter(g, item.symbol)
    IN  IF Wanted(item) THEN [h EXCEPT !.items = Append(@, item)] ELSE h

Add(channel, g, item) == IF channel = "trades" THEN AddTrade(g, item) ELSE AddBar(g, item)

(* The items of a message, one after the other.                            *)
Collected(channel, start, items) ==
    LET g[i \in 0..Len(items)] ==
            IF i = 0 THEN start ELSE Add(channel, g[i - 1], items[i])
    IN  g[Len(items)]

(* Mutant: the vector is taken as it is.                                   *)
KeepTrades == trades

(* get_trades: what the last message left in the vector is removed.        *)
GetTrades == <<>>

(* A new message.                                                          *)
Dispatch(channel, items, u) ==
    /\ message' = [channel |-> channel, items |-> items]
    /\ updates' = u

NoDispatch == Dispatch("none", <<>>, <<>>) /\ UNCHANGED <<messages, trades, bars>>

-----------------------------------------------------------------------------
(* The market data stream.                                                 *)

(* Mutant: a contract whose history came in an earlier session is not      *)
(* queued again.                                                           *)
QueueUnasked(new) ==
    /\ subscribed' = subscribed \cup Names(new)
    /\ queue' = IF TimeSeriesLookback
                THEN queue \o SelectSeq(new, LAMBDA s : s \notin history) ELSE queue
    /\ history' = history \ Names(new) /\ failed' = failed \ Names(new)

(* Frames for every channel; with bars, the history is asked for once more.*)
Subscribe(new) ==
    /\ subscribed' = subscribed \cup Names(new)
    /\ queue' = IF TimeSeriesLookback THEN queue \o new ELSE queue
    /\ history' = history \ Names(new) /\ failed' = failed \ Names(new)

StreamReady ==
    /\ stream = "DISCONNECTED" /\ streams < MaxConnects
    /\ stream' = "READY" /\ streams' = streams + 1
    /\ Subscribe(symbols)
    /\ UNCHANGED <<symbols, restVars>> /\ NoDispatch

(* The queue is left as it is.                                             *)
StreamDisconnected ==
    /\ stream = "READY" /\ streams < MaxConnects
    /\ stream' = "DISCONNECTED" /\ subscribed' = {}
    /\ UNCHANGED <<symbols, streams, restVars, historyVars>> /\ NoDispatch

(* subscribe(start_from): a stream that is not ready waits until it is.    *)
SymbolsUpdate ==
    \E s \in Symbols \ Names(symbols) :
        /\ symbols' = Append(symbols, s)
        /\ IF stream = "READY" THEN Subscribe(<<s>>) ELSE UNCHANGED <<subscribed, historyVars>>
        /\ UNCHANGED <<stream, streams, restVars>> /\ NoDispatch

Lists(I) == UNION {[1..n -> I] : n \in 0..MaxItems}

SymbolLists == Lists([symbol : Symbols])

BarLists == Lists([symbol : Symbols, confirmed : BOOLEAN])

(* A message with items of contracts that are subscribed.                  *)
Received(items) ==
    /\ messages < MaxMessages /\ messages' = messages + 1
    /\ \A i \in DOMAIN items : items[i].symbol \in subscribed
    /\ UNCHANGED <<streamVars, restVars, historyVars>>

(* One update of the statistics for each item.                             *)
Tickers ==
    \E items \in SymbolLists :
        /\ Received(items)
        /\ Dispatch("tickers", items,
                    [i \in DOMAIN items |-> Update(items[i].symbol, <<items[i]>>, 0)])
        /\ UNCHANGED <<trades, bars>>

(* The trades of the last update stay in the vector.                       *)
Trades ==
    \E s \in SymbolLists :
        LET items == [i \in DOMAIN s |-> [symbol |-> s[i].symbol, time |-> Times[i]]]
            g == Collected("trades", Collect(GetTrades), items) IN
            /\ Received(items)
            /\ trades' = g.items
            /\ Dispatch("trades", items, Flush(g).updates)
            /\ UNCHANGED bars

BookTicker ==
    \E s \in Symbols :
        LET item == [symbol |-> s] IN
            /\ Received(<<item>>)
            /\ Dispatch("book_ticker", <<item>>, <<Update(s, <<item>>, 0)>>)
            /\ UNCHANGED <<trades, bars>>

Candlesticks ==
    /\ TimeSeriesLookback
    /\ \E items \in BarLists :
          LET g == Flush(Collected("candlesticks", Collect(<<>>), items)) IN
              /\ Received(items)
              /\ bars' = g.items
              /\ Dispatch("candlesticks", items, g.updates)
              /\ UNCHANGED trades

-----------------------------------------------------------------------------
(* The public REST connection.                                             *)

RestReady ==
    /\ rest = "DISCONNECTED" /\ rests < MaxConnects
    /\ rest' = "READY" /\ rests' = rests + 1
    /\ UNCHANGED <<streamVars, historyVars, requests>> /\ NoDispatch

(* Requests fail with the connection; what is queued stays queued.         *)
RestDisconnected ==
    /\ rest = "READY" /\ rests < MaxConnects
    /\ rest' = "DISCONNECTED"
    /\ requests' = <<>> /\ failed' = failed \cup Names(requests)
    /\ UNCHANGED <<streamVars, rests, queue, history>> /\ NoDispatch

(* The timer: as many as the rate limiter leaves after the order books.    *)
CheckRequestQueue ==
    /\ rest = "READY"
    /\ \E n \in 1..Len(queue) :
          /\ requests' = requests \o SubSeq(queue, 1, n)
          /\ queue' = SubSeq(queue, n + 1, Len(queue))
    /\ UNCHANGED <<streamVars, rest, rests, history, failed>> /\ NoDispatch

(* get_candlesticks_ack: an error is only logged.                          *)
CandlesticksError ==
    /\ Cardinality(failed) < MaxErrors
    /\ \E i \in DOMAIN requests :
          /\ requests' = RemoveAt(requests, i)
          /\ failed' = failed \cup {requests[i]}
    /\ UNCHANGED <<streamVars, rest, rests, queue, history>> /\ NoDispatch

(* All bars become one update, an empty one as well.                       *)
CandlesticksAck ==
    \E i \in DOMAIN requests, n \in 0..MaxItems :
        LET items == [j \in 1..n |-> [symbol |-> requests[i], confirmed |-> TRUE]] IN
            /\ requests' = RemoveAt(requests, i)
            /\ history' = history \cup {requests[i]}
            /\ bars' = <<>>
            /\ Dispatch("history", items, <<Update(requests[i], items, 0)>>)
            /\ UNCHANGED <<streamVars, rest, rests, queue, failed, messages, trades>>

Init ==
    /\ symbols = <<>>
    /\ stream = "DISCONNECTED" /\ streams = 0 /\ subscribed = {} /\ messages = 0
    /\ rest = "DISCONNECTED" /\ rests = 0 /\ requests = <<>>
    /\ queue = <<>> /\ history = {} /\ failed = {}
    /\ trades = <<>> /\ bars = <<>>
    /\ message = [channel |-> "none", items |-> <<>>] /\ updates = <<>>

(* Parser::dispatch: the channel of an update has its handler.             *)
ParserDispatch == Tickers \/ Trades \/ BookTicker \/ Candlesticks

Next ==
    \/ StreamReady \/ StreamDisconnected \/ SymbolsUpdate \/ ParserDispatch
    \/ RestReady \/ RestDisconnected \/ CheckRequestQueue
    \/ CandlesticksError \/ CandlesticksAck

Spec == Init /\ [][Next]_vars

-----------------------------------------------------------------------------
(* Every update is of one contract and has something to say, with the time *)
(* of its last trade, and the updates one after the other have the items   *)
(* of the message that are passed on, each once, in order and under its    *)
(* contract, and nothing of an earlier message (Trades and Candlesticks    *)
(* with the vectors of Shared).                                            *)
Passed(item) == message.channel = "candlesticks" => Wanted(item)

(* Where an item is: in which update, and where in it.                     *)
Places(us) == UNION {{i} \X DOMAIN us[i].items : i \in DOMAIN us}

Before(p, q) == p[1] < q[1] \/ (p[1] = q[1] /\ p[2] < q[2])

At(us, p) == us[p[1]].items[p[2]]

UpdatesAreWhole ==
    /\ \A i \in DOMAIN updates :
          LET u == updates[i] IN
              /\ \A j \in DOMAIN u.items : u.items[j].symbol = u.symbol
              /\ u.items # <<>> \/ message.channel = "history"
              /\ message.channel = "trades" =>
                    u.time = Max({u.items[j].time : j \in DOMAIN u.items})
    /\ \E place \in Surjection({k \in DOMAIN message.items : Passed(message.items[k])},
                               Places(updates)) :
          \A k, l \in DOMAIN place :
              /\ At(updates, place[k]) = message.items[k]
              /\ k < l => Before(place[k], place[l])

(* The history of every contract with bars in the stream is queued, asked  *)
(* for or published since the stream subscribed it, over new sessions of   *)
(* either connection and contracts that are added, unless a request for it *)
(* failed, which nobody repeats (get_candlesticks_ack).                    *)
HistoryIsAwaited ==
    TimeSeriesLookback =>
        subscribed \subseteq Names(queue) \cup Names(requests) \cup history \cup failed
=============================================================================
