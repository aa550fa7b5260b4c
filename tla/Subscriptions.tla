---------------------------- MODULE Subscriptions ----------------------------
(***************************************************************************)
(* How a contract of the exchange becomes a subscription: the download of  *)
(* the public REST connection (gateway/rest.cpp), the symbols the gateway  *)
(* and its clients ask for (gateway/controller.cpp, gateway/shared.hpp)    *)
(* and the market data streams, each with a slice of the symbols           *)
(* (gateway/market_data.cpp).                                              *)
(*                                                                         *)
(* Every handler runs to completion on one thread and is one action.       *)
(* core::Symbols and core::Download are not in the repository and are      *)
(* modelled from how they are used.                                        *)
(***************************************************************************)
EXTENDS Naturals, Sequences, FiniteSets, Functions

CONSTANTS
    Symbols,            \* the contracts
    Discarded,          \* the symbols the dispatcher discards
    Wanted,             \* what a client may subscribe to
    SliceSize,          \* flag ws.max_subscriptions_per_stream
    DisableCurrencies,  \* flag rest.disable_currencies_download
    MaxConnects,        \* bound: how often each connection is made
    MaxErrors           \* bound: failed requests

ASSUME SubscriptionsAssumption ==
    /\ IsFiniteSet(Symbols)
    /\ Discarded \subseteq Symbols
    /\ Wanted \subseteq Symbols
    /\ SliceSize \in Nat \ {0}
    /\ DisableCurrencies \in BOOLEAN
    /\ MaxConnects \in Nat
    /\ MaxErrors \in Nat

VARIABLES
    listed,             \* the contracts of the exchange
    rest,               \* the connection of Rest
    rest_connects,      \* how often it was made
    rest_status,        \* Rest::connection_status_
    state,              \* Rest::download_.state()
    sequence,           \* Rest::download_.sequence()
    requests,           \* the requests of the download without an answer
    errors,             \* how many failed
    all_symbols,        \* Shared::all_symbols
    symbols,            \* Shared::symbols, in the order they were added
    market_data         \* Controller::market_data_

vars == <<listed, rest, rest_connects, rest_status, state, sequence, requests,
          errors, all_symbols, symbols, market_data>>

restVars == <<rest, rest_connects, rest_status, state, sequence, requests, errors>>
feedVars == <<all_symbols, symbols, market_data>>

Request(s, n) == [state |-> s, sequence |-> n]

Later(a, b) == IF a < b THEN b ELSE a

(* The orders in which a set may be listed.                                *)
Orderings(S) ==
    {q \in [1..Cardinality(S) -> S] : \A i, j \in DOMAIN q : q[i] = q[j] => i = j}

-----------------------------------------------------------------------------
(* core::Symbols: stream i has the symbols from (i - 1) * SliceSize on.    *)

Slices(all) == (Len(all) + SliceSize - 1) \div SliceSize

(* get_slice: those of stream i that were added after the first n.         *)
Slice(all, i, n) ==
    SubSeq(all, Later((i - 1) * SliceSize, n) + 1,
           IF i * SliceSize < Len(all) THEN i * SliceSize ELSE Len(all))

NewStream == [status |-> "DISCONNECTED", subscribed |-> <<>>, connects |-> 0]

(* Mutant: a ready stream subscribes its whole slice again.                *)
SubscribeAll(stream, all, i, n) ==
    IF stream.status = "READY"
    THEN [stream EXCEPT !.subscribed = @ \o Slice(all, i, 0)]
    ELSE stream

(* MarketData::subscribe: a stream that is not ready waits until it is.    *)
SubscribeStream(stream, all, i, n) ==
    IF stream.status = "READY"
    THEN [stream EXCEPT !.subscribed = @ \o Slice(all, i, n)]
    ELSE stream

(* SymbolsUpdate: the symbols are added, missing streams are created, and  *)
(* every stream subscribes what is new in its slice.                       *)
SymbolsUpdate(new) ==
    LET all == symbols \o new
    IN  /\ symbols' = all
        /\ market_data' =
              [i \in 1..Later(Len(market_data), Slices(all)) |->
                  SubscribeStream(IF i \in DOMAIN market_data
                                  THEN market_data[i] ELSE NewStream,
                                  all, i, Len(symbols))]

-----------------------------------------------------------------------------
(* core::Download: enter the next state that has something to request.     *)

Next0 == [UNDEFINED |-> "CURRENCIES", CURRENCIES |-> "CONTRACTS", CONTRACTS |-> "DONE"]

Enter(s) ==
    LET t == IF Next0[s] = "CURRENCIES" /\ DisableCurrencies
             THEN "CONTRACTS" ELSE Next0[s]
    IN  /\ state' = t
        /\ sequence' = sequence + 1
        /\ rest_status' = IF t = "DONE" THEN "READY" ELSE "DOWNLOADING"

(* Mutant: a download that has not begun counts as one that goes on.       *)
NotDone == state # "DONE"

Downloading == state \in {"CURRENCIES", "CONTRACTS"}

Skip(r) == r.sequence # sequence \/ r.state # state

(* The request of the state that was entered, and those of before.         *)
Await(others) ==
    requests' = others \cup (IF state' = "DONE" THEN {} ELSE {Request(state', sequence')})

Init ==
    /\ listed \in SUBSET Symbols
    /\ rest = "down" /\ rest_connects = 0 /\ rest_status = "DISCONNECTED"
    /\ state = "UNDEFINED" /\ sequence = 0 /\ requests = {} /\ errors = 0
    /\ all_symbols = {} /\ symbols = <<>> /\ market_data = <<>>

(***************************************************************************)
(* Rest.                                                                   *)
(***************************************************************************)
(* Mutant: a download that was interrupted is not taken up again.          *)
NotTakenUp ==
    /\ rest = "down"
    /\ rest_connects < MaxConnects
    /\ rest' = "up" /\ rest_connects' = rest_connects + 1
    /\ IF Downloading
       THEN UNCHANGED <<rest_status, state, sequence, requests>>
       ELSE Enter("UNDEFINED") /\ Await(requests)
    /\ UNCHANGED <<listed, errors, feedVars>>

(* A download that was interrupted goes on with its last request (bump);   *)
(* its status is not published again.                                      *)
Connected ==
    /\ rest = "down"
    /\ rest_connects < MaxConnects
    /\ rest' = "up" /\ rest_connects' = rest_connects + 1
    /\ IF Downloading
       THEN /\ sequence' = sequence + 1
            /\ requests' = requests \cup {Request(state, sequence')}
            /\ UNCHANGED <<rest_status, state>>
       ELSE Enter("UNDEFINED") /\ Await(requests)
    /\ UNCHANGED <<listed, errors, feedVars>>

(* Requests under way may be lost with the connection, or fail later.      *)
Disconnected ==
    /\ rest = "up"
    /\ rest_connects < MaxConnects
    /\ rest' = "down" /\ rest_status' = "DISCONNECTED"
    /\ state' = IF Downloading THEN state ELSE "UNDEFINED"
    /\ requests' \in SUBSET requests
    /\ UNCHANGED <<listed, rest_connects, sequence, errors, feedVars>>

(* get_currencies_ack: the currencies are of no use.                       *)
CurrenciesAck(r) ==
    /\ rest = "up"
    /\ r \in requests /\ r.state = "CURRENCIES"
    /\ IF Skip(r)
       THEN requests' = requests \ {r} /\ UNCHANGED <<rest_status, state, sequence>>
       ELSE Enter("CURRENCIES") /\ Await(requests \ {r})
    /\ UNCHANGED <<listed, rest, rest_connects, errors, feedVars>>

(* Mutant: contracts that are known already are added again.               *)
AnyContracts(S) == S \ Discarded

(* ContractsAck: new symbols that are not discarded.                       *)
NewContracts(S) == (S \ Discarded) \ all_symbols

(* get_contracts_ack: an update is only sent when there are new symbols.   *)
ContractsAck(r) ==
    /\ rest = "up"
    /\ r \in requests /\ r.state = "CONTRACTS"
    /\ IF Skip(r)
       THEN /\ requests' = requests \ {r}
            /\ UNCHANGED <<rest_status, state, sequence, feedVars>>
       ELSE /\ \E new \in Orderings(NewContracts(listed)) :
                  /\ all_symbols' = all_symbols \cup Range(new)
                  /\ IF new # <<>> THEN SymbolsUpdate(new)
                     ELSE UNCHANGED <<symbols, market_data>>
            /\ Enter("CONTRACTS") /\ Await(requests \ {r})
    /\ UNCHANGED <<listed, rest, rest_connects, errors>>

(* Mutant: a request that failed is not repeated.                          *)
GiveUp(r) ==
    /\ errors < MaxErrors
    /\ errors' = errors + 1
    /\ r \in requests
    /\ requests' = requests \ {r}
    /\ UNCHANGED <<listed, rest, rest_connects, rest_status, state, sequence, feedVars>>

(* An error of any request, an earlier one as well, repeats the request of *)
(* its state if the download is still there (retry).                       *)
RequestError(r) ==
    /\ errors < MaxErrors
    /\ errors' = errors + 1
    /\ r \in requests
    /\ IF state = r.state
       THEN /\ sequence' = sequence + 1
            /\ requests' = (requests \ {r}) \cup {Request(state, sequence')}
       ELSE requests' = requests \ {r} /\ UNCHANGED sequence
    /\ UNCHANGED <<listed, rest, rest_connects, rest_status, state, feedVars>>

(***************************************************************************)
(* A client subscribes: what is known already is only warned about.        *)
(***************************************************************************)
Subscribe(S) ==
    /\ \E new \in Orderings(S \ all_symbols) : SymbolsUpdate(new)
    /\ all_symbols' = all_symbols \cup S
    /\ UNCHANGED <<listed, restVars>>

(***************************************************************************)
(* The market data streams.                                                *)
(***************************************************************************)
StreamReady(i) ==
    /\ market_data[i].status = "DISCONNECTED"
    /\ market_data[i].connects < MaxConnects
    /\ LET up == [market_data[i] EXCEPT !.status = "READY", !.connects = @ + 1]
       IN  market_data' = [market_data EXCEPT ![i] = SubscribeStream(up, symbols, i, 0)]
    /\ UNCHANGED <<listed, restVars, all_symbols, symbols>>

(* The exchange forgets the subscriptions of a socket that goes down.      *)
StreamDisconnected(i) ==
    /\ market_data[i].status = "READY"
    /\ market_data[i].connects < MaxConnects
    /\ market_data' = [market_data EXCEPT ![i].status = "DISCONNECTED", ![i].subscribed = <<>>]
    /\ UNCHANGED <<listed, restVars, all_symbols, symbols>>

(* The exchange lists another contract.                                    *)
List(s) ==
    /\ s \notin listed
    /\ listed' = listed \cup {s}
    /\ UNCHANGED <<restVars, feedVars>>

-----------------------------------------------------------------------------
RestNext ==
    \/ Connected \/ Disconnected
    \/ \E r \in requests : CurrenciesAck(r) \/ ContractsAck(r) \/ RequestError(r)

StreamNext == \E i \in DOMAIN market_data : StreamReady(i) \/ StreamDisconnected(i)

Next ==
    \/ RestNext \/ StreamNext
    \/ \E S \in SUBSET Wanted : Subscribe(S)
    \/ \E s \in Symbols : List(s)

Spec == Init /\ [][Next]_vars

(***************************************************************************)
(* The event loop polls the sockets, the connection managers reconnect,    *)
(* and the exchange answers what was asked.                                *)
(***************************************************************************)
Fairness ==
    /\ WF_vars(Connected)
    /\ WF_vars(\E r \in requests : CurrenciesAck(r) \/ ContractsAck(r))
    /\ WF_vars(\E i \in DOMAIN market_data : StreamReady(i))

FairSpec == Spec /\ Fairness

-----------------------------------------------------------------------------
Stream ==
    [status : {"DISCONNECTED", "READY"}, subscribed : Seq(Symbols), connects : 0..MaxConnects]

(* Every variable has its type.                                            *)
TypeOK ==
    /\ listed \subseteq Symbols
    /\ rest \in {"down", "up"}
    /\ rest_connects \in 0..MaxConnects
    /\ rest_status \in {"DISCONNECTED", "DOWNLOADING", "READY"}
    /\ state \in {"UNDEFINED", "CURRENCIES", "CONTRACTS", "DONE"}
    /\ sequence \in Nat
    /\ requests \subseteq [state : {"CURRENCIES", "CONTRACTS"}, sequence : Nat]
    /\ errors \in 0..MaxErrors
    /\ all_symbols \subseteq Symbols
    /\ symbols \in Seq(Symbols)
    /\ market_data \in Seq(Stream)

(* Every symbol that was added, by the download or by a client, is in one  *)
(* slice, once, and every slice has its stream.                            *)
EverySymbolHasAStream ==
    /\ Range(symbols) = all_symbols
    /\ \A i, j \in DOMAIN symbols : symbols[i] = symbols[j] => i = j
    /\ Len(market_data) = Slices(symbols)

(* A ready stream has subscribed all of its slice and nothing twice,       *)
(* whether a symbol came before or after the stream was ready.             *)
ReadyIsSubscribed ==
    \A i \in DOMAIN market_data :
        market_data[i].subscribed =
            IF market_data[i].status = "READY" THEN Slice(symbols, i, 0) ELSE <<>>

(* While the connection is up, a download that is not done waits for an    *)
(* answer it will not skip; and after it is done, no answer is applied.    *)
DownloadIsAwaited ==
    /\ (rest = "up" /\ state # "DONE") =>
          Downloading /\ \E r \in requests : ~Skip(r)
    /\ ~Downloading => \A r \in requests : Skip(r)

(* A contract that is there when the gateway starts and is not discarded   *)
(* is in the end subscribed for good.                                      *)
EventuallySubscribed ==
    \A s \in Symbols \ Discarded :
        s \in listed =>
            <>[](\E i \in DOMAIN market_data : s \in Range(market_data[i].subscribed))
=============================================================================
