-------------------------- MODULE AccountDataProofs --------------------------
(***************************************************************************)
(* The private REST connection (OrderEntry): its types, its invariants,    *)
(* and that its steps are those of RequestService.  And the data of an     *)
(* account (AccountData): composed with the sessions of the websocket the  *)
(* steps are still those of OrderEntry, and nothing is missed.             *)
(***************************************************************************)
EXTENDS AccountData, FiniteSetTheorems, SequenceTheorems, TLAPS

USE DEF Kinds

LEMMA LookbackType == first \in BOOLEAN => Lookback \in Nat
BY OrderEntryAssumption DEF Lookback

(* The initial values have their types.                                    *)
LEMMA InitType == Init => TypeOK
BY OrderEntryAssumption DEF Init, TypeOK

(* The timer in its two forms: nothing is sent, or one kind that was ready.*)
LEMMA TimerSteps ==
    ASSUME Timer
    PROVE  /\ \/ \E k \in Kinds : Sendable(k) /\ Sent(k)
              \/ UNCHANGED <<request, trades>>
           /\ UNCHANGED <<connection, asked>>
BY DEF Timer

(* What is left of the limit after a timer.                                *)
LEMMA TimerLimiter ==
    ASSUME TypeOK, Timer
    PROVE  backlog' \in Nat /\ budget' \in 0..RequestLimit
<1>1. PICK n \in PublicRequests :
         /\ backlog' = backlog - n
         /\ \/ budget - n > 0 /\ budget' = budget - n - 1
            \/ budget' = budget - n
  BY DEF Timer
<1>2. n \in Nat /\ n <= backlog /\ n <= budget
  BY OrderEntryAssumption DEF TypeOK, PublicRequests
<1>3. QED BY <1>1, <1>2, OrderEntryAssumption DEF TypeOK

(* Every step keeps the types.                                             *)
LEMMA NextType == TypeOK /\ [Next]_vars => TypeOK'
<1> SUFFICES ASSUME TypeOK, [Next]_vars PROVE TypeOK'
  OBVIOUS
<1>1. CASE Connected
  BY <1>1, OrderEntryAssumption DEF Connected, TypeOK, request, trades, limiter
<1>2. CASE Disconnected
  BY <1>2 DEF Disconnected, TypeOK, request, trades, limiter
<1>3. CASE Timer
  <2>1. backlog' \in Nat /\ budget' \in 0..RequestLimit
    BY <1>3, TimerLimiter
  <2>2. CASE UNCHANGED <<request, trades>>
    BY <1>3, <2>1, <2>2, TimerSteps DEF TypeOK, request, trades, connection
  <2>3. ASSUME NEW k \in Kinds, Sent(k)
        PROVE  TypeOK'
    <3>1. lookback' \in Nat
      BY <2>3, LookbackType DEF Sent, TypeOK
    <3>2. QED BY <1>3, <2>1, <2>3, <3>1, TimerSteps DEF Sent, TypeOK, connection
  <2>4. QED BY <1>3, <2>2, <2>3, TimerSteps
<1>4. CASE Interval
  BY <1>4, OrderEntryAssumption DEF Interval, TypeOK, request, trades, connection
<1>5. CASE Queue
  BY <1>5, OrderEntryAssumption DEF Queue, TypeOK, request, trades, connection
<1>6. ASSUME NEW k \in Kinds, Ask(k) PROVE TypeOK'
  <2>1. asks' \in 0..MaxAsks
    BY <1>6, OrderEntryAssumption DEF Ask, TypeOK
  <2>2. requested' \subseteq Kinds /\ responded' \subseteq Kinds
    BY <1>6 DEF Ask, TypeOK
  <2>3. QED BY <1>6, <2>1, <2>2 DEF Ask, TypeOK, trades, connection, limiter
<1>7. ASSUME NEW k \in Kinds, AckSuccess(k) PROVE TypeOK'
  <2>1. covered' \in Nat
    BY <1>7 DEF AckSuccess, TypeOK, Longest
  <2>2. first' \in BOOLEAN
    BY <1>7 DEF AckSuccess, TypeOK
  <2>3. in_flight' \subseteq Kinds /\ responded' \subseteq Kinds
    BY <1>7 DEF AckSuccess, TypeOK
  <2>4. QED BY <1>7, <2>1, <2>2, <2>3 DEF AckSuccess, TypeOK, connection, limiter
<1>8. ASSUME NEW k \in Kinds, AckError(k) PROVE TypeOK'
  BY <1>8 DEF AckError, TypeOK, trades, connection, limiter
<1>9. CASE UNCHANGED vars
  BY <1>9 DEF TypeOK, vars
<1>10. QED BY <1>1, <1>2, <1>3, <1>4, <1>5, <1>6, <1>7, <1>8, <1>9 DEF Next

(* The variables of OrderEntry always have their types.                    *)
THEOREM OrderEntryTypeCorrect == Spec => []TypeOK
BY InitType, NextType, PTL DEF Spec

-----------------------------------------------------------------------------
(* How a step changes what is in flight.                                   *)
LEMMA InFlightSteps ==
    ASSUME [Next]_vars
    PROVE  \/ in_flight' \subseteq in_flight
           \/ \E k \in Kinds : in_flight = {} /\ in_flight' = {k}
<1>1. CASE Timer
  BY <1>1, TimerSteps DEF Sendable, Ready, Sent, request
<1>2. CASE Connected \/ Disconnected \/ Interval \/ Queue \/ UNCHANGED vars
  BY <1>2 DEF Connected, Disconnected, Interval, Queue, vars, request
<1>3. ASSUME NEW k \in Kinds, Ask(k) \/ AckSuccess(k) \/ AckError(k)
      PROVE  in_flight' \subseteq in_flight
  BY <1>3 DEF Ask, AckSuccess, AckError
<1>4. QED BY <1>1, <1>2, <1>3 DEF Next

(* The account never has two requests under way.                           *)
THEOREM OneRequestAtATime == Spec => []OneAtATime
<1>1. Init => OneAtATime
  BY FS_EmptySet DEF Init, OneAtATime
<1>2. TypeOK /\ OneAtATime /\ [Next]_vars => OneAtATime'
  <2> SUFFICES ASSUME TypeOK, OneAtATime, [Next]_vars PROVE OneAtATime'
    OBVIOUS
  <2>1. CASE in_flight' \subseteq in_flight
    <3>1. IsFiniteSet(Kinds)
      <4>1. Kinds = ({"balances"} \cup {"positions"}) \cup {"trades"}
        OBVIOUS
      <4>2. IsFiniteSet({"balances"} \cup {"positions"})
        BY FS_Singleton, FS_AddElement
      <4>3. IsFiniteSet(({"balances"} \cup {"positions"}) \cup {"trades"})
        BY <4>2, FS_AddElement
      <4>4. QED BY <4>1, <4>3
    <3>2. IsFiniteSet(in_flight)
      BY <3>1, FS_Subset DEF TypeOK
    <3>3. Cardinality(in_flight) \in Nat /\ Cardinality(in_flight') \in Nat
          /\ Cardinality(in_flight') <= Cardinality(in_flight)
      BY <2>1, <3>2, FS_Subset, FS_CardinalityType
    <3>4. QED BY <3>3 DEF OneAtATime
  <2>2. ASSUME NEW k \in Kinds, in_flight' = {k} PROVE OneAtATime'
    BY <2>2, FS_Singleton DEF OneAtATime
  <2>3. QED BY <2>1, <2>2, InFlightSteps
<1>3. QED BY <1>1, <1>2, OrderEntryTypeCorrect, PTL DEF Spec

-----------------------------------------------------------------------------
(* Why the first trades reach back far enough: until they are there, every *)
(* trades request has the longer lookback, and it is never forgotten.      *)
Reach ==
    RestartLookback > TradesLookback =>
        /\ lookback \in {0, TradesLookback, RestartLookback}
        /\ first => covered = 0
        /\ (first /\ "trades" \in in_flight) => lookback = RestartLookback
        /\ ~first => covered = RestartLookback

(* How a step changes the variables Reach is about.                        *)
LEMMA ReachSteps ==
    ASSUME TypeOK, [Next]_vars
    PROVE  \/ UNCHANGED trades /\ ("trades" \in in_flight' => "trades" \in in_flight)
           \/ lookback' = Lookback /\ UNCHANGED <<first, covered>>
           \/ /\ "trades" \in in_flight /\ "trades" \notin in_flight'
              /\ first' = FALSE /\ covered' = Longest(covered, lookback)
              /\ UNCHANGED lookback
<1>1. CASE Timer
  <2>1. CASE UNCHANGED <<request, trades>>
    BY <2>1 DEF request
  <2>2. ASSUME NEW k \in Kinds, Sent(k)
        PROVE  \/ UNCHANGED trades /\ ("trades" \in in_flight' => "trades" \in in_flight)
               \/ lookback' = Lookback /\ UNCHANGED <<first, covered>>
    BY <2>2 DEF Sent, trades
  <2>3. QED BY <1>1, <2>1, <2>2, TimerSteps
<1>2. CASE Connected \/ Disconnected \/ Interval \/ Queue \/ UNCHANGED vars
  BY <1>2 DEF Connected, Disconnected, Interval, Queue, vars, request, trades
<1>3. ASSUME NEW k \in Kinds, Ask(k) \/ AckError(k)
      PROVE  UNCHANGED trades /\ ("trades" \in in_flight' => "trades" \in in_flight)
  BY <1>3 DEF Ask, AckError, trades
<1>4. ASSUME NEW k \in Kinds, AckSuccess(k)
      PROVE  \/ UNCHANGED trades /\ ("trades" \in in_flight' => "trades" \in in_flight)
             \/ /\ "trades" \in in_flight /\ "trades" \notin in_flight'
                /\ first' = FALSE /\ covered' = Longest(covered, lookback)
                /\ UNCHANGED lookback
  BY <1>4 DEF AckSuccess, trades
<1>5. QED BY <1>1, <1>2, <1>3, <1>4 DEF Next

LEMMA ReachAlways == Spec => []Reach
<1>1. Init => Reach
  BY DEF Init, Reach
<1>2. TypeOK /\ Reach /\ [Next]_vars => Reach'
  <2> SUFFICES ASSUME TypeOK, Reach, [Next]_vars, RestartLookback > TradesLookback
               PROVE  /\ lookback' \in {0, TradesLookback, RestartLookback}
                      /\ first' => covered' = 0
                      /\ (first' /\ "trades" \in in_flight') => lookback' = RestartLookback
                      /\ ~first' => covered' = RestartLookback
    BY DEF Reach
  <2>0. RestartLookback \in Nat /\ TradesLookback \in Nat /\ RestartLookback # 0
    BY OrderEntryAssumption
  <2>1. CASE UNCHANGED trades /\ ("trades" \in in_flight' => "trades" \in in_flight)
    BY <2>1 DEF Reach, trades
  <2>2. CASE lookback' = Lookback /\ UNCHANGED <<first, covered>>
    BY <2>0, <2>2 DEF Reach, Lookback, TypeOK
  <2>3. CASE /\ "trades" \in in_flight /\ "trades" \notin in_flight'
             /\ first' = FALSE /\ covered' = Longest(covered, lookback)
             /\ UNCHANGED lookback
    <3>1. lookback \in {0, TradesLookback, RestartLookback}
      BY DEF Reach
    <3>2. covered \in {0, RestartLookback}
      BY DEF Reach, TypeOK
    <3>3. covered = 0 => lookback = RestartLookback
      BY <2>0, <2>3 DEF Reach, TypeOK
    <3>4. covered' = RestartLookback
      BY <2>0, <2>3, <3>1, <3>2, <3>3 DEF Longest
    <3>5. QED BY <2>3, <3>1, <3>4
  <2>4. QED BY <2>1, <2>2, <2>3, ReachSteps
<1>3. QED BY <1>1, <1>2, OrderEntryTypeCorrect, PTL DEF Spec

(* The first trades that are downloaded reach back as far as configured.   *)
THEOREM RestartAlwaysCovered == Spec => []RestartCovered
<1>1. TypeOK /\ Reach => RestartCovered
  BY DEF TypeOK, Reach, RestartCovered
<1>2. QED BY <1>1, ReachAlways, OrderEntryTypeCorrect, PTL

-----------------------------------------------------------------------------
(* OrderEntry does what RequestService allows: asking makes a kind         *)
(* pending, an answer makes it done, and sending is not seen.              *)
THEOREM ImplementsRequestService == Spec => Service!Spec
<1>1. Init => Service!Init
  BY DEF Init, Service!Init, Status
<1>2. [Next]_vars => [Service!Next]_Status
  <2> SUFFICES ASSUME [Next]_vars PROVE [Service!Next]_Status
    OBVIOUS
  <2>1. CASE UNCHANGED request
    BY <2>1 DEF request, Status
  <2>2. ASSUME NEW k \in Kinds, Sendable(k), Sent(k) PROVE UNCHANGED Status
    BY <2>2 DEF Sendable, Sent, Status
  <2>3. ASSUME NEW k \in Kinds, Ask(k) PROVE Service!Ask(k)
    BY <2>3 DEF Ask, Service!Ask, Status
  <2>4. ASSUME NEW k \in Kinds, AckSuccess(k) \/ AckError(k)
        PROVE  Service!Commit(k) \/ UNCHANGED Status
    BY <2>4 DEF AckSuccess, AckError, Service!Commit, Status
  <2>5. CASE Connected \/ Disconnected \/ Interval \/ Queue \/ UNCHANGED vars
    BY <2>1, <2>5 DEF Connected, Disconnected, Interval, Queue, vars, request
  <2>6. CASE Timer
    BY <2>1, <2>2, <2>6, TimerSteps DEF request
  <2>7. QED BY <2>2, <2>3, <2>4, <2>5, <2>6 DEF Next, Service!Next
<1>3. QED BY <1>1, <1>2, PTL DEF Spec, Service!Spec

-----------------------------------------------------------------------------
(* AccountData: the sessions of the websocket only ask.                    *)

(* Entering a state asks or does nothing else.                             *)
LEMMA EnterSteps ==
    ASSUME NEW t, Enter(t)
    PROVE  /\ stage' = t
           /\ UNCHANGED vars \/ \E k \in Kinds : Ask(k)
           /\ requested \subseteq requested' /\ in_flight' = in_flight
           /\ AsksAgain /\ t = "GET_POSITIONS" => "positions" \in requested'
           /\ AsksAgain /\ t = "GET_TRADES" => "trades" \in requested'
<1>1. CASE t \in DOMAIN RequestState
  <2>1. RequestState[t] \in Kinds
    BY <1>1 DEF RequestState
  <2>2. Ask(RequestState[t])
    BY <1>1 DEF Enter
  <2>3. AsksAgain => RequestState[t] \in requested'
    BY <1>1 DEF Enter
  <2>4. /\ t = "GET_POSITIONS" => RequestState[t] = "positions"
        /\ t = "GET_TRADES" => RequestState[t] = "trades"
    BY DEF RequestState
  <2> QED BY <2>1, <2>2, <2>3, <2>4 DEF Enter, Ask
<1>2. CASE t \notin DOMAIN RequestState
  <2>1. t # "GET_POSITIONS" /\ t # "GET_TRADES"
    BY <1>2 DEF RequestState
  <2> QED BY <1>2, <2>1 DEF Enter, vars
<1> QED BY <1>1, <1>2

(* What a step of the composed system is to OrderEntry.                    *)
LEMMA DataStepIsStep == [DataNext]_allVars => [Next]_vars
<1> SUFFICES ASSUME [DataNext]_allVars PROVE [Next]_vars
  OBVIOUS
<1>1. CASE TradeLogin \/ TradeSubscribe \/ CheckRequestQueue
  <2>1. \E t : Enter(t)
    BY <1>1 DEF TradeLogin, TradeSubscribe, CheckRequestQueue
  <2> QED BY <2>1, EnterSteps DEF Next
<1>2. CASE SocketDisconnected \/ TradePositions \/ TradeTrades \/ ExchangeSubscribe
           \/ ExchangeFill \/ Age \/ (\E k \in Kinds : ExchangeAnswer(k)) \/ UNCHANGED allVars
  <2>1. UNCHANGED vars
    BY <1>2 DEF SocketDisconnected, TradePositions, TradeTrades, ExchangeSubscribe,
                ExchangeFill, Age, ExchangeAnswer, allVars
  <2> QED BY <2>1
<1>3. CASE \/ RestStep(Connected) \/ RestStep(Disconnected)
           \/ RestStep(Timer) \/ RestStep(Interval) \/ RestStep(Queue)
  BY <1>3 DEF RestStep, Next
<1>4. CASE \E k \in Kinds : Answered(k) \/ NotAnswered(k)
  BY <1>4 DEF Answered, NotAnswered, Next
<1> QED BY <1>1, <1>2, <1>3, <1>4 DEF DataNext

(* With the sessions that ask it, the REST connection behaves as OrderEntry*)
(* says, so what holds of OrderEntry holds of the account.                 *)
THEOREM AccountDoesOrderEntry == DataSpec => Spec
<1>1. DataInit => Init
  BY DEF DataInit
<1> QED BY <1>1, DataStepIsStep, PTL DEF DataSpec, Spec

-----------------------------------------------------------------------------
(* The types of AccountData.  No frame and no answer is ahead of the       *)
(* exchange, and one is composed only for a request that is in flight.     *)

Frame == [channel : Kinds, fill : Nat]

IsPosition(p) == p = PositionUpdate(p.at) /\ p.at \in Nat /\ p.at <= executed

DataTypes ==
    /\ stage \in DOMAIN Successor \cup {"DONE"}
    /\ inbox \in Seq(Frame)
    /\ \A i \in DOMAIN inbox : inbox[i].fill <= executed
    /\ subscribed \subseteq Kinds
    /\ executed \in Nat /\ Earlier <= executed /\ executed <= Len(Sizes)
    /\ old \in Nat /\ old <= executed
    /\ position = [s \in Sources |-> position[s]]
    /\ \A s \in Sources : IsPosition(position[s])

(* An answer that was composed: the fills after the first number, up to    *)
(* the second.                                                             *)
Window == {w \in Nat \X Nat : w[2] <= executed}

AnswersInFlight ==
    /\ composed \in [Kinds -> {<<>>} \cup Window]
    /\ \A k \in Kinds : composed[k] # <<>> => k \in in_flight

(* While a channel is not acknowledged, the session waits for just that.   *)
Acks ==
    /\ \A i \in DOMAIN inbox : inbox[i].fill = 0 =>
          /\ stage \in DOMAIN SubscribeState
          /\ inbox[i].channel = SubscribeState[stage]
          /\ inbox[i].channel \in subscribed
    /\ \A i, j \in DOMAIN inbox : inbox[i].fill = 0 /\ inbox[j].fill = 0 => i = j

(* The states in which a channel is subscribed and its kind was asked for. *)
PastPositions == {"GET_POSITIONS", "SUBSCRIBE_TRADES", "GET_TRADES", "DONE"}

PastTrades == {"GET_TRADES", "DONE"}

ChannelsSubscribed ==
    /\ stage \in PastPositions => "positions" \in subscribed
    /\ stage \in PastTrades => "trades" \in subscribed

Pushed(c, n) == \E i \in DOMAIN inbox : inbox[i] = [channel |-> c, fill |-> n]

(* There will be an answer that is composed after now, or there was none.  *)
Awaiting(k) ==
    \/ k \in requested
    \/ k \in in_flight /\ composed[k] = <<>>
    \/ k \in failed /\ k \notin in_flight

(* The positions of one source arrive in the order of their fills: those   *)
(* that are pushed and the answers, each of them.                          *)
IsPush(f) == f.channel = "positions" /\ f.fill # 0

PushesInOrder(q) ==
    /\ \A i \in DOMAIN q : IsPush(q[i]) => position["INCREMENTAL"].at <= q[i].fill
    /\ \A i, j \in DOMAIN q : i < j /\ IsPush(q[i]) /\ IsPush(q[j]) => q[i].fill <= q[j].fill

PositionsInOrder ==
    /\ PushesInOrder(inbox)
    /\ composed["positions"] # <<>> => position["SNAPSHOT"].at <= composed["positions"][2]

(* The account's position was dispatched, or is on its way, or will be.    *)
PositionsFollow ==
    stage \in PastPositions =>
        \/ \E s \in Sources : position[s].at = executed
        \/ executed # 0 /\ Pushed("positions", executed)
        \/ Awaiting("positions")
        \/ composed["positions"] # <<>> /\ composed["positions"][2] = executed

(* The first trades that came reach back to before the start.              *)
Restarted ==
    RestartLookback > TradesLookback =>
        /\ ~first => TradeUpdates(1 .. Earlier) \subseteq known
        /\ (first /\ composed["trades"] # <<>>) =>
              composed["trades"][1] = 0 /\ composed["trades"][2] >= Earlier

(* A fill that is to be known: not too old, or of before the start.        *)
Wanted(f) == f > old \/ (f <= Earlier /\ RestartLookback > TradesLookback)

(* Such a fill is known, or is on its way, or will be.                     *)
TradesFollow ==
    stage \in PastTrades =>
        \A f \in TradeUpdates(1 .. executed) : Wanted(f) =>
            \/ f \in known
            \/ Pushed("trades", f)
            \/ Awaiting("trades")
            \/ /\ composed["trades"] # <<>>
               /\ composed["trades"][1] < f /\ f <= composed["trades"][2]

DataInv ==
    /\ DataTypes /\ AnswersInFlight /\ Acks /\ ChannelsSubscribed
    /\ PositionsInOrder /\ PositionsFollow /\ Restarted /\ TradesFollow

USE DEF Frame, Window, PastPositions, PastTrades

-----------------------------------------------------------------------------
(* A position.                                                             *)

LEMMA SizeType ==
    ASSUME NEW n \in Nat, n <= Len(Sizes)
    PROVE  Size(n) \in Int
BY AccountDataAssumption DEF Size

LEMMA PositionHasSize ==
    ASSUME NEW n \in Nat, n <= Len(Sizes)
    PROVE  /\ PositionUpdate(n).at = n
           /\ PositionUpdate(n).long - PositionUpdate(n).short = Size(n)
<1>1. Size(n) \in Int
  BY SizeType
<1>2. NotNegative(Size(n)) - NotNegative(-Size(n)) = Size(n)
  BY <1>1 DEF NotNegative
<1> QED BY <1>2 DEF PositionUpdate

LEMMA Dispatched ==
    ASSUME DataTypes, NEW s \in Sources, NEW n \in Nat, n <= executed, Dispatch(s, n)
    PROVE  /\ position' = [t \in Sources |-> position'[t]]
           /\ position'[s] = PositionUpdate(n) /\ position'[s].at = n
           /\ \A t \in Sources : t # s => position'[t] = position[t]
<1>1. DOMAIN position = Sources
  BY DEF DataTypes
<1>2. PositionUpdate(n).at = n
  BY DEF PositionUpdate
<1> QED BY <1>1, <1>2 DEF Dispatch

LEMMA FillType ==
    ASSUME DataTypes, NEW i \in DOMAIN inbox
    PROVE  inbox[i].fill \in Nat /\ inbox[i].fill <= executed
<1>1. inbox \in Seq(Frame) /\ i \in 1 .. Len(inbox)
  BY DEF DataTypes
<1>2. inbox[i] \in Frame
  BY <1>1, ElementOfSeq
<1> QED BY <1>2 DEF DataTypes

(* Frames added at the end and taken at the head.                          *)
LEMMA FramesAdded ==
    ASSUME NEW s \in Seq(Frame), NEW t \in Seq(Frame)
    PROVE  /\ s \o t \in Seq(Frame)
           /\ \A i \in DOMAIN s : i \in DOMAIN (s \o t) /\ (s \o t)[i] = s[i]
           /\ \A i \in DOMAIN t : Len(s) + i \in DOMAIN (s \o t) /\ (s \o t)[Len(s) + i] = t[i]
           /\ \A i \in DOMAIN (s \o t) :
                 \/ i \in DOMAIN s /\ (s \o t)[i] = s[i]
                 \/ \E j \in DOMAIN t : i = Len(s) + j /\ (s \o t)[i] = t[j]
<1>1. /\ s \o t \in Seq(Frame) /\ Len(s \o t) = Len(s) + Len(t)
      /\ \A i \in 1 .. Len(s) + Len(t) :
            (s \o t)[i] = IF i <= Len(s) THEN s[i] ELSE t[i - Len(s)]
  BY ConcatProperties
<1>2. DOMAIN s = 1 .. Len(s) /\ DOMAIN t = 1 .. Len(t) /\ Len(s) \in Nat /\ Len(t) \in Nat
  OBVIOUS
<1>3. DOMAIN (s \o t) = 1 .. Len(s) + Len(t)
  BY <1>1
<1>4. \A i \in DOMAIN (s \o t) : i \notin DOMAIN s =>
         i - Len(s) \in DOMAIN t /\ i = Len(s) + (i - Len(s))
  BY <1>2, <1>3
<1>5. \A i \in DOMAIN t : Len(s) + i \in DOMAIN (s \o t) /\ ~(Len(s) + i <= Len(s)) /\ Len(s) + i - Len(s) = i
  BY <1>2, <1>3
<1> QED BY <1>1, <1>2, <1>3, <1>4, <1>5

LEMMA FramesTaken ==
    ASSUME NEW s \in Seq(Frame), s # <<>>
    PROVE  /\ Head(s) \in Frame /\ Head(s) = s[1] /\ 1 \in DOMAIN s
           /\ Tail(s) \in Seq(Frame)
           /\ \A i \in DOMAIN s : i = 1 \/ (i - 1 \in DOMAIN Tail(s) /\ Tail(s)[i - 1] = s[i])
           /\ \A i \in DOMAIN Tail(s) : i + 1 \in DOMAIN s /\ Tail(s)[i] = s[i + 1] /\ i + 1 # 1
<1>1. /\ Tail(s) \in Seq(Frame) /\ Len(Tail(s)) = Len(s) - 1 /\ Len(s) \in Nat /\ Len(s) # 0
      /\ \A i \in 1 .. Len(s) - 1 : Tail(s)[i] = s[i + 1]
  OBVIOUS
<1>2. DOMAIN s = 1 .. Len(s) /\ DOMAIN Tail(s) = 1 .. Len(s) - 1
  BY <1>1
<1>3. Head(s) = s[1] /\ 1 \in DOMAIN s /\ s[1] \in Frame
  <2>1. 1 \in DOMAIN s
    BY <1>1, <1>2
  <2>2. s[1] \in Frame
    BY <2>1, ElementOfSeq, <1>2
  <2> QED BY <2>1, <2>2
<1>4. \A i \in DOMAIN s : i # 1 => i - 1 \in 1 .. Len(s) - 1 /\ (i - 1) + 1 = i
  BY <1>1, <1>2
<1>5. \A i \in 1 .. Len(s) - 1 : i + 1 \in DOMAIN s /\ i + 1 # 1
  BY <1>1, <1>2
<1> QED BY <1>1, <1>2, <1>3, <1>4, <1>5

(* Pushes in order stay so when the first frame is taken, and what is left *)
(* is not older than it.                                                   *)
LEMMA TailInOrder ==
    ASSUME NEW s \in Seq(Frame), s # <<>>,
           \A i, j \in DOMAIN s : i < j /\ IsPush(s[i]) /\ IsPush(s[j]) => s[i].fill <= s[j].fill
    PROVE  /\ \A i, j \in DOMAIN Tail(s) :
                 i < j /\ IsPush(Tail(s)[i]) /\ IsPush(Tail(s)[j]) => Tail(s)[i].fill <= Tail(s)[j].fill
           /\ \A i \in DOMAIN Tail(s) : i + 1 \in DOMAIN s /\ Tail(s)[i] = s[i + 1]
           /\ IsPush(Head(s)) =>
                 \A i \in DOMAIN Tail(s) : IsPush(Tail(s)[i]) => Head(s).fill <= Tail(s)[i].fill
<1>1. /\ Head(s) = s[1] /\ 1 \in DOMAIN s
      /\ \A i \in DOMAIN Tail(s) : i + 1 \in DOMAIN s /\ Tail(s)[i] = s[i + 1] /\ i + 1 # 1
  BY FramesTaken
<1>2. DOMAIN Tail(s) \subseteq Nat \ {0}
  OBVIOUS
<1>3. \A i, j \in DOMAIN Tail(s) : i < j => i + 1 < j + 1
  BY <1>2
<1>4. \A i \in DOMAIN Tail(s) : 1 < i + 1
  BY <1>2
<1> QED BY <1>1, <1>3, <1>4

(* They stay so when frames with a newer fill are added.                   *)
LEMMA AddedInOrder ==
    ASSUME NEW s \in Seq(Frame), NEW t \in Seq(Frame), NEW n \in Nat, NEW at \in Nat, at <= n,
           \A i \in DOMAIN s : IsPush(s[i]) => at <= s[i].fill,
           \A i, j \in DOMAIN s : i < j /\ IsPush(s[i]) /\ IsPush(s[j]) => s[i].fill <= s[j].fill,
           \A i \in DOMAIN s : t[i] = s[i] /\ s[i].fill \in Nat /\ s[i].fill <= n,
           \A i \in DOMAIN t : i \in DOMAIN s \/ t[i].fill = n + 1
    PROVE  /\ \A i \in DOMAIN t : IsPush(t[i]) => at <= t[i].fill
           /\ \A i, j \in DOMAIN t : i < j /\ IsPush(t[i]) /\ IsPush(t[j]) => t[i].fill <= t[j].fill
<1>1. at <= n + 1 /\ n + 1 \in Nat /\ \A m \in Nat : m <= n => m <= n + 1
  OBVIOUS
<1>2. \A i \in DOMAIN t : IsPush(t[i]) => at <= t[i].fill
  BY <1>1
<1>3. ASSUME NEW i \in DOMAIN t, NEW j \in DOMAIN t, i < j, IsPush(t[i]), IsPush(t[j])
      PROVE  t[i].fill <= t[j].fill
  <2>1. CASE j \in DOMAIN s
    <3>1. i \in DOMAIN s
      <4>1. DOMAIN t = 1 .. Len(t) /\ DOMAIN s = 1 .. Len(s) /\ Len(s) \in Nat /\ Len(t) \in Nat
        OBVIOUS
      <4> QED BY <1>3, <2>1, <4>1
    <3> QED BY <1>3, <2>1, <3>1
  <2>2. CASE t[j].fill = n + 1
    <3>1. CASE i \in DOMAIN s
      <4>1. t[i].fill \in Nat /\ t[i].fill <= n
        BY <3>1
      <4> QED BY <1>1, <2>2, <4>1
    <3>2. CASE t[i].fill = n + 1
      BY <1>1, <2>2, <3>2
    <3> QED BY <3>1, <3>2
  <2> QED BY <2>1, <2>2
<1> QED BY <1>2, <1>3

-----------------------------------------------------------------------------
(* What a step does to the frames.                                         *)

(* A fill is pushed to every channel that is subscribed.                   *)
LEMMA FillPushes ==
    ASSUME DataTypes, ExchangeFill
    PROVE  /\ executed' = executed + 1
           /\ inbox' \in Seq(Frame)
           /\ \A i \in DOMAIN inbox : i \in DOMAIN inbox' /\ inbox'[i] = inbox[i]
           /\ \A i \in DOMAIN inbox' :
                 (i \in DOMAIN inbox /\ inbox'[i] = inbox[i]) \/ inbox'[i].fill = executed'
           /\ \A c \in {"trades", "positions"} : c \in subscribed =>
                 \E i \in DOMAIN inbox' : inbox'[i] = [channel |-> c, fill |-> executed']
<1>. DEFINE a == Pushes("trades", executed')
            b == Pushes("positions", executed')
            fa == [channel |-> "trades", fill |-> executed']
            fb == [channel |-> "positions", fill |-> executed']
<1>1. executed' = executed + 1 /\ executed' \in Nat /\ inbox' = inbox \o a \o b
  BY DEF ExchangeFill, DataTypes
<1>2. fa \in Frame /\ fb \in Frame /\ fa.fill = executed' /\ fb.fill = executed'
  BY <1>1
<1>3. /\ a \in Seq(Frame) /\ \A i \in DOMAIN a : a[i] = fa
      /\ "trades" \in subscribed => 1 \in DOMAIN a
  <2>1. CASE "trades" \in subscribed
    BY <1>2, <2>1 DEF Pushes
  <2>2. CASE "trades" \notin subscribed
    BY <2>2 DEF Pushes
  <2>. QED BY <2>1, <2>2
<1>4. /\ b \in Seq(Frame) /\ \A i \in DOMAIN b : b[i] = fb
      /\ "positions" \in subscribed => 1 \in DOMAIN b
  <2>1. CASE "positions" \in subscribed
    BY <1>2, <2>1 DEF Pushes
  <2>2. CASE "positions" \notin subscribed
    BY <2>2 DEF Pushes
  <2>. QED BY <2>1, <2>2
<1>. HIDE DEF a, b, fa, fb
<1>5. inbox \in Seq(Frame)
  BY DEF DataTypes
<1>6. /\ inbox \o a \in Seq(Frame)
      /\ \A i \in DOMAIN inbox : i \in DOMAIN (inbox \o a) /\ (inbox \o a)[i] = inbox[i]
      /\ \A i \in DOMAIN a : Len(inbox) + i \in DOMAIN (inbox \o a)
                             /\ (inbox \o a)[Len(inbox) + i] = a[i]
      /\ \A i \in DOMAIN (inbox \o a) :
            \/ i \in DOMAIN inbox /\ (inbox \o a)[i] = inbox[i]
            \/ \E j \in DOMAIN a : i = Len(inbox) + j /\ (inbox \o a)[i] = a[j]
  BY <1>3, <1>5, FramesAdded
<1>. DEFINE m == inbox \o a
<1>7. m \in Seq(Frame)
  BY <1>6
<1>. HIDE DEF m
<1>8. /\ m \o b \in Seq(Frame)
      /\ \A i \in DOMAIN m : i \in DOMAIN (m \o b) /\ (m \o b)[i] = m[i]
      /\ \A i \in DOMAIN b : Len(m) + i \in DOMAIN (m \o b) /\ (m \o b)[Len(m) + i] = b[i]
      /\ \A i \in DOMAIN (m \o b) :
            \/ i \in DOMAIN m /\ (m \o b)[i] = m[i]
            \/ \E j \in DOMAIN b : i = Len(m) + j /\ (m \o b)[i] = b[j]
  BY <1>4, <1>7, FramesAdded
<1>9. inbox' = m \o b
  BY <1>1 DEF m
<1>10. \A i \in DOMAIN inbox : i \in DOMAIN inbox' /\ inbox'[i] = inbox[i]
  BY <1>6, <1>8, <1>9 DEF m
<1>11. \A i \in DOMAIN inbox' :
          (i \in DOMAIN inbox /\ inbox'[i] = inbox[i]) \/ inbox'[i] = fa \/ inbox'[i] = fb
  BY <1>3, <1>4, <1>6, <1>8, <1>9 DEF m
<1>12. ASSUME "trades" \in subscribed PROVE \E i \in DOMAIN inbox' : inbox'[i] = fa
  <2>1. a[1] = fa /\ 1 \in DOMAIN a
    BY <1>3, <1>12
  <2>2. Len(inbox) + 1 \in DOMAIN m /\ m[Len(inbox) + 1] = fa
    BY <1>6, <2>1 DEF m
  <2>3. Len(inbox) + 1 \in DOMAIN inbox' /\ inbox'[Len(inbox) + 1] = fa
    BY <1>8, <1>9, <2>2
  <2>. QED BY <2>3
<1>13. ASSUME "positions" \in subscribed PROVE \E i \in DOMAIN inbox' : inbox'[i] = fb
  <2>1. b[1] = fb /\ 1 \in DOMAIN b
    BY <1>4, <1>13
  <2>2. Len(m) + 1 \in DOMAIN inbox' /\ inbox'[Len(m) + 1] = fb
    BY <1>8, <1>9, <2>1
  <2>. QED BY <2>2
<1>14. \A c \in {"trades", "positions"} : c \in subscribed =>
          \E i \in DOMAIN inbox' : inbox'[i] = [channel |-> c, fill |-> executed']
  BY <1>12, <1>13 DEF fa, fb
<1>. QED BY <1>1, <1>2, <1>8, <1>9, <1>10, <1>11, <1>14

(* The other steps leave the frames, lose them with the socket, handle the *)
(* first one, or add an acknowledgement.                                   *)
LEMMA InboxSteps ==
    ASSUME [DataNext]_allVars
    PROVE  \/ inbox' = inbox /\ UNCHANGED subscribed
           \/ SocketDisconnected
           \/ TradeSubscribe \/ TradePositions \/ TradeTrades
           \/ ExchangeSubscribe \/ ExchangeFill
<1>1. CASE \/ TradeLogin \/ CheckRequestQueue \/ Age
           \/ \E k \in Kinds : Answered(k) \/ NotAnswered(k) \/ ExchangeAnswer(k)
  BY <1>1 DEF TradeLogin, CheckRequestQueue, Age, Answered, NotAnswered, ExchangeAnswer, session
<1>2. CASE \/ RestStep(Connected) \/ RestStep(Disconnected)
           \/ RestStep(Timer) \/ RestStep(Interval) \/ RestStep(Queue)
  BY <1>2 DEF RestStep, session
<1>3. CASE UNCHANGED allVars
  BY <1>3 DEF allVars, session
<1> QED BY <1>1, <1>2, <1>3 DEF DataNext

(* A frame stays until its turn comes, or the socket is lost.              *)
LEMMA PushedKept ==
    ASSUME DataTypes, [DataNext]_allVars, NEW c \in Kinds, NEW n \in Nat \ {0}, Pushed(c, n)
    PROVE  \/ Pushed(c, n)'
           \/ stage' = "UNDEFINED"
           \/ Head(inbox).channel = c /\ Head(inbox).fill = n /\ (TradePositions \/ TradeTrades)
<1>1. inbox \in Seq(Frame)
  BY DEF DataTypes
<1>2. PICK i \in DOMAIN inbox : inbox[i] = [channel |-> c, fill |-> n]
  BY DEF Pushed
<1>3. CASE inbox' = inbox
  BY <1>2, <1>3 DEF Pushed
<1>4. CASE SocketDisconnected
  BY <1>4 DEF SocketDisconnected
<1>5. ASSUME inbox # <<>>, inbox' = Tail(inbox), Head(inbox) # inbox[i]
      PROVE  Pushed(c, n)'
  <2>1. i # 1 /\ i - 1 \in DOMAIN Tail(inbox) /\ Tail(inbox)[i - 1] = inbox[i]
    BY <1>1, <1>5, FramesTaken
  <2>. QED BY <1>2, <1>5, <2>1 DEF Pushed
<1>6. CASE TradeSubscribe
  <2>1. Head(inbox) # inbox[i]
    BY <1>2, <1>6 DEF TradeSubscribe
  <2>. QED BY <1>5, <1>6, <2>1 DEF TradeSubscribe
<1>7. CASE TradePositions \/ TradeTrades
  <2>1. inbox # <<>> /\ inbox' = Tail(inbox)
    BY <1>7 DEF TradePositions, TradeTrades, Arrived
  <2>. QED BY <1>2, <1>5, <1>7, <2>1
<1>8. CASE ExchangeSubscribe
  <2>1. PICK f : inbox' = Append(inbox, f)
    BY <1>8 DEF ExchangeSubscribe
  <2>2. i \in DOMAIN inbox' /\ inbox'[i] = inbox[i]
    BY <1>1, <2>1
  <2>. QED BY <1>2, <2>2 DEF Pushed
<1>9. CASE ExchangeFill
  BY <1>2, <1>9, FillPushes DEF Pushed
<1>. QED BY <1>3, <1>4, <1>6, <1>7, <1>8, <1>9, InboxSteps

-----------------------------------------------------------------------------
(* What a step does to the requests, the answers and what is reported.     *)

(* A step that only asks.                                                  *)
OnlyAsks == requested \subseteq requested' /\ in_flight' = in_flight

(* The steps and what they leave alone: those of the websocket, those of   *)
(* the REST connection that answer nothing, and the answers.               *)
LEMMA DataSteps ==
    ASSUME [DataNext]_allVars
    PROVE  \/ OnlyAsks /\ UNCHANGED <<composed, failed, known, position, first, lookback>>
           \/ (TradePositions \/ TradeTrades) /\ UNCHANGED <<vars, composed, failed>>
           \/ \E k \in Kinds : /\ Sendable(k) /\ Sent(k)
                               /\ UNCHANGED <<composed, failed, known, position>>
           \/ \E k \in Kinds : Answered(k) \/ NotAnswered(k) \/ ExchangeAnswer(k)
<1>1. CASE TradeLogin \/ TradeSubscribe \/ CheckRequestQueue
  <2>1. PICK t : Enter(t)
    BY <1>1 DEF TradeLogin, TradeSubscribe, CheckRequestQueue
  <2>2. OnlyAsks /\ UNCHANGED <<first, lookback>>
    BY <2>1, EnterSteps DEF OnlyAsks, Ask, vars, trades
  <2>3. UNCHANGED <<composed, failed, known, position>>
    BY <1>1 DEF TradeLogin, TradeSubscribe, CheckRequestQueue, reported
  <2> QED BY <2>2, <2>3
<1>2. CASE SocketDisconnected \/ ExchangeSubscribe \/ ExchangeFill \/ Age \/ UNCHANGED allVars
  BY <1>2 DEF SocketDisconnected, ExchangeSubscribe, ExchangeFill, Age, allVars, vars,
              reported, OnlyAsks
<1>3. CASE TradePositions \/ TradeTrades
  BY <1>3 DEF TradePositions, TradeTrades
<1>4. CASE RestStep(Connected) \/ RestStep(Disconnected) \/ RestStep(Interval) \/ RestStep(Queue)
  <2>1. UNCHANGED <<request, trades>>
    BY <1>4 DEF RestStep, Connected, Disconnected, Interval, Queue
  <2>2. UNCHANGED <<composed, reported>>
    BY <1>4 DEF RestStep
  <2> QED BY <2>1, <2>2 DEF request, trades, reported, OnlyAsks
<1>5. CASE RestStep(Timer)
  <2>1. Timer /\ UNCHANGED <<composed, failed, known, position>>
    BY <1>5 DEF RestStep, reported
  <2>2. CASE UNCHANGED <<request, trades>>
    BY <2>1, <2>2 DEF request, trades, OnlyAsks
  <2> QED BY <2>1, <2>2, TimerSteps
<1>6. CASE \E k \in Kinds : Answered(k) \/ NotAnswered(k) \/ ExchangeAnswer(k)
  BY <1>6
<1> QED BY <1>1, <1>2, <1>3, <1>4, <1>5, <1>6 DEF DataNext

(* Fills are executed one by one, and what is too old gets more.           *)
LEMMA ExecutedSteps ==
    ASSUME [DataNext]_allVars
    PROVE  \/ UNCHANGED <<executed, old>>
           \/ ExchangeFill /\ executed' = executed + 1 /\ executed < Len(Sizes) /\ UNCHANGED old
           \/ Age /\ old < executed /\ old' = old + 1 /\ UNCHANGED executed
<1>1. CASE \/ TradeLogin \/ SocketDisconnected \/ TradeSubscribe \/ CheckRequestQueue
           \/ TradePositions \/ TradeTrades \/ ExchangeSubscribe
           \/ \E k \in Kinds : Answered(k) \/ NotAnswered(k) \/ ExchangeAnswer(k)
  BY <1>1 DEF TradeLogin, SocketDisconnected, TradeSubscribe, CheckRequestQueue, TradePositions,
              TradeTrades, ExchangeSubscribe, Answered, NotAnswered, ExchangeAnswer, venue
<1>2. CASE \/ RestStep(Connected) \/ RestStep(Disconnected)
           \/ RestStep(Timer) \/ RestStep(Interval) \/ RestStep(Queue)
  BY <1>2 DEF RestStep, venue
<1>3. CASE UNCHANGED allVars
  BY <1>3 DEF allVars, venue
<1>4. CASE ExchangeFill
  BY <1>4 DEF ExchangeFill
<1>5. CASE Age
  BY <1>5 DEF Age
<1> QED BY <1>1, <1>2, <1>3, <1>4, <1>5 DEF DataNext

(* Only what is in flight has an answer.                                   *)
LEMMA AnswersInFlightStep ==
    ASSUME DataTypes, AnswersInFlight, [DataNext]_allVars
    PROVE  AnswersInFlight'
<1>1. executed' \in Nat /\ executed <= executed' /\ executed \in Nat
  BY ExecutedSteps DEF DataTypes
<1>2. Window \subseteq Window'
  BY <1>1
<1>3. CASE OnlyAsks /\ UNCHANGED composed
  BY <1>2, <1>3 DEF OnlyAsks, AnswersInFlight
<1>4. CASE UNCHANGED <<vars, composed>>
  BY <1>2, <1>4 DEF vars, AnswersInFlight
<1>5. ASSUME NEW k \in Kinds, Sendable(k), Sent(k), UNCHANGED composed
      PROVE  AnswersInFlight'
  BY <1>2, <1>5 DEF Sent, AnswersInFlight
<1>6. ASSUME NEW k \in Kinds, Answered(k) \/ NotAnswered(k)
      PROVE  AnswersInFlight'
  BY <1>2, <1>6 DEF Answered, NotAnswered, AckSuccess, AckError, AnswersInFlight
<1>7. ASSUME NEW k \in Kinds, ExchangeAnswer(k)
      PROVE  AnswersInFlight'
  <2>1. <<IF lookback > TradesLookback THEN 0 ELSE old, executed>> \in Window'
    BY <1>1, <1>7 DEF ExchangeAnswer, DataTypes, venue
  <2> QED BY <1>2, <1>7, <2>1 DEF ExchangeAnswer, vars, AnswersInFlight
<1> QED BY <1>3, <1>4, <1>5, <1>6, <1>7, DataSteps

(* What will be answered after now still will be, or is answered now.      *)
LEMMA AwaitingKept ==
    ASSUME AnswersInFlight, [DataNext]_allVars, NEW k \in Kinds, Awaiting(k)
    PROVE  Awaiting(k)' \/ ExchangeAnswer(k)
<1>1. CASE OnlyAsks /\ UNCHANGED <<composed, failed>>
  BY <1>1 DEF OnlyAsks, Awaiting
<1>2. CASE UNCHANGED <<vars, composed, failed>>
  BY <1>2 DEF Awaiting, vars
<1>3. ASSUME NEW j \in Kinds, Sendable(j), Sent(j), UNCHANGED <<composed, failed>>
      PROVE  Awaiting(k)'
  <2>1. in_flight = {} /\ composed[k] = <<>>
    BY <1>3 DEF Sendable, Ready, AnswersInFlight
  <2> QED BY <1>3, <2>1 DEF Sent, Awaiting
<1>4. ASSUME NEW j \in Kinds, Answered(j) PROVE Awaiting(k)'
  BY <1>4 DEF Answered, AckSuccess, Awaiting, AnswersInFlight
<1>5. ASSUME NEW j \in Kinds, NotAnswered(j) PROVE Awaiting(k)'
  BY <1>5 DEF NotAnswered, AckError, Awaiting, AnswersInFlight
<1>6. ASSUME NEW j \in Kinds, ExchangeAnswer(j) PROVE Awaiting(k)' \/ j = k
  BY <1>6 DEF ExchangeAnswer, Awaiting, AnswersInFlight, vars, reported
<1> QED BY <1>1, <1>2, <1>3, <1>4, <1>5, <1>6, DataSteps

(* What is composed arrives, or there is an error.                         *)
LEMMA ComposedKept ==
    ASSUME AnswersInFlight, [DataNext]_allVars, NEW k \in Kinds, composed[k] # <<>>
    PROVE  composed'[k] = composed[k] \/ Awaiting(k)' \/ Answered(k)
<1>1. ASSUME NEW j \in Kinds, Answered(j) PROVE composed'[k] = composed[k] \/ Answered(k)
  BY <1>1 DEF Answered, AnswersInFlight
<1>2. ASSUME NEW j \in Kinds, NotAnswered(j) PROVE composed'[k] = composed[k] \/ Awaiting(k)'
  BY <1>2 DEF NotAnswered, AckError, Awaiting, AnswersInFlight
<1>3. ASSUME NEW j \in Kinds, ExchangeAnswer(j) PROVE composed'[k] = composed[k]
  BY <1>3 DEF ExchangeAnswer, AnswersInFlight
<1> QED BY <1>1, <1>2, <1>3, DataSteps

-----------------------------------------------------------------------------
(* Sessions: their states and frames.                                      *)

LEMMA StageSteps ==
    ASSUME DataTypes, Acks, [DataNext]_allVars
    PROVE  \/ UNCHANGED stage
           \/ stage' = "UNDEFINED" /\ inbox' = <<>>
           \/ TradeLogin /\ inbox' = inbox /\ stage = "UNDEFINED" /\ stage' = "SUBSCRIBE_BALANCES"
           \/ /\ TradeSubscribe /\ Enter(Successor[stage])
              /\ stage \in DOMAIN SubscribeState /\ stage' = Successor[stage]
              /\ SubscribeState[stage] \in subscribed /\ UNCHANGED subscribed
           \/ /\ CheckRequestQueue /\ inbox' = inbox /\ Enter(Successor[stage])
              /\ stage \in DOMAIN RequestState /\ stage' = Successor[stage]
              /\ UNCHANGED subscribed
<1>1. CASE TradeLogin
  BY <1>1 DEF TradeLogin, Enter, Successor
<1>2. CASE TradeSubscribe
  <2>1. inbox \in Seq(Frame) /\ inbox # <<>> /\ Head(inbox).fill = 0
    BY <1>2 DEF TradeSubscribe, DataTypes
  <2>2. 1 \in DOMAIN inbox /\ inbox[1].fill = 0
    BY <2>1, FramesTaken
  <2>3. stage \in DOMAIN SubscribeState /\ SubscribeState[stage] \in subscribed
    BY <2>2 DEF Acks
  <2>4. Enter(Successor[stage]) /\ UNCHANGED subscribed
    BY <1>2 DEF TradeSubscribe
  <2> QED BY <1>2, <2>3, <2>4 DEF Enter
<1>3. CASE CheckRequestQueue
  BY <1>3 DEF CheckRequestQueue, Enter
<1>4. CASE SocketDisconnected
  BY <1>4 DEF SocketDisconnected
<1>5. CASE \/ TradePositions \/ TradeTrades \/ ExchangeSubscribe \/ ExchangeFill \/ Age
           \/ \E k \in Kinds : Answered(k) \/ NotAnswered(k) \/ ExchangeAnswer(k)
  BY <1>5 DEF TradePositions, TradeTrades, ExchangeSubscribe, ExchangeFill, Age,
              Answered, NotAnswered, ExchangeAnswer, session
<1>6. CASE \/ RestStep(Connected) \/ RestStep(Disconnected)
           \/ RestStep(Timer) \/ RestStep(Interval) \/ RestStep(Queue)
  BY <1>6 DEF RestStep, session
<1>7. CASE UNCHANGED allVars
  BY <1>7 DEF allVars, session
<1> QED BY <1>1, <1>2, <1>3, <1>4, <1>5, <1>6, <1>7 DEF DataNext

(* Where a session goes on to.                                             *)
LEMMA Successors ==
    /\ \A s \in DOMAIN Successor : Successor[s] \in DOMAIN Successor \cup {"DONE"}
    /\ \A s \in DOMAIN SubscribeState :
          /\ s \in DOMAIN Successor /\ s \notin DOMAIN RequestState
          /\ Successor[s] \in DOMAIN RequestState \cup {"DONE"}
          /\ Successor[s] \notin DOMAIN SubscribeState
          /\ s \notin PastPositions /\ Successor[s] \in PastPositions =>
                Successor[s] = "GET_POSITIONS" /\ SubscribeState[s] = "positions"
          /\ s \notin PastTrades /\ Successor[s] \in PastTrades =>
                Successor[s] = "GET_TRADES" /\ SubscribeState[s] = "trades"
    /\ \A s \in DOMAIN RequestState :
          /\ s \in DOMAIN Successor /\ s \notin DOMAIN SubscribeState
          /\ s \notin PastPositions => Successor[s] \notin PastPositions
          /\ s \notin PastTrades => Successor[s] \notin PastTrades
BY DEF Successor, SubscribeState, RequestState

(* A channel that matters is subscribed when its state is left, and then   *)
(* its kind is asked for.                                                  *)
LEMMA PastSteps ==
    ASSUME DataTypes, Acks, [DataNext]_allVars
    PROVE  /\ stage' \in PastPositions =>
                 \/ stage \in PastPositions
                 \/ "positions" \in subscribed' /\ (AsksAgain => "positions" \in requested')
           /\ stage' \in PastTrades =>
                 \/ stage \in PastTrades
                 \/ "trades" \in subscribed' /\ (AsksAgain => "trades" \in requested')
<1>1. CASE UNCHANGED stage \/ stage' = "UNDEFINED" \/ stage' = "SUBSCRIBE_BALANCES"
  BY <1>1
<1>2. CASE /\ Enter(Successor[stage])
           /\ stage \in DOMAIN SubscribeState /\ stage' = Successor[stage]
           /\ SubscribeState[stage] \in subscribed /\ UNCHANGED subscribed
  BY <1>2, Successors, EnterSteps
<1>3. CASE stage \in DOMAIN RequestState /\ stage' = Successor[stage]
  BY <1>3, Successors
<1> QED BY <1>1, <1>2, <1>3, StageSteps

LEMMA ChannelsSubscribedStep ==
    ASSUME DataTypes, Acks, ChannelsSubscribed, [DataNext]_allVars
    PROVE  ChannelsSubscribed'
<1>1. CASE stage' \notin PastPositions
  BY <1>1 DEF ChannelsSubscribed
<1>2. CASE stage' \in PastPositions
  <2>1. subscribed \subseteq subscribed'
    <3>1. CASE UNCHANGED subscribed
      BY <3>1
    <3>2. CASE SocketDisconnected
      BY <1>2, <3>2 DEF SocketDisconnected
    <3>3. CASE ExchangeSubscribe
      BY <3>3 DEF ExchangeSubscribe
    <3>4. CASE TradeSubscribe \/ TradePositions \/ TradeTrades \/ ExchangeFill
      BY <3>4 DEF TradeSubscribe, TradePositions, TradeTrades, ExchangeFill
    <3> QED BY <3>1, <3>2, <3>3, <3>4, InboxSteps
  <2> QED BY <2>1, PastSteps DEF ChannelsSubscribed
<1> QED BY <1>1, <1>2

(* The exchange acknowledges only what the session waits for, once.        *)
LEMMA AcksStep ==
    ASSUME DataTypes, Acks, [DataNext]_allVars
    PROVE  Acks'
<1>1. inbox \in Seq(Frame)
  BY DEF DataTypes
<1>2. ASSUME inbox # <<>>, inbox' = Tail(inbox), UNCHANGED <<stage, subscribed>>
      PROVE  Acks'
  <2>1. \A i \in DOMAIN inbox' : i + 1 \in DOMAIN inbox /\ inbox'[i] = inbox[i + 1]
    BY <1>1, <1>2, FramesTaken
  <2>2. \A i, j \in DOMAIN inbox' : i + 1 = j + 1 => i = j
    BY <1>1, <1>2, FramesTaken
  <2> QED BY <1>2, <2>1, <2>2 DEF Acks
<1>3. CASE TradeSubscribe
  <2>1. inbox # <<>> /\ inbox' = Tail(inbox) /\ Head(inbox).fill = 0
    BY <1>3 DEF TradeSubscribe
  <2>2. 1 \in DOMAIN inbox /\ inbox[1].fill = 0
    BY <1>1, <2>1, FramesTaken
  <2>3. \A i \in DOMAIN inbox' : inbox'[i].fill # 0
    BY <1>1, <2>1, <2>2, FramesTaken DEF Acks
  <2> QED BY <2>3 DEF Acks
<1>4. CASE TradePositions \/ TradeTrades
  BY <1>2, <1>4 DEF TradePositions, TradeTrades, Arrived
<1>5. CASE ExchangeSubscribe
  <2>1. PICK f : /\ stage \in DOMAIN SubscribeState /\ f.channel = SubscribeState[stage]
                 /\ f.channel \notin subscribed
                 /\ subscribed' = subscribed \cup {f.channel}
                 /\ inbox' = Append(inbox, f) /\ UNCHANGED stage
    <3>1. [channel |-> SubscribeState[stage], fill |-> 0].channel = SubscribeState[stage]
      OBVIOUS
    <3> QED BY <1>5, <3>1 DEF ExchangeSubscribe
  <2>2. \A i \in DOMAIN inbox : inbox[i].fill # 0
    BY <2>1 DEF Acks
  <2>3. \A i \in DOMAIN inbox' : (i \in DOMAIN inbox /\ inbox'[i] = inbox[i])
                                 \/ (i = Len(inbox) + 1 /\ inbox'[i] = f)
    BY <1>1, <2>1
  <2> QED BY <2>1, <2>2, <2>3 DEF Acks
<1>6. CASE ExchangeFill
  <2>1. \A i \in DOMAIN inbox' :
           (i \in DOMAIN inbox /\ inbox'[i] = inbox[i]) \/ inbox'[i].fill = executed + 1
    BY <1>6, FillPushes
  <2>2. executed + 1 # 0
    BY DEF DataTypes
  <2>3. UNCHANGED <<stage, subscribed>>
    BY <1>6 DEF ExchangeFill
  <2> QED BY <2>1, <2>2, <2>3 DEF Acks
<1>7. CASE SocketDisconnected
  <2>1. inbox' = <<>>
    BY <1>7 DEF SocketDisconnected
  <2> QED BY <2>1 DEF Acks
<1>8. CASE inbox' = inbox /\ UNCHANGED subscribed
  <2>1. CASE stage' = stage
    BY <1>8, <2>1 DEF Acks
  <2>2. CASE inbox' = <<>>
    BY <2>2 DEF Acks
  <2>3. CASE stage \notin DOMAIN SubscribeState
    BY <1>8, <2>3 DEF Acks
  <2>4. "UNDEFINED" \notin DOMAIN SubscribeState
    BY DEF SubscribeState
  <2>5. ASSUME stage \in DOMAIN RequestState PROVE stage \notin DOMAIN SubscribeState
    BY <2>5, Successors
  <2> QED BY <1>3, <2>1, <2>2, <2>3, <2>4, <2>5, StageSteps
<1> QED BY <1>3, <1>4, <1>5, <1>6, <1>7, <1>8, InboxSteps

-----------------------------------------------------------------------------
(* The types.                                                              *)

(* A position that is dispatched is not older than the last of its source. *)
LEMMA PositionSteps ==
    ASSUME DataTypes, AnswersInFlight, PositionsInOrder, [DataNext]_allVars
    PROVE  \/ UNCHANGED position
           \/ /\ TradePositions /\ IsPush(Head(inbox)) /\ inbox # <<>> /\ inbox' = Tail(inbox)
              /\ Head(inbox).fill \in Nat /\ Head(inbox).fill <= executed
              /\ position["INCREMENTAL"].at <= Head(inbox).fill
              /\ Dispatch("INCREMENTAL", Head(inbox).fill)
              /\ UNCHANGED composed
           \/ /\ Answered("positions") /\ composed["positions"] # <<>>
              /\ composed["positions"][2] \in Nat /\ composed["positions"][2] <= executed
              /\ position["SNAPSHOT"].at <= composed["positions"][2]
              /\ Dispatch("SNAPSHOT", composed["positions"][2])
              /\ composed'["positions"] = <<>> /\ UNCHANGED inbox
<1>1. CASE TradePositions
  <2>1. /\ inbox \in Seq(Frame) /\ inbox # <<>> /\ inbox' = Tail(inbox)
        /\ Dispatch("INCREMENTAL", Head(inbox).fill) /\ IsPush(Head(inbox)) /\ UNCHANGED composed
    BY <1>1 DEF TradePositions, Arrived, DataTypes, IsPush
  <2>2. Head(inbox) \in Frame /\ Head(inbox) = inbox[1] /\ 1 \in DOMAIN inbox
    BY <2>1, FramesTaken
  <2>3. Head(inbox).fill <= executed
    BY <2>2 DEF DataTypes
  <2>4. position["INCREMENTAL"].at <= Head(inbox).fill
    BY <2>1, <2>2 DEF PositionsInOrder, PushesInOrder
  <2> QED BY <1>1, <2>1, <2>2, <2>3, <2>4
<1>2. CASE TradeTrades
  BY <1>2 DEF TradeTrades
<1>3. ASSUME NEW k \in Kinds, Answered(k) \/ NotAnswered(k) \/ ExchangeAnswer(k)
      PROVE  \/ UNCHANGED position
             \/ /\ Answered("positions") /\ Dispatch("SNAPSHOT", composed["positions"][2])
                /\ composed["positions"] # <<>>
                /\ composed'["positions"] = <<>> /\ UNCHANGED inbox
  BY <1>3 DEF Answered, NotAnswered, ExchangeAnswer, Accounts, Positions, UserTrades, reported,
              session, AnswersInFlight
<1>4. composed["positions"] # <<>> =>
         /\ composed["positions"][2] \in Nat /\ composed["positions"][2] <= executed
         /\ position["SNAPSHOT"].at <= composed["positions"][2]
  BY DEF AnswersInFlight, PositionsInOrder
<1> QED BY <1>1, <1>2, <1>3, <1>4, DataSteps

(* The last position of each source only gets newer.                       *)
LEMMA PositionGrows ==
    ASSUME DataTypes, AnswersInFlight, PositionsInOrder, [DataNext]_allVars
    PROVE  /\ position' = [s \in Sources |-> position'[s]]
           /\ \A s \in Sources : IsPosition(position'[s]) /\ position[s].at <= position'[s].at
<1>0. position = [s \in Sources |-> position[s]] /\ \A s \in Sources : IsPosition(position[s])
  BY DEF DataTypes
<1>1. ASSUME NEW s \in Sources, NEW n \in Nat, n <= executed, position[s].at <= n, Dispatch(s, n)
      PROVE  /\ position' = [t \in Sources |-> position'[t]]
             /\ \A t \in Sources : IsPosition(position'[t]) /\ position[t].at <= position'[t].at
  <2>1. /\ position' = [t \in Sources |-> position'[t]]
        /\ position'[s] = PositionUpdate(n) /\ position'[s].at = n
        /\ \A t \in Sources : t # s => position'[t] = position[t]
    BY <1>1, Dispatched
  <2>2. IsPosition(position'[s]) /\ position[s].at <= position'[s].at
    BY <1>1, <2>1 DEF IsPosition
  <2>3. \A t \in Sources : position[t].at <= position[t].at
    BY <1>0 DEF IsPosition
  <2> QED BY <1>0, <2>1, <2>2, <2>3
<1>2. CASE UNCHANGED position
  BY <1>0, <1>2 DEF IsPosition
<1>3. {"SNAPSHOT", "INCREMENTAL"} \subseteq Sources
  BY DEF Sources
<1> QED BY <1>1, <1>2, <1>3, PositionSteps

LEMMA DataTypesStep ==
    ASSUME DataTypes, Acks, AnswersInFlight, PositionsInOrder, [DataNext]_allVars
    PROVE  DataTypes'
<1>1. stage' \in DOMAIN Successor \cup {"DONE"}
  <2>1. {"UNDEFINED", "SUBSCRIBE_BALANCES"} \subseteq DOMAIN Successor
    BY DEF Successor
  <2> QED BY <2>1, StageSteps, Successors DEF DataTypes
<1>2. /\ executed' \in Nat /\ executed <= executed' /\ Earlier <= executed'
      /\ executed' <= Len(Sizes) /\ old' \in Nat /\ old' <= executed'
  <2>1. Earlier \in Nat /\ Len(Sizes) \in Nat
    BY AccountDataAssumption
  <2> QED BY <2>1, ExecutedSteps DEF DataTypes
<1>3. subscribed' \subseteq Kinds
  <2>1. CASE ExchangeSubscribe
    <3>1. stage \in DOMAIN SubscribeState => SubscribeState[stage] \in Kinds
      BY DEF SubscribeState
    <3> QED BY <2>1, <3>1 DEF ExchangeSubscribe, DataTypes
  <2>2. CASE SocketDisconnected
    BY <2>2 DEF SocketDisconnected
  <2>3. CASE \/ UNCHANGED subscribed \/ TradeSubscribe \/ TradePositions \/ TradeTrades \/ ExchangeFill
    BY <2>3 DEF TradeSubscribe, TradePositions, TradeTrades, ExchangeFill, DataTypes
  <2> QED BY <2>1, <2>2, <2>3, InboxSteps
<1>4. inbox' \in Seq(Frame) /\ \A i \in DOMAIN inbox' : inbox'[i].fill <= executed'
  <2>0. inbox \in Seq(Frame) /\ executed \in Nat
    BY DEF DataTypes
  <2>1. CASE inbox' = inbox
    <3>1. \A i \in DOMAIN inbox : inbox[i].fill \in Nat /\ inbox[i].fill <= executed
      BY FillType
    <3> QED BY <1>2, <2>0, <2>1, <3>1
  <2>2. ASSUME inbox # <<>>, inbox' = Tail(inbox), UNCHANGED executed
        PROVE  inbox' \in Seq(Frame) /\ \A i \in DOMAIN inbox' : inbox'[i].fill <= executed'
    BY <2>0, <2>2, FramesTaken DEF DataTypes
  <2>3. CASE TradeSubscribe \/ TradePositions \/ TradeTrades
    BY <2>2, <2>3 DEF TradeSubscribe, TradePositions, TradeTrades, Arrived, venue
  <2>4. CASE SocketDisconnected
    BY <2>4 DEF SocketDisconnected
  <2>5. CASE ExchangeSubscribe
    <3>1. stage \in DOMAIN SubscribeState => SubscribeState[stage] \in Kinds
      BY DEF SubscribeState
    <3>2. PICK f \in Frame : f.fill = 0 /\ inbox' = Append(inbox, f)
      BY <2>5, <3>1 DEF ExchangeSubscribe
    <3>3. \A i \in DOMAIN inbox' : (i \in DOMAIN inbox /\ inbox'[i] = inbox[i]) \/ inbox'[i] = f
      BY <2>0, <3>2
    <3>4. inbox' \in Seq(Frame) /\ UNCHANGED executed
      BY <2>0, <2>5, <3>2 DEF ExchangeSubscribe, venue
    <3> QED BY <2>0, <3>2, <3>3, <3>4 DEF DataTypes
  <2>6. CASE ExchangeFill
    <3>1. \A i \in DOMAIN inbox : inbox[i].fill \in Nat /\ inbox[i].fill <= executed
      BY FillType
    <3> QED BY <1>2, <2>0, <2>6, <3>1, FillPushes
  <2> QED BY <2>1, <2>3, <2>4, <2>5, <2>6, InboxSteps
<1>5. /\ position' = [s \in Sources |-> position'[s]]
      /\ \A s \in Sources : /\ position'[s] = PositionUpdate(position'[s].at)
                           /\ position'[s].at \in Nat /\ position'[s].at <= executed'
  <2>1. \A n \in Nat : n <= executed => n <= executed'
    BY <1>2 DEF DataTypes
  <2>2. executed \in Nat
    BY DEF DataTypes
  <2> QED BY <2>1, <2>2, PositionGrows DEF IsPosition
<1> QED BY <1>1, <1>2, <1>3, <1>4, <1>5 DEF DataTypes, IsPosition

-----------------------------------------------------------------------------
(* Positions.                                                              *)

(* A step that dispatches no position leaves the order as it is: a fill    *)
(* that is pushed is the newest, and an acknowledgement is no push.        *)
LEMMA InOrderUntouched ==
    ASSUME DataTypes, PushesInOrder(inbox), [DataNext]_allVars, UNCHANGED position
    PROVE  PushesInOrder(inbox)'
<1>. DEFINE at == position["INCREMENTAL"].at
<1>1. inbox \in Seq(Frame)
  BY DEF DataTypes
<1>2. /\ \A i \in DOMAIN inbox : IsPush(inbox[i]) => at <= inbox[i].fill
      /\ \A i, j \in DOMAIN inbox :
            i < j /\ IsPush(inbox[i]) /\ IsPush(inbox[j]) => inbox[i].fill <= inbox[j].fill
  BY DEF PushesInOrder
<1>. SUFFICES /\ \A i \in DOMAIN inbox' : IsPush(inbox'[i]) => at <= inbox'[i].fill
              /\ \A i, j \in DOMAIN inbox' :
                    i < j /\ IsPush(inbox'[i]) /\ IsPush(inbox'[j]) => inbox'[i].fill <= inbox'[j].fill
  BY DEF PushesInOrder, IsPush
<1>3. at \in Nat /\ at <= executed
  BY DEF DataTypes, Sources, IsPosition
<1>. HIDE DEF at
<1>4. CASE inbox' = inbox
  BY <1>2, <1>4
<1>5. CASE inbox' = <<>>
  BY <1>5
<1>6. ASSUME inbox # <<>>, inbox' = Tail(inbox)
      PROVE  /\ \A i \in DOMAIN inbox' : IsPush(inbox'[i]) => at <= inbox'[i].fill
             /\ \A i, j \in DOMAIN inbox' :
                   i < j /\ IsPush(inbox'[i]) /\ IsPush(inbox'[j]) => inbox'[i].fill <= inbox'[j].fill
  BY <1>1, <1>2, <1>6, TailInOrder
<1>7. ASSUME NEW f, inbox' = Append(inbox, f), f.fill = 0
      PROVE  /\ \A i \in DOMAIN inbox' : IsPush(inbox'[i]) => at <= inbox'[i].fill
             /\ \A i, j \in DOMAIN inbox' :
                   i < j /\ IsPush(inbox'[i]) /\ IsPush(inbox'[j]) => inbox'[i].fill <= inbox'[j].fill
  <2>1. \A i \in DOMAIN inbox' : (i \in DOMAIN inbox /\ inbox'[i] = inbox[i]) \/ inbox'[i] = f
    BY <1>1, <1>7
  <2>2. ~IsPush(f)
    BY <1>7 DEF IsPush
  <2> QED BY <1>2, <2>1, <2>2
<1>8. CASE ExchangeFill
  <2>1. \A i \in DOMAIN inbox' :
           (i \in DOMAIN inbox /\ inbox'[i] = inbox[i]) \/ inbox'[i].fill = executed + 1
    BY <1>8, FillPushes
  <2>2. \A i \in DOMAIN inbox : inbox[i].fill \in Nat /\ inbox[i].fill <= executed
    BY FillType
  <2>3. executed \in Nat
    BY DEF DataTypes
  <2>4. inbox' \in Seq(Frame) /\ \A i \in DOMAIN inbox : i \in DOMAIN inbox' /\ inbox'[i] = inbox[i]
    BY <1>8, FillPushes
  <2>5. \A i \in DOMAIN inbox : inbox'[i] = inbox[i] /\ inbox[i].fill \in Nat /\ inbox[i].fill <= executed
    BY <2>2, <2>4
  <2>6. \A i \in DOMAIN inbox' : i \in DOMAIN inbox \/ inbox'[i].fill = executed + 1
    BY <2>1
  <2> QED BY <1>1, <1>2, <1>3, <2>3, <2>4, <2>5, <2>6, AddedInOrder
<1>9. (inbox' = Tail(inbox) /\ inbox # <<>>) \/ ~(TradeSubscribe \/ TradePositions \/ TradeTrades)
  BY DEF TradeSubscribe, TradePositions, TradeTrades, Arrived
<1>10. CASE ExchangeSubscribe
  BY <1>7, <1>10 DEF ExchangeSubscribe
<1>11. CASE SocketDisconnected
  BY <1>5, <1>11 DEF SocketDisconnected
<1> QED BY <1>4, <1>6, <1>8, <1>9, <1>10, <1>11, InboxSteps

LEMMA PositionsInOrderStep ==
    ASSUME DataTypes, AnswersInFlight, PositionsInOrder, [DataNext]_allVars
    PROVE  PositionsInOrder'
<1>. DEFINE Answers == composed["positions"] # <<>> =>
                          position["SNAPSHOT"].at <= composed["positions"][2]
<1>1. PushesInOrder(inbox) /\ Answers
  BY DEF PositionsInOrder
<1>2. CASE UNCHANGED position
  <2>1. PushesInOrder(inbox)'
    BY <1>1, <1>2, InOrderUntouched
  <2>2. CASE composed'["positions"] \in {<<>>, composed["positions"]}
    BY <1>1, <1>2, <2>1, <2>2 DEF PositionsInOrder
  <2>3. CASE ExchangeAnswer("positions")
    <3>1. composed'["positions"] = <<IF lookback > TradesLookback THEN 0 ELSE old, executed>>
      BY <2>3 DEF ExchangeAnswer, AnswersInFlight
    <3>2. position["SNAPSHOT"].at <= executed
      BY DEF DataTypes, Sources, IsPosition
    <3> QED BY <1>2, <2>1, <3>1, <3>2 DEF PositionsInOrder
  <2>4. ASSUME NEW k \in Kinds, Answered(k) \/ NotAnswered(k) \/ ExchangeAnswer(k)
        PROVE  composed'["positions"] \in {<<>>, composed["positions"]} \/ ExchangeAnswer("positions")
    BY <2>4 DEF Answered, NotAnswered, ExchangeAnswer, AnswersInFlight
  <2> QED BY <2>2, <2>3, <2>4, DataSteps
<1>3. CASE /\ TradePositions /\ IsPush(Head(inbox)) /\ inbox # <<>> /\ inbox' = Tail(inbox)
           /\ Head(inbox).fill \in Nat /\ Head(inbox).fill <= executed
           /\ Dispatch("INCREMENTAL", Head(inbox).fill) /\ UNCHANGED composed
  <2>1. position'["INCREMENTAL"].at = Head(inbox).fill /\ position'["SNAPSHOT"] = position["SNAPSHOT"]
    BY <1>3, Dispatched DEF Sources
  <2>2. inbox \in Seq(Frame)
    BY DEF DataTypes
  <2>3. /\ \A i \in DOMAIN inbox' : IsPush(inbox'[i]) => Head(inbox).fill <= inbox'[i].fill
        /\ \A i, j \in DOMAIN inbox' :
              i < j /\ IsPush(inbox'[i]) /\ IsPush(inbox'[j]) => inbox'[i].fill <= inbox'[j].fill
    BY <1>1, <1>3, <2>2, TailInOrder DEF PushesInOrder
  <2>4. PushesInOrder(inbox)'
    BY <2>1, <2>3 DEF PushesInOrder, IsPush
  <2> QED BY <1>1, <1>3, <2>1, <2>4 DEF PositionsInOrder
<1>4. CASE /\ Answered("positions") /\ composed["positions"] # <<>>
           /\ composed["positions"][2] \in Nat /\ composed["positions"][2] <= executed
           /\ Dispatch("SNAPSHOT", composed["positions"][2])
           /\ composed'["positions"] = <<>> /\ UNCHANGED inbox
  <2>1. position'["INCREMENTAL"] = position["INCREMENTAL"]
    BY <1>4, Dispatched DEF Sources
  <2>2. PushesInOrder(inbox)'
    BY <1>1, <1>4, <2>1 DEF PushesInOrder, IsPush
  <2> QED BY <1>4, <2>2 DEF PositionsInOrder
<1> QED BY <1>2, <1>3, <1>4, PositionSteps

LEMMA PositionsFollowStep ==
    ASSUME AsksAgain, DataTypes, AnswersInFlight, Acks, ChannelsSubscribed, PositionsInOrder,
           PositionsFollow, [DataNext]_allVars
    PROVE  PositionsFollow'
<1>. DEFINE Goal == \/ \E s \in Sources : position'[s].at = executed'
                    \/ executed' # 0 /\ Pushed("positions", executed)'
                    \/ Awaiting("positions")'
                    \/ composed'["positions"] # <<>> /\ composed'["positions"][2] = executed'
<1>1. SUFFICES ASSUME stage' \in PastPositions PROVE Goal
  BY DEF PositionsFollow
<1>2. CASE stage \notin PastPositions
  BY <1>1, <1>2, PastSteps DEF Awaiting
<1>3. CASE ExchangeFill /\ stage \in PastPositions
  <2>1. \E i \in DOMAIN inbox' : inbox'[i] = [channel |-> "positions", fill |-> executed']
    BY <1>3, FillPushes DEF ChannelsSubscribed
  <2>2. executed' # 0
    BY <1>3, FillPushes DEF DataTypes
  <2> QED BY <2>1, <2>2 DEF Pushed
<1>4. CASE UNCHANGED executed /\ stage \in PastPositions
  <2>1. CASE \E s \in Sources : position[s].at = executed
    <3>1. PICK s \in Sources : position[s].at = executed
      BY <2>1
    <3>2. position'[s].at \in Nat /\ position'[s].at <= executed /\ executed <= position'[s].at
      BY <3>1, PositionGrows DEF IsPosition
    <3>3. executed \in Nat
      BY DEF DataTypes
    <3> QED BY <1>4, <3>2, <3>3
  <2>2. CASE executed # 0 /\ Pushed("positions", executed)
    <3>1. CASE Pushed("positions", executed)'
      BY <1>4, <2>2, <3>1
    <3>2. CASE Head(inbox).channel = "positions" /\ Head(inbox).fill = executed /\ TradePositions
      <4>1. Dispatch("INCREMENTAL", executed) /\ "INCREMENTAL" \in Sources
        BY <3>2 DEF TradePositions, Sources
      <4> QED BY <1>4, <4>1, Dispatched DEF DataTypes
    <3>3. TradeTrades => Head(inbox).channel # "positions"
      BY DEF TradeTrades, Arrived
    <3> QED BY <1>1, <1>4, <2>2, <3>1, <3>2, <3>3, PushedKept DEF DataTypes, Pushed
  <2>3. CASE Awaiting("positions")
    <3>1. CASE ExchangeAnswer("positions")
      <4>1. composed'["positions"] =
               <<IF lookback > TradesLookback THEN 0 ELSE old, executed>>
        BY <3>1 DEF ExchangeAnswer, AnswersInFlight
      <4> QED BY <1>4, <4>1
    <3> QED BY <2>3, <3>1, AwaitingKept
  <2>4. CASE composed["positions"] # <<>> /\ composed["positions"][2] = executed
    <3>1. CASE Answered("positions")
      <4>1. Dispatch("SNAPSHOT", executed) /\ "SNAPSHOT" \in Sources
        BY <2>4, <3>1 DEF Answered, Positions, Sources
      <4> QED BY <1>4, <4>1, Dispatched DEF DataTypes
    <3> QED BY <1>4, <2>4, <3>1, ComposedKept
  <2> QED BY <1>4, <2>1, <2>2, <2>3, <2>4 DEF PositionsFollow
<1> QED BY <1>2, <1>3, <1>4, ExecutedSteps

-----------------------------------------------------------------------------
(* Trades.                                                                 *)

(* What is known stays known, and more is known when trades arrive.        *)
LEMMA KnownSteps ==
    ASSUME AnswersInFlight, [DataNext]_allVars
    PROVE  /\ known \subseteq known'
           /\ TradeTrades => TradeUpdates({Head(inbox).fill}) \subseteq known'
           /\ Answered("trades") =>
                 TradeUpdates(composed["trades"][1] + 1 .. composed["trades"][2]) \subseteq known'
<1>1. ASSUME NEW k \in Kinds, Answered(k) \/ NotAnswered(k) \/ ExchangeAnswer(k)
      PROVE  known \subseteq known'
  BY <1>1 DEF Answered, NotAnswered, ExchangeAnswer, Accounts, Positions, UserTrades, reported
<1>2. ASSUME TradePositions \/ TradeTrades PROVE known \subseteq known'
  BY <1>2 DEF TradePositions, TradeTrades
<1>3. known \subseteq known'
  BY <1>1, <1>2, DataSteps
<1>4. TradeTrades => TradeUpdates({Head(inbox).fill}) \subseteq known'
  BY DEF TradeTrades
<1>5. Answered("trades") =>
         TradeUpdates(composed["trades"][1] + 1 .. composed["trades"][2]) \subseteq known'
  BY DEF Answered, UserTrades
<1> QED BY <1>3, <1>4, <1>5

(* Until the first trades came, an answer is composed for a request that   *)
(* reaches back to before the start, and when it came its fills are known. *)
LEMMA RestartedStep ==
    ASSUME TypeOK, Reach, DataTypes, AnswersInFlight, Restarted, [DataNext]_allVars
    PROVE  Restarted'
<1>1. SUFFICES ASSUME RestartLookback > TradesLookback
               PROVE  /\ ~first' => TradeUpdates(1 .. Earlier) \subseteq known'
                      /\ (first' /\ composed'["trades"] # <<>>) =>
                            composed'["trades"][1] = 0 /\ composed'["trades"][2] >= Earlier
  BY DEF Restarted
<1>2. CASE first' = first /\ composed'["trades"] \in {<<>>, composed["trades"]}
  BY <1>1, <1>2, KnownSteps DEF Restarted
<1>3. ASSUME NEW k \in Kinds, Sent(k), UNCHANGED composed
      PROVE  first' = first /\ composed'["trades"] \in {<<>>, composed["trades"]}
  BY <1>3 DEF Sent
<1>4. ASSUME NEW k \in Kinds, Answered(k)
      PROVE  \/ first' = first /\ composed'["trades"] \in {<<>>, composed["trades"]}
             \/ Answered("trades") /\ first' = FALSE /\ composed["trades"] # <<>>
  BY <1>4 DEF Answered, AckSuccess, AnswersInFlight
<1>5. ASSUME NEW k \in Kinds, NotAnswered(k)
      PROVE  first' = first /\ composed'["trades"] \in {<<>>, composed["trades"]}
  BY <1>5 DEF NotAnswered, AckError, AnswersInFlight, trades
<1>6. ASSUME NEW k \in Kinds, ExchangeAnswer(k)
      PROVE  \/ first' = first /\ composed'["trades"] \in {<<>>, composed["trades"]}
             \/ ExchangeAnswer("trades") /\ first' = first
  BY <1>6 DEF ExchangeAnswer, AnswersInFlight, vars
<1>7. CASE Answered("trades") /\ first' = FALSE /\ composed["trades"] # <<>>
  <2>1. CASE ~first
    BY <1>1, <1>7, <2>1, KnownSteps DEF Restarted
  <2>2. CASE first
    <3>1. composed["trades"][1] = 0 /\ composed["trades"][2] >= Earlier
          /\ composed["trades"][2] \in Nat
      BY <1>1, <1>7, <2>2 DEF Restarted, AnswersInFlight
    <3>2. Earlier \in Nat
      BY AccountDataAssumption
    <3>3. 1 .. Earlier \subseteq composed["trades"][1] + 1 .. composed["trades"][2]
      BY <3>1, <3>2
    <3> QED BY <1>7, <3>3, KnownSteps DEF TradeUpdates
  <2> QED BY <2>1, <2>2, <1>7 DEF TypeOK
<1>8. CASE ExchangeAnswer("trades") /\ first' = first
  <2>1. ASSUME first
        PROVE  composed'["trades"][1] = 0 /\ composed'["trades"][2] >= Earlier
    <3>1. lookback = RestartLookback
      BY <1>1, <1>8, <2>1 DEF Reach, ExchangeAnswer
    <3>2. composed'["trades"] = <<0, executed>>
      BY <1>1, <1>8, <3>1 DEF ExchangeAnswer, AnswersInFlight
    <3>3. Earlier \in Nat /\ executed \in Nat /\ executed >= Earlier
      BY AccountDataAssumption DEF DataTypes
    <3> QED BY <3>2, <3>3
  <2> QED BY <1>1, <1>8, <2>1, KnownSteps DEF Restarted
<1>9. CASE UNCHANGED <<first, composed>>
  BY <1>2, <1>9
<1>10. CASE UNCHANGED <<vars, composed>>
  BY <1>9, <1>10 DEF vars
<1> QED BY <1>2, <1>3, <1>4, <1>5, <1>6, <1>7, <1>8, <1>9, <1>10, DataSteps

LEMMA TradesFollowStep ==
    ASSUME AsksAgain, TypeOK, Reach, DataTypes, AnswersInFlight, Acks, ChannelsSubscribed,
           Restarted, TradesFollow, [DataNext]_allVars
    PROVE  TradesFollow'
<1>. DEFINE Goal(f) == \/ f \in known'
                       \/ Pushed("trades", f)'
                       \/ Awaiting("trades")'
                       \/ /\ composed'["trades"] # <<>>
                          /\ composed'["trades"][1] < f /\ f <= composed'["trades"][2]
<1>1. SUFFICES ASSUME stage' \in PastTrades, NEW f \in TradeUpdates(1 .. executed'), Wanted(f)'
               PROVE  Goal(f)
  BY DEF TradesFollow
<1>2. f \in Nat \ {0} /\ f <= executed' /\ f \notin External /\ executed' \in Nat
  BY ExecutedSteps DEF TradeUpdates, DataTypes
<1>3. CASE stage \notin PastTrades
  BY <1>1, <1>3, PastSteps DEF Awaiting
<1>4. CASE ExchangeFill /\ f = executed' /\ stage \in PastTrades
  <2>1. \E i \in DOMAIN inbox' : inbox'[i] = [channel |-> "trades", fill |-> executed']
    BY <1>4, FillPushes DEF ChannelsSubscribed
  <2> QED BY <1>4, <2>1 DEF Pushed
<1>5. CASE f <= executed /\ stage \in PastTrades
  <2>1. f \in TradeUpdates(1 .. executed) /\ Wanted(f)
    <3>1. old \in Nat /\ old' \in Nat /\ old <= old' /\ executed \in Nat
      BY ExecutedSteps DEF DataTypes
    <3> QED BY <1>1, <1>2, <1>5, <3>1 DEF TradeUpdates, Wanted
  <2>2. CASE f \in known
    BY <2>2, KnownSteps
  <2>3. CASE Pushed("trades", f)
    <3>1. CASE Head(inbox).channel = "trades" /\ Head(inbox).fill = f /\ TradeTrades
      BY <1>2, <3>1, KnownSteps DEF TradeUpdates
    <3>2. TradePositions => Head(inbox).channel # "trades"
      BY DEF TradePositions, Arrived
    <3> QED BY <1>1, <1>2, <2>3, <3>1, <3>2, PushedKept
  <2>4. CASE Awaiting("trades")
    <3>1. CASE ExchangeAnswer("trades")
      <4>1. /\ composed'["trades"] = <<IF lookback > TradesLookback THEN 0 ELSE old, executed>>
            /\ "trades" \in in_flight
        BY <3>1 DEF ExchangeAnswer, AnswersInFlight
      <4>2. CASE f > old \/ lookback > TradesLookback
        <5>1. (IF lookback > TradesLookback THEN 0 ELSE old) < f
          BY <1>2, <4>2
        <5> QED BY <1>5, <4>1, <5>1
      <4>3. CASE f <= Earlier /\ RestartLookback > TradesLookback
        <5>1. CASE first
          BY <4>1, <4>2, <4>3, <5>1 DEF Reach
        <5>2. CASE ~first
          <6>1. f \in TradeUpdates(1 .. Earlier)
            BY <1>2, <4>3, AccountDataAssumption DEF TradeUpdates
          <6> QED BY <2>2, <4>3, <5>2, <6>1 DEF Restarted
        <5> QED BY <5>1, <5>2
      <4> QED BY <2>1, <4>2, <4>3 DEF Wanted
    <3> QED BY <2>4, <3>1, AwaitingKept
  <2>5. CASE /\ composed["trades"] # <<>>
             /\ composed["trades"][1] < f /\ f <= composed["trades"][2]
    <3>1. CASE Answered("trades")
      <4>1. f \in composed["trades"][1] + 1 .. composed["trades"][2]
        BY <1>2, <2>5 DEF AnswersInFlight
      <4> QED BY <1>2, <3>1, <4>1, KnownSteps DEF TradeUpdates
    <3> QED BY <2>5, <3>1, ComposedKept
  <2> QED BY <1>5, <2>1, <2>2, <2>3, <2>4, <2>5 DEF TradesFollow
<1>6. f <= executed \/ (ExchangeFill /\ f = executed')
  BY <1>2, ExecutedSteps DEF DataTypes
<1> QED BY <1>3, <1>4, <1>5, <1>6

-----------------------------------------------------------------------------
(* The invariants.                                                         *)

LEMMA DataInitInv == DataInit => DataInv
<1> SUFFICES ASSUME DataInit PROVE DataInv
  OBVIOUS
<1>1. stage = "UNDEFINED" /\ inbox = <<>> /\ in_flight = {} /\ first
      /\ composed = [k \in Kinds |-> <<>>] /\ subscribed = {}
      /\ executed = Earlier /\ old = Earlier
      /\ position = [s \in Sources |-> PositionUpdate(0)]
  BY DEF DataInit, Init
<1>2. Earlier \in Nat /\ Earlier <= Len(Sizes)
  BY AccountDataAssumption
<1>3. DataTypes
  <2>1. "UNDEFINED" \in DOMAIN Successor
    BY DEF Successor
  <2>2. position = [s \in Sources |-> position[s]] /\ \A s \in Sources : position[s] = PositionUpdate(0)
    BY <1>1
  <2>3. PositionUpdate(0).at = 0
    BY DEF PositionUpdate
  <2>4. \A s \in Sources : IsPosition(position[s])
    BY <1>1, <1>2, <2>2, <2>3 DEF IsPosition
  <2> QED BY <1>1, <1>2, <2>1, <2>2, <2>4 DEF DataTypes
<1>4. AnswersInFlight
  BY <1>1 DEF AnswersInFlight
<1>5. Acks /\ ChannelsSubscribed /\ PositionsInOrder /\ PositionsFollow /\ TradesFollow
  BY <1>1 DEF Acks, ChannelsSubscribed, PositionsInOrder, PushesInOrder, PositionsFollow, TradesFollow
<1>6. Restarted
  BY <1>1 DEF Restarted
<1> QED BY <1>3, <1>4, <1>5, <1>6 DEF DataInv

LEMMA DataInvariant == AsksAgain /\ DataSpec => [](TypeOK /\ DataInv)
<1>1. AsksAgain /\ TypeOK /\ Reach /\ DataInv /\ [DataNext]_allVars => DataInv'
  BY DataTypesStep, AnswersInFlightStep, AcksStep, ChannelsSubscribedStep,
     PositionsInOrderStep, PositionsFollowStep, RestartedStep, TradesFollowStep DEF DataInv
<1>2. DataSpec => [](TypeOK /\ Reach)
  BY AccountDoesOrderEntry, OrderEntryTypeCorrect, ReachAlways, PTL
<1>3. CASE AsksAgain
  <2>1. TypeOK /\ Reach /\ DataInv /\ [DataNext]_allVars => DataInv'
    BY <1>1, <1>3
  <2> QED BY <2>1, <1>2, DataInitInv, PTL DEF DataSpec
<1> QED BY <1>3

(* Once a session is complete and nothing is under way, every fill of the  *)
(* gateway's orders was dispatched, however often the socket was lost and  *)
(* whichever request the answers belong to, if the library asks again.     *)
THEOREM NoFillIsMissed == AsksAgain /\ DataSpec => []FillsAddUp
<1>1. DataInv => FillsAddUp
  BY DEF DataInv, DataTypes, AnswersInFlight, TradesFollow, FillsAddUp, Settled, Wanted, Pushed, Awaiting
<1> QED BY <1>1, DataInvariant, PTL

(* Once a session is complete and nothing is under way, one of the two     *)
(* sources of positions, the answers of REST or the pushes of the          *)
(* websocket, ends with the position the account has: no change is missed  *)
(* by both, if the library asks again.                                     *)
THEOREM PositionAlwaysFollows == AsksAgain /\ DataSpec => []PositionFollows
<1>1. DataInv => PositionFollows
  <2>1. SUFFICES ASSUME DataInv, Settled, "positions" \notin failed
                 PROVE  \E s \in Sources :
                           /\ position[s].at = executed
                           /\ position[s].long - position[s].short = Size(executed)
    BY DEF PositionFollows
  <2>2. PICK s \in Sources : position[s].at = executed
    BY <2>1 DEF DataInv, AnswersInFlight, PositionsFollow, Settled, Pushed, Awaiting
  <2>3. position[s] = PositionUpdate(executed) /\ executed \in Nat /\ executed <= Len(Sizes)
    BY <2>1, <2>2 DEF DataInv, DataTypes, IsPosition
  <2> QED BY <2>2, <2>3, PositionHasSize
<1> QED BY <1>1, DataInvariant, PTL
=============================================================================
