--------------------------- MODULE ThrottleProofs ---------------------------
(***************************************************************************)
(* The types of Throttle, that an exhausted limit suspends the requests,   *)
(* and that a suspension is only cut short by news of requests that remain.*)
(***************************************************************************)
EXTENDS Throttle, TLAPS

USE DEF Later

(* The suspension the limit calls for is a time, and an exhausted limit    *)
(* suspends at least until the window ends.                                *)
LEMMA SuspensionCovers ==
    ASSUME TypeOK, NEW remain \in Nat, NEW reset \in Nat
    PROVE  /\ Suspension(remain, reset) \in Nat
           /\ (Enabled /\ remain = 0 /\ reset # 0)
                 => Suspension(remain, reset) + Offset >= reset
           /\ Suspension(remain, reset) < suspend_until
                 => (remain > 0 \/ reset = 0)
<1>1. CASE ~Enabled
  BY <1>1, ThrottleAssumption DEF TypeOK, Suspension
<1>2. CASE Enabled /\ (remain > 0 \/ reset = 0)
  BY <1>2, ThrottleAssumption DEF TypeOK, Suspension
<1>3. CASE Enabled /\ remain = 0 /\ reset # 0
  <2>1. CASE Realtime < reset
    BY <1>3, <2>1, ThrottleAssumption DEF TypeOK, Suspension, Realtime
  <2>2. CASE ~(Realtime < reset)
    BY <1>3, <2>2, ThrottleAssumption DEF TypeOK, Suspension, Realtime
  <2>3. QED BY <2>1, <2>2
<1>4. QED BY <1>1, <1>2, <1>3

(* What an earlier time covers, a later one covers.                        *)
LEMMA LaterCovers ==
    ASSUME NEW t \in Nat, NEW u \in Nat, NEW n \in Nat, NEW r \in Nat,
           u >= t, t + n >= r
    PROVE  u + n >= r
OBVIOUS

(* A back-off never shortens the suspension there is.                      *)
LEMMA BackOffExtends ==
    ASSUME TypeOK, NEW s
    PROVE  BackOff(s) \in Nat /\ BackOff(s) >= suspend_until
BY ThrottleAssumption DEF TypeOK, BackOff

(* What has arrived on a connection is a part of a response, and the rest  *)
(* of the response is left.                                                *)
LEMMA ArrivedPart ==
    ASSUME TypeOK, NEW c \in Connections, NEW part, Arrived(c, part)
    PROVE  /\ Head(response[c]) \in Part
           /\ Head(response[c]).part = part
           /\ Tail(response[c]) \in Seq(Part)
BY DEF TypeOK, Arrived

LEMMA HeaderValue ==
    ASSUME TypeOK, NEW c \in Connections,
           NEW part \in {"requests_remain", "reset_timestamp"}, Arrived(c, part)
    PROVE  Head(response[c]).value \in Nat
BY ArrivedPart DEF Part, Requested

(* The remainder of a division by the length of a window.                  *)
LEMMA WindowEndIsTime ==
    ASSUME TypeOK PROVE WindowEnd \in Nat
<1>1. Realtime \in Nat /\ Window \in Nat /\ Window > 0
  BY ThrottleAssumption DEF TypeOK, Realtime
<1>2. Realtime \div Window \in Nat
  BY <1>1
<1>3. QED BY <1>1, <1>2 DEF WindowEnd

-----------------------------------------------------------------------------
(* The initial values have their types.                                    *)
LEMMA InitType == Init => TypeOK
BY ThrottleAssumption DEF Init, TypeOK

(* The exchange answers a request with parts of a response.                *)
LEMMA AnswerType ==
    ASSUME TypeOK, NEW c \in Connections, NEW headers \in Seq(Part), NEW s \in Status,
           Answer(c, headers, s)
    PROVE  response' \in [Connections -> Seq(Part)]
<1>1. EndOf(s) \in Part
  BY DEF EndOf, Part
<1>2. QED BY <1>1 DEF TypeOK, Answer

(* Every step keeps the types.                                             *)
LEMMA NextType == TypeOK /\ [Next]_vars => TypeOK'
<1> SUFFICES ASSUME TypeOK, [Next]_vars PROVE TypeOK'
  OBVIOUS
<1>1. CASE Tick
  BY <1>1, ThrottleAssumption DEF TypeOK, Tick, params
<1>2. ASSUME NEW c \in Connections, Send(c) PROVE TypeOK'
  <2>1. <<Requested>> \in Seq(Part)
    BY DEF Part
  <2>2. QED BY <1>2, <2>1 DEF TypeOK, Send, params
<1>3. ASSUME NEW c \in Connections, HeaderReset(c) PROVE TypeOK'
  <2>1. reset_timestamp' \in Nat
    BY <1>3, HeaderValue DEF HeaderReset
  <2>2. suspend_until' \in Nat
    BY <1>3, <2>1, SuspensionCovers DEF HeaderReset, TypeOK
  <2>3. Tail(response[c]) \in Seq(Part)
    BY <1>3, ArrivedPart DEF HeaderReset
  <2>4. QED BY <1>3, <2>1, <2>2, <2>3 DEF TypeOK, HeaderReset
<1>4. ASSUME NEW c \in Connections, HeaderRemain(c) PROVE TypeOK'
  <2>1. requests_remain' \in Nat
    BY <1>4, HeaderValue DEF HeaderRemain
  <2>2. suspend_until' \in Nat
    BY <1>4, <2>1, SuspensionCovers DEF HeaderRemain, TypeOK
  <2>3. Tail(response[c]) \in Seq(Part)
    BY <1>4, ArrivedPart DEF HeaderRemain
  <2>4. QED BY <1>4, <2>1, <2>2, <2>3 DEF TypeOK, HeaderRemain
<1>5. ASSUME NEW c \in Connections, MessageEnd(c) PROVE TypeOK'
  <2>1. suspend_until' \in Nat
    BY <1>5, BackOffExtends DEF MessageEnd, TypeOK
  <2>2. blocked_until' \in Nat
    BY <1>5, ThrottleAssumption DEF MessageEnd, TypeOK
  <2>3. Tail(response[c]) \in Seq(Part)
    BY <1>5, ArrivedPart DEF MessageEnd
  <2>4. QED BY <1>5, <2>1, <2>2, <2>3 DEF TypeOK, MessageEnd, params
<1>6. ASSUME NEW c \in Connections, Disconnected(c) PROVE TypeOK'
  BY <1>6 DEF TypeOK, Disconnected, params
<1>7. ASSUME NEW c \in Connections, ExchangeAnswer(c) PROVE TypeOK'
  <2>1. used' \in 0..Limit
    BY <1>7, ThrottleAssumption DEF ExchangeAnswer, TypeOK
  <2>2. PICK s \in Status, n \in Part, t \in Part :
           Answer(c, <<n, t>>, s) \/ Answer(c, <<t, n>>, s)
    <3>1. Remain(Limit - used') \in Part
      BY <2>1, ThrottleAssumption DEF Remain, Part
    <3>2. ResetAt(WindowEnd) \in Part
      BY WindowEndIsTime DEF ResetAt, Part
    <3>3. (IF used < Limit THEN "OK" ELSE "TOO_MANY_REQUESTS") \in Status
      BY DEF Status
    <3>4. QED BY <1>7, <3>1, <3>2, <3>3 DEF ExchangeAnswer
  <2>3. <<n, t>> \in Seq(Part) /\ <<t, n>> \in Seq(Part)
    BY <2>2
  <2>4. response' \in [Connections -> Seq(Part)]
    BY <2>2, <2>3, AnswerType
  <2>5. QED BY <1>7, <2>1, <2>4 DEF TypeOK, ExchangeAnswer, params
<1>8. ASSUME NEW c \in Connections, ExchangeBlock(c) PROVE TypeOK'
  <2>1. <<>> \in Seq(Part) /\ "FORBIDDEN" \in Status /\ Answer(c, <<>>, "FORBIDDEN")
    BY <1>8 DEF ExchangeBlock, Status
  <2> response' \in [Connections -> Seq(Part)]
    BY <2>1, AnswerType
  <2>2. QED BY <1>8 DEF TypeOK, ExchangeBlock, params
<1>9. CASE UNCHANGED vars
  BY <1>9 DEF TypeOK, vars
<1>10. QED BY <1>1, <1>2, <1>3, <1>4, <1>5, <1>6, <1>7, <1>8, <1>9 DEF Next

(* The variables of the throttle always have their types.                  *)
THEOREM ThrottleTypeCorrect == Spec => []TypeOK
BY InitType, NextType, PTL DEF Spec

-----------------------------------------------------------------------------
(* A step either leaves the limit and the suspension alone, is a header    *)
(* that says something new, or is the end of a response.                   *)
LEMMA LimitSteps ==
    ASSUME TypeOK, [Next]_vars
    PROVE  \/ UNCHANGED <<params, suspend_until>>
           \/ /\ requests_remain' \in Nat /\ reset_timestamp' \in Nat
              /\ suspend_until' = Suspension(requests_remain', reset_timestamp')
           \/ UNCHANGED params /\ suspend_until' >= suspend_until
<1>1. CASE UNCHANGED vars
  BY <1>1 DEF vars, params
<1>2. CASE Tick
  BY <1>2 DEF Tick
<1>3. ASSUME NEW c \in Connections, HeaderReset(c)
      PROVE  \/ UNCHANGED <<params, suspend_until>>
             \/ /\ requests_remain' \in Nat /\ reset_timestamp' \in Nat
                /\ suspend_until' = Suspension(requests_remain', reset_timestamp')
  <2>1. reset_timestamp' \in Nat
    BY <1>3, HeaderValue DEF HeaderReset
  <2>2. QED BY <1>3, <2>1 DEF HeaderReset, params, TypeOK
<1>4. ASSUME NEW c \in Connections, HeaderRemain(c)
      PROVE  \/ UNCHANGED <<params, suspend_until>>
             \/ /\ requests_remain' \in Nat /\ reset_timestamp' \in Nat
                /\ suspend_until' = Suspension(requests_remain', reset_timestamp')
  <2>1. requests_remain' \in Nat
    BY <1>4, HeaderValue DEF HeaderRemain
  <2>2. QED BY <1>4, <2>1 DEF HeaderRemain, params, TypeOK
<1>5. ASSUME NEW c \in Connections, MessageEnd(c)
      PROVE  UNCHANGED params /\ suspend_until' >= suspend_until
  BY <1>5, BackOffExtends DEF MessageEnd, TypeOK
<1>6. ASSUME NEW c \in Connections,
             Send(c) \/ Disconnected(c) \/ ExchangeAnswer(c) \/ ExchangeBlock(c)
      PROVE  UNCHANGED <<params, suspend_until>>
  BY <1>6 DEF Send, Disconnected, ExchangeAnswer, ExchangeBlock
<1>7. QED BY <1>1, <1>2, <1>3, <1>4, <1>5, <1>6 DEF Next

(* The connections never know of an exhausted limit without holding        *)
(* requests back until its window ends.                                    *)
THEOREM ExhaustedAlwaysSuspended == Spec => []ExhaustedIsSuspended
<1>1. Init => ExhaustedIsSuspended
  BY DEF Init, ExhaustedIsSuspended
<1>2. TypeOK /\ ExhaustedIsSuspended /\ [Next]_vars => ExhaustedIsSuspended'
  <2> SUFFICES ASSUME TypeOK, ExhaustedIsSuspended, [Next]_vars
               PROVE  ExhaustedIsSuspended'
    OBVIOUS
  <2>0. TypeOK' BY NextType
  <2>1. CASE UNCHANGED <<params, suspend_until>>
    BY <2>1 DEF ExhaustedIsSuspended, params
  <2>2. CASE /\ requests_remain' \in Nat /\ reset_timestamp' \in Nat
             /\ suspend_until' = Suspension(requests_remain', reset_timestamp')
    BY <2>2, SuspensionCovers DEF ExhaustedIsSuspended
  <2>3. CASE UNCHANGED params /\ suspend_until' >= suspend_until
    <3>1. requests_remain' = requests_remain /\ reset_timestamp' = reset_timestamp
      BY <2>3 DEF params
    <3>2. suspend_until' \in Nat /\ suspend_until \in Nat /\ reset_timestamp \in Nat
      BY <2>0 DEF TypeOK
    <3>3. suspend_until' >= suspend_until /\ Offset \in Nat
      BY <2>3, ThrottleAssumption
    <3>4. ASSUME Enabled, requests_remain' = 0, reset_timestamp' # 0
          PROVE  suspend_until' + Offset >= reset_timestamp'
      <4>1. suspend_until + Offset >= reset_timestamp
        BY <3>1, <3>4, Zenon DEF ExhaustedIsSuspended
      <4>2. QED BY <3>1, <3>2, <3>3, <4>1, LaterCovers
    <3>5. QED BY <3>4 DEF ExhaustedIsSuspended
  <2>4. QED BY <2>1, <2>2, <2>3, LimitSteps
<1>3. QED BY <1>1, <1>2, ThrottleTypeCorrect, PTL DEF Spec

(* No step cuts a suspension short but a header after which requests       *)
(* remain (or no window is known).                                         *)
THEOREM OnlyNewsCutsShort == Spec => CutShortByNews
<1>1. TypeOK /\ [Next]_vars =>
         [suspend_until' < suspend_until =>
             (requests_remain' > 0 \/ reset_timestamp' = 0)]_vars
  <2> SUFFICES ASSUME TypeOK, [Next]_vars, suspend_until' < suspend_until
               PROVE  requests_remain' > 0 \/ reset_timestamp' = 0
    OBVIOUS
  <2>0. TypeOK' BY NextType
  <2>1. suspend_until' \in Nat /\ suspend_until \in Nat
    BY <2>0 DEF TypeOK
  <2>2. CASE /\ requests_remain' \in Nat /\ reset_timestamp' \in Nat
             /\ suspend_until' = Suspension(requests_remain', reset_timestamp')
    BY <2>2, SuspensionCovers
  <2>3. QED BY <2>1, <2>2, LimitSteps
<1>2. QED BY <1>1, ThrottleTypeCorrect, PTL DEF Spec, CutShortByNews
=============================================================================
