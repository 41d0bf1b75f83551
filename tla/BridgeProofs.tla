---------------------------- MODULE BridgeProofs ----------------------------
(* The theorems about Bridge, for all values of its constants: its types;  *)
(* each safety property, from an inductive invariant of its own; and that  *)
(* it implements Relay.                                                    *)
EXTENDS BridgeRelay, FiniteSetTheorems, SequenceTheorems, TLAPS

-----------------------------------------------------------------------------
(* Type correctness.                                                       *)

LEMMA TypeInit == Init => TypeOK
<1> SUFFICES ASSUME Init PROVE TypeOK
  OBVIOUS
<1>1. FrontType
  BY BoundAssumption DEF Init, FrontType
<1>2. CallbackType
  BY DEF Init, CallbackType
<1>3. QueueType /\ WireType
  <2>1. /\ queue \in Seq(Measurement) /\ Len(queue) = 0
        /\ outbox \in Seq(Message)
        /\ broker \in Seq(Receipt)
    BY DEF Init
  <2>2. complete \in BOOLEAN /\ store \subseteq Message
    BY DEF Init
  <2>3. QED
    BY <2>1, <2>2, QueueAssumption DEF QueueType, WireType
<1>4. PublisherType /\ OutcomeType
  BY QueueAssumption DEF Init, PublisherType, OutcomeType
<1>5. RunType
  <2>1. cancelled \in BOOLEAN
    BY DEF Init
  <2>2. QED
    BY <2>1, BoundAssumption DEF Init, RunType
<1>6. QED
  BY <1>1, <1>2, <1>3, <1>4, <1>5 DEF TypeOK

\* A group of variables that does not change keeps its type.
LEMMA FrontFrame == FrontType /\ UNCHANGED frontVars => FrontType'
BY DEF FrontType, frontVars

LEMMA CallbackFrame == CallbackType /\ UNCHANGED callbackVars => CallbackType'
BY DEF CallbackType, callbackVars

LEMMA QueueFrame == QueueType /\ UNCHANGED queue => QueueType'
BY DEF QueueType

LEMMA PublisherFrame == PublisherType /\ UNCHANGED publisherVars => PublisherType'
BY DEF PublisherType, publisherVars

LEMMA WireFrame == WireType /\ UNCHANGED wireVars => WireType'
BY DEF WireType, wireVars

LEMMA OutcomeFrame == OutcomeType /\ UNCHANGED outcomeVars => OutcomeType'
BY DEF OutcomeType, outcomeVars

LEMMA RunFrame == RunType /\ UNCHANGED runVars => RunType'
BY DEF RunType, runVars

\* The process ends, and what the client kept with it.
LEMMA WireEnd == WireType /\ UNCHANGED <<outbox, broker, complete>> /\ store' = {} => WireType'
BY DEF WireType

\* What every advertisement of a listed device leaves of the types.
LEMMA HearType ==
  ASSUME TypeOK, NEW d \in Devices, NEW f \in Frames, Hear(d, f)
  PROVE  /\ heard' \in 0..MaxAdverts
         /\ total' \in Nat
         /\ lastSeen' \in [Devices -> Nat \cup {Never}]
         /\ lastE1' \in [Devices -> Nat \cup {Never}]
         /\ QueueType' /\ PublisherType' /\ OutcomeType'
         /\ store' = store \/ store' = {} => WireType'
<1>1. /\ heard' \in 0..MaxAdverts
      /\ total' \in Nat
  BY BoundAssumption DEF TypeOK, FrontType, Hear
<1>2. now \in Nat
  BY BoundAssumption DEF TypeOK, RunType
<1>3. /\ lastSeen' \in [Devices -> Nat \cup {Never}]
      /\ lastE1' \in [Devices -> Nat \cup {Never}]
  BY <1>2 DEF TypeOK, FrontType, Hear
<1>4. store' = store \/ store' = {} => WireType'
  BY WireFrame, WireEnd DEF TypeOK, Hear, wireVars
<1>5. QED
  BY <1>1, <1>3, <1>4, QueueFrame, PublisherFrame, OutcomeFrame DEF TypeOK, Hear

LEMMA FrontStepType ==
  ASSUME TypeOK, FrontStep
  PROVE  TypeOK'
<1>1. ASSUME NEW d \in Devices, Ignore(d)
      PROVE  TypeOK'
  <2>1. FrontType'
    BY <1>1, BoundAssumption DEF TypeOK, FrontType, Ignore
  <2>2. QED
    BY <1>1, <2>1, CallbackFrame, QueueFrame, PublisherFrame, WireFrame, OutcomeFrame,
       RunFrame
    DEF TypeOK, Ignore
<1>2. ASSUME NEW d \in Devices, NEW f \in Frames, Suppress(d, f)
      PROVE  TypeOK'
  <2>1. FrontType'
    BY <1>2, HearType DEF TypeOK, FrontType, Suppress
  <2>2. CallbackType' /\ RunType'
    BY <1>2 DEF TypeOK, CallbackType, RunType, Suppress, Hear
  <2>3. QED
    BY <1>2, <2>1, <2>2, HearType DEF TypeOK, Suppress
<1>3. ASSUME NEW d \in Devices, NEW f \in Frames, Panic(d, f)
      PROVE  TypeOK'
  <2>1. FrontType'
    BY <1>3, HearType DEF TypeOK, FrontType, Panic
  <2>2. CallbackType' /\ RunType'
    BY <1>3 DEF TypeOK, CallbackType, RunType, Panic, Hear
  <2>3. QED
    BY <1>3, <2>1, <2>2, HearType DEF TypeOK, Panic
<1>4. ASSUME NEW d \in Devices, NEW f \in Frames, RateLimit(d, f)
      PROVE  TypeOK'
  <2>1. FrontType'
    BY <1>4, HearType DEF TypeOK, FrontType, RateLimit
  <2>2. CallbackType' /\ RunType'
    BY <1>4 DEF TypeOK, CallbackType, RunType, RateLimit, Hear
  <2>3. QED
    BY <1>4, <2>1, <2>2, HearType DEF TypeOK, RateLimit
<1>5. ASSUME NEW d \in Devices, NEW f \in Frames, Allow(d, f)
      PROVE  /\ lastSent' \in [Devices -> Nat \cup {Never}]
             /\ RunType' /\ store' = store
  <2>1. now \in Nat
    BY BoundAssumption DEF TypeOK, RunType
  <2>2. QED
    BY <1>5, <2>1 DEF TypeOK, FrontType, RunType, Allow, Hear
<1>6. ASSUME NEW d \in Devices, NEW f \in Frames, Reject(d, f)
      PROVE  TypeOK'
  <2>1. Allow(d, f) /\ Hear(d, f)
    BY <1>6 DEF Reject, Allow
  <2>2. FrontType'
    <3>1. /\ heard' \in 0..MaxAdverts /\ total' \in Nat
          /\ lastSeen' \in [Devices -> Nat \cup {Never}]
          /\ lastE1' \in [Devices -> Nat \cup {Never}]
          /\ lastSent' \in [Devices -> Nat \cup {Never}]
      BY <2>1, <1>5, HearType
    <3>2. /\ suppressed' = suppressed /\ rateLimited' = rateLimited
          /\ admitted' = admitted /\ parseErrors' = parseErrors + 1
      BY <1>6 DEF Reject, Allow
    <3>3. QED
      BY <3>1, <3>2 DEF TypeOK, FrontType
  <2>3. CallbackType'
    BY <1>6, <2>1 DEF TypeOK, CallbackType, Reject, Hear
  <2>4. QED
    BY <2>1, <2>2, <2>3, <1>5, HearType DEF TypeOK
<1>7. ASSUME NEW d \in Devices, NEW f \in Frames, Admit(d, f)
      PROVE  TypeOK'
  <2>1. Allow(d, f) /\ Hear(d, f)
    BY <1>7 DEF Admit, Allow
  <2>2. cbM' \in Measurement
    <3>1. /\ f.fmt \in Formats
          /\ f.kind \in {"good", "nan"}
      BY <1>7, FrameAssumption DEF Admit, Kinds
    <3>2. now \in Nat /\ total + 1 \in Nat
      BY BoundAssumption DEF TypeOK, FrontType, RunType
    <3>3. QED
      BY <1>7, <3>1, <3>2 DEF Admit, Measurement
  <2>3. FrontType'
    BY <1>7, <2>1, <2>2, <1>5, HearType DEF TypeOK, FrontType, Admit, Allow
  <2>4. Len(SensorsOf[cbM'.fmt]) \in Nat \ {0}
    <3>1. cbM'.fmt \in Formats
      BY <2>2 DEF Measurement
    <3>2. QED
      BY <3>1, SensorAssumption
  <2>5. CallbackType'
    BY <1>7, <2>1, <2>2, <2>4 DEF TypeOK, CallbackType, Admit, Hear
  <2>6. QED
    BY <2>1, <2>3, <2>5, <1>5, HearType DEF TypeOK
<1>8. QED
  BY <1>1, <1>2, <1>3, <1>4, <1>6, <1>7 DEF FrontStep

\* The sensor whose config is under way.
LEMMA SensorType ==
  ASSUME TypeOK, cb \in {"announce", "await"}
  PROVE  Sensor \in Devices \X STRING
<1>1. cbM \in Measurement /\ cbNext \in 1..Len(SensorsOf[cbM.fmt])
  BY DEF TypeOK, CallbackType
<1>2. cbM.fmt \in Formats /\ cbM.dev \in Devices
  BY <1>1 DEF Measurement
<1>3. SensorsOf[cbM.fmt] \in Seq(STRING)
  BY <1>2, SensorAssumption
<1>4. SensorsOf[cbM.fmt][cbNext] \in STRING
  BY <1>1, <1>3
<1>5. QED
  BY <1>2, <1>4 DEF Sensor

LEMMA CallbackStepType ==
  ASSUME TypeOK, CallbackStep
  PROVE  TypeOK'
<1>1. ASSUME Announce PROVE TypeOK'
  <2>1. CallbackType'
    BY <1>1, SensorType DEF TypeOK, CallbackType, Announce
  <2>2. QED
    BY <1>1, <2>1, FrontFrame, QueueFrame, PublisherFrame, WireFrame, OutcomeFrame, RunFrame
    DEF TypeOK, Announce
<1>2. ASSUME Announced PROVE TypeOK'
  <2>1. cbM \in Measurement /\ cbM' = cbM /\ cbNext \in 1..Len(SensorsOf[cbM.fmt])
    BY <1>2 DEF TypeOK, CallbackType, Announced
  <2>2. cbM.dev \in Devices /\ SensorsOf[cbM.fmt] \in Seq(STRING)
    BY <2>1, SensorAssumption DEF Measurement
  <2>3. announced' \subseteq Devices \X STRING /\ discovered' \subseteq Devices
    BY <1>2, <2>2, SensorType DEF TypeOK, CallbackType, Announced
  <2>4. CASE cbNext < Len(SensorsOf[cbM.fmt])
    <3>1. cb' = "announce" /\ cbNext' = cbNext + 1
      BY <1>2, <2>4 DEF Announced
    <3>2. cbNext' \in 1..Len(SensorsOf[cbM.fmt])
      BY <2>1, <2>2, <2>4, <3>1
    <3>3. CallbackType'
      BY <2>1, <2>3, <3>1, <3>2 DEF CallbackType
    <3>4. QED
      BY <1>2, <3>3, FrontFrame, QueueFrame, PublisherFrame, WireFrame, OutcomeFrame, RunFrame
      DEF TypeOK, Announced
  <2>5. CASE ~(cbNext < Len(SensorsOf[cbM.fmt]))
    <3>1. cb' = "enqueue" /\ cbNext' = cbNext
      BY <1>2, <2>5 DEF Announced
    <3>2. CallbackType'
      BY <2>1, <2>3, <3>1 DEF CallbackType
    <3>3. QED
      BY <1>2, <3>2, FrontFrame, QueueFrame, PublisherFrame, WireFrame, OutcomeFrame, RunFrame
      DEF TypeOK, Announced
  <2>6. QED
    BY <2>4, <2>5
<1>3. ASSUME AnnounceFailed PROVE TypeOK'
  <2>1. CallbackType'
    BY <1>3, SensorType DEF TypeOK, CallbackType, AnnounceFailed, GiveUpDiscovery
  <2>2. QED
    BY <1>3, <2>1, FrontFrame, QueueFrame, PublisherFrame, WireFrame, OutcomeFrame, RunFrame
    DEF TypeOK, AnnounceFailed
<1>4. ASSUME Enqueue PROVE TypeOK'
  <2>1. CallbackType'
    BY <1>4 DEF TypeOK, CallbackType, Enqueue
  <2>2. cbM \in Measurement
    BY <1>4 DEF TypeOK, CallbackType, Enqueue
  <2>3. QueueType' /\ OutcomeType'
    BY <1>4, <2>2, QueueAssumption DEF TypeOK, QueueType, OutcomeType, Enqueue, Drop
  <2>4. QED
    BY <1>4, <2>1, <2>3, FrontFrame, PublisherFrame, WireFrame, RunFrame
    DEF TypeOK, Enqueue
<1>5. QED
  BY <1>1, <1>2, <1>3, <1>4 DEF CallbackStep

\* Publish has returned an error.
LEMMA FailType ==
  ASSUME TypeOK, Fail, late' = late
  PROVE  PublisherType' /\ OutcomeType'
BY QueueAssumption DEF TypeOK, Fail, BackToSelect, PublisherType, OutcomeType

LEMMA PublisherStepType ==
  ASSUME TypeOK, PublisherStep
  PROVE  TypeOK'
<1>1. ASSUME Take PROVE TypeOK'
  <2>1. /\ queue \in Seq(Measurement) /\ queue # <<>>
        /\ Len(queue) <= PublishQueueSize
        /\ queue' = Tail(queue)
    BY <1>1 DEF TypeOK, QueueType, Take
  <2>2. /\ Head(queue) \in Measurement
        /\ Tail(queue) \in Seq(Measurement)
        /\ Len(Tail(queue)) = Len(queue) - 1
    BY <2>1
  <2>3. QueueType'
    BY <2>1, <2>2, QueueAssumption DEF QueueType
  <2>4. PublisherType' /\ OutcomeType'
    <3>1. CASE Head(queue).kind = "nan"
      BY <1>1, <3>1, FailType DEF Take
    <3>2. CASE Head(queue).kind # "nan"
      BY <1>1, <2>2, <3>2, OutcomeFrame, QueueAssumption DEF TypeOK, PublisherType, Take
    <3>3. QED
      BY <3>1, <3>2
  <2>5. QED
    BY <1>1, <2>3, <2>4, FrontFrame, CallbackFrame, WireFrame, RunFrame DEF TypeOK, Take
<1>2. ASSUME Quit PROVE TypeOK'
  <2>1. PublisherType'
    BY <1>2 DEF TypeOK, PublisherType, Quit
  <2>2. QED
    BY <1>2, <2>1, FrontFrame, CallbackFrame, QueueFrame, WireFrame, OutcomeFrame, RunFrame
    DEF TypeOK, Quit
<1>3. ASSUME Check PROVE TypeOK'
  <2>1. PublisherType' /\ OutcomeType'
    <3>1. CASE StopBetweenAttempts
      BY <1>3, <3>1, FailType DEF Check
    <3>2. CASE ~StopBetweenAttempts
      BY <1>3, <3>2, OutcomeFrame DEF TypeOK, PublisherType, Check
    <3>3. QED
      BY <3>1, <3>2
  <2>2. QED
    BY <1>3, <2>1, FrontFrame, CallbackFrame, QueueFrame, WireFrame, RunFrame DEF TypeOK, Check
<1>4. ASSUME BackoffOver PROVE TypeOK'
  <2>1. PublisherType'
    BY <1>4 DEF TypeOK, PublisherType, BackoffOver
  <2>2. QED
    BY <1>4, <2>1, FrontFrame, CallbackFrame, QueueFrame, WireFrame, OutcomeFrame, RunFrame
    DEF TypeOK, BackoffOver
<1>5. ASSUME BackoffCancelled PROVE TypeOK'
  BY <1>5, FailType, FrontFrame, CallbackFrame, QueueFrame, WireFrame, RunFrame
  DEF TypeOK, BackoffCancelled
<1>6. ASSUME Send PROVE TypeOK'
  <2>1. PublisherType'
    BY <1>6 DEF TypeOK, PublisherType, Send
  <2>2. WireType'
    <3>1. pubM \in Measurement /\ attempt \in 0..PublishRetries /\ now \in Nat
      BY <1>6, BoundAssumption DEF TypeOK, PublisherType, RunType, Send
    <3>2. [m |-> pubM, attempt |-> attempt, sent |-> now] \in Message
      BY <3>1 DEF Message
    <3>3. outbox' \in Seq(Message) /\ store' \subseteq Message
      BY <1>6, <3>2 DEF TypeOK, WireType, Send
    <3>4. QED
      BY <1>6, <3>3 DEF TypeOK, WireType, Send
  <2>3. QED
    BY <1>6, <2>1, <2>2, FrontFrame, CallbackFrame, QueueFrame, OutcomeFrame, RunFrame
    DEF TypeOK, Send
<1>7. ASSUME TokenDone PROVE TypeOK'
  <2>1. PublisherType' /\ OutcomeType'
    BY <1>7, QueueAssumption
    DEF TypeOK, PublisherType, OutcomeType, TokenDone, BackToSelect
  <2>2. WireType'
    BY <1>7 DEF TypeOK, WireType, TokenDone
  <2>3. QED
    BY <1>7, <2>1, <2>2, FrontFrame, CallbackFrame, QueueFrame, RunFrame
    DEF TypeOK, TokenDone
<1>8. ASSUME TokenFailed PROVE TypeOK'
  <2>1. WireType'
    BY <1>8 DEF TypeOK, WireType, TokenFailed
  <2>2. PublisherType' /\ OutcomeType' /\ QueueType'
    <3>1. CASE RetriesLeft
      <4>1. /\ pub' = "check" /\ attempt' = attempt + 1 /\ pubM' = pubM /\ late' = late
            /\ UNCHANGED queue /\ UNCHANGED outcomeVars
        BY <1>8, <3>1 DEF TokenFailed, Retry
      <4>2. PublisherType'
        BY <1>8, <3>1, <4>1, QueueAssumption
        DEF TypeOK, PublisherType, TokenFailed, RetriesLeft
      <4>3. QED
        BY <4>1, <4>2, QueueFrame, OutcomeFrame DEF TypeOK
    <3>2. CASE ~RetriesLeft
      BY <1>8, <3>2, FailType, QueueFrame DEF TypeOK, TokenFailed, LastAttemptFailed
    <3>3. QED
      BY <3>1, <3>2
  <2>3. QED
    BY <1>8, <2>1, <2>2, FrontFrame, CallbackFrame, RunFrame DEF TypeOK, TokenFailed
<1>9. QED
  BY <1>1, <1>2, <1>3, <1>4, <1>5, <1>6, <1>7, <1>8 DEF PublisherStep

LEMMA NetworkStepType ==
  ASSUME TypeOK, NetworkStep
  PROVE  TypeOK'
<1>1. outbox \in Seq(Message) /\ store \subseteq Message
  BY DEF TypeOK, WireType
<1>2. ASSUME Deliver PROVE TypeOK'
  <2>1. Head(outbox) \in Message /\ outbox' \in Seq(Message)
    BY <1>1, <1>2 DEF Deliver
  <2>2. [m |-> Head(outbox).m, sent |-> Head(outbox).sent] \in Receipt
    BY <2>1 DEF Message, Receipt
  <2>3. broker' \in Seq(Receipt)
    BY <1>2, <2>2 DEF TypeOK, WireType, Deliver
  <2>4. complete' \in BOOLEAN /\ store' \subseteq Message
    BY <1>1, <1>2 DEF TypeOK, WireType, Deliver, Acknowledge
  <2>5. QED
    BY <1>2, <2>1, <2>3, <2>4, FrontFrame, CallbackFrame, QueueFrame, PublisherFrame,
       OutcomeFrame, RunFrame
    DEF TypeOK, WireType, Deliver
<1>3. ASSUME Lose PROVE TypeOK'
  <2>1. outbox' \in Seq(Message)
    BY <1>1, <1>3 DEF Lose
  <2>2. WireType'
    BY <1>3, <2>1 DEF TypeOK, WireType, Lose
  <2>3. QED
    BY <1>3, <2>2, FrontFrame, CallbackFrame, QueueFrame, PublisherFrame, OutcomeFrame,
       RunFrame
    DEF TypeOK, Lose
<1>4. ASSUME NEW x \in store, Resume(x) PROVE TypeOK'
  <2>1. outbox' \in Seq(Message) /\ complete' \in BOOLEAN
    BY <1>1, <1>4 DEF Resume
  <2>2. WireType'
    BY <1>4, <2>1 DEF TypeOK, WireType, Resume
  <2>3. QED
    BY <1>4, <2>2, FrontFrame, CallbackFrame, QueueFrame, PublisherFrame, OutcomeFrame,
       RunFrame
    DEF TypeOK, Resume
<1>5. QED
  BY <1>2, <1>3, <1>4 DEF NetworkStep

LEMMA RunStepType ==
  ASSUME TypeOK, RunStep
  PROVE  TypeOK'
<1>1. RunType'
  <2>1. now' \in 0..MaxTime
    BY BoundAssumption
    DEF TypeOK, RunType, RunStep, Tick, Cancel, ScanReturns, ProbesAnswered, Exit, Stopped,
        vars, runVars
  <2>2. cancelled' \in BOOLEAN
    BY
    DEF TypeOK, RunType, RunStep, Tick, Cancel, ScanReturns, ProbesAnswered, Exit, Stopped,
        vars, runVars
  <2>3. phase' \in {"running", "answering", "closing", "exited", "panicked"}
    BY
    DEF TypeOK, RunType, RunStep, Tick, Cancel, ScanReturns, ProbesAnswered, Exit, Stopped,
        vars, runVars
  <2>4. QED
    BY <2>1, <2>2, <2>3 DEF RunType
<1>2. UNCHANGED <<frontVars, callbackVars, queue, publisherVars, outcomeVars>>
  BY DEF RunStep, Tick, Cancel, ScanReturns, ProbesAnswered, Exit, Stopped, vars
<1>3. UNCHANGED <<outbox, broker, complete>> /\ (store' = store \/ store' = {})
  BY DEF RunStep, Tick, Cancel, ScanReturns, ProbesAnswered, Exit, Stopped, vars, wireVars
<1>4. WireType'
  BY <1>3, WireFrame, WireEnd DEF TypeOK, wireVars
<1>5. QED
  BY <1>1, <1>2, <1>4, FrontFrame, CallbackFrame, QueueFrame, PublisherFrame, OutcomeFrame
  DEF TypeOK

LEMMA TypeStep == TypeOK /\ [Next]_vars => TypeOK'
<1> SUFFICES ASSUME TypeOK, [Next]_vars PROVE TypeOK'
  OBVIOUS
<1>1. CASE Next
  BY <1>1, FrontStepType, CallbackStepType, PublisherStepType, NetworkStepType, RunStepType
  DEF Next
<1>2. CASE UNCHANGED vars
  BY <1>2, FrontFrame, CallbackFrame, QueueFrame, PublisherFrame, WireFrame, OutcomeFrame,
     RunFrame
  DEF TypeOK, vars
<1>3. QED
  BY <1>1, <1>2

\* Every variable stays within its type; in particular the queue never holds more
\* than publishQueueSize measurements.
THEOREM TypeCorrect == Spec => []TypeOK
BY TypeInit, TypeStep, PTL DEF Spec
-----------------------------------------------------------------------------
(* Admission: the rate limiter and the preference for format E1.           *)
(*                                                                         *)
(* The two properties speak of measurements, which keep their device,      *)
(* number and time; the callback decides on lastSent and lastE1.  What     *)
(* ties them together: no measurement is newer than what the maps hold for *)
(* its device, and the maps are not ahead of the clock.                    *)

AdmissionInv ==
  /\ \A d \in Devices : lastSent[d] <= now /\ lastE1[d] <= now
  /\ \A m \in admitted :
       /\ m.id <= total
       /\ lastSent[m.dev] # Never /\ m.at <= lastSent[m.dev]
       /\ m.fmt = "E1" => lastE1[m.dev] # Never /\ m.at <= lastE1[m.dev]
  /\ AdmissionSpacing
  /\ E1Preferred

LEMMA AdmissionInit == Init => AdmissionInv
BY DEF Init, AdmissionInv, AdmissionSpacing, E1Preferred, Never

LEMMA IntervalType == ASSUME NEW d \in Devices PROVE Interval(d) \in Nat
BY IntervalAssumption DEF Interval

\* Steps that make no measurement: the maps and the clock only grow.
LEMMA AdmissionKept ==
  ASSUME TypeOK, AdmissionInv,
         admitted' = admitted,
         total' \in Nat, total <= total',
         now' \in Nat, now <= now',
         \A d \in Devices : lastSent'[d] = lastSent[d] \/ lastSent'[d] = now,
         \A d \in Devices : lastE1'[d] = lastE1[d] \/ lastE1'[d] = now
  PROVE  AdmissionInv'
<1>1. now \in Nat /\ total \in Nat
  BY BoundAssumption DEF TypeOK, FrontType, RunType
<1>2. \A d \in Devices : lastSent[d] \in Nat \cup {Never} /\ lastE1[d] \in Nat \cup {Never}
  BY DEF TypeOK, FrontType
<1>3. \A d \in Devices : lastSent'[d] <= now' /\ lastE1'[d] <= now'
  BY <1>1, <1>2 DEF AdmissionInv, Never
<1>4. ASSUME NEW m \in admitted
      PROVE  /\ m.id <= total'
             /\ lastSent'[m.dev] # Never /\ m.at <= lastSent'[m.dev]
             /\ m.fmt = "E1" => lastE1'[m.dev] # Never /\ m.at <= lastE1'[m.dev]
  <2>1. m.id \in Nat /\ m.dev \in Devices /\ m.at \in Nat
    BY DEF TypeOK, FrontType, Measurement
  <2>2. QED
    BY <1>1, <1>2, <2>1 DEF AdmissionInv, Never
<1>5. AdmissionSpacing' /\ E1Preferred'
  BY DEF AdmissionInv, AdmissionSpacing, E1Preferred
<1>6. QED
  BY <1>3, <1>4, <1>5 DEF AdmissionInv

LEMMA AdmitStep ==
  ASSUME TypeOK, AdmissionInv, NEW d \in Devices, NEW f \in Frames, Admit(d, f)
  PROVE  AdmissionInv'
<1> DEFINE new == [id |-> total + 1, dev |-> d, fmt |-> f.fmt, kind |-> f.kind, at |-> now]
<1>1. /\ now \in Nat /\ now' = now
      /\ total \in Nat /\ total' = total + 1
  BY BoundAssumption DEF TypeOK, FrontType, RunType, Admit, Allow, Hear
<1>2. /\ lastSent \in [Devices -> Nat \cup {Never}]
      /\ lastE1 \in [Devices -> Nat \cup {Never}]
      /\ lastSent' = [lastSent EXCEPT ![d] = now]
      /\ lastE1' = IF f.fmt = "E1" THEN [lastE1 EXCEPT ![d] = now] ELSE lastE1
  BY DEF TypeOK, FrontType, Admit, Allow, Hear
<1>3. admitted' = admitted \cup {new}
  BY DEF Admit
<1>4. ~TooSoon(d) /\ ~Shadowed(d, f)
  BY DEF Admit, Allow
<1>5. /\ new.id = total + 1 /\ new.dev = d /\ new.at = now
      /\ new.fmt = f.fmt
  OBVIOUS
<1>6. \A m \in admitted : m.id \in Nat /\ m.dev \in Devices /\ m.at \in Nat
  BY DEF TypeOK, FrontType, Measurement
<1>7. \A e \in Devices : lastSent'[e] <= now' /\ lastE1'[e] <= now'
  BY <1>1, <1>2 DEF AdmissionInv
<1>8. ASSUME NEW m \in admitted'
      PROVE  /\ m.id <= total'
             /\ lastSent'[m.dev] # Never /\ m.at <= lastSent'[m.dev]
             /\ m.fmt = "E1" => lastE1'[m.dev] # Never /\ m.at <= lastE1'[m.dev]
  <2>1. CASE m = new
    BY <1>1, <1>2, <1>5, <2>1 DEF Never
  <2>2. CASE m \in admitted
    BY <1>1, <1>2, <1>6, <2>2 DEF AdmissionInv, Never
  <2>3. QED
    BY <1>3, <2>1, <2>2
<1>9. AdmissionSpacing'
  <2> SUFFICES ASSUME NEW m1 \in admitted', NEW m2 \in admitted',
                      m1.dev = m2.dev, m1.id < m2.id
               PROVE  m2.at - m1.at >= Interval(m1.dev)
    BY DEF AdmissionSpacing
  <2>1. CASE m1 \in admitted /\ m2 \in admitted
    BY <2>1 DEF AdmissionInv, AdmissionSpacing
  <2>2. CASE m1 \in admitted /\ m2 = new
    <3>1. /\ m1.dev = d /\ m2.at = now
          /\ lastSent[d] \in Nat /\ m1.at <= lastSent[d]
      BY <1>2, <1>5, <2>2 DEF AdmissionInv
    <3>2. now - lastSent[d] >= Interval(d)
      BY <1>1, <1>4, <3>1, IntervalType DEF TooSoon, Never
    <3>3. QED
      BY <1>1, <1>6, <2>2, <3>1, <3>2, IntervalType
  <2>3. CASE m1 = new
    <3>1. m2.id <= total + 1
      BY <1>1, <1>3, <1>5, <1>6 DEF AdmissionInv
    <3>2. m2.id \in Nat
      BY <1>1, <1>3, <1>5, <1>6
    <3>3. QED
      BY <1>1, <1>5, <2>3, <3>1, <3>2
  <2>4. QED
    BY <1>3, <2>1, <2>2, <2>3
<1>10. E1Preferred'
  <2> SUFFICES ASSUME NEW m1 \in admitted', NEW m2 \in admitted',
                      m1.dev = m2.dev, m1.id < m2.id, m1.fmt = "E1", m2.fmt = "F6"
               PROVE  m2.at - m1.at >= E1PreferWindow
    BY DEF E1Preferred
  <2>1. CASE m1 \in admitted /\ m2 \in admitted
    BY <2>1 DEF AdmissionInv, E1Preferred
  <2>2. CASE m1 \in admitted /\ m2 = new
    <3>1. /\ m1.dev = d /\ m2.at = now /\ f.fmt = "F6"
          /\ lastE1[d] \in Nat /\ m1.at <= lastE1[d]
      BY <1>2, <1>5, <2>2 DEF AdmissionInv
    <3>2. now - lastE1[d] >= E1PreferWindow
      BY <1>1, <1>4, <3>1, IntervalAssumption DEF Shadowed, Never
    <3>3. QED
      BY <1>1, <1>6, <2>2, <3>1, <3>2, IntervalAssumption
  <2>3. CASE m1 = new
    <3>1. m2.id <= total + 1
      BY <1>1, <1>3, <1>5, <1>6 DEF AdmissionInv
    <3>2. m2.id \in Nat
      BY <1>1, <1>3, <1>5, <1>6
    <3>3. QED
      BY <1>1, <1>5, <2>3, <3>1, <3>2
  <2>4. QED
    BY <1>3, <2>1, <2>2, <2>3
<1>11. QED
  BY <1>7, <1>8, <1>9, <1>10 DEF AdmissionInv

LEMMA AdmissionStep == TypeOK /\ AdmissionInv /\ [Next]_vars => AdmissionInv'
<1> SUFFICES ASSUME TypeOK, AdmissionInv, [Next]_vars PROVE AdmissionInv'
  OBVIOUS
<1>1. /\ now \in Nat /\ total \in Nat
      /\ lastSent \in [Devices -> Nat \cup {Never}]
      /\ lastE1 \in [Devices -> Nat \cup {Never}]
  BY BoundAssumption DEF TypeOK, FrontType, RunType
<1>2. ASSUME NEW d \in Devices, NEW f \in Frames,
             Suppress(d, f) \/ Panic(d, f) \/ RateLimit(d, f) \/ Reject(d, f)
      PROVE  AdmissionInv'
  <2>1. /\ admitted' = admitted /\ now' = now /\ total' = total + 1
        /\ lastE1' = lastE1 \/ lastE1' = [lastE1 EXCEPT ![d] = now]
        /\ lastSent' = lastSent \/ lastSent' = [lastSent EXCEPT ![d] = now]
    BY <1>2 DEF Suppress, Panic, RateLimit, Reject, Allow, Hear
  <2>2. QED
    BY <1>1, <2>1, AdmissionKept
<1>3. CASE (\E d \in Devices : Ignore(d)) \/ RunStep
  BY <1>1, <1>3, AdmissionKept
  DEF Ignore, RunStep, Tick, Cancel, ScanReturns, ProbesAnswered, Exit, Stopped, frontVars,
      vars, runVars
<1>4. CASE CallbackStep \/ PublisherStep \/ NetworkStep \/ UNCHANGED vars
  <2>1. UNCHANGED frontVars /\ UNCHANGED now
    BY <1>4
    DEF CallbackStep, Announce, Announced, AnnounceFailed, Enqueue,
        PublisherStep, Take, Quit, Check, BackoffOver, BackoffCancelled, Send, TokenDone,
        TokenFailed, NetworkStep, Deliver, Lose, Resume, runVars, vars
  <2>2. QED
    BY <1>1, <2>1, AdmissionKept DEF frontVars
<1>5. QED
  BY <1>2, <1>3, <1>4, AdmitStep DEF Next, FrontStep

THEOREM AdmissionCorrect == Spec => []AdmissionInv
BY AdmissionInit, AdmissionStep, TypeCorrect, PTL DEF Spec

\* Two measurements of one device are made at least its min_interval apart, for
\* any intervals, any devices and any traffic.
THEOREM SpacingHolds == Spec => []AdmissionSpacing
<1>1. AdmissionInv => AdmissionSpacing
  BY DEF AdmissionInv
<1>2. QED
  BY <1>1, AdmissionCorrect, PTL

\* No format 6 measurement of a device follows one of format E1 within
\* e1PreferWindow.
THEOREM E1PreferredHolds == Spec => []E1Preferred
<1>1. AdmissionInv => E1Preferred
  BY DEF AdmissionInv
<1>2. QED
  BY <1>1, AdmissionCorrect, PTL
-----------------------------------------------------------------------------
(* Cancellation.                                                           *)
(*                                                                         *)
(* One late transmission is possible: the publisher has passed the check   *)
(* of ctx (it backs off or is about to send) when the signal comes.  Once  *)
(* it has made it, it can only meet the check again, which is now closed.  *)

CancelInv ==
  \/ late = 0
  \/ late = 1 /\ cancelled /\ pub \notin {"backoff", "send"}

LEMMA CancelStep == TypeOK /\ CancelInv /\ [Next]_vars => CancelInv'
<1> SUFFICES ASSUME TypeOK, CancelInv, [Next]_vars PROVE CancelInv'
  OBVIOUS
<1>1. CASE PublisherStep
  <2>1. cancelled' = cancelled
    BY <1>1
    DEF PublisherStep, Take, Quit, Check, BackoffOver, BackoffCancelled, Send, TokenDone,
        TokenFailed, runVars
  <2>2. CASE Check
    BY <2>1, <2>2 DEF CancelInv, Check, StopBetweenAttempts, Fail, BackToSelect
  <2>3. CASE BackoffOver \/ Send
    BY <2>1, <2>3 DEF CancelInv, BackoffOver, Send
  <2>4. CASE Take \/ Quit \/ BackoffCancelled
    BY <2>1, <2>4 DEF CancelInv, Take, Quit, BackoffCancelled, Fail, BackToSelect
  <2>5. CASE TokenDone \/ TokenFailed
    BY <2>1, <2>5
    DEF CancelInv, TokenDone, TokenFailed, Retry, LastAttemptFailed, Fail, BackToSelect
  <2>6. QED
    BY <1>1, <2>2, <2>3, <2>4, <2>5 DEF PublisherStep
<1>2. CASE FrontStep \/ CallbackStep \/ NetworkStep \/ RunStep \/ UNCHANGED vars
  <2>1. UNCHANGED publisherVars /\ (cancelled => cancelled')
    BY <1>2
    DEF FrontStep, Ignore, Suppress, Panic, RateLimit, Reject, Admit, Allow, Hear,
        CallbackStep, Announce, Announced, AnnounceFailed, Enqueue,
        NetworkStep, Deliver, Lose, Resume,
        RunStep, Tick, Cancel, ScanReturns, ProbesAnswered, Exit, Stopped, runVars, vars
  <2>2. QED
    BY <2>1 DEF CancelInv, publisherVars
<1>3. QED
  BY <1>1, <1>2 DEF Next

\* After a signal the publisher hands at most one more message to the client.
THEOREM LateSendsHolds == Spec => []LateSends
<1>1. Init => CancelInv
  BY DEF Init, CancelInv
<1>2. CancelInv => LateSends
  BY DEF CancelInv, LateSends
<1>3. QED
  BY <1>1, <1>2, CancelStep, TypeCorrect, PTL DEF Spec
-----------------------------------------------------------------------------
(* The counters.                                                           *)
(*                                                                         *)
(* Accounting is inductive as it stands, given the types.                  *)

LEMMA AccountingStep == TypeOK /\ Accounting /\ [Next]_vars => Accounting'
<1> SUFFICES ASSUME TypeOK, Accounting, [Next]_vars PROVE Accounting'
  OBVIOUS
<1>1. /\ total \in Nat /\ suppressed \in Nat /\ rateLimited \in Nat /\ parseErrors \in Nat
      /\ publishedTotal \in Nat /\ publishFailures \in Nat
      /\ Len(queue) \in Nat
  BY DEF TypeOK, FrontType, OutcomeType, QueueType
<1>2. ASSUME NEW d \in Devices, NEW f \in Frames, Hear(d, f)
      PROVE  /\ phase = "running" /\ cb = "idle" /\ total' = total + 1
             /\ UNCHANGED <<queue, pub, publishedTotal, publishFailures>>
  BY <1>2 DEF Hear, publisherVars, outcomeVars
<1>3. CASE FrontStep
  <2>1. CASE \E d \in Devices : Ignore(d)
    BY <2>1 DEF Accounting, Ignore, callbackVars, publisherVars, outcomeVars, runVars
  <2>2. ASSUME NEW d \in Devices, NEW f \in Frames, Suppress(d, f)
        PROVE  Accounting'
    <3>1. Hear(d, f)
      BY <2>2 DEF Suppress
    <3>2. QED
      BY <1>1, <1>2, <2>2, <3>1 DEF Accounting, Suppress
  <2>3. ASSUME NEW d \in Devices, NEW f \in Frames, Panic(d, f)
        PROVE  Accounting'
    BY <2>3 DEF Accounting, Panic
  <2>4. ASSUME NEW d \in Devices, NEW f \in Frames, RateLimit(d, f)
        PROVE  Accounting'
    <3>1. Hear(d, f)
      BY <2>4 DEF RateLimit
    <3>2. QED
      BY <1>1, <1>2, <2>4, <3>1 DEF Accounting, RateLimit
  <2>5. ASSUME NEW d \in Devices, NEW f \in Frames, Reject(d, f)
        PROVE  Accounting'
    <3>1. Hear(d, f)
      BY <2>5 DEF Reject, Allow
    <3>2. QED
      BY <1>1, <1>2, <2>5, <3>1 DEF Accounting, Reject, Allow
  <2>6. ASSUME NEW d \in Devices, NEW f \in Frames, Admit(d, f)
        PROVE  Accounting'
    <3>1. Hear(d, f)
      BY <2>6 DEF Admit, Allow
    <3>2. cb' # "idle"
      BY <2>6 DEF Admit
    <3>3. UNCHANGED <<suppressed, rateLimited, parseErrors>>
      BY <2>6 DEF Admit, Allow
    <3>4. QED
      BY <1>1, <1>2, <3>1, <3>2, <3>3 DEF Accounting
  <2>7. QED
    BY <1>3, <2>1, <2>2, <2>3, <2>4, <2>5, <2>6 DEF FrontStep
<1>4. CASE CallbackStep
  <2>1. CASE Announce \/ Announced \/ AnnounceFailed
    <3>1. /\ cb # "idle" /\ cb' # "idle"
          /\ UNCHANGED <<frontVars, queue, publisherVars, outcomeVars, runVars>>
      BY <2>1 DEF Announce, Announced, AnnounceFailed, GiveUpDiscovery
    <3>2. QED
      BY <3>1 DEF Accounting, frontVars, publisherVars, outcomeVars, runVars
  <2>2. CASE Enqueue
    <3>1. /\ cb = "enqueue" /\ cb' = "idle"
          /\ UNCHANGED <<frontVars, publisherVars, publishedTotal, runVars>>
      BY <2>2 DEF Enqueue
    <3>2. \/ Len(queue') = Len(queue) + 1 /\ publishFailures' = publishFailures
          \/ Len(queue') = Len(queue) /\ publishFailures' = publishFailures + 1
      BY <2>2 DEF Enqueue, Drop, TypeOK, QueueType
    <3>3. QED
      BY <1>1, <3>1, <3>2 DEF Accounting, frontVars, publisherVars, runVars
  <2>3. QED
    BY <1>4, <2>1, <2>2 DEF CallbackStep
<1>5. CASE PublisherStep
  <2>1. UNCHANGED <<frontVars, callbackVars, runVars>>
    BY <1>5
    DEF PublisherStep, Take, Quit, Check, BackoffOver, BackoffCancelled, Send, TokenDone,
        TokenFailed
  <2>2. CASE Take
    <3>1. Len(queue') = Len(queue) - 1
      BY <2>2 DEF Take, TypeOK, QueueType
    <3>2. pub = "select"
      BY <2>2 DEF Take
    <3>3. \/ pub' = "select" /\ publishFailures' = publishFailures + 1
             /\ publishedTotal' = publishedTotal
          \/ pub' = "check" /\ UNCHANGED outcomeVars
      BY <2>2 DEF Take, Fail, BackToSelect
    <3>4. QED
      BY <1>1, <2>1, <3>1, <3>2, <3>3
      DEF Accounting, frontVars, callbackVars, outcomeVars, runVars
  <2>3. CASE Quit \/ BackoffOver \/ Send
    <3>1. /\ pub \in {"select", "done"} <=> pub' \in {"select", "done"}
          /\ UNCHANGED <<queue, outcomeVars>>
      BY <2>3 DEF Quit, BackoffOver, Send
    <3>2. QED
      BY <2>1, <3>1 DEF Accounting, frontVars, callbackVars, outcomeVars, runVars
  <2>4. CASE Check \/ BackoffCancelled \/ TokenDone \/ TokenFailed
    <3>1. pub \notin {"select", "done"} /\ queue' = queue
      BY <2>4 DEF Check, BackoffCancelled, TokenDone, TokenFailed, Retry, LastAttemptFailed
    <3>2. \/ /\ pub' \notin {"select", "done"} /\ UNCHANGED outcomeVars
          \/ /\ pub' = "select"
             /\ \/ publishFailures' = publishFailures + 1 /\ publishedTotal' = publishedTotal
                \/ publishFailures' = publishFailures /\ publishedTotal' = publishedTotal + 1
      BY <2>4
      DEF Check, BackoffCancelled, TokenDone, TokenFailed, Retry, LastAttemptFailed, Fail,
          BackToSelect
    <3>3. QED
      BY <1>1, <2>1, <3>1, <3>2
      DEF Accounting, frontVars, callbackVars, outcomeVars, runVars
  <2>5. QED
    BY <1>5, <2>2, <2>3, <2>4 DEF PublisherStep
<1>6. CASE NetworkStep \/ RunStep \/ UNCHANGED vars
  <2>1. /\ UNCHANGED <<frontVars, callbackVars, queue, publisherVars, outcomeVars>>
        /\ phase = "panicked" => phase' = "panicked"
    BY <1>6
    DEF NetworkStep, Deliver, Lose, Resume, RunStep, Tick, Cancel, ScanReturns, ProbesAnswered,
        Exit, Stopped, runVars, vars, Alive
  <2>2. QED
    BY <2>1 DEF Accounting, frontVars, callbackVars, publisherVars, outcomeVars
<1>7. QED
  BY <1>3, <1>4, <1>5, <1>6 DEF Next

\* The counters of the stats line always add up: nothing is lost from them or
\* counted twice.
THEOREM AccountingHolds == Spec => []Accounting
<1>1. Init => Accounting
  BY DEF Init, Accounting
<1>2. QED
  BY <1>1, AccountingStep, TypeCorrect, PTL DEF Spec
-----------------------------------------------------------------------------
(* Discovery.                                                              *)
(*                                                                         *)
(* A device is marked when the loop over its format's sensors ends, so the *)
(* invariant says what the loop has done so far: every sensor before       *)
(* cbNext is with the broker or kept for it.  Configs are retained:        *)
(* announced only grows.                                                   *)

DiscoveryInv ==
  /\ cb \in {"announce", "await"} =>
       \A i \in 1..(cbNext - 1) : <<cbM.dev, SensorsOf[cbM.fmt][i]>> \in announced
  /\ DiscoveredIsAnnounced

LEMMA DiscoveryKept ==
  ASSUME DiscoveredIsAnnounced, announced \subseteq announced', discovered' = discovered
  PROVE  DiscoveredIsAnnounced'
BY DEF DiscoveredIsAnnounced

LEMMA DiscoveryStep == TypeOK /\ DiscoveryInv /\ [Next]_vars => DiscoveryInv'
<1> SUFFICES ASSUME TypeOK, DiscoveryInv, [Next]_vars PROVE DiscoveryInv'
  OBVIOUS
<1>1. ASSUME NEW d \in Devices, NEW f \in Frames, Admit(d, f)
      PROVE  DiscoveryInv'
  <2>1. UNCHANGED <<discovered, announced>>
    BY <1>1 DEF Admit, Allow, Hear
  <2>2. (cb' = "announce" /\ cbNext' = 1) \/ cb' = "enqueue"
    BY <1>1 DEF Admit
  <2>3. QED
    BY <2>1, <2>2, DiscoveryKept DEF DiscoveryInv
<1>2. CASE Announced
  <2>1. /\ cb = "await" /\ cbM' = cbM
        /\ cbM \in Measurement
        /\ cbNext \in 1..Len(SensorsOf[cbM.fmt])
        /\ announced' = announced \cup {Sensor}
    BY <1>2 DEF TypeOK, CallbackType, Announced
  <2>2. cbM.fmt \in Formats /\ SensorsOf[cbM.fmt] \in Seq(STRING)
    BY <2>1, SensorAssumption DEF Measurement
  <2>3. \A i \in 1..cbNext : <<cbM.dev, SensorsOf[cbM.fmt][i]>> \in announced'
    <3> SUFFICES ASSUME NEW i \in 1..cbNext
                 PROVE  <<cbM.dev, SensorsOf[cbM.fmt][i]>> \in announced'
      OBVIOUS
    <3>1. CASE i = cbNext
      BY <2>1, <3>1 DEF Sensor
    <3>2. CASE i # cbNext
      <4>1. i \in 1..(cbNext - 1)
        BY <2>1, <3>2
      <4>2. QED
        BY <2>1, <4>1 DEF DiscoveryInv
    <3>3. QED
      BY <3>1, <3>2
  <2>4. CASE cbNext < Len(SensorsOf[cbM.fmt])
    <3>1. cbNext' = cbNext + 1 /\ discovered' = discovered
      BY <1>2, <2>4 DEF Announced
    <3>2. DiscoveredIsAnnounced'
      BY <2>1, <3>1, DiscoveryKept DEF DiscoveryInv
    <3>3. cbNext' - 1 = cbNext
      BY <2>1, <3>1
    <3>4. QED
      BY <2>1, <2>3, <3>2, <3>3 DEF DiscoveryInv
  <2>5. CASE ~(cbNext < Len(SensorsOf[cbM.fmt]))
    <3>1. cb' = "enqueue" /\ discovered' = discovered \cup {cbM.dev}
      BY <1>2, <2>5 DEF Announced
    <3>2. DOMAIN SensorsOf[cbM.fmt] = 1..cbNext
      BY <2>1, <2>2, <2>5
    <3>3. DiscoveredIsAnnounced'
      BY <2>1, <2>2, <2>3, <3>1, <3>2 DEF DiscoveryInv, DiscoveredIsAnnounced
    <3>4. QED
      BY <3>1, <3>3 DEF DiscoveryInv
  <2>6. QED
    BY <2>4, <2>5
<1>3. CASE Announce
  <2>1. /\ cb = "announce" /\ cb' \in {"await", "enqueue"}
        /\ UNCHANGED <<cbM, cbNext, discovered>>
        /\ announced \subseteq announced'
    BY <1>3 DEF Announce
  <2>2. QED
    BY <2>1, DiscoveryKept DEF DiscoveryInv
<1>4. CASE AnnounceFailed \/ Enqueue
  <2>1. /\ cb' \in {"enqueue", "idle"}
        /\ discovered' = discovered
        /\ announced \subseteq announced'
    BY <1>4 DEF AnnounceFailed, GiveUpDiscovery, Enqueue
  <2>2. QED
    BY <2>1, DiscoveryKept DEF DiscoveryInv
<1>5. ASSUME NEW d \in Devices, NEW f \in Frames,
             Suppress(d, f) \/ Panic(d, f) \/ RateLimit(d, f) \/ Reject(d, f)
      PROVE  DiscoveryInv'
  <2>1. UNCHANGED callbackVars
    BY <1>5 DEF Suppress, Panic, RateLimit, Reject, Allow, Hear, callbackVars
  <2>2. QED
    BY <2>1 DEF DiscoveryInv, DiscoveredIsAnnounced, callbackVars
<1>6. CASE (\E d \in Devices : Ignore(d)) \/ PublisherStep \/ NetworkStep \/ RunStep
           \/ UNCHANGED vars
  <2>1. UNCHANGED callbackVars
    BY <1>6
    DEF Ignore, PublisherStep, Take, Quit, Check, BackoffOver, BackoffCancelled, Send,
        TokenDone, TokenFailed, NetworkStep, Deliver, Lose, Resume,
        RunStep, Tick, Cancel, ScanReturns, ProbesAnswered, Exit, Stopped, vars
  <2>2. QED
    BY <2>1 DEF DiscoveryInv, DiscoveredIsAnnounced, callbackVars
<1>7. QED
  BY <1>1, <1>2, <1>3, <1>4, <1>5, <1>6 DEF Next, FrontStep, CallbackStep

\* A device is marked as discovered only when the broker holds, or the client keeps
\* for it, the config of every sensor of one of its formats.
THEOREM DiscoveryHolds == Spec => []DiscoveredIsAnnounced
<1>1. Init => DiscoveryInv
  BY DEF Init, DiscoveryInv, DiscoveredIsAnnounced
<1>2. DiscoveryInv => DiscoveredIsAnnounced
  BY DEF DiscoveryInv
<1>3. QED
  BY <1>1, <1>2, DiscoveryStep, TypeCorrect, PTL DEF Spec
-----------------------------------------------------------------------------
(* The order of what the broker receives at QoS 0.                         *)
(*                                                                         *)
(* The client keeps nothing, so it never sends a message again.  The rest  *)
(* of the argument follows a measurement from the callback to the queue, the  *)
(* publisher, the wire and the broker: at each place it is newer than what *)
(* is further on, and older than what follows it.                          *)

InPublish == pub \in {"check", "backoff", "send", "await"}

\* The measurement numbered n is older than everything the publisher will still
\* get: what is in the queue and in the callback, and what is not yet made.
Before(n) ==
  /\ n <= total
  /\ cb # "idle" => n < cbM.id
  /\ \A i \in DOMAIN queue : n < queue[i].id

\* The measurement numbered n has been handed over: nothing older will be.
HandedOver(n) == Before(n) /\ (InPublish => n <= pubM.id)

OrderInv ==
  /\ cb # "idle" => cbM.id <= total
  /\ \A i \in DOMAIN queue :
       /\ queue[i].id <= total
       /\ cb # "idle" => queue[i].id < cbM.id
  /\ \A i, j \in DOMAIN queue : i < j => queue[i].id < queue[j].id
  /\ InPublish => Before(pubM.id)
  /\ \A i \in DOMAIN outbox : HandedOver(outbox[i].m.id)
  /\ \A i, j \in DOMAIN outbox : i < j => outbox[i].m.id <= outbox[j].m.id
  /\ \A i \in DOMAIN broker : HandedOver(broker[i].m.id)
  /\ \A i \in DOMAIN broker, j \in DOMAIN outbox : broker[i].m.id <= outbox[j].m.id
  /\ NeverGoesBack

StoreInv == QoS = 0 => store = {}

LEMMA StoreStep == StoreInv /\ [Next]_vars => StoreInv'
<1> SUFFICES ASSUME StoreInv, QoS = 0, [Next]_vars PROVE store' = {}
  BY DEF StoreInv
<1>1. store = {}
  BY DEF StoreInv
<1>2. CASE FrontStep
  BY <1>1, <1>2
  DEF FrontStep, Ignore, Suppress, Panic, RateLimit, Reject, Admit, Allow, wireVars
<1>3. CASE CallbackStep
  BY <1>1, <1>3
  DEF CallbackStep, Announce, Announced, AnnounceFailed, Enqueue, wireVars
<1>4. CASE PublisherStep
  BY <1>1, <1>4
  DEF PublisherStep, Take, Quit, Check, BackoffOver, BackoffCancelled, Send, TokenDone,
      TokenFailed, wireVars
<1>5. CASE NetworkStep
  BY <1>1, <1>5 DEF NetworkStep, Deliver, Lose
<1>6. CASE RunStep \/ UNCHANGED vars
  BY <1>1, <1>6
  DEF RunStep, Tick, Cancel, ScanReturns, ProbesAnswered, Exit, Stopped, wireVars, vars
<1>7. QED
  BY <1>2, <1>3, <1>4, <1>5, <1>6 DEF Next

THEOREM StoreCorrect == Spec => []StoreInv
<1>1. Init => StoreInv
  BY DEF Init, StoreInv
<1>2. QED
  BY <1>1, StoreStep, PTL DEF Spec

LEMMA OrderInit == Init => OrderInv
BY DEF Init, OrderInv, InPublish, NeverGoesBack

\* The numbers compared are numbers.
LEMMA Numbers ==
  ASSUME TypeOK
  PROVE  /\ total \in Nat
         /\ cb # "idle" => cbM.id \in Nat
         /\ queue \in Seq(Measurement) /\ \A i \in DOMAIN queue : queue[i].id \in Nat
         /\ InPublish => pubM.id \in Nat
         /\ outbox \in Seq(Message) /\ \A i \in DOMAIN outbox : outbox[i].m.id \in Nat
         /\ broker \in Seq(Receipt) /\ \A i \in DOMAIN broker : broker[i].m.id \in Nat
<1>1. total \in Nat /\ (cb # "idle" => cbM.id \in Nat) /\ (InPublish => pubM.id \in Nat)
  BY DEF TypeOK, FrontType, CallbackType, PublisherType, Measurement, InPublish
<1>2. queue \in Seq(Measurement) /\ outbox \in Seq(Message) /\ broker \in Seq(Receipt)
  BY DEF TypeOK, QueueType, WireType
<1>3. \A i \in DOMAIN queue : queue[i] \in Measurement
  BY <1>2
<1>4. \A i \in DOMAIN outbox : outbox[i] \in Message
  BY <1>2
<1>5. \A i \in DOMAIN broker : broker[i] \in Receipt
  BY <1>2
<1>6. QED
  BY <1>1, <1>2, <1>3, <1>4, <1>5 DEF Measurement, Message, Receipt

\* Steps of the callback alone.
LEMMA OrderFront ==
  ASSUME TypeOK, OrderInv, UNCHANGED <<publisherVars, outbox, broker>>,
         total' \in Nat, total <= total',
         \/ /\ UNCHANGED <<cb, cbM, queue>>
         \/ /\ cb # "idle" /\ cb' # "idle" /\ UNCHANGED <<cbM, queue>>
         \/ /\ cb = "idle" /\ cb' # "idle" /\ UNCHANGED queue
            /\ total' = total + 1 /\ cbM'.id = total + 1
         \/ /\ cb # "idle" /\ cb' = "idle"
            /\ queue' = queue \/ queue' = Append(queue, cbM)
  PROVE  OrderInv'
<1>1. queue' = queue \/ (cb # "idle" /\ cb' = "idle" /\ queue' = Append(queue, cbM))
  OBVIOUS
<1>2. cbM.id \in Nat \/ cb = "idle"
  BY Numbers
<1>3. ASSUME NEW i \in DOMAIN queue'
      PROVE  \/ i \in DOMAIN queue /\ queue'[i] = queue[i]
             \/ i = Len(queue) + 1 /\ queue'[i] = cbM /\ cb # "idle" /\ cb' = "idle"
                /\ queue' = Append(queue, cbM)
  <2>1. CASE queue' = queue
    BY <1>3, <2>1
  <2>2. CASE cb # "idle" /\ cb' = "idle" /\ queue' = Append(queue, cbM)
    <3>1. queue \in Seq(Measurement)
      BY Numbers
    <3>2. /\ Len(queue) \in Nat /\ DOMAIN queue = 1..Len(queue)
          /\ i \in 1..(Len(queue) + 1)
          /\ queue'[i] = IF i = Len(queue) + 1 THEN cbM ELSE queue[i]
      BY <1>3, <2>2, <3>1
    <3>3. CASE i = Len(queue) + 1
      BY <2>2, <3>2, <3>3
    <3>4. CASE i # Len(queue) + 1
      <4>1. i \in DOMAIN queue /\ queue'[i] = queue[i]
        BY <3>2, <3>4
      <4>2. QED
        BY <4>1
    <3>5. QED
      BY <3>3, <3>4
  <2>3. QED
    BY <1>1, <2>1, <2>2
<1>4. ASSUME NEW n \in Nat, Before(n)
      PROVE  Before(n)'
  <2>1. n <= total'
    BY <1>4, Numbers DEF Before
  <2>2. cb' # "idle" => n < cbM'.id
    BY <1>4, Numbers DEF Before
  <2>3. ASSUME NEW i \in DOMAIN queue' PROVE n < queue'[i].id
    BY <1>3, <1>4, <2>3 DEF Before
  <2>4. QED
    BY <2>1, <2>2, <2>3 DEF Before
<1>5. cb' # "idle" => cbM'.id <= total'
  BY Numbers DEF OrderInv
<1>6. ASSUME NEW i \in DOMAIN queue'
      PROVE  /\ queue'[i].id <= total'
             /\ cb' # "idle" => queue'[i].id < cbM'.id
  BY <1>2, <1>3, Numbers DEF OrderInv
<1>7. ASSUME NEW i \in DOMAIN queue', NEW j \in DOMAIN queue', i < j
      PROVE  queue'[i].id < queue'[j].id
  <2>1. i \in DOMAIN queue /\ queue'[i] = queue[i]
    <3>1. CASE queue' = queue
      BY <3>1
    <3>2. CASE queue' = Append(queue, cbM)
      <4>1. DOMAIN queue' = 1..(Len(queue) + 1) /\ Len(queue) \in Nat
        BY <3>2, Numbers
      <4>2. i \in 1..Len(queue)
        BY <1>7, <4>1
      <4>3. QED
        BY <3>2, <4>2, Numbers
    <3>3. QED
      BY <1>1, <3>1, <3>2
  <2>2. QED
    BY <1>3, <1>7, <2>1, Numbers DEF OrderInv
<1>8. InPublish' = InPublish /\ pubM' = pubM
  BY DEF InPublish, publisherVars
<1>9. InPublish' => Before(pubM.id)'
  BY <1>4, <1>8, Numbers DEF OrderInv, publisherVars
<1>10. \A i \in DOMAIN outbox : HandedOver(outbox[i].m.id)'
  BY <1>4, <1>8, Numbers DEF OrderInv, HandedOver
<1>11. \A i \in DOMAIN broker : HandedOver(broker[i].m.id)'
  BY <1>4, <1>8, Numbers DEF OrderInv, HandedOver
<1>12. QED
  BY <1>5, <1>6, <1>7, <1>9, <1>10, <1>11 DEF OrderInv, NeverGoesBack

\* The publisher takes the oldest measurement of the queue.
LEMMA OrderTake ==
  ASSUME TypeOK, OrderInv, Take
  PROVE  OrderInv'
<1>1. /\ queue \in Seq(Measurement) /\ queue # <<>> /\ queue' = Tail(queue)
      /\ UNCHANGED <<total, cb, cbM, outbox, broker>>
      /\ ~InPublish
      /\ InPublish' => pubM' = queue[1]
  BY Numbers
  DEF Take, Fail, BackToSelect, InPublish, frontVars, callbackVars, wireVars
<1>2. /\ 1 \in DOMAIN queue
      /\ \A i \in DOMAIN queue' : i + 1 \in DOMAIN queue /\ queue'[i] = queue[i + 1] /\ 1 < i + 1
  BY <1>1
<1>3. \A n \in Nat : Before(n) => Before(n)' /\ n < queue[1].id
  BY <1>1, <1>2 DEF Before
<1>4. ASSUME NEW n, n = queue[1].id
      PROVE  Before(n)'
  <2>1. n <= total /\ (cb # "idle" => n < cbM.id)
    BY <1>2, <1>4 DEF OrderInv
  <2>2. \A i \in DOMAIN queue' : n < queue'[i].id
    BY <1>2, <1>4 DEF OrderInv
  <2>3. QED
    BY <1>1, <2>1, <2>2 DEF Before
<1>5. \A n \in Nat : HandedOver(n) => HandedOver(n)'
  BY <1>1, <1>2, <1>3, Numbers DEF HandedOver
<1>6. /\ \A i \in DOMAIN queue' : queue'[i].id <= total' /\ (cb' # "idle" => queue'[i].id < cbM'.id)
      /\ \A i, j \in DOMAIN queue' : i < j => queue'[i].id < queue'[j].id
  <2>1. \A i, j \in DOMAIN queue' : i < j => i + 1 < j + 1
    BY <1>1
  <2>2. QED
    BY <1>1, <1>2, <2>1 DEF OrderInv
<1>7. InPublish' => Before(pubM.id)'
  <2>1. ASSUME InPublish'
        PROVE  Before(pubM.id)'
    <3>1. pubM'.id = queue[1].id
      BY <1>1, <2>1
    <3>2. QED
      BY <1>4, <3>1 DEF Before
  <2>2. QED
    BY <2>1
<1>8. /\ \A i \in DOMAIN outbox' : HandedOver(outbox[i].m.id)'
      /\ \A i \in DOMAIN broker' : HandedOver(broker[i].m.id)'
  BY <1>1, <1>5, Numbers DEF OrderInv
<1>9. QED
  BY <1>1, <1>6, <1>7, <1>8 DEF OrderInv, NeverGoesBack

\* Steps of the publisher within, or out of, one call of Publish.
LEMMA OrderPublisher ==
  ASSUME TypeOK, OrderInv,
         UNCHANGED <<frontVars, callbackVars, queue, outbox, broker>>,
         InPublish' => InPublish /\ pubM' = pubM
  PROVE  OrderInv'
<1>1. UNCHANGED <<total, cb, cbM>>
  BY DEF frontVars, callbackVars
<1>2. \A n \in Nat : Before(n) => Before(n)'
  BY <1>1 DEF Before
<1>3. InPublish' => Before(pubM.id)'
  BY <1>2, Numbers DEF OrderInv
<1>4. \A n \in Nat : HandedOver(n) => HandedOver(n)'
  BY <1>2 DEF HandedOver
<1>5. /\ \A i \in DOMAIN outbox' : HandedOver(outbox[i].m.id)'
      /\ \A i \in DOMAIN broker' : HandedOver(broker[i].m.id)'
  BY <1>4, Numbers DEF OrderInv
<1>6. QED
  BY <1>1, <1>3, <1>5 DEF OrderInv, NeverGoesBack

\* The publisher hands its measurement to the client.
LEMMA OrderSend ==
  ASSUME TypeOK, OrderInv, Send
  PROVE  OrderInv'
<1> DEFINE x == [m |-> pubM, attempt |-> attempt, sent |-> now]
<1>1. /\ UNCHANGED <<total, cb, cbM, queue, pubM, broker>>
      /\ InPublish /\ InPublish'
      /\ outbox' = Append(outbox, x)
  BY DEF Send, InPublish, frontVars, callbackVars
<1>2. /\ outbox \in Seq(Message) /\ pubM.id \in Nat
      /\ \A i \in DOMAIN outbox : outbox[i].m.id \in Nat
  BY <1>1, Numbers
<1>3. \A i \in DOMAIN outbox' :
        \/ i \in DOMAIN outbox /\ outbox'[i] = outbox[i]
        \/ i = Len(outbox) + 1 /\ outbox'[i].m = pubM
  BY <1>1, <1>2
<1>4. \A n \in Nat : HandedOver(n) => HandedOver(n)'
  BY <1>1 DEF HandedOver, Before
<1>5. HandedOver(pubM.id)
  BY <1>1, <1>2 DEF OrderInv, HandedOver
<1>6. \A i \in DOMAIN outbox' : HandedOver(outbox[i].m.id)'
  <2> SUFFICES ASSUME NEW i \in DOMAIN outbox' PROVE HandedOver(outbox[i].m.id)'
    OBVIOUS
  <2>1. outbox'[i].m.id \in Nat /\ HandedOver(outbox'[i].m.id)
    BY <1>2, <1>3, <1>5 DEF OrderInv
  <2>2. QED
    BY <1>1, <2>1 DEF HandedOver, Before
<1>7. \A i, j \in DOMAIN outbox' : i < j => outbox'[i].m.id <= outbox'[j].m.id
  <2> SUFFICES ASSUME NEW i \in DOMAIN outbox', NEW j \in DOMAIN outbox', i < j
               PROVE  outbox'[i].m.id <= outbox'[j].m.id
    OBVIOUS
  <2>1. i \in DOMAIN outbox /\ outbox'[i] = outbox[i]
    BY <1>1, <1>2
  <2>2. QED
    BY <1>1, <1>2, <1>3, <2>1 DEF OrderInv, HandedOver
<1>8. \A i \in DOMAIN broker, j \in DOMAIN outbox' : broker[i].m.id <= outbox'[j].m.id
  BY <1>1, <1>3 DEF OrderInv, HandedOver
<1>9. \A i \in DOMAIN broker' : HandedOver(broker[i].m.id)'
  BY <1>1, <1>4, Numbers DEF OrderInv
<1>10. Before(pubM.id)'
  BY <1>1, <1>2 DEF OrderInv, Before
<1>11. QED
  BY <1>1, <1>6, <1>7, <1>8, <1>9, <1>10 DEF OrderInv, NeverGoesBack

\* The oldest message on the wire arrives, or is lost.
LEMMA OrderNetwork ==
  ASSUME TypeOK, OrderInv, store = {}, NetworkStep
  PROVE  OrderInv'
<1>1. /\ UNCHANGED <<total, cb, cbM, queue, pub, pubM>>
      /\ outbox # <<>> /\ outbox' = Tail(outbox)
      /\ outbox \in Seq(Message) /\ broker \in Seq(Receipt)
  BY Numbers
  DEF NetworkStep, Deliver, Lose, frontVars, callbackVars, publisherVars
<1>2. /\ 1 \in DOMAIN outbox /\ Head(outbox) = outbox[1]
      /\ \A i \in DOMAIN outbox' :
           i + 1 \in DOMAIN outbox /\ outbox'[i] = outbox[i + 1] /\ 1 < i + 1
  BY <1>1
<1>3. \A n : HandedOver(n)' <=> HandedOver(n)
  BY <1>1 DEF HandedOver, Before, InPublish
<1>4. \A i \in DOMAIN broker' :
        \/ i \in DOMAIN broker /\ broker'[i] = broker[i]
        \/ i = Len(broker) + 1 /\ broker'[i].m = outbox[1].m
  <2>1. CASE Lose
    BY <2>1 DEF Lose
  <2>2. CASE Deliver
    BY <1>1, <1>2, <2>2 DEF Deliver
  <2>3. QED
    BY <2>1, <2>2 DEF NetworkStep
<1>5. \A i \in DOMAIN broker' : HandedOver(broker'[i].m.id)
  BY <1>2, <1>4 DEF OrderInv
<1>6. \A i \in DOMAIN outbox' : HandedOver(outbox'[i].m.id)
  BY <1>2 DEF OrderInv
<1>7. \A i, j \in DOMAIN outbox' : i < j => outbox'[i].m.id <= outbox'[j].m.id
  <2>1. \A i, j \in DOMAIN outbox' : i < j => i + 1 < j + 1
    BY <1>1
  <2>2. QED
    BY <1>2, <2>1 DEF OrderInv
<1>8. \A i \in DOMAIN broker', j \in DOMAIN outbox' : broker'[i].m.id <= outbox'[j].m.id
  BY <1>2, <1>4 DEF OrderInv
<1>9. \A i, j \in DOMAIN broker' : i < j => broker'[i].m.id <= broker'[j].m.id
  <2> SUFFICES ASSUME NEW i \in DOMAIN broker', NEW j \in DOMAIN broker', i < j
               PROVE  broker'[i].m.id <= broker'[j].m.id
    OBVIOUS
  <2>1. i \in DOMAIN broker /\ broker'[i] = broker[i]
    <3>1. broker' = broker \/ \E r : broker' = Append(broker, r)
      BY DEF NetworkStep, Deliver, Lose
    <3>2. DOMAIN broker' \subseteq 1..(Len(broker) + 1) /\ DOMAIN broker = 1..Len(broker)
      BY <1>1, <3>1
    <3>3. QED
      BY <1>1, <1>4, <3>2
  <2>2. QED
    BY <1>2, <1>4, <2>1 DEF OrderInv, NeverGoesBack
<1>10. UNCHANGED <<InPublish, Before(pubM.id)>>
  BY <1>1 DEF InPublish, Before
<1>11. QED
  BY <1>1, <1>3, <1>5, <1>6, <1>7, <1>8, <1>9, <1>10 DEF OrderInv, NeverGoesBack

LEMMA OrderStep == TypeOK /\ store = {} /\ OrderInv /\ [Next]_vars => OrderInv'
<1> SUFFICES ASSUME TypeOK, store = {}, OrderInv, [Next]_vars PROVE OrderInv'
  OBVIOUS
<1>1. ASSUME NEW d \in Devices, NEW f \in Frames,
             Suppress(d, f) \/ Panic(d, f) \/ RateLimit(d, f) \/ Reject(d, f)
      PROVE  OrderInv'
  <2>1. /\ UNCHANGED <<publisherVars, outbox, broker, cb, cbM, queue>>
        /\ total' = total + 1
    BY <1>1 DEF Suppress, Panic, RateLimit, Reject, Allow, Hear
  <2>2. QED
    BY <2>1, Numbers, OrderFront
<1>2. ASSUME NEW d \in Devices, NEW f \in Frames, Admit(d, f)
      PROVE  OrderInv'
  <2>1. /\ UNCHANGED <<publisherVars, outbox, broker, queue>>
        /\ cb = "idle" /\ cb' # "idle"
        /\ total' = total + 1 /\ cbM'.id = total + 1
    BY <1>2 DEF Admit, Allow, Hear
  <2>2. QED
    BY <2>1, Numbers, OrderFront
<1>3. CASE (\E d \in Devices : Ignore(d)) \/ RunStep \/ UNCHANGED vars
  <2>1. UNCHANGED <<publisherVars, outbox, broker, cb, cbM, queue, total>>
    BY <1>3
    DEF Ignore, RunStep, Tick, Cancel, ScanReturns, ProbesAnswered, Exit, Stopped, frontVars,
        callbackVars, wireVars, vars
  <2>2. QED
    BY <2>1, Numbers, OrderFront
<1>4. CASE Announce \/ Announced \/ AnnounceFailed
  <2>1. /\ cb # "idle" /\ cb' # "idle"
        /\ UNCHANGED <<publisherVars, outbox, broker, cbM, queue, total>>
    BY <1>4 DEF Announce, Announced, AnnounceFailed, GiveUpDiscovery, frontVars, wireVars
  <2>2. QED
    BY <2>1, Numbers, OrderFront
<1>5. CASE Enqueue
  <2>1. /\ cb # "idle" /\ cb' = "idle"
        /\ UNCHANGED <<publisherVars, outbox, broker, total>>
        /\ queue' = queue \/ queue' = Append(queue, cbM)
    BY <1>5 DEF Enqueue, Drop, frontVars, wireVars
  <2>2. QED
    BY <2>1, Numbers, OrderFront
<1>6. CASE Take
  BY <1>6, OrderTake
<1>7. CASE Quit \/ Check \/ BackoffOver \/ BackoffCancelled \/ TokenDone \/ TokenFailed
  <2>1. /\ UNCHANGED <<frontVars, callbackVars, queue, outbox, broker>>
        /\ InPublish' => InPublish /\ pubM' = pubM
    BY <1>7
    DEF Quit, Check, BackoffOver, BackoffCancelled, TokenDone, TokenFailed, Retry,
        LastAttemptFailed, Fail, BackToSelect, InPublish, wireVars
  <2>2. QED
    BY <2>1, OrderPublisher
<1>8. CASE Send
  BY <1>8, OrderSend
<1>9. CASE NetworkStep
  BY <1>9, OrderNetwork
<1>10. QED
  BY <1>1, <1>2, <1>3, <1>4, <1>5, <1>6, <1>7, <1>8, <1>9
  DEF Next, FrontStep, CallbackStep, PublisherStep

\* At QoS 0 what the broker receives is in the order of the advertisements, whatever
\* is lost, late or repeated on the way.
THEOREM OrderHolds == Spec => [](QoS = 0 => NeverGoesBack)
<1> DEFINE Ordered == QoS = 0 => OrderInv
<1>1. Init => Ordered
  BY OrderInit
<1>2. TypeOK /\ StoreInv /\ Ordered /\ [Next]_vars => Ordered'
  BY OrderStep DEF StoreInv
<1>3. Ordered => (QoS = 0 => NeverGoesBack)
  BY DEF OrderInv
<1> HIDE DEF Ordered
<1>4. QED
  BY <1>1, <1>2, <1>3, TypeCorrect, StoreCorrect, PTL DEF Spec
-----------------------------------------------------------------------------
(* Bridge implements the abstract relay.  Beyond the spacing the mapping   *)
(* needs: what is on its way, or kept, has been admitted; and a token that *)
(* is complete stands for what the broker has or the client keeps.  At QoS *)
(* 0 it also needs the order, and that the attempts of one measurement     *)
(* bound the copies of it the broker has.                                  *)

Placed ==
  /\ cb # "idle" => cbM \in admitted
  /\ \A i \in DOMAIN queue : queue[i] \in admitted
  /\ InPublish => pubM \in admitted
  /\ \A i \in DOMAIN outbox : outbox[i].m \in admitted
  /\ \A x \in store : x.m \in admitted

\* How often a measurement is in a sequence of receipts; how often the broker has
\* received it.
CopiesIn(s, m) == Cardinality({i \in DOMAIN s : s[i].m = m})
Received(m) == CopiesIn(broker, m)

\* Attempts begun for the publisher's measurement.
Begun == IF pub = "await" THEN attempt + 1 ELSE attempt

CopiesInv ==
  /\ \A i, j \in DOMAIN outbox :
       i < j /\ outbox[i].m = outbox[j].m => outbox[i].attempt < outbox[j].attempt
  /\ \A i \in DOMAIN outbox : Received(outbox[i].m) <= outbox[i].attempt
  /\ InPublish =>
       /\ Received(pubM) <= Begun
       /\ \A i \in DOMAIN outbox : outbox[i].m = pubM => outbox[i].attempt < Begun

\* The client keeps the measurement for the broker; the broker has it.
KeptIn(s, m) == \E x \in s : x.m = m
Has(m) == \E i \in DOMAIN broker : broker[i].m = m

CompleteInv ==
  /\ complete => pub = "await"
  /\ complete /\ Alive => KeptIn(store, pubM) \/ Has(pubM)

RelayInv == Placed /\ CompleteInv

\* The copies of a measurement in a sequence of receipts, ...
LEMMA CountType ==
  ASSUME NEW s \in Seq(Receipt), NEW m
  PROVE  /\ IsFiniteSet({i \in DOMAIN s : s[i].m = m})
         /\ CopiesIn(s, m) \in Nat
<1>1. Len(s) \in Nat /\ DOMAIN s = 1..Len(s)
  OBVIOUS
<1>2. IsFiniteSet(1..Len(s))
  BY <1>1, FS_Interval
<1>3. IsFiniteSet({i \in DOMAIN s : s[i].m = m})
  BY <1>1, <1>2, FS_Subset
<1>4. QED
  BY <1>3, FS_CardinalityType DEF CopiesIn

\* ... and when one more comes.
LEMMA Counting ==
  ASSUME NEW s \in Seq(Receipt), NEW r \in Receipt, NEW m
  PROVE  /\ r.m = m => CopiesIn(Append(s, r), m) = CopiesIn(s, m) + 1
         /\ r.m # m => CopiesIn(Append(s, r), m) = CopiesIn(s, m)
<1> DEFINE t == Append(s, r)
           S == {i \in DOMAIN s : s[i].m = m}
           T == {i \in DOMAIN t : t[i].m = m}
           last == Len(s) + 1
<1>1. IsFiniteSet(S) /\ Cardinality(S) \in Nat
  BY CountType DEF CopiesIn
<1>2. /\ DOMAIN t = (DOMAIN s) \cup {last} /\ last \notin DOMAIN s
      /\ t[last] = r
      /\ \A i \in DOMAIN s : t[i] = s[i]
  OBVIOUS
<1>3. r.m = m => T = S \cup {last} /\ last \notin S
  BY <1>2
<1>4. r.m # m => T = S
  BY <1>2
<1>5. CopiesIn(s, m) = Cardinality(S) /\ CopiesIn(t, m) = Cardinality(T)
  BY DEF CopiesIn
<1>6. SUFFICES /\ r.m = m => Cardinality(T) = Cardinality(S) + 1
               /\ r.m # m => Cardinality(T) = Cardinality(S)
  BY <1>5
<1> HIDE DEF S, T, last
<1>7. QED
  BY <1>1, <1>3, <1>4, FS_AddElement

LEMMA ReceivedType == ASSUME TypeOK, NEW m PROVE Received(m) \in Nat
<1>1. broker \in Seq(Receipt)
  BY DEF TypeOK, WireType
<1>2. QED
  BY <1>1, CountType DEF Received

LEMMA ReceivedStep ==
  ASSUME TypeOK, NEW q \in Receipt, broker' = Append(broker, q), NEW m
  PROVE  /\ q.m = m => Received(m)' = Received(m) + 1
         /\ q.m # m => Received(m)' = Received(m)
<1>1. broker \in Seq(Receipt)
  BY DEF TypeOK, WireType
<1>2. /\ q.m = m => CopiesIn(broker', m) = CopiesIn(broker, m) + 1
      /\ q.m # m => CopiesIn(broker', m) = CopiesIn(broker, m)
  BY <1>1, Counting
<1>3. QED
  BY <1>2 DEF Received

LEMMA RelayInvInit == Init => RelayInv
BY DEF Init, RelayInv, Placed, CompleteInv, InPublish

\* Steps that leave the publisher and the wire alone, or end the process.
LEMMA RelayInvKept ==
  ASSUME RelayInv, UNCHANGED <<publisherVars, outbox, broker, complete>>,
         \/ store' = store /\ (Alive' => Alive)
         \/ store' = {} /\ ~Alive',
         admitted \subseteq admitted',
         cb' # "idle" => cbM' \in admitted',
         \A i \in DOMAIN queue' : queue'[i] \in admitted'
  PROVE  RelayInv'
<1>1. Placed'
  BY DEF RelayInv, Placed, InPublish, publisherVars
<1>2. CompleteInv'
  BY DEF RelayInv, CompleteInv, KeptIn, Has, publisherVars
<1>3. QED
  BY <1>1, <1>2 DEF RelayInv

LEMMA RelayInvFront ==
  ASSUME TypeOK, RelayInv, FrontStep \/ CallbackStep \/ RunStep \/ UNCHANGED vars
  PROVE  RelayInv'
<1>1. ASSUME (\E d \in Devices : Ignore(d)) \/ RunStep \/ UNCHANGED vars PROVE RelayInv'
  <2>1. UNCHANGED <<publisherVars, outbox, broker, complete, admitted, cb, cbM, queue>>
    BY <1>1
    DEF Ignore, RunStep, Tick, Cancel, ScanReturns, ProbesAnswered, Exit, Stopped, frontVars,
        callbackVars, wireVars, vars
  <2>2. \/ store' = store /\ (Alive' => Alive)
        \/ store' = {} /\ ~Alive'
    BY <1>1
    DEF Ignore, RunStep, Tick, Cancel, ScanReturns, ProbesAnswered, Exit, Stopped, wireVars,
        runVars, vars, Alive
  <2>3. QED
    BY <2>1, <2>2, RelayInvKept DEF RelayInv, Placed
<1>2. ASSUME NEW d \in Devices, NEW f \in Frames,
             Suppress(d, f) \/ Panic(d, f) \/ RateLimit(d, f) \/ Reject(d, f)
      PROVE  RelayInv'
  <2>1. UNCHANGED <<publisherVars, outbox, broker, complete, admitted, cb, cbM, queue>>
    BY <1>2 DEF Suppress, Panic, RateLimit, Reject, Allow, Hear
  <2>2. \/ store' = store /\ (Alive' => Alive)
        \/ store' = {} /\ ~Alive'
    BY <1>2 DEF Suppress, Panic, RateLimit, Reject, Allow, Hear, Alive
  <2>3. QED
    BY <2>1, <2>2, RelayInvKept DEF RelayInv, Placed
<1>3. ASSUME NEW d \in Devices, NEW f \in Frames, Admit(d, f) PROVE RelayInv'
  <2>1. /\ UNCHANGED <<publisherVars, outbox, broker, complete, store, queue, phase>>
        /\ admitted' = admitted \cup {cbM'}
    BY <1>3 DEF Admit, Allow, Hear
  <2>2. QED
    BY <2>1, RelayInvKept DEF RelayInv, Placed, Alive
<1>4. ASSUME Announce \/ Announced \/ AnnounceFailed PROVE RelayInv'
  <2>1. /\ cb # "idle"
        /\ UNCHANGED <<publisherVars, outbox, broker, complete, store, admitted, cbM, queue,
                       phase>>
    BY <1>4
    DEF Announce, Announced, AnnounceFailed, GiveUpDiscovery, frontVars, wireVars, runVars
  <2>2. QED
    BY <2>1, RelayInvKept DEF RelayInv, Placed, Alive
<1>5. ASSUME Enqueue PROVE RelayInv'
  <2>1. /\ cb # "idle" /\ cb' = "idle"
        /\ UNCHANGED <<publisherVars, outbox, broker, complete, store, admitted, phase>>
        /\ queue' = queue \/ queue' = Append(queue, cbM)
    BY <1>5 DEF Enqueue, Drop, frontVars, wireVars, runVars
  <2>2. queue \in Seq(Measurement) /\ cbM \in admitted
    BY <2>1, Numbers DEF RelayInv, Placed
  <2>3. \A i \in DOMAIN queue' : queue'[i] \in admitted
    BY <2>1, <2>2 DEF RelayInv, Placed
  <2>4. QED
    BY <2>1, <2>3, RelayInvKept DEF Alive
<1>6. QED
  BY <1>1, <1>2, <1>3, <1>4, <1>5 DEF FrontStep, CallbackStep

LEMMA RelayInvPublisher ==
  ASSUME TypeOK, RelayInv, PublisherStep
  PROVE  RelayInv'
<1>1. UNCHANGED <<admitted, cb, cbM, broker, phase>>
  BY DEF PublisherStep, Take, Quit, Check, BackoffOver, BackoffCancelled, Send, TokenDone,
         TokenFailed, frontVars, callbackVars, wireVars, runVars
<1>2. CASE Take
  <2>1. /\ queue \in Seq(Measurement) /\ queue # <<>> /\ queue' = Tail(queue)
        /\ UNCHANGED <<outbox, store, complete>> /\ pub = "select"
        /\ InPublish' => pubM' = queue[1]
    BY <1>2, Numbers DEF Take, Fail, BackToSelect, InPublish, wireVars
  <2>2. /\ 1 \in DOMAIN queue
        /\ \A i \in DOMAIN queue' : i + 1 \in DOMAIN queue /\ queue'[i] = queue[i + 1]
    BY <2>1
  <2>3. QED
    BY <1>1, <2>1, <2>2 DEF RelayInv, Placed, CompleteInv
<1>3. CASE Quit \/ Check \/ BackoffOver \/ BackoffCancelled
  <2>1. /\ UNCHANGED <<queue, outbox, store, complete>> /\ pub # "await"
        /\ InPublish' => InPublish /\ pubM' = pubM
    BY <1>3
    DEF Quit, Check, BackoffOver, BackoffCancelled, Fail, BackToSelect, InPublish, wireVars
  <2>2. QED
    BY <1>1, <2>1 DEF RelayInv, Placed, CompleteInv
<1>4. CASE TokenDone \/ TokenFailed
  <2>1. /\ UNCHANGED <<queue, outbox, store>> /\ ~complete'
        /\ InPublish' => InPublish /\ pubM' = pubM
    BY <1>4
    DEF TokenDone, TokenFailed, Retry, LastAttemptFailed, Fail, BackToSelect, InPublish
  <2>2. QED
    BY <1>1, <2>1 DEF RelayInv, Placed, CompleteInv
<1>5. CASE Send
  <2>1. PICK x \in Message : /\ x.m = pubM /\ outbox' = Append(outbox, x)
                             /\ store' = store \/ store' = store \cup {x}
    <3>1. pubM \in Measurement /\ attempt \in 0..PublishRetries /\ now \in Nat
      BY <1>5, BoundAssumption DEF TypeOK, PublisherType, RunType, Send
    <3>2. [m |-> pubM, attempt |-> attempt, sent |-> now] \in Message
      BY <3>1 DEF Message
    <3>3. QED
      BY <1>5, <3>2 DEF Send
  <2>2. /\ UNCHANGED <<queue, pubM, complete>> /\ pub = "send" /\ InPublish
        /\ outbox \in Seq(Message)
    BY <1>5, Numbers DEF Send, InPublish
  <2>3. \A i \in DOMAIN outbox' :
          (i \in DOMAIN outbox /\ outbox'[i] = outbox[i]) \/ outbox'[i] = x
    BY <2>1, <2>2
  <2>4. QED
    BY <1>1, <2>1, <2>2, <2>3 DEF RelayInv, Placed, CompleteInv
<1>6. QED
  BY <1>2, <1>3, <1>4, <1>5 DEF PublisherStep

\* An answer takes from the store what the broker has; nothing else does.
LEMMA RelayInvNetwork ==
  ASSUME TypeOK, RelayInv, NetworkStep
  PROVE  RelayInv'
<1>1. /\ UNCHANGED <<admitted, cb, cbM, queue, pub, pubM, attempt, phase>>
      /\ outbox \in Seq(Message) /\ broker \in Seq(Receipt) /\ store \subseteq Message
  BY Numbers
  DEF NetworkStep, Deliver, Lose, Resume, frontVars, callbackVars, publisherVars, runVars,
      TypeOK, WireType
<1>2. CASE Deliver
  <2>1. PICK x \in Message : x = Head(outbox) /\ x = outbox[1] /\ outbox' = Tail(outbox)
                             /\ 1 \in DOMAIN outbox
    BY <1>1, <1>2 DEF Deliver
  <2>2. PICK r \in Receipt : r.m = x.m /\ broker' = Append(broker, r)
    <3>1. [m |-> x.m, sent |-> x.sent] \in Receipt
      BY DEF Message, Receipt
    <3>2. QED
      BY <1>2, <2>1, <3>1 DEF Deliver
  <2>3. \A i \in DOMAIN outbox' : i + 1 \in DOMAIN outbox /\ outbox'[i] = outbox[i + 1]
    BY <1>1, <2>1
  <2>4. /\ Has(x.m)'
        /\ \A m : Has(m) => Has(m)'
    <3>1. /\ \A i \in DOMAIN broker : i \in DOMAIN broker' /\ broker'[i] = broker[i]
          /\ Len(broker) + 1 \in DOMAIN broker' /\ broker'[Len(broker) + 1] = r
      BY <1>1, <2>2
    <3>2. QED
      BY <2>2, <3>1 DEF Has
  <2>5. Placed'
    BY <1>1, <1>2, <2>1, <2>3 DEF RelayInv, Placed, InPublish, Deliver, Acknowledge
  <2>6. /\ complete' => complete \/ (pub = "await" /\ x.m = pubM)
        /\ store' = store \/ store' = store \ {x}
    <3>1. Acknowledge(x) \/ (complete' = complete /\ store' = store)
      BY <1>2, <2>1 DEF Deliver
    <3>2. CASE Acknowledge(x)
      BY <3>2, Zenon DEF Acknowledge, InHand
    <3>3. QED
      BY <3>1, <3>2
  <2>7. KeptIn(store, pubM) => KeptIn(store', pubM) \/ x.m = pubM
    BY <2>6 DEF KeptIn
  <2>8. CompleteInv'
    BY <1>1, <2>4, <2>6, <2>7 DEF RelayInv, CompleteInv, Alive, Has
  <2>9. QED
    BY <2>5, <2>8 DEF RelayInv
<1>3. CASE Lose
  <2>1. /\ outbox' = Tail(outbox) /\ outbox # <<>>
        /\ UNCHANGED <<broker, store, complete>>
    BY <1>3 DEF Lose
  <2>2. \A i \in DOMAIN outbox' : i + 1 \in DOMAIN outbox /\ outbox'[i] = outbox[i + 1]
    BY <1>1, <2>1
  <2>3. QED
    BY <1>1, <2>1, <2>2 DEF RelayInv, Placed, InPublish, CompleteInv, KeptIn, Has, Alive
<1>4. ASSUME NEW x \in store, Resume(x) PROVE RelayInv'
  <2>1. /\ outbox' = Append(outbox, x)
        /\ UNCHANGED <<broker, store>>
        /\ complete' => complete \/ (pub = "await" /\ x.m = pubM)
    BY <1>4 DEF Resume, InHand
  <2>2. \A i \in DOMAIN outbox' :
          (i \in DOMAIN outbox /\ outbox'[i] = outbox[i]) \/ outbox'[i] = x
    BY <1>1, <2>1
  <2>3. Placed'
    BY <1>1, <2>1, <2>2 DEF RelayInv, Placed, InPublish
  <2>4. CompleteInv'
    BY <1>1, <2>1 DEF RelayInv, CompleteInv, KeptIn, Has, Alive
  <2>5. QED
    BY <2>3, <2>4 DEF RelayInv
<1>5. QED
  BY <1>2, <1>3, <1>4 DEF NetworkStep

LEMMA RelayInvStep == TypeOK /\ RelayInv /\ [Next]_vars => RelayInv'
BY RelayInvFront, RelayInvPublisher, RelayInvNetwork DEF Next

\* At QoS 0, the copies.
LEMMA CopiesInit == Init => CopiesInv
BY DEF Init, CopiesInv, InPublish

\* Steps that leave the publisher and the wire alone.
LEMMA CopiesKept ==
  ASSUME CopiesInv, UNCHANGED <<publisherVars, outbox, broker>>
  PROVE  CopiesInv'
BY DEF CopiesInv, Received, Begun, InPublish, publisherVars

\* What the publisher takes is newer than all it has handed over: none of it is on
\* the wire or with the broker.
LEMMA CopiesTake ==
  ASSUME TypeOK, OrderInv, CopiesInv, Take
  PROVE  CopiesInv'
<1>1. /\ queue \in Seq(Measurement) /\ queue # <<>> /\ queue' = Tail(queue)
      /\ UNCHANGED <<admitted, cb, cbM, outbox, broker>>
      /\ pub = "select" /\ pub' # "await"
      /\ InPublish' => pubM' = queue[1] /\ attempt' = 0 /\ pub' = "check"
  BY Numbers
  DEF Take, Fail, BackToSelect, InPublish, frontVars, callbackVars, wireVars
<1>2. /\ 1 \in DOMAIN queue
      /\ \A i \in DOMAIN queue' : i + 1 \in DOMAIN queue /\ queue'[i] = queue[i + 1]
  BY <1>1
<1>5. /\ \A i \in DOMAIN outbox : outbox[i].m # queue[1]
      /\ \A i \in DOMAIN broker : broker[i].m # queue[1]
  <2>1. queue[1].id \in Nat
    BY <1>2, Numbers
  <2>2. /\ \A i \in DOMAIN outbox : outbox[i].m.id < queue[1].id
        /\ \A i \in DOMAIN broker : broker[i].m.id < queue[1].id
    BY <1>2 DEF OrderInv, HandedOver, Before
  <2>3. QED
    BY <2>1, <2>2
<1>6. Received(queue[1]) = 0
  <2>1. {i \in DOMAIN broker : broker[i].m = queue[1]} = {}
    BY <1>5
  <2>2. QED
    BY <2>1, FS_EmptySet DEF Received, CopiesIn
<1>7. QED
  <2>1. \A m : Received(m)' = Received(m)
    BY <1>1 DEF Received
  <2>2. InPublish' => Received(pubM)' = 0 /\ Begun' = 0
    BY <1>1, <1>6 DEF Received, Begun
  <2>3. InPublish' => \A i \in DOMAIN outbox' : outbox'[i].m # pubM'
    BY <1>1, <1>5
  <2>4. \A i \in DOMAIN outbox' : Received(outbox[i].m)' <= outbox'[i].attempt
    BY <1>1 DEF CopiesInv, Received
  <2>5. InPublish' => Received(pubM)' <= Begun'
    BY <2>2
  <2>6. QED
    BY <1>1, <2>3, <2>4, <2>5 DEF CopiesInv
\* The steps of one call of Publish, and out of it.
LEMMA CopiesPublisher ==
  ASSUME CopiesInv, UNCHANGED <<outbox, broker>>,
         InPublish' => InPublish /\ pubM' = pubM /\ Begun' = Begun
  PROVE  CopiesInv'
<1>1. \A i \in DOMAIN outbox' : Received(outbox[i].m)' <= outbox'[i].attempt
  BY DEF CopiesInv, Received
<1>2. InPublish' => Received(pubM)' <= Begun'
  BY DEF CopiesInv, Received
<1>3. InPublish' => \A i \in DOMAIN outbox' : outbox'[i].m = pubM' => outbox'[i].attempt < Begun'
  BY DEF CopiesInv
<1>4. QED
  BY <1>1, <1>2, <1>3 DEF CopiesInv

LEMMA CopiesSend ==
  ASSUME TypeOK, CopiesInv, Send
  PROVE  CopiesInv'
<1> DEFINE x == [m |-> pubM, attempt |-> attempt, sent |-> now]
<1>1. /\ UNCHANGED <<admitted, cb, cbM, queue, pubM, attempt, broker>>
      /\ pub = "send" /\ pub' = "await" /\ InPublish
      /\ outbox' = Append(outbox, x)
  BY DEF Send, InPublish, frontVars, callbackVars
<1>2. /\ outbox \in Seq(Message) /\ attempt \in Nat
      /\ \A i \in DOMAIN outbox : outbox[i].attempt \in Nat
  <2>1. outbox \in Seq(Message) /\ attempt \in Nat
    BY QueueAssumption DEF TypeOK, WireType, PublisherType
  <2>2. \A y \in Message : y.attempt \in Nat
    BY QueueAssumption DEF Message
  <2>3. QED
    BY <2>1, <2>2
<1>3. \A i \in DOMAIN outbox' :
        \/ i \in DOMAIN outbox /\ outbox'[i] = outbox[i]
        \/ i = Len(outbox) + 1 /\ outbox'[i] = x
  BY <1>1, <1>2
<1>4. Begun = attempt /\ Begun' = attempt + 1
  BY <1>1 DEF Begun
<1>5. \A m : Received(m)' = Received(m)
  BY <1>1 DEF Received
<1>8. /\ Received(pubM) <= attempt
      /\ \A i \in DOMAIN outbox : outbox[i].m = pubM => outbox[i].attempt < attempt
  BY <1>1, <1>4 DEF CopiesInv
<1>9. \A i, j \in DOMAIN outbox' :
        i < j /\ outbox'[i].m = outbox'[j].m => outbox'[i].attempt < outbox'[j].attempt
  <2> SUFFICES ASSUME NEW i \in DOMAIN outbox', NEW j \in DOMAIN outbox', i < j,
                      outbox'[i].m = outbox'[j].m
               PROVE  outbox'[i].attempt < outbox'[j].attempt
    OBVIOUS
  <2>1. i \in DOMAIN outbox /\ outbox'[i] = outbox[i]
    BY <1>1, <1>2
  <2>2. CASE j \in DOMAIN outbox /\ outbox'[j] = outbox[j]
    BY <2>1, <2>2 DEF CopiesInv
  <2>3. CASE outbox'[j] = x
    BY <1>8, <2>1, <2>3
  <2>4. QED
    BY <1>3, <2>2, <2>3
<1>10. \A i \in DOMAIN outbox' : Received(outbox'[i].m) <= outbox'[i].attempt
  <2>1. \A i \in DOMAIN outbox : Received(outbox[i].m) <= outbox[i].attempt
    BY DEF CopiesInv
  <2>2. x.m = pubM /\ x.attempt = attempt
    OBVIOUS
  <2>3. QED
    BY <1>3, <1>8, <2>1, <2>2
<1>11. \A i \in DOMAIN outbox' : outbox'[i].m = pubM => outbox'[i].attempt < attempt + 1
  <2>1. x.attempt = attempt
    OBVIOUS
  <2>2. QED
    BY <1>2, <1>3, <1>8, <2>1
<1>12. Received(pubM) <= attempt + 1
  BY <1>2, <1>8, ReceivedType
<1>13. QED
  <2>1. \A i \in DOMAIN outbox' : Received(outbox[i].m)' <= outbox'[i].attempt
    BY <1>1, <1>10 DEF Received
  <2>2. Received(pubM)' <= Begun'
    BY <1>1, <1>4, <1>12 DEF Received
  <2>3. QED
    BY <1>1, <1>4, <1>9, <1>11, <2>1, <2>2 DEF CopiesInv

\* A message that arrives is one more copy, and has at least that many attempts
\* behind it.
LEMMA CopiesNetwork ==
  ASSUME TypeOK, CopiesInv, store = {}, NetworkStep
  PROVE  CopiesInv'
<1> DEFINE x == outbox[1]
           r == [m |-> x.m, sent |-> x.sent]
<1>1. /\ UNCHANGED <<admitted, cb, cbM, queue, pub, pubM, attempt>>
      /\ outbox # <<>> /\ outbox' = Tail(outbox) /\ Head(outbox) = x
      /\ outbox \in Seq(Message) /\ broker \in Seq(Receipt)
  BY Numbers
  DEF NetworkStep, Deliver, Lose, frontVars, callbackVars, publisherVars
<1>2. /\ 1 \in DOMAIN outbox /\ x \in Message
      /\ \A i \in DOMAIN outbox' :
           i + 1 \in DOMAIN outbox /\ outbox'[i] = outbox[i + 1] /\ 1 < i + 1
  BY <1>1
<1>3. r \in Receipt /\ \A i \in DOMAIN outbox : outbox[i].attempt \in Nat
  <2>1. \A y \in Message : y.attempt \in Nat
    BY QueueAssumption DEF Message
  <2>2. r \in Receipt
    BY <1>2 DEF Message, Receipt
  <2>3. \A i \in DOMAIN outbox : outbox[i] \in Message
    BY <1>1
  <2>4. QED
    BY <2>1, <2>2, <2>3
<1>4. broker' = broker \/ broker' = Append(broker, r)
  BY <1>1 DEF NetworkStep, Deliver, Lose
<1>7. /\ \A i, j \in DOMAIN outbox' :
           i < j /\ outbox'[i].m = outbox'[j].m => outbox'[i].attempt < outbox'[j].attempt
      /\ InPublish' => \A i \in DOMAIN outbox' : outbox'[i].m = pubM' => outbox'[i].attempt < Begun'
  <2>1. \A i, j \in DOMAIN outbox' : i < j => i + 1 < j + 1
    BY <1>1
  <2>2. InPublish' = InPublish /\ Begun' = Begun
    BY <1>1 DEF InPublish, Begun
  <2>3. QED
    BY <1>1, <1>2, <2>1, <2>2 DEF CopiesInv
<1>8. \A m : \/ Received(m)' = Received(m)
             \/ Received(m)' = Received(m) + 1 /\ m = x.m
  <2>1. CASE broker' = broker
    BY <2>1 DEF Received
  <2>2. CASE broker' = Append(broker, r)
    <3>1. SUFFICES ASSUME NEW m
                   PROVE  Received(m)' = Received(m) \/ (Received(m)' = Received(m) + 1 /\ m = x.m)
      OBVIOUS
    <3>2. /\ x.m = m => Received(m)' = Received(m) + 1
          /\ x.m # m => Received(m)' = Received(m)
      <4>1. PICK q \in Receipt : q = r /\ q.m = x.m
        BY <1>3
      <4>2. broker' = Append(broker, q)
        BY <2>2, <4>1
      <4>3. QED
        BY <4>1, <4>2, ReceivedStep
    <3>3. Received(m) \in Nat
      BY ReceivedType
    <3>4. QED
      BY <3>2, <3>3
  <2>3. QED
    BY <1>4, <2>1, <2>2
<1>9. \A i \in DOMAIN outbox' : Received(outbox[i].m)' <= outbox'[i].attempt
  <2>1. SUFFICES ASSUME NEW i \in DOMAIN outbox' PROVE Received(outbox[i].m)' <= outbox'[i].attempt
    OBVIOUS
  <2>2. PICK m : m = outbox[i + 1].m
    OBVIOUS
  <2>3. outbox'[i].m = m /\ outbox'[i].attempt = outbox[i + 1].attempt
    BY <1>2, <2>2
  <2>4. Received(m) <= outbox'[i].attempt
    BY <1>2, <2>2, <2>3 DEF CopiesInv
  <2>5. m = x.m => Received(m) + 1 <= outbox'[i].attempt
    <3>1. Received(x.m) <= x.attempt /\ (m = x.m => x.attempt < outbox[i + 1].attempt)
      BY <1>2, <2>2 DEF CopiesInv
    <3>2. x.attempt \in Nat /\ outbox[i + 1].attempt \in Nat /\ Received(x.m) \in Nat
      BY <1>2, <1>3, ReceivedType
    <3>3. QED
      BY <2>3, <3>1, <3>2
  <2>6. Received(outbox[i].m)' <= outbox'[i].attempt
    <3>1. Received(outbox[i].m)' = Received(m)'
      BY <2>3 DEF Received
    <3>2. QED
      BY <1>8, <2>4, <2>5, <3>1
  <2>7. QED
    BY <2>6
<1>10. InPublish' => Received(pubM)' <= Begun'
  <2>1. SUFFICES ASSUME InPublish PROVE Received(pubM)' <= Begun
    BY <1>1 DEF InPublish, Begun
  <2>2. Received(pubM) <= Begun
    BY <2>1 DEF CopiesInv
  <2>3. pubM = x.m => Received(pubM) + 1 <= Begun
    <3>1. Received(x.m) <= x.attempt /\ (pubM = x.m => x.attempt < Begun)
      BY <1>2, <2>1 DEF CopiesInv
    <3>2. x.attempt \in Nat /\ Begun \in Nat /\ Received(x.m) \in Nat
      BY <1>2, <1>3, ReceivedType, QueueAssumption DEF TypeOK, PublisherType, Begun
    <3>3. QED
      BY <3>1, <3>2
  <2>4. Received(pubM)' = Received(pubM) \/ (Received(pubM)' = Received(pubM) + 1 /\ pubM = x.m)
    <3>1. PICK m : m = pubM
      OBVIOUS
    <3>2. Received(pubM)' = Received(m)'
      BY <1>1, <3>1 DEF Received
    <3>3. QED
      BY <1>8, <3>1, <3>2
  <2>5. QED
    BY <2>2, <2>3, <2>4
<1>11. QED
  BY <1>7, <1>9, <1>10 DEF CopiesInv

LEMMA CopiesStep ==
  TypeOK /\ store = {} /\ OrderInv /\ CopiesInv /\ [Next]_vars => CopiesInv'
<1> SUFFICES ASSUME TypeOK, store = {}, OrderInv, CopiesInv, [Next]_vars PROVE CopiesInv'
  OBVIOUS
<1>1. CASE FrontStep \/ CallbackStep \/ RunStep \/ UNCHANGED vars
  <2>1. UNCHANGED <<publisherVars, outbox, broker>>
    BY <1>1
    DEF FrontStep, Ignore, Suppress, Panic, RateLimit, Reject, Admit, Allow, Hear,
        CallbackStep, Announce, Announced, AnnounceFailed, Enqueue,
        RunStep, Tick, Cancel, ScanReturns, ProbesAnswered, Exit, Stopped, wireVars, vars
  <2>2. QED
    BY <2>1, CopiesKept
<1>2. CASE Quit \/ Check \/ BackoffOver \/ BackoffCancelled \/ TokenDone \/ TokenFailed
  <2>1. UNCHANGED <<outbox, broker>>
    BY <1>2 DEF Quit, Check, BackoffOver, BackoffCancelled, TokenDone, TokenFailed, wireVars
  <2>2. InPublish' => InPublish /\ pubM' = pubM
    BY <1>2
    DEF Quit, Check, BackoffOver, BackoffCancelled, TokenDone, TokenFailed, Retry,
        LastAttemptFailed, Fail, BackToSelect, InPublish
  <2>3. InPublish' => Begun' = Begun
    BY <1>2
    DEF Quit, Check, BackoffOver, BackoffCancelled, TokenDone, TokenFailed, Retry,
        LastAttemptFailed, Fail, BackToSelect, InPublish, Begun
  <2>4. QED
    BY <2>1, <2>2, <2>3, CopiesPublisher
<1>3. QED
  BY <1>1, <1>2, CopiesTake, CopiesSend, CopiesNetwork DEF Next, PublisherStep
-----------------------------------------------------------------------------
(* The steps of Bridge as steps of Relay.                                  *)

\* The two ends of Unsettled.
Hand == IF pub \in {"select", "done"} THEN <<>> ELSE <<pubM>>
Call == IF cb = "idle" THEN <<>> ELSE <<cbM>>

LEMMA Parts ==
  ASSUME TypeOK
  PROVE  /\ Unsettled = Hand \o queue \o Call
         /\ queue \in Seq(Measurement) /\ Len(queue) <= PublishQueueSize
         /\ Hand \in Seq(Measurement) /\ Len(Hand) <= 1
         /\ Call \in Seq(Measurement) /\ Len(Call) <= 1
<1>1. Unsettled = Hand \o queue \o Call
  BY DEF Unsettled, Hand, Call
<1>2. queue \in Seq(Measurement) /\ Len(queue) <= PublishQueueSize
  BY DEF TypeOK, QueueType
<1>3. Hand \in Seq(Measurement) /\ Len(Hand) <= 1
  <2>1. CASE pub \in {"select", "done"}
    BY <2>1 DEF Hand
  <2>2. CASE pub \notin {"select", "done"}
    <3>1. pubM \in Measurement /\ Hand = <<pubM>>
      BY <2>2 DEF TypeOK, PublisherType, Hand
    <3>2. QED
      BY <3>1
  <2>3. QED
    BY <2>1, <2>2
<1>4. Call \in Seq(Measurement) /\ Len(Call) <= 1
  <2>1. CASE cb = "idle"
    BY <2>1 DEF Call
  <2>2. CASE cb # "idle"
    <3>1. cbM \in Measurement /\ Call = <<cbM>>
      BY <2>2 DEF TypeOK, CallbackType, Call
    <3>2. QED
      BY <3>1
  <2>3. QED
    BY <2>1, <2>2
<1>5. QED
  BY <1>1, <1>2, <1>3, <1>4

\* What the callback does at one end of the queue, ...
LEMMA Joins ==
  ASSUME NEW S, NEW h \in Seq(S), NEW q \in Seq(S), NEW c \in S
  PROVE  /\ Append(h \o q \o << >>, c) = h \o q \o <<c>>
         /\ h \o Append(q, c) \o << >> = h \o q \o <<c>>
         /\ SubSeq(h \o q \o <<c>>, 1, Len(h \o q \o <<c>>) - 1) = h \o q \o << >>
<1>1. Append(h \o q \o << >>, c) = h \o q \o <<c>>
  OBVIOUS
<1>2. h \o Append(q, c) \o << >> = h \o q \o <<c>>
  OBVIOUS
<1>3. SubSeq(h \o q \o <<c>>, 1, Len(h \o q \o <<c>>) - 1) = h \o q \o << >>
  OBVIOUS
<1>4. QED
  BY <1>1, <1>2, <1>3

\* ... and the publisher at the other.
LEMMA Takes ==
  ASSUME NEW S, NEW p \in S, NEW q \in Seq(S), NEW c \in Seq(S)
  PROVE  /\ q # << >> => Tail(<< >> \o q \o c) = << >> \o Tail(q) \o c
         /\ q # << >> => <<Head(q)>> \o Tail(q) \o c = << >> \o q \o c
         /\ Tail(<<p>> \o q \o c) = << >> \o q \o c
         /\ Head(<<p>> \o q \o c) = p
<1>1. q # << >> => Tail(<< >> \o q \o c) = << >> \o Tail(q) \o c
  OBVIOUS
<1>2. q # << >> => <<Head(q)>> \o Tail(q) \o c = << >> \o q \o c
  OBVIOUS
<1>3. Tail(<<p>> \o q \o c) = << >> \o q \o c
  OBVIOUS
<1>4. Head(<<p>> \o q \o c) = p
  OBVIOUS
<1>5. QED
  BY <1>1, <1>2, <1>3, <1>4

LEMMA RelayStutter ==
  ASSUME UNCHANGED <<admitted, Unsettled, Kept, broker, publishedTotal, publishFailures, Alive>>
  PROVE  UNCHANGED R!relayVars
BY DEF R!relayVars

\* A measurement that passed the filter and the rate limiter is accepted.
LEMMA RelayAccept ==
  ASSUME TypeOK, TypeOK', AdmissionInv, AdmissionInv',
         NEW d \in Devices, NEW f \in Frames, Admit(d, f)
  PROVE  R!RelayNext
<1>1. /\ cb = "idle" /\ cb' # "idle" /\ Listed(d)
      /\ UNCHANGED <<pub, pubM, queue, broker, Kept, publishedTotal, publishFailures>>
      /\ Alive /\ Alive'
      /\ admitted' = admitted \cup {cbM'}
      /\ cbM'.id = total + 1 /\ cbM'.dev = d
  BY DEF Admit, Allow, Hear, publisherVars, outcomeVars, Kept, Alive
<1>2. PICK m \in Measurement : m = cbM' /\ m.id = total + 1 /\ m.dev = d
  BY <1>1 DEF TypeOK, CallbackType
<1>3. total \in Nat /\ \A n \in admitted : n \in Measurement /\ n.id <= total
  BY DEF TypeOK, FrontType, AdmissionInv
<1>4. \A n \in admitted : n.id < m.id
  <2>1. \A n \in Measurement : n.id \in Nat
    BY DEF Measurement
  <2>2. QED
    BY <1>2, <1>3, <2>1
<1>5. \A n \in admitted : n.dev = m.dev => m.at - n.at >= Interval(m.dev)
  <2>1. SUFFICES ASSUME NEW n \in admitted, n.dev = m.dev PROVE m.at - n.at >= Interval(m.dev)
    OBVIOUS
  <2>2. n \in admitted' /\ m \in admitted' /\ n.id < m.id
    BY <1>1, <1>2, <1>4
  <2>3. QED
    BY <2>1, <2>2 DEF AdmissionInv, AdmissionSpacing
<1>6. Hand' = Hand /\ Hand \in Seq(Measurement) /\ queue \in Seq(Measurement)
  BY <1>1, Parts DEF Hand
<1>7. Unsettled = Hand \o queue \o << >> /\ Unsettled' = Hand \o queue \o <<m>>
  <2>1. Unsettled = Hand \o queue \o << >>
    BY <1>1 DEF Unsettled, Hand
  <2>2. Unsettled' = Hand \o queue \o <<m>>
    BY <1>1, <1>2 DEF Unsettled, Hand
  <2>3. QED
    BY <2>1, <2>2
<1>8. Len(Unsettled) < PublishQueueSize + 2
  <2>1. Len(Hand) <= 1 /\ Len(queue) <= PublishQueueSize /\ PublishQueueSize \in Nat
    BY Parts, QueueAssumption
  <2>2. Len(Hand \o queue \o << >>) = Len(Hand) + Len(queue)
    BY <1>6
  <2>3. QED
    BY <1>6, <1>7, <2>1, <2>2
<1>9. Unsettled' = Append(Unsettled, m)
  BY <1>6, <1>7, Joins
<1>10. m \in {n \in Measurement : FilterNamed => n.dev \in Configured}
  BY <1>1, <1>2 DEF Listed
<1>11. R!Accept(m)
  BY <1>1, <1>2, <1>4, <1>5, <1>8, <1>9, <1>10 DEF R!Accept
<1>12. m \in admitted' \ admitted
  BY <1>1, <1>2, <1>3, <1>4
<1>13. QED
  BY <1>11, <1>12 DEF R!RelayNext

\* A full queue refuses the newest measurement; else nothing is to be seen.
LEMMA RelayEnqueue ==
  ASSUME TypeOK, Enqueue
  PROVE  R!Refuse \/ UNCHANGED R!relayVars
<1>1. /\ cb = "enqueue" /\ cb' = "idle"
      /\ UNCHANGED <<admitted, pub, pubM, broker, Kept, publishedTotal>>
      /\ Alive /\ Alive'
  BY DEF Enqueue, frontVars, publisherVars, wireVars, runVars, Kept, Alive
<1>2. Hand' = Hand /\ Hand \in Seq(Measurement) /\ queue \in Seq(Measurement)
  BY <1>1, Parts DEF Hand
<1>3. cbM \in Measurement
  BY <1>1 DEF TypeOK, CallbackType
<1>4. Unsettled = Hand \o queue \o <<cbM>>
  BY <1>1 DEF Unsettled, Hand
<1>5. Unsettled' = Hand \o queue' \o << >>
  BY <1>1, <1>2 DEF Unsettled, Hand
<1>6. CASE Len(queue) < PublishQueueSize
  <2>1. queue' = Append(queue, cbM) /\ publishFailures' = publishFailures
    BY <1>6 DEF Enqueue
  <2>2. Unsettled' = Unsettled
    BY <1>2, <1>3, <1>4, <1>5, <2>1, Joins
  <2>3. QED
    BY <1>1, <2>1, <2>2, RelayStutter
<1>7. CASE ~(Len(queue) < PublishQueueSize)
  <2>1. queue' = queue /\ publishFailures' = publishFailures + 1
    BY <1>7 DEF Enqueue, Drop
  <2>2. Len(Unsettled) > PublishQueueSize
    <3>1. Len(Hand \o queue \o <<cbM>>) = Len(Hand) + Len(queue) + 1 /\ Len(Hand) \in Nat
          /\ Len(queue) \in Nat
      BY <1>2, <1>3
    <3>2. QED
      BY <1>4, <1>7, <3>1, QueueAssumption
  <2>3. Unsettled' = SubSeq(Unsettled, 1, Len(Unsettled) - 1)
    BY <1>2, <1>3, <1>4, <1>5, <2>1, Joins
  <2>4. QED
    BY <1>1, <2>1, <2>2, <2>3 DEF R!Refuse
<1>8. QED
  BY <1>6, <1>7

\* A measurement that cannot be encoded fails at once; else it moves to the publisher.
LEMMA RelayTake ==
  ASSUME TypeOK, Take
  PROVE  R!SettleFailed \/ UNCHANGED R!relayVars
<1>1. /\ pub = "select" /\ queue # << >> /\ queue' = Tail(queue)
      /\ UNCHANGED <<admitted, cb, cbM, broker, Kept, publishedTotal>>
      /\ Alive /\ Alive'
  BY DEF Take, Fail, frontVars, callbackVars, wireVars, runVars, outcomeVars, Kept, Alive
<1>2. /\ queue \in Seq(Measurement) /\ Call \in Seq(Measurement) /\ Call' = Call
      /\ Head(queue) \in Measurement
  <2>1. queue \in Seq(Measurement) /\ Call \in Seq(Measurement) /\ Call' = Call
    BY <1>1, Parts DEF Call
  <2>2. QED
    BY <1>1, <2>1
<1>3. Unsettled = << >> \o queue \o Call
  BY <1>1 DEF Unsettled, Call
<1>4. CASE Head(queue).kind = "nan"
  <2>1. pub' = "select" /\ publishFailures' = publishFailures + 1
    BY <1>4 DEF Take, Fail, BackToSelect
  <2>2. Unsettled' = << >> \o Tail(queue) \o Call
    BY <1>1, <1>2, <2>1 DEF Unsettled, Call
  <2>3. Unsettled' = Tail(Unsettled)
    BY <1>1, <1>2, <1>3, <2>2, Takes
  <2>4. Unsettled # << >>
    BY <1>1, <1>2, <1>3
  <2>5. QED
    BY <1>1, <2>1, <2>3, <2>4 DEF R!SettleFailed
<1>5. CASE Head(queue).kind # "nan"
  <2>1. pub' = "check" /\ pubM' = Head(queue) /\ publishFailures' = publishFailures
    BY <1>5 DEF Take, outcomeVars
  <2>2. Unsettled' = <<Head(queue)>> \o Tail(queue) \o Call
    BY <1>1, <1>2, <2>1 DEF Unsettled, Call
  <2>3. Unsettled' = Unsettled
    BY <1>1, <1>2, <1>3, <2>2, Takes
  <2>4. QED
    BY <1>1, <2>1, <2>3, RelayStutter
<1>6. QED
  BY <1>4, <1>5

\* What the publisher holds is the oldest without an outcome; its going back to the
\* select takes it out.
LEMMA Settling ==
  ASSUME TypeOK, pub \notin {"select", "done"}, pub' = "select",
         UNCHANGED <<callbackVars, queue>>
  PROVE  /\ Unsettled # << >> /\ Head(Unsettled) = pubM
         /\ Unsettled' = Tail(Unsettled)
<1>1. UNCHANGED <<cb, cbM, queue>>
  BY DEF callbackVars
<1>2. queue \in Seq(Measurement) /\ Call \in Seq(Measurement) /\ Call' = Call
  BY <1>1, Parts DEF Call
<1>3. pubM \in Measurement
  BY DEF TypeOK, PublisherType
<1>4. Unsettled = <<pubM>> \o queue \o Call
  BY DEF Unsettled, Call
<1>5. Unsettled' = << >> \o queue \o Call
  BY <1>1, <1>2 DEF Unsettled, Call
<1>6. Unsettled' = Tail(Unsettled) /\ Head(Unsettled) = pubM
  BY <1>2, <1>3, <1>4, <1>5, Takes
<1>7. Unsettled # << >>
  BY <1>2, <1>3, <1>4
<1>8. QED
  BY <1>6, <1>7

\* A call of Publish that returns settles its measurement; within it, nothing is seen.
LEMMA RelayPublisher ==
  ASSUME TypeOK, RelayInv,
         Quit \/ Check \/ BackoffOver \/ BackoffCancelled \/ TokenDone \/ TokenFailed
  PROVE  R!SettlePublished \/ R!SettleFailed \/ UNCHANGED R!relayVars
<1>1. UNCHANGED <<admitted, callbackVars, queue, broker, Kept>> /\ Alive /\ Alive'
  BY DEF Quit, Check, BackoffOver, BackoffCancelled, TokenDone, TokenFailed, Retry,
         LastAttemptFailed, frontVars, wireVars, runVars, Kept, Alive
<1>2. \/ /\ pub \notin {"select", "done"} /\ pub' \notin {"select", "done"}
         /\ UNCHANGED <<pubM, outcomeVars>>
      \/ pub = "select" /\ pub' = "done" /\ UNCHANGED outcomeVars
      \/ /\ pub \notin {"select", "done"} /\ pub' = "select"
         /\ publishFailures' = publishFailures + 1 /\ publishedTotal' = publishedTotal
      \/ /\ pub = "await" /\ pub' = "select" /\ TokenComplete
         /\ publishedTotal' = publishedTotal + 1 /\ publishFailures' = publishFailures
  BY DEF Quit, Check, BackoffOver, BackoffCancelled, TokenDone, TokenFailed, Retry,
         LastAttemptFailed, Fail, BackToSelect, outcomeVars
<1>3. CASE \/ /\ pub \notin {"select", "done"} /\ pub' \notin {"select", "done"}
              /\ UNCHANGED <<pubM, outcomeVars>>
           \/ pub = "select" /\ pub' = "done" /\ UNCHANGED outcomeVars
  <2>1. Unsettled' = Unsettled
    BY <1>1, <1>3 DEF Unsettled, callbackVars
  <2>2. QED
    BY <1>1, <1>3, <2>1, RelayStutter DEF outcomeVars
<1>4. CASE /\ pub \notin {"select", "done"} /\ pub' = "select"
           /\ publishFailures' = publishFailures + 1 /\ publishedTotal' = publishedTotal
  <2>1. Unsettled # << >> /\ Unsettled' = Tail(Unsettled)
    BY <1>1, <1>4, Settling
  <2>2. QED
    BY <1>1, <1>4, <2>1 DEF R!SettleFailed
<1>5. CASE /\ pub = "await" /\ pub' = "select" /\ TokenComplete
           /\ publishedTotal' = publishedTotal + 1 /\ publishFailures' = publishFailures
  <2>1. Unsettled # << >> /\ Head(Unsettled) = pubM /\ Unsettled' = Tail(Unsettled)
    BY <1>1, <1>5, Settling
  <2>2. QoS > 0 => Head(Unsettled) \in Kept \/ Has(pubM)
    BY <1>1, <1>5, <2>1 DEF TokenComplete, RelayInv, CompleteInv, KeptIn, Kept
  <2>3. PICK received : received = [i \in DOMAIN broker |-> broker[i].m]
    OBVIOUS
  <2>4. QoS > 0 =>
          \/ Head(Unsettled) \in Kept
          \/ \E i \in DOMAIN received : received[i] = Head(Unsettled)
    BY <2>1, <2>2, <2>3 DEF Has
  <2>5. QED
    BY <1>1, <1>5, <2>1, <2>3, <2>4 DEF R!SettlePublished
<1>6. QED
  BY <1>2, <1>3, <1>4, <1>5

\* What is handed over at QoS 1 is kept.
LEMMA RelaySend ==
  ASSUME TypeOK, Send
  PROVE  R!Keep \/ UNCHANGED R!relayVars
<1>1. /\ UNCHANGED <<admitted, callbackVars, queue, pubM, broker, publishedTotal, publishFailures>>
      /\ pub = "send" /\ pub' = "await"
      /\ Alive /\ Alive'
  BY DEF Send, frontVars, outcomeVars, runVars, Alive
<1> DEFINE x == [m |-> pubM, attempt |-> attempt, sent |-> now]
<1>2. x.m = pubM
  OBVIOUS
<1>3. store' = IF QoS > 0 THEN store \cup {x} ELSE store
  BY DEF Send
<1>4. UNCHANGED Unsettled
  BY <1>1 DEF Unsettled, callbackVars
<1>5. Unsettled # << >> /\ Head(Unsettled) = pubM
  <2>1. pubM \in Measurement /\ queue \in Seq(Measurement) /\ Call \in Seq(Measurement)
    BY <1>1, Parts DEF TypeOK, PublisherType
  <2>2. Unsettled = <<pubM>> \o queue \o Call
    BY <1>1 DEF Unsettled, Call
  <2>3. QED
    BY <2>1, <2>2, Takes
<1>6. Kept' = IF QoS > 0 THEN Kept \cup {pubM} ELSE Kept
  BY <1>2, <1>3 DEF Kept
<1>7. CASE QoS > 0
  BY <1>1, <1>4, <1>5, <1>6, <1>7 DEF R!Keep
<1>8. CASE ~(QoS > 0)
  BY <1>1, <1>4, <1>6, <1>8, RelayStutter
<1>9. QED
  BY <1>7, <1>8

\* With the process goes what the client kept.
LEMMA RelayEnd ==
  ASSUME Exit \/ \E d \in Devices, f \in Frames : Panic(d, f)
  PROVE  R!End
<1>1. /\ UNCHANGED <<admitted, cb, cbM, queue, pub, pubM, broker, publishedTotal, publishFailures>>
      /\ store' = {} /\ Alive /\ ~Alive'
  BY DEF Exit, Panic, Hear, frontVars, callbackVars, publisherVars, outcomeVars, Alive
<1>2. UNCHANGED Unsettled /\ Kept' = {}
  BY <1>1 DEF Unsettled, Kept
<1>3. QED
  BY <1>1, <1>2 DEF R!End

LEMMA SameCardinality == \A S : R!Cardinality(S) = Cardinality(S)
BY DEF R!Cardinality, Cardinality

\* A sequence of receipts, seen as the measurements received, grows with it.
LEMMA Renamed ==
  ASSUME NEW s \in Seq(Receipt), NEW r \in Receipt, NEW t, t = Append(s, r),
         NEW u, u = [i \in DOMAIN s |-> s[i].m]
  PROVE  [i \in DOMAIN t |-> t[i].m] = Append(u, r.m)
<1> DEFINE v == [i \in DOMAIN t |-> t[i].m]
           w == Append(u, r.m)
<1>1. /\ Len(s) \in Nat /\ DOMAIN s = 1..Len(s) /\ DOMAIN t = 1..(Len(s) + 1)
      /\ \A i \in 1..(Len(s) + 1) : t[i] = IF i = Len(s) + 1 THEN r ELSE s[i]
  OBVIOUS
<1>2. u \in Seq(Measurement) /\ Len(u) = Len(s) /\ r.m \in Measurement
  <2>1. \A q \in Receipt : q.m \in Measurement
    BY DEF Receipt
  <2>2. \A i \in 1..Len(s) : s[i].m \in Measurement
    BY <2>1
  <2>3. QED
    BY <1>1, <2>1, <2>2
<1>3. /\ w \in Seq(Measurement) /\ Len(w) = Len(s) + 1
      /\ \A i \in 1..(Len(s) + 1) : w[i] = IF i = Len(s) + 1 THEN r.m ELSE u[i]
  BY <1>2
<1>4. v \in Seq(Measurement) /\ Len(v) = Len(s) + 1
  <2>1. \A q \in Receipt : q.m \in Measurement
    BY DEF Receipt
  <2>2. \A i \in 1..(Len(s) + 1) : t[i].m \in Measurement
    BY <1>1, <2>1
  <2>3. QED
    BY <1>1, <2>2
<1>5. \A i \in 1..(Len(s) + 1) : v[i] = w[i]
  BY <1>1, <1>3
<1>6. QED
  BY <1>3, <1>4, <1>5, SeqEqual

\* The answer to a message ends the keeping of its measurement, or of one message of
\* several.
LEMMA Answered ==
  ASSUME NEW x, store' = store \/ store' = store \ {x}
  PROVE  Kept' \in {Kept, Kept \ {x.m}}
<1>1. CASE store' = store
  BY <1>1 DEF Kept
<1>2. CASE store' = store \ {x} /\ \E y \in store \ {x} : y.m = x.m
  BY <1>2 DEF Kept
<1>3. CASE store' = store \ {x} /\ ~\E y \in store \ {x} : y.m = x.m
  <2>1. Kept' = Kept \ {x.m}
    BY <1>3 DEF Kept
  <2>2. QED
    BY <2>1
<1>4. QED
  BY <1>1, <1>2, <1>3

\* At QoS 0 what arrives is no older than all that arrived, and is within its
\* attempts.
LEMMA InOrderArrival ==
  ASSUME TypeOK, OrderInv, CopiesInv, outbox # << >>,
         NEW received, received = [i \in DOMAIN broker |-> broker[i].m]
  PROVE  /\ \A i \in DOMAIN received : received[i].id <= outbox[1].m.id
         /\ Cardinality({i \in DOMAIN received : received[i] = outbox[1].m})
              < PublishRetries + 1
<1>1. PICK x \in Message : x = outbox[1] /\ 1 \in DOMAIN outbox
  BY Numbers
<1>2. \A i \in DOMAIN received : received[i].id <= x.m.id
  BY <1>1 DEF OrderInv
<1>3. Cardinality({i \in DOMAIN received : received[i] = x.m}) < PublishRetries + 1
  <2>1. {i \in DOMAIN received : received[i] = x.m} = {i \in DOMAIN broker : broker[i].m = x.m}
    OBVIOUS
  <2>2. Cardinality({i \in DOMAIN received : received[i] = x.m}) = Received(x.m)
    BY <2>1 DEF Received, CopiesIn
  <2>3. Received(x.m) <= x.attempt
    BY <1>1 DEF CopiesInv
  <2>4. x.attempt \in Nat /\ x.attempt <= PublishRetries /\ Received(x.m) \in Nat
    BY ReceivedType, QueueAssumption DEF Message
  <2>5. QED
    BY <2>2, <2>3, <2>4, QueueAssumption
<1>4. QED
  BY <1>1, <1>2, <1>3

\* What arrives is received; what is lost, or sent again, is not seen.
LEMMA RelayNetwork ==
  ASSUME TypeOK, RelayInv, QoS = 0 => OrderInv /\ CopiesInv, NetworkStep
  PROVE  R!RelayNext \/ UNCHANGED R!relayVars
<1>1. /\ UNCHANGED <<admitted, Unsettled, publishedTotal, publishFailures, Alive>>
      /\ outbox \in Seq(Message) /\ broker \in Seq(Receipt)
  BY Numbers
  DEF NetworkStep, Deliver, Lose, Resume, frontVars, callbackVars, publisherVars, outcomeVars,
      runVars, Unsettled, Alive
<1>2. CASE Lose \/ \E x \in store : Resume(x)
  <2>1. broker' = broker /\ store' = store
    BY <1>2 DEF Lose, Resume
  <2>2. QED
    BY <1>1, <2>1, RelayStutter DEF Kept
<1>3. CASE Deliver
  <2>1. PICK x \in Message : x = outbox[1] /\ x = Head(outbox) /\ outbox # << >>
    BY <1>1, <1>3 DEF Deliver
  <2>2. PICK r \in Receipt : r = [m |-> x.m, sent |-> x.sent] /\ r.m = x.m
    <3>1. [m |-> x.m, sent |-> x.sent] \in Receipt
      BY DEF Message, Receipt
    <3>2. QED
      BY <3>1
  <2>3. PICK m : m = x.m /\ m = r.m
    BY <2>2
  <2>4. broker' = Append(broker, r)
    BY <1>3, <2>1, <2>2 DEF Deliver
  <2>5. 1 \in DOMAIN outbox
    BY <1>1, <2>1
  <2>6. PICK received : received = [i \in DOMAIN broker |-> broker[i].m]
    OBVIOUS
  <2>7. QoS = 0 =>
          /\ \A i \in DOMAIN received : received[i].id <= m.id
          /\ Cardinality({i \in DOMAIN received : received[i] = m}) < PublishRetries + 1
    BY <2>1, <2>3, <2>6, InOrderArrival
  <2>8. [i \in DOMAIN broker' |-> broker'[i].m] = Append(received, m)
    BY <1>1, <2>3, <2>4, <2>6, Renamed
  <2>9. Kept' \in {Kept, Kept \ {m}}
    <3>1. store' = store \/ store' = store \ {x}
      BY <1>3, <2>1 DEF Deliver, Acknowledge
    <3>2. QED
      BY <2>3, <3>1, Answered
  <2>10. ~(QoS > 0) => R!InOrder(m)
    BY <2>6, <2>7, SameCardinality, ConfigAssumption DEF R!InOrder
  <2>11. m \in admitted
    BY <2>1, <2>3, <2>5 DEF RelayInv, Placed
  <2>12. R!Receive(m)
    BY <1>1, <2>6, <2>8, <2>9, <2>10 DEF R!Receive
  <2>13. QED
    BY <2>11, <2>12 DEF R!RelayNext
<1>4. QED
  BY <1>2, <1>3 DEF NetworkStep

LEMMA RelayStep ==
  ASSUME TypeOK, TypeOK', AdmissionInv, AdmissionInv', RelayInv,
         QoS = 0 => OrderInv /\ CopiesInv, [Next]_vars
  PROVE  [R!RelayNext]_(R!relayVars)
<1>1. ASSUME NEW d \in Devices, NEW f \in Frames, Admit(d, f) PROVE R!RelayNext
  BY <1>1, RelayAccept
<1>2. CASE \/ \E d \in Devices :
                \/ Ignore(d)
                \/ \E f \in Frames : Suppress(d, f) \/ RateLimit(d, f) \/ Reject(d, f)
           \/ Announce \/ Announced \/ AnnounceFailed
           \/ Tick \/ Cancel \/ ScanReturns \/ ProbesAnswered \/ Stopped
           \/ UNCHANGED vars
  <2>1. /\ UNCHANGED <<admitted, cbM, queue, pub, pubM, broker, store, Alive, outcomeVars>>
        /\ cb' = "idle" <=> cb = "idle"
    <3>1. CASE \E d \in Devices :
                 \/ Ignore(d)
                 \/ \E f \in Frames : Suppress(d, f) \/ RateLimit(d, f) \/ Reject(d, f)
      BY <3>1
      DEF Ignore, Suppress, RateLimit, Reject, Allow, Hear, callbackVars, publisherVars,
          wireVars, runVars, Alive
    <3>2. CASE Announce \/ Announced \/ AnnounceFailed
      BY <3>2
      DEF Announce, Announced, AnnounceFailed, GiveUpDiscovery, frontVars, publisherVars,
          wireVars, runVars, Alive
    <3>3. CASE Tick \/ Cancel \/ ScanReturns \/ ProbesAnswered \/ Stopped \/ UNCHANGED vars
      BY <3>3
      DEF Tick, Cancel, ScanReturns, ProbesAnswered, Stopped, frontVars, callbackVars,
          publisherVars, wireVars, runVars, vars, Alive
    <3>4. QED
      BY <1>2, <3>1, <3>2, <3>3
  <2>2. QED
    BY <2>1, RelayStutter DEF Unsettled, Kept, outcomeVars
<1>3. CASE Exit \/ \E d \in Devices, f \in Frames : Panic(d, f)
  BY <1>3, RelayEnd DEF R!RelayNext
<1>4. CASE Enqueue
  BY <1>4, RelayEnqueue DEF R!RelayNext
<1>5. CASE Take
  BY <1>5, RelayTake DEF R!RelayNext
<1>6. CASE Quit \/ Check \/ BackoffOver \/ BackoffCancelled \/ TokenDone \/ TokenFailed
  BY <1>6, RelayPublisher DEF R!RelayNext
<1>7. CASE Send
  BY <1>7, RelaySend DEF R!RelayNext
<1>8. CASE NetworkStep
  BY <1>8, RelayNetwork
<1>9. QED
  BY <1>1, <1>2, <1>3, <1>4, <1>5, <1>6, <1>7, <1>8
  DEF Next, FrontStep, CallbackStep, PublisherStep, RunStep

\* The callback, the queue, the retry loop, the client's resending and the shutdown
\* of ruuvihome together implement the relay: whatever the traffic, the intervals,
\* the capacity of the queue and the number of retries, at QoS 0 and at QoS 1.
THEOREM RelayImplemented == Spec => ImplementsRelay
<1> DEFINE InOrder == QoS = 0 => OrderInv /\ CopiesInv
<1>1. Init => R!RelayInit
  BY DEF Init, R!RelayInit, Unsettled, Kept, Alive
<1>2. Init => InOrder
  BY OrderInit, CopiesInit
<1>3. TypeOK /\ StoreInv /\ InOrder /\ [Next]_vars => InOrder'
  BY OrderStep, CopiesStep DEF StoreInv
<1>4. TypeOK /\ TypeOK' /\ AdmissionInv /\ AdmissionInv' /\ RelayInv /\ InOrder /\ [Next]_vars
        => [R!RelayNext]_(R!relayVars)
  BY RelayStep
<1> HIDE DEF InOrder
<1>5. QED
  BY <1>1, <1>2, <1>3, <1>4, RelayInvInit, RelayInvStep, TypeCorrect, StoreCorrect,
     AdmissionCorrect, PTL
  DEF Spec, ImplementsRelay, R!RelaySpec
=============================================================================
