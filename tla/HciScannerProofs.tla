-------------------------- MODULE HciScannerProofs --------------------------
(* Type correctness of HciScanner, and its bounds on time.                 *)
EXTENDS HciScanner, TLAPS

LEMMA InputStep == InputType /\ [Next]_vars => InputType'
<1> SUFFICES ASSUME InputType, [Next]_vars PROVE InputType'
  OBVIOUS
<1>1. socket \in Seq(Packet) /\ batch \in Seq(Reports)
  BY DEF InputType
<1>2. CASE UNCHANGED <<socket, batch>> \/ Close
  <2>1. <<>> \in Seq(Packet) /\ <<>> \in Seq(Reports)
    OBVIOUS
  <2>2. socket' = socket \/ socket' = <<>>
    BY <1>2 DEF Close
  <2>3. batch' = batch \/ batch' = <<>>
    BY <1>2 DEF Close
  <2>4. QED
    BY <1>1, <2>1, <2>2, <2>3 DEF InputType
<1>3. CASE ReadSkips \/ ReadEvent
  <2>1. socket # <<>> /\ socket' = Tail(socket)
    BY <1>3 DEF ReadSkips, ReadEvent
  <2>2. batch' = batch \/ batch' = Head(socket).reports
    BY <1>3 DEF ReadSkips, ReadEvent
  <2>3. socket' \in Seq(Packet) /\ Head(socket) \in Packet
    BY <1>1, <2>1
  <2>4. Head(socket).reports \in Seq(Reports)
    BY <2>3 DEF Packet
  <2>5. QED
    BY <1>1, <2>2, <2>3, <2>4 DEF InputType
<1>4. CASE NextReport
  <2>1. batch # <<>> /\ batch' = Tail(batch) /\ socket' = socket
    BY <1>4 DEF NextReport
  <2>2. QED
    BY <1>1, <2>1 DEF InputType
<1>5. ASSUME NEW p \in Packets, Arrive(p)
      PROVE  InputType'
  <2>1. socket' = Append(socket, p) /\ batch' = batch
    BY <1>5 DEF Arrive
  <2>2. p \in Packet
    BY PacketAssumption
  <2>3. QED
    BY <1>1, <2>1, <2>2 DEF InputType
<1>6. CASE Begin \/ Return \/ Wake \/ SetupSucceeds \/ HandlerReturns
  BY <1>2, <1>6 DEF Begin, Return, Wake, SetupSucceeds, HandlerReturns, sessionVars
<1>7. CASE SetupFails \/ ReadFails \/ LoopHead \/ ReadTimesOut \/ EventDone
  BY <1>2, <1>7
  DEF SetupFails, ReadFails, LoopHead, ReadTimesOut, EventDone, Watchdog, sessionVars
<1>8. CASE Stick \/ Unplug \/ Recover \/ Cancel \/ Tick \/ Returned \/ UNCHANGED vars
  BY <1>2, <1>8 DEF Stick, Unplug, Recover, Cancel, Tick, Returned, vars, sessionVars
<1>9. QED
  BY <1>3, <1>4, <1>5, <1>6, <1>7, <1>8 DEF Next, ScannerStep, AdapterStep

LEMMA ControlStep == ControlType /\ [Next]_vars => ControlType'
<1> SUFFICES ASSUME ControlType, [Next]_vars PROVE ControlType'
  OBVIOUS
<1> USE TimeAssumption DEF ControlType, sessionVars, adapterVars, historyVars, cancelVars
<1>1. CASE Begin \/ Return \/ Wake
  BY <1>1 DEF Begin, Return, Wake
<1>2. CASE SetupFails \/ ReadFails
  BY <1>2 DEF SetupFails, ReadFails, Restart, Close
<1>3. CASE SetupSucceeds \/ LoopHead
  <2>1. CASE SetupSucceeds
    BY <2>1 DEF SetupSucceeds
  <2>2. CASE LoopHead
    BY <2>2 DEF LoopHead, Close
  <2>3. QED
    BY <1>3, <2>1, <2>2
<1>4. CASE ReadTimesOut \/ EventDone
  BY <1>4 DEF ReadTimesOut, EventDone, Watchdog, Restart, Close
<1>5. CASE ReadSkips \/ ReadEvent \/ HandlerReturns
  BY <1>5 DEF ReadSkips, ReadEvent, HandlerReturns
<1>6. CASE NextReport
  BY <1>6 DEF NextReport, Heard, Patience
<1>7. ASSUME NEW p \in Packets, Arrive(p)
      PROVE  ControlType'
  <2>1. fresh' \in BOOLEAN
    BY <1>7 DEF Arrive
  <2>2. UNCHANGED <<pc, left, quiet, skipped, err, adapter, dead, newest, held, cancelled,
                   since>>
    BY <1>7 DEF Arrive
  <2>3. QED
    BY <2>1, <2>2
<1>8. CASE Stick \/ Unplug \/ Recover \/ Cancel
  BY <1>8 DEF Stick, Unplug, Recover, Cancel, Smaller
<1>9. CASE Tick
  <2>1. newest' \in 0..(Silence + 1)
    BY <1>9 DEF Tick, Smaller
  <2>2. left' \in Nat /\ quiet' \in Nat /\ since' \in Nat /\ held' \in Nat
    BY <1>9 DEF Tick, Waiting
  <2>3. fresh' = FALSE /\ UNCHANGED <<pc, skipped, err, adapter, dead, cancelled>>
    BY <1>9 DEF Tick
  <2>4. QED
    BY <2>1, <2>2, <2>3
<1>10. CASE Returned \/ UNCHANGED vars
  BY <1>10 DEF Returned, vars
<1>11. QED
  BY <1>1, <1>2, <1>3, <1>4, <1>5, <1>6, <1>7, <1>8, <1>9, <1>10
  DEF Next, ScannerStep, AdapterStep

\* The types of the scanner hold: no timer runs below zero, the error is one of those
\* a session can return.
THEOREM TypeCorrect == Spec => []TypeOK
<1>1. Init => TypeOK
  <2>1. Init => InputType
    <3>1. <<>> \in Seq(Packet) /\ <<>> \in Seq(Reports)
      OBVIOUS
    <3>2. QED
      BY <3>1 DEF Init, InputType
  <2>2. Init => ControlType
    <3>1. Silence + 1 \in 0..(Silence + 1)
      BY TimeAssumption
    <3>2. Init => newest \in 0..(Silence + 1)
      BY <3>1 DEF Init
    <3>3. Init => dead \in BOOLEAN /\ fresh \in BOOLEAN /\ cancelled \in BOOLEAN
      BY DEF Init
    <3>4. QED
      BY <3>2, <3>3 DEF Init, ControlType
  <2>3. QED
    BY <2>1, <2>2 DEF TypeOK
<1>2. TypeOK /\ [Next]_vars => TypeOK'
  BY InputStep, ControlStep DEF TypeOK
<1>3. QED
  BY <1>1, <1>2, PTL DEF Spec
-----------------------------------------------------------------------------
(* A signal ends Start within its longest wait.                            *)

\* No wait begins once the context is cancelled; the one under way is no longer
\* than the longest of them.
ShutdownInv ==
  /\ pc = "setup" => left <= SetupMax
  /\ pc = "read" => left <= ReadTimeout
  /\ pc = "sleep" => left <= RestartDelay
  /\ pc \notin {"setup", "read", "sleep", "handle"} => left = 0
  /\ ~cancelled => since = 0
  /\ cancelled /\ pc # "returned" => since + left <= ShutdownMax

LEMMA LongestWait ==
  /\ ShutdownMax \in Nat
  /\ RestartDelay <= ShutdownMax /\ SetupMax <= ShutdownMax
  /\ ReadTimeout <= ShutdownMax /\ TokenMax <= ShutdownMax
BY TimeAssumption DEF ShutdownMax, Larger

LEMMA ShutdownStep == TypeOK /\ ShutdownInv /\ [Next]_vars => ShutdownInv'
<1> SUFFICES ASSUME TypeOK, ShutdownInv, [Next]_vars PROVE ShutdownInv'
  OBVIOUS
<1>t. /\ left \in Nat /\ since \in Nat /\ cancelled \in BOOLEAN
      /\ SetupMax \in Nat /\ ReadTimeout \in Nat /\ RestartDelay \in Nat /\ TokenMax \in Nat
  BY TimeAssumption DEF TypeOK, ControlType
<1> DEFINE M == ShutdownMax
<1>m. /\ M \in Nat /\ RestartDelay <= M /\ SetupMax <= M /\ ReadTimeout <= M /\ TokenMax <= M
      /\ M' = M
  BY LongestWait DEF ShutdownMax
<1> HIDE DEF M
<1>i. cancelled /\ pc # "returned" => since + left <= M
  BY DEF ShutdownInv, M
<1>s. SUFFICES /\ pc' = "setup" => left' <= SetupMax
               /\ pc' = "read" => left' <= ReadTimeout
               /\ pc' = "sleep" => left' <= RestartDelay
               /\ pc' \notin {"setup", "read", "sleep", "handle"} => left' = 0
               /\ ~cancelled' => since' = 0
               /\ cancelled' /\ pc' # "returned" => since' + left' <= M
  BY <1>m DEF ShutdownInv, M
<1>1. CASE Begin \/ Return \/ Wake
  BY <1>1, <1>t, <1>m, <1>i DEF ShutdownInv, Begin, Return, Wake, cancelVars
<1>2. CASE SetupFails \/ ReadFails \/ ReadTimesOut \/ EventDone
  BY <1>2, <1>t, <1>m, <1>i
  DEF ShutdownInv, SetupFails, ReadFails, ReadTimesOut, EventDone, Watchdog, Restart,
      cancelVars
<1>3. CASE SetupSucceeds \/ LoopHead
  BY <1>3, <1>t, <1>m, <1>i DEF ShutdownInv, SetupSucceeds, LoopHead, cancelVars
<1>4. CASE ReadSkips \/ ReadEvent \/ HandlerReturns
  BY <1>4, <1>t, <1>m, <1>i DEF ShutdownInv, ReadSkips, ReadEvent, HandlerReturns, cancelVars
<1>5. CASE NextReport
  BY <1>5, <1>t, <1>m, <1>i DEF ShutdownInv, NextReport, Patience, cancelVars
<1>6. CASE AdapterStep
  BY <1>6, <1>t, <1>m, <1>i
  DEF ShutdownInv, AdapterStep, Stick, Unplug, Recover, Arrive, cancelVars
<1>7. CASE Cancel
  BY <1>7, <1>t, <1>m, <1>i DEF ShutdownInv, Cancel, Smaller
<1>8. CASE Tick
  BY <1>8, <1>t, <1>m, <1>i DEF ShutdownInv, Tick, Waiting
<1>9. CASE Returned \/ UNCHANGED vars
  BY <1>9, <1>i DEF ShutdownInv, Returned, vars, cancelVars
<1>10. QED
  BY <1>1, <1>2, <1>3, <1>4, <1>5, <1>6, <1>7, <1>8, <1>9 DEF Next, ScannerStep

\* From the signal to the return of Start passes at most the longest single wait.
THEOREM ShutdownHolds == Spec => []ShutdownBounded
<1>1. Init => ShutdownInv
  BY DEF Init, ShutdownInv
<1>2. TypeOK /\ ShutdownInv => ShutdownBounded
  BY LongestWait DEF TypeOK, ControlType, ShutdownInv, ShutdownBounded
<1>3. QED
  BY <1>1, <1>2, ShutdownStep, TypeCorrect, PTL DEF Spec
-----------------------------------------------------------------------------
(* The watchdog is in time.                                                *)

\* How long a session may have been quiet at the watchdog's next look, when it
\* was last looked at n packets ago.
Patient(n) == Silence + ReadTimeout * n

SilenceInv ==
  /\ ~Scanning => skipped = 0
  /\ pc = "loop" => quiet <= Patient(skipped)
  /\ pc = "read" => quiet + left <= Patient(skipped + 1)
  /\ pc = "handle" => quiet + left <= HandlerMax
  /\ pc = "reports" => quiet <= Larger(HandlerMax, Patient(skipped + 1))

LEMMA Patience1 ==
  ASSUME NEW n \in Nat
  PROVE  Patient(n) \in Nat /\ Patient(n + 1) = Patient(n) + ReadTimeout /\ Silence <= Patient(n)
<1>1. ReadTimeout \in Nat /\ ReadTimeout * n \in Nat /\ Silence \in Nat
  BY TimeAssumption
<1>2. ReadTimeout * (n + 1) = ReadTimeout * n + ReadTimeout
  BY <1>1
<1>3. QED
  BY <1>1, <1>2 DEF Patient

LEMMA SilenceStep == TypeOK /\ SilenceInv /\ [Next]_vars => SilenceInv'
<1> SUFFICES ASSUME TypeOK, SilenceInv, [Next]_vars PROVE SilenceInv'
  OBVIOUS
<1>t. /\ left \in Nat /\ quiet \in Nat /\ skipped \in Nat
      /\ Silence \in Nat /\ HandlerMax \in Nat /\ ReadTimeout \in Nat
  BY TimeAssumption DEF TypeOK, ControlType
<1>p. /\ Patient(skipped) \in Nat /\ Silence <= Patient(skipped)
      /\ Patient(skipped + 1) = Patient(skipped) + ReadTimeout
      /\ Patient(0) = Silence
  BY <1>t, Patience1 DEF Patient
<1>1. CASE Begin \/ Return \/ Wake
  BY <1>1 DEF SilenceInv, Scanning, Begin, Return, Wake, sessionVars
<1>2. CASE SetupFails \/ ReadFails
  BY <1>2 DEF SilenceInv, Scanning, SetupFails, ReadFails, Restart, Close
<1>3. CASE SetupSucceeds
  BY <1>3, <1>t, <1>p DEF SilenceInv, Scanning, SetupSucceeds
<1>4. CASE LoopHead
  <2>1. CASE cancelled
    BY <1>4, <2>1 DEF SilenceInv, Scanning, LoopHead, Close
  <2>2. CASE ~cancelled
    <3>1. pc' = "read" /\ left' = ReadTimeout /\ quiet' = quiet /\ skipped' = skipped
      BY <1>4, <2>2 DEF LoopHead, sessionVars
    <3>2. quiet <= Patient(skipped)
      BY <1>4 DEF LoopHead, SilenceInv
    <3>3. quiet' + left' <= Patient(skipped' + 1)
      BY <1>t, <1>p, <3>1, <3>2
    <3>4. QED
      BY <3>1, <3>3 DEF SilenceInv, Scanning, Patient
  <2>3. QED
    BY <2>1, <2>2
<1>5. CASE ReadTimesOut \/ EventDone
  <2>1. CASE Overdue
    BY <1>5, <2>1
    DEF SilenceInv, Scanning, ReadTimesOut, EventDone, Watchdog, Restart, Close
  <2>2. CASE ~Overdue
    <3>1. pc' = "loop" /\ skipped' = 0 /\ quiet' = quiet
      BY <1>5, <2>2 DEF ReadTimesOut, EventDone, Watchdog
    <3>2. quiet' <= Patient(skipped')
      BY <1>t, <1>p, <2>2, <3>1 DEF Overdue
    <3>3. QED
      BY <3>1, <3>2 DEF SilenceInv, Scanning, Patient
  <2>3. QED
    BY <2>1, <2>2
<1>6. CASE ReadSkips
  <2>1. pc = "read" /\ pc' = "loop" /\ skipped' = skipped + 1 /\ quiet' = quiet
    BY <1>6 DEF ReadSkips
  <2>2. quiet' <= Patient(skipped')
    BY <1>t, <1>p, <2>1 DEF SilenceInv
  <2>3. QED
    BY <2>1, <2>2 DEF SilenceInv, Scanning, Patient
<1>7. CASE ReadEvent
  <2>1. pc = "read" /\ pc' = "reports" /\ skipped' = skipped /\ quiet' = quiet
    BY <1>7 DEF ReadEvent
  <2>2. quiet' <= Larger(HandlerMax, Patient(skipped' + 1))
    BY <1>t, <1>p, <2>1 DEF SilenceInv, Larger
  <2>3. QED
    BY <2>1, <2>2 DEF SilenceInv, Scanning, Patient
<1>8. CASE NextReport
  <2>1. CASE Head(batch) = "ruuvi"
    <3>1. pc' = "handle" /\ quiet' = 0 /\ (left' = 0 \/ left' = HandlerMax)
      BY <1>8, <2>1, <1>t DEF NextReport, Heard, Patience
    <3>2. quiet' + left' <= HandlerMax
      BY <1>t, <3>1
    <3>3. QED
      BY <3>1, <3>2 DEF SilenceInv, Scanning
  <2>2. CASE Head(batch) # "ruuvi"
    BY <1>8, <2>2 DEF NextReport, SilenceInv, Scanning, Patient
  <2>3. QED
    BY <2>1, <2>2
<1>9. CASE HandlerReturns
  <2>1. pc = "handle" /\ pc' = "reports" /\ quiet' = quiet /\ skipped' = skipped
    BY <1>9 DEF HandlerReturns, sessionVars
  <2>2. quiet' <= Larger(HandlerMax, Patient(skipped' + 1))
    BY <1>t, <1>p, <2>1 DEF SilenceInv, Larger
  <2>3. QED
    BY <2>1, <2>2 DEF SilenceInv, Scanning, Patient
<1>10. CASE AdapterStep \/ Returned \/ UNCHANGED vars
  BY <1>10
  DEF AdapterStep, Stick, Unplug, Recover, Arrive, Returned, vars, SilenceInv, Scanning,
      sessionVars, Patient
<1>11. CASE Cancel
  <2>1. /\ pc' = pc /\ quiet' = quiet /\ skipped' = skipped
        /\ pc = "read" => left' = left
        /\ left' = left \/ (left' = TokenMax /\ TokenMax <= left /\ TokenMax \in Nat)
    BY <1>11, <1>t, TimeAssumption DEF Cancel, Smaller, sessionVars
  <2>2. pc = "handle" => quiet' + left' <= HandlerMax
    <3>1. SUFFICES ASSUME pc = "handle" PROVE quiet + left' <= HandlerMax
      BY <2>1
    <3>2. quiet + left <= HandlerMax
      BY <3>1 DEF SilenceInv
    <3>3. QED
      BY <1>t, <2>1, <3>2
  <2>3. pc = "read" => quiet' + left' = quiet + left
    BY <1>t, <2>1
  <2>4. QED
    BY <2>1, <2>2, <2>3 DEF SilenceInv, Scanning, Patient
<1>12. CASE Tick
  <2>1. UNCHANGED <<pc, skipped>> /\ left' = left - 1 /\ pc \notin {"loop", "reports"}
        /\ quiet' = (IF Scanning THEN quiet + 1 ELSE quiet)
    BY <1>12 DEF Tick, Waiting
  <2>2. QED
    BY <1>t, <1>p, <2>1 DEF SilenceInv, Scanning, Patient
<1>13. QED
  BY <1>1, <1>2, <1>3, <1>4, <1>5, <1>6, <1>7, <1>8, <1>9, <1>10, <1>11, <1>12
  DEF Next, ScannerStep

THEOREM SilenceCorrect == Spec => []SilenceInv
<1>1. Init => SilenceInv
  BY DEF Init, SilenceInv, Scanning
<1>2. QED
  BY <1>1, SilenceStep, TypeCorrect, PTL DEF Spec

\* No session goes on without a Ruuvi report for longer than the silence timeout,
\* the reads that put the watchdog off, or one long callback.
THEOREM SilenceHolds == Spec => []SilenceNoticed
<1>1. TypeOK /\ SilenceInv => SilenceNoticed
  <2> SUFFICES ASSUME TypeOK, SilenceInv PROVE SilenceNoticed
    OBVIOUS
  <2>1. /\ left \in Nat /\ quiet \in Nat /\ skipped \in Nat /\ HandlerMax \in Nat
        /\ ReadTimeout \in Nat
    BY TimeAssumption DEF TypeOK, ControlType
  <2>2. Patient(skipped) \in Nat /\ Patient(skipped + 1) = Patient(skipped) + ReadTimeout
    BY <2>1, Patience1
  <2>3. Scanning => quiet <= Larger(HandlerMax, Patient(skipped + 1))
    BY <2>1, <2>2 DEF SilenceInv, Scanning, Larger
  <2>4. QED
    BY <2>3 DEF SilenceNoticed, Patient
<1>2. QED
  BY <1>1, SilenceCorrect, TypeCorrect, PTL
-----------------------------------------------------------------------------
(* The watchdog does not cry wolf, unless a callback outlasts it.           *)

HasRuuvi(reports) == \E i \in DOMAIN reports : reports[i] = "ruuvi"

\* A Ruuvi report has arrived and has not been looked at.
Pending ==
  \/ HasRuuvi(batch)
  \/ \E i \in DOMAIN socket : socket[i].event /\ HasRuuvi(socket[i].reports)

\* The last report that arrived is seen by the watchdog, or old, or pending.
\* Reports are pending only behind a callback, which has lasted since the last one
\* that was looked at.
AlarmInv ==
  /\ batch # <<>> => pc \in {"reports", "handle"}
  /\ pc = "handle" => quiet = held
  /\ Scanning => newest >= quiet \/ newest > Silence \/ (Pending /\ quiet <= held)
  /\ Scanning /\ fresh => Pending \/ quiet = 0

\* What is pending stays pending until it is looked at.
LEMMA PendingKept ==
  ASSUME InputType, Pending,
         \/ UNCHANGED <<socket, batch>>
         \/ ReadSkips
         \/ ReadEvent /\ batch = <<>>
         \/ NextReport /\ Head(batch) # "ruuvi"
         \/ \E p \in Packets : Arrive(p)
  PROVE  Pending'
<1>t. socket \in Seq(Packet) /\ batch \in Seq(Reports)
  BY DEF InputType
<1>1. CASE UNCHANGED <<socket, batch>>
  BY <1>1 DEF Pending, HasRuuvi
<1>2. CASE ReadSkips \/ (ReadEvent /\ batch = <<>>)
  <2>1. /\ socket # <<>> /\ socket' = Tail(socket) /\ Head(socket) = socket[1]
        /\ (~socket[1].event /\ batch' = batch) \/ (batch = <<>> /\ batch' = socket[1].reports)
    BY <1>2 DEF ReadSkips, ReadEvent
  <2>2. \A i \in DOMAIN socket : i # 1 => i - 1 \in DOMAIN socket' /\ socket'[i - 1] = socket[i]
    BY <1>t, <2>1
  <2>3. CASE HasRuuvi(batch)
    <3>1. batch' = batch
      BY <2>1, <2>3 DEF HasRuuvi
    <3>2. QED
      BY <2>3, <3>1 DEF Pending
  <2>4. ASSUME NEW i \in DOMAIN socket, socket[i].event, HasRuuvi(socket[i].reports)
        PROVE  Pending'
    <3>1. CASE i = 1
      <4>1. batch' = socket[1].reports
        BY <2>1, <2>4, <3>1
      <4>2. HasRuuvi(batch')
        BY <2>4, <3>1, <4>1
      <4>3. QED
        BY <4>2 DEF Pending, HasRuuvi
    <3>2. CASE i # 1
      <4>1. i - 1 \in DOMAIN socket' /\ socket'[i - 1] = socket[i]
        BY <2>2, <3>2
      <4>2. QED
        BY <2>4, <4>1 DEF Pending, HasRuuvi
    <3>3. QED
      BY <3>1, <3>2
  <2>5. QED
    BY <2>3, <2>4 DEF Pending
<1>3. CASE NextReport /\ Head(batch) # "ruuvi"
  <2>1. /\ batch # <<>> /\ batch' = Tail(batch) /\ socket' = socket
        /\ batch[1] # "ruuvi"
    BY <1>3, <1>t DEF NextReport
  <2>2. \A i \in DOMAIN batch : i # 1 => i - 1 \in DOMAIN batch' /\ batch'[i - 1] = batch[i]
    BY <1>t, <2>1
  <2>3. HasRuuvi(batch) => HasRuuvi(batch')
    BY <2>1, <2>2 DEF HasRuuvi
  <2>4. QED
    BY <2>1, <2>3 DEF Pending, HasRuuvi
<1>4. ASSUME NEW p \in Packets, Arrive(p)
      PROVE  Pending'
  <2>1. socket' = Append(socket, p) /\ batch' = batch /\ p \in Packet
    BY <1>4, PacketAssumption DEF Arrive
  <2>2. \A i \in DOMAIN socket : i \in DOMAIN socket' /\ socket'[i] = socket[i]
    BY <1>t, <2>1
  <2>3. QED
    BY <2>1, <2>2 DEF Pending, HasRuuvi
<1>5. QED
  BY <1>1, <1>2, <1>3, <1>4

\* A report that has just arrived is pending.
LEMMA FreshPending ==
  ASSUME InputType, NEW p \in Packets, Arrive(p), ~fresh, fresh'
  PROVE  Pending'
<1>1. socket \in Seq(Packet) /\ socket' = Append(socket, p) /\ p \in Packet
  BY PacketAssumption DEF InputType, Arrive
<1>2. p.event /\ HasRuuvi(p.reports)
  BY DEF Arrive, HasRuuvi
<1>3. Len(socket) + 1 \in DOMAIN socket' /\ socket'[Len(socket) + 1] = p
  BY <1>1
<1>4. QED
  BY <1>2, <1>3 DEF Pending, HasRuuvi

LEMMA AlarmStep == TypeOK /\ AlarmInv /\ [Next]_vars => AlarmInv'
<1> SUFFICES ASSUME TypeOK, AlarmInv, [Next]_vars PROVE AlarmInv'
  OBVIOUS
<1>t. /\ left \in Nat /\ quiet \in Nat /\ newest \in Nat /\ fresh \in BOOLEAN
      /\ Silence \in Nat /\ held \in Nat /\ InputType
  BY TimeAssumption DEF TypeOK, ControlType
<1>k. ASSUME pc' = pc \/ (Scanning => Scanning'), Scanning' => Scanning,
             batch' # <<>> => pc' \in {"reports", "handle"},
             pc' = "handle" => pc = "handle",
             UNCHANGED <<quiet, newest, held>>,
             Pending => Pending',
             fresh' => fresh \/ Pending'
      PROVE  AlarmInv'
  BY <1>k, <1>t DEF AlarmInv
<1>o. ASSUME ~Scanning', batch' = <<>>
      PROVE  AlarmInv'
  BY <1>o DEF AlarmInv, Scanning
<1>z. ASSUME quiet' = 0, held' = 0, newest' = newest, batch' # <<>> => pc' \in {"reports", "handle"}
      PROVE  AlarmInv'
  BY <1>z, <1>t DEF AlarmInv
<1>b. pc \notin {"reports", "handle"} => batch = <<>>
  BY DEF AlarmInv
<1>u. UNCHANGED <<socket, batch>> => (Pending => Pending')
  BY DEF Pending, HasRuuvi
<1>1. CASE Begin \/ Return \/ Wake
  BY <1>1, <1>b, <1>o DEF Begin, Return, Wake, sessionVars, Scanning
<1>2. CASE SetupFails \/ ReadFails
  BY <1>2, <1>o DEF SetupFails, ReadFails, Restart, Close, Scanning
<1>3. CASE SetupSucceeds
  BY <1>3, <1>b, <1>z DEF SetupSucceeds
<1>4. CASE LoopHead
  <2>1. CASE cancelled
    BY <1>4, <2>1, <1>o DEF LoopHead, Close, Scanning
  <2>2. CASE ~cancelled
    BY <1>4, <2>2, <1>b, <1>k, <1>u DEF LoopHead, Scanning, sessionVars, historyVars
  <2>3. QED
    BY <2>1, <2>2
<1>5. CASE ReadTimesOut \/ EventDone
  <2>1. CASE Overdue
    BY <1>5, <2>1, <1>o DEF ReadTimesOut, EventDone, Watchdog, Restart, Close, Scanning
  <2>2. CASE ~Overdue
    <3>1. batch' = <<>>
      BY <1>5, <2>2, <1>b DEF ReadTimesOut, EventDone, Watchdog
    <3>2. QED
      BY <1>5, <2>2, <3>1, <1>k, <1>u
      DEF ReadTimesOut, EventDone, Watchdog, Scanning, historyVars
  <2>3. QED
    BY <2>1, <2>2
<1>6. CASE ReadSkips \/ ReadEvent
  <2>1. Pending => Pending'
    BY <1>6, <1>b, <1>t, PendingKept DEF ReadEvent
  <2>2. /\ pc = "read" /\ pc' \in {"loop", "reports"}
        /\ UNCHANGED <<quiet, newest, held, fresh>>
        /\ batch' # <<>> => pc' = "reports"
    BY <1>6, <1>b DEF ReadSkips, ReadEvent, historyVars
  <2>3. QED
    BY <2>1, <2>2, <1>k DEF Scanning
<1>7. CASE NextReport
  <2>1. CASE Head(batch) = "ruuvi"
    BY <1>7, <2>1, <1>z DEF NextReport, Heard
  <2>2. CASE Head(batch) # "ruuvi"
    <3>1. Pending => Pending'
      BY <1>7, <2>2, <1>t, PendingKept
    <3>2. QED
      BY <1>7, <2>2, <3>1, <1>k DEF NextReport, Scanning
  <2>3. QED
    BY <2>1, <2>2
<1>8. CASE HandlerReturns
  BY <1>8, <1>k, <1>u DEF HandlerReturns, Scanning, sessionVars, historyVars
<1>9. ASSUME NEW p \in Packets, Arrive(p)
      PROVE  AlarmInv'
  <2>1. UNCHANGED <<pc, batch, quiet, newest, held>>
    BY <1>9 DEF Arrive
  <2>2. Pending => Pending'
    BY <1>9, <1>t, PendingKept
  <2>3. fresh' => fresh \/ Pending'
    BY <1>9, <1>t, FreshPending
  <2>4. QED
    BY <2>1, <2>2, <2>3, <1>b, <1>k DEF Scanning
<1>10. CASE Stick \/ Unplug \/ Recover \/ Cancel \/ Returned \/ UNCHANGED vars
  <2>1. UNCHANGED pc /\ UNCHANGED <<socket, batch>> /\ UNCHANGED <<quiet, newest, held, fresh>>
    BY <1>10
    DEF Stick, Unplug, Recover, Cancel, Returned, vars, sessionVars, historyVars
  <2>2. QED
    BY <2>1, <1>b, <1>k, <1>u DEF Scanning
<1>11. CASE Tick
  <2>1. /\ UNCHANGED pc /\ UNCHANGED <<socket, batch>> /\ ~fresh' /\ left > 0
        /\ newest' = IF fresh THEN 1 ELSE Smaller(newest + 1, Silence + 1)
        /\ quiet' = IF Scanning THEN quiet + 1 ELSE quiet
        /\ held' = IF pc = "handle" THEN held + 1 ELSE held
    BY <1>11 DEF Tick, Waiting
  <2>2. CASE ~Scanning
    BY <2>1, <2>2, <1>b DEF AlarmInv, Scanning
  <2>3. CASE pc = "read"
    <3>1. socket = <<>> /\ batch = <<>>
      BY <1>11, <2>3, <1>b DEF Tick, Waiting
    <3>2. ~Pending
      BY <3>1 DEF Pending, HasRuuvi
    <3>3. quiet' = quiet + 1 /\ (newest >= quiet \/ newest > Silence) /\ (fresh => quiet = 0)
      BY <2>1, <2>3, <3>2 DEF AlarmInv, Scanning
    <3>4. newest' >= quiet' \/ newest' > Silence
      BY <1>t, <2>1, <3>3 DEF Smaller
    <3>5. QED
      BY <2>1, <2>3, <3>1, <3>4 DEF AlarmInv
  <2>4. CASE pc = "handle"
    <3>1. quiet = held /\ quiet' = quiet + 1 /\ held' = held + 1
      BY <2>1, <2>4 DEF AlarmInv, Scanning
    <3>2. quiet' = held' /\ quiet' <= held'
      BY <1>t, <3>1
    <3>3. Pending => Pending'
      BY <2>1, <1>u
    <3>4. newest >= quiet \/ newest > Silence \/ Pending
      BY <2>4 DEF AlarmInv, Scanning
    <3>5. fresh => Pending \/ quiet = 0
      BY <2>4 DEF AlarmInv, Scanning
    <3>6. newest' >= quiet' \/ newest' > Silence \/ Pending
      BY <1>t, <2>1, <3>1, <3>4, <3>5 DEF Smaller
    <3>7. QED
      BY <2>1, <2>4, <3>2, <3>3, <3>6 DEF AlarmInv
  <2>5. QED
    BY <1>11, <2>2, <2>3, <2>4 DEF Tick, Waiting, Scanning
<1>12. QED
  BY <1>1, <1>2, <1>3, <1>4, <1>5, <1>6, <1>7, <1>8, <1>9, <1>10, <1>11
  DEF Next, ScannerStep, AdapterStep

THEOREM AlarmCorrect == Spec => []AlarmInv
<1>1. Init => AlarmInv
  BY DEF Init, AlarmInv, Scanning
<1>2. QED
  BY <1>1, AlarmStep, TypeCorrect, PTL DEF Spec

\* A session that ends for silence has not overlooked an advertisement, unless its
\* last callback took longer than the silence timeout: then, and only then, a
\* scanner that hears its tags is reset.
THEOREM AlarmHolds == Spec => NoFalseAlarm
<1> DEFINE Alarm == err # "silence" /\ err' = "silence" => newest > Silence \/ held > Silence
<1>1. TypeOK /\ AlarmInv /\ [Next]_vars => [Alarm]_vars
  <2> SUFFICES ASSUME TypeOK, AlarmInv, [Next]_vars, err # "silence", err' = "silence"
               PROVE  newest > Silence \/ held > Silence
    OBVIOUS
  <2>t. quiet \in Nat /\ newest \in Nat /\ Silence \in Nat /\ held \in Nat
    BY TimeAssumption DEF TypeOK, ControlType
  <2>1. (ReadTimesOut \/ EventDone) /\ Overdue
    BY DEF Next, ScannerStep, AdapterStep, Begin, Return, Wake, SetupFails, SetupSucceeds,
           LoopHead, ReadTimesOut, ReadFails, ReadSkips, ReadEvent, NextReport,
           HandlerReturns, EventDone, Watchdog, Restart, Arrive, Stick, Unplug, Recover,
           Cancel, Tick, Returned, vars
  <2>2. Scanning /\ quiet > Silence
    BY <2>1 DEF ReadTimesOut, EventDone, Scanning, Overdue
  <2>3. newest >= quiet \/ newest > Silence \/ quiet <= held
    BY <2>2 DEF AlarmInv
  <2>4. QED
    BY <2>t, <2>2, <2>3
<1>2. QED
  BY <1>1, TypeCorrect, AlarmCorrect, PTL DEF Spec, NoFalseAlarm
=============================================================================
