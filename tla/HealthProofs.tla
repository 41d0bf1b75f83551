---------------------------- MODULE HealthProofs ----------------------------
(* Theorems about Health for all values of its constants.                  *)
EXTENDS Health, TLAPS

-----------------------------------------------------------------------------
(* Type correctness.                                                       *)

\* Ages grow by one and stop at Never.
LEMMA OlderType ==
  ASSUME NEW age \in [Devices -> 0..Never]
  PROVE  /\ Older(age) \in [Devices -> 0..Never]
         /\ \A d \in Devices : Older(age)[d] = IF age[d] < Never THEN age[d] + 1 ELSE Never
BY HealthAssumption DEF Older, Never

LEMMA TypeInit == Init => TypeOK
BY HealthAssumption DEF Init, TypeOK, Never

LEMMA TypeStep == TypeOK /\ [Next]_vars => TypeOK'
<1> SUFFICES ASSUME TypeOK, [Next]_vars PROVE TypeOK'
  OBVIOUS
<1> USE HealthAssumption
<1>1. ASSUME NEW d \in Devices, Advertise(d) PROVE TypeOK'
  <2>1. lastSeen' \in [Devices -> 0..Never] /\ heard' \in [Devices -> 0..Never]
    BY <1>1 DEF Advertise, TypeOK, Never
  <2>2. ASSUME NEW c \in Devices PROVE lastSeen'[c] = Never \/ lastSeen'[c] <= uptime'
    BY <1>1 DEF Advertise, TypeOK, Never
  <2>3. QED
    BY <1>1, <2>1, <2>2 DEF Advertise, TypeOK
<1>2. ASSUME SilenceCheck PROVE TypeOK'
  BY <1>2 DEF SilenceCheck, TypeOK
<1>3. ASSUME Probe PROVE TypeOK'
  BY <1>3 DEF Probe, TypeOK, timeVars
<1>4. ASSUME Tick PROVE TypeOK'
  <2>1. CASE stage = "serving"
    <3>1. lastSeen' \in [Devices -> 0..Never] /\ heard' \in [Devices -> 0..Never]
      BY <1>4, <2>1, OlderType DEF Tick, TypeOK
    <3>2. ASSUME NEW c \in Devices PROVE lastSeen'[c] = Never \/ lastSeen'[c] <= uptime'
      <4>1. lastSeen'[c] = IF lastSeen[c] < Never THEN lastSeen[c] + 1 ELSE Never
        BY <1>4, <2>1, OlderType DEF Tick, TypeOK
      <4>2. uptime' = IF uptime < Never THEN uptime + 1 ELSE Never
        BY <1>4, <2>1 DEF Tick
      <4>3. QED
        BY <4>1, <4>2 DEF TypeOK, Never
    <3>3. uptime' \in 0..Never /\ check' \in 0..CheckEvery
      BY <1>4, <2>1 DEF Tick, TypeOK, Never
    <3>4. QED
      BY <1>4, <3>1, <3>2, <3>3 DEF Tick, TypeOK
  <2>2. CASE stage # "serving"
    BY <1>4, <2>2 DEF Tick, TypeOK, timeVars
  <2>3. QED
    BY <2>1, <2>2
<1>5. ASSUME Serve PROVE TypeOK'
  BY <1>5 DEF Serve, TypeOK, timeVars
<1>6. ASSUME Shutdown PROVE TypeOK'
  BY <1>6 DEF Shutdown, TypeOK, timeVars
<1>7. ASSUME LoseConnection PROVE TypeOK'
  BY <1>7 DEF LoseConnection, TypeOK, timeVars
<1>8. ASSUME Reconnect PROVE TypeOK'
  BY <1>8 DEF Reconnect, TypeOK, timeVars
<1>9. ASSUME UNCHANGED vars PROVE TypeOK'
  BY <1>9 DEF vars, TypeOK, timeVars
<1>10. QED
  BY <1>1, <1>2, <1>3, <1>4, <1>5, <1>6, <1>7, <1>8, <1>9 DEF Next

\* Every reachable state is well typed; no entry is older than the process.
THEOREM TypeCorrect == Spec => []TypeOK
BY TypeInit, TypeStep, PTL DEF Spec

-----------------------------------------------------------------------------
(* Silence and health.                                                     *)

\* Time since the last silence check.
Since == CheckEvery - check

\* An address has an entry, as old as its last advertisement, when it is tracked.
\* What the last check found silent has been warned of, and nothing was in the time
\* of grace.  A verdict is the verdict on the present state.
HealthInv ==
  /\ \A d \in Devices : lastSeen[d] = IF Tracked(d) THEN heard[d] ELSE Never
  /\ \A k \in Keys : Age(k) > Threshold + Since /\ uptime >= Threshold + Since => k \in warned
  /\ uptime < Threshold => warned = {}
  /\ probe = "ok" => Healthy
  /\ probe = "failed" /\ stage = "serving" => ~Healthy

LEMMA HealthInit == Init => HealthInv
<1> SUFFICES ASSUME Init PROVE HealthInv
  OBVIOUS
<1>1. uptime = 0 /\ check = CheckEvery /\ warned = {} /\ probe = "none"
  BY DEF Init
<1>2. Threshold + Since > uptime
  BY <1>1, HealthAssumption DEF Since
<1>3. \A d \in Devices : lastSeen[d] = Never /\ heard[d] = Never
  BY DEF Init
<1>4. ~(uptime >= Threshold + Since)
  BY <1>1, HealthAssumption DEF Since
<1>5. QED
  BY <1>1, <1>3, <1>4 DEF HealthInv

\* The process, the connection and the probe leave the ages and the warnings alone.
LEMMA QuietStep ==
  ASSUME HealthInv, UNCHANGED <<timeVars, warned>>,
         probe' = "ok" => Healthy', probe' = "failed" /\ stage' = "serving" => ~Healthy'
  PROVE  HealthInv'
BY DEF HealthInv, timeVars, Age, Since, Tracked

LEMMA HealthStep == TypeOK /\ HealthInv /\ [Next]_vars => HealthInv'
<1> SUFFICES ASSUME TypeOK, HealthInv, [Next]_vars PROVE HealthInv'
  OBVIOUS
<1> USE HealthAssumption
<1>1. ASSUME NEW d \in Devices, Advertise(d) PROVE HealthInv'
  <2>1. UNCHANGED <<uptime, check, warned>> /\ probe' = "none"
    BY <1>1 DEF Advertise
  <2>2. ASSUME NEW c \in Devices
        PROVE  /\ lastSeen'[c] = IF Tracked(c) THEN heard'[c] ELSE Never
               /\ lastSeen'[c] = lastSeen[c] \/ lastSeen'[c] = 0
    BY <1>1 DEF Advertise, TypeOK, HealthInv, Tracked
  <2>3. ASSUME NEW k \in Keys, Age(k)' > Threshold + Since', uptime' >= Threshold + Since'
        PROVE  k \in warned'
    <3>1. Since' = Since /\ Since \in Nat /\ uptime' = uptime
      BY <2>1 DEF Since, TypeOK
    <3>2. Age(k)' = Age(k) \/ Age(k)' = 0
      BY <2>2 DEF Age
    <3>3. Age(k)' # 0
      BY <2>3, <3>1
    <3>4. QED
      BY <2>1, <2>3, <3>1, <3>2, <3>3 DEF HealthInv
  <2>4. QED
    BY <2>1, <2>2, <2>3 DEF HealthInv, Tracked
<1>2. ASSUME SilenceCheck PROVE HealthInv'
  <2>1. /\ UNCHANGED <<uptime, lastSeen, heard>> /\ probe' = "none"
        /\ check' = CheckEvery
        /\ warned' = IF InGrace THEN warned ELSE {k \in Keys : Silent(k)}
    BY <1>2 DEF SilenceCheck
  <2>2. Since' = 0
    BY <2>1 DEF Since
  <2>3. ASSUME NEW k \in Keys, Age(k)' > Threshold + Since', uptime' >= Threshold + Since'
        PROVE  k \in warned'
    <3>1. Age(k)' = Age(k)
      BY <2>1 DEF Age
    <3>2. Age(k) > Threshold /\ uptime >= Threshold
      BY <2>1, <2>2, <2>3, <3>1
    <3>3. ~InGrace
      BY <3>2 DEF InGrace, TypeOK
    <3>4. QED
      BY <2>1, <3>2, <3>3 DEF Silent
  <2>4. uptime' < Threshold => warned' = {}
    BY <2>1 DEF HealthInv, InGrace
  <2>5. QED
    BY <2>1, <2>3, <2>4 DEF HealthInv, Tracked
<1>3. ASSUME Probe PROVE HealthInv'
  <2>1. Healthy' = Healthy
    BY <1>3 DEF Probe, timeVars, Healthy, IsConnected, RecentEnough, InGrace
  <2>2. QED
    BY <1>3, <2>1, QuietStep DEF Probe
<1>4. ASSUME Tick PROVE HealthInv'
  <2>1. CASE stage = "serving"
    <3>1. /\ uptime' = IF uptime < Never THEN uptime + 1 ELSE Never
          /\ lastSeen' = Older(lastSeen) /\ heard' = Older(heard)
          /\ check' = check - 1 /\ check > 0
          /\ warned' = warned /\ probe' = "none"
      BY <1>4, <2>1 DEF Tick
    <3>2. ASSUME NEW d \in Devices
          PROVE  /\ lastSeen'[d] = IF lastSeen[d] < Never THEN lastSeen[d] + 1 ELSE Never
                 /\ heard'[d] = IF heard[d] < Never THEN heard[d] + 1 ELSE Never
      BY <3>1, OlderType DEF TypeOK
    <3>3. ASSUME NEW d \in Devices
          PROVE  lastSeen'[d] = IF Tracked(d) THEN heard'[d] ELSE Never
      BY <3>2 DEF HealthInv, TypeOK, Never
    <3>4. ASSUME NEW k \in Keys, Age(k)' > Threshold + Since', uptime' >= Threshold + Since'
          PROVE  k \in warned'
      <4>1. Since' = Since + 1 /\ Since \in 0..(CheckEvery - 1)
        BY <3>1 DEF Since, TypeOK
      <4>2. Age(k) \in 0..Never /\ Age(k)' = IF Age(k) < Never THEN Age(k) + 1 ELSE Never
        BY <3>2 DEF Age, TypeOK, Never
      <4>3. Age(k) > Threshold + Since
        BY <3>4, <4>1, <4>2 DEF Never
      <4>4. uptime >= Threshold + Since
        BY <3>1, <3>4, <4>1 DEF Never, TypeOK
      <4>5. QED
        BY <3>1, <4>3, <4>4 DEF HealthInv
    <3>5. uptime' < Threshold => warned' = {}
      BY <3>1 DEF HealthInv, TypeOK, Never
    <3>6. QED
      BY <3>1, <3>3, <3>4, <3>5 DEF HealthInv, Tracked
  <2>2. CASE stage # "serving"
    BY <1>4, <2>2, QuietStep DEF Tick
  <2>3. QED
    BY <2>1, <2>2
<1>5. ASSUME Serve PROVE HealthInv'
  BY <1>5, QuietStep DEF Serve
<1>6. ASSUME Shutdown PROVE HealthInv'
  BY <1>6, QuietStep DEF Shutdown
<1>7. ASSUME LoseConnection PROVE HealthInv'
  BY <1>7, QuietStep DEF LoseConnection
<1>8. ASSUME Reconnect PROVE HealthInv'
  BY <1>8, QuietStep DEF Reconnect
<1>9. ASSUME UNCHANGED vars PROVE HealthInv'
  <2>1. Healthy' = Healthy
    BY <1>9 DEF vars, timeVars, Healthy, IsConnected, RecentEnough, InGrace
  <2>2. QED
    BY <1>9, <2>1, QuietStep DEF vars, HealthInv
<1>10. QED
  BY <1>1, <1>2, <1>3, <1>4, <1>5, <1>6, <1>7, <1>8, <1>9 DEF Next

\* Entries, warnings and verdicts agree with what was heard.
THEOREM HealthCorrect == Spec => []HealthInv
BY TypeInit, TypeStep, HealthInit, HealthStep, PTL DEF Spec

\* The age the silence check goes by is that of the last advertisement.
LEMMA AgeIsHeard ==
  ASSUME HealthInv, NEW k \in Keys
  PROVE  Age(k) = IF k \in Devices THEN heard[k] ELSE Never
BY DEF HealthInv, Age, Tracked

\* A configured tag that is silent for the threshold and a check interval has been
\* warned of by the last silence check, one whose key no address is equal to as well.
THEOREM SilentTagIsWarnedHolds == Spec => []SilentTagIsWarned
<1>1. TypeOK /\ HealthInv => SilentTagIsWarned
  <2> SUFFICES ASSUME TypeOK, HealthInv, NEW k \in Keys,
                      (IF k \in Devices THEN heard[k] ELSE Never) > Threshold + CheckEvery,
                      uptime > Threshold + CheckEvery
               PROVE  k \in warned
    BY DEF SilentTagIsWarned
  <2>1. Since \in 0..CheckEvery
    BY HealthAssumption DEF Since, TypeOK
  <2>2. Age(k) \in Nat /\ Age(k) > Threshold + CheckEvery
    BY AgeIsHeard, HealthAssumption DEF TypeOK, Never
  <2>3. Age(k) > Threshold + Since /\ uptime >= Threshold + Since
    BY <2>1, <2>2, HealthAssumption DEF TypeOK
  <2>4. QED
    BY <2>3 DEF HealthInv
<1>2. QED
  BY <1>1, TypeCorrect, HealthCorrect, PTL

\* In named mode a healthy process has heard a tag of its own within the threshold or
\* is younger than that, and one that is connected and hears its tags is healthy.
THEOREM ProbeIsRightHolds == Spec => []ProbeIsRight
<1>1. TypeOK /\ HealthInv => ProbeIsRight
  <2> SUFFICES ASSUME TypeOK, HealthInv PROVE ProbeIsRight
    OBVIOUS
  <2> USE HealthAssumption
  <2>1. ASSUME Named, probe = "ok"
        PROVE  uptime < Threshold \/ \E d \in Keys \cap Devices : heard[d] < Threshold
    <3>1. RecentEnough \/ InGrace
      BY <2>1 DEF HealthInv, Healthy
    <3>2. ASSUME NEW d \in Devices, lastSeen[d] < Threshold PROVE d \in Keys /\ heard[d] < Threshold
      BY <2>1, <3>2 DEF HealthInv, Tracked, Never
    <3>3. QED
      BY <3>1, <3>2 DEF RecentEnough, InGrace
  <2>2. ASSUME stage = "serving", client = "connected", probe = "failed"
        PROVE  uptime >= Threshold /\ \A d \in Keys \cap Devices : heard[d] >= Threshold
    <3>1. ~RecentEnough /\ ~InGrace
      BY <2>2 DEF HealthInv, Healthy, IsConnected
    <3>2. ASSUME NEW d \in Keys \cap Devices PROVE heard[d] >= Threshold
      <4>1. lastSeen[d] = heard[d]
        BY DEF HealthInv, Tracked
      <4>2. ~(lastSeen[d] < Threshold)
        BY <3>1 DEF RecentEnough
      <4>3. QED
        BY <4>1, <4>2 DEF TypeOK
    <3>3. QED
      BY <3>1, <3>2 DEF InGrace, TypeOK
  <2>3. QED
    BY <2>1, <2>2 DEF ProbeIsRight
<1>2. QED
  BY <1>1, TypeCorrect, HealthCorrect, PTL

\* A silence check warns of no tag that was heard within the threshold, nor before
\* there was the time of a threshold to hear it in.
THEOREM NoFalseWarningHolds == Spec => NoFalseWarning
<1> DEFINE Warning ==
  check = 0 /\ check' # 0 =>
    \A k \in warned' \cap Devices : heard[k] > Threshold /\ uptime >= Threshold
<1>1. TypeOK /\ HealthInv /\ [Next]_vars => [Warning]_vars
  <2> SUFFICES ASSUME TypeOK, HealthInv, Next, check = 0, check' # 0,
                      NEW k \in warned' \cap Devices
               PROVE  heard[k] > Threshold /\ uptime >= Threshold
    OBVIOUS
  <2>1. SilenceCheck
    BY DEF Next, Advertise, Probe, Tick, Serve, Shutdown, LoseConnection, Reconnect, timeVars
  <2>2. ~InGrace
    BY <2>1 DEF SilenceCheck, HealthInv, InGrace
  <2>3. k \in Keys /\ Silent(k)
    BY <2>1, <2>2 DEF SilenceCheck
  <2>4. QED
    BY <2>2, <2>3, AgeIsHeard, HealthAssumption DEF Silent, InGrace, TypeOK
<1>2. QED
  BY <1>1, TypeCorrect, HealthCorrect, PTL DEF Spec, NoFalseWarning
=============================================================================
