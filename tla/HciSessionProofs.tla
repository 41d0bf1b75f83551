-------------------------- MODULE HciSessionProofs --------------------------
(* Theorems about HciSession for all values of its constants.              *)
EXTENDS HciSession, TLAPS

-----------------------------------------------------------------------------
(* The commands of a session.                                              *)

LEMMA UnitsType ==
  ASSUME NEW us \in Int
  PROVE  ScanUnits(us) \in Int /\ ScanMin <= ScanUnits(us) /\ ScanUnits(us) <= ScanMax
BY DEF ScanUnits, Smaller, Larger, ScanMin, ScanMax

LEMMA InRange ==
  /\ ScanMin \in Nat /\ ScanMax \in Nat
  /\ \A x \in Int : ScanMin <= x /\ x <= ScanMax => x \in 0..ScanMax
<1>1. ScanMin \in Nat /\ ScanMax \in Nat
  BY DEF ScanMin, ScanMax
<1>2. QED
  BY <1>1

\* Whatever the configuration says, the window fits in the interval.
LEMMA WindowFits ==
  ASSUME TypeOK
  PROVE  \E interval, window \in Int :
           /\ interval = ScanUnits(timing[1]) /\ window = Window
           /\ ScanMin <= window /\ window <= interval /\ interval <= ScanMax
<1>1. timing[1] \in Int /\ timing[2] \in Int
  BY HciAssumption DEF TypeOK
<1>2. QED
  BY <1>1, UnitsType, InRange DEF Window, Smaller

\* The commands that have no numbers.
LEMMA PlainType ==
  ASSUME NEW op \in Ops, NEW args \in SUBSET Arguments
  PROVE  Plain(op, args) \in Command
BY InRange DEF Plain, Cmd, Command

LEMMA CommandTypes ==
  ASSUME TypeOK, NEW f, f \subseteq {"ext", "coded"}
  PROVE  /\ FirstSteps \in Seq(Command) /\ Len(FirstSteps) = 3
         /\ ScanSteps(f) \in Seq(Command) /\ Len(ScanSteps(f)) = 3
<1>1. PICK interval \in Int, window \in Int :
        /\ interval = ScanUnits(timing[1]) /\ window = Window
        /\ ScanMin <= window /\ window <= interval /\ interval <= ScanMax
  BY WindowFits
<1> DEFINE phys == {"1M"} \cup (IF "ext" \in f THEN f \cap {"coded"} ELSE {})
<1>2. phys \in SUBSET Arguments
  BY DEF Arguments
<1>3. interval \in 0..ScanMax /\ window \in 0..ScanMax
  BY <1>1, InRange
<1>3a. \A op \in Ops : Cmd(op, phys, interval, window) \in Command
  BY <1>2, <1>3 DEF Cmd, Command
<1>4. FirstSteps \in Seq(Command) /\ Len(FirstSteps) = 3
  BY PlainType DEF FirstSteps, Ops
<1>5. ScanSteps(f) \in Seq(Command) /\ Len(ScanSteps(f)) = 3
  BY <1>1, <1>3a, PlainType DEF ScanSteps, Ops, Arguments
<1>6. QED
  BY <1>4, <1>5

LEMMA FirstType ==
  ASSUME TypeOK
  PROVE  FirstSteps \in Seq(Command) /\ FirstSteps # <<>>
<1>1. {} \subseteq {"ext", "coded"}
  OBVIOUS
<1>2. FirstSteps \in Seq(Command) /\ Len(FirstSteps) = 3
  BY <1>1, CommandTypes
<1>3. Len(<<>>) = 0
  OBVIOUS
<1>4. QED
  BY <1>2, <1>3

\* A script of three, and what is left of it.
LEMMA Script ==
  ASSUME NEW S, NEW a \in S, NEW b \in S, NEW c \in S
  PROVE  /\ <<a, b, c>> \in Seq(S) /\ <<b, c>> \in Seq(S) /\ <<c>> \in Seq(S)
         /\ Head(<<a, b, c>>) = a /\ Tail(<<a, b, c>>) = <<b, c>>
         /\ Head(<<b, c>>) = b /\ Tail(<<b, c>>) = <<c>>
         /\ Head(<<c>>) = c /\ Tail(<<c>>) = <<>>
OBVIOUS
-----------------------------------------------------------------------------
(* Type correctness.  While the channel is opened the script is a whole    *)
(* one, which the commands need that are sent once it is bound.            *)

Prepared == pc \in {"down", "bind"} => script = FirstSteps

LEMMA TypeInit == Init => TypeOK /\ Prepared
<1> SUFFICES ASSUME Init PROVE TypeOK /\ Prepared
  OBVIOUS
<1>1. /\ script \in Seq(Command) /\ inbox \in Seq(Command) /\ events \in Seq(Answers)
  BY DEF Init
<1>2. ctl \in [mask : SUBSET Arguments, phys : SUBSET Arguments,
                 scan : {"off", "legacy", "ext"}, used : SUBSET {"legacy", "ext"}]
  BY DEF Init, PowerOn, Arguments
<1>3. /\ dead \in BOOLEAN /\ cancelled \in BOOLEAN /\ powered \in BOOLEAN
      /\ refused \in BOOLEAN
  BY DEF Init
<1>4. tries \in 0..BindTries
  BY HciAssumption DEF Init
<1>5. QED
  BY <1>1, <1>2, <1>3, <1>4 DEF Init, TypeOK, Prepared

\* What an executed command leaves of the controller.
LEMMA ExecutedType ==
  ASSUME TypeOK, NEW c \in Command
  PROVE  Executed(c) \in [mask : SUBSET Arguments, phys : SUBSET Arguments,
                          scan : {"off", "legacy", "ext"}, used : SUBSET {"legacy", "ext"}]
<1>1. c.args \subseteq Arguments
  BY DEF Command
<1>2. KindOf(c.op) \in {"none", "legacy", "ext"}
  BY DEF KindOf
<1>3. PowerOn \in [mask : SUBSET Arguments, phys : SUBSET Arguments,
                    scan : {"off", "legacy", "ext"}, used : SUBSET {"legacy", "ext"}]
  BY DEF PowerOn, Arguments
<1>4. c.op \in {"LESetExtScanEn", "LESetScanEnable"} => KindOf(c.op) \in {"legacy", "ext"}
  BY DEF KindOf
<1>5. QED
  BY <1>1, <1>2, <1>3, <1>4 DEF Executed, TypeOK

\* An event that reaches the socket, or does not.
LEMMA EmitType ==
  ASSUME TypeOK, NEW e \in Answers, Emit(e)
  PROVE  events' \in Seq(Answers)
BY DEF Emit, TypeOK

\* The controller and the environment.
LEMMA TypeEnvironment ==
  ASSUME TypeOK, Prepared, Answer \/ AdapterStep \/ Cancel
  PROVE  TypeOK' /\ Prepared'
<1>1. ASSUME Answer PROVE TypeOK' /\ Prepared'
  <2>1. /\ inbox \in Seq(Command) /\ inbox # <<>>
        /\ Head(inbox) \in Command /\ Tail(inbox) \in Seq(Command)
    BY <1>1 DEF Answer, TypeOK
  <2>2. ctl' = ctl \/ ctl' = Executed(Head(inbox))
    BY <1>1 DEF Answer
  <2>3. \E e \in Answers : Emit(e)
    <3>1. Head(inbox).op \in Ops
      BY <2>1 DEF Command
    <3>2. \A status \in {"ok", "error"}, ret \in SUBSET {"ext", "coded"} :
            Event(Head(inbox).op, status, ret) \in Answers
      BY <3>1 DEF Event, Answers
    <3>3. features \in SUBSET {"ext", "coded"}
      BY DEF TypeOK
    <3>4. QED
      BY <1>1, <3>2, <3>3 DEF Answer
  <2>4. events' \in Seq(Answers)
    BY <2>3, EmitType
  <2>5. ctl' \in [mask : SUBSET Arguments, phys : SUBSET Arguments,
                   scan : {"off", "legacy", "ext"}, used : SUBSET {"legacy", "ext"}]
    BY <2>1, <2>2, ExecutedType DEF TypeOK
  <2>6. refused' \in BOOLEAN /\ inbox' \in Seq(Command)
    BY <1>1, <2>1 DEF Answer, TypeOK
  <2>7. UNCHANGED <<pc, hostVars, dead, cancelled, configVars, adapter, powered>>
    BY <1>1 DEF Answer
  <2>8. QED
    BY <2>4, <2>5, <2>6, <2>7 DEF TypeOK, Prepared, hostVars, configVars
<1>2. ASSUME Chatter PROVE TypeOK' /\ Prepared'
  <2>1. events' \in Seq(Answers)
    <3>1. Event("none", "ok", {}) \in Answers
      BY DEF Event, Answers
    <3>2. QED
      BY <1>2, <3>1 DEF Chatter, TypeOK
  <2>2. QED
    BY <1>2, <2>1 DEF Chatter, TypeOK, Prepared, hostVars, configVars
<1>3. ASSUME Unplug PROVE TypeOK' /\ Prepared'
  <2>1. PowerOn \in [mask : SUBSET Arguments, phys : SUBSET Arguments,
                      scan : {"off", "legacy", "ext"}, used : SUBSET {"legacy", "ext"}]
    BY DEF PowerOn, Arguments
  <2>2. dead' \in BOOLEAN /\ inbox' \in Seq(Command)
    BY <1>3 DEF Unplug, Bound
  <2>3. QED
    BY <1>3, <2>1, <2>2 DEF Unplug, TypeOK, Prepared, hostVars, configVars
<1>4. ASSUME Fault \/ Recover PROVE TypeOK' /\ Prepared'
  BY <1>4 DEF Fault, Recover, TypeOK, Prepared, hostVars, configVars, ctlVars
<1>5. ASSUME PowerUp \/ Cancel PROVE TypeOK' /\ Prepared'
  <2>1. powered' \in BOOLEAN /\ cancelled' \in BOOLEAN
    BY <1>5 DEF PowerUp, Cancel, TypeOK
  <2>2. UNCHANGED <<pc, hostVars, dead, configVars, adapter, ctlVars>>
    BY <1>5 DEF PowerUp, Cancel
  <2>3. QED
    BY <2>1, <2>2 DEF TypeOK, Prepared, hostVars, configVars, ctlVars
<1>6. QED
  BY <1>1, <1>2, <1>3, <1>4, <1>5 DEF AdapterStep

\* The deferred Close, whatever ends the session.
LEMMA TypeEnd ==
  ASSUME TypeOK, Bound, End
  PROVE  TypeOK' /\ Prepared'
<1>1. inbox' \in Seq(Command)
  <2>1. inbox \in Seq(Command) /\ LateMax \in Nat
    BY HciAssumption DEF TypeOK
  <2>2. Smaller(LateMax, Len(inbox)) \in 0..Len(inbox)
    BY <2>1 DEF Smaller
  <2>3. SubSeq(inbox, 1, Smaller(LateMax, Len(inbox))) \in Seq(Command)
    BY <2>1, <2>2
  <2>4. <<>> \in Seq(Command)
    OBVIOUS
  <2>5. QED
    BY <2>3, <2>4 DEF End
<1>2. ctl' \in [mask : SUBSET Arguments, phys : SUBSET Arguments,
                 scan : {"off", "legacy", "ext"}, used : SUBSET {"legacy", "ext"}]
  BY DEF End, TypeOK, PowerOn, Arguments
<1>3. events' \in Seq(Answers) /\ dead' \in BOOLEAN
  <2>1. <<>> \in Seq(Answers) /\ FALSE \in BOOLEAN
    OBVIOUS
  <2>2. QED
    BY <2>1 DEF End
<1>4. sockets' = 0 /\ pc' = "idle"
  BY DEF End, Bound, TypeOK
<1>5. UNCHANGED <<tries, script, feat, cancelled, configVars, adapter, powered, refused>>
  BY DEF End
<1>6. QED
  BY <1>1, <1>2, <1>3, <1>4, <1>5 DEF TypeOK, Prepared, configVars

\* The channel is opened.
LEMMA TypeOpening ==
  ASSUME TypeOK, Prepared, Begin \/ Down \/ Bind \/ BindFails
  PROVE  TypeOK' /\ Prepared'
<1>1. ASSUME Begin PROVE TypeOK' /\ Prepared'
  <2>1. 0 \in 0..BindTries /\ 0 < BindTries
    BY HciAssumption
  <2>1a. FirstSteps \in Seq(Command)
    BY FirstType
  <2>2. script' \in Seq(Command) /\ pc' \in {"down", "returned"}
    BY <1>1, <2>1a DEF Begin, hostVars, TypeOK
  <2>3. UNCHANGED <<dead, cancelled, configVars, adapter, powered, ctlVars>>
    BY <1>1 DEF Begin
  <2>4. /\ tries' \in 0..BindTries /\ (pc' = "down" => tries' < BindTries)
        /\ feat' \subseteq {"ext", "coded"}
        /\ sockets' = IF pc' = "returned" THEN 0 ELSE 1
    <3>1. /\ pc = "idle" /\ sockets = 0 /\ tries \in 0..BindTries
          /\ feat \subseteq {"ext", "coded"}
      BY <1>1 DEF Begin, TypeOK
    <3>2. CASE cancelled
      <4>1. pc' = "returned" /\ tries' = tries /\ feat' = feat /\ sockets' = sockets
        BY <1>1, <3>2 DEF Begin, hostVars
      <4>2. QED
        BY <3>1, <4>1
    <3>3. CASE ~cancelled
      <4>1. pc' = "down" /\ tries' = 0 /\ feat' = {} /\ sockets' = sockets + 1
        BY <1>1, <3>3 DEF Begin
      <4>2. QED
        BY <2>1, <3>1, <4>1
    <3>4. QED
      BY <3>2, <3>3
  <2>5. Prepared'
    BY <1>1 DEF Begin, Prepared
  <2>6. QED
    BY <2>2, <2>3, <2>4, <2>5 DEF TypeOK, configVars, ctlVars
<1>2. ASSUME Down PROVE TypeOK' /\ Prepared'
  <2>1. /\ pc = "down" /\ pc' = "bind" /\ powered' \in BOOLEAN
        /\ UNCHANGED <<hostVars, dead, cancelled, configVars, adapter, ctlVars>>
    BY <1>2 DEF Down
  <2>2. QED
    BY <2>1 DEF TypeOK, Prepared, hostVars, configVars, ctlVars
<1>3. ASSUME Bind PROVE TypeOK' /\ Prepared'
  <2>1. /\ pc = "bind" /\ pc' = "send"
        /\ UNCHANGED <<hostVars, dead, cancelled, configVars, adapter, powered, ctlVars>>
    BY <1>3 DEF Bind
  <2>2. script # <<>>
    BY <2>1, FirstType DEF Prepared
  <2>3. QED
    BY <2>1, <2>2 DEF TypeOK, Prepared, hostVars, configVars, ctlVars
<1>4. ASSUME BindFails PROVE TypeOK' /\ Prepared'
  <2>1. /\ pc = "bind" /\ pc' \in {"down", "idle"}
        /\ UNCHANGED <<script, feat, dead, cancelled, configVars, adapter, powered, ctlVars>>
    BY <1>4 DEF BindFails
  <2>2. tries' \in 0..BindTries /\ (pc' = "down" => tries' < BindTries)
    BY <1>4, HciAssumption DEF BindFails, MoreTries, TypeOK
  <2>3. sockets' = IF pc' = "idle" THEN 0 ELSE 1
    BY <1>4 DEF BindFails, GiveUp, TypeOK
  <2>4. QED
    BY <2>1, <2>2, <2>3 DEF TypeOK, Prepared, configVars, ctlVars
<1>5. QED
  BY <1>1, <1>2, <1>3, <1>4

\* Commands, their answers, and the events the session reads past.
LEMMA TypeTalk ==
  ASSUME TypeOK, Prepared, Write \/ Skip \/ Complete \/ Listen
  PROVE  TypeOK' /\ Prepared'
<1>1. ASSUME Write PROVE TypeOK' /\ Prepared'
  <2>1. Head(script) \in Command /\ inbox \in Seq(Command)
    BY <1>1 DEF Write, TypeOK
  <2>2. Append(inbox, Head(script)) \in Seq(Command)
    BY <2>1
  <2>3. /\ pc = "send" /\ pc' = "wait" /\ inbox' = Append(inbox, Head(script))
        /\ UNCHANGED <<hostVars, dead, cancelled, configVars, adapter, powered, events, ctl,
                       refused>>
    BY <1>1 DEF Write
  <2>4. QED
    BY <2>2, <2>3 DEF TypeOK, Prepared, hostVars, configVars
<1>2. ASSUME Skip \/ Listen PROVE TypeOK' /\ Prepared'
  <2>1. /\ events # <<>> /\ events' = Tail(events)
        /\ UNCHANGED <<pc, hostVars, dead, cancelled, configVars, adapter, powered, inbox, ctl,
                       refused>>
    BY <1>2 DEF Skip, Listen
  <2>2. events' \in Seq(Answers)
    BY <2>1 DEF TypeOK
  <2>3. QED
    BY <2>1, <2>2 DEF TypeOK, Prepared, hostVars, configVars
<1>3. ASSUME Complete PROVE TypeOK' /\ Prepared'
  <2>1. /\ events \in Seq(Answers) /\ events # <<>> /\ script \in Seq(Command)
        /\ script # <<>>
    BY <1>3 DEF Complete, TypeOK
  <2>2. Head(events) \in Answers /\ Tail(events) \in Seq(Answers)
    BY <2>1
  <2>3. Head(events).ret \subseteq {"ext", "coded"}
    BY <2>2 DEF Answers
  <2>4. ScanSteps(Head(events).ret) \in Seq(Command) /\ Tail(script) \in Seq(Command)
    BY <2>1, <2>3, CommandTypes
  <2>5. script' \in Seq(Command) /\ feat' \subseteq {"ext", "coded"}
    BY <1>3, <2>3, <2>4 DEF Complete, TypeOK
  <2>6. /\ pc = "wait" /\ pc' = (IF script' = <<>> THEN "listen" ELSE "send")
        /\ events' = Tail(events)
        /\ UNCHANGED <<tries, sockets, dead, cancelled, configVars, adapter, powered, inbox, ctl,
                       refused>>
    BY <1>3 DEF Complete
  <2>7. QED
    BY <2>2, <2>5, <2>6 DEF TypeOK, Prepared, configVars
<1>4. QED
  BY <1>1, <1>2, <1>3

\* Every step, by what it does to the session.
LEMMA Steps ==
  ASSUME Next
  PROVE  \/ Answer \/ AdapterStep \/ Cancel
         \/ Begin \/ Down \/ Bind \/ BindFails
         \/ Write \/ Skip \/ Complete \/ Listen
         \/ Bound /\ End
         \/ UNCHANGED vars
BY DEF Next, SessionStep, Refused, Timeout, DeviceGone, Silent, Stop, Returned, Bound

LEMMA TypeStep ==
  ASSUME TypeOK, Prepared, [Next]_vars
  PROVE  TypeOK' /\ Prepared'
<1>1. ASSUME UNCHANGED vars PROVE TypeOK' /\ Prepared'
  BY <1>1 DEF TypeOK, Prepared, vars, hostVars, configVars, ctlVars
<1>2. QED
  BY <1>1, Steps, TypeEnvironment, TypeOpening, TypeTalk, TypeEnd

\* Every variable holds what the code can store in it: the channel is bound after
\* at most BindTries attempts, and no session that fails leaves a socket open.
THEOREM TypeCorrect == Spec => []TypeOK
<1>1. Init => TypeOK /\ Prepared
  BY TypeInit
<1>2. (TypeOK /\ Prepared) /\ [Next]_vars => (TypeOK /\ Prepared)'
  BY TypeStep
<1>3. QED
  BY <1>1, <1>2, PTL DEF Spec
-----------------------------------------------------------------------------
(* The invariant.  Each command has a place in the order a session sends   *)
(* them.  The answer to the own Reset may be an earlier session's, so for  *)
(* the places up to three all that counts is that nothing later is with    *)
(* the controller or in the socket; the own LESetEventMask is the last in  *)
(* the inbox, so its answer shows that nothing else is left, and from      *)
(* there on the session is alone with the controller.                      *)

Place(op) ==
  CASE op = "Reset" -> 1
    [] op = "SetEventMask" -> 2
    [] op = "LEReadFeatures" -> 3
    [] op = "LESetEventMask" -> 4
    [] op \in {"LESetScanParam", "LESetExtScanPar"} -> 5
    [] op \in {"LESetScanEnable", "LESetExtScanEn"} -> 6
    [] OTHER -> 0

Step == Place(Head(script).op)

\* The session sends, or waits for, the command in a place.
At(n) == pc \in {"send", "wait"} /\ Step = n

\* How many commands it has written.
Written == IF pc = "wait" THEN Step ELSE Step - 1

\* No command or answer is beyond a place.
UpTo(s, n) == \A i \in DOMAIN s : Place(s[i].op) <= n

\* What comes after a Reset belongs to the first three.
Tidy(s) == \A i, j \in DOMAIN s : i < j /\ s[i].op = "Reset" => Place(s[j].op) <= 3

Succeeded(n) == \E i \in DOMAIN events : Place(events[i].op) = n /\ events[i].status = "ok"

\* What a session with these features asks for.
Mode(f) == IF "ext" \in f THEN "ext" ELSE "legacy"
Reports(f) == IF "ext" \in f THEN {"legacy", "ext"} ELSE {"legacy"}
Phys(f) == {"1M"} \cup (IF "ext" \in f THEN f \cap {"coded"} ELSE {})

\* A command in its place in a session with these features.
Scripted(c, f) ==
  /\ c \in Command /\ Place(c.op) \in 1..6
  /\ Place(c.op) = 4 => c.args = Reports(f)
  /\ Place(c.op) \in {5, 6} => KindOf(c.op) = Mode(f)
  /\ Place(c.op) = 5 => /\ c.args = Phys(f)
                        /\ ScanMin <= c.window /\ c.window <= c.interval
                        /\ c.interval <= ScanMax

\* The controller has been reset, ...
Fresh == ctl.used = {} /\ ctl.scan = "off"
\* ... unmasks the reports of the mode chosen, ...
Masked == ctl.mask = Reports(feat)
\* ... has the parameters, ...
Ready == ctl.phys = Phys(feat) /\ ctl.used = {Mode(feat)}

Alone == inbox = <<Head(script)>>

\* Before the answer to Reset: whatever an earlier session left, once a Reset is
\* executed only harmless commands follow.
Harmless ==
  /\ Tidy(inbox) /\ Tidy(events)
  /\ (\E i \in DOMAIN events : events[i].op = "Reset") => UpTo(inbox, 3)
  /\ Succeeded(1) => Fresh

BeforeReset == ~Bound \/ At(1) => Harmless

AfterReset == At(2) \/ At(3) => Fresh /\ UpTo(inbox, 3) /\ UpTo(events, 3)

\* The own LESetEventMask is the last command with the controller.
OwnMask ==
  At(4) =>
    /\ Fresh
    /\ pc = "send" => UpTo(inbox, 3) /\ UpTo(events, 3)
    /\ pc = "wait" =>
         \/ /\ inbox = <<>> /\ UpTo(events, 4)
            /\ Succeeded(4) => Masked
         \/ /\ inbox # <<>> /\ inbox[Len(inbox)] = Head(script) /\ UpTo(events, 3)
            /\ \A i \in DOMAIN inbox : i < Len(inbox) => Place(inbox[i].op) <= 3

OwnParameters ==
  At(5) =>
    /\ Masked /\ ctl.scan = "off"
    /\ pc = "send" => inbox = <<>> /\ UpTo(events, 4) /\ Fresh
    /\ pc = "wait" =>
         \/ Alone /\ UpTo(events, 4) /\ Fresh
         \/ inbox = <<>> /\ UpTo(events, 5) /\ (Succeeded(5) => Ready)

OwnEnable ==
  At(6) =>
    /\ Masked /\ Ready
    /\ pc = "send" => inbox = <<>> /\ UpTo(events, 5)
    /\ pc = "wait" =>
         \/ Alone /\ UpTo(events, 5)
         \/ inbox = <<>> /\ (Succeeded(6) => ctl.scan = Mode(feat))

Scans == pc = "listen" => inbox = <<>> /\ Masked /\ Ready /\ ctl.scan = Mode(feat)

\* What the session is about to send, and what it knows of the features.
ScriptInv ==
  /\ pc \in {"down", "bind"} => script = FirstSteps
  /\ pc \in {"send", "wait"} =>
       \/ script \in {FirstSteps, Tail(FirstSteps), Tail(Tail(FirstSteps))}
       \/ script \in {ScanSteps(feat), Tail(ScanSteps(feat)), Tail(Tail(ScanSteps(feat)))}
  /\ feat \subseteq features
  /\ \A i \in DOMAIN events : events[i].ret \subseteq features

\* Scan commands come first in the inbox and are acceptable.
ScanFirst ==
  \A i \in DOMAIN inbox : Place(inbox[i].op) > 4 => i = 1 /\ Acceptable(inbox[i])

\* After a Reset in the inbox there is all that the session has written after its own.
Distance ==
  pc \in {"send", "wait"} =>
    \A i \in DOMAIN inbox : inbox[i].op = "Reset" => Len(inbox) - i >= Written - 1

Stage ==
  Distance /\ BeforeReset /\ AfterReset /\ OwnMask /\ OwnParameters /\ OwnEnable /\ Scans

SessionInv ==
  /\ ~refused /\ ScriptInv /\ ScanFirst
  /\ dead => inbox = <<>>
  /\ ~Bound => events = <<>> /\ ~dead
  /\ ~dead => Stage

LEMMA Places ==
  /\ \A op \in Ops \cup {"none"} : Place(op) \in 0..6
  /\ \A op \in Ops : Place(op) \in 1..6
  /\ \A op : /\ Place(op) = 1 <=> op = "Reset"
             /\ Place(op) = 2 <=> op = "SetEventMask"
             /\ Place(op) = 3 <=> op = "LEReadFeatures"
             /\ Place(op) = 4 <=> op = "LESetEventMask"
             /\ Place(op) = 5 <=> op \in {"LESetScanParam", "LESetExtScanPar"}
             /\ Place(op) = 6 <=> op \in {"LESetScanEnable", "LESetExtScanEn"}
             /\ Place(op) \in 0..4 => KindOf(op) = "none"
<1>1. \A op : Place(op) \in 0..6
  BY DEF Place
<1>2. \A op \in Ops : Place(op) \in 1..6
  BY DEF Place, Ops
<1>3. \A op : /\ Place(op) = 1 <=> op = "Reset"
              /\ Place(op) = 2 <=> op = "SetEventMask"
              /\ Place(op) = 3 <=> op = "LEReadFeatures"
              /\ Place(op) = 4 <=> op = "LESetEventMask"
              /\ Place(op) = 5 <=> op \in {"LESetScanParam", "LESetExtScanPar"}
              /\ Place(op) = 6 <=> op \in {"LESetScanEnable", "LESetExtScanEn"}
  BY DEF Place
<1>4. \A op : Place(op) \in 0..4 => KindOf(op) = "none"
  BY DEF Place, KindOf
<1>5. QED
  BY <1>1, <1>2, <1>3, <1>4

\* The scan commands of a session, one by one.
LEMMA ScanCommands ==
  ASSUME TypeOK, NEW f, f \subseteq {"ext", "coded"}
  PROVE  \E mask, par, en \in Command :
           /\ ScanSteps(f) = <<mask, par, en>>
           /\ Scripted(mask, f) /\ Place(mask.op) = 4
           /\ Scripted(par, f) /\ Place(par.op) = 5
           /\ Scripted(en, f) /\ Place(en.op) = 6
<1>1. PICK interval \in Int, window \in Int :
        /\ interval = ScanUnits(timing[1]) /\ window = Window
        /\ ScanMin <= window /\ window <= interval /\ interval <= ScanMax
  BY WindowFits
<1>2. interval \in 0..ScanMax /\ window \in 0..ScanMax
  BY <1>1, InRange
<1> DEFINE ext == "ext" \in f
           mask == Plain("LESetEventMask", Reports(f))
           par == Cmd(IF ext THEN "LESetExtScanPar" ELSE "LESetScanParam", Phys(f), interval,
                      window)
           en == Plain(IF ext THEN "LESetExtScanEn" ELSE "LESetScanEnable", {})
<1>3. Reports(f) \in SUBSET Arguments /\ Phys(f) \in SUBSET Arguments
  BY DEF Reports, Phys, Arguments
<1>4. mask \in Command /\ en \in Command
  BY <1>3, PlainType DEF Ops
<1>5. par \in Command
  BY <1>2, <1>3 DEF Cmd, Command, Ops
<1>6. ScanSteps(f) = <<mask, par, en>>
  BY <1>1 DEF ScanSteps, Reports, Phys
<1>7. Scripted(mask, f) /\ Place(mask.op) = 4
  BY <1>4, Places DEF Scripted, Plain, Cmd
<1>8. Scripted(en, f) /\ Place(en.op) = 6
  BY <1>4 DEF Scripted, Plain, Cmd, Place, KindOf, Mode
<1>9. Scripted(par, f) /\ Place(par.op) = 5
  <2>1. par.op = (IF ext THEN "LESetExtScanPar" ELSE "LESetScanParam")
    BY DEF Cmd
  <2>2. Place(par.op) = 5 /\ KindOf(par.op) = Mode(f)
    BY <2>1 DEF Place, KindOf, Mode
  <2>3. par.args = Phys(f) /\ par.interval = interval /\ par.window = window
    BY DEF Cmd
  <2>4. QED
    BY <1>1, <1>5, <2>2, <2>3 DEF Scripted
<1>10. QED
  BY <1>4, <1>5, <1>6, <1>7, <1>8, <1>9

\* The first commands of a session, one by one.
LEMMA FirstCommands ==
  ASSUME NEW f
  PROVE  \E reset, mask, read \in Command :
           /\ FirstSteps = <<reset, mask, read>>
           /\ Scripted(reset, f) /\ Place(reset.op) = 1
           /\ Scripted(mask, f) /\ Place(mask.op) = 2
           /\ Scripted(read, f) /\ Place(read.op) = 3
<1>1. \A op \in {"Reset", "SetEventMask", "LEReadFeatures"} :
        Plain(op, {}) \in Command /\ Plain(op, {}).op = op
  BY PlainType DEF Ops, Plain, Cmd
<1>2. QED
  BY <1>1, Places DEF FirstSteps, Scripted

\* What a session sends in each place, and what it sends next.
LEMMA ScriptFacts ==
  ASSUME TypeOK, ScriptInv, pc \in {"send", "wait"}
  PROVE  /\ Step \in 1..6 /\ Scripted(Head(script), feat)
         /\ Step \notin {3, 6} => Tail(script) # <<>> /\ Place(Head(Tail(script)).op) = Step + 1
         /\ Step = 6 => Tail(script) = <<>>
         /\ Step \in {1, 2} => Tail(script) \in {Tail(FirstSteps), Tail(Tail(FirstSteps))}
         /\ Step \in {4, 5} =>
              Tail(script) \in {Tail(ScanSteps(feat)), Tail(Tail(ScanSteps(feat)))}
<1>1. CASE script \in {FirstSteps, Tail(FirstSteps), Tail(Tail(FirstSteps))}
  <2>1. PICK reset, mask, read \in Command :
          /\ FirstSteps = <<reset, mask, read>>
          /\ Scripted(reset, feat) /\ Place(reset.op) = 1
          /\ Scripted(mask, feat) /\ Place(mask.op) = 2
          /\ Scripted(read, feat) /\ Place(read.op) = 3
    BY FirstCommands
  <2>2. /\ Head(FirstSteps) = reset /\ Tail(FirstSteps) = <<mask, read>>
        /\ Head(Tail(FirstSteps)) = mask /\ Tail(Tail(FirstSteps)) = <<read>>
        /\ Head(Tail(Tail(FirstSteps))) = read
        /\ <<mask, read>> # <<>> /\ <<read>> # <<>>
    BY <2>1
  <2>3. CASE script = FirstSteps
    BY <2>1, <2>2, <2>3 DEF Step
  <2>4. CASE script = Tail(FirstSteps)
    BY <2>1, <2>2, <2>4 DEF Step
  <2>5. CASE script = Tail(Tail(FirstSteps))
    BY <2>1, <2>2, <2>5 DEF Step
  <2>6. QED
    BY <1>1, <2>3, <2>4, <2>5
<1>2. CASE script \in {ScanSteps(feat), Tail(ScanSteps(feat)), Tail(Tail(ScanSteps(feat)))}
  <2>0. feat \subseteq {"ext", "coded"}
    BY DEF TypeOK
  <2>1. PICK mask, par, en \in Command :
          /\ ScanSteps(feat) = <<mask, par, en>>
          /\ Scripted(mask, feat) /\ Place(mask.op) = 4
          /\ Scripted(par, feat) /\ Place(par.op) = 5
          /\ Scripted(en, feat) /\ Place(en.op) = 6
    BY <2>0, ScanCommands
  <2>2. /\ Head(ScanSteps(feat)) = mask /\ Tail(ScanSteps(feat)) = <<par, en>>
        /\ Head(Tail(ScanSteps(feat))) = par /\ Tail(Tail(ScanSteps(feat))) = <<en>>
        /\ Head(Tail(Tail(ScanSteps(feat)))) = en
        /\ Tail(Tail(Tail(ScanSteps(feat)))) = <<>>
        /\ <<par, en>> # <<>> /\ <<en>> # <<>>
    BY <2>1
  <2>3. CASE script = ScanSteps(feat)
    BY <2>1, <2>2, <2>3 DEF Step
  <2>4. CASE script = Tail(ScanSteps(feat))
    BY <2>1, <2>2, <2>4 DEF Step
  <2>5. CASE script = Tail(Tail(ScanSteps(feat)))
    BY <2>1, <2>2, <2>5 DEF Step
  <2>6. QED
    BY <1>2, <2>3, <2>4, <2>5
<1>3. QED
  BY <1>1, <1>2 DEF ScriptInv

\* The place of what a queue holds, when its first element leaves or one comes.
LEMMA Leaves ==
  ASSUME NEW S, NEW s \in Seq(S), s # <<>>, NEW n \in Nat
  PROVE  /\ Tail(s) \in Seq(S) /\ Len(Tail(s)) = Len(s) - 1 /\ Len(s) > 0
         /\ 1 \in DOMAIN s /\ Head(s) = s[1]
         /\ \A i \in DOMAIN Tail(s) : i + 1 \in DOMAIN s /\ i + 1 > 1 /\ Tail(s)[i] = s[i + 1]
         /\ UpTo(s, n) => UpTo(Tail(s), n) /\ Place(Head(s).op) <= n
         /\ Tidy(s) => Tidy(Tail(s)) /\ (Head(s).op = "Reset" => UpTo(Tail(s), 3))
<1>1. /\ Tail(s) \in Seq(S) /\ Len(Tail(s)) = Len(s) - 1 /\ Len(s) > 0
      /\ 1 \in DOMAIN s /\ Head(s) = s[1]
  OBVIOUS
<1>2. \A i \in DOMAIN Tail(s) : i + 1 \in DOMAIN s /\ i + 1 > 1 /\ Tail(s)[i] = s[i + 1]
  OBVIOUS
<1>3. UpTo(s, n) => UpTo(Tail(s), n) /\ Place(Head(s).op) <= n
  BY <1>1, <1>2 DEF UpTo
<1>4. ASSUME Tidy(s) PROVE Tidy(Tail(s))
  <2>1. SUFFICES ASSUME NEW i \in DOMAIN Tail(s), NEW j \in DOMAIN Tail(s), i < j,
                        Tail(s)[i].op = "Reset"
                 PROVE  Place(Tail(s)[j].op) <= 3
    BY DEF Tidy
  <2>2. i \in Int /\ j \in Int /\ i + 1 < j + 1
    BY <1>1, <2>1
  <2>3. QED
    BY <1>2, <1>4, <2>1, <2>2 DEF Tidy
<1>5. ASSUME Tidy(s), Head(s).op = "Reset" PROVE UpTo(Tail(s), 3)
  BY <1>1, <1>2, <1>5 DEF UpTo, Tidy
<1>6. QED
  BY <1>1, <1>2, <1>3, <1>4, <1>5

LEMMA UpToMore ==
  ASSUME NEW s \in Seq(Answers), NEW n \in Nat, NEW m \in Nat, n <= m, UpTo(s, n)
  PROVE  UpTo(s, m)
<1>0. \A e \in Answers : e.op \in Ops \cup {"none"}
  BY DEF Answers
<1>1. \A i \in DOMAIN s : s[i].op \in Ops \cup {"none"}
  BY <1>0
<1>2. \A i \in DOMAIN s : Place(s[i].op) \in Int
  BY <1>1, Places
<1>3. QED
  BY <1>2 DEF UpTo

LEMMA Comes ==
  ASSUME NEW S, NEW s \in Seq(S), NEW e \in S, NEW n \in Nat
  PROVE  /\ Append(s, e) \in Seq(S) /\ Len(Append(s, e)) = Len(s) + 1
         /\ Append(s, e) # <<>> /\ Append(s, e)[Len(s) + 1] = e
         /\ \A i \in DOMAIN Append(s, e) :
              \/ i \in DOMAIN s /\ Append(s, e)[i] = s[i]
              \/ i = Len(s) + 1 /\ Append(s, e)[i] = e
         /\ \A i \in DOMAIN s : i \in DOMAIN Append(s, e) /\ Append(s, e)[i] = s[i]
         /\ UpTo(s, n) /\ Place(e.op) <= n => UpTo(Append(s, e), n)
         /\ Tidy(s) /\ (Place(e.op) <= 3 \/ ~\E i \in DOMAIN s : s[i].op = "Reset") =>
              Tidy(Append(s, e))
<1>1. /\ Append(s, e) \in Seq(S) /\ Len(Append(s, e)) = Len(s) + 1
      /\ Append(s, e) # <<>> /\ Append(s, e)[Len(s) + 1] = e
  OBVIOUS
<1>2. /\ \A i \in DOMAIN Append(s, e) :
           \/ i \in DOMAIN s /\ Append(s, e)[i] = s[i]
           \/ i = Len(s) + 1 /\ Append(s, e)[i] = e
      /\ \A i \in DOMAIN s : i \in DOMAIN Append(s, e) /\ Append(s, e)[i] = s[i]
  OBVIOUS
<1>3. UpTo(s, n) /\ Place(e.op) <= n => UpTo(Append(s, e), n)
  BY <1>2 DEF UpTo
<1>4. ASSUME Tidy(s), Place(e.op) <= 3 \/ ~\E i \in DOMAIN s : s[i].op = "Reset"
      PROVE  Tidy(Append(s, e))
  <2>1. SUFFICES ASSUME NEW i \in DOMAIN Append(s, e), NEW j \in DOMAIN Append(s, e), i < j,
                        Append(s, e)[i].op = "Reset"
                 PROVE  Place(Append(s, e)[j].op) <= 3
    BY DEF Tidy
  <2>2. i \in DOMAIN s /\ Append(s, e)[i] = s[i]
    BY <1>1, <1>2, <2>1
  <2>3. QED
    BY <1>2, <1>4, <2>1, <2>2 DEF Tidy
<1>5. QED
  BY <1>1, <1>2, <1>3, <1>4
-----------------------------------------------------------------------------
(* The steps that leave the commands and the answers alone.                *)

LEMMA InvInit == Init => SessionInv
<1> SUFFICES ASSUME Init PROVE SessionInv
  OBVIOUS
<1>1. DOMAIN inbox = {} /\ DOMAIN events = {} /\ pc = "idle" /\ feat = {}
  BY DEF Init
<1>2. ScriptInv /\ ScanFirst
  BY <1>1 DEF ScriptInv, ScanFirst
<1>3. Stage
  BY <1>1 DEF Stage, Distance, BeforeReset, Harmless, AfterReset, OwnMask, OwnParameters, OwnEnable,
     Scans, At, Tidy, UpTo, Succeeded
<1>4. QED
  BY <1>1, <1>2, <1>3 DEF SessionInv, Init, Bound

\* Steps of bluetoothd, of the adapter's health and of the context.
LEMMA Unaffected ==
  ASSUME SessionInv,
         UNCHANGED <<pc, script, feat, dead, timing, features, inbox, events, ctl, refused>>
  PROVE  SessionInv'
BY DEF SessionInv, Bound, ScriptInv, ScanFirst, Acceptable, Stage, Distance, BeforeReset,
   Harmless, AfterReset, OwnMask, OwnParameters, OwnEnable, Scans, At, Step, Written, UpTo, Tidy,
   Succeeded, Masked, Ready, Fresh, Alone, ScanSteps, Window

\* The goroutine moves on, but has not taken the channel.
LEMMA Unbound ==
  ASSUME SessionInv, ~Bound, ~Bound',
         UNCHANGED <<dead, features, inbox, events, ctl, refused>>,
         feat' \subseteq features, pc' \in {"down", "bind"} => script' = FirstSteps
  PROVE  SessionInv'
<1>1. ScriptInv'
  BY DEF SessionInv, ScriptInv, Bound, FirstSteps
<1>2. ScanFirst'
  BY DEF SessionInv, ScanFirst, Acceptable
<1>3. BeforeReset'
  BY DEF SessionInv, Stage, BeforeReset, Harmless, Tidy, UpTo, Succeeded, Fresh
<1>4. Distance' /\ AfterReset' /\ OwnMask' /\ OwnParameters' /\ OwnEnable' /\ Scans'
  BY DEF Bound, Distance, AfterReset, OwnMask, OwnParameters, OwnEnable, Scans, At
<1>5. QED
  BY <1>1, <1>2, <1>3, <1>4 DEF SessionInv, Stage

LEMMA InvOpening ==
  ASSUME TypeOK, SessionInv, Begin \/ Down \/ Bind \/ BindFails
  PROVE  SessionInv'
<1>1. ASSUME Begin PROVE SessionInv'
  <2>1. ~Bound /\ ~Bound' /\ UNCHANGED <<dead, features, inbox, events, ctl, refused>>
    BY <1>1 DEF Begin, Bound, configVars, ctlVars
  <2>2. feat \subseteq features
    BY DEF SessionInv, ScriptInv
  <2>3. feat' \subseteq features /\ (pc' \in {"down", "bind"} => script' = FirstSteps)
    BY <1>1, <2>2 DEF Begin, hostVars
  <2>4. QED
    BY <2>1, <2>3, Unbound
<1>2. ASSUME Down \/ BindFails PROVE SessionInv'
  <2>1. ~Bound /\ ~Bound' /\ UNCHANGED <<dead, features, inbox, events, ctl, refused>>
    BY <1>2 DEF Down, BindFails, Bound, configVars, ctlVars
  <2>2. feat' \subseteq features /\ script' = FirstSteps
    BY <1>2 DEF Down, BindFails, hostVars, SessionInv, ScriptInv
  <2>3. QED
    BY <2>1, <2>2, Unbound
<1>3. ASSUME Bind PROVE SessionInv'
  <2>1. /\ pc = "bind" /\ pc' = "send" /\ ~Bound
        /\ UNCHANGED <<script, feat, dead, timing, features, inbox, events, ctl, refused>>
    BY <1>3 DEF Bind, hostVars, configVars, ctlVars, Bound
  <2>2. script = FirstSteps /\ script' = FirstSteps
    BY <2>1 DEF SessionInv, ScriptInv
  <2>3. PICK reset \in Command, mask \in Command, read \in Command :
          FirstSteps = <<reset, mask, read>> /\ Place(reset.op) = 1
    BY FirstCommands
  <2>4. Step' = 1
    BY <2>2, <2>3 DEF Step
  <2>5. ScriptInv'
    BY <2>1, <2>2 DEF SessionInv, ScriptInv
  <2>6. ScanFirst'
    BY <2>1 DEF SessionInv, ScanFirst, Acceptable
  <2>7. BeforeReset'
    BY <2>1 DEF SessionInv, Stage, BeforeReset, Harmless, Tidy, UpTo, Succeeded, Fresh
  <2>8. Distance'
    <3>1. Len(inbox) \in Nat /\ DOMAIN inbox = 1..Len(inbox)
      BY DEF TypeOK
    <3>2. SUFFICES ASSUME NEW i \in 1..Len(inbox) PROVE Len(inbox) - i >= Written' - 1
      BY <2>1, <3>1 DEF Distance
    <3>3. Written' = 0
      BY <2>1, <2>4 DEF Written
    <3>4. QED
      BY <3>1, <3>2, <3>3
  <2>9. AfterReset' /\ OwnMask' /\ OwnParameters' /\ OwnEnable' /\ Scans'
    BY <2>1, <2>4 DEF AfterReset, OwnMask, OwnParameters, OwnEnable, Scans, At
  <2>10. QED
    BY <2>1, <2>5, <2>6, <2>7, <2>8, <2>9 DEF SessionInv, Stage, Bound
<1>4. QED
  BY <1>1, <1>2, <1>3

\* The device goes: nothing is left of what it had been told.
LEMMA InvUnplug ==
  ASSUME TypeOK, SessionInv, Unplug
  PROVE  SessionInv'
<1>1. /\ inbox' = <<>> /\ dead' = Bound /\ ctl' = PowerOn
      /\ UNCHANGED <<pc, script, feat, timing, features, events, refused>>
  BY DEF Unplug, hostVars, configVars
<1>2. DOMAIN inbox' = {}
  BY <1>1
<1>3. ScriptInv' /\ ScanFirst'
  BY <1>1, <1>2 DEF SessionInv, ScriptInv, ScanFirst, ScanSteps, Window
<1>4. ASSUME ~Bound PROVE Stage'
  <2>1. DOMAIN events' = {}
    BY <1>1, <1>4 DEF SessionInv
  <2>2. BeforeReset'
    BY <1>2, <2>1 DEF BeforeReset, Harmless, Tidy, UpTo, Succeeded
  <2>3. Distance' /\ AfterReset' /\ OwnMask' /\ OwnParameters' /\ OwnEnable' /\ Scans'
    BY <1>1, <1>4 DEF Bound, Distance, AfterReset, OwnMask, OwnParameters, OwnEnable, Scans, At
  <2>4. QED
    BY <2>2, <2>3 DEF Stage
<1>5. QED
  BY <1>1, <1>3, <1>4 DEF SessionInv, Bound

\* An event that answers nothing.
LEMMA InvChatter ==
  ASSUME TypeOK, SessionInv, Chatter
  PROVE  SessionInv'
<1> DEFINE e == Event("none", "ok", {})
<1>1. /\ Bound /\ ~dead /\ events' = Append(events, e)
      /\ UNCHANGED <<pc, script, feat, dead, timing, features, inbox, ctl, refused>>
  BY DEF Chatter, hostVars, configVars
<1>2. e \in Answers /\ Place(e.op) = 0 /\ e.ret = {} /\ e.op = "none"
  BY Places DEF Event, Answers, Place
<1>3. events \in Seq(Answers)
  BY DEF TypeOK
<1>4. \A n \in Nat : UpTo(events, n) => UpTo(events', n)
  BY <1>1, <1>2, <1>3, Comes
<1>5. \A i \in DOMAIN events' : \/ i \in DOMAIN events /\ events'[i] = events[i]
                                \/ events'[i] = e
  BY <1>1, <1>2, <1>3, Comes
<1>6. \A n \in 1..6 : Succeeded(n)' => Succeeded(n)
  BY <1>2, <1>5 DEF Succeeded
<1>7. Tidy(events) => Tidy(events')
  BY <1>1, <1>2, <1>3, Comes
<1>8. (\E i \in DOMAIN events' : events'[i].op = "Reset")
        => \E i \in DOMAIN events : events[i].op = "Reset"
  BY <1>2, <1>5
<1>9. ScriptInv'
  BY <1>1, <1>2, <1>5 DEF SessionInv, ScriptInv, ScanSteps, Window
<1>10. ScanFirst' /\ Distance' /\ Scans'
  BY <1>1 DEF SessionInv, Stage, ScanFirst, Acceptable, Distance, Written, Step, Scans, Masked,
     Ready
<1>11. BeforeReset'
  BY <1>1, <1>6, <1>7, <1>8 DEF SessionInv, Stage, BeforeReset, Harmless, Bound, At, Step, Fresh,
     UpTo, Tidy
<1>12. AfterReset' /\ OwnMask'
  BY <1>1, <1>4, <1>6 DEF SessionInv, Stage, AfterReset, OwnMask, At, Step, Fresh, Masked
<1>13. OwnParameters' /\ OwnEnable'
  BY <1>1, <1>4, <1>6 DEF SessionInv, Stage, OwnParameters, OwnEnable, At, Step, Fresh, Masked,
     Ready, Alone
<1>14. QED
  BY <1>1, <1>9, <1>10, <1>11, <1>12, <1>13 DEF SessionInv, Stage, Bound

\* An event the session reads past.
LEMMA InvReadsPast ==
  ASSUME TypeOK, SessionInv, Skip \/ Listen
  PROVE  SessionInv'
<1>1. /\ Bound /\ ~dead /\ events # <<>> /\ events' = Tail(events)
      /\ UNCHANGED <<pc, script, feat, dead, timing, features, inbox, ctl, refused>>
  BY DEF Skip, Listen, Bound, hostVars, configVars
<1>2. events \in Seq(Answers)
  BY DEF TypeOK
<1>3. \A n \in Nat : UpTo(events, n) => UpTo(events', n)
  BY <1>1, <1>2, Leaves
<1>4. \A i \in DOMAIN events' : i + 1 \in DOMAIN events /\ events'[i] = events[i + 1]
  <2>1. 0 \in Nat
    OBVIOUS
  <2>2. QED
    BY <1>1, <1>2, <2>1, Leaves
<1>5. Tidy(events) => Tidy(events')
  <2>1. 0 \in Nat
    OBVIOUS
  <2>2. QED
    BY <1>1, <1>2, <2>1, Leaves
<1>6. \A n \in 1..6 : Succeeded(n)' => Succeeded(n)
  BY <1>4 DEF Succeeded
<1>7. (\E i \in DOMAIN events' : events'[i].op = "Reset")
        => \E i \in DOMAIN events : events[i].op = "Reset"
  BY <1>4
<1>8. ScriptInv'
  BY <1>1, <1>4 DEF SessionInv, ScriptInv, ScanSteps, Window
<1>9. ScanFirst' /\ Distance' /\ Scans'
  BY <1>1 DEF SessionInv, Stage, ScanFirst, Acceptable, Distance, Written, Step, Scans, Masked,
     Ready
<1>10. BeforeReset'
  BY <1>1, <1>5, <1>6, <1>7 DEF SessionInv, Stage, BeforeReset, Harmless, Bound, At, Step, Fresh,
     UpTo, Tidy
<1>11. AfterReset' /\ OwnMask'
  BY <1>1, <1>3, <1>6 DEF SessionInv, Stage, AfterReset, OwnMask, At, Step, Fresh, Masked
<1>12. OwnParameters' /\ OwnEnable'
  BY <1>1, <1>3, <1>6 DEF SessionInv, Stage, OwnParameters, OwnEnable, At, Step, Fresh, Masked,
     Ready, Alone
<1>13. QED
  BY <1>1, <1>8, <1>9, <1>10, <1>11, <1>12 DEF SessionInv, Stage, Bound
-----------------------------------------------------------------------------
(* A command is written.                                                   *)

\* The own scan commands find a controller that accepts them.
LEMMA OwnAcceptable ==
  ASSUME TypeOK, SessionInv, pc = "send", ~dead, Step > 4
  PROVE  inbox = <<>> /\ Acceptable(Head(script))
<1> DEFINE c == Head(script)
<1>1. Step \in {5, 6} /\ Scripted(c, feat) /\ Place(c.op) = Step
  <2>1. Step \in 1..6 /\ Scripted(c, feat)
    BY ScriptFacts DEF SessionInv
  <2>2. QED
    BY <2>1 DEF Step
<1>2. KindOf(c.op) = Mode(feat) /\ feat \subseteq features
  BY <1>1 DEF Scripted, SessionInv, ScriptInv
<1>3. KindOf(c.op) = "ext" => "ext" \in features
  BY <1>2 DEF Mode
<1>4. CASE Step = 5
  <2>1. inbox = <<>> /\ Fresh
    BY <1>4 DEF SessionInv, Stage, OwnParameters, At
  <2>2. c.args = Phys(feat) /\ "coded" \in c.args => "coded" \in features
    BY <1>2 DEF Phys
  <2>3. c.interval \in Int /\ c.window \in Int
    BY <1>1 DEF Scripted, Command
  <2>4. c.interval \in ScanMin..ScanMax /\ c.window \in ScanMin..c.interval
    BY <1>1, <1>4, <2>3, InRange DEF Scripted
  <2>5. c.op \notin {"LESetExtScanEn", "LESetScanEnable"}
    BY <1>1, <1>4, Places
  <2>6. c.args = Phys(feat)
    BY <1>1, <1>4 DEF Scripted
  <2>7. QED
    BY <1>3, <2>1, <2>2, <2>4, <2>5, <2>6 DEF Acceptable, Fresh
<1>5. CASE Step = 6
  <2>1. inbox = <<>> /\ Ready
    BY <1>5 DEF SessionInv, Stage, OwnEnable, At
  <2>2. ctl.phys # {} /\ ctl.used = {Mode(feat)}
    BY <2>1 DEF Ready, Phys
  <2>3. c.op \notin {"LESetExtScanPar", "LESetScanParam"}
    BY <1>1, <1>5, Places
  <2>4. QED
    BY <1>2, <1>3, <2>1, <2>2, <2>3 DEF Acceptable
<1>6. QED
  BY <1>1, <1>4, <1>5

LEMMA InvWrite ==
  ASSUME TypeOK, SessionInv, Write
  PROVE  SessionInv'
<1> DEFINE c == Head(script)
<1>1. /\ pc = "send" /\ ~dead /\ pc' = "wait" /\ inbox' = Append(inbox, c)
      /\ UNCHANGED <<script, feat, dead, timing, features, events, ctl, refused>>
  BY DEF Write, hostVars, configVars
<1>2. Step \in 1..6 /\ Scripted(c, feat) /\ Place(c.op) = Step /\ Step' = Step
  <2>1. Step \in 1..6 /\ Scripted(c, feat)
    BY <1>1, ScriptFacts DEF SessionInv
  <2>2. QED
    BY <1>1, <2>1 DEF Step
<1>3. inbox \in Seq(Command) /\ c \in Command
  BY <1>2 DEF TypeOK, Scripted
<1>4. /\ Len(inbox') = Len(inbox) + 1 /\ inbox' # <<>> /\ inbox'[Len(inbox')] = c
      /\ \A i \in DOMAIN inbox' : \/ i \in DOMAIN inbox /\ inbox'[i] = inbox[i]
                                  \/ i = Len(inbox) + 1 /\ inbox'[i] = c
      /\ Tidy(inbox) /\ Place(c.op) <= 3 => Tidy(inbox')
      /\ \A n \in Nat : UpTo(inbox, n) /\ Place(c.op) <= n => UpTo(inbox', n)
  <2>1. 0 \in Nat
    OBVIOUS
  <2>2. QED
    BY <1>1, <1>3, <2>1, Comes
<1>5. Len(inbox) \in Nat /\ DOMAIN inbox = 1..Len(inbox)
  BY <1>3
<1>6. ScriptInv'
  BY <1>1 DEF SessionInv, ScriptInv, ScanSteps, Window
<1>7. ScanFirst'
  <2>1. SUFFICES ASSUME NEW i \in DOMAIN inbox', Place(inbox'[i].op) > 4
                 PROVE  i = 1 /\ Acceptable(inbox'[i])
    BY <1>1 DEF ScanFirst, Acceptable
  <2>2. CASE i \in DOMAIN inbox /\ inbox'[i] = inbox[i]
    BY <2>1, <2>2 DEF SessionInv, ScanFirst
  <2>3. CASE i = Len(inbox) + 1 /\ inbox'[i] = c
    <3>1. inbox = <<>> /\ Acceptable(c)
      BY <1>1, <1>2, <2>1, <2>3, OwnAcceptable
    <3>2. Len(inbox) = 0
      BY <3>1
    <3>3. QED
      BY <2>3, <3>1, <3>2
  <2>4. QED
    BY <1>4, <2>2, <2>3
<1>8. Distance'
  <2>1. SUFFICES ASSUME NEW i \in DOMAIN inbox', inbox'[i].op = "Reset"
                 PROVE  Len(inbox') - i >= Step - 1
    BY <1>1, <1>2 DEF Distance, Written
  <2>2. CASE i \in DOMAIN inbox /\ inbox'[i] = inbox[i]
    <3>1. Len(inbox) - i >= (Step - 1) - 1 /\ i \in Int
      BY <1>1, <1>5, <2>1, <2>2 DEF SessionInv, Stage, Distance, Written
    <3>2. QED
      BY <1>2, <1>4, <1>5, <3>1
  <2>3. CASE i = Len(inbox) + 1 /\ inbox'[i] = c
    <3>1. Step = 1
      BY <1>2, <2>1, <2>3, Places
    <3>2. QED
      BY <1>4, <1>5, <2>3, <3>1
  <2>4. QED
    BY <1>4, <2>2, <2>3
<1>9. Stage
  BY <1>1 DEF SessionInv
<1>10. BeforeReset' /\ AfterReset'
  <2>1. \A n : At(n)' <=> At(n)
    BY <1>1, <1>2 DEF At
  <2>2. Bound' /\ Bound
    BY <1>1 DEF Bound
  <2>3. \A n \in Nat : (Step <= n /\ UpTo(inbox, n)) => UpTo(inbox', n)
    BY <1>2, <1>4
  <2>4. Step <= 3 /\ Tidy(inbox) => Tidy(inbox')
    BY <1>2, <1>4
  <2>5. BeforeReset'
    <3>1. SUFFICES ASSUME At(1) PROVE Harmless'
      BY <2>1, <2>2 DEF BeforeReset
    <3>2. Step = 1 /\ Harmless
      BY <1>9, <3>1 DEF At, Stage, BeforeReset
    <3>3. Tidy(inbox') /\ (UpTo(inbox, 3) => UpTo(inbox', 3))
      BY <2>3, <2>4, <3>2 DEF Harmless
    <3>4. QED
      BY <1>1, <3>2, <3>3 DEF Harmless, Succeeded, Fresh
  <2>6. AfterReset'
    <3>1. SUFFICES ASSUME At(2) \/ At(3) PROVE Fresh' /\ UpTo(inbox', 3) /\ UpTo(events', 3)
      BY <2>1 DEF AfterReset
    <3>2. Step <= 3 /\ Fresh /\ UpTo(inbox, 3) /\ UpTo(events, 3)
      BY <1>9, <3>1 DEF Stage, AfterReset, At
    <3>3. QED
      BY <1>1, <2>3, <3>2 DEF Fresh
  <2>7. QED
    BY <2>5, <2>6
<1>11. OwnMask'
  <2>1. SUFFICES ASSUME Step = 4
                 PROVE  /\ Fresh' /\ inbox' # <<>> /\ inbox'[Len(inbox')] = c /\ UpTo(events', 3)
                        /\ \A i \in DOMAIN inbox' : i < Len(inbox') => Place(inbox'[i].op) <= 3
    BY <1>1, <1>2 DEF OwnMask, At
  <2>2. Fresh /\ UpTo(inbox, 3) /\ UpTo(events, 3)
    BY <1>1, <1>9, <2>1 DEF Stage, OwnMask, At
  <2>3. \A i \in DOMAIN inbox' : i < Len(inbox') => Place(inbox'[i].op) <= 3
    BY <1>4, <1>5, <2>2 DEF UpTo
  <2>4. QED
    BY <1>1, <1>4, <2>2, <2>3 DEF Fresh
<1>12. OwnParameters' /\ OwnEnable'
  <2>1. inbox = <<>> => inbox' = <<c>>
    BY <1>1
  <2>2. OwnParameters'
    BY <1>1, <1>2, <1>9, <2>1 DEF Stage, OwnParameters, At, Masked, Fresh, Alone
  <2>3. OwnEnable'
    BY <1>1, <1>2, <1>9, <2>1 DEF Stage, OwnEnable, At, Masked, Ready, Alone
  <2>4. QED
    BY <2>2, <2>3
<1>13. Scans' /\ Bound' /\ ~dead'
  BY <1>1 DEF Scans, Bound
<1>14. QED
  BY <1>1, <1>6, <1>7, <1>8, <1>10, <1>11, <1>12, <1>13 DEF SessionInv, Stage
-----------------------------------------------------------------------------
(* A session ends: of the commands it leaves behind at most three reach    *)
(* the next one, so that its own mask is cut off where it follows a Reset. *)

LEMMA CutTidy ==
  ASSUME TypeOK, SessionInv, Bound, LateMax <= 3
  PROVE  Tidy(SubSeq(inbox, 1, Smaller(LateMax, Len(inbox))))
<1> DEFINE m == Smaller(LateMax, Len(inbox))
           cut == SubSeq(inbox, 1, m)
<1>1. /\ inbox \in Seq(Command) /\ Len(inbox) \in Nat /\ DOMAIN inbox = 1..Len(inbox)
      /\ m \in Nat /\ m <= Len(inbox) /\ m <= 3
  BY HciAssumption DEF TypeOK, Smaller
<1>2. Len(cut) = m /\ \A i \in 1..m : i \in DOMAIN inbox /\ cut[i] = inbox[i]
  BY <1>1
<1>3. DOMAIN cut = 1..m
  BY <1>1
<1>4. ASSUME UpTo(inbox, 3) \/ Tidy(inbox) PROVE Tidy(cut)
  BY <1>2, <1>3, <1>4 DEF UpTo, Tidy
<1>5. ASSUME Len(inbox) <= 1 PROVE Tidy(cut)
  <2>1. \A i, j \in DOMAIN cut : ~(i < j)
    BY <1>1, <1>3, <1>5
  <2>2. QED
    BY <2>1 DEF Tidy
<1>6. CASE dead \/ pc = "listen"
  <2>1. inbox = <<>>
    BY <1>6 DEF SessionInv, Stage, Scans
  <2>2. Len(inbox) = 0
    BY <2>1
  <2>3. QED
    BY <1>5, <2>2
<1>7. CASE ~dead /\ pc \in {"send", "wait"}
  <2>1. Stage /\ Step \in 1..6 /\ At(Step)
    BY <1>7, ScriptFacts DEF SessionInv, At
  <2>2. CASE Step \in {1, 2, 3}
    BY <1>4, <2>1, <2>2 DEF Stage, BeforeReset, Harmless, AfterReset
  <2>3. CASE Step = 4
    <3>1. CASE pc = "send" \/ inbox = <<>>
      <4>1. UpTo(inbox, 3) \/ inbox = <<>>
        BY <2>1, <2>3, <3>1 DEF Stage, OwnMask
      <4>2. inbox = <<>> => Len(inbox) <= 1
        OBVIOUS
      <4>3. QED
        BY <1>4, <1>5, <4>1, <4>2
    <3>2. CASE pc = "wait" /\ inbox # <<>>
      <4>1. \A i \in DOMAIN inbox : i < Len(inbox) => Place(inbox[i].op) <= 3
        BY <2>1, <2>3, <3>2 DEF Stage, OwnMask
      <4>2. \A i \in DOMAIN inbox : inbox[i].op = "Reset" => Len(inbox) - i >= 3
        BY <2>1, <2>3, <3>2 DEF Stage, Distance, Written
      <4>3. SUFFICES ASSUME NEW i \in 1..m, NEW j \in 1..m, i < j, inbox[i].op = "Reset"
                     PROVE  Place(inbox[j].op) <= 3
        BY <1>2, <1>3 DEF Tidy
      <4>4. j < Len(inbox)
        BY <1>1, <1>2, <4>2, <4>3
      <4>5. QED
        BY <1>2, <4>1, <4>4
    <3>3. QED
      BY <1>7, <3>1, <3>2
  <2>4. CASE Step \in {5, 6}
    <3>1. inbox = <<>> \/ inbox = <<Head(script)>>
      BY <1>7, <2>1, <2>4 DEF Stage, OwnParameters, OwnEnable, Alone
    <3>2. ASSUME inbox = <<>> PROVE Len(inbox) <= 1
      BY <3>2
    <3>3. ASSUME inbox = <<Head(script)>> PROVE Len(inbox) <= 1
      BY <3>3
    <3>4. QED
      BY <1>5, <3>1, <3>2, <3>3
  <2>5. QED
    BY <2>1, <2>2, <2>3, <2>4
<1>8. QED
  BY <1>6, <1>7 DEF Bound

LEMMA InvEnd ==
  ASSUME TypeOK, SessionInv, Bound, End, LateMax <= 3
  PROVE  SessionInv'
<1>1. /\ pc' = "idle" /\ dead' = FALSE /\ events' = <<>>
      /\ UNCHANGED <<script, feat, timing, features, refused>>
  BY DEF End, configVars
<1>1a. ~Bound'
  BY <1>1 DEF Bound
<1>2. DOMAIN events' = {}
  BY <1>1
<1>3. ScriptInv'
  BY <1>1, <1>2 DEF SessionInv, ScriptInv
<1>4. Tidy(inbox')
  <2>1. Tidy(<<>>)
    BY DEF Tidy
  <2>2. QED
    BY <2>1, CutTidy DEF End
<1>5. ScanFirst'
  <2>1. CASE inbox' = <<>>
    BY <2>1 DEF ScanFirst
  <2>2. CASE inbox' = SubSeq(inbox, 1, Smaller(LateMax, Len(inbox))) /\ ctl' = ctl
    <3>1. inbox \in Seq(Command) /\ Smaller(LateMax, Len(inbox)) \in 0..Len(inbox)
      BY HciAssumption DEF TypeOK, Smaller
    <3>2. \A i \in DOMAIN inbox' : i \in DOMAIN inbox /\ inbox'[i] = inbox[i]
      BY <2>2, <3>1
    <3>3. \A c : Acceptable(c) => Acceptable(c)'
      BY <1>1, <2>2 DEF Acceptable
    <3>4. QED
      BY <3>2, <3>3 DEF SessionInv, ScanFirst
  <2>3. QED
    BY <2>1, <2>2 DEF End
<1>6. BeforeReset'
  BY <1>2, <1>4 DEF BeforeReset, Harmless, Succeeded, Tidy
<1>7. Distance' /\ AfterReset' /\ OwnMask' /\ OwnParameters' /\ OwnEnable' /\ Scans'
  BY <1>1 DEF Distance, AfterReset, OwnMask, OwnParameters, OwnEnable, Scans, At
<1>8. QED
  BY <1>1, <1>1a, <1>3, <1>5, <1>6, <1>7 DEF SessionInv, Stage
-----------------------------------------------------------------------------
(* The answer the session waits for.                                       *)

LEMMA InvComplete ==
  ASSUME TypeOK, SessionInv, Complete
  PROVE  SessionInv'
<1> DEFINE e == Head(events)
<1>1. /\ pc = "wait" /\ ~dead /\ events # <<>> /\ e.op = Head(script).op /\ e.status = "ok"
      /\ events' = Tail(events) /\ pc' = (IF script' = <<>> THEN "listen" ELSE "send")
      /\ UNCHANGED <<dead, timing, features, inbox, ctl, refused>>
  BY DEF Complete, Completes, configVars
<1>2. events \in Seq(Answers)
  BY DEF TypeOK
<1>3. /\ 1 \in DOMAIN events /\ e = events[1]
      /\ \A i \in DOMAIN events' : i + 1 \in DOMAIN events /\ events'[i] = events[i + 1]
      /\ \A n \in Nat : UpTo(events, n) => UpTo(events', n) /\ Place(e.op) <= n
      /\ Tidy(events) /\ e.op = "Reset" => UpTo(events', 3)
  <2>1. 0 \in Nat
    OBVIOUS
  <2>2. QED
    BY <1>1, <1>2, <2>1, Leaves
<1>4. Stage /\ Step \in 1..6 /\ At(Step) /\ Place(e.op) = Step /\ Succeeded(Step)
  <2>1. Step \in 1..6
    BY <1>1, ScriptFacts DEF SessionInv
  <2>2. QED
    BY <1>1, <1>3, <2>1 DEF SessionInv, At, Step, Succeeded
<1>5. /\ feat' \subseteq features
      /\ \A i \in DOMAIN events' : events'[i].ret \subseteq features
  BY <1>1, <1>3 DEF Complete, SessionInv, ScriptInv
<1>6. Step \in {1, 2, 4, 5, 6} => feat' = feat /\ script' = Tail(script)
  BY <1>1, <1>4, Places DEF Complete, Step
<1>7. Step = 3 => script' = ScanSteps(feat')
  BY <1>1, <1>4, Places DEF Complete, Step
<1>8. ScanSteps(feat)' = ScanSteps(feat')
  BY <1>1 DEF ScanSteps, Window
<1>9. Step # 6 => pc' = "send" /\ Step' = Step + 1
  <2>1. CASE Step \in {1, 2, 4, 5}
    <3>1. Tail(script) # <<>> /\ Place(Head(Tail(script)).op) = Step + 1
      BY <1>1, <2>1, ScriptFacts DEF SessionInv
    <3>2. script' = Tail(script)
      BY <1>6, <2>1
    <3>3. QED
      BY <1>1, <3>1, <3>2 DEF Step
  <2>2. CASE Step = 3
    <3>0. ASSUME NEW f, f \subseteq {"ext", "coded"}
          PROVE  \E mask, par, en \in Command :
                   ScanSteps(f) = <<mask, par, en>> /\ Place(mask.op) = 4
      <4>1. PICK mask \in Command, par \in Command, en \in Command :
              /\ ScanSteps(f) = <<mask, par, en>>
              /\ Scripted(mask, f) /\ Place(mask.op) = 4
              /\ Scripted(par, f) /\ Place(par.op) = 5
              /\ Scripted(en, f) /\ Place(en.op) = 6
        BY <3>0, ScanCommands
      <4>2. QED
        BY <4>1
    <3>1. feat' \subseteq {"ext", "coded"}
      BY <1>5 DEF TypeOK
    <3>2. PICK mask \in Command, par \in Command, en \in Command :
            ScanSteps(feat') = <<mask, par, en>> /\ Place(mask.op) = 4
      BY <3>0, <3>1
    <3>3. script' # <<>> /\ Head(script') = mask
      BY <1>7, <2>2, <3>2
    <3>4. QED
      BY <1>1, <2>2, <3>2, <3>3 DEF Step
  <2>3. QED
    BY <1>4, <2>1, <2>2
<1>10. ASSUME Step = 6 PROVE pc' = "listen" /\ feat' = feat
  <2>1. Tail(script) = <<>>
    BY <1>1, <1>10, ScriptFacts DEF SessionInv
  <2>2. script' = Tail(script) /\ feat' = feat
    BY <1>6, <1>10
  <2>3. QED
    BY <1>1, <2>1, <2>2
<1>11. ScriptInv'
  <2>1. CASE Step \in {1, 2}
    <3>1. Tail(script) \in {Tail(FirstSteps), Tail(Tail(FirstSteps))}
      BY <1>1, <2>1, ScriptFacts DEF SessionInv
    <3>2. script' = Tail(script)
      BY <1>6, <2>1
    <3>3. script' \in {FirstSteps, Tail(FirstSteps), Tail(Tail(FirstSteps))}
      BY <3>1, <3>2
    <3>4. QED
      BY <1>1, <1>5, <3>3 DEF ScriptInv, FirstSteps
  <2>2. CASE Step = 3
    BY <1>1, <1>5, <1>7, <1>8, <2>2 DEF ScriptInv
  <2>3. CASE Step \in {4, 5}
    <3>0. script' = Tail(script) /\ feat' = feat
      BY <1>6, <2>3
    <3>1. Tail(script) \in {Tail(ScanSteps(feat)), Tail(Tail(ScanSteps(feat)))}
      BY <1>1, <2>3, ScriptFacts DEF SessionInv
    <3>2. script' \in {ScanSteps(feat'), Tail(ScanSteps(feat')), Tail(Tail(ScanSteps(feat')))}
      BY <3>0, <3>1
    <3>3. QED
      BY <1>1, <1>5, <1>8, <3>2 DEF ScriptInv
  <2>4. CASE Step = 6
    BY <1>1, <1>5, <1>10, <2>4 DEF ScriptInv
  <2>5. QED
    BY <1>4, <2>1, <2>2, <2>3, <2>4
<1>12. ScanFirst'
  BY <1>1 DEF SessionInv, ScanFirst, Acceptable
<1>13. Distance'
  <2>1. CASE Step = 6
    BY <1>10, <2>1 DEF Distance
  <2>2. CASE Step # 6
    <3>1. Written' = Written
      BY <1>1, <1>4, <1>9, <2>2 DEF Written
    <3>2. QED
      BY <1>1, <1>4, <3>1 DEF Stage, Distance
  <2>3. QED
    BY <2>1, <2>2
<1>14. BeforeReset' /\ AfterReset' /\ OwnMask' /\ OwnParameters' /\ OwnEnable' /\ Scans'
  <2>1. CASE Step = 1
    <3>1. Fresh /\ UpTo(inbox, 3) /\ UpTo(events', 3)
      <4>1. Harmless /\ e.op = "Reset"
        BY <1>4, <2>1, Places DEF Stage, BeforeReset
      <4>2. QED
        BY <1>3, <1>4, <2>1, <4>1 DEF Harmless
    <3>2. AfterReset'
      BY <1>1, <3>1 DEF AfterReset, Fresh
    <3>3. QED
      BY <1>9, <2>1, <3>2 DEF BeforeReset, OwnMask, OwnParameters, OwnEnable, Scans, At, Bound
  <2>2. CASE Step = 2
    <3>1. Fresh /\ UpTo(inbox, 3) /\ UpTo(events', 3)
      BY <1>3, <1>4, <2>2 DEF Stage, AfterReset
    <3>2. AfterReset'
      BY <1>1, <3>1 DEF AfterReset, Fresh
    <3>3. QED
      BY <1>9, <2>2, <3>2 DEF BeforeReset, OwnMask, OwnParameters, OwnEnable, Scans, At, Bound
  <2>3. CASE Step = 3
    <3>1. Fresh /\ UpTo(inbox, 3) /\ UpTo(events', 3)
      BY <1>3, <1>4, <2>3 DEF Stage, AfterReset
    <3>2. OwnMask'
      BY <1>1, <1>9, <2>3, <3>1 DEF OwnMask, Fresh
    <3>3. QED
      BY <1>9, <2>3, <3>2 DEF BeforeReset, AfterReset, OwnParameters, OwnEnable, Scans, At, Bound
  <2>4. CASE Step = 4
    <3>1. Fresh /\ inbox = <<>> /\ Masked /\ UpTo(events', 4)
      <4>1. ~UpTo(events, 3)
        BY <1>3, <1>4, <2>4
      <4>2. QED
        BY <1>1, <1>3, <1>4, <2>4, <4>1 DEF Stage, OwnMask
    <3>2. OwnParameters'
      BY <1>1, <1>6, <1>9, <2>4, <3>1 DEF OwnParameters, Fresh, Masked
    <3>3. QED
      BY <1>9, <2>4, <3>2 DEF BeforeReset, AfterReset, OwnMask, OwnEnable, Scans, At, Bound
  <2>5. CASE Step = 5
    <3>1. Ready /\ inbox = <<>> /\ Masked /\ UpTo(events', 5)
      <4>1. ~UpTo(events, 4)
        BY <1>3, <1>4, <2>5
      <4>2. QED
        BY <1>1, <1>3, <1>4, <2>5, <4>1 DEF Stage, OwnParameters
    <3>2. OwnEnable'
      BY <1>1, <1>6, <1>9, <2>5, <3>1 DEF OwnEnable, Ready, Masked
    <3>3. QED
      BY <1>9, <2>5, <3>2 DEF BeforeReset, AfterReset, OwnMask, OwnParameters, Scans, At, Bound
  <2>6. CASE Step = 6
    <3>1. Ready /\ inbox = <<>> /\ Masked /\ ctl.scan = Mode(feat)
      <4>1. ~UpTo(events, 5)
        BY <1>3, <1>4, <2>6
      <4>2. QED
        BY <1>1, <1>3, <1>4, <2>6, <4>1 DEF Stage, OwnEnable
    <3>2. Scans'
      BY <1>1, <1>10, <2>6, <3>1 DEF Scans, Ready, Masked
    <3>3. QED
      BY <1>10, <2>6, <3>2 DEF BeforeReset, AfterReset, OwnMask, OwnParameters, OwnEnable, At,
         Bound
  <2>7. QED
    BY <1>4, <2>1, <2>2, <2>3, <2>4, <2>5, <2>6
<1>15. QED
  BY <1>1, <1>9, <1>10, <1>11, <1>12, <1>13, <1>14 DEF SessionInv, Stage, Bound
-----------------------------------------------------------------------------
(* The controller executes a command and answers it.                       *)

LEMMA ExecutedFacts ==
  ASSUME TypeOK, NEW c \in Command, NEW f, Scripted(c, f) \/ Place(c.op) <= 4
  PROVE  /\ Place(c.op) = 1 => Executed(c) = PowerOn
         /\ Place(c.op) \in {2, 3} => Executed(c) = ctl
         /\ Place(c.op) = 4 => Executed(c) = [ctl EXCEPT !.mask = c.args]
         /\ Place(c.op) = 5 =>
              Executed(c) = [ctl EXCEPT !.phys = c.args, !.used = ctl.used \cup {Mode(f)}]
         /\ Place(c.op) = 6 =>
              Executed(c) = [ctl EXCEPT !.scan = Mode(f), !.used = ctl.used \cup {Mode(f)}]
<1>1. Place(c.op) = 1 => Executed(c) = PowerOn
  BY Places DEF Executed
<1>2. Place(c.op) \in {2, 3} => Executed(c) = ctl
  BY Places DEF Executed
<1>3. Place(c.op) = 4 => Executed(c) = [ctl EXCEPT !.mask = c.args]
  BY Places DEF Executed
<1>4. Place(c.op) \in {5, 6} => KindOf(c.op) = Mode(f) /\ {KindOf(c.op)} \ {"none"} = {Mode(f)}
  BY DEF Scripted, Mode
<1>5. Place(c.op) = 5 =>
        Executed(c) = [ctl EXCEPT !.phys = c.args, !.used = ctl.used \cup {Mode(f)}]
  <2>1. SUFFICES ASSUME Place(c.op) = 5
                 PROVE  Executed(c) = [ctl EXCEPT !.phys = c.args, !.used = ctl.used \cup {Mode(f)}]
    OBVIOUS
  <2>2. c.op \in {"LESetScanParam", "LESetExtScanPar"}
    BY <2>1, Places
  <2>3. Executed(c) = [ctl EXCEPT !.phys = c.args,
                                  !.used = ctl.used \cup ({KindOf(c.op)} \ {"none"})]
    BY <2>2 DEF Executed
  <2>4. QED
    BY <1>4, <2>1, <2>3
<1>6. Place(c.op) = 6 =>
        Executed(c) = [ctl EXCEPT !.scan = Mode(f), !.used = ctl.used \cup {Mode(f)}]
  <2>1. SUFFICES ASSUME Place(c.op) = 6
                 PROVE  Executed(c) = [ctl EXCEPT !.scan = Mode(f),
                                                  !.used = ctl.used \cup {Mode(f)}]
    OBVIOUS
  <2>2. c.op \in {"LESetScanEnable", "LESetExtScanEn"}
    BY <2>1, Places
  <2>3. Executed(c) = [ctl EXCEPT !.scan = KindOf(c.op),
                                  !.used = ctl.used \cup ({KindOf(c.op)} \ {"none"})]
    BY <2>2 DEF Executed
  <2>4. QED
    BY <1>4, <2>1, <2>3
<1>7. QED
  BY <1>1, <1>2, <1>3, <1>5, <1>6

\* What is answered: with the controller changed as the command says, or with an
\* error; no command has to be refused.
LEMMA Answered ==
  ASSUME TypeOK, SessionInv, Answer
  PROVE  /\ inbox # <<>> /\ inbox' = Tail(inbox) /\ ~dead /\ Head(inbox) \in Command
         /\ UNCHANGED <<pc, script, feat, dead, timing, features, refused>>
         /\ \E e \in Answers :
              /\ e.op = Head(inbox).op /\ e.ret \subseteq features
              /\ Emit(e)
              /\ \/ e.status = "ok" /\ ctl' = Executed(Head(inbox))
                 \/ e.status = "error" /\ ctl' = ctl
<1> DEFINE c == Head(inbox)
<1>1. /\ inbox # <<>> /\ inbox' = Tail(inbox) /\ ~dead
      /\ UNCHANGED <<pc, script, feat, dead, timing, features>>
  BY DEF Answer, SessionInv, hostVars, configVars
<1>2. c \in Command /\ 1 \in DOMAIN inbox /\ c = inbox[1]
  BY <1>1 DEF TypeOK
<1>3. Acceptable(c)
  <2>1. CASE Place(c.op) > 4
    BY <1>2, <2>1 DEF SessionInv, ScanFirst
  <2>2. CASE Place(c.op) \in 0..4
    <3>1. /\ KindOf(c.op) = "none"
          /\ c.op \notin {"LESetExtScanPar", "LESetScanParam", "LESetExtScanEn", "LESetScanEnable"}
      BY <2>2, Places
    <3>2. QED
      BY <3>1 DEF Acceptable
  <2>3. QED
    <3>1. c.op \in Ops
      BY <1>2 DEF Command
    <3>2. Place(c.op) \in 0..6
      BY <3>1, Places
    <3>3. QED
      BY <2>1, <2>2, <3>2
<1>4. features \in SUBSET {"ext", "coded"} /\ c.op \in Ops
  BY <1>2 DEF TypeOK, Command
<1>5. \A status \in {"ok", "error"}, ret \in SUBSET {"ext", "coded"} :
        LET e == Event(c.op, status, ret) IN
          e \in Answers /\ e.op = c.op /\ e.status = status /\ e.ret = ret
  BY <1>4 DEF Event, Answers
<1>6. \/ /\ refused' = refused /\ ctl' = Executed(c)
         /\ \E ret \in {features, {}} :
              Emit(Event(c.op, "ok", IF c.op = "LEReadFeatures" THEN ret ELSE {}))
      \/ refused' = refused /\ ctl' = ctl /\ Emit(Event(c.op, "error", {}))
  BY <1>3 DEF Answer
<1>7. CASE refused' = refused /\ ctl' = ctl /\ Emit(Event(c.op, "error", {}))
  <2>1. PICK e \in Answers : /\ e = Event(c.op, "error", {})
                             /\ e.op = c.op /\ e.status = "error" /\ e.ret = {}
    BY <1>5
  <2>2. Emit(e) /\ e.ret \subseteq features
    BY <1>7, <2>1
  <2>3. QED
    BY <1>1, <1>2, <1>7, <2>1, <2>2
<1>8. CASE /\ refused' = refused /\ ctl' = Executed(c)
           /\ \E ret \in {features, {}} :
                Emit(Event(c.op, "ok", IF c.op = "LEReadFeatures" THEN ret ELSE {}))
  <2>1. PICK ret \in SUBSET {"ext", "coded"} :
          ret \subseteq features /\ Emit(Event(c.op, "ok", ret))
    BY <1>4, <1>8
  <2>2. PICK e \in Answers : /\ e = Event(c.op, "ok", ret)
                             /\ e.op = c.op /\ e.status = "ok" /\ e.ret = ret
    BY <1>5
  <2>3. QED
    BY <1>1, <1>2, <1>8, <2>1, <2>2
<1>9. QED
  BY <1>6, <1>7, <1>8

LEMMA InvAnswer ==
  ASSUME TypeOK, SessionInv, Answer
  PROVE  SessionInv'
<1> DEFINE c == Head(inbox)
<1>1. /\ inbox # <<>> /\ inbox' = Tail(inbox) /\ ~dead /\ c \in Command
      /\ UNCHANGED <<pc, script, feat, dead, timing, features, refused>>
  BY Answered
<1>2. PICK e \in Answers :
        /\ e.op = c.op /\ e.ret \subseteq features /\ Emit(e)
        /\ \/ e.status = "ok" /\ ctl' = Executed(c)
           \/ e.status = "error" /\ ctl' = ctl
  BY Answered
<1>3. inbox \in Seq(Command) /\ events \in Seq(Answers)
  BY DEF TypeOK
<1>4. /\ Len(inbox') = Len(inbox) - 1 /\ Len(inbox) \in Nat /\ Len(inbox) > 0
      /\ DOMAIN inbox = 1..Len(inbox) /\ DOMAIN inbox' = 1..Len(inbox') /\ c = inbox[1]
      /\ \A i \in DOMAIN inbox' : i + 1 \in DOMAIN inbox /\ i + 1 > 1 /\ inbox'[i] = inbox[i + 1]
      /\ \A n \in Nat : UpTo(inbox, n) => UpTo(inbox', n) /\ Place(c.op) <= n
      /\ Tidy(inbox) => Tidy(inbox') /\ (c.op = "Reset" => UpTo(inbox', 3))
  <2>1. 0 \in Nat /\ Len(inbox) \in Nat /\ DOMAIN inbox = 1..Len(inbox)
    BY <1>3
  <2>2. /\ inbox' \in Seq(Command) /\ Len(inbox') = Len(inbox) - 1 /\ Len(inbox) > 0
        /\ c = inbox[1]
        /\ \A i \in DOMAIN inbox' :
             i + 1 \in DOMAIN inbox /\ i + 1 > 1 /\ inbox'[i] = inbox[i + 1]
        /\ \A n \in Nat : UpTo(inbox, n) => UpTo(inbox', n) /\ Place(c.op) <= n
        /\ Tidy(inbox) => Tidy(inbox') /\ (c.op = "Reset" => UpTo(inbox', 3))
    BY <1>1, <1>3, <2>1, Leaves
  <2>3. QED
    BY <2>1, <2>2
<1>5. Bound => events' = Append(events, e)
  BY <1>1, <1>2 DEF Emit
<1>6. ~Bound => events' = <<>>
  BY <1>2 DEF Emit, SessionInv
<1>7. /\ \A i \in DOMAIN events' : \/ i \in DOMAIN events /\ events'[i] = events[i]
                                   \/ events'[i] = e
      /\ \A n \in Nat : UpTo(events, n) /\ Place(e.op) <= n => UpTo(events', n)
      /\ Tidy(events) /\ (Place(e.op) <= 3 \/ ~\E i \in DOMAIN events : events[i].op = "Reset")
           => Tidy(events')
  <2>1. CASE Bound
    <3>1. 0 \in Nat /\ events' = Append(events, e)
      BY <1>5, <2>1
    <3>2. \A i \in DOMAIN events' :
            (i \in DOMAIN events /\ events'[i] = events[i]) \/ events'[i] = e
      BY <1>3, <3>1, Comes
    <3>3. \A n \in Nat : UpTo(events, n) /\ Place(e.op) <= n => UpTo(events', n)
      BY <1>3, <3>1, Comes
    <3>4. Tidy(events) /\ (Place(e.op) <= 3 \/ ~\E i \in DOMAIN events : events[i].op = "Reset")
            => Tidy(events')
      BY <1>3, <3>1, Comes
    <3>5. QED
      BY <3>2, <3>3, <3>4
  <2>2. CASE ~Bound
    <3>1. DOMAIN events' = {}
      BY <1>6, <2>2
    <3>2. QED
      BY <3>1 DEF UpTo, Tidy
  <2>3. QED
    BY <2>1, <2>2
<1>8. /\ Place(c.op) \in 1..6 /\ Place(e.op) = Place(c.op)
      /\ Place(c.op) = 1 <=> c.op = "Reset"
  <2>1. c.op \in Ops
    BY <1>1 DEF Command
  <2>2. QED
    BY <1>2, <2>1, Places
<1>9. \A n \in 1..6 : Succeeded(n)' => Succeeded(n) \/ (Place(c.op) = n /\ ctl' = Executed(c))
  <2>1. SUFFICES ASSUME NEW n \in 1..6, NEW i \in DOMAIN events', Place(events'[i].op) = n,
                        events'[i].status = "ok"
                 PROVE  Succeeded(n) \/ (Place(c.op) = n /\ ctl' = Executed(c))
    BY DEF Succeeded
  <2>2. CASE i \in DOMAIN events /\ events'[i] = events[i]
    BY <2>1, <2>2 DEF Succeeded
  <2>3. CASE events'[i] = e
    BY <1>2, <1>8, <2>1, <2>3
  <2>4. QED
    BY <1>7, <2>2, <2>3
<1>10. Place(c.op) <= 4 =>
         /\ Fresh => Fresh'
         /\ Place(c.op) = 1 /\ ctl' = Executed(c) => Fresh'
         /\ Place(c.op) <= 3 => ctl' = ctl \/ ctl' = PowerOn
         /\ Place(c.op) = 4 => ctl' = ctl \/ ctl' = [ctl EXCEPT !.mask = c.args]
  <2>1. SUFFICES ASSUME Place(c.op) <= 4
                 PROVE  /\ Fresh => Fresh'
                        /\ Place(c.op) = 1 /\ ctl' = Executed(c) => Fresh'
                        /\ Place(c.op) <= 3 => ctl' = ctl \/ ctl' = PowerOn
                        /\ Place(c.op) = 4 => ctl' = ctl \/ ctl' = [ctl EXCEPT !.mask = c.args]
    OBVIOUS
  <2>2. /\ Place(c.op) = 1 => Executed(c) = PowerOn
        /\ Place(c.op) \in {2, 3} => Executed(c) = ctl
        /\ Place(c.op) = 4 => Executed(c) = [ctl EXCEPT !.mask = c.args]
    BY <1>1, <2>1, ExecutedFacts
  <2>3. /\ Place(c.op) <= 3 => ctl' = ctl \/ ctl' = PowerOn
        /\ Place(c.op) = 4 => ctl' = ctl \/ ctl' = [ctl EXCEPT !.mask = c.args]
    BY <1>2, <1>8, <2>2
  <2>4. PowerOn.used = {} /\ PowerOn.scan = "off"
    BY DEF PowerOn
  <2>5. LET d == [ctl EXCEPT !.mask = c.args] IN d.used = ctl.used /\ d.scan = ctl.scan
    BY DEF TypeOK
  <2>6. Fresh => Fresh'
    <3>1. \/ ctl' = ctl \/ ctl' = PowerOn \/ ctl' = [ctl EXCEPT !.mask = c.args]
      BY <1>8, <2>1, <2>3
    <3>2. QED
      BY <2>4, <2>5, <3>1 DEF Fresh
  <2>7. QED
    BY <2>2, <2>3, <2>4, <2>6 DEF Fresh
<1>11. ScriptInv'
  BY <1>1, <1>2, <1>7 DEF SessionInv, ScriptInv, ScanSteps, Window
<1>12. ScanFirst'
  <2>1. \A i \in DOMAIN inbox' : ~(Place(inbox'[i].op) > 4)
    BY <1>4 DEF SessionInv, ScanFirst
  <2>2. QED
    BY <2>1 DEF ScanFirst
<1>13. Stage
  BY <1>1 DEF SessionInv
<1>14. Distance'
  <2>1. SUFFICES ASSUME pc \in {"send", "wait"}, NEW i \in DOMAIN inbox',
                        inbox'[i].op = "Reset"
                 PROVE  Len(inbox') - i >= Written - 1
    BY <1>1 DEF Distance, Written, Step
  <2>2. Len(inbox) - (i + 1) >= Written - 1
    BY <1>4, <1>13, <2>1 DEF Stage, Distance
  <2>3. i \in Int /\ Len(inbox') - i = Len(inbox) - (i + 1)
    BY <1>4
  <2>4. QED
    BY <2>2, <2>3
<1>15. \A n : At(n)' <=> At(n)
  BY <1>1 DEF At, Step
<1>16. BeforeReset'
  <2>1. SUFFICES ASSUME Harmless PROVE Harmless'
    BY <1>1, <1>13, <1>15 DEF Stage, BeforeReset, Bound
  <2>2. Tidy(inbox') /\ (c.op = "Reset" => UpTo(inbox', 3))
    BY <1>4, <2>1 DEF Harmless
  <2>3. (\E i \in DOMAIN events : events[i].op = "Reset") =>
          UpTo(inbox, 3) /\ UpTo(inbox', 3) /\ Place(c.op) <= 3
    BY <1>4, <2>1 DEF Harmless
  <2>4. Tidy(events')
    BY <1>7, <1>8, <2>1, <2>3 DEF Harmless
  <2>5. (\E i \in DOMAIN events' : events'[i].op = "Reset") => UpTo(inbox', 3)
    BY <1>2, <1>7, <2>2, <2>3
  <2>6. Succeeded(1)' => Fresh'
    <3>1. Succeeded(1) => Fresh /\ Place(c.op) <= 3
      <4>1. Succeeded(1) => \E i \in DOMAIN events : events[i].op = "Reset"
        BY Places DEF Succeeded
      <4>2. QED
        BY <2>1, <2>3, <4>1 DEF Harmless
    <3>2. Succeeded(1)' => Succeeded(1) \/ (Place(c.op) = 1 /\ ctl' = Executed(c))
      BY <1>9
    <3>3. QED
      BY <1>8, <1>10, <3>1, <3>2
  <2>7. QED
    BY <2>2, <2>4, <2>5, <2>6 DEF Harmless
<1>17. AfterReset'
  <2>1. SUFFICES ASSUME At(2) \/ At(3) PROVE Fresh' /\ UpTo(inbox', 3) /\ UpTo(events', 3)
    BY <1>15 DEF AfterReset
  <2>2. Fresh /\ UpTo(inbox, 3) /\ UpTo(events, 3)
    BY <1>13, <2>1 DEF Stage, AfterReset
  <2>3. Place(c.op) <= 3
    BY <1>4, <2>2
  <2>4. QED
    BY <1>4, <1>7, <1>8, <1>10, <2>2, <2>3
<1>18. OwnMask'
  <2>1. SUFFICES ASSUME At(4)
                 PROVE  /\ Fresh'
                        /\ pc = "send" => UpTo(inbox', 3) /\ UpTo(events', 3)
                        /\ pc = "wait" =>
                             \/ /\ inbox' = <<>> /\ UpTo(events', 4)
                                /\ Succeeded(4)' => Masked'
                             \/ /\ inbox' # <<>> /\ inbox'[Len(inbox')] = Head(script)
                                /\ UpTo(events', 3)
                                /\ \A i \in DOMAIN inbox' :
                                     i < Len(inbox') => Place(inbox'[i].op) <= 3
    BY <1>1, <1>15 DEF OwnMask
  <2>2. CASE pc = "send"
    <3>1. Fresh /\ UpTo(inbox, 3) /\ UpTo(events, 3)
      BY <1>13, <2>1, <2>2 DEF Stage, OwnMask
    <3>2. Place(c.op) <= 3
      BY <1>4, <3>1
    <3>3. QED
      BY <1>4, <1>7, <1>8, <1>10, <2>2, <3>1, <3>2
  <2>3. CASE pc = "wait"
    <3>1. /\ Fresh /\ inbox[Len(inbox)] = Head(script) /\ UpTo(events, 3)
          /\ \A i \in DOMAIN inbox : i < Len(inbox) => Place(inbox[i].op) <= 3
      BY <1>1, <1>13, <2>1, <2>3 DEF Stage, OwnMask
    <3>2. Scripted(Head(script), feat) /\ Place(Head(script).op) = 4
      BY <2>1, <2>3, ScriptFacts DEF SessionInv, At, Step
    <3>3. CASE Len(inbox) = 1
      <4>1. c = Head(script) /\ inbox' = <<>>
        BY <1>1, <1>3, <1>4, <3>1, <3>3
      <4>2. UpTo(events, 4) /\ UpTo(events', 4)
        <5>1. UpTo(events, 4)
          BY <1>3, <3>1, UpToMore
        <5>2. QED
          BY <1>7, <1>8, <3>2, <4>1, <5>1
      <4>3. ~Succeeded(4)
        BY <3>1 DEF UpTo, Succeeded
      <4>4. ctl' = Executed(c) => Masked'
        <5>1. Executed(c) = [ctl EXCEPT !.mask = c.args] /\ c.args = Reports(feat)
          BY <1>1, <3>2, <4>1, ExecutedFacts DEF Scripted
        <5>2. ctl' = Executed(c) => ctl'.mask = Reports(feat)
          BY <5>1 DEF TypeOK
        <5>3. QED
          BY <1>1, <5>2 DEF Masked
      <4>5. Fresh'
        BY <1>10, <3>1, <3>2, <4>1
      <4>6. Succeeded(4)' => Masked'
        BY <1>9, <4>3, <4>4
      <4>7. QED
        BY <2>3, <4>1, <4>2, <4>5, <4>6
    <3>4. CASE Len(inbox) # 1
      <4>1. Place(c.op) <= 3 /\ inbox' # <<>> /\ Len(inbox') \in DOMAIN inbox'
        BY <1>3, <1>4, <3>1, <3>4
      <4>2. inbox'[Len(inbox')] = Head(script)
        BY <1>4, <3>1, <4>1
      <4>3. \A i \in DOMAIN inbox' : i < Len(inbox') => Place(inbox'[i].op) <= 3
        BY <1>4, <3>1
      <4>4. QED
        BY <1>7, <1>8, <1>10, <2>3, <3>1, <4>1, <4>2, <4>3
    <3>5. QED
      BY <3>3, <3>4
  <2>4. QED
    BY <2>1, <2>2, <2>3 DEF At
<1>19. (At(5) \/ At(6)) => pc = "wait" /\ Alone /\ c = Head(script) /\ inbox' = <<>>
  <2>1. ASSUME At(5) \/ At(6) PROVE pc = "wait" /\ Alone
    BY <1>1, <1>13, <2>1 DEF Stage, OwnParameters, OwnEnable, At
  <2>2. Alone => c = Head(script) /\ inbox' = <<>>
    BY <1>1 DEF Alone
  <2>3. QED
    BY <2>1, <2>2
<1>20. OwnParameters'
  <2>1. SUFFICES ASSUME At(5)
                 PROVE  /\ Masked' /\ ctl'.scan = "off"
                        /\ inbox' = <<>> /\ UpTo(events', 5) /\ (Succeeded(5)' => Ready')
    BY <1>1, <1>15, <1>19 DEF OwnParameters
  <2>2. /\ pc = "wait" /\ c = Head(script) /\ inbox' = <<>>
        /\ Masked /\ Fresh /\ UpTo(events, 4)
    BY <1>1, <1>13, <1>19, <2>1 DEF Stage, OwnParameters
  <2>3. Scripted(c, feat) /\ Place(c.op) = 5
    BY <2>1, <2>2, ScriptFacts DEF SessionInv, At, Step
  <2>4. /\ Executed(c) = [ctl EXCEPT !.phys = c.args, !.used = ctl.used \cup {Mode(feat)}]
        /\ c.args = Phys(feat)
    BY <1>1, <2>3, ExecutedFacts DEF Scripted
  <2>5. LET d == Executed(c) IN /\ d.mask = ctl.mask /\ d.scan = ctl.scan
                                /\ d.phys = Phys(feat) /\ d.used = ctl.used \cup {Mode(feat)}
    BY <2>4 DEF TypeOK
  <2>6. Masked' /\ ctl'.scan = "off"
    BY <1>1, <1>2, <2>2, <2>5 DEF Masked, Fresh
  <2>7. UpTo(events', 5) /\ ~Succeeded(5)
    <3>1. UpTo(events, 5)
      BY <1>3, <2>2, UpToMore
    <3>2. ~Succeeded(5)
      BY <2>2 DEF UpTo, Succeeded
    <3>3. QED
      BY <1>7, <1>8, <2>3, <3>1, <3>2
  <2>8. ctl' = Executed(c) => Ready'
    BY <1>1, <2>2, <2>5 DEF Ready, Fresh
  <2>9. Succeeded(5)' => Ready'
    BY <1>9, <2>7, <2>8
  <2>10. QED
    BY <2>2, <2>6, <2>7, <2>9
<1>21. OwnEnable'
  <2>1. SUFFICES ASSUME At(6)
                 PROVE  /\ Masked' /\ Ready' /\ inbox' = <<>>
                        /\ (Succeeded(6)' => ctl'.scan = Mode(feat))
    BY <1>1, <1>15, <1>19 DEF OwnEnable
  <2>2. /\ pc = "wait" /\ c = Head(script) /\ inbox' = <<>>
        /\ Masked /\ Ready /\ UpTo(events, 5)
    BY <1>1, <1>13, <1>19, <2>1 DEF Stage, OwnEnable
  <2>3. Scripted(c, feat) /\ Place(c.op) = 6
    BY <2>1, <2>2, ScriptFacts DEF SessionInv, At, Step
  <2>4. Executed(c) = [ctl EXCEPT !.scan = Mode(feat), !.used = ctl.used \cup {Mode(feat)}]
    BY <1>1, <2>3, ExecutedFacts
  <2>5. LET d == Executed(c) IN /\ d.mask = ctl.mask /\ d.scan = Mode(feat)
                                /\ d.phys = ctl.phys /\ d.used = ctl.used \cup {Mode(feat)}
    BY <2>4 DEF TypeOK
  <2>6. Masked' /\ Ready'
    BY <1>1, <1>2, <2>2, <2>5 DEF Masked, Ready
  <2>7. ~Succeeded(6)
    BY <2>2 DEF UpTo, Succeeded
  <2>8. Succeeded(6)' => ctl'.scan = Mode(feat)
    BY <1>9, <2>5, <2>7
  <2>9. QED
    BY <2>2, <2>6, <2>8
<1>22. Scans'
  BY <1>1, <1>13 DEF Stage, Scans
<1>23. ~Bound' => events' = <<>>
  BY <1>1, <1>6 DEF Bound
<1>24. QED
  BY <1>1, <1>11, <1>12, <1>14, <1>16, <1>17, <1>18, <1>20, <1>21, <1>22, <1>23
     DEF SessionInv, Stage
-----------------------------------------------------------------------------
(* The theorems.                                                           *)

LEMMA InvStep ==
  ASSUME LateMax <= 3, TypeOK, SessionInv, [Next]_vars
  PROVE  SessionInv'
<1>1. ASSUME Down \/ Fault \/ Recover \/ PowerUp \/ Cancel \/ UNCHANGED vars PROVE SessionInv'
  <2>1. ASSUME Fault \/ Recover \/ PowerUp \/ Cancel \/ UNCHANGED vars
        PROVE  UNCHANGED <<pc, script, feat, dead, timing, features, inbox, events, ctl, refused>>
    BY <2>1 DEF Fault, Recover, PowerUp, Cancel, vars, hostVars, configVars, ctlVars
  <2>2. QED
    BY <1>1, <2>1, Unaffected, InvOpening
<1>2. QED
  BY <1>1, Steps, InvAnswer, InvChatter, InvUnplug, InvOpening, InvWrite, InvReadsPast,
     InvComplete, InvEnd DEF AdapterStep

\* What the invariant says to a session that listens.
LEMMA InvListens ==
  ASSUME TypeOK, SessionInv
  PROVE  ListeningIsScanning /\ NeverRefused
<1>1. SUFFICES ASSUME pc = "listen", ~dead PROVE ListeningIsScanning
  BY DEF SessionInv, NeverRefused, ListeningIsScanning
<1>2. Masked /\ Ready /\ ctl.scan = Mode(feat)
  BY <1>1 DEF SessionInv, Stage, Scans
<1>3. QED
  BY <1>2 DEF Masked, Ready, Mode, Reports, Phys, ListeningIsScanning

LEMMA InvHolds ==
  ASSUME LateMax <= 3
  PROVE  Spec => [](TypeOK /\ SessionInv)
<1>1. Init => TypeOK /\ Prepared /\ SessionInv
  BY TypeInit, InvInit
<1>2. (TypeOK /\ Prepared /\ SessionInv) /\ [Next]_vars => (TypeOK /\ Prepared /\ SessionInv)'
  BY TypeStep, InvStep
<1>3. QED
  BY <1>1, <1>2, PTL DEF Spec

\* While at most three commands outlive a closed channel, the controller is never
\* given a command it has to refuse, whatever sessions came before and whatever the
\* configuration says.
THEOREM AllAccepted ==
  ASSUME LateMax <= 3
  PROVE  Spec => []NeverRefused
<1>1. TypeOK /\ SessionInv => NeverRefused
  BY InvListens
<1>2. QED
  BY <1>1, InvHolds, PTL

\* Under the same condition a session that listens has a controller that scans as
\* the session has told it.
THEOREM HearsWhatItAskedFor ==
  ASSUME LateMax <= 3
  PROVE  Spec => []ListeningIsScanning
<1>1. TypeOK /\ SessionInv => ListeningIsScanning
  BY InvListens
<1>2. QED
  BY <1>1, InvHolds, PTL
=============================================================================
