----------------------------- MODULE HciSession -----------------------------
(***************************************************************************)
(* How a session of the hci mode takes the controller: openUserChannel,    *)
(* hciCmd and the first half of runHCISession of src/src/ble/hci_linux.go, *)
(* with cmdResult and scanUnits of src/src/ble/hci_parse.go.  HciScanner   *)
(* has all of this as one wait with two ends.                              *)
(*                                                                         *)
(* The controller executes commands in the order it gets them and answers  *)
(* each by one event.  It may be too slow, fail a command or be unplugged; *)
(* commands of a session that gave up may still be executed and answered   *)
(* while the next session waits for answers of its own.                    *)
(***************************************************************************)
EXTENDS Integers, Sequences

CONSTANTS
  Timings,   \* <<scan_interval, scan_window>> of the configuration, in microseconds
  BindTries, \* attempts of openUserChannel
  LateMax,   \* bound: commands a closed channel leaves with the controller
  EventMax   \* bound: events that wait in the socket

ASSUME HciAssumption ==
  /\ Timings \subseteq Int \X Int /\ BindTries \in Nat \ {0}
  /\ LateMax \in Nat /\ EventMax \in Nat \ {0}

VARIABLES
  pc,        \* where the goroutine is
  tries,     \* attempts to bind so far
  script,    \* commands still to be sent, the one being waited for first
  feat,      \* the features the session knows of
  sockets,   \* open sockets
  dead,      \* the socket's device has gone
  cancelled, \* ctx.Done() is closed
  timing,    \* scan_interval and scan_window
  features,  \* the controller's features
  adapter,   \* "ok"; "faulty", it may fail and be late; "gone"
  powered,   \* bluetoothd has powered the adapter up
  inbox,     \* commands with the controller
  events,    \* events in the socket
  ctl,       \* what the controller has been told since it was reset
  refused    \* history: the controller has got a command it must refuse

hostVars == <<tries, script, feat, sockets>>
configVars == <<timing, features>>
ctlVars == <<inbox, events, ctl, refused>>
vars == <<pc, hostVars, dead, cancelled, configVars, adapter, powered, ctlVars>>

Bound == pc \in {"send", "wait", "listen"}
-----------------------------------------------------------------------------
(* The commands.                                                           *)

Cmd(op, args, interval, window) ==
  [op |-> op, args |-> args, interval |-> interval, window |-> window]

Plain(op, args) == Cmd(op, args, 0, 0)

Smaller(a, b) == IF a < b THEN a ELSE b
Larger(a, b) == IF a < b THEN b ELSE a

\* The range of the scan parameters, in units of 625 microseconds.
ScanMin == 4
ScanMax == 16384

\* A time in microseconds as units of 625: the default for none, else clamped.
ScanUnits(us) ==
  IF us <= 0 THEN 16 ELSE Smaller(Larger(us \div 625, ScanMin), ScanMax)

Window == Smaller(ScanUnits(timing[2]), ScanUnits(timing[1]))

\* Mutant: the controller is taken as it is.
FirstSteps_NoReset == <<Plain("SetEventMask", {}), Plain("LEReadFeatures", {})>>

FirstSteps ==
  <<Plain("Reset", {}), Plain("SetEventMask", {}), Plain("LEReadFeatures", {})>>

\* Mutant: the extended scan is used whatever the controller says.
ScanSteps_Ext(f) ==
  <<Plain("LESetEventMask", {"legacy", "ext"}),
    Cmd("LESetExtScanPar", {"1M"}, ScanUnits(timing[1]), Window), Plain("LESetExtScanEn", {})>>

\* Extended scanning where the controller has it, on the coded PHY as well where
\* it has that; otherwise legacy scanning.
ScanSteps(f) ==
  LET ext == "ext" \in f
      phys == {"1M"} \cup (IF ext THEN f \cap {"coded"} ELSE {})
  IN  <<Plain("LESetEventMask", IF ext THEN {"legacy", "ext"} ELSE {"legacy"}),
        Cmd(IF ext THEN "LESetExtScanPar" ELSE "LESetScanParam", phys, ScanUnits(timing[1]),
            Window),
        Plain(IF ext THEN "LESetExtScanEn" ELSE "LESetScanEnable", {})>>
-----------------------------------------------------------------------------
(* The controller.                                                         *)

PowerOn == [mask |-> {"legacy"}, phys |-> {}, scan |-> "off", used |-> {}]

KindOf(op) ==
  IF op \in {"LESetExtScanPar", "LESetExtScanEn"} THEN "ext"
  ELSE IF op \in {"LESetScanParam", "LESetScanEnable"} THEN "legacy" ELSE "none"

\* A command the controller accepts: what it supports, no legacy and extended scan
\* commands after one reset, no new parameters while it scans, parameters in
\* range, parameters before the scan.
Acceptable(c) ==
  LET kind == KindOf(c.op) IN
    /\ kind = "ext" => "ext" \in features
    /\ kind # "none" => ctl.used \subseteq {kind}
    /\ c.op \in {"LESetExtScanPar", "LESetScanParam"} =>
         /\ ctl.scan = "off"
         /\ c.interval \in ScanMin..ScanMax /\ c.window \in ScanMin..c.interval
         /\ "coded" \in c.args => "coded" \in features
    /\ c.op \in {"LESetExtScanEn", "LESetScanEnable"} => ctl.phys # {}

Executed(c) ==
  LET used == ctl.used \cup ({KindOf(c.op)} \ {"none"}) IN
    CASE c.op = "Reset" -> PowerOn
      [] c.op = "LESetEventMask" -> [ctl EXCEPT !.mask = c.args]
      [] c.op \in {"LESetExtScanPar", "LESetScanParam"} ->
           [ctl EXCEPT !.phys = c.args, !.used = used]
      [] c.op \in {"LESetExtScanEn", "LESetScanEnable"} ->
           [ctl EXCEPT !.scan = KindOf(c.op), !.used = used]
      [] OTHER -> ctl

Event(op, status, ret) == [op |-> op, status |-> status, ret |-> ret]

\* An event reaches the socket that is bound.
Emit(e) == events' = IF Bound /\ ~dead THEN Append(events, e) ELSE events

\* Command Complete with the return parameters, or Command Status without.
Answer ==
  /\ adapter # "gone" /\ inbox # <<>>
  /\ inbox' = Tail(inbox)
  /\ LET c == Head(inbox) IN
       \/ /\ Acceptable(c)
          /\ ctl' = Executed(c)
          /\ \E ret \in {features, {}} :
               Emit(Event(c.op, "ok", IF c.op = "LEReadFeatures" THEN ret ELSE {}))
          /\ UNCHANGED refused
       \/ /\ ~Acceptable(c)
          /\ refused' = TRUE /\ Emit(Event(c.op, "error", {}))
          /\ UNCHANGED ctl
       \/ /\ adapter = "faulty"
          /\ Emit(Event(c.op, "error", {}))
          /\ UNCHANGED <<ctl, refused>>
  /\ UNCHANGED <<pc, hostVars, dead, cancelled, configVars, adapter, powered>>

\* Anything else the read can return: another event, a short one, no event.
Chatter ==
  /\ Bound /\ ~dead /\ adapter # "gone" /\ Len(events) < EventMax
  /\ events' = Append(events, Event("none", "ok", {}))
  /\ UNCHANGED <<pc, hostVars, dead, cancelled, configVars, adapter, powered, inbox, ctl, refused>>

Fault ==
  /\ adapter = "ok"
  /\ adapter' = "faulty"
  /\ UNCHANGED <<pc, hostVars, dead, cancelled, configVars, powered, ctlVars>>

\* The device is unplugged, or the USB port is reset.
Unplug ==
  /\ adapter # "gone"
  /\ adapter' = "gone" /\ dead' = Bound
  /\ inbox' = <<>> /\ ctl' = PowerOn
  /\ UNCHANGED <<pc, hostVars, cancelled, configVars, powered, events, refused>>

Recover ==
  /\ adapter # "ok"
  /\ adapter' = "ok"
  /\ UNCHANGED <<pc, hostVars, dead, cancelled, configVars, powered, ctlVars>>

\* bluetoothd powers an adapter up that nobody has taken.
PowerUp ==
  /\ ~powered /\ ~Bound
  /\ powered' = TRUE
  /\ UNCHANGED <<pc, hostVars, dead, cancelled, configVars, adapter, ctlVars>>
-----------------------------------------------------------------------------
(* The session.                                                            *)

Init ==
  /\ pc = "idle" /\ tries = 0 /\ script = <<>> /\ feat = {} /\ sockets = 0
  /\ dead = FALSE /\ cancelled = FALSE
  /\ timing \in Timings /\ features \in SUBSET {"ext", "coded"}
  /\ adapter = "ok" /\ powered \in BOOLEAN
  /\ inbox = <<>> /\ events = <<>> /\ ctl = PowerOn /\ refused = FALSE

\* A session begins with its socket.  When there is none to be had, socket() fails
\* before anything is opened or sent, and Start waits and comes back here: nothing
\* of this module changes.
Begin ==
  /\ pc = "idle"
  /\ IF cancelled
       THEN pc' = "returned" /\ UNCHANGED hostVars
       ELSE /\ pc' = "down" /\ sockets' = sockets + 1
            /\ tries' = 0 /\ script' = FirstSteps /\ feat' = {}
  /\ UNCHANGED <<dead, cancelled, configVars, adapter, powered, ctlVars>>

\* HCIDEVDOWN.
Down ==
  /\ pc = "down"
  /\ pc' = "bind" /\ powered' = FALSE
  /\ UNCHANGED <<hostVars, dead, cancelled, configVars, adapter, ctlVars>>

Bind ==
  /\ pc = "bind" /\ ~powered /\ adapter # "gone"
  /\ pc' = "send"
  /\ UNCHANGED <<hostVars, dead, cancelled, configVars, adapter, powered, ctlVars>>

\* Mutant: the descriptor of a failed bind is not closed.
GiveUp_Leak == UNCHANGED sockets

GiveUp == sockets' = sockets - 1

MoreTries == tries + 1 < BindTries

BindFails ==
  /\ pc = "bind" /\ (powered \/ adapter = "gone")
  /\ tries' = tries + 1
  /\ IF MoreTries
       THEN pc' = "down" /\ UNCHANGED sockets
       ELSE pc' = "idle" /\ GiveUp
  /\ UNCHANGED <<script, feat, dead, cancelled, configVars, adapter, powered, ctlVars>>

\* The deferred Close.  The controller may be reset with it, or go on scanning and
\* execute later the commands it has.
End ==
  /\ pc' = "idle" /\ sockets' = sockets - 1
  /\ dead' = FALSE /\ events' = <<>>
  /\ \/ inbox' = <<>> /\ ctl' = PowerOn
     \/ inbox' = SubSeq(inbox, 1, Smaller(LateMax, Len(inbox))) /\ ctl' = ctl
  /\ UNCHANGED <<tries, script, feat, cancelled, configVars, adapter, powered, refused>>

Write ==
  /\ pc = "send" /\ ~dead
  /\ pc' = "wait" /\ inbox' = Append(inbox, Head(script))
  /\ UNCHANGED <<hostVars, dead, cancelled, configVars, adapter, powered, events, ctl, refused>>

\* Mutant: cmdResult does not compare the opcode.
Completes_Any(e) == e.op # "none"

\* cmdResult: a Command Complete or a Command Status of this command.
Completes(e) == e.op = Head(script).op

Skip ==
  /\ pc = "wait" /\ ~dead /\ events # <<>> /\ ~Completes(Head(events))
  /\ events' = Tail(events)
  /\ UNCHANGED <<pc, hostVars, dead, cancelled, configVars, adapter, powered, inbox, ctl, refused>>

Refused ==
  /\ pc = "wait" /\ ~dead /\ events # <<>>
  /\ Completes(Head(events)) /\ Head(events).status # "ok"
  /\ End

Complete ==
  /\ pc = "wait" /\ ~dead /\ events # <<>>
  /\ Completes(Head(events)) /\ Head(events).status = "ok"
  /\ events' = Tail(events)
  /\ IF Head(script).op = "LEReadFeatures"
       THEN feat' = Head(events).ret /\ script' = ScanSteps(Head(events).ret)
       ELSE feat' = feat /\ script' = Tail(script)
  /\ pc' = IF script' = <<>> THEN "listen" ELSE "send"
  /\ UNCHANGED <<tries, sockets, dead, cancelled, configVars, adapter, powered, inbox, ctl,
                 refused>>

\* hciCmdTimeout; a controller in order answers in time.
Timeout == pc = "wait" /\ ~dead /\ adapter = "faulty" /\ End

\* A write or a read on a device that has gone.
DeviceGone == Bound /\ dead /\ End

\* The loop reads on: an event of a command is nothing to it.
Listen ==
  /\ pc = "listen" /\ ~dead /\ events # <<>>
  /\ events' = Tail(events)
  /\ UNCHANGED <<pc, hostVars, dead, cancelled, configVars, adapter, powered, inbox, ctl, refused>>

\* hciSilenceTimeout, whatever the controller does: there may be no tag in reach.
Silent == pc = "listen" /\ ~dead /\ End

\* return nil: Start returns as well.
Stop == pc = "listen" /\ cancelled /\ End

Cancel ==
  /\ ~cancelled
  /\ cancelled' = TRUE
  /\ UNCHANGED <<pc, hostVars, dead, configVars, adapter, powered, ctlVars>>

Returned == pc = "returned" /\ UNCHANGED vars

SessionStep ==
  \/ Begin \/ Down \/ Bind \/ BindFails \/ Write \/ Skip \/ Refused \/ Complete
  \/ Timeout \/ DeviceGone \/ Listen \/ Stop

AdapterStep == pc # "returned" /\ (Chatter \/ Fault \/ Unplug \/ Recover \/ PowerUp)

Next == SessionStep \/ Silent \/ Answer \/ AdapterStep \/ Cancel \/ Returned

\* The goroutine runs, and a controller in order answers.
Fairness == WF_vars(SessionStep) /\ WF_vars(adapter = "ok" /\ Answer)

Spec == Init /\ [][Next]_vars /\ Fairness
-----------------------------------------------------------------------------
Ops == {"Reset", "SetEventMask", "LEReadFeatures", "LESetEventMask", "LESetExtScanPar",
        "LESetExtScanEn", "LESetScanParam", "LESetScanEnable"}

Arguments == {"legacy", "ext", "1M", "coded"}

Command == [op : Ops, args : SUBSET Arguments, interval : 0..ScanMax, window : 0..ScanMax]

Answers == [op : Ops \cup {"none"}, status : {"ok", "error"}, ret : SUBSET {"ext", "coded"}]

\* Every variable holds what the code can store in it; the channel is bound after
\* at most BindTries attempts, and sessions that fail leave no socket behind.
TypeOK ==
  /\ pc \in {"idle", "down", "bind", "send", "wait", "listen", "returned"}
  /\ tries \in 0..BindTries /\ (pc \in {"down", "bind"} => tries < BindTries)
  /\ script \in Seq(Command) /\ (pc \in {"send", "wait"} => script # <<>>)
  /\ feat \subseteq {"ext", "coded"}
  /\ sockets = IF pc \in {"idle", "returned"} THEN 0 ELSE 1
  /\ dead \in BOOLEAN /\ cancelled \in BOOLEAN /\ powered \in BOOLEAN /\ refused \in BOOLEAN
  /\ timing \in Timings /\ features \subseteq {"ext", "coded"}
  /\ adapter \in {"ok", "faulty", "gone"}
  /\ ctl \in [mask : SUBSET Arguments, phys : SUBSET Arguments,
             scan : {"off", "legacy", "ext"}, used : SUBSET {"legacy", "ext"}]
  /\ inbox \in Seq(Command)
  /\ events \in Seq(Answers)

\* A session that listens is told what the controller hears: the controller scans,
\* in the mode the session has chosen, on the PHYs it has, with reports of that mode
\* unmasked.  Answers of an earlier session are never taken for the last steps.
ListeningIsScanning ==
  pc = "listen" /\ ~dead =>
    /\ ctl.scan = IF "ext" \in feat THEN "ext" ELSE "legacy"
    /\ ctl.scan \in ctl.mask
    /\ ctl.phys = {"1M"} \cup (IF "ext" \in feat THEN feat \cap {"coded"} ELSE {})

\* Whatever came before a session and whatever the configuration says, the
\* controller is never given a command it has to refuse: legacy and extended scan
\* commands are not mixed, a scan is not reconfigured while it runs, the window
\* fits in the interval.
NeverRefused == ~refused

\* A controller in order, left alone by bluetoothd, is listened to again and again.
Listens == <>[](adapter = "ok" /\ ~powered) => []<>(pc = "listen" \/ cancelled)
=============================================================================
