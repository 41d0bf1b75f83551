----------------------------- MODULE HciScanner -----------------------------
(***************************************************************************)
(* The scanner of ruuvihome in hci mode, in time: the restart loop         *)
(* Scanner.Start of src/src/ble/scanner.go and the session it runs,        *)
(* runHCISession of src/src/ble/hci_linux.go, with its silence watchdog.   *)
(*                                                                         *)
(* One goroutine reads packets from the controller and calls the           *)
(* advertisement callback for each Ruuvi report.  The environment is the   *)
(* controller, which delivers packets, stops answering, is unplugged and   *)
(* comes back, and the signal that cancels the context.                    *)
(*                                                                         *)
(* Time passes in steps, and only while the goroutine waits: for a packet, *)
(* for the initialisation, in the callback and between two sessions.  The  *)
(* clock is kept as timers, what is left of the current wait and what      *)
(* time.Since(last) returns, so that no bound on the time is needed.       *)
(***************************************************************************)
EXTENDS Integers, Sequences

CONSTANTS
  Silence,      \* hciSilenceTimeout
  ReadTimeout,  \* hciReadTimeout
  RestartDelay, \* scanRestartDelay
  SetupMax,     \* the longest that openUserChannel and the commands can take
  HandlerMax,   \* the longest the callback can take
  TokenMax,     \* the longest it can take once the context is cancelled
  Packets,      \* the kinds of packets the controller sends
  SocketMax,    \* bound: packets waiting in the socket
  MaxSkips      \* bound: packets in a row that are not events

Reports == {"ruuvi", "other"}

\* event: whether the packet is an HCI event; reports: what parsing, reassembly
\* and manufacturerData make of its advertising reports.
Packet == [event : BOOLEAN, reports : Seq(Reports)]

ASSUME TimeAssumption ==
  /\ Silence \in Nat /\ SetupMax \in Nat /\ HandlerMax \in Nat /\ TokenMax \in Nat
  /\ ReadTimeout \in Nat \ {0}
  /\ RestartDelay \in Nat \ {0}

ASSUME PacketAssumption == Packets \subseteq Packet

ASSUME BoundAssumption == SocketMax \in Nat /\ MaxSkips \in Nat

VARIABLES
  pc,        \* where the goroutine is
  left,      \* what is left of its wait
  quiet,     \* time.Since(last)
  err,       \* the error of the last session: "nil", "setup", "read", "silence"
  socket,    \* packets the controller has delivered
  batch,     \* reports of the packet at hand, not yet looked at
  skipped,   \* packets skipped since the watchdog was last looked at
  adapter,   \* the controller: "ok"; "stuck", it does not answer or another
             \* program holds it; "gone"
  dead,      \* the socket's device has gone
  fresh,     \* history: a Ruuvi report arrived at this instant
  newest,    \* history: the age of the last one before this instant
  held,      \* history: how long the session's last callback has lasted
  cancelled, \* ctx.Done() is closed
  since      \* history: for how long

sessionVars == <<quiet, socket, batch, skipped>>
adapterVars == <<adapter, dead>>
historyVars == <<fresh, newest, held>>
cancelVars == <<cancelled, since>>
vars == <<pc, left, err, sessionVars, adapterVars, historyVars, cancelVars>>

\* The session reads the controller.
Scanning == pc \in {"loop", "read", "reports", "handle"}

Init ==
  /\ pc = "start" /\ left = 0 /\ err = "nil"
  /\ quiet = 0 /\ socket = <<>> /\ batch = <<>> /\ skipped = 0
  /\ adapter = "ok" /\ dead = FALSE
  /\ fresh = FALSE /\ newest = Silence + 1 /\ held = 0
  /\ cancelled = FALSE /\ since = 0
-----------------------------------------------------------------------------
(* Scanner.Start.                                                          *)

Begin ==
  /\ pc = "start" /\ ~cancelled
  /\ pc' = "setup" /\ left' = SetupMax /\ err' = "nil"
  /\ dead' = FALSE
  /\ UNCHANGED <<sessionVars, adapter, historyVars, cancelVars>>

Return ==
  /\ pc = "start" /\ cancelled
  /\ pc' = "returned"
  /\ UNCHANGED <<left, err, sessionVars, adapterVars, historyVars, cancelVars>>

\* Mutant: a failed session ends Start, as in a program without the loop.
Restart_Never(e) == pc' = "returned" /\ left' = 0 /\ err' = e

\* The session has failed; unless the context is cancelled there is another.
Restart(e) ==
  /\ err' = e
  /\ IF cancelled
       THEN pc' = "returned" /\ left' = 0
       ELSE pc' = "sleep" /\ left' = RestartDelay

\* What is in the socket is lost when the deferred Close runs.
Close == socket' = <<>> /\ batch' = <<>> /\ skipped' = 0 /\ UNCHANGED quiet

\* The sleep does not look at the context.
Wake ==
  /\ pc = "sleep" /\ left = 0
  /\ pc' = "start"
  /\ UNCHANGED <<left, err, sessionVars, adapterVars, historyVars, cancelVars>>
-----------------------------------------------------------------------------
(* runHCISession.                                                          *)

SetupFails ==
  /\ pc = "setup"
  /\ dead \/ adapter # "ok"
  /\ Restart("setup") /\ Close
  /\ UNCHANGED <<adapterVars, historyVars, cancelVars>>

\* The controller is reset and scans.  One that has been away may be back before
\* the last attempt to bind.
SetupSucceeds ==
  /\ pc = "setup"
  /\ adapter # "gone"
  /\ adapter' = "ok" /\ dead' = FALSE
  /\ pc' = "loop" /\ left' = 0
  /\ quiet' = 0 /\ held' = 0
  /\ UNCHANGED <<err, socket, batch, skipped, fresh, newest, cancelVars>>

\* The head of the loop: return nil once the context is cancelled.
LoopHead ==
  /\ pc = "loop"
  /\ IF cancelled
       THEN pc' = "returned" /\ left' = 0 /\ Close
       ELSE pc' = "read" /\ left' = ReadTimeout /\ UNCHANGED sessionVars
  /\ UNCHANGED <<err, adapterVars, historyVars, cancelVars>>

\* Mutant: the silence timeout counts twice.
Overdue_Twice == quiet > Silence + Silence

Overdue == quiet > Silence

\* The watchdog, after a read that timed out and after the reports of an event.
Watchdog ==
  IF Overdue
    THEN Restart("silence") /\ Close
    ELSE /\ pc' = "loop" /\ left' = 0 /\ skipped' = 0
         /\ UNCHANGED <<err, quiet, socket, batch>>

\* Mutant: last is set whenever Read returns.
ReadTimesOut_Feeds ==
  /\ pc = "read" /\ socket = <<>> /\ ~dead
  /\ pc' = "loop" /\ left' = 0 /\ skipped' = 0 /\ quiet' = 0
  /\ UNCHANGED <<err, socket, batch, adapterVars, historyVars, cancelVars>>

\* EAGAIN after ReadTimeout, or EINTR before.
ReadTimesOut ==
  /\ pc = "read" /\ socket = <<>> /\ ~dead
  /\ Watchdog
  /\ UNCHANGED <<adapterVars, historyVars, cancelVars>>

ReadFails ==
  /\ pc = "read" /\ dead
  /\ Restart("read") /\ Close
  /\ UNCHANGED <<adapterVars, historyVars, cancelVars>>

\* A packet that is not an event: the watchdog is not looked at.
ReadSkips ==
  /\ pc = "read" /\ ~dead /\ socket # <<>> /\ ~Head(socket).event
  /\ pc' = "loop" /\ left' = 0
  /\ socket' = Tail(socket) /\ skipped' = skipped + 1
  /\ UNCHANGED <<err, quiet, batch, adapterVars, historyVars, cancelVars>>

ReadEvent ==
  /\ pc = "read" /\ ~dead /\ socket # <<>> /\ Head(socket).event
  /\ pc' = "reports" /\ left' = 0
  /\ batch' = Head(socket).reports /\ socket' = Tail(socket)
  /\ UNCHANGED <<err, quiet, skipped, adapterVars, historyVars, cancelVars>>

\* Mutant: last is not set.
Heard_Forgotten == UNCHANGED quiet

\* last = time.Now(), before the callback.
Heard == quiet' = 0

\* Mutant: the callback takes its time although the context is cancelled.
Patience_Always == HandlerMax

\* The callback waits for the broker; once the context is cancelled no new wait
\* begins in it.
Patience == IF cancelled THEN 0 ELSE HandlerMax

NextReport ==
  /\ pc = "reports" /\ batch # <<>>
  /\ batch' = Tail(batch)
  /\ IF Head(batch) = "ruuvi"
       THEN Heard /\ pc' = "handle" /\ left' = Patience /\ held' = 0
       ELSE UNCHANGED <<quiet, pc, left, held>>
  /\ UNCHANGED <<err, socket, skipped, adapterVars, fresh, newest, cancelVars>>

HandlerReturns ==
  /\ pc = "handle"
  /\ pc' = "reports" /\ left' = 0
  /\ UNCHANGED <<err, sessionVars, adapterVars, historyVars, cancelVars>>

EventDone ==
  /\ pc = "reports" /\ batch = <<>>
  /\ Watchdog
  /\ UNCHANGED <<adapterVars, historyVars, cancelVars>>
-----------------------------------------------------------------------------
(* The controller, the clock and the signal.                               *)

Arrive(p) ==
  /\ Scanning /\ adapter = "ok" /\ ~dead
  /\ Len(socket) < SocketMax
  /\ p.event \/ skipped + Len(socket) < MaxSkips
  /\ socket' = Append(socket, p)
  /\ fresh' = (fresh \/ (p.event /\ \E i \in DOMAIN p.reports : p.reports[i] = "ruuvi"))
  /\ UNCHANGED <<pc, left, err, quiet, batch, skipped, adapterVars, newest, held,
                 cancelVars>>

Stick ==
  /\ adapter = "ok"
  /\ adapter' = "stuck"
  /\ UNCHANGED <<pc, left, err, sessionVars, dead, historyVars, cancelVars>>

Unplug ==
  /\ adapter # "gone"
  /\ adapter' = "gone" /\ dead' = TRUE
  /\ UNCHANGED <<pc, left, err, sessionVars, historyVars, cancelVars>>

Recover ==
  /\ adapter # "ok"
  /\ adapter' = "ok"
  /\ UNCHANGED <<pc, left, err, sessionVars, dead, historyVars, cancelVars>>

Smaller(a, b) == IF a < b THEN a ELSE b
Larger(a, b) == IF a < b THEN b ELSE a

\* SIGINT or SIGTERM.  A callback that waits is in the wait for one token.
Cancel ==
  /\ ~cancelled
  /\ cancelled' = TRUE
  /\ left' = IF pc = "handle" THEN Smaller(left, TokenMax) ELSE left
  /\ UNCHANGED <<pc, err, sessionVars, adapterVars, historyVars, since>>

\* Mutant: the socket has no SO_RCVTIMEO.
Waiting_Forever ==
  \/ pc \in {"setup", "handle", "sleep"} /\ left > 0
  \/ pc = "read" /\ socket = <<>> /\ ~dead

\* A read with something to return does not wait for its timeout.
Waiting ==
  /\ pc \in {"setup", "handle", "sleep"} \/ (pc = "read" /\ socket = <<>> /\ ~dead)
  /\ left > 0

Tick ==
  /\ Waiting
  /\ left' = left - 1
  /\ quiet' = IF Scanning THEN quiet + 1 ELSE quiet
  /\ newest' = IF fresh THEN 1 ELSE Smaller(newest + 1, Silence + 1)
  /\ fresh' = FALSE
  /\ held' = IF pc = "handle" THEN held + 1 ELSE held
  /\ since' = IF cancelled THEN since + 1 ELSE since
  /\ UNCHANGED <<pc, err, socket, batch, skipped, adapterVars, cancelled>>

Returned == pc = "returned" /\ UNCHANGED vars

ScannerStep ==
  \/ Begin \/ Return \/ Wake
  \/ SetupFails \/ SetupSucceeds
  \/ LoopHead \/ ReadTimesOut \/ ReadFails \/ ReadSkips \/ ReadEvent
  \/ NextReport \/ HandlerReturns \/ EventDone

AdapterStep ==
  pc # "returned" /\ (Stick \/ Unplug \/ Recover \/ \E p \in Packets : Arrive(p))

Next == ScannerStep \/ AdapterStep \/ Cancel \/ Tick \/ Returned

Spec == Init /\ [][Next]_vars

\* The goroutine runs, and time passes whenever it keeps waiting.  Nothing is
\* assumed of the controller or of the signals.
Fairness == WF_vars(ScannerStep) /\ SF_vars(Tick)

FairSpec == Spec /\ Fairness
-----------------------------------------------------------------------------
InputType == socket \in Seq(Packet) /\ batch \in Seq(Reports)

ControlType ==
  /\ pc \in {"start", "setup", "loop", "read", "reports", "handle", "sleep", "returned"}
  /\ left \in Nat /\ quiet \in Nat /\ skipped \in Nat
  /\ err \in {"nil", "setup", "read", "silence"}
  /\ adapter \in {"ok", "stuck", "gone"} /\ dead \in BOOLEAN
  /\ fresh \in BOOLEAN /\ newest \in 0..(Silence + 1) /\ held \in Nat
  /\ cancelled \in BOOLEAN /\ since \in Nat

\* Every variable holds what the code can store in it; no wait goes on beyond its
\* timeout.
TypeOK == InputType /\ ControlType

\* The watchdog is in time: a session goes on without a Ruuvi report for at most
\* the silence timeout and one read timeout, or for one long callback.  Each
\* packet that is not an event puts it off by one more read.
SilenceNoticed ==
  Scanning => quiet <= Larger(HandlerMax, Silence + ReadTimeout * (skipped + 1))

\* The watchdog cries wolf for one reason only: when a session ends for silence,
\* no Ruuvi report had arrived within the silence timeout, reports of this very
\* instant aside, or the last callback alone lasted longer than that, and what
\* arrived meanwhile waits in the socket.
NoFalseAlarm ==
  [][err # "silence" /\ err' = "silence" => newest > Silence \/ held > Silence]_vars

\* What the comment of hci_linux.go:104 says: a session ends for silence only when
\* nothing has been heard for hciSilenceTimeout.  A callback longer than that
\* refutes it.
SilenceOnly == [][err # "silence" /\ err' = "silence" => newest > Silence]_vars

\* Start returns at the latest when the longest of its waits is over: a signal
\* is never followed by two of them.
ShutdownMax == Larger(Larger(RestartDelay, SetupMax), Larger(ReadTimeout, TokenMax))

ShutdownBounded == cancelled /\ pc # "returned" => since <= ShutdownMax

\* A controller that comes back to stay is scanned again, whatever happened.
Recovery == <>[](adapter = "ok") => []<>(Scanning \/ cancelled)

\* A session does not stay with a controller that no longer answers.
StuckIsLeft == Scanning /\ adapter = "stuck" ~> ~Scanning \/ adapter # "stuck"
=============================================================================
