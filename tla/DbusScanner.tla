---------------------------- MODULE DbusScanner ----------------------------
(***************************************************************************)
(* The scanner of ruuvihome over BlueZ and D-Bus: Scanner.Start of         *)
(* src/src/ble/scanner.go with its runScanSession, the signals it selects  *)
(* on, and the cache of signal strengths in handleDeviceProperties.        *)
(*                                                                         *)
(* The environment is BlueZ, the bus daemon and the godbus connection: a   *)
(* call on the connection returns when it is answered, or when BlueZ or    *)
(* the connection is gone, and has no timeout of its own.  A connection    *)
(* that closes closes the signal channel.                                  *)
(*                                                                         *)
(* Of the time only what the watchdog tells apart is kept: whether         *)
(* time.Since(lastSignal) exceeds signalSilenceTimeout.  The values of a   *)
(* device's RSSI are numbered, a new number for each change.               *)
(***************************************************************************)
EXTENDS Naturals, Sequences

CONSTANTS
  Paths,        \* the devices BlueZ hears
  FilterMode,   \* cfg.Processing.FilterMode
  Configured,   \* the paths of cfg.Devices
  ChannelSize,  \* signalChBuffer; the environment never fills it
  MaxLevel      \* bound: changes of a device's RSSI

ASSUME FilterAssumption ==
  FilterMode \in {"all", "named"} /\ Paths # {} /\ Configured \subseteq Paths
ASSUME BoundAssumption == ChannelSize \in Nat /\ MaxLevel \in Nat

VARIABLES
  pc,          \* where Start and the session are
  err,         \* what the session returns, "nil" or another
  silent,      \* time.Since(lastSignal) > signalSilenceTimeout
  cache,       \* lastRSSI; 0 where there is no entry
  signal,      \* the signal at hand
  rssi,        \* what the handler is called with
  conn,        \* s.bus: "none", "open", "closed"
  channel,     \* signalCh
  subscribed,  \* signalCh is registered
  bluez,       \* "ok", "stuck" (it does not answer), "gone" (no daemon or no adapter)
  busUp,       \* the bus daemon runs
  discovering, \* BlueZ discovers for this connection
  known,       \* the devices BlueZ has an object for
  level,       \* their RSSI
  cancelled    \* ctx.Done() is closed

loopVars == <<pc, err>>
signalVars == <<silent, cache, signal, rssi>>
connVars == <<conn, channel, subscribed>>
bluezVars == <<bluez, busUp, known, level>>
vars == <<loopVars, signalVars, connVars, bluezVars, discovering, cancelled>>

\* A signal about a Device1: whether it carries Ruuvi manufacturer data, and the
\* RSSI or 0 when it is left out; history: the RSSI when it was sent.
Signal == [path : Paths, ruuvi : BOOLEAN, rssi : Nat, was : Nat]

NoSignal == [path |-> CHOOSE p \in Paths : TRUE, ruuvi |-> FALSE, rssi |-> 0, was |-> 0]

Empty == [p \in Paths |-> 0]

Init ==
  /\ pc = "start" /\ err = "nil"
  /\ silent = FALSE /\ cache = Empty /\ signal = NoSignal /\ rssi = 0
  /\ conn = "none" /\ channel = <<>> /\ subscribed = FALSE
  /\ bluez = "ok" /\ busUp = TRUE /\ discovering = FALSE /\ known = {} /\ level = Empty
  /\ cancelled = FALSE
-----------------------------------------------------------------------------
(* Scanner.Start, and the ends of a session.                               *)

Begin ==
  /\ pc = "start" /\ ~cancelled
  /\ pc' = "connect" /\ err' = "nil"
  /\ UNCHANGED <<signalVars, connVars, bluezVars, discovering, cancelled>>

Return ==
  /\ pc = "start" /\ cancelled
  /\ pc' = "returned"
  /\ UNCHANGED <<err, signalVars, connVars, bluezVars, discovering, cancelled>>

Wake ==
  /\ pc = "sleep"
  /\ pc' = "start"
  /\ UNCHANGED <<err, signalVars, connVars, bluezVars, discovering, cancelled>>

\* The deferred bus.Close(), and what Start does about the result: BlueZ ends the
\* discovery of a client that has gone.
EndSession(e) ==
  /\ err' = e
  /\ conn' = "none" /\ channel' = <<>> /\ subscribed' = FALSE /\ discovering' = FALSE
  /\ pc' = IF e # "nil" /\ ~cancelled THEN "sleep" ELSE "returned"
  /\ UNCHANGED <<signalVars, bluezVars, cancelled>>
-----------------------------------------------------------------------------
(* runScanSession up to its loop.                                          *)

\* A call returns.
Answered == conn = "closed" \/ bluez # "stuck"

\* It returns without error.
Works == conn = "open" /\ bluez = "ok"

Connect ==
  /\ pc = "connect" /\ busUp
  /\ pc' = "find" /\ conn' = "open"
  /\ UNCHANGED <<err, signalVars, channel, subscribed, bluezVars, discovering, cancelled>>

ConnectFails == pc = "connect" /\ ~busUp /\ EndSession("bus")

FindAdapter ==
  /\ pc = "find" /\ Works
  /\ pc' = "prepare"
  /\ UNCHANGED <<err, signalVars, connVars, bluezVars, discovering, cancelled>>

FindAdapterFails == pc = "find" /\ Answered /\ ~Works /\ EndSession("adapter")

\* Powered, SetDiscoveryFilter, StopDiscovery: their errors are ignored, their
\* answers waited for.  The settle delay follows.
Prepare ==
  /\ pc = "prepare" /\ Answered
  /\ pc' = "subscribe"
  /\ UNCHANGED <<err, signalVars, connVars, bluezVars, discovering, cancelled>>

\* Mutant: the cache is made once, in NewScanner.
NewCache_Kept == UNCHANGED cache

\* Mutant: the session drops the cache and makes no other.
NewCache_None == cache' = <<>>

NewCache == cache' = Empty

\* AddMatch is answered by the bus daemon.
Subscribe ==
  /\ pc = "subscribe" /\ conn = "open"
  /\ pc' = "discover" /\ NewCache /\ channel' = <<>> /\ subscribed' = TRUE
  /\ UNCHANGED <<err, silent, signal, rssi, conn, bluezVars, discovering, cancelled>>

SubscribeFails == pc = "subscribe" /\ conn = "closed" /\ EndSession("match")

StartDiscovery ==
  /\ pc = "discover" /\ Works
  /\ pc' = "select" /\ silent' = FALSE /\ discovering' = TRUE
  /\ UNCHANGED <<err, cache, signal, rssi, connVars, bluezVars, cancelled>>

StartDiscoveryFails == pc = "discover" /\ Answered /\ ~Works /\ EndSession("discover")
-----------------------------------------------------------------------------
(* Its loop.                                                               *)

\* Mutant: the select has no case for the context.
SelectDone_Never == FALSE /\ UNCHANGED vars

SelectDone ==
  /\ pc = "select" /\ cancelled
  /\ pc' = "stop" /\ err' = "nil"
  /\ UNCHANGED <<signalVars, connVars, bluezVars, discovering, cancelled>>

\* Mutant: the watchdog only looks when a signal has come.
SelectTick_AfterSignal ==
  /\ pc = "select" /\ silent /\ channel # <<>>
  /\ pc' = "stop" /\ err' = "silence"
  /\ UNCHANGED <<signalVars, connVars, bluezVars, discovering, cancelled>>

\* The ticker, once there has been silence.
SelectTick ==
  /\ pc = "select" /\ silent
  /\ pc' = "stop" /\ err' = "silence"
  /\ UNCHANGED <<signalVars, connVars, bluezVars, discovering, cancelled>>

\* A receive from the closed channel yields a nil signal, once it is empty, and
\* processSignal reads its name.
SelectClosed ==
  /\ pc = "select" /\ conn = "closed" /\ channel = <<>>
  /\ pc' = "panicked"
  /\ UNCHANGED <<err, signalVars, connVars, bluezVars, discovering, cancelled>>

Receive ==
  /\ pc = "select" /\ channel # <<>>
  /\ channel' = Tail(channel)
  /\ UNCHANGED <<err, silent, conn, subscribed, bluezVars, discovering, cancelled>>

Ignore ==
  /\ Receive
  /\ ~Head(channel).ruuvi
  /\ UNCHANGED <<pc, cache, signal, rssi>>

Handle(value) ==
  /\ pc' = "handle" /\ rssi' = value
  /\ cache' = IF value = 0 THEN cache ELSE [cache EXCEPT ![signal'.path] = value]

\* The RSSI is in the signal, or in the cache.
TakeRSSI ==
  LET s == Head(channel)
  IN  /\ Receive
      /\ s.ruuvi
      /\ s.rssi # 0 \/ cache[s.path] # 0
      /\ signal' = s
      /\ Handle(IF s.rssi # 0 THEN s.rssi ELSE cache[s.path])

AskRSSI ==
  LET s == Head(channel)
  IN  /\ Receive
      /\ s.ruuvi
      /\ s.rssi = 0 /\ cache[s.path] = 0
      /\ signal' = s
      /\ pc' = "ask"
      /\ UNCHANGED <<cache, rssi>>

\* GetProperty returns what BlueZ has now.
Told ==
  /\ pc = "ask" /\ Answered
  /\ UNCHANGED signal
  /\ Handle(IF Works /\ signal.path \in known THEN level[signal.path] ELSE 0)
  /\ UNCHANGED <<err, silent, connVars, bluezVars, discovering, cancelled>>

HandlerReturns ==
  /\ pc = "handle"
  /\ pc' = "select" /\ silent' = FALSE
  /\ UNCHANGED <<err, cache, signal, rssi, connVars, bluezVars, discovering, cancelled>>

\* The deferred StopDiscovery, whose answer is waited for.
Stop == pc = "stop" /\ Answered /\ EndSession(err)
-----------------------------------------------------------------------------
(* BlueZ, the bus, the clock and the signal that ends the process.         *)

\* matchRules.
Matched == IF FilterMode # "named" \/ Configured = {} THEN Paths ELSE Configured

Reaches(p) == conn = "open" /\ subscribed /\ discovering /\ p \in Matched

Post(s) ==
  /\ Reaches(s.path) => Len(channel) < ChannelSize
  /\ channel' = IF Reaches(s.path) THEN Append(channel, s) ELSE channel

\* An advertisement of a Ruuvi tag; the RSSI is in the signal when it has changed
\* or the object is new.
Advertise(p) ==
  /\ bluez = "ok"
  /\ \E changed \in {TRUE, p \notin known} :
       LET now == IF changed THEN level[p] + 1 ELSE level[p]
       IN  /\ now <= MaxLevel
           /\ level' = [level EXCEPT ![p] = now]
           /\ Post([path |-> p, ruuvi |-> TRUE, rssi |-> IF changed THEN now ELSE 0, was |-> now])
  /\ known' = known \union {p}
  /\ UNCHANGED <<loopVars, signalVars, conn, subscribed, bluez, busUp, discovering, cancelled>>

\* Another property of a device changes.
Chatter(p) ==
  /\ bluez = "ok" /\ p \in known /\ Reaches(p)
  /\ Post([path |-> p, ruuvi |-> FALSE, rssi |-> 0, was |-> level[p]])
  /\ UNCHANGED <<loopVars, signalVars, conn, subscribed, bluezVars, discovering, cancelled>>

Forget(p) ==
  /\ bluez = "ok" /\ p \in known
  /\ known' = known \ {p}
  /\ UNCHANGED <<loopVars, signalVars, connVars, bluez, busUp, level, discovering, cancelled>>

BlueZSticks ==
  /\ bluez = "ok"
  /\ bluez' = "stuck"
  /\ UNCHANGED <<loopVars, signalVars, connVars, busUp, known, level, discovering, cancelled>>

BlueZGoes ==
  /\ bluez # "gone"
  /\ bluez' = "gone" /\ known' = {} /\ discovering' = FALSE
  /\ UNCHANGED <<loopVars, signalVars, connVars, busUp, level, cancelled>>

BlueZReturns ==
  /\ bluez # "ok" /\ busUp
  /\ bluez' = "ok"
  /\ UNCHANGED <<loopVars, signalVars, connVars, busUp, known, level, discovering, cancelled>>

BusGoes ==
  /\ busUp
  /\ busUp' = FALSE /\ bluez' = "gone" /\ known' = {} /\ discovering' = FALSE
  /\ conn' = IF conn = "open" THEN "closed" ELSE conn
  /\ UNCHANGED <<loopVars, signalVars, channel, subscribed, level, cancelled>>

BusReturns ==
  /\ ~busUp
  /\ busUp' = TRUE
  /\ UNCHANGED <<loopVars, signalVars, connVars, bluez, known, level, discovering, cancelled>>

FallSilent ==
  /\ pc = "select" /\ channel = <<>> /\ ~silent
  /\ silent' = TRUE
  /\ UNCHANGED <<loopVars, cache, signal, rssi, connVars, bluezVars, discovering, cancelled>>

Cancel ==
  /\ ~cancelled
  /\ cancelled' = TRUE
  /\ UNCHANGED <<loopVars, signalVars, connVars, bluezVars, discovering>>

Ended == pc \in {"returned", "panicked"} /\ UNCHANGED vars

SessionStep ==
  \/ Connect \/ ConnectFails \/ FindAdapter \/ FindAdapterFails
  \/ Prepare \/ Subscribe \/ SubscribeFails \/ StartDiscovery \/ StartDiscoveryFails
  \/ SelectDone \/ SelectTick \/ SelectClosed
  \/ Ignore \/ TakeRSSI \/ AskRSSI \/ Told \/ HandlerReturns \/ Stop

ScannerStep == Begin \/ Return \/ Wake \/ SessionStep

BlueZStep ==
  /\ pc \notin {"returned", "panicked"}
  /\ \/ BlueZSticks \/ BlueZGoes \/ BlueZReturns \/ BusGoes \/ BusReturns
     \/ \E p \in Paths : Advertise(p) \/ Chatter(p) \/ Forget(p)

Next == ScannerStep \/ BlueZStep \/ FallSilent \/ Cancel \/ Ended

Spec == Init /\ [][Next]_vars

\* The goroutine runs; select takes every case that is ready often enough; time
\* passes however often signals interrupt the wait.  Nothing is assumed of BlueZ
\* and the bus.
Fairness ==
  /\ WF_vars(ScannerStep)
  /\ SF_vars(SelectDone) /\ SF_vars(SelectTick) /\ SF_vars(FallSilent)

FairSpec == Spec /\ Fairness
-----------------------------------------------------------------------------
\* Every variable holds what the code can store in it.
TypeOK ==
  /\ pc \in {"start", "connect", "find", "prepare", "subscribe", "discover", "select",
             "ask", "handle", "stop", "sleep", "returned", "panicked"}
  /\ err \in {"nil", "bus", "adapter", "match", "discover", "silence"}
  /\ silent \in BOOLEAN /\ cache \in [Paths -> Nat] /\ signal \in Signal /\ rssi \in Nat
  /\ conn \in {"none", "open", "closed"}
  /\ channel \in Seq(Signal) /\ Len(channel) <= ChannelSize
  /\ subscribed \in BOOLEAN /\ discovering \in BOOLEAN /\ cancelled \in BOOLEAN
  /\ bluez \in {"ok", "stuck", "gone"} /\ busUp \in BOOLEAN
  /\ known \subseteq Paths /\ level \in [Paths -> Nat]

\* An RSSI that was left out because it had not changed is found again: the
\* handler is called with one the device had when the signal was sent, or later,
\* or with none.
RssiIsCurrent == pc = "handle" => rssi = 0 \/ (signal.was <= rssi /\ rssi <= level[signal.path])

\* Once the bus and BlueZ work for good, whatever happened before, the scanner
\* discovers again; a panic is the one exception.
Recovery == <>[](busUp /\ bluez = "ok") => []<>(discovering \/ cancelled \/ pc = "panicked")

\* A signal ends the scanner, unless a call waits for an answer for ever.
ShutdownCompletes == <>[](bluez # "stuck") => (cancelled ~> pc \in {"returned", "panicked"})

\* scanner.go:83: Start scans "with automatic recovery".
NeverPanics == pc # "panicked"

\* scanner.go:32: a silent session is considered dead and a fresh connection opened.
SilentIsReplaced ==
  pc = "select" /\ silent ~> conn = "none" \/ ~silent \/ cancelled \/ pc = "panicked"
=============================================================================
