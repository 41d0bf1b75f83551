# Verification of ruuvihome

ruuvihome listens to the Bluetooth advertisements of Ruuvi sensors and publishes
their measurements to an MQTT broker. This directory holds TLA+ models of the
program in `src/`, model-checked with TLC on small instances, and theorems about
them checked with TLAPS for every value of the constants. Paths below are
relative to the repository; the Go sources are under `src/`.

## 1. The system

| part | source | state | operations |
|---|---|---|---|
| scanner loop | `src/ble/scanner.go` 83–105 | – | `Start`: run a session, wait 5 s, run the next; return when the context is cancelled |
| D-Bus session | `src/ble/scanner.go` 107–316 | `lastSignal`, `lastRSSI`, the signal channel | `runScanSession`, `processSignal`, `handleDeviceProperties`, silence watchdog (3 min) |
| HCI session | `src/ble/hci_linux.go` | socket, `last`, `frag` | `openUserChannel`, `hciCmd`, `runHCISession`, silence watchdog (60 s) |
| HCI packets | `src/ble/hci_parse.go` | fragments of extended advertisements | report parsers, `fragments.add`, `manufacturerData`, `cmdResult`, `scanUnits` |
| advertisement callback | `src/main.go` 168–243 | `lastSeen`, `lastE1`, `discoveredDevices`, counters, the queue `publishCh` | filter, prefer E1, rate limit, parse, discover, enqueue |
| rate limiter | `src/mqtt/publisher.go` 210–246 | `lastSent` | `Allow` |
| publisher goroutine | `src/main.go` 146–166 | the measurement in hand | take from the queue, `Publish`, count the outcome |
| MQTT client | `src/mqtt/publisher.go` 39–208 | the paho session | `Connect`, `Publish` (two attempts, 5 s each, back-off between), `PublishRaw`, `Disconnect`, `IsConnected` |
| discovery | `src/homeassistant/discovery.go` | – | `PublishDiscovery`: one retained config for each sensor of the format, stop at the first error |
| parsers | `src/parser/` | – | formats 5, 6 and E1, dew point and air quality index |
| observability, health | `src/main.go` 267–405 | tickers | statistics, silence warning, `/health`, `--healthcheck` |
| configuration, logger | `src/config/config.go` | – | `Load`, `Validate`, log output |
| process | `src/main.go` 58–105 | the context | signals, `run`, exit |

How they interact:

- The scanner calls the callback synchronously, one advertisement at a time. In
  HCI mode this is the loop that reads the controller, so a slow callback delays
  reception and the watchdog.
- The callback hands measurements to the publisher goroutine through a channel of
  64 places and never waits for room: a full queue drops the measurement.
- The callback *does* wait for the broker when a device is new: it announces the
  device's sensors with `PublishRaw`, up to 5 s for each.
- Callback, publisher, observability loop and health handler share atomic counters
  and `sync.Map`s. All of them but the health handler see the context cancelled.
- `main` cancels the context on a signal; `Start` returns between two
  advertisements; the deferred `Disconnect` follows and the process exits without
  waiting for the publisher goroutine.

What is hard about it: three goroutines that race with a signal; tokens that time
out while their message is still on its way, and the retry that follows; a
discovery that fails half way; two advertisement formats of one device under one
rate limit; a queue at its capacity; watchdogs whose clock runs while they are not
looking. `PROJECT.json` lists each hazard at its line with the properties that
watch it.

What makes each part correct:

- *callback*: every counted advertisement ends in exactly one counter
  (`Accounting`); E1 is preferred whatever the rate limiter does (`E1Preferred`).
- *rate limiter*: admissions of a device are its interval apart
  (`AdmissionSpacing`).
- *discovery*: a device is marked only when all sensors of a format were announced
  (`DiscoveredIsAnnounced`); the values of a format have sensors, and of the
  sensors only the calculated ones can be without a value (`SensorsMatchValues`).
- *publisher*: at QoS 0 no newer value overtaken by an older one (`NeverGoesBack`), one
  late transmission at most after a signal (`LateSends`); with the queue before it, it is
  a relay of listed devices that refuses only when full, repeats a bounded number of
  times (QoS 0) and counts as published only what the broker has or the client keeps
  for it (QoS 1) (`ImplementsRelay`).
- *process*: callbacks return, the queue drains, a signal ends it
  (`CallbackReturns`, `QueueDrains`, `ShutdownCompletes`).
- *scanner sessions*: silence is noticed in bounded time, and invented only after a
  callback that outlasted the watchdog (`SilenceNoticed`, `NoFalseAlarm`); a signal ends the session in bounded time
  (`ShutdownBounded`); a lost adapter is taken up again (`Recovery`, `Listens`).
- *commands to the controller*: a session that listens has a controller that scans as
  the session thinks (`ListeningIsScanning`), and never sends one it has to refuse
  (`NeverRefused`), whatever the session before left behind.
- *packets and fragments*: what is delivered is the data of one advertisement, whole
  (`WholeUnlessLost`); a cut event costs only what is cut (`CutCostsOnlyTheCut`).
- *cache of signal strengths*: one left out is found again, and not an older one
  (`RssiIsCurrent`).
- *parsers*: every field means what the sender meant (`ReadsWhatWasSent`); the two
  formats of a Ruuvi Air agree (`FormatsAgree`); worse air never looks better
  (`AqiIsSmooth`).
- *MQTT session*: the three writers of the retained status agree once all has arrived
  (`StatusSettles`, `StatusConverges`).
- *health*: a silent tag is warned of, a tag that was heard is not
  (`SilentTagIsWarned`, `NoFalseWarning`); the probe does not fail a working process
  nor pass one whose own tags are silent (`ProbeIsRight`).

## 2. Modules

| module | what it is |
|---|---|
| `Bridge` | the path of a measurement: callback, rate limiter, discovery, queue, publisher with retries, wire and broker, signal and exit |
| `Relay` | the abstract promise: accept listed devices with spacing, hold a bounded backlog, settle first in first out; receive in order and at most `Copies` times (QoS 0), or keep until the broker has it (QoS 1) |
| `BridgeRelay` | the refinement mapping from `Bridge` to `Relay` |
| `HciScanner` | the restart loop `Scanner.Start` and an HCI session with its watchdog, in time |
| `HciSession` | how an HCI session takes the controller: bind, commands, answers early, late or of another session |
| `HciPackets` | from the controller's events to whole advertisements: report parsers and fragments |
| `DbusScanner` | the restart loop with a session over BlueZ: calls that fail or hang, signals, the cache of signal strengths |
| `Formats` | from the bytes of an advertisement to the values of a measurement, and their sensors |
| `MqttSession` | the connection to the broker and the retained status topic |
| `Health` | silence warnings, `/health`, `--healthcheck` |
| `MCBridge`, `MCHciScanner`, `MCHciSession`, `MCHciPackets`, `MCDbusScanner`, `MCHealth` | values of the constants for TLC |
| `BridgeProofs` | types of `Bridge`; spacing, preference, late sends, accounting, discovery, order at the broker (QoS 0); that `Bridge` implements `Relay` |
| `HciScannerProofs` | types of `HciScanner`, the bound on a shutdown, the two sides of the watchdog |
| `HciSessionProofs` | types of `HciSession`, that no command is refused, and that who listens hears what it asked for |
| `HciPacketsProofs` | what the report parsers keep, and that data are handed on whole |
| `DbusScannerProofs` | types of `DbusScanner`, and that the RSSI is current |
| `MqttSessionProofs` | types of `MqttSession`, and that the status settles |
| `HealthProofs` | types of `Health`, warnings and probe |
| `FormatsProofs` | what `Parse` makes of any string of bytes; that a frame is found and unpacked as it was sent; types and properties of `Formats` |

`Bridge` and the scanners meet at the callback: for `Bridge` the scanner is an
environment that hears advertisements one at a time and returns at some point after
a signal; for `HciScanner` the callback is a wait of at most `HandlerMax`, for
`DbusScanner` a wait that ends. `HciScanner` takes the initialisation as one wait that
succeeds or fails, and a packet as whether it brings a report; `HciSession` and
`HciPackets` are what is inside these two. `Formats` is what parsing makes of a frame,
of which `Bridge` keeps whether it succeeds. `MqttSession` is the connection under the
tokens of `Bridge`; `Health` reads `lastSeen`, which the callback writes.

### Bridge

`phase` is where `run` is: `running` (inside `scanner.Start`), `answering` (the deferred
`Shutdown` of the health endpoint, which waits for probes under way), `closing` (the
deferred `Disconnect`), `exited`, or `panicked`. `cb` is where the callback is,
`cbM` its measurement, `cbNext` its place among the sensors. `pub`, `pubM` and
`attempt` are the same for the publisher goroutine and the loop of `Publish`.
`queue` is `publishCh`; the counters have the names of the `observability` struct.

An advertisement is one atomic step up to the measurement, because only the
callback touches what it reads there; each of the early returns is an action
(`Ignore`, `Suppress`, `RateLimit`, `Reject`, and `Panic` for the nil entry), and
`Admit` the way through. Each `PublishRaw` of the discovery is two steps, the
hand-over (`Announce`) and the token (`Announced` or `AnnounceFailed`). `Enqueue`
is the non-blocking send. On the other side `Take` receives and encodes, `Check`
is the loop head of `Publish`, `BackoffOver` and `BackoffCancelled` the wait before
a retry, `Send` the hand-over to paho, `TokenDone` and `TokenFailed` the three ways
a token can end: complete, failed, timed out.

Below the client the model is the environment the code has to live with. `outbox`
is what is on its way, in order; `Deliver` moves its head to the broker,
`Lose` drops it, and both may happen long after the token timed out or even after
the process exited. A failed token says nothing of the message. With QoS 0 a token
completes at any moment. At QoS 1 the client keeps a message in `store` until the
broker's answer has come (`Acknowledge`, part of `Deliver`; the answer may be lost). The
code asks for automatic reconnection (`SetAutoReconnect`), after which the client sends
what it keeps again, in any order (`Resume`), and completes the token the publisher waits
for without an error and without an answer. `complete` is that this token is
complete. The discovery's messages, which go through `PublishRaw`, have the same tokens;
of them only what the broker has or will be sent is kept (`announced`).

Some variables are history and not in the code: `admitted` (every measurement
made), `broker` (what arrived, and when it was sent), `late` (transmissions begun
after the cancellation), and `suppressed`, since the code counts the format 6
duplicates nowhere.

What is abstracted: a frame is its format and what parsing makes of it (`good`; `nan`,
a measurement `json.Marshal` refuses because its dew point is not a number; `bad`,
an error); a measurement is its number, device, format, kind and time; a sensor is
a value; topics and payloads are left out. The clock is coarse: a step of it is a
unit of `min_interval`. The callback's own computing takes no model time, so the
clock stands still in it except while it waits for a token; a token wait may take
any number of steps, none included.

`Relay` is stated without goroutines: what was accepted, what of it is still without an
outcome, what is kept for the broker, what the broker received, two counters, and whether
the process is up. `BridgeRelay` maps what is unsettled to the publisher's measurement, the
queue and the callback's, in this order, and what is kept to the measurements in `store`.
Where nothing is acknowledged the relay promises order and a bounded number of receipts.
Where the broker acknowledges it promises neither, since a reconnecting client keeps
neither; it promises that nothing is settled as published but what the broker has or the
client keeps, and that what is kept stays kept until the broker has it or the process
ends. Its measurements are those of listed devices, so that the refinement also says that
nothing of another device gets through in named mode.

### HciScanner

`pc` is where the one goroutine is: at the head of `Start`'s loop (`start`), in
`openUserChannel` and the commands (`setup`), at the head of the session's loop
(`loop`), in `syscall.Read` (`read`), in the range over the reports (`reports`), in
the callback (`handle`), in `time.Sleep` (`sleep`), or `returned`. `quiet` is
`time.Since(last)`, `socket` what the kernel holds for the session, `batch` the
reports still to come of the packet at hand, `err` what the last session returned.

Time passes in steps (`Tick`), and only while the goroutine waits. `left` is what is
left of its wait; at zero the wait is over. A wait may also end before: the callback
and the initialisation take any time up to their maximum, a read ends when there is
something to read, and `EINTR` ends it before its timeout. `time.Sleep` alone takes
its full time. The code between two waits takes no time.

| code | actions |
|---|---|
| `Start` | `Begin`, `Return`, `Wake`; `Restart` is its reaction to an error, part of the action that ends the session |
| `openUserChannel`, `hciCmd`, the initialisation | `SetupFails`, `SetupSucceeds` |
| the loop of `runHCISession` | `LoopHead`; `ReadTimesOut`, `ReadFails`, `ReadSkips`, `ReadEvent`; `NextReport`, `HandlerReturns`; `EventDone` |
| `if time.Since(last) > hciSilenceTimeout` | `Watchdog`, part of `ReadTimesOut` and `EventDone` |

A packet is whether it is an event, and which of its reports carry Ruuvi data once
parsed and reassembled. The controller (`adapter`) is `ok`, `stuck` (it does not
answer, or another program holds it) or `gone`; unplugging leaves a dead socket
behind (`dead`), a stuck one is silent without an error. An initialisation of a
controller that is `ok` succeeds: one that refuses a command is not `ok` in this
sense. A stuck one may be back before the last of the five attempts to bind, or be
woken by the reset.

History: `fresh` and `newest` say when the last Ruuvi report arrived in the socket,
`held` how long the session's last callback has lasted, `since` how long the context has
been cancelled. `newest` stops counting beyond the
silence timeout.

When a session fails in its initialisation just as the signal comes, `Start`
returns its error and not `nil`, so the process exits with an error. The model keeps
that in `err`; no property is about it.

### HciSession

`pc` is where the goroutine is: outside a session (`idle`), at `HCIDEVDOWN` (`down`), at
the bind, before the `Write` of a command (`send`), reading for its answer (`wait`), or
in the read loop (`listen`). `script` holds the commands still to be sent, `feat` the
features the session has been told, `sockets` the open descriptors, `tries` the
attempts of `openUserChannel`.

| code | actions |
|---|---|
| `openUserChannel` | `Begin`, `Down`, `Bind`, `BindFails`; a `socket()` that fails changes nothing here |
| `hciCmd` with `cmdResult` | `Write`; `Skip`, `Refused`, `Complete`, `Timeout`, `DeviceGone` |
| the commands of `runHCISession` | `FirstSteps`, `ScanSteps`, `ScanUnits` and `Window` |
| the read loop and the ends of a session | `Listen`, `Silent`, `Stop`; `End` is the deferred `Close` |

The controller is external: it executes what is in `inbox` in order (`Answer`) and
answers each command by one event, a Command Complete or a Command Status, the second
without return parameters. `Acceptable` and `Executed` are what the Bluetooth
specification says of the commands used here: no legacy and extended scan commands after
one reset, no new parameters while it scans, intervals in range. `End` leaves it as it
is, commands not yet executed included, or resets it, since closing a user channel does
either depending on the driver. A `faulty` controller may fail any command and be late;
only then does `hciCmdTimeout` pass. `refused` is history.

### HciPackets

`air` is, for each advertising set, the advertisement being sent and its next part;
`batch` the reports of the event at hand that were parsed and not yet added; `frag` the
map. An event (`Events`) carries one report or two, of different sets, and may be cut
anywhere; `Parsed` is the loop of `parseAdvReports` and `parseExtAdvReports`, with the
lengths it compares, and `Whole` what it should be. `Add` is `fragments.add` for the
first report of the batch. `Session` is the `make(fragments)` of a new session. A report
that is cut off is lost, and so may be any number of events between two that arrive: a
cut event of which nothing is kept is a lost one.

Data are parts, numbered within an advertisement; advertisements are numbered modulo
`IdMax + 1`, so that different ones can look the same only far apart. `clean` is
history: that nothing of this advertisement, or of an earlier one whose beginning is
still held, was lost. `out` is what the last `Add` handed on.

### Formats

The sender and the receiver are written from different sources. The sender has the
tables at the head of `format5.go`, `format6.go` and `format_e1.go`: where a field
begins and how many bits it has. It puts a frame together bit by bit: `Owner` says which
field a bit belongs to, `Bit` what it is, `Frame` makes bytes of eight bits each. The
frame goes into an advertisement among other structures. The receiver is the code:
`ManufacturerData`, which walks from structure to structure until one is not `Legal` or
is `OfRuuvi`, then `ParseFormat` with the reads, masks and shifts of the three
parsers, then `Derived`. Each test of `len(data)` in the code is true once the test of
the minimal length is passed; a byte beyond the end would be read as 0 here and give a
value from a field that was not sent, which `ReadsWhatWasSent` excludes.

Values stay in the integer units of the frame. The air quality index is an integer in
the code too; where its floating-point product is just below the integer it stands for,
it is one less, and `RoundedDown` names the five concentrations where that is so. Of the
other derived values only whether they are finite is kept. A step of the model sends one
advertisement; `Rise` sends a second that differs by one unit of a pollutant.

### MqttSession

`host` is where `run` is, `client` the state of the paho client, `handlers` the `OnConnect`
goroutines that have been started and have not run, `stored` an online status in paho's
store, `wire` what is on its way on the current connection, `session` whether the broker
thinks it has a connection, and `status` the retained topic.

| code | actions |
|---|---|
| `NewClient` | `Init`, the will (`Will`), the handler (`OnConnect`) |
| `Client.Connect` | `Connect`, `ConnectTimesOut` |
| `Client.Publish` | `Publish`: the check of `IsConnected` and the hand-over |
| `Client.Disconnect` | `Disconnect` with `Goodbye`, then `Close` |

The client and the broker notice a broken connection each at its own time (`Lose`, `Drop`);
a new connection of the same client id ends the old one first, will included
(`Establish`). A crash of the process leaves the connection to the broker's keep-alive. A
broker that crashes sends no will and may forget what was retained. `counted`, `written`
and `excused` are history; `excused` holds the two reasons for which a status may be
wrong in the end: the broker crashed since the last connection (`crash`), or that
connection was made, or an `OnConnect` goroutine of whichever connection ran, only after
`Disconnect` had published the offline status (`late`). `FarewellIsLast` is the claim
without the second excuse.

### Health

`lastSeen` is the age of each entry, `Never` without one, `heard` (history) the time since
the address was heard at all, `uptime` the age of the process, `check` the time until the
silence ticker fires, `warned` what its last check warned of, `probe` what a probe has
just returned. `Advertise` is the part of the callback that writes `lastSeen`,
`SilenceCheck` the ticker's case, `Probe` a request of `/health` seen from
`runHealthcheckProbe`, for which no answer and a bad one are the same. The endpoint does
not answer before `Serve` nor after `Shutdown`. The goroutines are taken to run within a
unit of time, which stands for a share of the threshold, not for a second.

### DbusScanner

`pc` goes through the session in the order of its calls: `connect` (`SystemBus`),
`find` (`findAdapter`), `prepare` (power, filter, old discovery, settle delay),
`subscribe` (`AddMatch` and the channel), `discover` (`StartDiscovery`), then `select`
with `ask` (`GetProperty` of a missing RSSI) and `handle` (the callback), and `stop`
(the deferred `StopDiscovery`). Each call has an action for each way it ends; the
errors the code ignores end nothing. `EndSession` is the deferred `Close` and the
reaction of `Start`. `cache` is `lastRSSI`, `channel` is `signalCh`.

A call is answered when BlueZ works, fails when BlueZ or the connection is gone, and
waits as long as BlueZ is `stuck`: godbus has no timeout for it. When the bus goes
away the connection closes and, as godbus documents, so does the signal channel: once
it is empty a receive yields nil (`SelectClosed`).

The `select` is a choice among the cases that are ready. Of the time only whether
the silence timeout has passed is kept (`silent`); it may pass whenever the session
waits with an empty channel. The watchdog in time is what `HciScanner` is about.

A signal carries Ruuvi data or not, and the device's RSSI or, when it has not
changed, none. RSSI values are numbered, a new number for each change, so that older
and newer can be told apart; `was` is the number when the signal was sent. BlueZ sends
a changed RSSI together with the data; one sent alone would be ignored by the code
and not cached, and `RssiIsCurrent` would fail. The channel is never full: what
godbus does then (500 signals wait) is left out.

## 3. What is checked

| run | shows |
|---|---|
| `Bridge_air` | one Ruuvi Air sending formats 6 and E1, discovery on, QoS 0, a queue of two, a retry, fair scheduling: types, the preference for E1, the partial discovery, the order at the broker; callbacks return, the queue drains, a signal ends the process |
| `Bridge_named` | four devices (own interval, default interval, empty body, unlisted), named filter, QoS 1 with a client that resends, one retry, frames of every kind: accounting, spacing, late sends, and that `Bridge` implements `Relay` |
| `Bridge_nil` | fails: a device entry without a body ends the process |
| `Hci_scanner` | silence is noticed in time, a session is ended for a silence that was none only after a callback that lasted longer than the silence timeout, a signal ends `Start` within its longest wait; types. Under fairness: a controller that is back is scanned again (`Recovery`), one that no longer answers is left (`StuckIsLeft`) |
| `Hci_session` | sessions one after the other on controllers of every set of features, slow, faulty or unplugged: who listens is told what the controller hears, no command has to be refused, no descriptor is lost; under fairness a controller in order is listened to again |
| `Hci_packets` | two sets of one address with advertisements of up to three and two parts, reports cut off, lost, truncated and beyond the capacity: data handed on are whole, and a cut event costs only what is cut |
| `Dbus_session` | one configured tag and one other device: the RSSI handed on is one the device had when the signal was sent or later, across sessions; the scanner discovers again after any failure, panics aside (`Recovery`); a signal ends it unless BlueZ hangs for ever; types |
| `Dbus_closed` | fails: a connection that closes during a session ends the process |
| `Mqtt_session` | connections that break unnoticed, crashes of broker and process, restarts, late handlers: the writers of the status agree once all has arrived; under fairness a lasting state is shown |
| `Mqtt_qos0` | fails: a measurement of QoS 0 is counted as published although no connection got it |
| `Health_named` | two configured tags, a neighbour's, a key in lower case: who is warned of and when, what a probe is told |
| `Formats_frames` | frames of the three formats with any two fields at the edges of their ranges, cut short, or among other structures, and each pollutant through its range, with `extended_values` and without: values, agreement of the two formats, sensors, the index |

Nine more configurations state something the code, or at QoS 1 the client, does not do;
section 5 says what. They are not part of the regular runs and can be run by hand:
`tlc -config Bridge_blocking.cfg MCBridge`, in the same way `Bridge_sensors`,
`Bridge_spacing` and `Bridge_resent`, `Hci_slow` with `MCHciScanner`, `Dbus_stuck` with
`MCDbusScanner`, `Health_mqtt` with `MCHealth`, `Mqtt_farewell` with `MqttSession` and
`Formats_sensors` with `Formats`.

Bounds. The regular runs of `Bridge` have two advertisements, and one or two steps of
time. In `Bridge_named`, with a queue of one place, a second measurement finds the queue
full when the publisher has not taken the first, and is behind it, in the queue or in the
callback, when the publisher retries or the signal comes. `MaxSent` is how many messages
may be out or received for the client to send one again: with 3, one with a retry that
is resent before and after the broker has it. In `Bridge_air`, two frames of one Ruuvi
Air come before, at and after the end of the window of 2; the wait for a token may be
longer than that. The default interval is 0 in `Bridge_named`, where the tag has one
of 1, and 1 in `Bridge_air`. One sensor of two is format specific: enough for a
discovery to fail between two sensors and for formats to differ. The by-hand runs have three advertisements, for a third measurement
behind two. What needs more than these, a longer queue or more devices, is what the
theorems of section 4 add.

For `HciScanner` the silence timeout is 3 steps, a read 1, the restart delay and the
initialisation 2, the callback up to 5, so that each can end before and after each
other and a callback can outlast the watchdog, as 13 to 16 sensors of 5 s each outlast
its 60 s. Two packets fit in the socket, which gives a report
that waits behind a callback and one that arrives meanwhile; one packet in a row may
be no event. Time itself is not bounded: the timers are.

For `DbusScanner` a channel of two signals and two changes of a device's RSSI are
enough for an RSSI left out behind one that has changed, for an answer of
`GetProperty` newer than the signals waiting, and for a change between two sessions.

For `HciSession` the five attempts to bind are those of the code, and the three timings
are the defaults, a window longer than the interval with both to be clamped, and none.
`LateMax` says how many commands a closed channel may leave to the controller; a session
that fails leaves one more each time. With three, late commands and their late answers
meet every command of the next session, and more would break what is checked: with
`LateMax = 4` in `Hci_session.cfg` TLC finds a session that listens although its own
`LESetEventMask` failed, because a late answer had completed it before
(`ListeningIsScanning`), with 5 also a command that has to be refused (`NeverRefused`).
It takes as many sessions in a row that each time out on a controller too slow to catch
up, which is not reset when the channel closes. One event that is no
answer may lie in the socket. For `HciPackets` a report is 10 bytes and 25 may be held, so
that two parts fit and a third does not; sets of one address differ only by their id.
An event is cut in the header of its second report, one byte before the end of the first
or the second, or not at all. For `MqttSession` two handlers can be late and two messages
under way when a measurement is sent, which is enough for an online status of an earlier
connection behind the farewell. For `Health` the threshold is four units and a check comes
every two, so that a check can fall before, at and after both grace periods. `Formats`
takes every pair of fields at the edges of their ranges, so that each field is checked
against its neighbours at every bit they share, every length up to the full frame, and up
to two structures before and after; pollutants rise to 5100, beyond every joint of the
three tables.

Fairness. `FairSpec` of `Bridge` asks that a goroutine that can run does (`CallbackStep`,
`PublisherStep`), which the Go scheduler provides, and that the scanner and `main`
return once nothing keeps them. The deferred `Shutdown` of the health endpoint waits for
the probes under way without a limit of its own (`ProbesAnswered`): a probe's handler
waits for nothing and its answer fits the buffer of a socket, and one that does not finish
its request is cut off by `ReadHeaderTimeout`. A token wait always ends, because `WaitTimeout`
has a timeout: that is what makes `AnnounceFailed` and `TokenFailed` always enabled
while waiting. Nothing is assumed of the radio, the broker, the network or the
signals. `FairSpec` of `HciScanner` asks that the goroutine runs and that time
passes (`SF` of `Tick`: packets that keep interrupting the wait do not stop the
clock, as a read that is satisfied at once is not a wait). Nothing is assumed of the
controller: that it comes back is a hypothesis of `Recovery`. `FairSpec` of
`DbusScanner` is the same with strong fairness of the ticker's and the context's case
of the `select`, which Go chooses at random among those that are ready. `HciSession` asks
that the goroutine runs and that a controller in order answers; that it stays in order
is a hypothesis of `Listens`. `MqttSession` asks that the client, while it is not
connected, connects when the broker is there, that goroutines run, that what is on its
way arrives or is dropped, and that a connection that only one side believes in is
noticed: by the keep-alive of paho and of the broker.

## 4. What is proved

For every set of devices, configuration, queue size, number of retries, QoS 0 and 1, and
without the bounds mattering (they are arbitrary natural numbers):

- `TypeCorrect`: `TypeOK` is inductive by itself. It contains the capacity of the
  queue and the bound on `attempt`.
- `AdmissionCorrect`, and from it `SpacingHolds` and `E1PreferredHolds`. Spacing is a
  statement about pairs of admitted measurements, and not inductive: a new
  measurement is compared only with `lastSent`. `AdmissionInv` says that `lastSent`
  is no earlier than any admission of the device, `lastE1` no earlier than any E1
  admission, that all times are past and all numbers at most `total`.
- `LateSendsHolds`: `CancelInv` ties `late` to the place the publisher can be in once
  the context is cancelled: after the one late send it can only stop at the next
  check.
- `AccountingHolds`: inductive with the types.
- `DiscoveryHolds`: the invariant adds that, while the callback announces sensor
  `cbNext`, the sensors before it are announced.
- `OrderHolds`, for QoS 0: `OrderInv` follows a measurement through callback, queue, publisher,
  wire and broker; at each place it is newer than what is further on. The case that
  makes it necessary is a late arrival of an attempt that timed out.
- `RelayImplemented`, for both: every step of `Bridge` is a step of `Relay` or changes
  nothing of it. That the relay accepts a measurement newer than all and spaced from its
  device's last is `AdmissionInv`; that at QoS 0 the broker never receives an older one is
  `OrderInv`. `RelayInv` adds that what is anywhere on its way was admitted, and, for QoS 0,
  that the copies of a measurement in the client carry different attempts, each below
  the number begun, and the broker has received it at most as often as the oldest of them
  says, so that never more than `Copies` arrive. For both, `CompleteInv` says that a token
  which is complete belongs to a measurement the broker has or the client keeps, as long
  as the process lives (`StoreInv`: at QoS 0 the client keeps nothing). It is needed
  because the token may be completed by the answer, after which the message is no longer
  kept, or by the resend, after which the broker need not have it.

For `HciScanner`, for all timeouts, packets and bounds:

- `TypeCorrect`: no wait goes on beyond its timeout.
- `ShutdownHolds`: after a signal `Start` returns within the longest of the restart
  delay, the initialisation, a read and one token. The bound is on the sum of what
  has passed and what is left: `ShutdownInv` says that no wait begins once the
  context is cancelled, which holds for the callback because `PublishRaw` looks at
  the context before it waits.
- `SilenceHolds`: a session is quiet for at most the silence timeout and a read, plus
  a read for each packet that is no event, or for one callback. `SilenceInv` bounds
  `quiet + left` in each wait.
- `AlarmHolds`: a session that ends for silence has not overlooked a report, unless its
  last callback alone lasted longer than the silence timeout. `AlarmInv` says where a
  report can be that the watchdog has not seen: unread behind a callback that has lasted
  since the last report looked at, never behind a read. The code puts no limit to the
  callback, so the exception is real: item 7 of section 5.

For `HciSession`, for all timings, numbers of bind attempts and unsolicited events:

- `TypeCorrect`. A descriptor is open exactly while a session has one, which is why the
  invariant also follows the script. Parameters are in the range of the controller
  because `ScanUnits` clamps.
- `AllAccepted` and `HearsWhatItAskedFor`, *if* `LateMax <= 3`: a condition on the
  controller. By the instances of section 3 the second is false with 4, the first with 5
  (with 4 TLC finds it true on the instance; it is not proved). `SessionInv` gives each
  command its place among the six a session sends. The code takes an answer by its
  opcode, so the answer to its `Reset` may be an earlier session's. What holds before is
  that, once any `Reset` is executed, only commands of the first three places follow;
  what holds up to the third is that the controller is reset and nothing later is with
  it or in the socket (`AfterReset`). For an earlier `LESetEventMask` to follow a
  `Reset` in what a session leaves behind, the two commands between them have to be left
  too (`Distance`), four in all. So the answer to the own `LESetEventMask` shows that
  the inbox is empty (`OwnMask`), and from there on the session is alone with the
  controller.

For `HciPackets`, for all sizes, capacities, sets and numbers of parts:

- `TypeCorrect`: with any reports lost, no key holds more than the capacity, and the last
  report of an advertisement is never held.
- `CutCostsHolds`: `Parsed`, which compares lengths as the code does, is `Whole`, which
  counts the reports that end within the event (`KeepsWhole`).
- `WholeHolds`: data handed on are one advertisement, from its first part to its last,
  *if* the parts before the last fit within the capacity (`PartsFit`); they do in the 1650
  bytes the standard allows. `WholeInv` says what is held for a set of which nothing was
  lost: the parts before the report that waits in the batch or, if none does, before the
  part that is sent next. The two cases are what makes it inductive: between parsing and
  adding, the sender is already further than the map.

For `DbusScanner`, for all sets of devices (with at least one), filters and channels:

- `TypeCorrect`.
- `RssiHolds`. `RssiInv` relates the cache, the signals that still wait and what the
  devices have now. `After(n, p, v)` says what the cache will have for a device once `n`
  of the waiting signals have been handled; a signal without an RSSI needs that value to
  be no older than itself, and for a device that is heard the value after the last signal
  is the present one. An answer of `GetProperty` overtakes the waiting signals and is
  then overwritten by older ones: the invariant shows that this is never seen by a signal
  that is newer than them.

For `MqttSession`, for all bounds:

- `TypeCorrect`.
- `StatusSettlesHolds`. `StatusInv` says of each message on its way what the status will be
  when it arrives: while the process works, none of them takes back an online status; once
  it has said farewell none says online again, and the end of the connection comes last;
  where the broker has no session the status is not online; the last two unless excused.
  The excuse cannot be dropped: item 12 of section 5.

For `Health`, for all thresholds, check intervals, devices and keys:

- `TypeCorrect`.
- `SilentTagIsWarnedHolds`, `NoFalseWarningHolds`, `ProbeIsRightHolds`, all from `HealthCorrect`:
  the entry of a tracked address is the time since it was heard, no other address has one,
  and a key that was due at the last check, whose age is what is left of the ticker, was
  warned of then.

For `Formats`, for every string of bytes, of any length:

- `ReadsTheTable`: the receiver's reads, masks and shifts give each field the number in
  the bits that the table at the head of the parser's file assigns to it, `Raw`. The
  lemmas before it show for each format that the set of fields the parser builds byte
  by byte is the set the table describes, including the ninth bits format 6 keeps in
  its flags. What is not available is left out, and nothing else is.
- `NothingMadeUp`: from a string cut short no field comes whose bits are beyond its end.
- `StaysInRange`: an error without values or values in range, the part of `TypeOK` that
  is about what was received.
- `IndexIsSmooth`: one unit more of a pollutant raises the index by one or not at all,
  whatever the other values. The scores are piecewise linear; the proof bounds the
  difference of neighbours in each segment and at each joint, with the five
  concentrations the code rounds down.
- `BothFormatsAgree`: two frames with the same air in the bits of their tables give the
  same values, derived ones included.
- `SensorsMatch`: sensors are told apart by their identity; each value of a frame that
  misses nothing has a sensor, the sequence number of E1 excepted; and of the sensors
  announced all have a value if `extended_values` is set, all but exactly the calculated
  ones otherwise (`ValuesOfWhole`).
- `FirstOfRuuvi`: `ManufacturerData` is the payload of the first structure of Ruuvi that
  is reached over legal structures, or nothing. It is a recursion over the bytes, so the
  proof is by least counterexample, from the fact that `<` on the natural numbers is well
  founded (`Least`, `Induction`).

and for every frame the sender can have, whatever its numbers and the bits of no field:

- `EveryFieldUnpacked`: `Raw` of a whole frame of the sender is the number the sender packed, field
  by field. Each byte is the sum of the eight bits of one or two fields; the lemmas add up
  the bits of a field that is whole bytes (`WholeField`), of the two fields of nine bits
  (`NineField`), and of the others that share a byte.
- `FrameFound`: in an advertisement of at most 255 bytes, with any number of structures
  before and after, the frame is found, unless padding or a structure that is cut off comes
  before it; then nothing is. A frame cut off within its bytes is found as it is.
- `TypeCorrect`, `ReadingHolds`, `AgreementHolds`, `SensorsHold`: the invariants of the run.
  The properties speak of `got` and `sent` alone, so they are not inductive: from one state
  nothing is known of how the values came about. `IInv` says that what was sent is a frame
  whose numbers fit their fields, among up to two structures each side, and that `got` is
  `Parse` of what `ManufacturerData` finds there. With `FrameFound`, `EveryFieldUnpacked`
  and the theorems about `Parse`, each invariant follows.
- `SmoothHolds`: the action property. Only `Rise` follows a frame by another; in `IInv` both
  are read as `IndexIsSmooth` has it.

The assumptions are the named `ASSUME`s of the modules, which TLC evaluates in each run,
and the hypotheses given above: QoS 0 for `OrderHolds`, `PartsFit`, `LateMax <= 3`.

Only model-checked is liveness (`CallbackReturns`, `QueueDrains`, `ShutdownCompletes`,
`Recovery`, `StuckIsLeft`, `Listens`, `StatusConverges`), because fairness is out of the
prover's reach.

## 5. Where the code disagrees with what is said of it

1. **An empty device entry ends the process** (`Bridge_nil`). The callback and the
   observability loop check for a nil entry (`src/main.go:220`, `src/main.go:376`);
   `RateLimiter.Allow` does not.
2. **A lost bus ends the process** (`Dbus_closed`). `src/ble/scanner.go:83` speaks of
   automatic recovery. When the connection closes, the nil signal received from the
   closed channel is dereferenced by `processSignal` (lines 173, 214).
3. **A dropped measurement is counted as published** (`Mqtt_qos0`).
   `src/mqtt/publisher.go:140` says the attempts ride out a broker hiccup. With QoS 0, the
   default, paho drops a message while it reconnects and its token is complete without an
   error: there is no second attempt, and `published_total` counts it.
4. **The callback can block on the network** (`Bridge_blocking`). `src/main.go:146`
   says it never does; the discovery at `src/main.go:227` waits for the broker, up to
   5 s a sensor, and is repeated by every admitted advertisement until it succeeds.
5. **Sensors that are never created** (`Bridge_sensors`). A device is marked as
   discovered by its address (`src/main.go:226`) after the sensors of one format were
   announced. A Ruuvi Air heard first in format 6 never gets its E1 sensors, although
   from the first E1 frame on only E1 values are published. `README.md:234` says
   sensors are created automatically.
6. **Two messages within the interval** (`Bridge_spacing`). `docs/TROUBLESHOOTING.md:132`
   says at most one message a minute and device. The limiter works where measurements
   enter the queue; a retry or a backlog delays one, and the next follows at once.
7. **A session ended by its own callback** (`Hci_slow`). `src/ble/hci_linux.go:104`
   says a session ends when nothing has been heard for 60 s. `last` is set before the
   callback (line 189) and compared after it (line 194). The discovery of a device
   with 13 to 16 sensors, each of which may wait 5 s for the broker, takes longer than
   60 s, and the session then ends with advertisements unread in the socket.
   `SilenceOnly`, the comment's claim, fails; `NoFalseAlarm` says that there is no other
   cause.
8. **The watchdog waits for what it watches** (`Dbus_stuck`). `src/ble/scanner.go:32`
   says a silent session is replaced by one with a fresh connection. The deferred
   `StopDiscovery` (line 159) comes first and waits for BlueZ without a timeout.
9. **Healthy without a connection** (`Health_mqtt`). `src/main.go:275` and `README.md:341`
   say that a healthy process is connected to the broker. `IsConnected`
   (`src/mqtt/publisher.go:206`) is true while paho reconnects.

10. **At QoS 1 the retained topic can go back** (`Bridge_resent`). The publisher keeps the
   order, but after a reconnection, which `src/mqtt/publisher.go:78` asks for, the client
   sends what it keeps again, and an older measurement can reach the broker after a newer
   one. The resend also completes the token `Publish` waits for (line 172), so
   `published_total` then counts a measurement the client has and the broker may not; if
   the process ends before the broker has it, it is lost. `config.example.yml:61`
   recommends QoS 0, where neither happens.
11. **Sensors without a value** (`Formats_sensors`). `PublishDiscovery`
   (`src/homeassistant/discovery.go:141`) announces dew point, absolute humidity, air
   density and air quality index whatever `extended_values` is. With it off nothing is
   calculated (`src/parser/parser.go:109`), and these sensors, created automatically as
   `README.md:234` says, never have a value.
12. **Online after a clean stop** (`Mqtt_farewell`). `Disconnect` publishes the offline
   status (`src/mqtt/publisher.go:133`) while the `OnConnect` handler of the connection
   may not have run yet (lines 89–95, a goroutine of paho's): its online status then comes
   last, the broker discards the will of a connection that is closed in order, and the
   retained status stays online. The window is short in practice: the process has to be
   stopped right after it has connected or reconnected.

The first three are regular runs; the others are the configurations of section 3 that are
run by hand.

## 6. Not modelled

- *Configuration* (`Load`, `Validate`): a pure function of a file at start-up. What it
  lets through is what the constants and initial states range over: intervals, QoS, scan
  timings of any size, a nil entry, keys of any spelling.
- *Logging* and the statistics line: output only.
- *The HCI stub* for other systems: an error the scanner loop treats as any other.
- *The floating-point formulas* of dew point, absolute humidity and air density: there
  are no real functions to evaluate them with; that a humidity of 0 makes the dew point
  not a number is in `Formats` and `Bridge`.
- *Credentials, TLS and the HTTP server's set-up*: no state that changes.
- *The insides of paho, godbus and BlueZ*, beyond how the code depends on them. In
  particular godbus with more than 500 waiting signals, when it delivers from a goroutine
  each: in what order is not to be seen in this code.
- *QoS 2*, which `Validate` lets through: its second handshake is not in `Bridge`, whose
  `QoS` is 0 or 1.
- *The growth of the fragment map*: a set that sends a first part and is never heard again
  keeps its entry until the session ends. Nothing in the code bounds the number of keys,
  so there is no bound to state.
