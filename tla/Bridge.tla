------------------------------- MODULE Bridge -------------------------------
(***************************************************************************)
(* The path of a measurement through ruuvihome, from the BLE advertisement *)
(* to the MQTT broker: the advertisement callback and the publisher        *)
(* goroutine of src/src/main.go, the rate limiter and the retry loop of    *)
(* src/src/mqtt/publisher.go, the discovery loop of                        *)
(* src/src/homeassistant/discovery.go, and the shutdown of run().          *)
(*                                                                         *)
(* Three processes interleave: the callback (the scanner invokes it for    *)
(* one advertisement at a time), the publisher goroutine, and the main     *)
(* goroutine's shutdown.  They share the channel publishCh, the counters   *)
(* and the context.  The broker and the network below the paho client are  *)
(* the environment: a message handed to the client is delivered in order   *)
(* or lost, and its token may fail or time out at any moment.  At QoS 1    *)
(* the client keeps it until the broker's answer has come, and after a     *)
(* reconnection (SetAutoReconnect) sends what it keeps once more, in any   *)
(* order.                                                                  *)
(*                                                                         *)
(* One unit of `now' is a coarse time step.  The callback computes in no   *)
(* model time, and waits only for tokens; a timeout of 5 s may fall inside *)
(* one time step or span several.                                          *)
(***************************************************************************)
EXTENDS Integers, Sequences, FiniteSets

CONSTANTS
  Devices,          \* the devices in radio range (addr after strings.ToUpper)
  Configured,       \* the keys of cfg.Devices
  NilEntries,       \* the keys of cfg.Devices whose YAML value is empty: a nil *DeviceConfig
  FilterNamed,      \* cfg.Processing.FilterMode == "named"
  DefaultInterval,  \* cfg.Processing.MinInterval
  DeviceInterval,   \* cfg.Devices[d].MinInterval, 0 when it is not set
  E1PreferWindow,   \* e1PreferWindow
  Frames,           \* the kinds of frame on the air: a format and what parsing makes of it
  QoS,              \* cfg.MQTT.QoS, 0 or 1
  PublishQueueSize, \* publishQueueSize, the capacity of publishCh
  PublishRetries,   \* publishRetries, the extra attempts of Publish
  DiscoveryOn,      \* cfg.HomeAssistant.Discovery
  SensorsOf,        \* for each format, the entries of sensorDefinitions that apply, in order
  MaxAdverts,       \* bound: advertisements on the air
  MaxTime,          \* bound: time steps
  MaxSent,          \* bound: messages out or received, for one to be sent again
  None              \* no measurement

Formats == {"F5", "F6", "E1"}

\* A frame parses to a measurement json.Marshal can encode ("good"), to one it
\* cannot, a NaN dew point ("nan"), or does not parse ("bad").
Kinds == {"good", "nan", "bad"}

\* A time.Time a sync.Map does not hold yet.
Never == -1

\* What the callback hands to the publisher.  id numbers the advertisements
\* counted; at is the time of its admission and its Timestamp.
Measurement ==
  [id: Nat, dev: Devices, fmt: Formats, kind: {"good", "nan"}, at: Nat]

\* What the publisher hands to the MQTT client, and what arrives of it.
Message == [m: Measurement, attempt: 0..PublishRetries, sent: Nat]
Receipt == [m: Measurement, sent: Nat]

ASSUME ConfigAssumption ==
  /\ Configured \subseteq Devices
  /\ NilEntries \subseteq Configured
  /\ FilterNamed \in BOOLEAN
  /\ DiscoveryOn \in BOOLEAN
  /\ QoS \in {0, 1}

ASSUME IntervalAssumption ==
  /\ DefaultInterval \in Nat
  /\ DeviceInterval \in [Configured -> Nat]
  /\ E1PreferWindow \in Nat

ASSUME FrameAssumption == Frames \subseteq [fmt: Formats, kind: Kinds]

ASSUME QueueAssumption ==
  /\ PublishQueueSize \in Nat \ {0}
  /\ PublishRetries \in Nat

ASSUME SensorAssumption ==
  \A f \in Formats : SensorsOf[f] \in Seq(STRING) /\ Len(SensorsOf[f]) > 0

ASSUME BoundAssumption == MaxAdverts \in Nat /\ MaxTime \in Nat /\ MaxSent \in Nat

ASSUME NoneAssumption == None \notin Measurement

VARIABLES
  now,              \* the clock
  heard,            \* advertisements the radio has handed to the callback
  lastSeen,         \* obs.lastSeen
  lastE1,           \* lastE1
  lastSent,         \* RateLimiter.lastSent
  admitted,         \* history: every measurement made
  cb,               \* where the callback is
  cbM,              \* its measurement
  cbNext,           \* its place in PublishDiscovery's loop
  discovered,       \* discoveredDevices
  announced,        \* <<device, sensor>> whose retained config the broker holds, or
                    \* the MQTT client keeps for it
  queue,            \* publishCh
  pub,              \* where the publisher goroutine is
  pubM,             \* its measurement
  attempt,          \* Publish's loop variable
  complete,         \* the token the publisher waits for is complete (QoS 1)
  store,            \* messages the MQTT client keeps until they are acknowledged (QoS 1)
  outbox,           \* messages on their way to the broker
  broker,           \* history: what the broker received, and when Publish had sent it
  total, suppressed, rateLimited, parseErrors, publishedTotal, publishFailures,
  cancelled,        \* ctx.Done() is closed
  late,             \* history: messages the publisher handed over after that
  phase             \* where run() is

frontVars == <<heard, lastSeen, lastE1, lastSent, admitted, total, suppressed,
               rateLimited, parseErrors>>
callbackVars == <<cb, cbM, cbNext, discovered, announced>>
publisherVars == <<pub, pubM, attempt, late>>
wireVars == <<outbox, broker, store, complete>>
outcomeVars == <<publishedTotal, publishFailures>>
runVars == <<now, cancelled, phase>>
vars == <<frontVars, callbackVars, queue, publisherVars, wireVars, outcomeVars, runVars>>

Init ==
  /\ now = 0 /\ heard = 0
  /\ lastSeen = [d \in Devices |-> Never]
  /\ lastE1 = [d \in Devices |-> Never]
  /\ lastSent = [d \in Devices |-> Never]
  /\ admitted = {}
  /\ cb = "idle" /\ cbM = None /\ cbNext = 0
  /\ discovered = {} /\ announced = {}
  /\ queue = <<>>
  /\ pub = "select" /\ pubM = None /\ attempt = 0 /\ late = 0
  /\ outbox = <<>> /\ broker = <<>> /\ store = {} /\ complete = FALSE
  /\ total = 0 /\ suppressed = 0 /\ rateLimited = 0 /\ parseErrors = 0
  /\ publishedTotal = 0 /\ publishFailures = 0
  /\ cancelled = FALSE /\ phase = "running"

\* The process is up: its goroutines run.
Alive == phase \in {"running", "answering", "closing"}
-----------------------------------------------------------------------------
(* The advertisement callback, up to the measurement.                      *)

Listed(d) == ~FilterNamed \/ d \in Configured

\* RateLimiter.Allow: the device's own interval, if it sets one.
Interval(d) ==
  IF d \in Configured /\ DeviceInterval[d] > 0 THEN DeviceInterval[d] ELSE DefaultInterval

\* Mutant: the device's own interval is forgotten.
TooSoon_DefaultOnly(d) == lastSent[d] # Never /\ now - lastSent[d] < DefaultInterval

TooSoon(d) == lastSent[d] # Never /\ now - lastSent[d] < Interval(d)

\* Mutant: the window of the rate limiter in place of e1PreferWindow.
Shadowed_RateWindow(d, f) ==
  f.fmt = "F6" /\ lastE1[d] # Never /\ now - lastE1[d] < Interval(d)

\* A format 6 frame of a device whose E1 frames were heard a short time ago.
Shadowed(d, f) ==
  f.fmt = "F6" /\ lastE1[d] # Never /\ now - lastE1[d] < E1PreferWindow

\* What every advertisement of a listed device does first.
Hear(d, f) ==
  /\ phase = "running" /\ cb = "idle" /\ heard < MaxAdverts
  /\ Listed(d)
  /\ heard' = heard + 1
  /\ total' = total + 1
  /\ lastSeen' = [lastSeen EXCEPT ![d] = now]
  /\ lastE1' = IF f.fmt = "E1" THEN [lastE1 EXCEPT ![d] = now] ELSE lastE1
  /\ UNCHANGED <<now, cancelled, queue, publisherVars, outbox, broker, complete,
                 outcomeVars, discovered, announced>>

Ignore(d) ==
  /\ phase = "running" /\ cb = "idle" /\ heard < MaxAdverts
  /\ ~Listed(d)
  /\ heard' = heard + 1
  /\ UNCHANGED <<lastSeen, lastE1, lastSent, admitted, total, suppressed, rateLimited,
                 parseErrors, callbackVars, queue, publisherVars, wireVars, outcomeVars,
                 runVars>>

Suppress(d, f) ==
  /\ Hear(d, f)
  /\ Shadowed(d, f)
  /\ suppressed' = suppressed + 1
  /\ UNCHANGED <<lastSent, admitted, rateLimited, parseErrors, cb, cbM, cbNext, store,
                 phase>>

\* Allow reads deviceCfg.MinInterval through a nil pointer.
Panic(d, f) ==
  /\ Hear(d, f)
  /\ ~Shadowed(d, f)
  /\ d \in NilEntries
  /\ phase' = "panicked" /\ store' = {}
  /\ UNCHANGED <<lastSent, admitted, suppressed, rateLimited, parseErrors, cb, cbM, cbNext>>

RateLimit(d, f) ==
  /\ Hear(d, f)
  /\ ~Shadowed(d, f) /\ d \notin NilEntries
  /\ TooSoon(d)
  /\ rateLimited' = rateLimited + 1
  /\ UNCHANGED <<lastSent, admitted, suppressed, parseErrors, cb, cbM, cbNext, store,
                 phase>>

\* Allow has said yes, and has stored the time.
Allow(d, f) ==
  /\ Hear(d, f)
  /\ ~Shadowed(d, f) /\ d \notin NilEntries
  /\ ~TooSoon(d)
  /\ lastSent' = [lastSent EXCEPT ![d] = now]
  /\ UNCHANGED <<suppressed, rateLimited, store, phase>>

Reject(d, f) ==
  /\ Allow(d, f)
  /\ f.kind = "bad"
  /\ parseErrors' = parseErrors + 1
  /\ UNCHANGED <<admitted, cb, cbM, cbNext>>

Admit(d, f) ==
  /\ Allow(d, f)
  /\ f.kind # "bad"
  /\ cbM' = [id |-> total + 1, dev |-> d, fmt |-> f.fmt, kind |-> f.kind, at |-> now]
  /\ admitted' = admitted \cup {cbM'}
  /\ IF DiscoveryOn /\ d \notin discovered
       THEN cb' = "announce" /\ cbNext' = 1
       ELSE cb' = "enqueue" /\ cbNext' = 0
  /\ UNCHANGED parseErrors
-----------------------------------------------------------------------------
(* The rest of the callback: Home Assistant discovery and the queue.       *)

Sensor == <<cbM.dev, SensorsOf[cbM.fmt][cbNext]>>

\* PublishRaw hands the config to the client, and only then looks at ctx.
Announce ==
  /\ phase = "running" /\ cb = "announce"
  /\ IF cancelled
       THEN /\ announced' \in {announced, announced \cup {Sensor}}
            /\ cb' = "enqueue"
       ELSE /\ cb' = "await"
            /\ UNCHANGED announced
  /\ UNCHANGED <<frontVars, cbM, cbNext, discovered, queue, publisherVars, wireVars,
                 outcomeVars, runVars>>

\* The token of the config is complete (QoS 1): the broker acknowledged it, or
\* the client sent it again after a reconnection and keeps it.  On to the next
\* sensor.
Announced ==
  /\ phase = "running" /\ cb = "await"
  /\ announced' = announced \cup {Sensor}
  /\ IF cbNext < Len(SensorsOf[cbM.fmt])
       THEN /\ cb' = "announce" /\ cbNext' = cbNext + 1
            /\ UNCHANGED discovered
       ELSE /\ cb' = "enqueue" /\ UNCHANGED cbNext
            /\ discovered' = discovered \cup {cbM.dev}
  /\ UNCHANGED <<frontVars, cbM, queue, publisherVars, wireVars, outcomeVars, runVars>>

\* Mutant: the device is marked whatever PublishDiscovery returned.
GiveUpDiscovery_Marked == cb' = "enqueue" /\ discovered' = discovered \cup {cbM.dev}

\* Mutant: the sensor is tried again until it succeeds.
GiveUpDiscovery_Again == cb' = "announce" /\ UNCHANGED discovered

\* PublishDiscovery returns the error: the other sensors are skipped, and the
\* device is not marked.
GiveUpDiscovery == cb' = "enqueue" /\ UNCHANGED discovered

\* PublishRaw timed out, or its token failed.  The config may have reached the
\* broker all the same.
AnnounceFailed ==
  /\ phase = "running" /\ cb = "await"
  /\ announced' \in {announced, announced \cup {Sensor}}
  /\ GiveUpDiscovery
  /\ UNCHANGED <<frontVars, cbM, cbNext, queue, publisherVars, wireVars, outcomeVars,
                 runVars>>

\* Mutant: a dropped measurement is not counted.
Drop_Uncounted == UNCHANGED <<queue, publishFailures>>

Drop == publishFailures' = publishFailures + 1 /\ UNCHANGED queue

\* The non-blocking send; a full queue drops the measurement.
Enqueue ==
  /\ phase = "running" /\ cb = "enqueue"
  /\ IF Len(queue) < PublishQueueSize
       THEN queue' = Append(queue, cbM) /\ UNCHANGED publishFailures
       ELSE Drop
  /\ cb' = "idle" /\ cbM' = None /\ cbNext' = 0
  /\ UNCHANGED <<frontVars, discovered, announced, publisherVars, wireVars,
                 publishedTotal, runVars>>
-----------------------------------------------------------------------------
(* The publisher goroutine and Publish.                                    *)

BackToSelect ==
  /\ pub' = "select" /\ pubM' = None /\ attempt' = 0

\* Mutant: the error Publish returns is not looked at.
Fail_Unseen ==
  /\ BackToSelect
  /\ publishedTotal' = publishedTotal + 1
  /\ UNCHANGED publishFailures

\* Publish has returned an error.
Fail ==
  /\ BackToSelect
  /\ publishFailures' = publishFailures + 1
  /\ UNCHANGED publishedTotal

Take ==
  /\ Alive /\ pub = "select" /\ queue # <<>>
  /\ queue' = Tail(queue)
  /\ IF Head(queue).kind = "nan"
       THEN Fail                        \* json.Marshal
       ELSE /\ pub' = "check" /\ pubM' = Head(queue) /\ attempt' = 0
            /\ UNCHANGED outcomeVars
  /\ UNCHANGED <<frontVars, callbackVars, late, wireVars, runVars>>

Quit ==
  /\ Alive /\ pub = "select" /\ cancelled
  /\ pub' = "done"
  /\ UNCHANGED <<frontVars, callbackVars, queue, pubM, attempt, late, wireVars,
                 outcomeVars, runVars>>

\* Mutant: cancellation is not looked at between attempts.
StopBetweenAttempts_Never == FALSE

StopBetweenAttempts == cancelled

\* The loop head: honour cancellation, and back off before a retry.
Check ==
  /\ Alive /\ pub = "check"
  /\ IF StopBetweenAttempts
       THEN Fail
       ELSE /\ pub' = IF attempt > 0 THEN "backoff" ELSE "send"
            /\ UNCHANGED <<pubM, attempt, outcomeVars>>
  /\ UNCHANGED <<frontVars, callbackVars, queue, late, wireVars, runVars>>

BackoffOver ==
  /\ Alive /\ pub = "backoff"
  /\ pub' = "send"
  /\ UNCHANGED <<frontVars, callbackVars, queue, pubM, attempt, late, wireVars,
                 outcomeVars, runVars>>

BackoffCancelled ==
  /\ Alive /\ pub = "backoff" /\ cancelled
  /\ Fail
  /\ UNCHANGED <<frontVars, callbackVars, queue, late, wireVars, runVars>>

Send ==
  /\ Alive /\ pub = "send"
  /\ pub' = "await"
  /\ LET x == [m |-> pubM, attempt |-> attempt, sent |-> now] IN
       /\ outbox' = Append(outbox, x)
       /\ store' = IF QoS > 0 THEN store \cup {x} ELSE store
  /\ late' = IF cancelled THEN late + 1 ELSE late
  /\ UNCHANGED <<frontVars, callbackVars, queue, pubM, attempt, complete, broker,
                 outcomeVars, runVars>>

TokenComplete == QoS = 0 \/ complete

TokenDone ==
  /\ Alive /\ pub = "await"
  /\ TokenComplete
  /\ publishedTotal' = publishedTotal + 1
  /\ BackToSelect
  /\ complete' = FALSE
  /\ UNCHANGED <<frontVars, callbackVars, queue, late, outbox, broker, store,
                 publishFailures, runVars>>

\* Mutant: one attempt too many.
RetriesLeft_OneMore == attempt <= PublishRetries

\* Mutant: attempts without end, none counted.
Retry_Uncounted == pub' = "check" /\ UNCHANGED <<attempt, pubM, queue, outcomeVars>>

\* Mutant: a measurement whose attempts failed goes to the end of the queue.
LastAttemptFailed_Requeue ==
  /\ Len(queue) < PublishQueueSize
  /\ queue' = Append(queue, pubM)
  /\ BackToSelect /\ UNCHANGED outcomeVars

RetriesLeft == attempt < PublishRetries

Retry == pub' = "check" /\ attempt' = attempt + 1 /\ UNCHANGED <<pubM, queue, outcomeVars>>

LastAttemptFailed == Fail /\ UNCHANGED queue

\* The token times out or carries an error; what it stood for may still arrive.
TokenFailed ==
  /\ Alive /\ pub = "await"
  /\ IF RetriesLeft THEN Retry ELSE LastAttemptFailed
  /\ complete' = FALSE
  /\ UNCHANGED <<frontVars, callbackVars, late, outbox, broker, store, runVars>>
-----------------------------------------------------------------------------
(* The network, the clock and the shutdown.                                *)

\* The publisher waits for the token of this message.
InHand(x) == pub = "await" /\ x.m = pubM /\ x.attempt = attempt

\* The broker's answer to a message reaches the client.
Acknowledge(x) ==
  /\ store' = store \ {x}
  /\ complete' = (complete \/ InHand(x))

\* The broker has the message; its answer, if it gives one, may be lost.
Deliver ==
  /\ outbox # <<>>
  /\ broker' = Append(broker, [m |-> Head(outbox).m, sent |-> Head(outbox).sent])
  /\ outbox' = Tail(outbox)
  /\ \/ QoS > 0 /\ Acknowledge(Head(outbox))
     \/ UNCHANGED <<store, complete>>
  /\ UNCHANGED <<frontVars, callbackVars, queue, publisherVars, outcomeVars, runVars>>

Lose ==
  /\ outbox # <<>>
  /\ outbox' = Tail(outbox)
  /\ UNCHANGED <<frontVars, callbackVars, queue, publisherVars, broker, store, complete,
                 outcomeVars, runVars>>

\* After a reconnection the client sends a message it keeps once more.  It then
\* gives the packet's identifier to a token of its own, and completes the token
\* the publisher waits for, without an error and without an answer.
Resume(x) ==
  /\ Alive
  /\ Len(outbox) + Len(broker) < MaxSent
  /\ outbox' = Append(outbox, x)
  /\ complete' = (complete \/ InHand(x))
  /\ UNCHANGED <<frontVars, callbackVars, queue, publisherVars, broker, store,
                 outcomeVars, runVars>>

Tick ==
  /\ Alive /\ now < MaxTime /\ cb \in {"idle", "await"}
  /\ now' = now + 1
  /\ UNCHANGED <<frontVars, callbackVars, queue, publisherVars, wireVars, outcomeVars,
                 cancelled, phase>>

\* SIGINT or SIGTERM.
Cancel ==
  /\ phase = "running" /\ ~cancelled
  /\ cancelled' = TRUE
  /\ UNCHANGED <<frontVars, callbackVars, queue, publisherVars, wireVars, outcomeVars,
                 now, phase>>

\* Mutant: run waits for the queue to empty.
ScanOver_Drained == cancelled /\ cb = "idle" /\ queue = <<>>

\* scanner.Start sees the cancelled context between two callbacks.
ScanOver == cancelled /\ cb = "idle"

\* Start returns, and run's deferred calls begin: Shutdown of the health endpoint
\* waits for the probes under way, ...
ScanReturns ==
  /\ phase = "running" /\ ScanOver
  /\ phase' = "answering"
  /\ UNCHANGED <<frontVars, callbackVars, queue, publisherVars, wireVars, outcomeVars,
                 now, cancelled>>

\* ... with no limit of its own, and then Disconnect begins.
ProbesAnswered ==
  /\ phase = "answering"
  /\ phase' = "closing"
  /\ UNCHANGED <<frontVars, callbackVars, queue, publisherVars, wireVars, outcomeVars,
                 now, cancelled>>

\* main returns, and takes every goroutine with it, and what the client kept.
Exit ==
  /\ phase = "closing"
  /\ phase' = "exited"
  /\ store' = {}
  /\ UNCHANGED <<frontVars, callbackVars, queue, publisherVars, outbox, broker, complete,
                 outcomeVars, now, cancelled>>

Stopped == phase \in {"exited", "panicked"} /\ UNCHANGED vars

FrontStep ==
  \E d \in Devices :
    \/ Ignore(d)
    \/ \E f \in Frames :
         Suppress(d, f) \/ Panic(d, f) \/ RateLimit(d, f) \/ Reject(d, f) \/ Admit(d, f)

CallbackStep == Announce \/ Announced \/ AnnounceFailed \/ Enqueue

PublisherStep ==
  \/ Take \/ Quit \/ Check \/ BackoffOver \/ BackoffCancelled
  \/ Send \/ TokenDone \/ TokenFailed

NetworkStep == Deliver \/ Lose \/ \E x \in store : Resume(x)

RunStep == Tick \/ Cancel \/ ScanReturns \/ ProbesAnswered \/ Exit \/ Stopped

Next == FrontStep \/ CallbackStep \/ PublisherStep \/ NetworkStep \/ RunStep

Spec == Init /\ [][Next]_vars

\* A goroutine that can run does; a wait for a token ends, at the latest by
\* its timeout; the scanner and main return.  A probe is answered, or cut off by
\* ReadHeaderTimeout: its handler waits for nothing, and its answer fits a socket's
\* buffer.  Nothing is assumed of the radio, of the broker or of the signals.
Fairness ==
  /\ WF_vars(CallbackStep)
  /\ WF_vars(PublisherStep)
  /\ WF_vars(ScanReturns)
  /\ WF_vars(ProbesAnswered)
  /\ WF_vars(Exit)

FairSpec == Spec /\ Fairness
-----------------------------------------------------------------------------
(* Types, one operator for each group of variables.                        *)

FrontType ==
  /\ heard \in 0..MaxAdverts
  /\ lastSeen \in [Devices -> Nat \cup {Never}]
  /\ lastE1 \in [Devices -> Nat \cup {Never}]
  /\ lastSent \in [Devices -> Nat \cup {Never}]
  /\ admitted \subseteq Measurement
  /\ total \in Nat /\ suppressed \in Nat /\ rateLimited \in Nat /\ parseErrors \in Nat

CallbackType ==
  /\ cb \in {"idle", "announce", "await", "enqueue"}
  /\ IF cb = "idle" THEN cbM = None ELSE cbM \in Measurement
  /\ cbNext \in Nat
  /\ cb \in {"announce", "await"} => cbNext \in 1..Len(SensorsOf[cbM.fmt])
  /\ discovered \subseteq Devices
  /\ announced \subseteq Devices \X STRING

QueueType == queue \in Seq(Measurement) /\ Len(queue) <= PublishQueueSize

PublisherType ==
  /\ pub \in {"select", "check", "backoff", "send", "await", "done"}
  /\ IF pub \in {"select", "done"} THEN pubM = None ELSE pubM \in Measurement
  /\ attempt \in 0..PublishRetries
  /\ late \in Nat

WireType ==
  /\ outbox \in Seq(Message)
  /\ broker \in Seq(Receipt)
  /\ store \subseteq Message
  /\ complete \in BOOLEAN

OutcomeType == publishedTotal \in Nat /\ publishFailures \in Nat

RunType ==
  /\ now \in 0..MaxTime
  /\ cancelled \in BOOLEAN
  /\ phase \in {"running", "answering", "closing", "exited", "panicked"}

\* Every variable holds what the code can store in it; publishCh holds at most
\* its capacity, and no attempt is numbered beyond publishRetries.
TypeOK ==
  /\ FrontType /\ CallbackType /\ QueueType /\ PublisherType /\ WireType
  /\ OutcomeType /\ RunType

\* Every advertisement counted in advertisements_total is in exactly one place:
\* suppressed as a format 6 duplicate, counted by one of the four outcome
\* counters, or still with the callback, in the queue or with the publisher.
\* No path through the callback, the full queue, the retries or the
\* cancellation loses one or counts it twice.
Accounting ==
  phase # "panicked" =>
    total = suppressed + rateLimited + parseErrors + publishedTotal + publishFailures
            + (IF cb = "idle" THEN 0 ELSE 1)
            + Len(queue)
            + (IF pub \in {"select", "done"} THEN 0 ELSE 1)

\* Two measurements of one device are admitted at least its min_interval apart,
\* whatever happens to either of them afterwards.
AdmissionSpacing ==
  \A m1, m2 \in admitted :
    m1.dev = m2.dev /\ m1.id < m2.id => m2.at - m1.at >= Interval(m1.dev)

\* After an E1 measurement of a device no format 6 measurement of it is made
\* for e1PreferWindow: the published values do not alternate between the two.
E1Preferred ==
  \A m1, m2 \in admitted :
    m1.dev = m2.dev /\ m1.id < m2.id /\ m1.fmt = "E1" /\ m2.fmt = "F6"
      => m2.at - m1.at >= E1PreferWindow

\* The broker receives the measurements in the order of their advertisements,
\* retries and late arrivals included: a retained topic never goes back to an
\* older value.  True at QoS 0; at QoS 1 the client may send an older measurement
\* again after a newer one.
NeverGoesBack ==
  \A i, j \in DOMAIN broker : i < j => broker[i].m.id <= broker[j].m.id

\* A device marked as discovered has every sensor of one format announced: a
\* discovery that failed half way is tried again at the next measurement.
DiscoveredIsAnnounced ==
  \A d \in discovered : \E f \in Formats :
    \A i \in DOMAIN SensorsOf[f] : <<d, SensorsOf[f][i]>> \in announced

\* Once the context is cancelled the publisher starts at most one more
\* transmission: the one whose check had already passed.
LateSends == late <= 1

\* What src/src/main.go:146 says: the callback never blocks on network I/O.  No
\* time passes while it runs.
CallbackNeverBlocks == cb # "idle" => now = lastSeen[cbM.dev]

\* What README.md:234 says: with discovery on, the sensors of a device are
\* created.  When the broker has the newest measurement of a device taken as
\* discovered, it has the config of each sensor of that measurement.
SensorsAreCreated ==
  \A i \in DOMAIN broker : LET m == broker[i].m IN
    m.dev \in discovered /\ (\A n \in admitted : n.dev = m.dev => n.id <= m.id)
      => \A j \in DOMAIN SensorsOf[m.fmt] : <<m.dev, SensorsOf[m.fmt][j]>> \in announced

\* What docs/TROUBLESHOOTING.md:132 says of min_interval: at most one message
\* per interval and device.  Repeats of one measurement aside, Publish sends a
\* device's measurements at least the interval apart.
PublishSpacing ==
  \A i, j \in DOMAIN broker :
    i < j /\ broker[i].m.dev = broker[j].m.dev /\ broker[i].m # broker[j].m
      => broker[j].sent - broker[i].sent >= Interval(broker[i].m.dev)

\* What the nil checks at src/src/main.go:220 and 376 say: a device entry
\* without a body is a legal configuration.
NilEntriesAreLegal == phase # "panicked"

\* A callback that has begun ends, whatever the broker does.
CallbackReturns == cb # "idle" ~> (cb = "idle" \/ ~Alive)

\* Whatever is queued is taken to an outcome, unless the process is told to stop.
QueueDrains == queue # <<>> ~> (queue = <<>> \/ cancelled \/ ~Alive)

\* A signal ends the process, whatever callback and publisher are doing.
ShutdownCompletes == cancelled ~> ~Alive
=============================================================================
