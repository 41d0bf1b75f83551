------------------------------- MODULE Health -------------------------------
(***************************************************************************)
(* What ruuvihome says of itself: runObservability with its warnings of    *)
(* silent tags, the /health endpoint of startHealthServer and              *)
(* runHealthcheckProbe of src/src/main.go, fed by lastSeen, which the      *)
(* advertisement callback writes, and by IsConnected of the MQTT client.   *)
(*                                                                         *)
(* Time passes in steps; the goroutines are assumed to run within one.     *)
(* Ages are kept up to Never, beyond everything the code compares with.    *)
(***************************************************************************)
EXTENDS Integers

CONSTANTS
  Threshold,  \* tagSilenceThreshold
  CheckEvery, \* silenceCheckInterval
  Devices,    \* addresses that may be heard, in upper case
  Keys,       \* the keys of the devices section
  Named       \* filter_mode is named

ASSUME HealthAssumption ==
  /\ Threshold \in Nat \ {0} /\ CheckEvery \in Nat \ {0} /\ Named \in BOOLEAN

VARIABLES
  stage,    \* the process: "starting", before the endpoint is there; "serving"; "stopped"
  uptime,   \* time.Since(startTime), and since startupGrace was set
  lastSeen, \* age of the entry of an address; Never without one
  heard,    \* history: time since an address was heard
  check,    \* time until the silence ticker fires
  warned,   \* history: the keys the last silence check warned of
  client,   \* the MQTT client: "connected", "reconnecting", "closed"
  probe     \* history: what the last probe returned, now: "none", "ok", "failed"

timeVars == <<uptime, lastSeen, heard, check>>
vars == <<stage, timeVars, warned, client, probe>>

Never == Threshold + CheckEvery + 2

Init ==
  /\ stage = "starting" /\ uptime = 0 /\ client = "connected"
  /\ lastSeen = [d \in Devices |-> Never] /\ heard = [d \in Devices |-> Never]
  /\ check = CheckEvery /\ warned = {} /\ probe = "none"
-----------------------------------------------------------------------------
(* The advertisement callback.                                             *)

\* Mutant: the entry is written before the device is looked up.
Tracked_Everyone(d) == TRUE

Tracked(d) == Named => d \in Keys

Advertise(d) ==
  /\ stage = "serving"
  /\ heard' = [heard EXCEPT ![d] = 0]
  /\ lastSeen' = IF Tracked(d) THEN [lastSeen EXCEPT ![d] = 0] ELSE lastSeen
  /\ probe' = "none"
  /\ UNCHANGED <<stage, uptime, check, warned, client>>
-----------------------------------------------------------------------------
(* runObservability.                                                       *)

\* lastSeen.Load of a key: a key no address is equal to has no entry.
Age(k) == IF k \in Devices THEN lastSeen[k] ELSE Never

\* Mutant: a tag without an entry is passed over.
Silent_SeenOnly(k) == Age(k) # Never /\ Age(k) > Threshold

\* Mutant: a tag is silent at the threshold already.
Silent_AtThreshold(k) == Age(k) >= Threshold

\* "Tag never seen since startup" and "Tag silent".
Silent(k) == Age(k) > Threshold

InGrace == uptime < Threshold

\* Mutant: the check walks over every address instead of the keys.
SilenceCheck_Everyone ==
  /\ stage = "serving" /\ check = 0
  /\ check' = CheckEvery
  /\ warned' = IF InGrace THEN warned ELSE {d \in Devices : Silent(d)}
  /\ probe' = "none"
  /\ UNCHANGED <<stage, uptime, lastSeen, heard, client>>

SilenceCheck ==
  /\ stage = "serving" /\ check = 0
  /\ check' = CheckEvery
  /\ warned' = IF InGrace THEN warned ELSE {k \in Keys : Silent(k)}
  /\ probe' = "none"
  /\ UNCHANGED <<stage, uptime, lastSeen, heard, client>>
-----------------------------------------------------------------------------
(* /health.                                                                *)

\* IsConnected of paho with AutoReconnect: also while it reconnects.
IsConnected == client \in {"connected", "reconnecting"}

\* The newest entry is younger than the threshold.
RecentEnough == \E d \in Devices : lastSeen[d] < Threshold

Healthy == IsConnected /\ (RecentEnough \/ InGrace)

\* --healthcheck: no answer in time and any answer but 200 are the same.
Probe ==
  /\ probe' = IF stage = "serving" /\ Healthy THEN "ok" ELSE "failed"
  /\ UNCHANGED <<stage, timeVars, warned, client>>
-----------------------------------------------------------------------------
(* Time, the connection and the process.                                   *)

Older(age) == [d \in Devices |-> IF age[d] < Never THEN age[d] + 1 ELSE Never]

Tick ==
  /\ stage = "serving" => check > 0
  /\ IF stage = "serving"
       THEN /\ uptime' = IF uptime < Never THEN uptime + 1 ELSE Never
            /\ lastSeen' = Older(lastSeen) /\ heard' = Older(heard)
            /\ check' = check - 1
       ELSE UNCHANGED timeVars
  /\ probe' = "none"
  /\ UNCHANGED <<stage, warned, client>>

Serve ==
  /\ stage = "starting"
  /\ stage' = "serving" /\ probe' = "none"
  /\ UNCHANGED <<timeVars, warned, client>>

Shutdown ==
  /\ stage = "serving"
  /\ stage' = "stopped" /\ client' = "closed" /\ probe' = "none"
  /\ UNCHANGED <<timeVars, warned>>

LoseConnection ==
  /\ client = "connected"
  /\ client' = "reconnecting" /\ probe' = "none"
  /\ UNCHANGED <<stage, timeVars, warned>>

Reconnect ==
  /\ client = "reconnecting"
  /\ client' = "connected" /\ probe' = "none"
  /\ UNCHANGED <<stage, timeVars, warned>>

Next ==
  \/ \E d \in Devices : Advertise(d)
  \/ SilenceCheck \/ Probe \/ Tick \/ Serve \/ Shutdown \/ LoseConnection \/ Reconnect

Spec == Init /\ [][Next]_vars
-----------------------------------------------------------------------------
\* Every variable holds what the code can store in it; no entry is older than the
\* process.
TypeOK ==
  /\ stage \in {"starting", "serving", "stopped"}
  /\ uptime \in 0..Never /\ check \in 0..CheckEvery
  /\ lastSeen \in [Devices -> 0..Never] /\ heard \in [Devices -> 0..Never]
  /\ \A d \in Devices : lastSeen[d] = Never \/ lastSeen[d] <= uptime
  /\ warned \subseteq Keys
  /\ client \in {"connected", "reconnecting", "closed"}
  /\ probe \in {"none", "ok", "failed"}

\* A configured tag that has been silent since the threshold and one check interval,
\* or was never heard since the start, has been warned of, by the last check.
SilentTagIsWarned ==
  stage = "serving" =>
    \A k \in Keys :
      (IF k \in Devices THEN heard[k] ELSE Never) > Threshold + CheckEvery
        /\ uptime > Threshold + CheckEvery => k \in warned

\* A check warns of no tag that was heard within the threshold, nor of one that has
\* not had the time of a threshold to be heard in.
NoFalseWarning ==
  [][check = 0 /\ check' # 0 =>
       \A k \in warned' \cap Devices : heard[k] > Threshold /\ uptime >= Threshold]_vars

\* In named mode a healthy process has heard a tag of its own within the threshold,
\* or is younger than that: the tags of the neighbours do not keep it healthy.  A
\* process that is connected and hears its tags is never restarted for its health.
ProbeIsRight ==
  /\ Named /\ probe = "ok" =>
       uptime < Threshold \/ \E d \in Keys \cap Devices : heard[d] < Threshold
  /\ stage = "serving" /\ client = "connected" /\ probe = "failed" =>
       uptime >= Threshold /\ \A d \in Keys \cap Devices : heard[d] >= Threshold

\* A healthy process is connected to the broker.
HealthyIsConnected == probe = "ok" => client = "connected"
=============================================================================
