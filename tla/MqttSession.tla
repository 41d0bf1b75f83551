---------------------------- MODULE MqttSession -----------------------------
(***************************************************************************)
(* The connection of ruuvihome to the broker and the retained status topic *)
(* it keeps: NewClient, Connect, Disconnect and the first step of Publish  *)
(* of src/src/mqtt/publisher.go, called by run of src/src/main.go.         *)
(*                                                                         *)
(* Three parties write the status: the OnConnect handler, a goroutine for  *)
(* each connection, Disconnect, and the broker with the last will.  The    *)
(* paho client and the broker are external: the client reconnects, keeps   *)
(* QoS 1 messages over a reconnection and drops QoS 0 ones; the broker     *)
(* and the client notice a broken connection each in its own time; a new   *)
(* connection of the same client id ends the old one, whose will is sent   *)
(* first.                                                                  *)
(***************************************************************************)
EXTENDS Integers, Sequences

CONSTANTS
  HandlerMax, \* bound: OnConnect goroutines that have not run yet
  WireMax     \* bound: messages on their way when another measurement is sent

ASSUME MqttAssumption == HandlerMax \in Nat \ {0} /\ WireMax \in Nat

VARIABLES
  host,     \* run: "connect", "run", "stop" (in Disconnect), "down"
  client,   \* paho: "connecting", "connected", "reconnecting", "closed"
  handlers, \* OnConnect goroutines that have not run yet
  stored,   \* an online status is in paho's store, to be sent on reconnection
  wire,     \* messages on their way to the broker
  broker,   \* "up", "down"
  session,  \* the broker has a connection of this client id
  status,   \* the retained status topic: "none", "online", "offline"
  counted,  \* history: the last measurement was counted as published
  written,  \* history: it was given to a connection
  excused   \* history: since the last connection the broker has gone ("crash"), or
            \* that connection was made, or an OnConnect goroutine, of whichever
            \* connection, has run, after the farewell of Disconnect ("late")

hostVars == <<client, handlers, stored>>
netVars == <<wire, broker, session, status>>
measurementVars == <<counted, written>>
vars == <<host, hostVars, netVars, measurementVars, excused>>

Init ==
  /\ host = "connect" /\ client = "connecting" /\ handlers = 0 /\ stored = FALSE
  /\ wire = <<>> /\ broker = "up" /\ session = FALSE /\ status = "none"
  /\ counted = FALSE /\ written = FALSE /\ excused = {}
-----------------------------------------------------------------------------
(* The client.                                                             *)

\* IsConnected of paho with AutoReconnect and ConnectRetry: also while it tries.
IsConnected == client \in {"connecting", "connected", "reconnecting"}

\* SetOnConnectHandler: a goroutine for each connection.
Handlers == handlers + 1

\* The farewell of Disconnect is said.
After == IF host = "stop" THEN {"late"} ELSE {}

\* The first connection and every later one.  What is in the store is sent; the
\* will of a connection that is still open at the broker comes before.
Establish ==
  /\ client \in {"connecting", "reconnecting"} /\ broker = "up"
  /\ handlers < HandlerMax
  /\ client' = "connected" /\ handlers' = Handlers
  /\ session' = TRUE
  /\ status' = IF session THEN "offline" ELSE status
  /\ wire' = IF stored THEN <<"online">> ELSE <<>>
  /\ stored' = FALSE /\ excused' = After
  /\ UNCHANGED <<host, broker, measurementVars>>

\* The client notices that the connection is gone.
Lose ==
  /\ client = "connected"
  /\ client' = "reconnecting"
  /\ UNCHANGED <<host, handlers, stored, netVars, measurementVars, excused>>

\* A QoS 1 message: sent, or kept for the next connection, or refused.
PublishQoS1(m) ==
  /\ wire' = IF client = "connected" THEN Append(wire, m) ELSE wire
  /\ stored' = (stored \/ (m = "online" /\ client \in {"connecting", "reconnecting"}))

OnConnect ==
  /\ handlers > 0 /\ host # "down"
  /\ handlers' = handlers - 1
  /\ PublishQoS1("online")
  /\ excused' = excused \cup After
  /\ UNCHANGED <<host, client, broker, session, status, measurementVars>>

\* A measurement with QoS 0: a client that reconnects drops it, with a token that is
\* complete without an error.
Publish ==
  /\ host \in {"run", "stop"} /\ Len(wire) < WireMax
  /\ counted' = IsConnected /\ written' = (client = "connected")
  /\ wire' = IF client = "connected" THEN Append(wire, "data") ELSE wire
  /\ UNCHANGED <<host, hostVars, broker, session, status, excused>>
-----------------------------------------------------------------------------
(* run.                                                                    *)

Connect ==
  /\ host = "connect" /\ client # "connecting"
  /\ host' = "run"
  /\ UNCHANGED <<hostVars, netVars, measurementVars, excused>>

\* The process is gone.  What it has written may still arrive.
Exit ==
  /\ host' = "down" /\ client' = "closed"
  /\ handlers' = 0 /\ stored' = FALSE
  /\ UNCHANGED <<broker, session, status, measurementVars>>

\* Mutant: run goes on without a connection.
ConnectTimesOut_Ignored ==
  /\ host = "connect" /\ client = "connecting"
  /\ host' = "run"
  /\ UNCHANGED <<hostVars, netVars, measurementVars, excused>>

\* 30 s without a connection: run returns the error and main exits.
ConnectTimesOut ==
  /\ host = "connect" /\ client = "connecting"
  /\ Exit
  /\ UNCHANGED <<wire, excused>>

\* Mutant: Disconnect leaves the status to the last will.
Goodbye_Silent == UNCHANGED <<wire, stored>>

\* The offline status of Disconnect, deferred by run.
Goodbye == PublishQoS1("offline")

Disconnect ==
  /\ host = "run"
  /\ host' = "stop"
  /\ Goodbye
  /\ UNCHANGED <<client, handlers, broker, session, status, measurementVars, excused>>

\* client.Disconnect(1000): the broker discards the will.
Close ==
  /\ host = "stop"
  /\ wire' = IF client = "connected" THEN Append(wire, "bye") ELSE wire
  /\ Exit
  /\ UNCHANGED excused

Crash ==
  /\ host # "down"
  /\ Exit
  /\ UNCHANGED <<wire, excused>>

\* The container is started again.
Restart ==
  /\ host = "down"
  /\ host' = "connect" /\ client' = "connecting"
  /\ UNCHANGED <<handlers, stored, netVars, measurementVars, excused>>
-----------------------------------------------------------------------------
(* The broker.                                                             *)

Deliver ==
  /\ session /\ wire # <<>>
  /\ wire' = IF Head(wire) = "bye" THEN <<>> ELSE Tail(wire)
  /\ session' = (Head(wire) # "bye")
  /\ status' = IF Head(wire) \in {"online", "offline"} THEN Head(wire) ELSE status
  /\ UNCHANGED <<host, hostVars, broker, measurementVars, excused>>

\* Mutant: no last will is set.
Will_None == status

Will == "offline"

\* The broker notices that the connection is gone.
Drop ==
  /\ session
  /\ session' = FALSE /\ wire' = <<>> /\ status' = Will
  /\ UNCHANGED <<host, hostVars, broker, measurementVars, excused>>

\* No will is sent; what is retained may be lost.
BrokerGoes ==
  /\ broker = "up"
  /\ broker' = "down" /\ session' = FALSE /\ wire' = <<>>
  /\ status' \in {status, "none"}
  /\ excused' = excused \cup {"crash"}
  /\ UNCHANGED <<host, hostVars, measurementVars>>

BrokerReturns ==
  /\ broker = "down"
  /\ broker' = "up"
  /\ UNCHANGED <<host, hostVars, wire, session, status, measurementVars, excused>>

\* The client cannot be connected for ever where the broker has no connection, nor
\* the broker where nobody is connected.
Notice == (~session /\ Lose) \/ (client # "connected" /\ Drop)

Next ==
  \/ Establish \/ Lose \/ OnConnect \/ Publish
  \/ Connect \/ ConnectTimesOut \/ Disconnect \/ Close \/ Crash \/ Restart
  \/ Deliver \/ Drop \/ BrokerGoes \/ BrokerReturns

Fairness ==
  /\ WF_vars(Establish) /\ WF_vars(OnConnect) /\ WF_vars(Connect) /\ WF_vars(Close)
  /\ WF_vars(Deliver) /\ WF_vars(Notice)

Spec == Init /\ [][Next]_vars /\ Fairness
-----------------------------------------------------------------------------
\* Every variable holds what the code can store in it; a process that is down has
\* neither a client nor goroutines.
TypeOK ==
  /\ host \in {"connect", "run", "stop", "down"}
  /\ client \in {"connecting", "connected", "reconnecting", "closed"}
  /\ (client = "closed") = (host = "down")
  /\ (client = "connecting") => (host = "connect")
  /\ handlers \in 0..HandlerMax /\ (host = "down" => handlers = 0)
  /\ wire \in Seq({"online", "offline", "data", "bye"})
  /\ broker \in {"up", "down"} /\ session \in BOOLEAN
  /\ status \in {"none", "online", "offline"}
  /\ stored \in BOOLEAN /\ counted \in BOOLEAN /\ written \in BOOLEAN
  /\ excused \subseteq {"crash", "late"}

\* The three writers of the status agree in the end.  Once everything on its way has
\* arrived, a process that runs and is connected is online, and one that has ended,
\* cleanly or not, is not.  Two cases are excused: the broker crashed meanwhile; or an
\* OnConnect goroutine, of the first connection or of a later one, ran only after
\* Disconnect had published offline, and wrote online behind it.
StatusSettles ==
  wire = <<>> /\ handlers = 0 =>
    /\ host \in {"connect", "run"} /\ client = "connected" /\ session => status = "online"
    /\ host = "down" /\ ~session /\ excused = {} => status # "online"

\* A connection that lasts is shown as online, and the broker does not show a
\* process as online that is gone for good.
StatusConverges ==
  /\ <>[](host = "run" /\ client = "connected" /\ session) => <>[](status = "online")
  /\ <>[](host = "down" /\ broker = "up" /\ excused = {}) => <>[](status # "online")

\* What "Publish offline status before disconnecting" (publisher.go:132) is for: after
\* a stop the status is not online, whenever the OnConnect goroutine ran.  Nothing
\* orders that goroutine and Disconnect, so the code refutes it.
FarewellIsLast ==
  wire = <<>> /\ host = "down" /\ ~session /\ "crash" \notin excused => status # "online"

\* A measurement counted as published was given to a connection.
CountedIsWritten == counted => written
=============================================================================
