-------------------------- MODULE MqttSessionProofs --------------------------
(* Theorems about MqttSession for all values of its constants.             *)
EXTENDS MqttSession, TLAPS

Words == {"online", "offline", "data", "bye"}

\* What appending to a sequence of words and taking its head leaves.
LEMMA AppendWord ==
  ASSUME NEW w \in Seq(Words), NEW m \in Words
  PROVE  /\ Append(w, m) \in Seq(Words)
         /\ Len(Append(w, m)) = Len(w) + 1
         /\ \A i \in 1..Len(w) : Append(w, m)[i] = w[i]
         /\ Append(w, m)[Len(w) + 1] = m
OBVIOUS

LEMMA TailWord ==
  ASSUME NEW w \in Seq(Words), w # <<>>
  PROVE  /\ Len(w) \in Nat \ {0} /\ Head(w) = w[1] /\ Head(w) \in Words
         /\ Tail(w) \in Seq(Words) /\ Len(Tail(w)) = Len(w) - 1
         /\ \A i \in 1..(Len(w) - 1) : Tail(w)[i] = w[i + 1]
OBVIOUS

LEMMA NoHandler == 0 \in 0..HandlerMax
BY MqttAssumption

LEMMA Literals ==
  /\ <<>> \in Seq(Words) /\ Len(<<>>) = 0
  /\ <<"online">> \in Seq(Words) /\ Len(<<"online">>) = 1 /\ <<"online">>[1] = "online"
BY DEF Words

-----------------------------------------------------------------------------
(* Type correctness.                                                       *)

LEMMA TypeInit == Init => TypeOK
<1> SUFFICES ASSUME Init PROVE TypeOK
  OBVIOUS
<1>1. wire \in Seq({"online", "offline", "data", "bye"})
  BY Literals DEF Init, Words
<1>2. QED
  BY <1>1, NoHandler DEF Init, TypeOK

\* What a step leaves of the types when it sets the wire to a sequence of words.
LEMMA Handover ==
  ASSUME TypeOK, NEW m \in Words, PublishQoS1(m)
  PROVE  wire' \in Seq(Words) /\ stored' \in BOOLEAN
BY AppendWord DEF PublishQoS1, TypeOK, Words

LEMMA TypeStep == TypeOK /\ [Next]_vars => TypeOK'
<1> SUFFICES ASSUME TypeOK, [Next]_vars PROVE TypeOK'
  OBVIOUS
<1> USE MqttAssumption
<1> USE DEF hostVars, netVars, measurementVars
<1>1. ASSUME Establish PROVE TypeOK'
  <2>1. wire' \in Seq(Words)
    BY <1>1, Literals DEF Establish
  <2>2. /\ stored' = FALSE /\ status' \in {"none", "online", "offline"}
        /\ excused' \subseteq {"crash", "late"}
    BY <1>1 DEF Establish, After, TypeOK
  <2>3. client' = "connected" /\ host' = host /\ host # "down"
    BY <1>1 DEF Establish, TypeOK
  <2>4. handlers' \in 0..HandlerMax
    BY <1>1 DEF Establish, Handlers, TypeOK
  <2>5. QED
    BY <1>1, <2>1, <2>2, <2>3, <2>4 DEF Establish, TypeOK, Words
<1>2. ASSUME Lose PROVE TypeOK'
  BY <1>2 DEF Lose, TypeOK
<1>3. ASSUME OnConnect PROVE TypeOK'
  <2>1. wire' \in Seq(Words) /\ stored' \in BOOLEAN /\ excused' \subseteq {"crash", "late"}
    BY <1>3, Handover DEF OnConnect, After, TypeOK, Words
  <2>2. QED
    BY <1>3, <2>1 DEF OnConnect, TypeOK, Words
<1>4. ASSUME Publish PROVE TypeOK'
  <2>1. wire' \in Seq(Words)
    BY <1>4, AppendWord DEF Publish, TypeOK, Words
  <2>2. counted' \in BOOLEAN /\ written' \in BOOLEAN
    BY <1>4 DEF Publish, IsConnected
  <2>3. QED
    BY <1>4, <2>1, <2>2 DEF Publish, TypeOK, Words
<1>5. ASSUME Connect PROVE TypeOK'
  BY <1>5 DEF Connect, TypeOK
<1>6. ASSUME ConnectTimesOut PROVE TypeOK'
  BY <1>6, NoHandler DEF ConnectTimesOut, Exit, TypeOK
<1>7. ASSUME Disconnect PROVE TypeOK'
  <2>1. wire' \in Seq(Words) /\ stored' \in BOOLEAN
    BY <1>7, Handover DEF Disconnect, Goodbye, Words
  <2>2. QED
    BY <1>7, <2>1 DEF Disconnect, TypeOK, Words
<1>8. ASSUME Close PROVE TypeOK'
  <2>1. wire' \in Seq(Words)
    BY <1>8, AppendWord DEF Close, TypeOK, Words
  <2>2. QED
    BY <1>8, <2>1, NoHandler DEF Close, Exit, TypeOK, Words
<1>9. ASSUME Crash PROVE TypeOK'
  BY <1>9, NoHandler DEF Crash, Exit, TypeOK
<1>10. ASSUME Restart PROVE TypeOK'
  BY <1>10 DEF Restart, TypeOK
<1>11. ASSUME Deliver PROVE TypeOK'
  <2>1. wire' \in Seq(Words)
    BY <1>11, TailWord, Literals DEF Deliver, TypeOK, Words
  <2>2. session' \in BOOLEAN /\ status' \in {"none", "online", "offline"}
    BY <1>11 DEF Deliver, TypeOK
  <2>3. QED
    BY <1>11, <2>1, <2>2 DEF Deliver, TypeOK, Words
<1>12. ASSUME Drop PROVE TypeOK'
  <2>1. wire' \in Seq(Words)
    BY <1>12, Literals DEF Drop
  <2>2. QED
    BY <1>12, <2>1 DEF Drop, Will, TypeOK, Words
<1>13. ASSUME BrokerGoes PROVE TypeOK'
  <2>1. wire' \in Seq(Words)
    BY <1>13, Literals DEF BrokerGoes
  <2>2. QED
    BY <1>13, <2>1 DEF BrokerGoes, TypeOK, Words
<1>14. ASSUME BrokerReturns PROVE TypeOK'
  BY <1>14 DEF BrokerReturns, TypeOK
<1>15. ASSUME UNCHANGED vars PROVE TypeOK'
  BY <1>15 DEF vars, TypeOK
<1>16. QED
  BY <1>1, <1>2, <1>3, <1>4, <1>5, <1>6, <1>7, <1>8, <1>9, <1>10, <1>11, <1>12, <1>13,
     <1>14, <1>15 DEF Next

\* Every reachable state is well typed; a process that is down has no client.
THEOREM TypeCorrect == Spec => []TypeOK
BY TypeInit, TypeStep, PTL DEF Spec

-----------------------------------------------------------------------------
(* The status.                                                             *)

\* What the status topic will have been told: now, and by each word on the wire.
Told(i) == IF i = 0 THEN status ELSE wire[i]

\* Everything delivered, the status will be offline.
FarewellSaid ==
  \E i \in 0..Len(wire) :
    Told(i) = "offline" /\ \A j \in 1..Len(wire) : j > i => wire[j] # "online"

Carries(m) == \E i \in 1..Len(wire) : wire[i] = m

Working == host \in {"connect", "run"} /\ client = "connected"

\* While the process works nothing it has sent takes back that it is online.  When
\* it has said farewell nothing follows but the end of the connection, unless it is
\* excused; without a connection the status is not online.
StatusInv ==
  /\ Working => ~Carries("offline")
  /\ Working /\ session /\ handlers = 0 => status = "online" \/ Carries("online")
  /\ client = "connected" => ~Carries("bye")
  /\ \A i \in 1..Len(wire) : wire[i] = "bye" => i = Len(wire)
  /\ excused = {} /\ session /\ (Carries("bye") \/ (host = "stop" /\ client = "connected"))
       => FarewellSaid
  /\ excused = {} /\ ~session => status # "online"

LEMMA StatusInit == Init => StatusInv
BY DEF Init, StatusInv, Working, Carries

\* The wire and the status stay.
LEMMA SameTold ==
  ASSUME UNCHANGED <<wire, status>>
  PROVE  /\ FarewellSaid' = FarewellSaid
         /\ \A m : Carries(m)' = Carries(m)
BY DEF FarewellSaid, Carries, Told

\* A word is appended.
LEMMA MoreTold ==
  ASSUME TypeOK, NEW m \in Words, wire' = Append(wire, m), status' = status
  PROVE  /\ \A n : Carries(n)' = (Carries(n) \/ n = m)
         /\ FarewellSaid /\ m # "online" => FarewellSaid'
         /\ m = "offline" => FarewellSaid'
         /\ ~Carries("bye") => \A i \in 1..Len(wire') : wire'[i] = "bye" => i = Len(wire')
<1>1. /\ Len(wire) \in Nat /\ Len(wire') = Len(wire) + 1
      /\ \A i \in 1..Len(wire) : wire'[i] = wire[i]
      /\ wire'[Len(wire) + 1] = m
  BY AppendWord DEF TypeOK, Words
<1>2. ASSUME NEW n PROVE Carries(n)' = (Carries(n) \/ n = m)
  <2>1. Carries(n) => Carries(n)'
    BY <1>1 DEF Carries
  <2>2. n = m => Carries(n)'
    BY <1>1 DEF Carries
  <2>3. Carries(n)' => Carries(n) \/ n = m
    BY <1>1 DEF Carries
  <2>4. QED
    BY <2>1, <2>2, <2>3 DEF Carries
<1>3. ASSUME FarewellSaid, m # "online" PROVE FarewellSaid'
  <2>1. PICK i \in 0..Len(wire) :
          Told(i) = "offline" /\ \A j \in 1..Len(wire) : j > i => wire[j] # "online"
    BY <1>3 DEF FarewellSaid
  <2>2. i \in 0..Len(wire') /\ Told(i)' = "offline"
    BY <1>1, <2>1 DEF Told
  <2>3. \A j \in 1..Len(wire') : j > i => wire'[j] # "online"
    BY <1>1, <1>3, <2>1
  <2>4. QED
    BY <2>2, <2>3 DEF FarewellSaid
<1>4. ASSUME m = "offline" PROVE FarewellSaid'
  <2>1. Len(wire') \in 0..Len(wire') /\ Told(Len(wire))' = "offline"
    BY <1>1, <1>4 DEF Told
  <2>2. \A j \in 1..Len(wire') : ~(j > Len(wire'))
    BY <1>1
  <2>3. QED
    BY <2>1, <2>2 DEF FarewellSaid
<1>5. ASSUME ~Carries("bye") PROVE \A i \in 1..Len(wire') : wire'[i] = "bye" => i = Len(wire')
  BY <1>1, <1>5 DEF Carries
<1>6. QED
  BY <1>2, <1>3, <1>4, <1>5

\* The wire is empty.
LEMMA NothingTold ==
  ASSUME wire' = <<>>
  PROVE  /\ \A m : ~Carries(m)'
         /\ \A i \in 1..Len(wire') : wire'[i] = "bye" => i = Len(wire')
BY Literals DEF Carries

\* The broker gets a word.
LEMMA TellStep == TypeOK /\ StatusInv /\ Deliver => StatusInv'
<1> SUFFICES ASSUME TypeOK, StatusInv, Deliver PROVE StatusInv'
  OBVIOUS
<1>1. UNCHANGED <<host, client, handlers, excused>> /\ session
  BY DEF Deliver, hostVars
<1>2. /\ Len(wire) \in Nat \ {0} /\ Head(wire) = wire[1] /\ Head(wire) \in Words
      /\ Len(Tail(wire)) = Len(wire) - 1
      /\ \A i \in 1..(Len(wire) - 1) : Tail(wire)[i] = wire[i + 1]
  BY TailWord DEF Deliver, TypeOK, Words
<1>3. CASE Head(wire) = "bye"
  <2>1. wire' = <<>> /\ session' = FALSE /\ status' = status
    BY <1>3 DEF Deliver
  <2>2. Len(wire) = 1 /\ Carries("bye")
    <3>1. 1 \in 1..Len(wire) /\ wire[1] = "bye"
      BY <1>2, <1>3
    <3>2. QED
      BY <3>1 DEF StatusInv, Carries
  <2>3. ASSUME excused = {} PROVE status # "online"
    <3>1. PICK i \in 0..1 : Told(i) = "offline"
      BY <1>1, <2>2, <2>3 DEF StatusInv, FarewellSaid
    <3>2. Told(1) = "bye"
      BY <1>2, <1>3 DEF Told
    <3>3. QED
      BY <3>1, <3>2 DEF Told
  <2>4. client # "connected"
    BY <2>2 DEF StatusInv
  <2>5. ~Working'
    BY <1>1, <2>4 DEF Working
  <2>6. \A m : ~Carries(m)'
    BY <2>1, NothingTold
  <2>7. \A i \in 1..Len(wire') : wire'[i] = "bye" => i = Len(wire')
    BY <2>1, NothingTold
  <2>8. QED
    BY <1>1, <2>1, <2>3, <2>4, <2>5, <2>6, <2>7 DEF StatusInv
<1>4. CASE Head(wire) # "bye"
  <2>1. /\ wire' = Tail(wire) /\ session' = session
        /\ status' = IF wire[1] \in {"online", "offline"} THEN wire[1] ELSE status
    BY <1>1, <1>2, <1>4 DEF Deliver
  <2>2. ASSUME NEW m PROVE Carries(m) = (wire[1] = m \/ Carries(m)')
    <3>1. Carries(m)' => Carries(m)
      BY <1>2, <2>1 DEF Carries
    <3>2. ASSUME Carries(m), wire[1] # m PROVE Carries(m)'
      <4>1. PICK i \in 1..Len(wire) : wire[i] = m
        BY <3>2 DEF Carries
      <4>2. i - 1 \in 1..Len(wire') /\ wire'[i - 1] = m
        BY <1>2, <2>1, <3>2, <4>1
      <4>3. QED
        BY <4>2 DEF Carries
    <3>3. wire[1] = m => Carries(m)
      BY <1>2 DEF Carries
    <3>4. QED
      BY <3>1, <3>2, <3>3 DEF Carries
  <2>3. ASSUME FarewellSaid PROVE FarewellSaid'
    <3>1. PICK i \in 0..Len(wire) :
            Told(i) = "offline" /\ \A j \in 1..Len(wire) : j > i => wire[j] # "online"
      BY <2>3 DEF FarewellSaid
    <3>2. CASE i = 0
      <4>1. Told(0)' = "offline"
        BY <1>2, <2>1, <3>1, <3>2 DEF Told
      <4>2. \A j \in 1..Len(wire') : j > 0 => wire'[j] # "online"
        BY <1>2, <2>1, <3>1, <3>2
      <4>3. 0 \in 0..Len(wire')
        BY <1>2, <2>1
      <4>4. QED
        BY <4>1, <4>2, <4>3 DEF FarewellSaid
    <3>3. CASE i # 0
      <4>1. i - 1 \in 0..Len(wire') /\ Told(i - 1)' = "offline"
        BY <1>2, <2>1, <3>1, <3>3 DEF Told
      <4>2. \A j \in 1..Len(wire') : j > i - 1 => wire'[j] # "online"
        BY <1>2, <2>1, <3>1, <3>3
      <4>3. QED
        BY <4>1, <4>2 DEF FarewellSaid
    <3>4. QED
      BY <3>2, <3>3
  <2>4. ASSUME NEW i \in 1..Len(wire'), wire'[i] = "bye" PROVE i = Len(wire')
    <3>1. Len(wire') = Len(wire) - 1 /\ i + 1 \in 1..Len(wire) /\ wire[i + 1] = "bye"
      BY <1>2, <2>1, <2>4
    <3>2. i + 1 = Len(wire)
      BY <3>1 DEF StatusInv
    <3>3. i \in Int /\ Len(wire) \in Int
      BY <1>2
    <3>4. i = Len(wire) - 1
      BY <3>2, <3>3
    <3>5. QED
      BY <3>1, <3>4
  <2>5. Working' = Working
    BY <1>1 DEF Working
  <2>6. Working => ~Carries("offline")'
    BY <2>2 DEF StatusInv
  <2>7. Working /\ session /\ handlers = 0 => status' = "online" \/ Carries("online")'
    BY <2>1, <2>2 DEF StatusInv
  <2>8. client = "connected" => ~Carries("bye")'
    BY <2>2 DEF StatusInv
  <2>9. excused = {} /\ (Carries("bye")' \/ (host = "stop" /\ client = "connected"))
          => FarewellSaid'
    BY <1>1, <2>2, <2>3 DEF StatusInv
  <2>10. QED
    BY <1>1, <2>1, <2>4, <2>5, <2>6, <2>7, <2>8, <2>9 DEF StatusInv
<1>5. QED
  BY <1>3, <1>4

LEMMA StatusStep == TypeOK /\ StatusInv /\ [Next]_vars => StatusInv'
<1> SUFFICES ASSUME TypeOK, StatusInv, [Next]_vars PROVE StatusInv'
  OBVIOUS
<1> USE DEF hostVars, netVars, measurementVars
<1>1. ASSUME Establish PROVE StatusInv'
  <2>1. handlers' = handlers + 1 /\ handlers \in Nat /\ session' /\ host' = host
    BY <1>1 DEF Establish, Handlers, TypeOK
  <2>2. wire' = <<>> \/ wire' = <<"online">>
    BY <1>1 DEF Establish
  <2>3. \A i \in 1..Len(wire') : wire'[i] = "online"
    BY <2>2, Literals
  <2>4. host = "stop" => excused' # {}
    BY <1>1 DEF Establish, After
  <2>5. ~Carries("bye")' /\ ~Carries("offline")'
    BY <2>3 DEF Carries
  <2>6. \A i \in 1..Len(wire') : wire'[i] = "bye" => i = Len(wire')
    BY <2>3
  <2>7. handlers' # 0
    BY <2>1
  <2>8. QED
    BY <2>1, <2>4, <2>5, <2>6, <2>7 DEF StatusInv
<1>2. ASSUME Lose PROVE StatusInv'
  BY <1>2, SameTold DEF Lose, StatusInv, Working
<1>3. ASSUME OnConnect PROVE StatusInv'
  <2>1. CASE client = "connected"
    <3>1. wire' = Append(wire, "online") /\ status' = status /\ "online" \in Words
      BY <1>3, <2>1 DEF OnConnect, PublishQoS1, Words
    <3>2. /\ \A n : Carries(n)' = (Carries(n) \/ n = "online")
          /\ \A i \in 1..Len(wire') : wire'[i] = "bye" => i = Len(wire')
      BY <2>1, <3>1, MoreTold DEF StatusInv
    <3>3. /\ UNCHANGED <<host, client, session>> /\ Working' = Working
          /\ excused' = {} => excused = {} /\ host # "stop"
      BY <1>3 DEF OnConnect, After, Working
    <3>4. ~Carries("bye")' /\ (Working => ~Carries("offline")') /\ Carries("online")'
      BY <2>1, <3>2 DEF StatusInv
    <3>5. QED
      BY <3>1, <3>2, <3>3, <3>4 DEF StatusInv
  <2>2. CASE client # "connected"
    <3>1. UNCHANGED <<wire, status, host, client, session>> /\ (excused # {} => excused' # {})
      BY <1>3, <2>2 DEF OnConnect, PublishQoS1
    <3>2. QED
      BY <2>2, <3>1, SameTold DEF StatusInv, Working
  <2>3. QED
    BY <2>1, <2>2
<1>4. ASSUME Publish PROVE StatusInv'
  <2>1. UNCHANGED <<host, client, handlers, session, status, excused>>
    BY <1>4 DEF Publish
  <2>2. CASE client = "connected"
    <3>1. wire' = Append(wire, "data") /\ "data" \in Words
      BY <1>4, <2>2 DEF Publish, Words
    <3>2. /\ \A n : Carries(n)' = (Carries(n) \/ n = "data")
          /\ FarewellSaid => FarewellSaid'
          /\ \A i \in 1..Len(wire') : wire'[i] = "bye" => i = Len(wire')
      BY <2>1, <2>2, <3>1, MoreTold DEF StatusInv
    <3>3. QED
      BY <2>1, <3>2 DEF StatusInv, Working
  <2>3. CASE client # "connected"
    BY <1>4, <2>1, <2>3, SameTold DEF Publish, StatusInv, Working
  <2>4. QED
    BY <2>2, <2>3
<1>5. ASSUME Connect PROVE StatusInv'
  BY <1>5, SameTold DEF Connect, StatusInv, Working
<1>6. ASSUME ConnectTimesOut PROVE StatusInv'
  BY <1>6, SameTold DEF ConnectTimesOut, Exit, StatusInv, Working
<1>7. ASSUME Disconnect PROVE StatusInv'
  <2>1. host' = "stop" /\ UNCHANGED <<client, session, status, excused>>
    BY <1>7 DEF Disconnect
  <2>2. ~Working'
    BY <2>1 DEF Working
  <2>3. CASE client = "connected"
    <3>1. wire' = Append(wire, "offline") /\ "offline" \in Words
      BY <1>7, <2>3 DEF Disconnect, Goodbye, PublishQoS1, Words
    <3>2. /\ \A n : Carries(n)' = (Carries(n) \/ n = "offline")
          /\ FarewellSaid'
          /\ \A i \in 1..Len(wire') : wire'[i] = "bye" => i = Len(wire')
      BY <2>1, <2>3, <3>1, MoreTold DEF StatusInv
    <3>3. QED
      BY <2>1, <2>2, <2>3, <3>2 DEF StatusInv
  <2>4. CASE client # "connected"
    <3>1. wire' = wire
      BY <1>7, <2>4 DEF Disconnect, Goodbye, PublishQoS1
    <3>2. QED
      BY <2>1, <2>2, <2>4, <3>1, SameTold DEF StatusInv
  <2>5. QED
    BY <2>3, <2>4
<1>8. ASSUME Close PROVE StatusInv'
  <2>1. host' = "down" /\ client' = "closed" /\ UNCHANGED <<session, status, excused>>
    BY <1>8 DEF Close, Exit
  <2>2. ~Working'
    BY <2>1 DEF Working
  <2>3. CASE client = "connected"
    <3>1. wire' = Append(wire, "bye") /\ "bye" \in Words /\ host = "stop"
      BY <1>8, <2>3 DEF Close, Words
    <3>2. /\ FarewellSaid => FarewellSaid'
          /\ \A i \in 1..Len(wire') : wire'[i] = "bye" => i = Len(wire')
      BY <2>1, <2>3, <3>1, MoreTold DEF StatusInv
    <3>3. QED
      BY <2>1, <2>2, <2>3, <3>1, <3>2 DEF StatusInv
  <2>4. CASE client # "connected"
    <3>1. wire' = wire
      BY <1>8, <2>4 DEF Close
    <3>2. QED
      BY <2>1, <2>2, <3>1, SameTold DEF StatusInv
  <2>5. QED
    BY <2>3, <2>4
<1>9. ASSUME Crash PROVE StatusInv'
  BY <1>9, SameTold DEF Crash, Exit, StatusInv, Working
<1>10. ASSUME Restart PROVE StatusInv'
  BY <1>10, SameTold DEF Restart, StatusInv, Working
<1>11. ASSUME Deliver PROVE StatusInv'
  BY <1>11, TellStep
<1>12. ASSUME Drop PROVE StatusInv'
  <2>1. wire' = <<>> /\ session' = FALSE /\ status' = "offline"
    BY <1>12 DEF Drop, Will
  <2>2. QED
    BY <2>1, NothingTold DEF StatusInv
<1>13. ASSUME BrokerGoes PROVE StatusInv'
  <2>1. wire' = <<>> /\ session' = FALSE /\ excused' = excused \cup {"crash"}
    BY <1>13 DEF BrokerGoes
  <2>2. QED
    BY <2>1, NothingTold DEF StatusInv
<1>14. ASSUME BrokerReturns PROVE StatusInv'
  BY <1>14, SameTold DEF BrokerReturns, StatusInv, Working
<1>15. ASSUME UNCHANGED vars PROVE StatusInv'
  BY <1>15, SameTold DEF vars, StatusInv, Working
<1>16. QED
  BY <1>1, <1>2, <1>3, <1>4, <1>5, <1>6, <1>7, <1>8, <1>9, <1>10, <1>11, <1>12, <1>13,
     <1>14, <1>15 DEF Next

\* Once everything on its way has arrived, a process that works is shown as online and
\* one that has ended is not, the excused cases aside.
THEOREM StatusSettlesHolds == Spec => []StatusSettles
<1>1. TypeOK /\ StatusInv => StatusSettles
  BY Literals DEF StatusInv, StatusSettles, Working, Carries
<1>2. QED
  BY <1>1, TypeInit, TypeStep, StatusInit, StatusStep, PTL DEF Spec
=============================================================================
