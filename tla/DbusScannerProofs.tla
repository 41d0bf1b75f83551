-------------------------- MODULE DbusScannerProofs --------------------------
(* Theorems about DbusScanner for all values of its constants.             *)
EXTENDS DbusScanner, TLAPS

-----------------------------------------------------------------------------
(* Type correctness.                                                       *)

\* The two ends of the signal channel.
LEMMA Channels ==
  ASSUME NEW c \in Seq(Signal)
  PROVE  /\ <<>> \in Seq(Signal) /\ Len(<<>>) = 0 /\ Len(c) \in Nat
         /\ c # <<>> => /\ Head(c) \in Signal /\ Head(c) = c[1] /\ 1 \in 1..Len(c)
                        /\ Tail(c) \in Seq(Signal) /\ Len(Tail(c)) = Len(c) - 1
                        /\ \A i \in 1..Len(Tail(c)) : Tail(c)[i] = c[i + 1]
         /\ \A s \in Signal : /\ Append(c, s) \in Seq(Signal) /\ Len(Append(c, s)) = Len(c) + 1
                              /\ \A i \in 1..Len(c) : Append(c, s)[i] = c[i]
                              /\ Append(c, s)[Len(c) + 1] = s
OBVIOUS

LEMMA NoSignalType == NoSignal \in Signal
<1>1. (CHOOSE p \in Paths : TRUE) \in Paths
  BY FilterAssumption
<1>2. 0 \in Nat
  OBVIOUS
<1>3. QED
  BY <1>1, <1>2 DEF NoSignal, Signal

LEMMA EmptyType == Empty \in [Paths -> Nat]
BY DEF Empty

LEMMA TypeInit == Init => TypeOK
<1> SUFFICES ASSUME Init PROVE TypeOK
  OBVIOUS
<1>1. <<>> \in Seq(Signal) /\ Len(<<>>) = 0
  OBVIOUS
<1>2. channel \in Seq(Signal) /\ Len(channel) <= ChannelSize
  BY <1>1, BoundAssumption DEF Init
<1>3. /\ cache \in [Paths -> Nat] /\ level \in [Paths -> Nat]
      /\ signal \in Signal /\ rssi \in Nat
  BY NoSignalType, EmptyType DEF Init
<1>4. known \subseteq Paths /\ pc = "start" /\ err = "nil" /\ conn = "none" /\ bluez = "ok"
  BY DEF Init
<1>5. /\ silent \in BOOLEAN /\ subscribed \in BOOLEAN /\ discovering \in BOOLEAN
      /\ cancelled \in BOOLEAN /\ busUp \in BOOLEAN
  BY DEF Init
<1>6. QED
  BY <1>2, <1>3, <1>4, <1>5 DEF TypeOK

\* What is posted to the channel.
LEMMA PostType ==
  ASSUME TypeOK, NEW s \in Signal, Post(s)
  PROVE  channel' \in Seq(Signal) /\ Len(channel') <= ChannelSize
<1>1. CASE Reaches(s.path)
  <2>1. channel' = Append(channel, s) /\ Len(channel) < ChannelSize
    BY <1>1 DEF Post
  <2>2. channel \in Seq(Signal)
    BY DEF TypeOK
  <2>3. Append(channel, s) \in Seq(Signal) /\ Len(Append(channel, s)) = Len(channel) + 1
        /\ Len(channel) \in Nat
    BY <2>2, Channels
  <2>4. QED
    BY <2>1, <2>3, BoundAssumption
<1>2. CASE ~Reaches(s.path)
  BY <1>2 DEF Post, TypeOK
<1>3. QED
  BY <1>1, <1>2

\* What is received from it.
LEMMA ReceiveType ==
  ASSUME TypeOK, Receive
  PROVE  /\ channel # <<>> /\ channel' = Tail(channel)
         /\ channel' \in Seq(Signal) /\ Len(channel') <= ChannelSize
         /\ Head(channel) \in Signal
<1>1. /\ channel \in Seq(Signal) /\ channel # <<>>
      /\ channel' = Tail(channel) /\ Len(channel) <= ChannelSize
  BY DEF TypeOK, Receive
<1>2. /\ Len(channel) \in Nat /\ Head(channel) \in Signal
      /\ Tail(channel) \in Seq(Signal) /\ Len(Tail(channel)) = Len(channel) - 1
  BY <1>1, Channels
<1>3. QED
  BY <1>1, <1>2, BoundAssumption

LEMMA EndSessionType ==
  ASSUME TypeOK, NEW e \in {"nil", "bus", "adapter", "match", "discover", "silence"}, EndSession(e)
  PROVE  TypeOK'
<1>1. channel' \in Seq(Signal) /\ Len(channel') <= ChannelSize
  BY BoundAssumption DEF EndSession
<1>2. QED
  BY <1>1 DEF EndSession, TypeOK, signalVars, bluezVars

LEMMA HandleType ==
  ASSUME TypeOK, NEW value \in Nat, Handle(value), signal' \in Signal
  PROVE  cache' \in [Paths -> Nat] /\ rssi' \in Nat /\ pc' = "handle"
<1>1. signal'.path \in Paths
  BY DEF Signal
<1>2. QED
  BY <1>1 DEF Handle, TypeOK

LEMMA SessionType == TypeOK /\ ScannerStep => TypeOK'
<1> SUFFICES ASSUME TypeOK, ScannerStep PROVE TypeOK'
  OBVIOUS
<1> USE DEF loopVars, signalVars, connVars, bluezVars
<1>1. CASE Begin \/ Return \/ Wake \/ Connect \/ FindAdapter \/ Prepare
  BY <1>1 DEF Begin, Return, Wake, Connect, FindAdapter, Prepare, TypeOK
<1>2. CASE ConnectFails \/ FindAdapterFails \/ SubscribeFails \/ StartDiscoveryFails \/ Stop
  <2>1. PICK e \in {"nil", "bus", "adapter", "match", "discover", "silence"} : EndSession(e)
    BY <1>2 DEF ConnectFails, FindAdapterFails, SubscribeFails, StartDiscoveryFails, Stop, TypeOK
  <2>2. QED
    BY <2>1, EndSessionType
<1>3. CASE Subscribe
  <2>1. channel' \in Seq(Signal) /\ Len(channel') <= ChannelSize
    BY <1>3, BoundAssumption DEF Subscribe
  <2>2. QED
    BY <1>3, <2>1, EmptyType DEF Subscribe, NewCache, TypeOK
<1>4. CASE StartDiscovery \/ SelectDone \/ SelectTick \/ SelectClosed \/ HandlerReturns
  BY <1>4 DEF StartDiscovery, SelectDone, SelectTick, SelectClosed, HandlerReturns, TypeOK
<1>5. CASE Ignore
  BY <1>5, ReceiveType DEF Ignore, Receive, TypeOK
<1>6. CASE TakeRSSI
  <2>1. Receive /\ signal' = Head(channel)
    BY <1>6 DEF TakeRSSI
  <2>2. Head(channel) \in Signal /\ channel' \in Seq(Signal) /\ Len(channel') <= ChannelSize
    BY <2>1, ReceiveType
  <2>3. PICK value \in Nat : Handle(value)
    BY <1>6, <2>2 DEF TakeRSSI, Signal, TypeOK
  <2>4. cache' \in [Paths -> Nat] /\ rssi' \in Nat /\ pc' = "handle"
    BY <2>1, <2>2, <2>3, HandleType
  <2>5. QED
    BY <2>1, <2>2, <2>4 DEF Receive, TypeOK
<1>7. CASE AskRSSI
  <2>1. Receive /\ signal' = Head(channel) /\ pc' = "ask" /\ UNCHANGED <<cache, rssi>>
    BY <1>7 DEF AskRSSI
  <2>2. Head(channel) \in Signal /\ channel' \in Seq(Signal) /\ Len(channel') <= ChannelSize
    BY <2>1, ReceiveType
  <2>3. QED
    BY <2>1, <2>2 DEF Receive, TypeOK
<1>8. CASE Told
  <2>1. PICK value \in Nat : Handle(value)
    BY <1>8 DEF Told, TypeOK, Signal
  <2>2. signal' \in Signal
    BY <1>8 DEF Told, TypeOK
  <2>3. cache' \in [Paths -> Nat] /\ rssi' \in Nat /\ pc' = "handle"
    BY <2>1, <2>2, HandleType
  <2>4. QED
    BY <1>8, <2>2, <2>3 DEF Told, TypeOK
<1>9. QED
  BY <1>1, <1>2, <1>3, <1>4, <1>5, <1>6, <1>7, <1>8 DEF ScannerStep, SessionStep

\* What an advertisement and a change of another property post.
LEMMA Posted ==
  ASSUME TypeOK, NEW p \in Paths, Advertise(p) \/ Chatter(p)
  PROVE  \E s \in Signal :
           /\ Post(s) /\ s.path = p
           /\ level' = [level EXCEPT ![p] = s.was] /\ s.was \in Nat
           /\ s.was = level[p] \/ (s.was = level[p] + 1 /\ s.ruuvi /\ s.rssi = s.was)
           /\ s.rssi # 0 => s.rssi = s.was /\ s.ruuvi
<1>1. level \in [Paths -> Nat] /\ level[p] \in Nat
  BY DEF TypeOK
<1>2. CASE Advertise(p)
  <2>1. PICK changed \in {TRUE, p \notin known} :
          LET now == IF changed THEN level[p] + 1 ELSE level[p]
          IN  /\ level' = [level EXCEPT ![p] = now]
              /\ Post([path |-> p, ruuvi |-> TRUE, rssi |-> IF changed THEN now ELSE 0,
                       was |-> now])
    BY <1>2 DEF Advertise
  <2>2. CASE changed
    <3> DEFINE s == [path |-> p, ruuvi |-> TRUE, rssi |-> level[p] + 1, was |-> level[p] + 1]
    <3>1. s \in Signal
      BY <1>1 DEF Signal
    <3>2. Post(s) /\ level' = [level EXCEPT ![p] = level[p] + 1]
      BY <2>1, <2>2
    <3>3. /\ s.path = p /\ s.was = level[p] + 1 /\ s.was \in Nat
          /\ s.ruuvi /\ s.rssi = s.was
      BY <1>1
    <3> HIDE DEF s
    <3>4. QED
      BY <3>1, <3>2, <3>3
  <2>3. CASE ~changed
    <3> DEFINE s == [path |-> p, ruuvi |-> TRUE, rssi |-> 0, was |-> level[p]]
    <3>1. s \in Signal
      BY <1>1 DEF Signal
    <3>2. Post(s) /\ level' = [level EXCEPT ![p] = level[p]]
      BY <2>1, <2>3
    <3>3. QED
      BY <1>1, <3>1, <3>2
  <2>4. QED
    BY <2>2, <2>3
<1>3. CASE Chatter(p)
  <2> DEFINE s == [path |-> p, ruuvi |-> FALSE, rssi |-> 0, was |-> level[p]]
  <2>1. s \in Signal
    BY <1>1 DEF Signal
  <2>2. Post(s) /\ level' = [level EXCEPT ![p] = level[p]]
    BY <1>1, <1>3 DEF Chatter, bluezVars
  <2>3. QED
    BY <1>1, <2>1, <2>2
<1>4. QED
  BY <1>2, <1>3

LEMMA BlueZType == TypeOK /\ BlueZStep => TypeOK'
<1> SUFFICES ASSUME TypeOK, BlueZStep PROVE TypeOK'
  OBVIOUS
<1> USE DEF loopVars, signalVars, connVars, bluezVars
<1>1. CASE BlueZSticks \/ BlueZGoes \/ BlueZReturns \/ BusGoes \/ BusReturns
  <2>1. /\ UNCHANGED <<loopVars, signalVars, channel, subscribed, level, cancelled>>
        /\ bluez' \in {"ok", "stuck", "gone"} /\ busUp' \in BOOLEAN /\ discovering' \in BOOLEAN
        /\ known' \subseteq Paths /\ conn' \in {"none", "open", "closed"}
    BY <1>1 DEF BlueZSticks, BlueZGoes, BlueZReturns, BusGoes, BusReturns, TypeOK
  <2>2. QED
    BY <2>1 DEF TypeOK
<1>2. ASSUME NEW p \in Paths, Forget(p) PROVE TypeOK'
  BY <1>2 DEF Forget, TypeOK
<1>3. ASSUME NEW p \in Paths, Advertise(p) \/ Chatter(p) PROVE TypeOK'
  <2>1. PICK s \in Signal : Post(s) /\ level' = [level EXCEPT ![p] = s.was] /\ s.was \in Nat
    BY <1>3, Posted
  <2>2. channel' \in Seq(Signal) /\ Len(channel') <= ChannelSize
    BY <2>1, PostType
  <2>3. level' \in [Paths -> Nat]
    BY <2>1 DEF TypeOK
  <2>4. known' \subseteq Paths /\ UNCHANGED <<loopVars, signalVars, conn, subscribed, bluez, busUp,
                                              discovering, cancelled>>
    BY <1>3 DEF Advertise, Chatter, TypeOK
  <2>5. QED
    BY <2>2, <2>3, <2>4 DEF TypeOK
<1>4. QED
  BY <1>1, <1>2, <1>3 DEF BlueZStep

LEMMA TypeStep == TypeOK /\ [Next]_vars => TypeOK'
<1> SUFFICES ASSUME TypeOK, [Next]_vars PROVE TypeOK'
  OBVIOUS
<1> USE DEF loopVars, signalVars, connVars, bluezVars
<1>1. CASE FallSilent \/ Cancel
  BY <1>1 DEF FallSilent, Cancel, TypeOK
<1>2. CASE Ended \/ UNCHANGED vars
  BY <1>2 DEF Ended, vars, TypeOK
<1>3. QED
  BY <1>1, <1>2, SessionType, BlueZType DEF Next

\* TypeOK: whatever fails and in whatever order, the session stays well typed and
\* the signal channel within the room the environment leaves.
THEOREM TypeCorrect == Spec => []TypeOK
<1>1. QED
  BY TypeInit, TypeStep, PTL DEF Spec
-----------------------------------------------------------------------------
(* The RSSI the handler is called with.                                    *)

\* The i-th signal in the channel will set the cache of p.
Source(i, p) == channel[i].path = p /\ channel[i].ruuvi /\ channel[i].rssi # 0

\* What the cache has for p when the first n signals of the channel have been
\* handled, none of them by a question.
After(n, p, v) ==
  \/ /\ \A k \in 1..n : ~Source(k, p)
     /\ v = cache[p]
  \/ \E j \in 1..n : /\ Source(j, p) /\ v = channel[j].rssi
                     /\ \A k \in (j + 1)..n : ~Source(k, p)

\* Each signal tells what the device had; one without an RSSI, in the end, what the
\* cache will have then, and for a device that is heard the last of them is what the
\* device has now.
SignalInv ==
  /\ \A i \in 1..Len(channel) :
       /\ channel[i].was <= level[channel[i].path]
       /\ channel[i].rssi # 0 => channel[i].rssi = channel[i].was
  /\ \A i \in 1..Len(channel), p \in Paths :
       channel[i].path = p /\ channel[i].ruuvi /\ channel[i].rssi = 0 =>
         \A v \in Nat : After(i - 1, p, v) => v = 0 \/ channel[i].was <= v
  /\ \A p \in Paths : Reaches(p) =>
       \A v \in Nat : After(Len(channel), p, v) => v = 0 \/ v = level[p]

CacheInv ==
  /\ \A p \in Paths : cache[p] <= level[p]
  /\ pc = "discover" => cache = Empty /\ channel = <<>>
  /\ discovering => pc \in {"select", "ask", "handle", "stop"} /\ conn # "closed"
  /\ pc = "ask" => signal.was <= level[signal.path]
  /\ RssiIsCurrent

\* A step that leaves channel, cache and levels alone.
LEMMA SameSignals ==
  ASSUME SignalInv, UNCHANGED <<channel, cache, level>>,
         \A p \in Paths : Reaches(p)' => Reaches(p)
  PROVE  SignalInv'
BY DEF SignalInv, After, Source

\* With an empty channel only the cache counts.
LEMMA EmptyChannel ==
  ASSUME channel' = <<>>, \A p \in Paths : Reaches(p)' => cache'[p] = 0
  PROVE  SignalInv'
<1>1. Len(channel') = 0 /\ 1..0 = {}
  OBVIOUS
<1>2. ASSUME NEW p \in Paths, NEW v \in Nat, After(Len(channel), p, v)'
      PROVE  v = cache'[p]
  BY <1>1, <1>2 DEF After
<1>3. QED
  BY <1>1, <1>2 DEF SignalInv

\* Once the first signal has been received, what follows is one place nearer.
LEMMA AfterReceive ==
  ASSUME TypeOK, Receive, NEW p \in Paths, NEW n \in Nat, n < Len(channel), NEW v,
         cache'[p] = IF Source(1, p) THEN channel[1].rssi ELSE cache[p],
         After(n, p, v)'
  PROVE  After(n + 1, p, v)
<1>1. /\ channel \in Seq(Signal) /\ Len(channel) \in Nat /\ Len(channel') = Len(channel) - 1
      /\ \A i \in 1..Len(channel') : channel'[i] = channel[i + 1]
  <2>1. channel \in Seq(Signal) /\ channel # <<>> /\ channel' = Tail(channel)
    BY ReceiveType DEF TypeOK
  <2>2. QED
    BY <2>1, Channels
<1>2. \A k \in 1..n : Source(k, p)' <=> Source(k + 1, p)
  <2>1. \A k \in 1..n : k \in 1..Len(channel')
    BY <1>1
  <2>2. \A k \in 1..n : channel'[k] = channel[k + 1]
    BY <1>1, <2>1
  <2>3. QED
    BY <2>2 DEF Source
<1>3. CASE (\A k \in 1..n : ~Source(k, p)') /\ v = cache'[p]
  <2>1. \A k \in 2..(n + 1) : ~Source(k, p)
    <3>1. \A k \in 2..(n + 1) : k - 1 \in 1..n /\ (k - 1) + 1 = k
      OBVIOUS
    <3>2. QED
      BY <1>2, <1>3, <3>1
  <2>2. CASE Source(1, p)
    <3>1. 1 \in 1..(n + 1) /\ v = channel[1].rssi /\ 1 + 1 = 2
      BY <1>3, <2>2
    <3>2. QED
      BY <2>1, <2>2, <3>1 DEF After
  <2>3. CASE ~Source(1, p)
    <3>1. \A k \in 1..(n + 1) : k = 1 \/ k \in 2..(n + 1)
      OBVIOUS
    <3>2. QED
      BY <1>3, <2>1, <2>3, <3>1 DEF After
  <2>4. QED
    BY <2>2, <2>3
<1>4. ASSUME NEW j \in 1..n, Source(j, p)', v = channel'[j].rssi,
             \A k \in (j + 1)..n : ~Source(k, p)'
      PROVE  After(n + 1, p, v)
  <2>1. Source(j + 1, p) /\ j + 1 \in 1..(n + 1)
    BY <1>2, <1>4
  <2>2. v = channel[j + 1].rssi
    BY <1>1, <1>4
  <2>3. \A k \in ((j + 1) + 1)..(n + 1) : ~Source(k, p)
    <3> SUFFICES ASSUME NEW k \in ((j + 1) + 1)..(n + 1) PROVE ~Source(k, p)
      OBVIOUS
    <3>1. k - 1 \in (j + 1)..n /\ k - 1 \in 1..n /\ (k - 1) + 1 = k
      OBVIOUS
    <3>2. ~Source(k - 1, p)'
      BY <1>4, <3>1
    <3>3. QED
      BY <1>2, <3>1, <3>2
  <2>4. QED
    BY <2>1, <2>2, <2>3 DEF After
<1>5. QED
  BY <1>3, <1>4 DEF After

LEMMA SignalsReceived ==
  ASSUME TypeOK, SignalInv, Receive, UNCHANGED <<level, conn, subscribed, discovering>>,
         \A p \in Paths : cache'[p] = IF Source(1, p) THEN channel[1].rssi ELSE cache[p]
  PROVE  SignalInv'
<1>1. /\ channel \in Seq(Signal) /\ Len(channel) \in Nat /\ Len(channel') = Len(channel) - 1
      /\ \A i \in 1..Len(channel') : i + 1 \in 1..Len(channel) /\ channel'[i] = channel[i + 1]
      /\ \A i \in 1..Len(channel') : channel'[i].path \in Paths
  <2>1. channel \in Seq(Signal) /\ channel # <<>> /\ channel' = Tail(channel)
        /\ channel' \in Seq(Signal)
    BY ReceiveType DEF TypeOK
  <2>2. \A i \in 1..Len(channel') : channel'[i] \in Signal
    BY <2>1
  <2>3. \A i \in 1..Len(channel') : channel'[i].path \in Paths
    BY <2>2 DEF Signal
  <2>4. QED
    BY <2>1, <2>3, Channels
<1>2. ASSUME NEW i \in 1..Len(channel')
      PROVE  /\ channel'[i].was <= level'[channel'[i].path]
             /\ channel'[i].rssi # 0 => channel'[i].rssi = channel'[i].was
  BY <1>1 DEF SignalInv
<1>3. ASSUME NEW i \in 1..Len(channel'), NEW p \in Paths, channel'[i].path = p,
             channel'[i].ruuvi, channel'[i].rssi = 0, NEW v \in Nat, After(i - 1, p, v)'
      PROVE  v = 0 \/ channel'[i].was <= v
  <2>1. i - 1 \in Nat /\ i - 1 < Len(channel) /\ (i - 1) + 1 = (i + 1) - 1
    BY <1>1
  <2>2. After((i - 1) + 1, p, v)
    BY <1>3, <2>1, AfterReceive
  <2>3. After((i + 1) - 1, p, v)
    BY <2>1, <2>2
  <2>4. QED
    BY <1>1, <1>3, <2>3 DEF SignalInv
<1>4. ASSUME NEW p \in Paths, Reaches(p)', NEW v \in Nat, After(Len(channel), p, v)'
      PROVE  v = 0 \/ v = level'[p]
  <2>1. PICK n \in Nat : n = Len(channel') /\ n < Len(channel) /\ n + 1 = Len(channel)
    BY <1>1
  <2>2. After(n, p, v)'
    BY <1>4, <2>1 DEF After
  <2>3. After(n + 1, p, v)
    BY <2>1, <2>2, AfterReceive
  <2>4. Reaches(p)
    BY <1>4 DEF Reaches
  <2>5. After(Len(channel), p, v)
    BY <2>1, <2>3
  <2>6. QED
    BY <2>4, <2>5 DEF SignalInv
<1>5. QED
  BY <1>2, <1>3, <1>4 DEF SignalInv

LEMMA SignalsPosted ==
  ASSUME TypeOK, SignalInv, NEW s \in Signal, NEW x \in Paths, s.path = x, Post(s),
         UNCHANGED <<cache, conn, subscribed, discovering>>,
         level' = [level EXCEPT ![x] = s.was],
         s.was = level[x] \/ (s.was = level[x] + 1 /\ s.ruuvi /\ s.rssi = s.was),
         s.rssi # 0 => s.rssi = s.was /\ s.ruuvi
  PROVE  SignalInv'
<1>1. /\ channel \in Seq(Signal) /\ Len(channel) \in Nat
      /\ \A i \in 1..Len(channel) : channel[i].was \in Nat /\ channel[i].path \in Paths
  <2>1. channel \in Seq(Signal)
    BY DEF TypeOK
  <2>2. \A i \in 1..Len(channel) : channel[i] \in Signal
    BY <2>1
  <2>3. QED
    BY <2>1, <2>2 DEF Signal
<1>2. /\ level \in [Paths -> Nat] /\ s.was \in Nat
      /\ \A q \in Paths : level'[q] = IF q = x THEN s.was ELSE level[q]
      /\ \A q \in Paths : level[q] \in Nat /\ level[q] <= level'[q]
  <2>1. level \in [Paths -> Nat] /\ s.was \in Nat
    BY DEF TypeOK, Signal
  <2>2. \A q \in Paths : level'[q] = IF q = x THEN s.was ELSE level[q]
    BY <2>1
  <2>3. \A q \in Paths : level[q] \in Nat
    BY <2>1
  <2>4. QED
    BY <2>1, <2>2, <2>3
<1>3. \A q \in Paths : Reaches(q)' <=> Reaches(q)
  BY DEF Reaches
<1>4. CASE Reaches(x)
  <2> DEFINE N == Len(channel)
  <2>1. /\ Len(channel') = N + 1 /\ channel'[N + 1] = s
        /\ \A i \in 1..N : channel'[i] = channel[i]
    <3>1. channel' = Append(channel, s)
      BY <1>4 DEF Post
    <3>2. QED
      BY <1>1, <3>1, Channels
  <2>2. PICK n \in Nat : n = N
    BY <1>1
  <2>3. ASSUME NEW m \in 0..n, NEW q \in Paths, NEW v, After(m, q, v)'
        PROVE  After(m, q, v)
    <3>1. \A k \in 1..m : Source(k, q)' <=> Source(k, q)
      BY <2>1, <2>2 DEF Source
    <3>2. CASE (\A k \in 1..m : ~Source(k, q)') /\ v = cache'[q]
      BY <3>1, <3>2 DEF After
    <3>3. ASSUME NEW j \in 1..m, Source(j, q)', v = channel'[j].rssi,
                 \A k \in (j + 1)..m : ~Source(k, q)'
          PROVE  After(m, q, v)
      <4>1. \A k \in (j + 1)..m : k \in 1..m
        OBVIOUS
      <4>2. Source(j, q) /\ \A k \in (j + 1)..m : ~Source(k, q)
        BY <3>1, <3>3, <4>1
      <4>3. v = channel[j].rssi
        BY <2>1, <2>2, <3>3
      <4>4. QED
        BY <4>2, <4>3 DEF After
    <3>4. QED
      BY <2>3, <3>2, <3>3 DEF After
  <2>4. ASSUME NEW i \in 1..(n + 1)
        PROVE  /\ channel'[i].was <= level'[channel'[i].path]
               /\ channel'[i].rssi # 0 => channel'[i].rssi = channel'[i].was
    <3>1. CASE i = n + 1
      BY <1>2, <2>1, <2>2, <3>1
    <3>2. CASE i \in 1..n
      BY <1>1, <1>2, <2>1, <2>2, <3>2 DEF SignalInv
    <3>3. QED
      BY <3>1, <3>2
  <2>5. ASSUME NEW i \in 1..(n + 1), NEW q \in Paths, channel'[i].path = q,
               channel'[i].ruuvi, channel'[i].rssi = 0, NEW v \in Nat, After(i - 1, q, v)'
        PROVE  v = 0 \/ channel'[i].was <= v
    <3>1. After(i - 1, q, v)
      BY <2>3, <2>5
    <3>2. CASE i = n + 1
      <4>1. q = x /\ s.was = level[x] /\ s.rssi = 0 /\ i - 1 = N
        BY <1>2, <2>1, <2>2, <2>5, <3>2
      <4>2. v = 0 \/ v = level[x]
        BY <1>4, <3>1, <4>1 DEF SignalInv
      <4>3. QED
        BY <1>2, <2>1, <2>2, <3>2, <4>1, <4>2
    <3>3. CASE i \in 1..n
      BY <2>1, <2>2, <2>5, <3>1, <3>3 DEF SignalInv
    <3>4. QED
      BY <3>2, <3>3
  <2>6. ASSUME NEW q \in Paths, Reaches(q)', NEW v \in Nat, After(n + 1, q, v)'
        PROVE  v = 0 \/ v = level'[q]
    <3>1. CASE Source(n + 1, q)'
      <4>1. q = x /\ s.rssi = level'[x]
        BY <1>2, <2>1, <2>2, <3>1 DEF Source
      <4>2. n + 1 \in 1..(n + 1)
        OBVIOUS
      <4>3. PICK j \in 1..(n + 1) : /\ v = channel'[j].rssi
                                    /\ \A k \in (j + 1)..(n + 1) : ~Source(k, q)'
        BY <2>6, <3>1, <4>2 DEF After
      <4>4. ~(n + 1 \in (j + 1)..(n + 1))
        BY <3>1, <4>3
      <4>5. j = n + 1
        BY <4>4
      <4>6. QED
        BY <2>1, <2>2, <4>1, <4>3, <4>5
    <3>2. CASE ~Source(n + 1, q)'
      <4>1. After(n, q, v)'
        <5>1. CASE (\A k \in 1..(n + 1) : ~Source(k, q)') /\ v = cache'[q]
          BY <5>1 DEF After
        <5>2. ASSUME NEW j \in 1..(n + 1), Source(j, q)', v = channel'[j].rssi,
                     \A k \in (j + 1)..(n + 1) : ~Source(k, q)'
              PROVE  After(n, q, v)'
          <6>1. j # n + 1
            BY <3>2, <5>2
          <6>2. j \in 1..n /\ \A k \in (j + 1)..n : k \in (j + 1)..(n + 1)
            BY <6>1
          <6>3. QED
            BY <5>2, <6>2 DEF After
        <5>3. QED
          BY <2>6, <5>1, <5>2 DEF After
      <4>2. After(n, q, v)
        BY <2>3, <4>1
      <4>3. v = 0 \/ v = level[q]
        BY <1>3, <2>2, <2>6, <4>2 DEF SignalInv
      <4>4. q = x => s.was = level[x]
        BY <1>2, <2>1, <2>2, <3>2 DEF Source
      <4>5. QED
        BY <1>2, <4>3, <4>4
    <3>3. QED
      BY <3>1, <3>2
  <2>7. Len(channel') = n + 1
    BY <2>1, <2>2
  <2>8. \A q \in Paths : Reaches(q)' =>
          \A v \in Nat : After(Len(channel), q, v)' => v = 0 \/ v = level'[q]
    BY <2>6, <2>7 DEF After
  <2>9. QED
    BY <2>4, <2>5, <2>7, <2>8 DEF SignalInv
<1>5. CASE ~Reaches(x)
  <2>1. channel' = channel /\ cache' = cache
    BY <1>5 DEF Post
  <2>2. \A n, q, v : After(n, q, v)' <=> After(n, q, v)
    BY <2>1 DEF After, Source
  <2>3. \A i \in 1..Len(channel) : channel[i].was <= level'[channel[i].path]
    BY <1>1, <1>2 DEF SignalInv
  <2>4. \A q \in Paths : Reaches(q)' => Reaches(q) /\ level'[q] = level[q]
    BY <1>2, <1>3, <1>5
  <2>5. ASSUME NEW q \in Paths, Reaches(q)', NEW v \in Nat, After(Len(channel), q, v)'
        PROVE  v = 0 \/ v = level'[q]
    <3>1. After(Len(channel), q, v)
      BY <2>1, <2>5 DEF After, Source
    <3>2. QED
      BY <2>4, <2>5, <3>1 DEF SignalInv
  <2>6. QED
    BY <2>1, <2>2, <2>3, <2>5 DEF SignalInv
<1>6. QED
  BY <1>4, <1>5

\* The answer of GetProperty is what the device has now, whatever is still waiting.
LEMMA SignalsTold ==
  ASSUME TypeOK, SignalInv, UNCHANGED <<channel, level, conn, subscribed, discovering>>,
         NEW x \in Paths, cache' = [cache EXCEPT ![x] = level[x]]
  PROVE  SignalInv'
<1>1. /\ \A q \in Paths : cache'[q] = IF q = x THEN level[x] ELSE cache[q]
      /\ Len(channel) \in Nat
  BY DEF TypeOK
<1>2. ASSUME NEW n, NEW q \in Paths, NEW v, After(n, q, v)'
      PROVE  After(n, q, v) \/ v = level[q]
  BY <1>1, <1>2 DEF After, Source
<1>3. ASSUME NEW i \in 1..Len(channel), NEW q \in Paths, channel[i].path = q,
             channel[i].ruuvi, channel[i].rssi = 0, NEW v \in Nat, After(i - 1, q, v)'
      PROVE  v = 0 \/ channel[i].was <= v
  BY <1>2, <1>3 DEF SignalInv
<1>4. ASSUME NEW q \in Paths, Reaches(q)', NEW v \in Nat, After(Len(channel), q, v)'
      PROVE  v = 0 \/ v = level[q]
  <2>1. Reaches(q)
    BY <1>4 DEF Reaches
  <2>2. After(Len(channel), q, v)' <=> \E n : n = Len(channel) /\ After(n, q, v)'
    BY DEF After
  <2>3. After(Len(channel), q, v) \/ v = level[q]
    BY <1>2, <1>4, <2>2
  <2>4. QED
    BY <2>1, <2>3 DEF SignalInv
<1>5. QED
  BY <1>3, <1>4 DEF SignalInv

RssiInv == SignalInv /\ CacheInv

LEMMA RssiInit == Init => RssiInv
<1> SUFFICES ASSUME Init PROVE RssiInv
  OBVIOUS
<1>1. channel = <<>> /\ Len(channel) = 0 /\ 1..0 = {} /\ ~discovering
  BY DEF Init
<1>2. SignalInv
  BY <1>1 DEF SignalInv, Reaches
<1>3. CacheInv
  BY DEF Init, CacheInv, RssiIsCurrent, Empty
<1>4. QED
  BY <1>2, <1>3 DEF RssiInv

\* A step that is not about signals.
LEMMA QuietStep ==
  ASSUME TypeOK, RssiInv, UNCHANGED <<channel, cache, level, signal, rssi>>,
         pc' \in {"discover", "ask", "handle"} => pc' = pc,
         discovering' => discovering /\ pc' \in {"select", "ask", "handle", "stop"},
         conn' = conn \/ (conn' # "open" /\ ~discovering') \/ ~discovering,
         subscribed' = subscribed
  PROVE  RssiInv'
<1>1. \A p \in Paths : Reaches(p)' => Reaches(p)
  BY DEF Reaches
<1>2. SignalInv'
  BY <1>1, SameSignals DEF RssiInv
<1>3. CacheInv'
  BY DEF RssiInv, CacheInv, RssiIsCurrent
<1>4. QED
  BY <1>2, <1>3 DEF RssiInv

LEMMA EndSessionStep ==
  ASSUME TypeOK, RssiInv, NEW e, EndSession(e)
  PROVE  RssiInv'
<1>1. channel' = <<>> /\ ~discovering' /\ UNCHANGED <<cache, level, signal, rssi>>
      /\ pc' \in {"sleep", "returned"}
  BY DEF EndSession, signalVars, bluezVars
<1>2. SignalInv'
  BY <1>1, EmptyChannel DEF Reaches
<1>3. CacheInv'
  BY <1>1 DEF RssiInv, CacheInv, RssiIsCurrent
<1>4. QED
  BY <1>2, <1>3 DEF RssiInv

LEMMA TakeStep ==
  ASSUME TypeOK, RssiInv, TakeRSSI
  PROVE  RssiInv'
<1>1. PICK s, x : s = Head(channel) /\ x = s.path
  OBVIOUS
<1>2. /\ Receive /\ s.ruuvi /\ signal' = s
      /\ s.rssi # 0 \/ cache[x] # 0
      /\ Handle(IF s.rssi # 0 THEN s.rssi ELSE cache[x])
  BY <1>1 DEF TakeRSSI
<1>3. /\ channel \in Seq(Signal) /\ s \in Signal /\ s = channel[1] /\ 1 \in 1..Len(channel)
  <2>1. channel # <<>> /\ channel \in Seq(Signal)
    BY <1>2, ReceiveType DEF TypeOK
  <2>2. QED
    BY <1>1, <2>1, Channels
<1>4. /\ x \in Paths /\ s.rssi \in Nat /\ s.was \in Nat
      /\ cache \in [Paths -> Nat] /\ level \in [Paths -> Nat]
  BY <1>1, <1>3 DEF Signal, TypeOK
<1>5. /\ UNCHANGED <<level, conn, subscribed, discovering>> /\ pc = "select"
  BY <1>2 DEF Receive, bluezVars
<1>6. /\ pc' = "handle" /\ rssi' = IF s.rssi # 0 THEN s.rssi ELSE cache[x]
      /\ \A p \in Paths : cache'[p] = IF p = x /\ s.rssi # 0 THEN s.rssi ELSE cache[p]
  <2>1. /\ pc' = "handle" /\ rssi' = IF s.rssi # 0 THEN s.rssi ELSE cache[x]
        /\ cache' = [cache EXCEPT ![x] = IF s.rssi # 0 THEN s.rssi ELSE cache[x]]
    BY <1>1, <1>2, <1>4 DEF Handle
  <2>2. QED
    BY <1>4, <2>1
<1>7. \A p \in Paths : cache'[p] = IF Source(1, p) THEN channel[1].rssi ELSE cache[p]
  BY <1>1, <1>2, <1>3, <1>6 DEF Source
<1>8. SignalInv'
  BY <1>2, <1>5, <1>7, SignalsReceived DEF RssiInv
<1>9. s.was <= level[x] /\ (s.rssi # 0 => s.rssi = s.was)
  BY <1>1, <1>3 DEF RssiInv, SignalInv
<1>10. s.rssi = 0 => s.was <= cache[x]
  <2>1. After(1 - 1, x, cache[x])
    <3>1. 1..(1 - 1) = {}
      OBVIOUS
    <3>2. QED
      BY <3>1 DEF After
  <2>2. cache[x] \in Nat
    BY <1>4
  <2>3. QED
    BY <1>1, <1>2, <1>3, <1>4, <2>1, <2>2 DEF RssiInv, SignalInv
<1>11. cache[x] <= level[x]
  BY <1>4 DEF RssiInv, CacheInv
<1>12. RssiIsCurrent'
  <2>1. signal'.was = s.was /\ level'[signal'.path] = level[x]
    BY <1>1, <1>2, <1>5
  <2>2. s.was <= rssi' /\ rssi' <= level[x]
    BY <1>4, <1>6, <1>9, <1>10, <1>11
  <2>3. QED
    BY <2>1, <2>2 DEF RssiIsCurrent
<1>13. \A p \in Paths : cache'[p] <= level'[p]
  BY <1>5, <1>6, <1>9 DEF RssiInv, CacheInv
<1>14. CacheInv'
  BY <1>5, <1>6, <1>12, <1>13 DEF CacheInv, RssiInv
<1>15. QED
  BY <1>8, <1>14 DEF RssiInv

LEMMA AskStep ==
  ASSUME TypeOK, RssiInv, Ignore \/ AskRSSI
  PROVE  RssiInv'
<1>1. /\ Receive /\ UNCHANGED <<cache, rssi>>
      /\ \/ ~Head(channel).ruuvi /\ pc' = pc /\ signal' = signal
         \/ Head(channel).rssi = 0 /\ pc' = "ask" /\ signal' = Head(channel)
  BY DEF Ignore, AskRSSI
<1>2. channel \in Seq(Signal) /\ Head(channel) = channel[1] /\ 1 \in 1..Len(channel)
  <2>1. channel # <<>> /\ channel \in Seq(Signal)
    BY <1>1, ReceiveType DEF TypeOK
  <2>2. QED
    BY <2>1, Channels
<1>3. UNCHANGED <<level, conn, subscribed, discovering>> /\ pc = "select"
  BY <1>1 DEF Receive, bluezVars
<1>4. SignalInv'
  BY <1>1, <1>2, <1>3, SignalsReceived DEF RssiInv, Source
<1>5. CacheInv'
  BY <1>1, <1>2, <1>3 DEF RssiInv, SignalInv, CacheInv, RssiIsCurrent
<1>6. QED
  BY <1>4, <1>5 DEF RssiInv

LEMMA ToldStep ==
  ASSUME TypeOK, RssiInv, Told
  PROVE  RssiInv'
<1>1. PICK x : x = signal.path
  OBVIOUS
<1>2. /\ x \in Paths /\ cache \in [Paths -> Nat] /\ level \in [Paths -> Nat]
      /\ signal.was \in Nat
  BY <1>1 DEF TypeOK, Signal
<1>3. /\ pc = "ask" /\ pc' = "handle" /\ signal' = signal
      /\ UNCHANGED <<channel, level, conn, subscribed, discovering>>
  BY DEF Told, Handle, connVars, bluezVars
<1>4. \/ rssi' = 0 /\ cache' = cache
      \/ rssi' = level[x] /\ cache' = [cache EXCEPT ![x] = level[x]]
  BY <1>1 DEF Told, Handle
<1>5. SignalInv'
  <2>1. CASE cache' = cache
    <3>1. \A p \in Paths : Reaches(p)' => Reaches(p)
      BY <1>3 DEF Reaches
    <3>2. QED
      BY <1>3, <2>1, <3>1, SameSignals DEF RssiInv
  <2>2. CASE cache' = [cache EXCEPT ![x] = level[x]]
    BY <1>2, <1>3, <2>2, SignalsTold DEF RssiInv
  <2>3. QED
    BY <1>4, <2>1, <2>2
<1>6. \A p \in Paths : cache'[p] <= level'[p]
  <2>1. \A p \in Paths : cache'[p] = cache[p] \/ cache'[p] = level[p]
    BY <1>2, <1>4
  <2>2. QED
    BY <1>2, <1>3, <2>1 DEF RssiInv, CacheInv
<1>7. RssiIsCurrent'
  BY <1>1, <1>2, <1>3, <1>4 DEF RssiInv, CacheInv, RssiIsCurrent
<1>8. CacheInv'
  BY <1>3, <1>6, <1>7 DEF RssiInv, CacheInv
<1>9. QED
  BY <1>5, <1>8 DEF RssiInv

LEMMA PostStep ==
  ASSUME TypeOK, RssiInv, NEW p \in Paths, Advertise(p) \/ Chatter(p)
  PROVE  RssiInv'
<1>1. PICK s \in Signal :
        /\ Post(s) /\ s.path = p
        /\ level' = [level EXCEPT ![p] = s.was] /\ s.was \in Nat
        /\ s.was = level[p] \/ (s.was = level[p] + 1 /\ s.ruuvi /\ s.rssi = s.was)
        /\ s.rssi # 0 => s.rssi = s.was /\ s.ruuvi
  BY Posted
<1>2. UNCHANGED <<pc, cache, signal, rssi, conn, subscribed, discovering>>
  BY DEF Advertise, Chatter, loopVars, signalVars
<1>3. SignalInv'
  BY <1>1, <1>2, SignalsPosted DEF RssiInv
<1>4. level \in [Paths -> Nat] /\ cache \in [Paths -> Nat] /\ signal \in Signal /\ rssi \in Nat
  BY DEF TypeOK
<1>5. signal.path \in Paths /\ signal.was \in Nat
  BY <1>4 DEF Signal
<1>6. \A q \in Paths : level[q] \in Nat /\ level'[q] \in Nat /\ level[q] <= level'[q]
  BY <1>1, <1>4
<1>7. pc = "discover" => channel' = channel
  BY <1>1 DEF RssiInv, CacheInv, Post, Reaches
<1>8. \A q \in Paths : cache'[q] <= level'[q]
  BY <1>2, <1>4, <1>6 DEF RssiInv, CacheInv
<1>9. pc = "ask" => signal.was <= level'[signal.path]
  BY <1>5, <1>6 DEF RssiInv, CacheInv
<1>10. RssiIsCurrent'
  BY <1>2, <1>4, <1>5, <1>6 DEF RssiInv, CacheInv, RssiIsCurrent
<1>11. CacheInv'
  BY <1>2, <1>7, <1>8, <1>9, <1>10 DEF RssiInv, CacheInv
<1>12. QED
  BY <1>3, <1>11 DEF RssiInv

LEMMA RssiStep == TypeOK /\ RssiInv /\ [Next]_vars => RssiInv'
<1> SUFFICES ASSUME TypeOK, RssiInv, [Next]_vars PROVE RssiInv'
  OBVIOUS
<1> USE DEF loopVars, signalVars, connVars, bluezVars
<1>d. /\ pc \in {"start", "connect", "find", "prepare", "subscribe", "discover", "sleep"} =>
           ~discovering
  BY DEF RssiInv, CacheInv
<1>1. CASE Begin \/ Return \/ Wake \/ Connect \/ FindAdapter \/ Prepare
  BY <1>1, <1>d, QuietStep DEF Begin, Return, Wake, Connect, FindAdapter, Prepare
<1>2. CASE ConnectFails \/ FindAdapterFails \/ SubscribeFails \/ StartDiscoveryFails \/ Stop
  BY <1>2, EndSessionStep
  DEF ConnectFails, FindAdapterFails, SubscribeFails, StartDiscoveryFails, Stop
<1>3. CASE Subscribe
  <2>1. /\ channel' = <<>> /\ cache' = Empty /\ ~discovering' /\ pc' = "discover"
        /\ UNCHANGED <<level, signal, rssi>>
    BY <1>3, <1>d DEF Subscribe, NewCache
  <2>2. SignalInv'
    BY <2>1, EmptyChannel DEF Reaches
  <2>3. \A p \in Paths : cache'[p] <= level'[p]
    BY <2>1 DEF Empty, TypeOK
  <2>4. CacheInv'
    BY <2>1, <2>3 DEF CacheInv, RssiIsCurrent
  <2>5. QED
    BY <2>2, <2>4 DEF RssiInv
<1>4. CASE StartDiscovery
  <2>1. /\ pc = "discover" /\ pc' = "select" /\ conn' = "open"
        /\ UNCHANGED <<channel, cache, level, signal, rssi>>
    BY <1>4 DEF StartDiscovery, Works
  <2>2. channel' = <<>> /\ cache' = Empty
    BY <2>1 DEF RssiInv, CacheInv
  <2>3. SignalInv'
    BY <2>2, EmptyChannel DEF Empty
  <2>4. CacheInv'
    BY <2>1 DEF RssiInv, CacheInv, RssiIsCurrent
  <2>5. QED
    BY <2>3, <2>4 DEF RssiInv
<1>5. CASE SelectDone \/ SelectTick \/ HandlerReturns
  <2>1. /\ UNCHANGED <<channel, cache, level, signal, rssi, conn, subscribed, discovering>>
        /\ pc' \in {"select", "stop"}
    BY <1>5 DEF SelectDone, SelectTick, HandlerReturns
  <2>2. QED
    BY <2>1, QuietStep
<1>6. CASE SelectClosed
  <2>1. /\ UNCHANGED <<channel, cache, level, signal, rssi, conn, subscribed, discovering>>
        /\ pc' = "panicked" /\ ~discovering
    BY <1>6 DEF SelectClosed, RssiInv, CacheInv
  <2>2. QED
    BY <2>1, QuietStep
<1>7. CASE Ignore \/ AskRSSI
  BY <1>7, AskStep
<1>8. CASE TakeRSSI
  BY <1>8, TakeStep
<1>9. CASE Told
  BY <1>9, ToldStep
<1>10. CASE BlueZSticks \/ BlueZGoes \/ BlueZReturns \/ BusGoes \/ BusReturns
  <2>1. /\ UNCHANGED <<pc, channel, cache, level, signal, rssi, subscribed>>
        /\ discovering' => discovering
        /\ conn' = conn \/ (conn' # "open" /\ ~discovering')
    BY <1>10 DEF BlueZSticks, BlueZGoes, BlueZReturns, BusGoes, BusReturns
  <2>2. QED
    BY <2>1, QuietStep DEF RssiInv, CacheInv
<1>11. ASSUME NEW p \in Paths, Forget(p) PROVE RssiInv'
  <2>1. UNCHANGED <<pc, channel, cache, level, signal, rssi, subscribed, conn, discovering>>
    BY <1>11 DEF Forget
  <2>2. QED
    BY <2>1, QuietStep DEF RssiInv, CacheInv
<1>12. ASSUME NEW p \in Paths, Advertise(p) \/ Chatter(p) PROVE RssiInv'
  BY <1>12, PostStep
<1>13. CASE FallSilent \/ Cancel \/ Ended \/ UNCHANGED vars
  <2>1. UNCHANGED <<pc, channel, cache, level, signal, rssi, subscribed, conn, discovering>>
    BY <1>13 DEF FallSilent, Cancel, Ended, vars
  <2>2. QED
    BY <2>1, QuietStep DEF RssiInv, CacheInv
<1>14. QED
  BY <1>1, <1>2, <1>3, <1>4, <1>5, <1>6, <1>7, <1>8, <1>9, <1>10, <1>11, <1>12, <1>13
  DEF Next, ScannerStep, SessionStep, BlueZStep

\* The cache, the signals still in the channel and what the devices have now agree:
\* handling the signals in their order gives each the RSSI it left out.
THEOREM RssiCorrect == Spec => []RssiInv
<1>1. QED
  BY RssiInit, RssiStep, TypeCorrect, PTL DEF Spec

\* RssiIsCurrent: handleDeviceProperties calls the handler with an RSSI the device had
\* when the signal was sent or later, or with none, for any number of devices,
\* changes and waiting signals.
THEOREM RssiHolds == Spec => []RssiIsCurrent
<1>1. RssiInv => RssiIsCurrent
  BY DEF RssiInv, CacheInv
<1>2. QED
  BY <1>1, RssiCorrect, PTL
=============================================================================
