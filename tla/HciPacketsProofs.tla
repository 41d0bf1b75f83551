-------------------------- MODULE HciPacketsProofs --------------------------
(* Theorems about HciPackets for all values of its constants.              *)
EXTENDS HciPackets, TLAPS

-----------------------------------------------------------------------------
(* The layout of an event.                                                 *)

\* An event holds one report or two.
LEMMA TwoReports ==
  /\ 0..1 = {0, 1} /\ 0..2 = {0, 1, 2}
  /\ 1..0 = {} /\ 1..1 = {1} /\ 1..2 = {1, 2}
OBVIOUS

\* Where the reports begin, without a product of two unknowns.
LEMMA Offsets ==
  /\ Offset(1) = 4
  /\ Offset(2) = 4 + (Before + PartSize + After)
  /\ Offset(2) \in Nat /\ Before \in Nat /\ After \in {0, 1}
<1>1. Before \in Nat /\ After \in {0, 1} /\ PartSize \in Nat
  BY PacketAssumption DEF Before, After
<1>2. QED
  BY <1>1 DEF Offset

LEMMA ParsedKeeps ==
  ASSUME NEW n \in {1, 2}, NEW total \in Nat
  PROVE  /\ Parsed(n, total) \in 0..n
         /\ \A i \in 1..Parsed(n, total) : Fits(i, total)
         /\ Parsed(n, total) < n => ~Fits(Parsed(n, total) + 1, total)
<1> DEFINE P(k) == (\A i \in 1..k : Fits(i, total)) /\ (k < n => ~Fits(k + 1, total))
<1>1. \E k \in 0..n : P(k)
  <2>1. CASE ~Fits(1, total)
    <3>1. P(0)
      BY <2>1
    <3>2. QED
      BY <3>1
  <2>2. CASE Fits(1, total) /\ (n = 1 \/ ~Fits(2, total))
    <3>1. P(1)
      BY <2>2, TwoReports
    <3>2. QED
      BY <3>1
  <2>3. CASE Fits(1, total) /\ n = 2 /\ Fits(2, total)
    <3>1. P(2)
      BY <2>3, TwoReports
    <3>2. QED
      BY <2>3, <3>1
  <2>4. QED
    BY <2>1, <2>2, <2>3
<1>2. QED
  BY <1>1 DEF Parsed

\* Fits in numbers: a report fits when it ends within the event.
LEMMA FitsIsWhole ==
  ASSUME NEW total \in Nat
  PROVE  /\ Fits(1, total) <=> 4 + (Before + PartSize + After) <= total
         /\ Fits(2, total) <=> 4 + 2 * (Before + PartSize + After) <= total
BY Offsets, PacketAssumption DEF Fits

\* The parsers keep exactly the reports that are whole.
LEMMA KeepsWhole ==
  ASSUME NEW n \in {1, 2}, NEW total \in Nat
  PROVE  Parsed(n, total) = Whole(n, total)
<1> DEFINE size == Before + PartSize + After
           Q(k) == /\ 4 + k * size <= total \/ k = 0
                   /\ k < n => total < 4 + (k + 1) * size
           p == Parsed(n, total)
<1>1. size \in Nat /\ size > 0
  BY Offsets, PacketAssumption
<1>2. /\ Q(0) <=> total < 4 + size
      /\ Q(1) <=> 4 + size <= total /\ (n = 1 \/ total < 4 + 2 * size)
      /\ n = 2 => (Q(2) <=> 4 + 2 * size <= total)
  <2> HIDE DEF size
  <2>1. 0 * size = 0 /\ (0 + 1) * size = size /\ 1 * size = size /\ (1 + 1) * size = 2 * size
    BY <1>1
  <2>2. QED
    BY <1>1, <2>1
<1>3. p \in 0..n /\ Q(p)
  <2>1. /\ p \in 0..n
        /\ \A i \in 1..p : Fits(i, total)
        /\ p < n => ~Fits(p + 1, total)
    BY ParsedKeeps
  <2>2. /\ Fits(1, total) <=> 4 + size <= total
        /\ Fits(2, total) <=> 4 + 2 * size <= total
    BY FitsIsWhole
  <2> HIDE DEF p, size
  <2>3. CASE p = 0
    <3>1. ~Fits(1, total)
      BY <2>1, <2>3
    <3>2. QED
      BY <1>1, <1>2, <2>1, <2>2, <2>3, <3>1
  <2>4. CASE p = 1
    <3>1. Fits(1, total) /\ (n = 1 \/ ~Fits(2, total))
      BY <2>1, <2>4
    <3>2. Q(1)
      BY <1>1, <1>2, <2>2, <3>1
    <3>3. QED
      BY <2>1, <2>4, <3>2
  <2>5. CASE p = 2
    <3>1. n = 2 /\ Fits(2, total)
      BY <2>1, <2>5
    <3>2. Q(2)
      BY <1>1, <1>2, <2>2, <3>1
    <3>3. QED
      BY <2>1, <2>5, <3>2
  <2>6. QED
    BY <2>1, <2>3, <2>4, <2>5
<1>4. ASSUME NEW k \in 0..n, NEW l \in 0..n, Q(k), Q(l) PROVE k = l
  <2>1. k \in {0, 1, 2} /\ l \in {0, 1, 2} /\ (k = 2 \/ l = 2 => n = 2)
    OBVIOUS
  <2> HIDE DEF size, Q
  <2>2. QED
    BY <1>1, <1>2, <1>4, <2>1
<1>5. Whole(n, total) = CHOOSE k \in 0..n : Q(k)
  BY DEF Whole
<1> HIDE DEF Q, p
<1>6. Whole(n, total) \in 0..n /\ Q(Whole(n, total))
  BY <1>3, <1>5
<1>7. p = Whole(n, total)
  BY <1>3, <1>4, <1>6
<1>8. QED
  BY <1>7 DEF p
-----------------------------------------------------------------------------
(* Steps, with the events taken apart.                                     *)

\* What an event adds: the reports that were parsed, and the sets' next parts.
Heard(rs, kept) ==
  /\ rs \in Seq(Report) /\ Len(rs) \in {1, 2}
  /\ kept \in 0..Len(rs)
  /\ \A i \in 1..Len(rs) : rs[i] \in Reports(rs[i].set)
  /\ \A i, j \in 1..Len(rs) : i # j => rs[i].set # rs[j].set
  /\ Len(batch') = kept /\ batch' \in Seq(Report)
  /\ \A i \in 1..kept : batch'[i] = rs[i]
  /\ clean' \in [Sets -> BOOLEAN]
  /\ \A s \in Sets : clean'[s] => clean[s]
  /\ \A i \in 1..Len(rs) :
       i > kept /\ clean'[rs[i].set] => rs[i].data.part = 1 /\ rs[i].status = 0
  /\ air' = [s \in Sets |-> air'[s]]
  /\ \A i \in 1..Len(rs) : air'[rs[i].set] \in Following(rs[i])
  /\ \A s \in Sets : (\A i \in 1..Len(rs) : rs[i].set # s) => air'[s] = air[s]

\* The types of the parts of an advertisement that are on their way.
AirTypes ==
  /\ ext \in BOOLEAN
  /\ air \in [Sets -> [id : 0..IdMax, size : Nat, next : Nat \ {0}]]
  /\ \A s \in Sets : air[s].next <= air[s].size /\ air[s].size <= PartsOf[s.sid]

LEMMA ReportTypes ==
  ASSUME AirTypes, NEW s \in Sets, NEW r \in Reports(s)
  PROVE  /\ r \in Report /\ r.set = s
         /\ r.data = [id |-> air[s].id, part |-> air[s].next]
         /\ r.status = 0 <=> air[s].next = air[s].size
<1>1. PICK st \in IF air[s].next = air[s].size THEN {0} ELSE {1, 2} :
        r = [set |-> s, data |-> [id |-> air[s].id, part |-> air[s].next], status |-> st]
  BY DEF Reports
<1>2. st \in 0..2 /\ (st = 0 <=> air[s].next = air[s].size)
  OBVIOUS
<1>3. air[s].id \in 0..IdMax /\ air[s].next \in Nat \ {0}
  BY DEF AirTypes
<1>4. QED
  BY <1>1, <1>2, <1>3 DEF Report, Part

LEMMA TotalsAreNat ==
  ASSUME NEW total \in Totals
  PROVE  total \in Nat
<1>1. 2..3 = {2, 3}
  OBVIOUS
<1>2. /\ Offset(2) = 4 + Before + PartSize + After
      /\ Offset(3) = 4 + 2 * (Before + PartSize + After)
      /\ Before \in Nat /\ Before > 1 /\ After \in {0, 1} /\ PartSize \in Nat
  BY PacketAssumption, Offsets DEF Offset, Before, After
<1>3. \/ total = Offset(2) - PartSize - After - 1
      \/ total \in {Offset(2), Offset(2) - 1, Offset(3), Offset(3) - 1}
  BY <1>1, <1>2 DEF Totals
<1>4. QED
  BY <1>2, <1>3

LEMMA EventsHear ==
  ASSUME AirTypes, clean \in [Sets -> BOOLEAN], Events
  PROVE  /\ \E rs, kept : Heard(rs, kept)
         /\ batch = <<>> /\ out' = Nothing /\ ext' = ext /\ frag' = frag
         /\ parsed'.kept = parsed'.whole /\ parsed'.kept \in 0..2
<1>0. PICK s \in Sets, t \in Sets :
        \E r \in Reports(s), q \in Reports(t), total \in Totals :
          Event(IF s = t THEN <<r>> ELSE <<r, q>>, total)
  BY DEF Events
<1>1. PICK r \in Reports(s), q \in Reports(t), total \in Totals :
        Event(IF s = t THEN <<r>> ELSE <<r, q>>, total)
  BY <1>0
<1> DEFINE rs == IF s = t THEN <<r>> ELSE <<r, q>>
           n == Len(rs)
           kept == Parsed(n, total)
<1>2. /\ r \in Report /\ r.set = s
      /\ q \in Report /\ q.set = t
  BY ReportTypes
<1>3. rs \in Seq(Report) /\ n \in {1, 2}
  <2>1. <<r>> \in Seq(Report) /\ <<r, q>> \in Seq(Report)
    BY <1>2
  <2>2. QED
    BY <2>1
<1>3a. \A i \in 1..n : rs[i].set \in Sets
  BY <1>2, TwoReports
<1>4. /\ \A i \in 1..n : rs[i] \in Reports(rs[i].set)
      /\ \A i, j \in 1..n : i # j => rs[i].set # rs[j].set
  BY <1>2, TwoReports
<1>5. total \in Nat
  BY TotalsAreNat
<1>6. kept \in 0..n /\ kept = Whole(n, total)
  BY <1>3, <1>5, ParsedKeeps, KeepsWhole
<1> HIDE DEF rs
<1>7. Event(rs, total)
  BY <1>1 DEF rs
<1> HIDE DEF kept, n
<1>8. /\ batch = <<>> /\ out' = Nothing /\ ext' = ext /\ frag' = frag
      /\ batch' = SubSeq(rs, 1, kept)
      /\ parsed' = [whole |-> Whole(n, total), kept |-> kept]
      /\ clean' = [x \in Sets |-> clean[x] /\ \A y \in {rs[i] : i \in (kept + 1)..n} :
                                    y.set = x => y.data.part = 1 /\ y.status = 0]
  BY <1>7 DEF Event, kept, n
<1>9. /\ Len(batch') = kept /\ batch' \in Seq(Report)
      /\ \A i \in 1..kept : batch'[i] = rs[i]
  BY <1>3, <1>6, <1>8 DEF n
<1>10. /\ clean' \in [Sets -> BOOLEAN]
       /\ \A x \in Sets : clean'[x] => clean[x]
  BY <1>8
<1>11. \A i \in 1..n : i > kept /\ clean'[rs[i].set] => rs[i].data.part = 1 /\ rs[i].status = 0
  <2> SUFFICES ASSUME NEW i \in 1..n, i > kept, clean'[rs[i].set]
               PROVE  rs[i].data.part = 1 /\ rs[i].status = 0
    OBVIOUS
  <2>1. i \in (kept + 1)..n
    BY <1>3, <1>6
  <2>2. QED
    BY <1>3a, <1>8, <2>1
<1>12. /\ air' = [x \in Sets |-> air'[x]]
       /\ \A i \in 1..n : air'[rs[i].set] \in Following(rs[i])
       /\ \A x \in Sets : (\A i \in 1..n : rs[i].set # x) => air'[x] = air[x]
  <2>1. ToSet(rs) = {rs[i] : i \in 1..n}
    BY <1>3 DEF ToSet, n
  <2>2. PICK next : 
          /\ \A y \in ToSet(rs) : next[y] \in Following(y)
          /\ air' = [x \in Sets |-> IF \E y \in ToSet(rs) : y.set = x
                                      THEN next[CHOOSE y \in ToSet(rs) : y.set = x]
                                      ELSE air[x]]
    BY <1>7 DEF Event
  <2>3. ASSUME NEW i \in 1..n PROVE air'[rs[i].set] \in Following(rs[i])
    <3>1. rs[i].set \in Sets
      BY <1>3a
    <3>2. rs[i] \in ToSet(rs)
      BY <2>1
    <3>3. \A y \in ToSet(rs) : y.set = rs[i].set => y = rs[i]
      BY <1>4, <2>1
    <3>4. (CHOOSE y \in ToSet(rs) : y.set = rs[i].set) = rs[i]
      BY <3>2, <3>3
    <3>5. air'[rs[i].set] = next[rs[i]]
      BY <2>2, <3>1, <3>2, <3>4
    <3>6. QED
      BY <2>2, <3>2, <3>5
  <2>4. ASSUME NEW x \in Sets, \A i \in 1..n : rs[i].set # x PROVE air'[x] = air[x]
    <3>1. ~ \E y \in ToSet(rs) : y.set = x
      BY <2>1, <2>4
    <3>2. QED
      BY <2>2, <3>1
  <2>5. air' = [x \in Sets |-> air'[x]]
    BY <2>2
  <2>6. QED
    BY <2>3, <2>4, <2>5
<1>13. Heard(rs, kept)
  BY <1>3, <1>4, <1>6, <1>9, <1>10, <1>11, <1>12 DEF Heard, n
<1>14. parsed'.kept = parsed'.whole /\ parsed'.kept \in 0..2
  BY <1>3, <1>6, <1>8
<1>15. QED
  BY <1>8, <1>13, <1>14
-----------------------------------------------------------------------------
(* Types, and events that are cut.                                         *)

Types ==
  /\ AirTypes
  /\ batch \in Seq(Report)
  /\ \A i \in 1..Len(batch) :
       batch[i].status = 1 => batch[i].data.part < PartsOf[batch[i].set.sid]
  /\ frag \in [Sets -> Seq(Part)]
  /\ \A s \in Sets : \A i \in 1..Len(frag[s]) : frag[s][i].part < PartsOf[s.sid]
  /\ \A s \in Sets : Len(frag[s]) * PartSize <= Capacity
  /\ clean \in [Sets -> BOOLEAN]
  /\ out # Nothing => out \in Output /\ Len(out.data) * PartSize <= Capacity + PartSize
  /\ parsed.whole \in 0..2 /\ parsed.kept \in 0..2
  /\ CutCostsOnlyTheCut

LEMMA TypesImplyTypeOK == Types => TypeOK
<1> SUFFICES ASSUME Types PROVE TypeOK
  OBVIOUS
<1>1. \A s \in Sets : DOMAIN frag[s] = 1..Len(frag[s])
  BY DEF Types
<1>2. QED
  BY <1>1 DEF Types, TypeOK, AirTypes

\* What a set sends next is well typed.
LEMMA FollowingTypes ==
  ASSUME AirTypes, NEW s \in Sets, NEW r \in Reports(s), NEW a \in Following(r)
  PROVE  /\ a \in [id : 0..IdMax, size : Nat, next : Nat \ {0}]
         /\ a.next <= a.size /\ a.size <= PartsOf[s.sid]
         /\ r.status = 1 => /\ a.id = r.data.id /\ a.next = r.data.part + 1
                            /\ r.data.part < PartsOf[s.sid]
         /\ r.status # 1 => a.next = 1
<1>1. /\ r \in Report /\ r.set = s
      /\ r.data = [id |-> air[s].id, part |-> air[s].next]
      /\ r.status = 0 <=> air[s].next = air[s].size
  BY ReportTypes
<1>2. /\ air[s] \in [id : 0..IdMax, size : Nat, next : Nat \ {0}]
      /\ air[s].next <= air[s].size /\ air[s].size <= PartsOf[s.sid]
  BY DEF AirTypes
<1>3. PartsOf[s.sid] \in Nat \ {0}
  BY PacketAssumption DEF Sets
<1>4. CASE r.status = 1
  <2>1. a = [air[s] EXCEPT !.next = @ + 1]
    BY <1>1, <1>4 DEF Following
  <2>2. a.id = air[s].id /\ a.size = air[s].size /\ a.next = air[s].next + 1
    BY <1>2, <2>1
  <2>3. a \in [id : 0..IdMax, size : Nat, next : Nat \ {0}]
    BY <1>2, <2>1
  <2>4. air[s].next < air[s].size
    BY <1>1, <1>2, <1>4
  <2>5. QED
    BY <1>1, <1>2, <1>3, <1>4, <2>2, <2>3, <2>4
<1>5. CASE r.status # 1
  <2> DEFINE id == (air[s].id + 1) % (IdMax + 1)
  <2>1. id \in 0..IdMax
    BY <1>2, PacketAssumption
  <2> HIDE DEF id
  <2>2. a \in [id : {id}, size : IF ext THEN 1..PartsOf[s.sid] ELSE {1}, next : {1}]
    BY <1>1, <1>5 DEF Following, Advertisement, id
  <2>3. a.id = id /\ a.size \in 1..PartsOf[s.sid] /\ a.next = 1
    BY <1>3, <2>2
  <2>4. a = [id |-> a.id, size |-> a.size, next |-> a.next]
    BY <2>2
  <2>5. QED
    BY <1>3, <1>5, <2>1, <2>3, <2>4
<1>6. QED
  BY <1>4, <1>5

LEMMA AirStays ==
  ASSUME AirTypes, clean \in [Sets -> BOOLEAN], Events
  PROVE  AirTypes'
<1>1. PICK rs, kept : Heard(rs, kept)
  BY EventsHear
<1>2. ext' \in BOOLEAN
  BY EventsHear DEF AirTypes
<1>3. ASSUME NEW s \in Sets
      PROVE  /\ air'[s] \in [id : 0..IdMax, size : Nat, next : Nat \ {0}]
             /\ air'[s].next <= air'[s].size /\ air'[s].size <= PartsOf[s.sid]
  <2>1. CASE \E i \in 1..Len(rs) : rs[i].set = s
    <3>1. PICK i \in 1..Len(rs) : rs[i].set = s
      BY <2>1
    <3>2. rs[i] \in Reports(s) /\ air'[s] \in Following(rs[i])
      BY <1>1, <3>1 DEF Heard
    <3>3. QED
      BY <3>2, FollowingTypes
  <2>2. CASE ~ \E i \in 1..Len(rs) : rs[i].set = s
    <3>1. air'[s] = air[s]
      BY <1>1, <2>2 DEF Heard
    <3>2. QED
      BY <3>1 DEF AirTypes
  <2>3. QED
    BY <2>1, <2>2
<1>4. air' = [s \in Sets |-> air'[s]]
  BY <1>1 DEF Heard
<1>5. air' \in [Sets -> [id : 0..IdMax, size : Nat, next : Nat \ {0}]]
  BY <1>3, <1>4
<1>6. QED
  BY <1>2, <1>3, <1>5 DEF AirTypes

LEMMA EventsTypes ==
  ASSUME Types, Events
  PROVE  Types'
<1>1. AirTypes' /\ clean \in [Sets -> BOOLEAN]
  BY AirStays DEF Types
<1>2. PICK rs, kept : Heard(rs, kept)
  BY EventsHear DEF Types
<1>3. /\ batch = <<>> /\ out' = Nothing /\ frag' = frag
      /\ parsed'.kept = parsed'.whole /\ parsed'.kept \in 0..2
  BY EventsHear DEF Types
<1>4. ASSUME NEW i \in 1..Len(batch'), batch'[i].status = 1
      PROVE  batch'[i].data.part < PartsOf[batch'[i].set.sid]
  <2>1. i \in 1..Len(rs) /\ batch'[i] = rs[i]
    BY <1>2 DEF Heard
  <2>2. rs[i] \in Reports(rs[i].set) /\ air'[rs[i].set] \in Following(rs[i]) /\ rs[i] \in Report
    BY <1>2, <2>1 DEF Heard
  <2>3. rs[i].set \in Sets
    BY <2>2 DEF Report
  <2>4. QED
    BY <1>4, <2>1, <2>2, <2>3, FollowingTypes DEF Types
<1>5. batch' \in Seq(Report) /\ clean' \in [Sets -> BOOLEAN]
  BY <1>2 DEF Heard
<1>6. QED
  BY <1>1, <1>3, <1>4, <1>5 DEF Types, CutCostsOnlyTheCut

\* The report that is added, and what is left of the batch.
LEMMA Adding ==
  ASSUME Types, Add
  PROVE  /\ Head(batch) \in Report /\ Head(batch) = batch[1] /\ 1 \in 1..Len(batch)
         /\ batch' \in Seq(Report) /\ Len(batch') = Len(batch) - 1
         /\ \A i \in 1..Len(batch') : i + 1 \in 1..Len(batch) /\ batch'[i] = batch[i + 1]
         /\ Head(batch).set \in Sets /\ Head(batch).data \in Part
         /\ UNCHANGED <<ext, air>> /\ parsed' = NoReports
<1>1. batch \in Seq(Report) /\ batch # <<>> /\ batch' = Tail(batch)
  BY DEF Types, Add
<1>2. Head(batch) \in Report
  BY <1>1
<1>3. QED
  BY <1>1, <1>2 DEF Add, Report

LEMMA AddTypes ==
  ASSUME Types, Add
  PROVE  Types'
<1> DEFINE r == Head(batch)
           s == r.set
<1>1. /\ r \in Report /\ r = batch[1] /\ 1 \in 1..Len(batch)
      /\ s \in Sets /\ r.data \in Part
      /\ r.status = 1 => r.data.part < PartsOf[s.sid]
  BY Adding DEF Types
<1>2. /\ batch' \in Seq(Report)
      /\ \A i \in 1..Len(batch') :
           batch'[i].status = 1 => batch'[i].data.part < PartsOf[batch'[i].set.sid]
  BY Adding DEF Types
<1>3. AirTypes' /\ CutCostsOnlyTheCut' /\ parsed'.whole \in 0..2 /\ parsed'.kept \in 0..2
  <2>1. UNCHANGED <<ext, air>> /\ parsed' = NoReports
    BY Adding
  <2>2. QED
    BY <2>1 DEF Types, AirTypes, CutCostsOnlyTheCut, NoReports
<1>4. /\ frag[s] \in Seq(Part) /\ Len(frag[s]) \in Nat /\ Len(frag[s]) * PartSize <= Capacity
      /\ Append(frag[s], r.data) \in Seq(Part)
      /\ Len(Append(frag[s], r.data)) = Len(frag[s]) + 1
      /\ (Len(frag[s]) + 1) * PartSize = Len(frag[s]) * PartSize + PartSize
  <2>1. frag[s] \in Seq(Part) /\ Len(frag[s]) * PartSize <= Capacity
    BY <1>1 DEF Types
  <2>2. Append(frag[s], r.data) \in Seq(Part) /\ Len(Append(frag[s], r.data)) = Len(frag[s]) + 1
    BY <1>1, <2>1
  <2>3. Len(frag[s]) \in Nat
    BY <2>1
  <2> HIDE DEF s
  <2>4. (Len(frag[s]) + 1) * PartSize = Len(frag[s]) * PartSize + PartSize
    BY <2>3, PacketAssumption
  <2>5. QED
    BY <2>1, <2>2, <2>3, <2>4
<1> HIDE DEF s
<1>5. <<>> \in Seq(Part) /\ Len(<<>>) = 0 /\ 0 * PartSize <= Capacity
  BY PacketAssumption
<1>6. ASSUME NEW f \in Seq(Part), frag' = [frag EXCEPT ![s] = f],
             \A i \in 1..Len(f) : f[i].part < PartsOf[s.sid],
             Len(f) * PartSize <= Capacity
      PROVE  /\ frag' \in [Sets -> Seq(Part)]
             /\ \A t \in Sets : \A i \in 1..Len(frag'[t]) : frag'[t][i].part < PartsOf[t.sid]
             /\ \A t \in Sets : Len(frag'[t]) * PartSize <= Capacity
  <2>1. frag \in [Sets -> Seq(Part)]
    BY DEF Types
  <2>2. \A t \in Sets : frag'[t] = IF t = s THEN f ELSE frag[t]
    BY <1>6, <2>1
  <2>3. QED
    BY <1>1, <1>6, <2>1, <2>2 DEF Types
<1>6a. ASSUME frag' = [frag EXCEPT ![s] = <<>>]
       PROVE  /\ frag' \in [Sets -> Seq(Part)]
              /\ \A t \in Sets : \A i \in 1..Len(frag'[t]) : frag'[t][i].part < PartsOf[t.sid]
              /\ \A t \in Sets : Len(frag'[t]) * PartSize <= Capacity
  <2>1. 1..Len(<<>>) = {}
    OBVIOUS
  <2>2. \A i \in 1..Len(<<>>) : (<<>>)[i].part < PartsOf[s.sid]
    BY <2>1
  <2>3. <<>> \in Seq(Part) /\ Len(<<>>) * PartSize <= Capacity
    BY <1>5
  <2>4. QED
    BY <1>6, <1>6a, <2>2, <2>3
<1> DEFINE Rest == /\ frag' \in [Sets -> Seq(Part)]
                   /\ \A t \in Sets : \A i \in 1..Len(frag'[t]) : frag'[t][i].part < PartsOf[t.sid]
                   /\ \A t \in Sets : Len(frag'[t]) * PartSize <= Capacity
                   /\ clean' \in [Sets -> BOOLEAN]
                   /\ out' # Nothing => /\ out' \in Output
                                        /\ Len(out'.data) * PartSize <= Capacity + PartSize
<1>7. ASSUME AddLast(r) PROVE Rest
  <2>1. /\ out' = [set |-> s, clean |-> clean[s], data |-> Append(frag[s], r.data)]
        /\ frag' = [frag EXCEPT ![s] = <<>>]
        /\ clean' = [clean EXCEPT ![s] = TRUE]
    BY <1>7 DEF AddLast, Key, s
  <2>2. clean[s] \in BOOLEAN /\ clean' \in [Sets -> BOOLEAN]
    BY <1>1, <2>1 DEF Types
  <2>3. out' \in Output /\ Len(out'.data) * PartSize <= Capacity + PartSize
    BY <1>1, <1>4, <2>1, <2>2, PacketAssumption DEF Output
  <2>4. QED
    BY <1>6a, <2>1, <2>2, <2>3
<1>8. ASSUME AddMore(r) PROVE Rest
  <2>1. /\ frag' = IF Room(s) THEN [frag EXCEPT ![s] = Append(@, r.data)] ELSE frag
        /\ out' = Nothing /\ clean' = clean /\ r.status = 1
    BY <1>8 DEF AddMore, Key, s
  <2>2. CASE Room(s)
    <3>1. Len(Append(frag[s], r.data)) * PartSize <= Capacity
      BY <1>4, <2>2 DEF Room
    <3>2. \A i \in 1..Len(Append(frag[s], r.data)) :
            Append(frag[s], r.data)[i].part < PartsOf[s.sid]
      <4>1. ASSUME NEW i \in 1..Len(Append(frag[s], r.data))
            PROVE  Append(frag[s], r.data)[i].part < PartsOf[s.sid]
        <5>1. CASE i \in 1..Len(frag[s])
          BY <1>1, <1>4, <5>1 DEF Types
        <5>2. CASE i = Len(frag[s]) + 1
          BY <1>1, <1>4, <2>1, <5>2
        <5>3. QED
          BY <1>4, <5>1, <5>2
      <4>2. QED
        BY <4>1
    <3>3. frag' = [frag EXCEPT ![s] = Append(frag[s], r.data)]
      BY <2>1, <2>2
    <3>4. QED
      BY <1>4, <1>6, <2>1, <3>1, <3>2, <3>3 DEF Types
  <2>3. CASE ~Room(s)
    BY <2>1, <2>3 DEF Types
  <2>4. QED
    BY <2>2, <2>3
<1>9. ASSUME AddTruncated(r) PROVE Rest
  <2>1. /\ out' = Nothing
        /\ frag' = [frag EXCEPT ![s] = <<>>]
        /\ clean' = [clean EXCEPT ![s] = TRUE]
    BY <1>9 DEF AddTruncated, Key, s
  <2>2. clean' \in [Sets -> BOOLEAN]
    BY <1>1, <2>1 DEF Types
  <2>3. QED
    BY <1>6a, <2>1, <2>2
<1>10. Rest
  BY <1>7, <1>8, <1>9 DEF Add
<1>11. QED
  BY <1>2, <1>3, <1>10 DEF Types

LEMMA SessionTypes ==
  ASSUME Types, Session
  PROVE  Types'
<1>1. <<>> \in Seq(Part) /\ Len(<<>>) = 0 /\ 0 * PartSize <= Capacity
  BY PacketAssumption
<1>2. /\ frag' \in [Sets -> Seq(Part)]
      /\ \A s \in Sets : \A i \in 1..Len(frag'[s]) : frag'[s][i].part < PartsOf[s.sid]
      /\ \A s \in Sets : Len(frag'[s]) * PartSize <= Capacity
  BY <1>1 DEF Session
<1>3. clean' \in [Sets -> BOOLEAN] /\ out' = Nothing /\ parsed' = NoReports
  BY DEF Session
<1>4. UNCHANGED <<ext, air, batch>>
  BY DEF Session
<1>5. QED
  BY <1>2, <1>3, <1>4 DEF Types, AirTypes, CutCostsOnlyTheCut, NoReports

LEMMA InitTypes == Init => Types
<1> SUFFICES ASSUME Init PROVE Types
  OBVIOUS
<1>1. ASSUME NEW s \in Sets
      PROVE  /\ air[s] \in [id : 0..IdMax, size : Nat, next : Nat \ {0}]
             /\ air[s].next <= air[s].size /\ air[s].size <= PartsOf[s.sid]
  <2>1. air[s] \in [id : {0}, size : IF ext THEN 1..PartsOf[s.sid] ELSE {1}, next : {1}]
    BY DEF Init, Advertisement
  <2>2. PartsOf[s.sid] \in Nat \ {0}
    BY PacketAssumption DEF Sets
  <2>3. /\ air[s] = [id |-> air[s].id, size |-> air[s].size, next |-> air[s].next]
        /\ air[s].id = 0 /\ air[s].size \in 1..PartsOf[s.sid] /\ air[s].next = 1
    BY <2>1, <2>2
  <2>4. 0 \in 0..IdMax /\ air[s].size \in Nat
    BY <2>2, <2>3, PacketAssumption
  <2>5. QED
    BY <2>3, <2>4
<1>2. air \in [Sets -> [id : 0..IdMax, size : Nat, next : Nat \ {0}]]
  BY <1>1 DEF Init
<1>3. <<>> \in Seq(Part) /\ <<>> \in Seq(Report) /\ Len(<<>>) = 0 /\ 0 * PartSize <= Capacity
  BY PacketAssumption
<1>4. /\ frag \in [Sets -> Seq(Part)]
      /\ \A s \in Sets : \A i \in 1..Len(frag[s]) : frag[s][i].part < PartsOf[s.sid]
      /\ \A s \in Sets : Len(frag[s]) * PartSize <= Capacity
  BY <1>3 DEF Init
<1>5. AirTypes
  BY <1>1, <1>2 DEF AirTypes, Init
<1>6. QED
  BY <1>3, <1>4, <1>5 DEF Types, Init, CutCostsOnlyTheCut, NoReports

LEMMA TypesStep ==
  ASSUME Types, [Next]_vars
  PROVE  Types'
<1>1. CASE Events
  BY <1>1, EventsTypes
<1>2. CASE Add
  BY <1>2, AddTypes
<1>3. CASE Session
  BY <1>3, SessionTypes
<1>4. CASE UNCHANGED vars
  BY <1>4 DEF vars, Types, AirTypes, CutCostsOnlyTheCut
<1>5. QED
  BY <1>1, <1>2, <1>3, <1>4 DEF Next

\* The types with what the counters of the last event show; inductive by itself.
THEOREM TypesHold == Spec => []Types
<1>1. QED
  BY InitTypes, TypesStep, PTL DEF Spec

\* TypeOK: however many reports are lost or cut off, what is held for a key stays
\* within the capacity of fragments.add.
THEOREM TypeCorrect == Spec => []TypeOK
<1>1. QED
  BY TypesHold, TypesImplyTypeOK, PTL

\* CutCostsOnlyTheCut: whatever the lengths of data and events, parseAdvReports and
\* parseExtAdvReports keep exactly the reports that are whole.
THEOREM CutCostsHolds == Spec => []CutCostsOnlyTheCut
<1>1. Types => CutCostsOnlyTheCut
  BY DEF Types
<1>2. QED
  BY <1>1, TypesHold, PTL
-----------------------------------------------------------------------------
(* Data that are handed on.                                                *)

\* The parts of an advertisement before the last fit within the capacity.
PartsFit == \A sid \in Sids : (PartsOf[sid] - 1) * PartSize <= Capacity

\* The first n parts of an advertisement are held, and nothing else.
Holds(s, id, n) ==
  /\ Len(frag[s]) = n
  /\ \A i \in 1..n : frag[s][i] = [id |-> id, part |-> i]

Waiting(s) == \E i \in 1..Len(batch) : batch[i].set = s

\* What the set of a report sends next.
Sent(r) ==
  IF r.status = 1 THEN air[r.set].id = r.data.id /\ air[r.set].next = r.data.part + 1
                  ELSE air[r.set].next = 1

\* Of a set from which nothing was lost, what is held is what comes before the report
\* that waits to be added or, if none does, before the part that is sent next.
WholeInv ==
  /\ \A i, j \in 1..Len(batch) : i # j => batch[i].set # batch[j].set
  /\ \A i \in 1..Len(batch) : Sent(batch[i])
  /\ \A s \in Sets : ~Waiting(s) /\ clean[s] => Holds(s, air[s].id, air[s].next - 1)
  /\ \A i \in 1..Len(batch) :
       clean[batch[i].set] => Holds(batch[i].set, batch[i].data.id, batch[i].data.part - 1)
  /\ WholeUnlessLost

LEMMA EventsWhole ==
  ASSUME Types, WholeInv, Events
  PROVE  WholeInv'
<1>1. PICK rs, kept : Heard(rs, kept)
  BY EventsHear DEF Types
<1>2. batch = <<>> /\ out' = Nothing /\ frag' = frag /\ kept \in 0..Len(rs) /\ Len(rs) \in Nat
  BY <1>1, EventsHear DEF Types, Heard
<1>3. ASSUME NEW i \in 1..Len(rs)
      PROVE  /\ rs[i].set \in Sets
             /\ rs[i].data = [id |-> air[rs[i].set].id, part |-> air[rs[i].set].next]
             /\ rs[i].data.part \in Nat \ {0}
             /\ Sent(rs[i])'
             /\ clean'[rs[i].set] =>
                  Holds(rs[i].set, rs[i].data.id, rs[i].data.part - 1)'
  <2> DEFINE r == rs[i]
  <2>1. r \in Report /\ r \in Reports(r.set) /\ air'[r.set] \in Following(r)
    BY <1>1 DEF Heard
  <2>2. r.set \in Sets /\ r.data \in Part
    BY <2>1 DEF Report
  <2>3. r.data = [id |-> air[r.set].id, part |-> air[r.set].next]
    BY <2>1, <2>2, ReportTypes DEF Types
  <2>4. Sent(r)'
    <3>1. /\ r.status = 1 => air'[r.set].id = r.data.id /\ air'[r.set].next = r.data.part + 1
          /\ r.status # 1 => air'[r.set].next = 1
      BY <2>1, <2>2, FollowingTypes DEF Types
    <3>2. QED
      BY <3>1 DEF Sent
  <2>5. clean'[r.set] => Holds(r.set, r.data.id, r.data.part - 1)'
    <3>1. clean'[r.set] => clean[r.set]
      BY <1>1, <2>2 DEF Heard
    <3>2. ~Waiting(r.set)
      BY <1>2 DEF Waiting
    <3>3. QED
      BY <1>2, <2>2, <2>3, <3>1, <3>2 DEF WholeInv, Holds
  <2>6. r.data.part \in Nat \ {0}
    BY <2>2 DEF Part
  <2>7. QED
    BY <2>2, <2>3, <2>4, <2>5, <2>6
<1>4. \A i \in 1..Len(batch') : i \in 1..Len(rs) /\ i \in 1..kept /\ batch'[i] = rs[i]
  BY <1>1, <1>2 DEF Heard
<1>5. \A i, j \in 1..Len(batch') : i # j => batch'[i].set # batch'[j].set
  BY <1>1, <1>4 DEF Heard
<1>6. \A i \in 1..Len(batch') :
        /\ Sent(batch[i])'
        /\ clean'[batch'[i].set] =>
             Holds(batch[i].set, batch[i].data.id, batch[i].data.part - 1)'
  <2> SUFFICES ASSUME NEW i \in 1..Len(batch')
               PROVE  /\ Sent(batch[i])'
                      /\ clean'[batch'[i].set] =>
                           Holds(batch[i].set, batch[i].data.id, batch[i].data.part - 1)'
    OBVIOUS
  <2>1. i \in 1..Len(rs) /\ batch'[i] = rs[i]
    BY <1>4
  <2>2. /\ Sent(rs[i])'
        /\ clean'[rs[i].set] => Holds(rs[i].set, rs[i].data.id, rs[i].data.part - 1)'
    BY <1>3, <2>1
  <2>3. Sent(batch[i])'
    BY <2>1, <2>2 DEF Sent
  <2>4. clean'[batch'[i].set] =>
          Holds(batch[i].set, batch[i].data.id, batch[i].data.part - 1)'
    BY <2>1, <2>2 DEF Holds
  <2>5. QED
    BY <2>3, <2>4
<1>7. ASSUME NEW s \in Sets, ~Waiting(s)', clean'[s]
      PROVE  Holds(s, air[s].id, air[s].next - 1)'
  <2>1. clean[s] /\ Holds(s, air[s].id, air[s].next - 1)
    BY <1>1, <1>2, <1>7 DEF Heard, WholeInv, Waiting
  <2>2. CASE \E i \in 1..Len(rs) : rs[i].set = s
    <3>1. PICK i \in 1..Len(rs) : rs[i].set = s
      BY <2>2
    <3>2. ~(i \in 1..kept)
      <4>1. i \in 1..kept => i \in 1..Len(batch') /\ batch'[i].set = s
        BY <1>1, <3>1 DEF Heard
      <4>2. QED
        BY <1>7, <4>1 DEF Waiting
    <3>3. rs[i].data.part = 1 /\ rs[i].status = 0
      BY <1>1, <1>2, <1>7, <3>1, <3>2 DEF Heard
    <3>4. air[s].next = 1 /\ air'[s].next = 1
      <4>1. rs[i].data = [id |-> air[s].id, part |-> air[s].next] /\ Sent(rs[i])'
        BY <1>3, <3>1
      <4>2. air[s].next = 1
        BY <3>3, <4>1
      <4>3. air'[s].next = 1
        BY <3>1, <3>3, <4>1 DEF Sent
      <4>4. QED
        BY <4>2, <4>3
    <3>5. Len(frag'[s]) = 0
      BY <1>2, <2>1, <3>4 DEF Holds
    <3>6. air'[s].next - 1 = 0 /\ 1..0 = {}
      BY <3>4
    <3>7. QED
      BY <3>5, <3>6 DEF Holds
  <2>3. CASE ~ \E i \in 1..Len(rs) : rs[i].set = s
    <3>1. air'[s] = air[s]
      BY <1>1, <2>3 DEF Heard
    <3>2. QED
      BY <1>2, <2>1, <3>1 DEF Holds
  <2>4. QED
    BY <2>2, <2>3
<1>8. QED
  BY <1>2, <1>5, <1>6, <1>7 DEF WholeInv, WholeUnlessLost

\* An advertisement whose parts fit finds room for every part but the last.
LEMMA PartFits ==
  ASSUME PartsFit, NEW sid \in Sids, NEW part \in Nat \ {0}, part < PartsOf[sid]
  PROVE  (part - 1) * PartSize + PartSize <= Capacity
<1>1. PartsOf[sid] \in Nat /\ PartSize \in Nat
  BY PacketAssumption
<1>2. (PartsOf[sid] - 1) * PartSize <= Capacity
  BY DEF PartsFit
<1>3. PICK d \in Nat : PartsOf[sid] - 1 = part + d
  <2>1. PartsOf[sid] - 1 - part \in Nat
    BY <1>1
  <2>2. PartsOf[sid] - 1 = part + (PartsOf[sid] - 1 - part)
    BY <1>1
  <2>3. QED
    BY <2>1, <2>2
<1>4. /\ (PartsOf[sid] - 1) * PartSize = part * PartSize + d * PartSize
      /\ d * PartSize >= 0
      /\ (part - 1) * PartSize + PartSize = part * PartSize
  BY <1>1, <1>3
<1>5. part * PartSize \in Int /\ d * PartSize \in Int /\ Capacity \in Int
  BY <1>1, PacketAssumption
<1>6. QED
  BY <1>2, <1>4, <1>5

\* Adding the next part to what is held.
LEMMA AppendPart ==
  ASSUME NEW f \in Seq(Part), NEW d \in Part,
         Len(f) = d.part - 1,
         \A i \in 1..(d.part - 1) : f[i] = [id |-> d.id, part |-> i]
  PROVE  /\ Append(f, d) = [i \in 1..d.part |-> [id |-> d.id, part |-> i]]
         /\ Len(Append(f, d)) = d.part
<1>1. d.part \in Nat \ {0} /\ d = [id |-> d.id, part |-> d.part]
  BY DEF Part
<1>2. Append(f, d) \in Seq(Part) /\ Len(Append(f, d)) = d.part
  BY <1>1
<1>2a. Append(f, d) = [i \in 1..d.part |-> Append(f, d)[i]]
  <2>1. \A q \in Seq(Part) : q \in [1..Len(q) -> Part]
    OBVIOUS
  <2>2. Append(f, d) \in [1..d.part -> Part]
    BY <1>2, <2>1
  <2>3. QED
    BY <2>2
<1>3. ASSUME NEW i \in 1..d.part
      PROVE  Append(f, d)[i] = [id |-> d.id, part |-> i]
  <2>1. CASE i = d.part
    BY <1>1, <2>1
  <2>2. CASE i \in 1..(d.part - 1)
    BY <1>1, <2>2
  <2>3. QED
    BY <1>1, <2>1, <2>2
<1>4. QED
  BY <1>2, <1>2a, <1>3

LEMMA AddWhole ==
  ASSUME PartsFit, Types, WholeInv, Add
  PROVE  WholeInv'
<1>r. PICK r, s : r = batch[1] /\ s = r.set
  OBVIOUS
<1>1. /\ r \in Report /\ r = Head(batch) /\ 1 \in 1..Len(batch)
      /\ Len(batch) \in Nat /\ Len(batch') = Len(batch) - 1
      /\ \A i \in 1..Len(batch') : i + 1 \in 1..Len(batch) /\ batch'[i] = batch[i + 1]
      /\ s \in Sets /\ r.data \in Part
      /\ air' = air
  BY <1>r, Adding DEF Types
<1>2. /\ r.data.part \in Nat \ {0}
      /\ r.status = 1 => r.data.part < PartsOf[s.sid]
      /\ frag \in [Sets -> Seq(Part)] /\ clean \in [Sets -> BOOLEAN]
      /\ Len(frag[s]) \in Nat
  <2>1. /\ frag \in [Sets -> Seq(Part)] /\ clean \in [Sets -> BOOLEAN]
        /\ r.status = 1 => r.data.part < PartsOf[s.sid]
    BY <1>r, <1>1 DEF Types
  <2>2. frag[s] \in Seq(Part)
    BY <1>1, <2>1
  <2>3. Len(frag[s]) \in Nat
    BY <2>2
  <2>4. r.data.part \in Nat \ {0}
    BY <1>1 DEF Part
  <2>5. QED
    BY <2>1, <2>3, <2>4
<1>3. /\ Sent(r)
      /\ clean[s] => Holds(s, r.data.id, r.data.part - 1)
      /\ \A i \in 1..Len(batch') : batch'[i].set # s
  BY <1>r, <1>1 DEF WholeInv
<1>4. \/ AddLast(r) \/ AddMore(r) \/ AddTruncated(r)
  BY <1>1 DEF Add
<1>5. \A i, j \in 1..Len(batch') : i # j => batch'[i].set # batch'[j].set
  BY <1>1 DEF WholeInv
<1>6. \A i \in 1..Len(batch') : Sent(batch[i])'
  BY <1>1 DEF WholeInv, Sent
<1>7. \A t \in Sets : t # s => clean'[t] = clean[t] /\ frag'[t] = frag[t]
  BY <1>r, <1>1, <1>2, <1>4 DEF AddLast, AddMore, AddTruncated, Key
<1>8. \A i \in 1..Len(batch') :
        clean'[batch'[i].set] => Holds(batch[i].set, batch[i].data.id, batch[i].data.part - 1)'
  <2> SUFFICES ASSUME NEW i \in 1..Len(batch'), clean'[batch'[i].set]
               PROVE  Holds(batch[i].set, batch[i].data.id, batch[i].data.part - 1)'
    OBVIOUS
  <2>0. PICK q : q = batch[i + 1]
    OBVIOUS
  <2>1. i + 1 \in 1..Len(batch) /\ batch'[i] = q /\ q \in Report /\ q.set \in Sets /\ q.set # s
    <3>1. i + 1 \in 1..Len(batch) /\ batch'[i] = q /\ batch'[i].set # s
      BY <1>1, <1>3, <2>0
    <3>2. q \in Report
      BY <2>0, <3>1 DEF Types
    <3>3. QED
      BY <3>1, <3>2 DEF Report
  <2>2. frag'[q.set] = frag[q.set] /\ clean[q.set]
    BY <1>7, <2>1
  <2>3. Holds(q.set, q.data.id, q.data.part - 1)
    BY <2>0, <2>1, <2>2 DEF WholeInv
  <2>4. QED
    BY <2>1, <2>2, <2>3 DEF Holds
<1>9. \A t \in Sets : t # s /\ ~Waiting(t)' => ~Waiting(t)
  <2> SUFFICES ASSUME NEW t \in Sets, t # s, NEW i \in 1..Len(batch), batch[i].set = t
               PROVE  \E j \in 1..Len(batch') : batch'[j].set = t
    BY DEF Waiting
  <2>1. i # 1
    BY <1>r
  <2>2. i - 1 \in 1..Len(batch') /\ batch'[i - 1] = batch[(i - 1) + 1] /\ (i - 1) + 1 = i
    BY <1>1, <2>1
  <2>3. QED
    BY <2>2
<1>10. ASSUME NEW t \in Sets, t # s, ~Waiting(t)', clean'[t]
       PROVE  Holds(t, air[t].id, air[t].next - 1)'
  <2>1. Holds(t, air[t].id, air[t].next - 1) /\ frag'[t] = frag[t]
    BY <1>7, <1>9, <1>10 DEF WholeInv
  <2>2. QED
    BY <1>1, <2>1 DEF Holds
<1>11. clean'[s] => Holds(s, air[s].id, air[s].next - 1)'
  <2> SUFFICES ASSUME clean'[s] PROVE Holds(s, air[s].id, air[s].next - 1)'
    OBVIOUS
  <2>1. CASE AddLast(r) \/ AddTruncated(r)
    <3>1. frag'[s] = <<>> /\ air'[s].next = 1
      BY <1>r, <1>1, <1>2, <1>3, <2>1 DEF AddLast, AddTruncated, Key, Sent
    <3>2. Len(frag'[s]) = 0 /\ air'[s].next - 1 = 0 /\ 1..0 = {}
      BY <3>1
    <3>3. QED
      BY <3>2 DEF Holds
  <2>2. CASE AddMore(r)
    <3>1. /\ r.status = 1 /\ clean[s] /\ Holds(s, r.data.id, r.data.part - 1)
          /\ air'[s].id = r.data.id /\ air'[s].next = r.data.part + 1
      BY <1>r, <1>1, <1>3, <2>2 DEF AddMore, Sent
    <3>2. Room(s)
      <4>1. s.sid \in Sids
        BY <1>1 DEF Sets
      <4>2. (r.data.part - 1) * PartSize + PartSize <= Capacity
        BY <1>2, <3>1, <4>1, PartFits
      <4>3. QED
        BY <3>1, <4>2 DEF Room, Holds
    <3>3. frag'[s] = Append(frag[s], r.data)
      BY <1>r, <1>1, <1>2, <2>2, <3>2 DEF AddMore, Key
    <3>4. /\ frag[s] \in Seq(Part) /\ Len(frag[s]) = r.data.part - 1
          /\ \A i \in 1..(r.data.part - 1) : frag[s][i] = [id |-> r.data.id, part |-> i]
      BY <1>1, <1>2, <3>1 DEF Holds
    <3>5. /\ frag'[s] = [i \in 1..r.data.part |-> [id |-> r.data.id, part |-> i]]
          /\ Len(frag'[s]) = r.data.part
      <4>1. r.data \in Part
        BY <1>1
      <4>2. /\ Append(frag[s], r.data) = [i \in 1..r.data.part |-> [id |-> r.data.id, part |-> i]]
            /\ Len(Append(frag[s], r.data)) = r.data.part
        BY <3>4, <4>1, AppendPart
      <4>3. QED
        BY <3>3, <4>2
    <3>6. air'[s].next - 1 = r.data.part
      BY <1>2, <3>1
    <3>7. \A i \in 1..r.data.part : frag'[s][i] = [id |-> air'[s].id, part |-> i]
      BY <3>1, <3>5
    <3>8. QED
      BY <3>5, <3>6, <3>7 DEF Holds
  <2>3. QED
    BY <1>4, <2>1, <2>2
<1>12. WholeUnlessLost'
  <2>1. CASE AddLast(r)
    <3>1. out' = [set |-> s, clean |-> clean[s], data |-> Append(frag[s], r.data)]
      BY <1>r, <2>1 DEF AddLast, Key
    <3>2. CASE clean[s]
      <4>1. /\ frag[s] \in Seq(Part) /\ Len(frag[s]) = r.data.part - 1
            /\ \A i \in 1..(r.data.part - 1) : frag[s][i] = [id |-> r.data.id, part |-> i]
        BY <1>1, <1>2, <1>3, <3>2 DEF Holds
      <4>2. /\ out'.data = [i \in 1..r.data.part |-> [id |-> r.data.id, part |-> i]]
            /\ Len(out'.data) = r.data.part
        <5>1. r.data \in Part
          BY <1>1
        <5>2. /\ Append(frag[s], r.data) = [i \in 1..r.data.part |-> [id |-> r.data.id, part |-> i]]
              /\ Len(Append(frag[s], r.data)) = r.data.part
          BY <4>1, <5>1, AppendPart
        <5>3. QED
          BY <3>1, <5>2
      <4>3. out'.data[Len(out'.data)] = [id |-> r.data.id, part |-> r.data.part]
        BY <1>2, <4>2
      <4>4. /\ out'.data[Len(out'.data)].id = r.data.id
            /\ out'.data[Len(out'.data)].part = r.data.part
        BY <4>3
      <4>5. out'.data = [i \in 1..out'.data[Len(out'.data)].part |->
                           [id |-> out'.data[Len(out'.data)].id, part |-> i]]
        BY <4>2, <4>4
      <4>6. QED
        BY <4>5 DEF WholeUnlessLost
    <3>3. CASE ~clean[s]
      BY <3>1, <3>3 DEF WholeUnlessLost
    <3>4. QED
      BY <3>2, <3>3
  <2>2. CASE AddMore(r) \/ AddTruncated(r)
    BY <2>2 DEF AddMore, AddTruncated, WholeUnlessLost
  <2>3. QED
    BY <1>4, <2>1, <2>2
<1>13. \A t \in Sets : ~Waiting(t)' /\ clean'[t] => Holds(t, air[t].id, air[t].next - 1)'
  <2> SUFFICES ASSUME NEW t \in Sets, ~Waiting(t)', clean'[t]
               PROVE  Holds(t, air[t].id, air[t].next - 1)'
    OBVIOUS
  <2>1. CASE t = s
    BY <1>11, <2>1 DEF Holds
  <2>2. CASE t # s
    BY <1>10, <2>2
  <2>3. QED
    BY <2>1, <2>2
<1>14. QED
  BY <1>5, <1>6, <1>8, <1>12, <1>13 DEF WholeInv

LEMMA SessionWhole ==
  ASSUME Types, WholeInv, Session
  PROVE  WholeInv'
<1>1. /\ batch' = <<>> /\ Len(batch') = 0 /\ 1..0 = {}
      /\ out' = Nothing /\ air' = air
      /\ \A s \in Sets : frag'[s] = <<>> /\ (clean'[s] => air[s].next = 1)
  <2>1. /\ batch' = <<>> /\ out' = Nothing /\ air' = air
        /\ \A s \in Sets : frag'[s] = <<>> /\ (clean'[s] => air[s].next = 1)
    BY DEF Session
  <2>2. QED
    BY <2>1
<1>2. ASSUME NEW s \in Sets, clean'[s]
      PROVE  Holds(s, air[s].id, air[s].next - 1)'
  <2>1. Len(frag'[s]) = 0 /\ air'[s].next - 1 = 0
    BY <1>1, <1>2
  <2>2. QED
    BY <1>1, <2>1 DEF Holds
<1>3. QED
  BY <1>1, <1>2 DEF WholeInv, WholeUnlessLost

LEMMA InitWhole == Init => WholeInv
<1> SUFFICES ASSUME Init PROVE WholeInv
  OBVIOUS
<1>1. batch = <<>> /\ Len(batch) = 0 /\ 1..0 = {} /\ out = Nothing
  BY DEF Init
<1>2. ASSUME NEW s \in Sets
      PROVE  Holds(s, air[s].id, air[s].next - 1)
  <2>1. air[s].next = 1 /\ frag[s] = <<>>
    BY DEF Init, Advertisement
  <2>2. Len(frag[s]) = 0 /\ air[s].next - 1 = 0
    BY <2>1
  <2>3. QED
    BY <1>1, <2>2 DEF Holds
<1>3. QED
  BY <1>1, <1>2 DEF WholeInv, WholeUnlessLost

LEMMA WholeStep ==
  ASSUME PartsFit, Types, WholeInv, [Next]_vars
  PROVE  WholeInv'
<1>1. CASE Events
  BY <1>1, EventsWhole
<1>2. CASE Add
  BY <1>2, AddWhole
<1>3. CASE Session
  BY <1>3, SessionWhole
<1>4. CASE UNCHANGED vars
  BY <1>4 DEF vars, WholeInv, WholeUnlessLost, Waiting, Holds, Sent
<1>5. QED
  BY <1>1, <1>2, <1>3, <1>4 DEF Next

\* WholeUnlessLost: fragments.add hands on whole advertisements, provided the parts
\* before the last of one fit within its limit, as they do in the 1650 bytes of the
\* longest the standard allows.
THEOREM WholeHolds == PartsFit => (Spec => []WholeUnlessLost)
<1> SUFFICES ASSUME PartsFit PROVE Spec => []WholeUnlessLost
  OBVIOUS
<1>1. Types /\ WholeInv /\ [Next]_vars => WholeInv'
  BY WholeStep
<1>2. WholeInv => WholeUnlessLost
  BY DEF WholeInv
<1>3. QED
  BY <1>1, <1>2, InitWhole, TypesHold, PTL DEF Spec
=============================================================================
