----------------------------- MODULE HciPackets -----------------------------
(***************************************************************************)
(* From the advertising reports of the controller to the data the session  *)
(* looks at: parseAdvReports, parseExtAdvReports and fragments.add of      *)
(* src/src/ble/hci_parse.go, in the read loop of runHCISession.            *)
(*                                                                         *)
(* An advertisement is sent in parts, one for each report; the reports of  *)
(* an event are parsed up to the first that is cut off and then added one  *)
(* after the other.  Reports may be cut off or lost at any moment: the     *)
(* kernel drops events when the session does not read for a while.         *)
(***************************************************************************)
EXTENDS Integers, Sequences, SequencesExt

CONSTANTS
  Addrs,    \* addresses
  Sids,     \* advertising set ids
  PartSize, \* bytes of data in a report
  Capacity, \* the 1650 bytes that may be held
  PartsOf,  \* bound: reports for an advertisement of each set id
  IdMax     \* bound: advertisements of a set are numbered modulo IdMax + 1

ASSUME PacketAssumption ==
  /\ PartSize \in Nat \ {0} /\ Capacity \in Nat
  /\ PartsOf \in [Sids -> Nat \ {0}] /\ IdMax \in Nat \ {0}

Sets == [addr : Addrs, sid : Sids]

\* The part-th report of the id-th advertisement.
Part == [id : 0..IdMax, part : Nat \ {0}]

\* status: 0, complete; 1, more follows; 2, truncated by the controller.
Report == [set : Sets, data : Part, status : 0..2]

VARIABLES
  ext,    \* the session scans extended
  air,    \* of each set: the advertisement being sent and its next part
  batch,  \* parsed reports not yet added
  frag,   \* the map: what is held for a key
  clean,  \* history: no report of the advertisement, or held with it, was lost
  out,    \* what the last report made complete
  parsed  \* history: how many reports of the last event were whole, and were parsed

vars == <<ext, air, batch, frag, clean, out, parsed>>

NoReports == [whole |-> 0, kept |-> 0]

Nothing == [set |-> "none"]

\* The key "address/set id".  Mutant: the address only.
Key_Addr(s) == [addr |-> s.addr, sid |-> CHOOSE sid \in Sids : TRUE]

Key(s) == s
-----------------------------------------------------------------------------
(* The layout of an event: 4 bytes, then the reports.                      *)

\* The bytes of a legacy report but for its data are 9 before it and the RSSI after
\* it; those of an extended report are 24 before it.
Before == IF ext THEN 24 ELSE 9
After == IF ext THEN 0 ELSE 1

\* p, as the i-th report is looked at.
Offset(i) == 4 + (i - 1) * (Before + PartSize + After)

\* Mutant: the RSSI is not counted.
Fits_NoRSSI(i, total) == Offset(i) + Before <= total /\ Offset(i) + Before + PartSize <= total

\* Neither "truncated report" nor "truncated data".
Fits(i, total) ==
  /\ Offset(i) + Before <= total
  /\ Offset(i) + Before + PartSize + After <= total

\* Parsing stops at the first report that does not fit; out keeps those before.
Parsed(n, total) ==
  CHOOSE k \in 0..n :
    (\A i \in 1..k : Fits(i, total)) /\ (k < n => ~Fits(k + 1, total))

\* What Parsed is to be: the reports that end within the event.
Whole(n, total) ==
  CHOOSE k \in 0..n :
    /\ 4 + k * (Before + PartSize + After) <= total \/ k = 0
    /\ k < n => total < 4 + (k + 1) * (Before + PartSize + After)
-----------------------------------------------------------------------------
(* The sets and the controller.                                            *)

\* A legacy advertisement fits in one report.
Advertisement(s, id) ==
  [id : {id}, size : IF ext THEN 1..PartsOf[s.sid] ELSE {1}, next : {1}]

Init ==
  /\ ext \in BOOLEAN
  /\ air \in [Sets -> UNION {Advertisement(s, 0) : s \in Sets}]
  /\ \A s \in Sets : air[s] \in Advertisement(s, 0)
  /\ batch = <<>> /\ frag = [s \in Sets |-> <<>>]
  /\ clean = [s \in Sets |-> TRUE]
  /\ out = Nothing /\ parsed = NoReports

\* The report of a set's next part; the controller may truncate the advertisement
\* where more should follow.
Reports(s) ==
  [set : {s}, data : {[id |-> air[s].id, part |-> air[s].next]},
   status : IF air[s].next = air[s].size THEN {0} ELSE {1, 2}]

\* What the set sends next.
Following(r) ==
  LET a == air[r.set] IN
    IF r.status = 1 THEN {[a EXCEPT !.next = @ + 1]}
                    ELSE Advertisement(r.set, (a.id + 1) % (IdMax + 1))

\* An event of one report or two, of which total bytes are read.
Event(rs, total) ==
  /\ batch = <<>>
  /\ \A i, j \in DOMAIN rs : i # j => rs[i].set # rs[j].set
  /\ LET kept == Parsed(Len(rs), total)
         lost == {rs[i] : i \in (kept + 1)..Len(rs)}
     IN  /\ batch' = SubSeq(rs, 1, kept)
         /\ parsed' = [whole |-> Whole(Len(rs), total), kept |-> kept]
         \* An advertisement in one report leaves nothing behind when it is lost.
         /\ clean' = [s \in Sets |->
              clean[s] /\ \A r \in lost : r.set = s => r.data.part = 1 /\ r.status = 0]
  /\ \E next \in [ToSet(rs) -> UNION {Following(r) : r \in ToSet(rs)}] :
       /\ \A r \in ToSet(rs) : next[r] \in Following(r)
       /\ air' = [s \in Sets |->
            IF \E r \in ToSet(rs) : r.set = s
              THEN next[CHOOSE r \in ToSet(rs) : r.set = s] ELSE air[s]]
  /\ out' = Nothing
  /\ UNCHANGED <<ext, frag>>

\* The event is cut in the header of a report, at its last byte, or not at all.
Totals == {Offset(2) - PartSize - After - 1} \cup {Offset(i) + d : i \in 2..3, d \in {-1, 0}}

Events ==
  \E s, t \in Sets : \E r \in Reports(s), q \in Reports(t) : \E total \in Totals :
    Event(IF s = t THEN <<r>> ELSE <<r, q>>, total)
-----------------------------------------------------------------------------
(* fragments.add.                                                          *)

\* Mutant: the limit is looked at before the data are added.
Room_Before(k) == Len(frag[k]) * PartSize <= Capacity

Room(k) == Len(frag[k]) * PartSize + PartSize <= Capacity

AddLast(r) ==
  /\ r.status = 0
  /\ out' = [set |-> r.set, clean |-> clean[r.set], data |-> Append(frag[Key(r.set)], r.data)]
  /\ frag' = [frag EXCEPT ![Key(r.set)] = <<>>]
  /\ clean' = [clean EXCEPT ![r.set] = TRUE]

AddMore(r) ==
  /\ r.status = 1
  /\ frag' = IF Room(Key(r.set))
               THEN [frag EXCEPT ![Key(r.set)] = Append(@, r.data)] ELSE frag
  /\ out' = Nothing
  /\ UNCHANGED clean

AddTruncated(r) ==
  /\ r.status = 2
  /\ frag' = [frag EXCEPT ![Key(r.set)] = <<>>]
  /\ out' = Nothing
  /\ clean' = [clean EXCEPT ![r.set] = TRUE]

Add ==
  /\ batch # <<>>
  /\ batch' = Tail(batch) /\ parsed' = NoReports
  /\ AddLast(Head(batch)) \/ AddMore(Head(batch)) \/ AddTruncated(Head(batch))
  /\ UNCHANGED <<ext, air>>

\* A new session begins with an empty map, possibly in the middle of an
\* advertisement.
Session ==
  /\ batch = <<>>
  /\ frag' = [s \in Sets |-> <<>>]
  /\ clean' = [s \in Sets |-> air[s].next = 1]
  /\ out' = Nothing /\ parsed' = NoReports
  /\ UNCHANGED <<ext, air, batch>>

Next == Events \/ Add \/ Session

Spec == Init /\ [][Next]_vars
-----------------------------------------------------------------------------
Output == [set : Sets, clean : BOOLEAN, data : Seq(Part)]

\* Every variable holds what the code can store in it; the last report of an
\* advertisement is never held.  However many reports are lost, no more than the
\* capacity is held for a key, and one report beyond it is handed on.
TypeOK ==
  /\ ext \in BOOLEAN
  /\ air \in [Sets -> [id : 0..IdMax, size : Nat, next : Nat \ {0}]]
  /\ batch \in Seq(Report)
  /\ frag \in [Sets -> Seq(Part)]
  /\ \A s \in Sets : \A i \in DOMAIN frag[s] : frag[s][i].part < PartsOf[s.sid]
  /\ \A s \in Sets : Len(frag[s]) * PartSize <= Capacity
  /\ clean \in [Sets -> BOOLEAN]
  /\ out # Nothing => out \in Output /\ Len(out.data) * PartSize <= Capacity + PartSize
  /\ parsed.whole \in 0..2 /\ parsed.kept \in 0..2

\* Data that are handed on are those of one advertisement, from its first byte to
\* its last, unless a report of it was lost, or one of an earlier advertisement
\* whose beginning was still held.  A complete or truncated report ends the damage.
WholeUnlessLost ==
  out # Nothing /\ out.clean =>
    LET last == out.data[Len(out.data)] IN
      out.data = [i \in 1..last.part |-> [id |-> last.id, part |-> i]]

\* An event that is cut short costs the reports it cuts and no other; no byte beyond
\* the event is read.
CutCostsOnlyTheCut == parsed.kept = parsed.whole
=============================================================================
