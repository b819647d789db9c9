---------------------------- MODULE CommitProofs ----------------------------
(***************************************************************************)
(* What holds of any log that verifies, whatever was planned and handed    *)
(* in: no head comes twice, no two effects share an id, what was admitted  *)
(* was planned; and of any request: both planners answer it alike, with a  *)
(* plan that validates.                                                    *)
(*                                                                         *)
(* For the first two the invariant is only that the log verifies.  The     *)
(* rest follows from what a hash is: the hash of a record determines the   *)
(* record, the record its predecessor's hash, and so on back to the empty  *)
(* root; and a commit root determines what was asked for.                  *)
(***************************************************************************)
EXTENDS Planning, FiniteSetTheorems, WellFoundedInduction, TLAPS

-----------------------------------------------------------------------------
(* One record. *)

\* A valid commit record is the derivation of its own contents.
LEMMA DerivedCommit ==
    ASSUME NEW record, NEW legacy, ValidRecord(record, legacy)
    PROVE  /\ IsCommit(record)
           /\ ValidRecord(record, TRUE)
           /\ record = Sealed(RecordCore(record.core.receipt.version, ContentsOf(record.core)))
<1>1. record = Sealed(RecordCore(record.core.receipt.version, ContentsOf(record.core)))
  BY DEF ValidRecord
<1>2. record.core = RecordCore(record.core.receipt.version, ContentsOf(record.core))
  BY <1>1 DEF Sealed
<1>3. "receipt" \in DOMAIN record.core
  BY <1>2 DEF RecordCore
<1>4. ValidRecord(record, TRUE)
  BY DEF ValidRecord
<1> QED
  BY <1>1, <1>3, <1>4 DEF IsCommit

\* The hash of a record that verifies is the hash of something that names its
\* predecessor.
LEMMA HashNamesPrevious ==
    ASSUME NEW record, NEW head, Verifies(record, head)
    PROVE  \E domain, value : /\ record.record_hash = <<domain, value>>
                              /\ value.prev_record_hash = head
<1>1. CASE IsCommit(record)
  <2>1. ValidRecord(record, TRUE) /\ record.core.prev_record_hash = head
    BY <1>1 DEF Verifies
  <2>2. record = Sealed(RecordCore(record.core.receipt.version, ContentsOf(record.core)))
    BY <2>1, DerivedCommit
  <2>3. record.record_hash = <<<<"log-record", 2>>, record.core>>
    BY <2>2 DEF Sealed, Hash
  <2> QED
    BY <2>1, <2>3
<1>2. CASE ~IsCommit(record)
  <2>1. record = Note(record.core.note, head)
    BY <1>2 DEF Verifies
  <2>2. record.record_hash =
            <<<<"log-record", 1>>, [note |-> record.core.note, prev_record_hash |-> head]>>
    BY <2>1 DEF Note, Hash
  <2> QED
    BY <2>2
<1> QED
  BY <1>1, <1>2

-----------------------------------------------------------------------------
(* A log that verifies. *)

\* Of two equal heads take the first place where one of them occurs: it is not the
\* start, for the empty root is no hash, and the heads before the two are equal too.
LEMMA VerifiedHeadsDiffer ==
    ASSUME NEW S, NEW records \in Seq(S), Verified(records)
    PROVE  \A i, j \in 0..Len(records) : HeadAt(records, i) = HeadAt(records, j) => i = j
<1> DEFINE n == Len(records)
           Twice == {i \in 0..n : \E j \in 0..n : i # j /\ HeadAt(records, i) = HeadAt(records, j)}
<1>1. n \in Nat /\ DOMAIN records = 1..n
  OBVIOUS
<1>2. ASSUME NEW i \in 1..n
      PROVE  \E domain, value : /\ HeadAt(records, i) = <<domain, value>>
                                /\ value.prev_record_hash = HeadAt(records, i - 1)
  <2>1. Verifies(records[i], HeadAt(records, i - 1))
    BY <1>1, <1>2 DEF Verified
  <2>2. HeadAt(records, i) = records[i].record_hash
    BY <1>1, <1>2 DEF HeadAt
  <2> QED
    BY <2>1, <2>2, HashNamesPrevious
<1>3. HeadAt(records, 0) = <<>>
  BY DEF HeadAt, NoRoot
<1>4. ASSUME Twice # {} PROVE FALSE
  <2>1. PICK i \in Twice : \A k \in Twice : ~(k < i)
    <3> DEFINE Less == {ss \in Nat \X Nat : ss[1] < ss[2]}
    <3>1. IsWellFoundedOn(Less, Nat)
      BY NatLessThanWellFounded, Zenon DEF OpToRel
    <3>2. Twice \subseteq Nat
      BY <1>1
    <3> HIDE DEF Less, Twice
    <3>3. PICK i \in Twice : \A k \in Twice : ~(<<k, i>> \in Less)
      BY <1>4, <3>1, <3>2, WFMin
    <3>4. ASSUME NEW k \in Twice, k < i PROVE FALSE
      <4>1. <<k, i>> \in Less
        BY <3>2, <3>3, <3>4 DEF Less
      <4> QED
        BY <3>3, <3>4, <4>1
    <3> QED
      BY <3>3, <3>4
  <2>2. PICK j \in 0..n : i # j /\ HeadAt(records, i) = HeadAt(records, j)
    BY DEF Twice
  <2>3. i \in 0..n /\ j \in Twice
    BY <2>2 DEF Twice
  <2>4. i < j
    BY <1>1, <2>1, <2>2, <2>3
  <2>5. j \in 1..n /\ j - 1 \in 0..n
    BY <1>1, <2>3, <2>4
  <2>6. PICK d, v : HeadAt(records, j) = <<d, v>> /\ v.prev_record_hash = HeadAt(records, j - 1)
    BY <1>2, <2>5
  <2>7. i # 0
    <3>1. Len(<<>>) = 0 /\ Len(<<d, v>>) = 2
      OBVIOUS
    <3>2. <<>> # <<d, v>>
      BY <3>1
    <3> QED
      BY <1>3, <2>2, <2>6, <3>2
  <2>8. i \in 1..n /\ i - 1 \in 0..n
    BY <1>1, <2>3, <2>7
  <2>9. PICK e, w : HeadAt(records, i) = <<e, w>> /\ w.prev_record_hash = HeadAt(records, i - 1)
    BY <1>2, <2>8
  <2>10. v = w
    BY <2>2, <2>6, <2>9
  <2>11. HeadAt(records, i - 1) = HeadAt(records, j - 1)
    BY <2>6, <2>9, <2>10
  <2>12. i - 1 \in Twice /\ i - 1 < i
    BY <1>1, <2>4, <2>5, <2>8, <2>11 DEF Twice
  <2> QED
    BY <2>1, <2>12
<1> QED
  BY <1>4

\* An effect id determines its commit's predecessor and its place in the commit.
LEMMA EffectNamesCommit ==
    ASSUME NEW version, NEW c, NEW i, NEW other, NEW d, NEW j,
           EffectId(version, c, i) = EffectId(other, d, j)
    PROVE  c.expected_head = d.expected_head /\ i = j
<1> DEFINE This == [replay_id |-> ReplayId(version, c), index |-> i, intent |-> c.outbox[i]]
           That == [replay_id |-> ReplayId(other, d), index |-> j, intent |-> d.outbox[j]]
<1>1. <<<<"outbox-effect-id", version>>, This>> = <<<<"outbox-effect-id", other>>, That>>
  BY DEF EffectId, Hash
<1>2. This = That
  BY <1>1
<1>3. ReplayId(version, c) = ReplayId(other, d) /\ i = j
  <2>1. This.replay_id = That.replay_id /\ This.index = That.index
    BY <1>2
  <2> QED
    BY <2>1
<1> DEFINE One == [pre_state_root |-> c.expected_head, command_hash |-> CommandHash(version, c)]
           Two == [pre_state_root |-> d.expected_head, command_hash |-> CommandHash(other, d)]
<1>4. <<<<"replay-id", version>>, One>> = <<<<"replay-id", other>>, Two>>
  BY <1>3 DEF ReplayId, Hash
<1>5. One = Two
  BY <1>4
<1>6. One.pre_state_root = Two.pre_state_root
  BY <1>5
<1> QED
  BY <1>3, <1>6

\* The effect rows of a record in the log are those of its own contents.
LEMMA EffectRowsDerived ==
    ASSUME NEW records, Verified(records), NEW i \in DOMAIN records, IsCommit(records[i]),
           NEW m \in DOMAIN records[i].core.outbox
    PROVE  \E version, c :
               /\ c.expected_head = HeadAt(records, i - 1)
               /\ records[i].core.outbox[m].effect_id = EffectId(version, c, m)
<1> DEFINE core == records[i].core
           c == ContentsOf(core)
           version == core.receipt.version
<1>1. Verifies(records[i], HeadAt(records, i - 1))
  BY DEF Verified
<1>2. ValidRecord(records[i], TRUE) /\ core.prev_record_hash = HeadAt(records, i - 1)
  BY <1>1 DEF Verifies
<1>3. records[i] = Sealed(RecordCore(version, c))
  BY <1>2, DerivedCommit
<1>4. core = RecordCore(version, c)
  <2> HIDE DEF c, version
  <2> QED
    BY <1>3 DEF Sealed
<1>5. core.outbox = EffectRows(version, c)
  <2> HIDE DEF c, version, core
  <2> QED
    BY <1>4 DEF RecordCore
<1>6. core.outbox[m].effect_id = EffectId(version, c, m)
  <2> HIDE DEF c, version
  <2>1. m \in DOMAIN EffectRows(version, c)
    BY <1>5
  <2>2. m \in DOMAIN c.outbox
    BY <2>1 DEF EffectRows
  <2>3. EffectRows(version, c)[m] = [effect_id |-> EffectId(version, c, m), intent |-> c.outbox[m]]
    BY <2>2 DEF EffectRows
  <2> QED
    BY <1>5, <2>3
<1>7. c.expected_head = HeadAt(records, i - 1)
  <2>1. c.expected_head = core.prev_record_hash
    BY DEF ContentsOf
  <2> QED
    BY <1>2, <2>1
<1> QED
  BY <1>6, <1>7

\* Equal effect ids come from equal predecessors, and of a predecessor there is only
\* one successor.
LEMMA VerifiedEffectsDiffer ==
    ASSUME NEW S, log \in Seq(S), Verified(log)
    PROVE  EffectIdsUnique
<1> SUFFICES ASSUME NEW i \in Commits, NEW j \in Commits,
                    NEW m \in DOMAIN log[i].core.outbox, NEW n \in DOMAIN log[j].core.outbox,
                    log[i].core.outbox[m].effect_id = log[j].core.outbox[n].effect_id
             PROVE  i = j /\ m = n
  BY DEF EffectIdsUnique
<1>1. i \in DOMAIN log /\ IsCommit(log[i]) /\ j \in DOMAIN log /\ IsCommit(log[j])
  BY DEF Commits
<1>2. PICK version, c : /\ c.expected_head = HeadAt(log, i - 1)
                        /\ log[i].core.outbox[m].effect_id = EffectId(version, c, m)
  BY <1>1, EffectRowsDerived
<1>3. PICK other, d : /\ d.expected_head = HeadAt(log, j - 1)
                      /\ log[j].core.outbox[n].effect_id = EffectId(other, d, n)
  BY <1>1, EffectRowsDerived
<1>4. EffectId(version, c, m) = EffectId(other, d, n)
  BY <1>2, <1>3
<1>5. c.expected_head = d.expected_head /\ m = n
  BY <1>4, EffectNamesCommit
<1>6. HeadAt(log, i - 1) = HeadAt(log, j - 1)
  BY <1>2, <1>3, <1>5
<1>7. i - 1 \in 0..Len(log) /\ j - 1 \in 0..Len(log) /\ i \in Nat /\ j \in Nat
  BY <1>1
<1>8. \A a, b \in 0..Len(log) : HeadAt(log, a) = HeadAt(log, b) => a = b
  BY VerifiedHeadsDiffer
<1> QED
  BY <1>5, <1>6, <1>7, <1>8

-----------------------------------------------------------------------------
(* The log verifies, always. *)

IsLog == \E S : log \in Seq(S)

CInv == IsLog /\ Verified(log)

\* What is put at the end of a log that verifies must verify on its head.
LEMMA AppendVerifies ==
    ASSUME CInv, NEW record, Verifies(record, CurrentHead), log' = Append(log, record)
    PROVE  CInv'
<1>1. PICK S : log \in Seq(S)
  BY DEF CInv, IsLog
<1>2. Verified(log)
  BY DEF CInv
<1>3. log' \in Seq(S \cup {record})
  BY <1>1
<1>4. /\ Len(log) \in Nat /\ DOMAIN log = 1..Len(log)
      /\ DOMAIN log' = 1..(Len(log) + 1) /\ log'[Len(log) + 1] = record
      /\ \A i \in 1..Len(log) : log'[i] = log[i]
  BY <1>1
<1>5. \A i \in 0..Len(log) : HeadAt(log', i) = HeadAt(log, i)
  BY <1>4 DEF HeadAt
<1>6. ASSUME NEW i \in DOMAIN log' PROVE Verifies(log'[i], HeadAt(log', i - 1))
  <2>1. CASE i \in 1..Len(log)
    <3>1. Verifies(log[i], HeadAt(log, i - 1))
      BY <1>2, <1>4, <2>1 DEF Verified
    <3>2. log'[i] = log[i] /\ HeadAt(log', i - 1) = HeadAt(log, i - 1)
      BY <1>4, <1>5, <2>1
    <3> QED
      BY <3>1, <3>2
  <2>2. CASE i = Len(log) + 1
    <3>1. log'[i] = record /\ HeadAt(log', i - 1) = CurrentHead
      BY <1>4, <1>5, <2>2 DEF CurrentHead
    <3> QED
      BY <3>1
  <2> QED
    BY <1>4, <1>6, <2>1, <2>2
<1>7. Verified(log)'
  BY <1>6 DEF Verified
<1> QED
  BY <1>3, <1>7 DEF CInv, IsLog

LEMMA InitCInv == Init => CInv
<1> SUFFICES ASSUME Init PROVE CInv
  OBVIOUS
<1>1. log \in Seq({log[i] : i \in DOMAIN log}) /\ Verified(log)
  BY OldLogsAssumption DEF Init
<1> QED
  BY <1>1 DEF CInv, IsLog

LEMMA NextCInv == CInv /\ [Next]_vars => CInv'
<1> SUFFICES ASSUME CInv, [Next]_vars PROVE CInv'
  OBVIOUS
<1>1. ASSUME NEW request \in Requests, PlanCommitOn(request) PROVE CInv'
  <2>1. log' = log
    BY <1>1 DEF PlanCommitOn
  <2> QED
    BY <2>1 DEF CInv, IsLog, Verified
<1>2. ASSUME NEW b \in BundlesOf(planned), AppendPrepared(b) PROVE CInv'
  <2>1. /\ ValidRecord(b.record, FALSE) /\ b.expected_head = b.record.core.prev_record_hash
        /\ b.expected_head = CurrentHead /\ log' = Append(log, b.record)
    BY <1>2 DEF AppendPrepared, ValidBundle
  <2>2. ValidRecord(b.record, TRUE) /\ IsCommit(b.record)
    BY <2>1, DerivedCommit
  <2>3. Verifies(b.record, CurrentHead)
    BY <2>1, <2>2 DEF Verifies
  <2> QED
    BY <2>1, <2>3, AppendVerifies
<1>3. ASSUME NEW note \in Notes, AppendNote(note) PROVE CInv'
  <2> DEFINE record == Note(note, CurrentHead)
  <2>1. log' = Append(log, record)
    BY <1>3 DEF AppendNote
  <2>2. record.core = [note |-> note, prev_record_hash |-> CurrentHead]
    BY DEF Note
  <2>3. record.core.note = note /\ record.core.prev_record_hash = CurrentHead /\ ~IsCommit(record)
    BY <2>2 DEF IsCommit
  <2>4. Verifies(record, CurrentHead)
    BY <2>3 DEF Verifies
  <2> QED
    BY <2>1, <2>4, AppendVerifies
<1>4. CASE UNCHANGED vars
  <2>1. log' = log
    BY <1>4 DEF vars
  <2> QED
    BY <2>1 DEF CInv, IsLog, Verified
<1> QED
  BY <1>1, <1>2, <1>3, <1>4 DEF Next

LEMMA AlwaysCInv == Spec => []CInv
  BY InitCInv, NextCInv, PTL DEF Spec

-----------------------------------------------------------------------------
(* Theorems. *)

\* Whatever is planned and handed in, the log verifies, also when the next append cannot
\* read it back (log.py:253-292).
THEOREM AlwaysReadable == Spec => []StaysReadable
<1>1. CInv => StaysReadable
  BY DEF CInv, StaysReadable
<1> QED
  BY <1>1, AlwaysCInv, PTL

\* A head that was replaced never becomes the head again (log.py:190-192).
THEOREM HeadsAreUnique == Spec => []HeadsNeverReturn
<1>1. CInv => HeadsNeverReturn
  BY VerifiedHeadsDiffer DEF CInv, IsLog, HeadsNeverReturn
<1> QED
  BY <1>1, AlwaysCInv, PTL

\* No two effects of a log share an id: pending_outbox never meets a conflicting one
\* (commit.py:298, core/outbox.py:158).
THEOREM EffectsAreUnique == Spec => []EffectIdsUnique
<1>1. CInv => EffectIdsUnique
  BY VerifiedEffectsDiffer DEF CInv, IsLog
<1> QED
  BY <1>1, AlwaysCInv, PTL

\* The log verifies at every moment, also when nothing more can be appended to it, and no
\* moment is ever its last record again (log.py:175-292).
THEOREM LogsHold == Spec => []LogHolds
  BY AlwaysReadable, HeadsAreUnique, PTL DEF LogHolds

-----------------------------------------------------------------------------
(* What the planner lets through. *)

Codes == {Ok, "INVALID_PRE_STATE_ROOT", "INVALID_CREATED_AT", "INVALID_EVIDENCE_ROOT",
          "INVALID_OBJECT", "INVALID_OBJECT_SCHEMA", "DUPLICATE_WRITE", "INVALID_MEDIA_TYPE",
          "INVALID_EFFECT"}

\* The first fault of a list of codes is a fault.
LEMMA FirstFaultIsOne ==
    ASSUME NEW defects \in Seq(Codes), Faults(defects) # {}
    PROVE  FirstFault(defects) # Ok
<1>1. PICK i \in Faults(defects) : \A k \in Faults(defects) : ~(k < i)
  <2> DEFINE Less == {ss \in Nat \X Nat : ss[1] < ss[2]}
  <2>1. IsWellFoundedOn(Less, Nat)
    BY NatLessThanWellFounded, Zenon DEF OpToRel
  <2>2. Faults(defects) \subseteq Nat
    BY DEF Faults
  <2> HIDE DEF Less
  <2>3. PICK i \in Faults(defects) : \A k \in Faults(defects) : ~(<<k, i>> \in Less)
    BY <2>1, <2>2, WFMin
  <2>4. ASSUME NEW k \in Faults(defects), k < i PROVE FALSE
    <3>1. <<k, i>> \in Less
      BY <2>2, <2>3, <2>4 DEF Less
    <3> QED
      BY <2>3, <2>4, <3>1
  <2> QED
    BY <2>3, <2>4
<1>2. Faults(defects) \subseteq Nat
  BY DEF Faults
<1>3. \A k \in Faults(defects) : i <= k
  BY <1>1, <1>2
<1> DEFINE first == CHOOSE j \in Faults(defects) : \A k \in Faults(defects) : j <= k
<1>4. first \in Faults(defects)
  BY <1>1, <1>3
<1> QED
  BY <1>4 DEF FirstFault, Faults

\* Where every code of four lists in a row is Ok, so is every code of each.
NoneWrong(s, a, b, c, d) ==
    /\ s \in Seq(Codes)
    /\ Faults(s) = {} => \A t \in {a, b, c, d} : \A i \in DOMAIN t : t[i] = Ok

LEMMA AllOk ==
    ASSUME NEW a \in Seq(Codes), NEW b \in Seq(Codes), NEW c \in Seq(Codes), NEW d \in Seq(Codes),
           NEW s, s = a \o b \o c \o d
    PROVE  NoneWrong(s, a, b, c, d)
<1>1. s \in Seq(Codes) /\ Len(s) = Len(a) + Len(b) + Len(c) + Len(d)
  OBVIOUS
<1>2. ASSUME Faults(s) = {} PROVE \A i \in 1..Len(s) : s[i] = Ok
  <2>1. DOMAIN s = 1..Len(s)
    BY <1>1
  <2> QED
    BY <1>2, <2>1 DEF Faults
<1>3. /\ \A i \in 1..Len(a) : s[i] = a[i] /\ i \in 1..Len(s)
      /\ \A i \in 1..Len(b) : s[Len(a) + i] = b[i] /\ Len(a) + i \in 1..Len(s)
      /\ \A i \in 1..Len(c) : s[Len(a) + Len(b) + i] = c[i] /\ Len(a) + Len(b) + i \in 1..Len(s)
      /\ \A i \in 1..Len(d) :
             /\ s[Len(a) + Len(b) + Len(c) + i] = d[i]
             /\ Len(a) + Len(b) + Len(c) + i \in 1..Len(s)
  OBVIOUS
<1>4. \A t \in {a, b, c, d} : DOMAIN t = 1..Len(t)
  OBVIOUS
<1>5. ASSUME Faults(s) = {}, NEW t \in {a, b, c, d}, NEW i \in DOMAIN t PROVE t[i] = Ok
  BY <1>2, <1>3, <1>4, <1>5
<1> QED
  BY <1>1, <1>5 DEF NoneWrong

Header(request) ==
    << IF ValidRoot(request.expected_head) THEN Ok ELSE "INVALID_PRE_STATE_ROOT",
       IF request.created_at # "" THEN Ok ELSE "INVALID_CREATED_AT",
       IF ValidRoot(request.evidence_root) THEN Ok ELSE "INVALID_EVIDENCE_ROOT" >>
OfObjects(request) == [i \in DOMAIN request.objects |-> ObjectDefect(request, i)]
OfBlobs(request) == [i \in DOMAIN request.blobs |-> BlobDefect(request, i)]
OfEffects(request) == [i \in DOMAIN request.outbox |-> EffectDefect(request, i)]

LEMMA DefectsAreCodes ==
    ASSUME NEW request, Requested(request)
    PROVE  /\ Header(request) \in Seq(Codes) /\ OfObjects(request) \in Seq(Codes)
           /\ OfBlobs(request) \in Seq(Codes) /\ OfEffects(request) \in Seq(Codes)
           /\ Defects(request) = Header(request) \o OfObjects(request) \o OfBlobs(request) \o OfEffects(request)
<1>1. Header(request) \in Seq(Codes)
  BY DEF Header, Codes
<1>2. OfObjects(request) \in Seq(Codes)
  <2>1. \A i : ObjectDefect(request, i) \in Codes
    BY DEF ObjectDefect, Codes
  <2>2. DOMAIN request.objects = 1..Len(request.objects) /\ Len(request.objects) \in Nat
    BY DEF Requested, ObjectRequests
  <2> QED
    BY <2>1, <2>2 DEF OfObjects
<1>3. OfBlobs(request) \in Seq(Codes)
  <2>1. \A i : BlobDefect(request, i) \in Codes
    BY DEF BlobDefect, Codes
  <2>2. DOMAIN request.blobs = 1..Len(request.blobs) /\ Len(request.blobs) \in Nat
    BY DEF Requested, BlobRequests
  <2> QED
    BY <2>1, <2>2 DEF OfBlobs
<1>4. OfEffects(request) \in Seq(Codes)
  <2>1. \A i : EffectDefect(request, i) \in Codes
    BY DEF EffectDefect, Codes
  <2>2. DOMAIN request.outbox = 1..Len(request.outbox) /\ Len(request.outbox) \in Nat
    BY DEF Requested, EffectRequests
  <2> QED
    BY <2>1, <2>2 DEF OfEffects
<1> QED
  BY <1>1, <1>2, <1>3, <1>4 DEF Defects, Header, OfObjects, OfBlobs, OfEffects

\* What is planned has nothing wrong with it, and its record is derived from what was asked for.
LEMMA NothingWrong ==
    ASSUME NEW request, Requested(request), PlanCommit(request).code = Ok
    PROVE  /\ PlanCommit(request) = Planned(Sealed(RecordCore(2, Contents(request))))
           /\ ValidRoot(request.expected_head) /\ ValidRoot(request.evidence_root)
           /\ request.created_at # "" /\ request.policy_version # "" /\ request.core_version # ""
           /\ \A i \in DOMAIN request.objects : ObjectDefect(request, i) = Ok
           /\ \A i \in DOMAIN request.blobs : BlobDefect(request, i) = Ok
           /\ \A i \in DOMAIN request.outbox : EffectDefect(request, i) = Ok
<1>0. /\ Header(request) \in Seq(Codes) /\ OfObjects(request) \in Seq(Codes)
      /\ OfBlobs(request) \in Seq(Codes) /\ OfEffects(request) \in Seq(Codes)
      /\ Defects(request) =
             Header(request) \o OfObjects(request) \o OfBlobs(request) \o OfEffects(request)
  BY DefectsAreCodes
<1>1. /\ Defects(request) \in Seq(Codes)
      /\ Faults(Defects(request)) = {} =>
             \A s \in {Header(request), OfObjects(request), OfBlobs(request), OfEffects(request)} :
                 \A i \in DOMAIN s : s[i] = Ok
  <2>1. NoneWrong(Defects(request), Header(request), OfObjects(request), OfBlobs(request),
                  OfEffects(request))
    BY <1>0, AllOk
  <2> QED
    BY <2>1 DEF NoneWrong
<1>2. Faults(Defects(request)) = {}
  <2> SUFFICES ASSUME Faults(Defects(request)) # {} PROVE FALSE
    OBVIOUS
  <2>1. PlanCommit(request) = Refused(FirstFault(Defects(request)))
    BY DEF PlanCommit
  <2>2. PlanCommit(request).code = FirstFault(Defects(request))
    BY <2>1 DEF Refused
  <2> QED
    BY <1>1, <2>2, FirstFaultIsOne
<1>3. "" \notin {request.policy_version, request.core_version}
  <2> SUFFICES ASSUME "" \in {request.policy_version, request.core_version} PROVE FALSE
    OBVIOUS
  <2>1. PlanCommit(request) = Refused("TypeError")
    BY <1>2 DEF PlanCommit
  <2>2. \A code : Refused(code).code = code
    BY DEF Refused
  <2>4. PlanCommit(request).code = "TypeError"
    BY <2>1, <2>2
  <2>3. "TypeError" # Ok
    BY DEF Ok
  <2> QED
    BY <2>3, <2>4
<1>4. \A s \in {Header(request), OfObjects(request), OfBlobs(request), OfEffects(request)} :
          \A i \in DOMAIN s : s[i] = Ok
  BY <1>1, <1>2
<1>5. ValidRoot(request.expected_head) /\ ValidRoot(request.evidence_root) /\ request.created_at # ""
  <2>1. Header(request)[1] = Ok /\ Header(request)[2] = Ok /\ Header(request)[3] = Ok
    <3>1. 1 \in DOMAIN Header(request) /\ 2 \in DOMAIN Header(request) /\ 3 \in DOMAIN Header(request)
      BY DEF Header
    <3> QED
      BY <1>4, <3>1
  <2> QED
    BY <2>1 DEF Header, Ok
<1>6. \A i \in DOMAIN request.objects : ObjectDefect(request, i) = Ok
  BY <1>4 DEF OfObjects
<1>7. \A i \in DOMAIN request.blobs : BlobDefect(request, i) = Ok
  BY <1>4 DEF OfBlobs
<1>8. \A i \in DOMAIN request.outbox : EffectDefect(request, i) = Ok
  BY <1>4 DEF OfEffects
<1>9. PlanCommit(request) = Planned(Sealed(RecordCore(2, Contents(request))))
  BY <1>2, <1>3 DEF PlanCommit
<1> QED
  BY <1>3, <1>5, <1>6, <1>7, <1>8, <1>9

-----------------------------------------------------------------------------
(* What is planned is valid. *)

\* A list without repetitions names as many things as it is long.
HasMembers(n, f) == LET S == {f[i] : i \in 1..n} IN IsFiniteSet(S) /\ Cardinality(S) = n

LEMMA Counted ==
    ASSUME NEW n \in Nat, NEW f, \A i, j \in 1..n : f[i] = f[j] => i = j
    PROVE  HasMembers(n, f)
<1> DEFINE S == {f[i] : i \in 1..n}
           g == [i \in 1..n |-> f[i]]
<1>1. g \in Bijection(1..n, S)
  <2>1. S = {g[i] : i \in 1..n} /\ g \in [1..n -> S] /\ \A i, j \in 1..n : g[i] = g[j] => i = j
    OBVIOUS
  <2> HIDE DEF g, S
  <2> QED
    BY <2>1 DEF Bijection, Injection, Surjection, IsInjective
<1>2. IsFiniteSet(1..n) /\ Cardinality(1..n) = n
  BY FS_Interval
<1> HIDE DEF g, S
<1>3. IsFiniteSet(S) /\ Cardinality(S) = Cardinality(1..n)
  BY <1>1, <1>2, FS_Bijection DEF ExistsBijection
<1> QED
  BY <1>2, <1>3 DEF S, HasMembers

\* No two payloads of a plan have a ref in common.
LEMMA RefsCounted ==
    ASSUME NEW request, Requested(request), PlanCommit(request).code = Ok
    PROVE  Cardinality(RefsOf(ObjectRows(request.objects)) \cup RefsOf(BlobRows(request.blobs))) =
               Len(request.objects) + Len(request.blobs)
<1> DEFINE m == Len(request.objects)
           n == Len(request.blobs)
           o == [i \in 1..m |-> Ref(request.objects[i].bytes)]
           b == [i \in 1..n |-> Ref(request.blobs[i].bytes)]
           O == {o[i] : i \in 1..m}
           B == {b[i] : i \in 1..n}
<1>1. m \in Nat /\ n \in Nat /\ DOMAIN request.objects = 1..m /\ DOMAIN request.blobs = 1..n
  BY DEF Requested, ObjectRequests, BlobRequests
<1>2. RefsOf(ObjectRows(request.objects)) = O /\ RefsOf(BlobRows(request.blobs)) = B
  BY <1>1 DEF RefsOf, ObjectRows, BlobRows
<1>3. \A x, y : Ref(x) = Ref(y) => x = y
  BY DEF Ref, Hash
<1>4. \A i \in 1..m : \A j \in 1..(i - 1) : request.objects[j].bytes # request.objects[i].bytes
  BY <1>1, NothingWrong DEF ObjectDefect, Ok
<1>5. /\ \A i \in 1..n : \A j \in 1..(i - 1) : request.blobs[j].bytes # request.blobs[i].bytes
      /\ \A i \in 1..n : \A j \in 1..m : request.objects[j].bytes # request.blobs[i].bytes
  BY <1>1, NothingWrong DEF BlobDefect, Ok
<1>6. \A i, j \in 1..m : o[i] = o[j] => i = j
  <2> SUFFICES ASSUME NEW i \in 1..m, NEW j \in 1..m, o[i] = o[j], i # j PROVE FALSE
    OBVIOUS
  <2>1. request.objects[i].bytes = request.objects[j].bytes
    BY <1>3
  <2>2. i \in 1..(j - 1) \/ j \in 1..(i - 1)
    BY <1>1
  <2> QED
    BY <1>4, <2>1, <2>2
<1>7. \A i, j \in 1..n : b[i] = b[j] => i = j
  <2> SUFFICES ASSUME NEW i \in 1..n, NEW j \in 1..n, b[i] = b[j], i # j PROVE FALSE
    OBVIOUS
  <2>1. request.blobs[i].bytes = request.blobs[j].bytes
    BY <1>3
  <2>2. i \in 1..(j - 1) \/ j \in 1..(i - 1)
    BY <1>1
  <2> QED
    BY <1>5, <2>1, <2>2
<1>8. O \cap B = {}
  BY <1>3, <1>5
<1> HIDE DEF m, n, o, b
<1>9. IsFiniteSet(O) /\ Cardinality(O) = m
  <2>1. HasMembers(m, o)
    BY <1>1, <1>6, Counted
  <2> QED
    BY <2>1 DEF HasMembers
<1>10. IsFiniteSet(B) /\ Cardinality(B) = n
  <2>1. HasMembers(n, b)
    BY <1>1, <1>7, Counted
  <2> QED
    BY <2>1 DEF HasMembers
<1> HIDE DEF O, B
<1>11. Cardinality(O \cup B) = Cardinality(O) + Cardinality(B) - Cardinality(O \cap B)
  BY <1>9, <1>10, FS_Union
<1>12. Cardinality(O \cap B) = 0
  BY <1>8, FS_EmptySet
<1> QED
  BY <1>1, <1>2, <1>9, <1>10, <1>11, <1>12 DEF m, n

\* The contents of the record that was derived from contents are these.
LEMMA ReadBack ==
    ASSUME NEW request
    PROVE  ContentsOf(RecordCore(2, Contents(request))) = Contents(request)
<1> DEFINE c == Contents(request)
           core == RecordCore(2, c)
<1>1. /\ core.prev_record_hash = c.expected_head /\ core.created_at = c.created_at
      /\ core.objects = c.objects /\ core.blobs = c.blobs /\ core.outbox = EffectRows(2, c)
      /\ core.receipt.evidence_root = c.evidence_root
      /\ core.receipt.policy_version = c.policy_version
      /\ core.receipt.core_version = c.core_version
  <2> HIDE DEF c
  <2> QED
    BY DEF RecordCore, Receipt
<1>2. [i \in DOMAIN core.outbox |-> core.outbox[i].intent] = c.outbox
  <2>1. c.outbox = [i \in DOMAIN c.outbox |-> c.outbox[i]]
    BY DEF Contents
  <2> HIDE DEF c, core
  <2>2. /\ DOMAIN core.outbox = DOMAIN c.outbox
        /\ \A i \in DOMAIN c.outbox : core.outbox[i].intent = c.outbox[i]
    BY <1>1 DEF EffectRows
  <2> QED
    BY <2>1, <2>2
<1>3. c = [expected_head |-> c.expected_head, created_at |-> c.created_at,
           evidence_root |-> c.evidence_root, objects |-> c.objects, blobs |-> c.blobs,
           outbox |-> c.outbox, policy_version |-> c.policy_version,
           core_version |-> c.core_version]
  BY DEF Contents
<1> HIDE DEF c, core
<1>4. ContentsOf(core) = c
  BY <1>1, <1>2, <1>3 DEF ContentsOf
<1> QED
  BY <1>4 DEF core, c

\* What is planned is what validate_commit_bundle derives again.
LEMMA PlansAreValid ==
    ASSUME NEW request, Requested(request), PlanCommit(request).code = Ok
    PROVE  ValidBundle(BundleOf(request))
<1> DEFINE c == Contents(request)
           core == RecordCore(2, c)
           b == BundleOf(request)
<1>1. PlanCommit(request).records[1] = Sealed(core)
  <2>1. PlanCommit(request) = Planned(Sealed(core))
    BY NothingWrong
  <2> HIDE DEF core
  <2> QED
    BY <2>1 DEF Planned
<1>2. Sealed(core).core = core
  BY DEF Sealed
<1>3. /\ b.record = Sealed(core) /\ b.expected_head = request.expected_head
      /\ b.commit_root = core.commit_root /\ b.record_hash = Sealed(core).record_hash
      /\ b.receipt = core.receipt /\ b.outbox = core.outbox
      /\ b.objects = [i \in DOMAIN request.objects |->
                         [ref |-> Ref(request.objects[i].bytes), schema |-> request.objects[i].schema,
                          payload |-> request.objects[i].bytes]]
      /\ b.blobs = [i \in DOMAIN request.blobs |->
                         [ref |-> Ref(request.blobs[i].bytes),
                          media_type |-> request.blobs[i].media_type,
                          payload |-> request.blobs[i].bytes]]
  <2> HIDE DEF core
  <2> QED
    BY <1>1, <1>2 DEF BundleOf
<1>4. /\ core.prev_record_hash = request.expected_head /\ core.created_at = request.created_at
      /\ core.objects = ObjectRows(request.objects) /\ core.blobs = BlobRows(request.blobs)
      /\ core.outbox = EffectRows(2, c)
      /\ core.receipt.version = 2 /\ core.receipt.evidence_root = request.evidence_root
      /\ core.receipt.policy_version = request.policy_version
      /\ core.receipt.core_version = request.core_version
  BY DEF RecordCore, Receipt, Contents
<1>5. ContentsOf(core) = c
  BY ReadBack
<1>6. /\ ValidRoot(request.expected_head) /\ ValidRoot(request.evidence_root)
      /\ request.created_at # "" /\ request.policy_version # "" /\ request.core_version # ""
      /\ \A i \in DOMAIN request.objects : ObjectDefect(request, i) = Ok
      /\ \A i \in DOMAIN request.blobs : BlobDefect(request, i) = Ok
      /\ \A i \in DOMAIN request.outbox : EffectDefect(request, i) = Ok
  BY NothingWrong
<1>7. \A i \in DOMAIN core.outbox : core.outbox[i].intent.kind # ""
  <2>1. /\ DOMAIN c.outbox = DOMAIN request.outbox
        /\ \A i \in DOMAIN request.outbox : c.outbox[i].kind = request.outbox[i].kind
    BY DEF Contents
  <2>3. /\ DOMAIN core.outbox = DOMAIN c.outbox
        /\ \A i \in DOMAIN c.outbox : core.outbox[i].intent = c.outbox[i]
    <3> HIDE DEF core, c
    <3> QED
      BY <1>4 DEF EffectRows
  <2>2. \A i \in DOMAIN request.outbox : request.outbox[i].kind # ""
    BY <1>6 DEF EffectDefect, Ok
  <2> HIDE DEF core, c
  <2> QED
    BY <2>1, <2>2, <2>3
<1>8. \A i \in DOMAIN core.objects : core.objects[i].schema # ""
  <2>1. \A i \in DOMAIN request.objects : request.objects[i].schema # ""
    BY <1>6 DEF ObjectDefect, Ok
  <2>2. core.objects = ObjectRows(request.objects)
    BY <1>4
  <2>3. /\ DOMAIN ObjectRows(request.objects) = DOMAIN request.objects
        /\ \A i \in DOMAIN request.objects :
               ObjectRows(request.objects)[i].schema = request.objects[i].schema
    BY DEF ObjectRows
  <2> HIDE DEF core
  <2> QED
    BY <2>1, <2>2, <2>3
<1>9. \A i \in DOMAIN core.blobs : core.blobs[i].media_type # ""
  <2>1. \A i \in DOMAIN request.blobs : request.blobs[i].media_type # ""
    BY <1>6 DEF BlobDefect, Ok
  <2>2. core.blobs = BlobRows(request.blobs)
    BY <1>4
  <2>3. /\ DOMAIN BlobRows(request.blobs) = DOMAIN request.blobs
        /\ \A i \in DOMAIN request.blobs :
               BlobRows(request.blobs)[i].media_type = request.blobs[i].media_type
    BY DEF BlobRows
  <2> HIDE DEF core
  <2> QED
    BY <2>1, <2>2, <2>3
<1>10. Len(core.objects) = Len(request.objects) /\ Len(core.blobs) = Len(request.blobs)
  BY <1>4 DEF ObjectRows, BlobRows, Requested, ObjectRequests, BlobRequests
<1>11. Cardinality(RefsOf(core.objects) \cup RefsOf(core.blobs)) = Len(core.objects) + Len(core.blobs)
  BY <1>4, <1>10, RefsCounted
<1> HIDE DEF core, c, b
<1>12. WellFormed(core)
  BY <1>4, <1>6, <1>7, <1>8, <1>9, <1>11 DEF WellFormed
<1>13. ValidRecord(Sealed(core), FALSE)
  BY <1>2, <1>4, <1>5, <1>12 DEF ValidRecord, core
<1>14. RowsOfWrites(b.objects, "schema") = core.objects
  BY <1>3, <1>4 DEF RowsOfWrites, ObjectRows
<1>15. RowsOfWrites(b.blobs, "media_type") = core.blobs
  BY <1>3, <1>4 DEF RowsOfWrites, BlobRows
<1>16. /\ \A i \in DOMAIN b.objects : Ref(b.objects[i].payload) = b.objects[i].ref
       /\ \A i \in DOMAIN b.blobs : Ref(b.blobs[i].payload) = b.blobs[i].ref
  BY <1>3
<1>17. ValidBundle(b)
  BY <1>2, <1>3, <1>4, <1>13, <1>14, <1>15, <1>16 DEF ValidBundle
<1> QED
  BY <1>17 DEF b

\* A command of version 2 is all of the contents.
LEMMA VersionTwoCommand == ASSUME NEW c PROVE Command(2, c) = c
BY DEF Command

\* The two planners find the same defects, in the same order, and derive the same record.
LEMMA PlannersAlike ==
    ASSUME NEW request, Requested(request), request.policy_version # "", request.core_version # ""
    PROVE  PlanCommit(request) = RustPlanCommit(request)
<1>1. Header(request) = RustHeaderDefects(request)
  BY DEF Header, RustHeaderDefects, ValidRoot
<1>2. OfObjects(request) = [i \in DOMAIN request.objects |-> RustObjectDefect(request, i)]
  <2>2. \A i \in DOMAIN request.objects : ObjectDefect(request, i) = RustObjectDefect(request, i)
    BY DEF ObjectDefect, RustObjectDefect
  <2> QED
    BY <2>2 DEF OfObjects
<1>3. OfBlobs(request) = [i \in DOMAIN request.blobs |-> RustBlobDefect(request, i)]
  <2>1. \A i \in DOMAIN request.blobs : BlobDefect(request, i) = RustBlobDefect(request, i)
    BY DEF BlobDefect, RustBlobDefect
  <2> QED
    BY <2>1 DEF OfBlobs
<1>4. OfEffects(request) = [i \in DOMAIN request.outbox |-> RustEffectDefect(request, i)]
  <2>2. \A i \in DOMAIN request.outbox : EffectDefect(request, i) = RustEffectDefect(request, i)
    BY DEF EffectDefect, RustEffectDefect
  <2> QED
    BY <2>2 DEF OfEffects
<1>5. Defects(request) = RustDefects(request)
  BY <1>1, <1>2, <1>3, <1>4, DefectsAreCodes DEF RustDefects
<1>6. Sealed(RecordCore(2, Contents(request))) = RustRecord(request)
  <2> DEFINE c == Contents(request)
             intents == [i \in DOMAIN request.outbox |->
                            [kind |-> request.outbox[i].kind, payload |-> request.outbox[i].payload]]
             command == Hash(<<"commit-command", 2>>,
                             [expected_head |-> request.expected_head,
                              created_at |-> request.created_at,
                              evidence_root |-> request.evidence_root,
                              objects |-> ObjectRows(request.objects),
                              blobs |-> BlobRows(request.blobs), outbox |-> intents,
                              policy_version |-> request.policy_version,
                              core_version |-> request.core_version])
             replay == Hash(<<"replay-id", 2>>,
                            [pre_state_root |-> request.expected_head, command_hash |-> command])
             effects == [i \in DOMAIN intents |->
                            [effect_id |-> Hash(<<"outbox-effect-id", 2>>,
                                                [replay_id |-> replay, index |-> i,
                                                 intent |-> intents[i]]),
                             intent |-> intents[i]]]
             root == Hash(<<"commit-bundle", 2>>,
                          [expected_head |-> request.expected_head,
                           created_at |-> request.created_at, command_hash |-> command,
                           evidence_root |-> request.evidence_root,
                           objects |-> ObjectRows(request.objects),
                           blobs |-> BlobRows(request.blobs), outbox |-> effects,
                           policy_version |-> request.policy_version,
                           core_version |-> request.core_version])
             receipt == [version |-> 2, pre_state_root |-> request.expected_head,
                         command_hash |-> command, evidence_root |-> request.evidence_root,
                         policy_version |-> request.policy_version,
                         core_version |-> request.core_version, replay_id |-> replay,
                         next_state_root |-> root,
                         effect_plan_hash |-> Hash(<<"effect-plan", 2>>, effects)]
             core == [created_at |-> request.created_at,
                      prev_record_hash |-> request.expected_head, commit_root |-> root,
                      objects |-> ObjectRows(request.objects), blobs |-> BlobRows(request.blobs),
                      outbox |-> effects, receipt |-> receipt]
  <2>1. /\ c.expected_head = request.expected_head /\ c.created_at = request.created_at
        /\ c.evidence_root = request.evidence_root /\ c.objects = ObjectRows(request.objects)
        /\ c.blobs = BlobRows(request.blobs) /\ c.policy_version = request.policy_version
        /\ c.core_version = request.core_version
        /\ c.outbox = intents
    BY DEF Contents
  <2>10. command = Hash(<<"commit-command", 2>>, c)
    BY DEF Contents
  <2>2. RustRecord(request) = [core |-> core, record_hash |-> Hash(<<"log-record", 2>>, core)]
    BY DEF RustRecord
  <2> HIDE DEF c, intents, command
  <2>9. Command(2, c) = c
    BY VersionTwoCommand
  <2>3. CommandHash(2, c) = command
    BY <2>9, <2>10 DEF CommandHash
  <2>4. ReplayId(2, c) = replay
    BY <2>1, <2>3 DEF ReplayId
  <2>5. EffectRows(2, c) = effects
    BY <2>1, <2>4 DEF EffectRows, EffectId
  <2> HIDE DEF replay, effects
  <2>6. CommitRoot(2, c) = root
    BY <2>1, <2>3, <2>5 DEF CommitRoot
  <2>7. Receipt(2, c) = receipt
    BY <2>1, <2>3, <2>4, <2>5, <2>6 DEF Receipt
  <2> HIDE DEF root, receipt
  <2>8. RecordCore(2, c) = core
    BY <2>1, <2>5, <2>6, <2>7 DEF RecordCore
  <2> HIDE DEF core
  <2> QED
    BY <2>2, <2>8 DEF Sealed, c
<1> QED
  BY <1>5, <1>6 DEF PlanCommit, RustPlanCommit

-----------------------------------------------------------------------------
(* Planners works with definitions of its own of what CommitPlan says.     *)

LEMMA SamePlans ==
    ASSUME NEW request
    PROVE  /\ P!PlanCommit(request) = PlanCommit(request)
           /\ P!RustPlanCommit(request) = RustPlanCommit(request)
           /\ P!BundleOf(request) = BundleOf(request)
<1>1. P!PlanCommit(request) = PlanCommit(request)
  BY Zenon DEF Hash, P!Hash, Ref, P!Ref, ObjectRows, P!ObjectRows, BlobRows, P!BlobRows,
         LegacyCommand, P!LegacyCommand, Command, P!Command, CommandHash, P!CommandHash,
         ReplayId, P!ReplayId, EffectId, P!EffectId, EffectRows, P!EffectRows, CommitRoot,
         P!CommitRoot, Receipt, P!Receipt, RecordCore, P!RecordCore, Sealed, P!Sealed,
         Contents, P!Contents, Ok, P!Ok, BadRoot, P!BadRoot, ValidRoot, P!ValidRoot, Faults,
         P!Faults, FirstFault, P!FirstFault, ObjectDefect, P!ObjectDefect, BlobDefect,
         P!BlobDefect, EffectDefect, P!EffectDefect, Defects, P!Defects, Refused, P!Refused,
         Planned, P!Planned, PlanCommit, P!PlanCommit
<1>2. P!RustPlanCommit(request) = RustPlanCommit(request)
  BY Zenon DEF Hash, P!Hash, Ref, P!Ref, ObjectRows, P!ObjectRows, BlobRows, P!BlobRows, Ok,
         P!Ok, BadRoot, P!BadRoot, Faults, P!Faults, FirstFault, P!FirstFault, Refused,
         P!Refused, Planned, P!Planned, RustObjectDefect, P!RustObjectDefect, RustBlobDefect,
         P!RustBlobDefect, RustEffectDefect, P!RustEffectDefect, RustHeaderDefects,
         P!RustHeaderDefects, RustDefects, P!RustDefects, RustRecord, P!RustRecord,
         RustPlanCommit, P!RustPlanCommit
<1>3. P!BundleOf(request) = BundleOf(request)
  BY <1>1, Zenon DEF Hash, P!Hash, Ref, P!Ref, BundleOf, P!BundleOf
<1> QED
  BY <1>1, <1>2, <1>3

LEMMA SameValidation == ASSUME NEW bundle PROVE P!ValidBundle(bundle) <=> ValidBundle(bundle)
<1>1. \A S : P!Cardinality(S) = Cardinality(S)
  BY Zenon DEF P!Cardinality, Cardinality
<1>2. \A core : P!WellFormed(core) <=> WellFormed(core)
  <2> SUFFICES ASSUME NEW core PROVE P!WellFormed(core) <=> WellFormed(core)
    OBVIOUS
  <2>1. P!RefsOf(core.objects) = RefsOf(core.objects) /\ P!RefsOf(core.blobs) = RefsOf(core.blobs)
    BY Zenon DEF P!RefsOf, RefsOf
  <2> QED
    BY <1>1, <2>1, Zenon DEF WellFormed, P!WellFormed, BadRoot, P!BadRoot, ValidRoot, P!ValidRoot
<1>3. \A record, legacy : P!ValidRecord(record, legacy) <=> ValidRecord(record, legacy)
  <2>1. ASSUME NEW version, NEW c PROVE P!RecordCore(version, c) = RecordCore(version, c)
    BY Zenon
       DEF Hash, P!Hash, LegacyCommand, P!LegacyCommand, Command, P!Command, CommandHash,
           P!CommandHash, ReplayId, P!ReplayId, EffectId, P!EffectId, EffectRows, P!EffectRows,
           CommitRoot, P!CommitRoot, Receipt, P!Receipt, RecordCore, P!RecordCore
  <2>2. ASSUME NEW core PROVE P!ContentsOf(core) = ContentsOf(core)
    BY Zenon DEF ContentsOf, P!ContentsOf
  <2>3. ASSUME NEW core PROVE P!Sealed(core) = Sealed(core)
    BY Zenon DEF Hash, P!Hash, Sealed, P!Sealed
  <2> QED
    BY <1>2, <2>1, <2>2, <2>3, Zenon DEF ValidRecord, P!ValidRecord
<1> QED
  BY <1>3, Zenon DEF Hash, P!Hash, Ref, P!Ref, RowsOfWrites, P!RowsOfWrites, ValidBundle, P!ValidBundle

\* Every request is planned alike by the two planners, and every plan is one the publisher accepts
\* (core/commit.py:412-708, rust/popperpad-core/src/lib.rs).
THEOREM PlannersAlwaysAgree == P!Spec => []PlannersAgree
<1> DEFINE Planning ==
             /\ input \in P!Inputs
             /\ python \in {<<>>, <<PlanCommit(input)>>}
             /\ rust \in {<<>>, <<RustPlanCommit(input)>>}
<1>1. P!Init => Planning
  BY DEF P!Init
<1>2. Planning /\ [P!Next]_(P!vars) => Planning'
  BY SamePlans DEF P!Next, P!PlanInPython, P!PlanInRust, P!vars
<1>3. Planning => PlannersAgree
  <2> SUFFICES ASSUME Planning PROVE PlannersAgree
    OBVIOUS
  <2>1. Requested(input) /\ input.policy_version # "" /\ input.core_version # ""
    BY PlanningAssumption
       DEF P!Inputs, P!PlannersParameters, Requested, ObjectRequests, BlobRequests, EffectRequests,
           P!ObjectRequests, P!BlobRequests, P!EffectRequests
  <2>2. P!Parity
    <3>1. PlanCommit(input) = RustPlanCommit(input)
      BY <2>1, PlannersAlike
    <3> QED
      BY <3>1 DEF P!Parity
  <2>3. P!PlansValidate
    <3>1. SUFFICES ASSUME python # <<>>, python[1].code = P!Ok PROVE P!ValidBundle(P!BundleOf(input))
      BY DEF P!PlansValidate
    <3>2. python[1] = PlanCommit(input)
      BY <3>1
    <3>3. PlanCommit(input).code = Ok
      BY <3>1, <3>2 DEF P!Ok, Ok
    <3>4. ValidBundle(BundleOf(input))
      BY <2>1, <3>3, PlansAreValid
    <3> QED
      BY <3>4, SamePlans, SameValidation
  <2> QED
    BY <2>2, <2>3 DEF PlannersAgree, P!PlannersAgree
<1> QED
  BY <1>1, <1>2, <1>3, PTL DEF P!Spec

-----------------------------------------------------------------------------
(* What the log takes. *)

\* A replay id says which commit it is.
LEMMA ReplayIdNamesContents ==
    ASSUME NEW c, NEW d, ReplayId(2, c) = ReplayId(2, d) PROVE c = d
<1> DEFINE One == [pre_state_root |-> c.expected_head, command_hash |-> CommandHash(2, c)]
           Two == [pre_state_root |-> d.expected_head, command_hash |-> CommandHash(2, d)]
<1>1. <<<<"replay-id", 2>>, One>> = <<<<"replay-id", 2>>, Two>>
  BY DEF ReplayId, Hash
<1>2. One = Two
  BY <1>1
<1>3. One.command_hash = Two.command_hash
  BY <1>2
<1>4. <<<<"commit-command", 2>>, c>> = <<<<"commit-command", 2>>, d>>
  BY <1>3, VersionTwoCommand DEF CommandHash, Hash
<1> QED
  BY <1>4

\* So does a commit root: a record that is new and valid is the derivation of the contents its root
\* was made of.
LEMMA RootNamesContents ==
    ASSUME NEW record, NEW c, ValidRecord(record, FALSE), record.core.commit_root = CommitRoot(2, c)
    PROVE  record = Sealed(RecordCore(2, c))
<1> DEFINE d == ContentsOf(record.core)
           Of(e) == [expected_head |-> e.expected_head, created_at |-> e.created_at,
                     command_hash |-> CommandHash(2, e), evidence_root |-> e.evidence_root,
                     objects |-> e.objects, blobs |-> e.blobs, outbox |-> EffectRows(2, e),
                     policy_version |-> e.policy_version, core_version |-> e.core_version]
<1>1. record = Sealed(RecordCore(2, d))
  BY DEF ValidRecord
<1> HIDE DEF d
<1>2. record.core = RecordCore(2, d)
  BY <1>1 DEF Sealed
<1>3. CommitRoot(2, d) = CommitRoot(2, c)
  BY <1>2 DEF RecordCore
<1>4. <<<<"commit-bundle", 2>>, Of(d)>> = <<<<"commit-bundle", 2>>, Of(c)>>
  BY <1>3 DEF CommitRoot, Hash
<1>5. Of(d) = Of(c)
  <2> HIDE DEF Of
  <2> QED
    BY <1>4
<1>6. CommandHash(2, d) = CommandHash(2, c)
  <2>1. Of(d).command_hash = Of(c).command_hash
    BY <1>5
  <2> QED
    BY <2>1
<1>7. <<<<"commit-command", 2>>, d>> = <<<<"commit-command", 2>>, c>>
  BY <1>6, VersionTwoCommand DEF CommandHash, Hash
<1>8. d = c
  BY <1>7
<1> QED
  BY <1>1, <1>8

PlansOk == \A p \in planned : Requested(p) /\ PlanCommit(p).code = Ok

\* However a bundle is put together, what a valid one records was planned.
LEMMA BundleWasPlanned ==
    ASSUME PlansOk, NEW b \in BundlesOf(planned), ValidBundle(b)
    PROVE  \E p \in planned : b.record = PlanCommit(p).records[1]
<1> DEFINE Bundles == {BundleOf(p) : p \in planned}
<1>1. ASSUME NEW p \in planned
      PROVE  /\ PlanCommit(p).records[1] = Sealed(RecordCore(2, Contents(p)))
             /\ BundleOf(p).record = PlanCommit(p).records[1]
             /\ BundleOf(p).record.core = RecordCore(2, Contents(p))
  <2>1. PlanCommit(p) = Planned(Sealed(RecordCore(2, Contents(p))))
    BY NothingWrong DEF PlansOk
  <2>2. \A record : Planned(record).records[1] = record
    BY DEF Planned
  <2>3. \A core : Sealed(core).core = core
    BY DEF Sealed
  <2>4. BundleOf(p).record = PlanCommit(p).records[1]
    BY DEF BundleOf
  <2> QED
    BY <2>1, <2>2, <2>3, <2>4
<1>2. ASSUME NEW a \in Bundles, NEW core PROVE Around(a, core).record = Sealed(core)
  <2>1. PICK p \in planned : a = BundleOf(p)
    OBVIOUS
  <2>2. "record" \in DOMAIN a
    BY <2>1 DEF BundleOf
  <2> QED
    BY <2>2 DEF Around
<1>3. ValidRecord(b.record, FALSE)
  BY DEF ValidBundle
<1>4. \A core : Sealed(core).core = core
  BY DEF Sealed
<1>5. ASSUME NEW p \in planned, b.record.core.commit_root = CommitRoot(2, Contents(p))
      PROVE  b.record = PlanCommit(p).records[1]
  BY <1>1, <1>3, <1>5, RootNamesContents
<1>6. ASSUME NEW p \in planned
      PROVE  /\ BundleOf(p).record.core.commit_root = CommitRoot(2, Contents(p))
             /\ "commit_root" \in DOMAIN BundleOf(p).record.core
  <2>1. \A c : RecordCore(2, c).commit_root = CommitRoot(2, c) /\ "commit_root" \in DOMAIN RecordCore(2, c)
    BY DEF RecordCore
  <2> QED
    BY <1>1, <2>1
<1>7. CASE b \in Bundles
  BY <1>1, <1>7
<1>8. ASSUME NEW p \in planned, NEW c \in Bundles,
             b = WithEffects(BundleOf(p), c) \/ b = WithReceipt(BundleOf(p), c)
      PROVE  b.record = PlanCommit(p).records[1]
  <2> DEFINE mine == BundleOf(p).record.core
             outs == [mine EXCEPT !.outbox = c.outbox]
             receipts == [mine EXCEPT !.receipt = c.receipt]
  <2>1. outs.commit_root = mine.commit_root /\ receipts.commit_root = mine.commit_root
    BY <1>6
  <2>2. BundleOf(p) \in Bundles
    OBVIOUS
  <2> HIDE DEF Bundles, outs, receipts, mine
  <2>3. b.record.core = outs \/ b.record.core = receipts
    BY <1>2, <1>4, <1>8, <2>2 DEF outs, receipts, mine, WithEffects, WithReceipt
  <2> QED
    BY <1>5, <1>6, <2>1, <2>3 DEF mine
<1>9. ASSUME NEW a \in Bundles, b = AsOfVersionOne(a) PROVE FALSE
  <2> DEFINE core == RecordCore(1, ContentsOf(a.record.core))
  <2>1. b.record.core = core
    BY <1>2, <1>4, <1>9 DEF AsOfVersionOne
  <2>2. core.receipt.version = 1
    BY DEF RecordCore, Receipt
  <2>3. b.record.core.receipt.version = 2
    BY <1>3 DEF ValidRecord
  <2> HIDE DEF core
  <2> QED
    BY <2>1, <2>2, <2>3
<1>10. ASSUME NEW p \in planned, NEW c \in Bundles, b = WithPayloads(BundleOf(p), c)
       PROVE  b.record = PlanCommit(p).records[1]
  <2>1. b.record = BundleOf(p).record
    BY <1>10 DEF BundleOf, WithPayloads
  <2> QED
    BY <1>1, <2>1
<1>11. \/ b \in Bundles
       \/ \E a \in Bundles, c \in Bundles : b = WithEffects(a, c)
       \/ \E a \in Bundles, c \in Bundles : b = WithReceipt(a, c)
       \/ \E a \in Bundles, c \in Bundles : b = WithPayloads(a, c)
       \/ \E a \in Bundles : b = AsOfVersionOne(a)
  BY DEF BundlesOf
<1> QED
  BY <1>7, <1>8, <1>9, <1>10, <1>11

\* The payloads of a valid bundle are those its record names.
LEMMA PayloadsAreNamed ==
    ASSUME NEW b, ValidBundle(b)
    PROVE  PayloadsOf(b) = RefsOf(b.record.core.objects) \cup RefsOf(b.record.core.blobs)
<1>1. ASSUME NEW writes, NEW tag,
             \A i \in DOMAIN writes : Ref(writes[i].payload) = writes[i].ref
      PROVE  {Ref(writes[i].payload) : i \in DOMAIN writes} = RefsOf(RowsOfWrites(writes, tag))
  <2>1. DOMAIN RowsOfWrites(writes, tag) = DOMAIN writes
    BY DEF RowsOfWrites
  <2>2. \A i \in DOMAIN writes : RowsOfWrites(writes, tag)[i].ref = writes[i].ref
    BY DEF RowsOfWrites
  <2> QED
    BY <1>1, <2>1, <2>2 DEF RefsOf
<1>2. /\ \A i \in DOMAIN b.objects : Ref(b.objects[i].payload) = b.objects[i].ref
      /\ \A i \in DOMAIN b.blobs : Ref(b.blobs[i].payload) = b.blobs[i].ref
      /\ RowsOfWrites(b.objects, "schema") = b.record.core.objects
      /\ RowsOfWrites(b.blobs, "media_type") = b.record.core.blobs
  BY DEF ValidBundle
<1>3. /\ {Ref(b.objects[i].payload) : i \in DOMAIN b.objects} = RefsOf(b.record.core.objects)
      /\ {Ref(b.blobs[i].payload) : i \in DOMAIN b.blobs} = RefsOf(b.record.core.blobs)
  BY <1>1, <1>2
<1> QED
  BY <1>3 DEF PayloadsOf

IsHanded == \E S : handed \in Seq(S)

\* One entry of handed for each record; every record that is not of today is one of those the
\* log started with.
DInv == PlansOk /\ IsHanded /\ Len(handed) = Len(log) /\ RecordsDerived /\ RowsBacked

\* Where a record comes from, and what came with it.
Origin(record, i) ==
    \/ record.core.receipt.version = 1 /\ \E old \in OldLogs : i <= Len(old) /\ record = old[i]
    \/ \E p \in planned : record = PlanCommit(p).records[1]

Backed(record, payloads) ==
    record.core.receipt.version = 2 =>
        payloads = RefsOf(record.core.objects) \cup RefsOf(record.core.blobs)

LEMMA InitDInv == Init => DInv
<1> SUFFICES ASSUME Init PROVE DInv
  OBVIOUS
<1>1. /\ log \in OldLogs /\ planned = {} /\ handed = [i \in DOMAIN log |-> {}]
      /\ log \in Seq({log[i] : i \in DOMAIN log})
      /\ \A i \in DOMAIN log : IsCommit(log[i]) => log[i].core.receipt.version = 1
  BY OldLogsAssumption DEF Init
<1>2. DOMAIN log = 1..Len(log) /\ Len(log) \in Nat
  BY <1>1
<1>3. handed \in Seq({{}}) /\ Len(handed) = Len(log)
  BY <1>1, <1>2
<1>4. RecordsDerived
  BY <1>1, <1>2 DEF RecordsDerived, Commits
<1>5. RowsBacked
  <2>1. 1 # 2
    OBVIOUS
  <2> QED
    BY <1>1, <2>1 DEF RowsBacked, Commits
<1> QED
  BY <1>1, <1>3, <1>4, <1>5 DEF DInv, PlansOk, IsHanded

\* A record that has an origin and what it names with it can be put at the end of the log.
LEMMA AppendDInv ==
    ASSUME CInv, DInv, NEW record, NEW payloads,
           log' = Append(log, record), handed' = Append(handed, payloads), planned' = planned,
           IsCommit(record) => Origin(record, Len(log) + 1) /\ Backed(record, payloads)
    PROVE  DInv'
<1>1. PICK S : log \in Seq(S)
  BY DEF CInv, IsLog
<1>2. PICK T : handed \in Seq(T)
  BY DEF DInv, IsHanded
<1>3. Len(handed) = Len(log) /\ PlansOk /\ RecordsDerived /\ RowsBacked
  BY DEF DInv
<1>4. /\ Len(log) \in Nat /\ DOMAIN log = 1..Len(log)
      /\ DOMAIN log' = 1..(Len(log) + 1) /\ log'[Len(log) + 1] = record
      /\ \A i \in 1..Len(log) : log'[i] = log[i]
      /\ Len(log') = Len(log) + 1
  BY <1>1
<1>5. /\ handed' \in Seq(T \cup {payloads}) /\ Len(handed') = Len(log) + 1
      /\ handed'[Len(log) + 1] = payloads
      /\ \A i \in 1..Len(log) : handed'[i] = handed[i]
  BY <1>2, <1>3
<1>6. ASSUME NEW i \in DOMAIN log', IsCommit(log'[i])
      PROVE  Origin(log'[i], i) /\ Backed(log'[i], handed'[i])
  <2>1. CASE i \in 1..Len(log)
    <3>1. i \in Commits
      BY <1>4, <1>6, <2>1 DEF Commits
    <3>2. Origin(log[i], i) /\ Backed(log[i], handed[i])
      BY <1>3, <3>1 DEF RecordsDerived, RowsBacked, Origin, Backed
    <3> QED
      BY <1>4, <1>5, <2>1, <3>2
  <2>2. CASE i = Len(log) + 1
    <3>1. log'[i] = record /\ handed'[i] = payloads
      BY <1>4, <1>5, <2>2
    <3>2. Origin(record, i) /\ Backed(record, payloads)
      BY <1>6, <2>2, <3>1
    <3> QED
      BY <3>1, <3>2
  <2>3. i \in 1..Len(log) \/ i = Len(log) + 1
    BY <1>4, <1>6
  <2> QED
    BY <2>1, <2>2, <2>3
<1>7. RecordsDerived'
  BY <1>6 DEF RecordsDerived, Commits, Origin
<1>8. RowsBacked'
  BY <1>6 DEF RowsBacked, Commits, Backed
<1>9. PlansOk'
  BY <1>3 DEF PlansOk
<1> QED
  BY <1>4, <1>5, <1>7, <1>8, <1>9 DEF DInv, IsHanded

LEMMA NextDInv == CInv /\ DInv /\ [Next]_vars => DInv'
<1> SUFFICES ASSUME CInv, DInv, [Next]_vars PROVE DInv'
  OBVIOUS
<1>1. ASSUME NEW request \in Requests, PlanCommitOn(request) PROVE DInv'
  <2> DEFINE asked == On(request, CurrentHead)
  <2>1. /\ planned' = planned \cup {asked} /\ log' = log /\ handed' = handed
        /\ PlanCommit(asked).code = Ok
    BY <1>1 DEF PlanCommitOn
  <2>2. Requested(asked)
    BY RequestsAssumption DEF Requested, On
  <2> HIDE DEF asked
  <2>3. PlansOk'
    BY <2>1, <2>2 DEF DInv, PlansOk
  <2>4. RecordsDerived' /\ RowsBacked'
    BY <2>1 DEF DInv, RecordsDerived, RowsBacked, Commits
  <2> QED
    BY <2>1, <2>3, <2>4 DEF DInv, IsHanded
<1>2. ASSUME NEW b \in BundlesOf(planned), AppendPrepared(b) PROVE DInv'
  <2>1. /\ ValidBundle(b) /\ log' = Append(log, b.record)
        /\ handed' = Append(handed, PayloadsOf(b)) /\ planned' = planned
    BY <1>2 DEF AppendPrepared
  <2>2. Origin(b.record, Len(log) + 1)
    BY <2>1, BundleWasPlanned DEF DInv, Origin
  <2>3. Backed(b.record, PayloadsOf(b))
    BY <2>1, PayloadsAreNamed DEF Backed
  <2> QED
    BY <2>1, <2>2, <2>3, AppendDInv
<1>3. ASSUME NEW note \in Notes, AppendNote(note) PROVE DInv'
  <2> DEFINE record == Note(note, CurrentHead)
  <2>1. log' = Append(log, record) /\ handed' = Append(handed, {}) /\ planned' = planned
    BY <1>3 DEF AppendNote
  <2>2. record.core = [note |-> note, prev_record_hash |-> CurrentHead]
    BY DEF Note
  <2>3. ~IsCommit(record)
    BY <2>2 DEF IsCommit
  <2> HIDE DEF record
  <2> QED
    BY <2>1, <2>3, AppendDInv
<1>4. CASE UNCHANGED vars
  <2>1. log' = log /\ planned' = planned /\ handed' = handed
    BY <1>4 DEF vars
  <2> QED
    BY <2>1 DEF DInv, PlansOk, IsHanded, RecordsDerived, RowsBacked, Commits
<1> QED
  BY <1>1, <1>2, <1>3, <1>4 DEF Next

LEMMA AlwaysDInv == Spec => []DInv
<1>1. Init => CInv /\ DInv
  BY InitCInv, InitDInv
<1>2. (CInv /\ DInv) /\ [Next]_vars => (CInv /\ DInv)'
  BY NextCInv, NextDInv
<1> QED
  BY <1>1, <1>2, PTL DEF Spec

\* The log takes what was planned, all of it and nothing else, whatever bundles are put together
\* from other plans (commit.py:412-555, log.py:175-191).
THEOREM AlwaysAsPlanned == Spec => []AdmittedAsPlanned
<1>1. ReplayIdentifies
  BY ReplayIdNamesContents DEF ReplayIdentifies
<1>2. DInv => AdmittedAsPlanned
  BY <1>1 DEF DInv, AdmittedAsPlanned
<1> QED
  BY <1>2, AlwaysDInv, PTL
=============================================================================
