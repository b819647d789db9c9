------------------------------- MODULE PadProofs -------------------------------
(***************************************************************************)
(* What is proved about Pad, for any number of processes and records.      *)
(***************************************************************************)
EXTENDS Pad, FiniteSetTheorems, SequenceTheorems, TLAPS

-----------------------------------------------------------------------------
(* What holds with the lock and without it. *)

Busy == {"staging", "locked", "loaded"}

Records(s) == s \in Seq(ToSet(s))

Shape ==
    /\ Records(log)
    /\ pc \in [Procs -> {"idle", "counted"} \cup Busy]
    /\ plan = [p \in Procs |-> plan[p]]
    /\ todo = [p \in Procs |-> todo[p]]
    /\ base = [p \in Procs |-> base[p]]
    /\ built \in [Procs -> BOOLEAN]
    /\ index = [p \in Procs |-> index[p]]
    /\ mine = [p \in Procs |-> mine[p]]
    /\ \A p \in Procs : Records(base[p])
    /\ \A p \in Procs : pc[p] \in Busy =>
           /\ plan[p] = [what |-> plan[p].what, expected_head |-> plan[p].expected_head]
           /\ plan[p].what.op \in {"commit_bundle", "add_object"}

InStore(records) == \A i \in DOMAIN records : records[i].what.objects \subseteq cas

\* What a publication has not staged it has still to stage, and it locks only when all is staged.
StagedFirst ==
    \A p \in Procs :
        /\ InStore(base[p])
        /\ pc[p] \in Busy => plan[p].what.objects \subseteq cas \cup todo[p]
        /\ pc[p] \in {"locked", "loaded"} => todo[p] = {}

Inv == Shape /\ Resolvable /\ StagedFirst

\* The processes a step of p leaves alone.
Others(p) ==
    \A q \in Procs \ {p} :
        pc'[q] = pc[q] /\ plan'[q] = plan[q] /\ todo'[q] = todo[q] /\ base'[q] = base[q]

\* What a process that does not move holds stays in the store.
LEMMA OthersStaged ==
    ASSUME StagedFirst, NEW p \in Procs, Others(p), cas \subseteq cas',
           /\ InStore(base[p])'
           /\ pc'[p] \in Busy => plan'[p].what.objects \subseteq cas' \cup todo'[p]
           /\ pc'[p] \in {"locked", "loaded"} => todo'[p] = {}
    PROVE  StagedFirst'
<1> SUFFICES ASSUME NEW q \in Procs
             PROVE  /\ InStore(base[q])'
                    /\ pc'[q] \in Busy => plan'[q].what.objects \subseteq cas' \cup todo'[q]
                    /\ pc'[q] \in {"locked", "loaded"} => todo'[q] = {}
  BY DEF StagedFirst
<1>1. CASE q = p
  BY <1>1
<1>2. CASE q # p
  BY <1>2 DEF StagedFirst, Others, InStore
<1> QED
  BY <1>1, <1>2

\* A record appended to a log.
LEMMA Appended ==
    ASSUME NEW records, NEW record, Records(records)
    PROVE  /\ Records(Append(records, record))
           /\ Len(records) \in Nat /\ Len(Append(records, record)) = Len(records) + 1
           /\ DOMAIN records = 1..Len(records)
           /\ DOMAIN Append(records, record) = 1..(Len(records) + 1)
           /\ Append(records, record)[Len(records) + 1] = record
           /\ \A i \in 1..Len(records) : Append(records, record)[i] = records[i]
<1> DEFINE S == ToSet(records)
           longer == Append(records, record)
<1>1. records \in Seq(S \cup {record}) /\ records \in Seq(S)
  BY DEF Records
<1> HIDE DEF S
<1>2. /\ longer \in Seq(S \cup {record}) /\ Len(records) \in Nat /\ Len(longer) = Len(records) + 1
      /\ DOMAIN records = 1..Len(records) /\ DOMAIN longer = 1..(Len(records) + 1)
      /\ longer[Len(records) + 1] = record
      /\ \A i \in 1..Len(records) : longer[i] = records[i]
  BY <1>1
<1> HIDE DEF longer
<1>3. ToSet(longer) = S \cup {record}
  BY <1>2 DEF ToSet, S
<1>4. Records(longer)
  BY <1>2, <1>3 DEF Records
<1> QED
  BY <1>2, <1>4 DEF longer

LEMMA NoRecords == Records(<<>>) /\ DOMAIN <<>> = {} /\ Len(<<>>) = 0
  BY DEF Records, ToSet

\* An operation that is over leaves nothing behind.
LEMMA Returned ==
    ASSUME Shape, NEW p \in Procs, Return(p)
    PROVE  /\ Others(p) /\ pc'[p] = "idle" /\ todo'[p] = {} /\ base'[p] = <<>>
           /\ pc' \in [Procs -> {"idle", "counted"} \cup Busy]
           /\ plan' = [q \in Procs |-> plan'[q]]
           /\ todo' = [q \in Procs |-> todo'[q]]
           /\ base' = [q \in Procs |-> base'[q]]
  BY DEF Shape, Return, Others

\* The rest of Shape, from what the process that moves has planned.
LEMMA Shaped ==
    ASSUME Shape, NEW p \in Procs, Others(p), Records(log'),
           pc' \in [Procs -> {"idle", "counted"} \cup Busy],
           plan' = [q \in Procs |-> plan'[q]],
           todo' = [q \in Procs |-> todo'[q]],
           base' = [q \in Procs |-> base'[q]],
           built' \in [Procs -> BOOLEAN],
           index' = [q \in Procs |-> index'[q]],
           mine' = [q \in Procs |-> mine'[q]],
           Records(base'[p]),
           pc'[p] \in Busy =>
               /\ plan'[p] = [what |-> plan'[p].what, expected_head |-> plan'[p].expected_head]
               /\ plan'[p].what.op \in {"commit_bundle", "add_object"}
    PROVE  Shape'
<1>1. \A q \in Procs : Records(base'[q])
  BY DEF Shape, Others
<1>2. ASSUME NEW q \in Procs, pc'[q] \in Busy
      PROVE  /\ plan'[q] = [what |-> plan'[q].what, expected_head |-> plan'[q].expected_head]
             /\ plan'[q].what.op \in {"commit_bundle", "add_object"}
  <2>1. CASE q = p
    BY <1>2, <2>1
  <2>2. CASE q # p
    BY <1>2, <2>2 DEF Shape, Others
  <2> QED
    BY <2>1, <2>2
<1> QED
  BY <1>1, <1>2 DEF Shape, Records

\* What a step owes Inv when it changes neither the log nor the store.
LEMMA Quiet ==
    ASSUME Inv, Shape', StagedFirst', log' = log, cas \subseteq cas'
    PROVE  Inv'
  BY DEF Inv, Resolvable

-----------------------------------------------------------------------------
(* Each action. *)

LEMMA Preparing ==
    ASSUME Inv, NEW p \in Procs, NEW what, NEW head, Prepare(p, what, head),
           what.op \in {"commit_bundle", "add_object"}
    PROVE  Inv'
<1>1. Shape /\ StagedFirst
  BY DEF Inv
<1>2. /\ pc'[p] = "staging" /\ todo'[p] = what.objects /\ Others(p)
      /\ plan'[p] = [what |-> what, expected_head |-> head]
      /\ UNCHANGED <<log, cas, base, built, index, mine>>
  BY <1>1 DEF Shape, Prepare, Others, private
<1>3. plan'[p].what = what /\ plan'[p].expected_head = head
  BY <1>2
<1>4. /\ pc' \in [Procs -> {"idle", "counted"} \cup Busy]
      /\ plan' = [q \in Procs |-> plan'[q]]
      /\ todo' = [q \in Procs |-> todo'[q]]
  BY <1>1 DEF Shape, Prepare, Busy
<1>5. Shape'
  BY <1>1, <1>2, <1>3, <1>4, Shaped DEF Shape
<1>6. StagedFirst'
  BY <1>1, <1>2, <1>3, OthersStaged DEF StagedFirst, InStore
<1> QED
  BY <1>2, <1>5, <1>6, Quiet

LEMMA Counting ==
    ASSUME Inv, NEW p \in Procs, ReadStats(p)
    PROVE  Inv'
<1>1. Shape /\ StagedFirst /\ InStore(log)
  BY DEF Inv, Resolvable, InStore
<1>2. /\ pc'[p] = "counted" /\ base'[p] = log /\ Others(p)
      /\ UNCHANGED <<log, cas, plan, todo, built, index, mine>>
      /\ pc' \in [Procs -> {"idle", "counted"} \cup Busy]
      /\ base' = [q \in Procs |-> base'[q]]
  BY <1>1 DEF Shape, ReadStats, Others, private
<1>3. Shape'
  BY <1>1, <1>2, Shaped DEF Shape, Busy
<1>4. StagedFirst'
  BY <1>1, <1>2, OthersStaged DEF InStore, Busy
<1> QED
  BY <1>2, <1>3, <1>4, Quiet

LEMMA Staging ==
    ASSUME Inv, NEW p \in Procs, NEW ref \in todo[p], Stage(p, ref)
    PROVE  Inv'
<1>1. Shape /\ StagedFirst
  BY DEF Inv
<1>2. /\ pc[p] = "staging" /\ todo'[p] = todo[p] \ {ref} /\ Others(p)
      /\ cas' = cas \cup {ref}
      /\ UNCHANGED <<log, pc, plan, base, built, index, mine>>
      /\ todo' = [q \in Procs |-> todo'[q]]
  BY <1>1 DEF Shape, Stage, Others, private
<1>3. Shape'
  BY <1>1, <1>2, Shaped DEF Shape
<1>4. StagedFirst'
  BY <1>1, <1>2, OthersStaged DEF StagedFirst, InStore
<1> QED
  BY <1>2, <1>3, <1>4, Quiet

LEMMA Entering ==
    ASSUME Inv, NEW p \in Procs, EnterLock(p)
    PROVE  /\ Inv' /\ Others(p) /\ pc'[p] = "locked" /\ plan'[p].what = plan[p].what
           /\ plan'[p].expected_head = HeadOf(log) /\ UNCHANGED <<log, base>>
<1>1. Shape /\ StagedFirst
  BY DEF Inv
<1>2. /\ pc[p] = "staging" /\ todo[p] = {} /\ pc'[p] = "locked" /\ Others(p)
      /\ UNCHANGED <<log, cas, todo, base, built, index, mine>>
      /\ pc' \in [Procs -> {"idle", "counted"} \cup Busy]
      /\ plan' = [q \in Procs |-> plan'[q]]
  BY <1>1 DEF Shape, EnterLock, Staged, Others, private, Busy
<1> DEFINE head == IF plan[p].what.op = "add_object" THEN HeadOf(log)
                   ELSE plan[p].expected_head
<1>3. plan'[p] = [what |-> plan[p].what, expected_head |-> head]
  BY <1>1 DEF Shape, EnterLock
<1>4. plan[p].what.op \in {"commit_bundle", "add_object"} /\ head = HeadOf(log)
  BY <1>1, <1>2 DEF Shape, EnterLock, HeadMatches, Busy
<1> HIDE DEF head
<1>5. plan'[p].what = plan[p].what /\ plan'[p].expected_head = head
  BY <1>3
<1>6. Shape'
  BY <1>1, <1>2, <1>3, <1>4, <1>5, Shaped DEF Shape
<1>7. StagedFirst'
  BY <1>1, <1>2, <1>5, OthersStaged DEF StagedFirst, InStore, Busy
<1> QED
  BY <1>2, <1>4, <1>5, <1>6, <1>7, Quiet

\* Conflicts, corruption found, and crashes.
LEMMA Returning ==
    ASSUME Inv, NEW p \in Procs, Return(p), UNCHANGED <<log, cas>>,
           built' \in [Procs -> BOOLEAN],
           index' = [q \in Procs |-> index'[q]],
           mine' = [q \in Procs |-> mine'[q]]
    PROVE  Inv'
<1>1. Shape /\ StagedFirst
  BY DEF Inv
<1>2. Shape'
  BY <1>1, Returned, NoRecords, Shaped DEF Shape, Busy
<1>3. StagedFirst'
  <2>1. InStore(base[p])'
    BY <1>1, Returned, NoRecords DEF InStore
  <2> QED
    BY <1>1, <2>1, Returned, OthersStaged DEF Busy
<1> QED
  BY <1>2, <1>3, Quiet

LEMMA Loading ==
    ASSUME Inv, NEW p \in Procs, Load(p)
    PROVE  Inv'
<1>1. Shape /\ StagedFirst /\ InStore(log)
  BY DEF Inv, Resolvable, InStore
<1>0. CASE ~Rereads(log)
  BY <1>0, <1>1, Returning DEF Load, private, Shape
<1> SUFFICES ASSUME Rereads(log) PROVE Inv'
  BY <1>0
<1>2. /\ pc[p] = "locked" /\ pc'[p] = "loaded" /\ base'[p] = log /\ Others(p)
      /\ UNCHANGED <<log, cas, plan, todo, built, index, mine>>
      /\ pc' \in [Procs -> {"idle", "counted"} \cup Busy]
      /\ base' = [q \in Procs |-> base'[q]]
  BY <1>1 DEF Shape, Load, Others, private, Busy
<1>3. Shape'
  BY <1>1, <1>2, Shaped DEF Shape, Busy
<1>4. StagedFirst'
  BY <1>1, <1>2, OthersStaged DEF StagedFirst, InStore, Busy
<1> QED
  BY <1>2, <1>3, <1>4, Quiet

\* A record that becomes public has been staged: with or without the lock.
LEMMA Replacing ==
    ASSUME Inv, NEW p \in Procs, Replace(p)
    PROVE  Inv'
<1> DEFINE record == [what |-> plan[p].what, prev_record_hash |-> plan[p].expected_head]
<1>1. Shape /\ StagedFirst /\ Records(base[p])
  BY DEF Inv, Shape
<1>2. /\ pc[p] = "loaded" /\ Return(p) /\ UNCHANGED <<cas, built>>
      /\ log' = Append(base[p], record)
  BY DEF Replace
<1>3. /\ index' = [q \in Procs |-> index'[q]]
      /\ mine' = [q \in Procs |-> mine'[q]]
  BY <1>1 DEF Shape, Replace
<1>4. record.what = plan[p].what
  OBVIOUS
<1> HIDE DEF record
<1>5. /\ Records(log') /\ Len(base[p]) \in Nat
      /\ DOMAIN base[p] = 1..Len(base[p]) /\ DOMAIN log' = 1..(Len(base[p]) + 1)
      /\ log'[Len(base[p]) + 1] = record
      /\ \A i \in 1..Len(base[p]) : log'[i] = base[p][i]
  <2>1. /\ Records(Append(base[p], record)) /\ Len(base[p]) \in Nat
        /\ DOMAIN base[p] = 1..Len(base[p])
        /\ DOMAIN Append(base[p], record) = 1..(Len(base[p]) + 1)
        /\ Append(base[p], record)[Len(base[p]) + 1] = record
        /\ \A i \in 1..Len(base[p]) : Append(base[p], record)[i] = base[p][i]
    BY <1>1, Appended
  <2> QED
    BY <1>2, <2>1 DEF Records, ToSet
<1>6. Shape'
  BY <1>1, <1>2, <1>3, <1>5, Returned, NoRecords, Shaped DEF Shape, Busy
<1>7. StagedFirst'
  <2>1. InStore(base[p])'
    BY <1>1, <1>2, Returned, NoRecords DEF InStore
  <2> QED
    BY <1>1, <1>2, <2>1, Returned, OthersStaged DEF Busy
<1>8. Resolvable'
  <2> SUFFICES ASSUME NEW i \in DOMAIN log' PROVE log'[i].what.objects \subseteq cas
    BY <1>2 DEF Resolvable
  <2>1. CASE i = Len(base[p]) + 1
    BY <1>1, <1>2, <1>4, <1>5, <2>1 DEF StagedFirst, Busy
  <2>2. CASE i \in 1..Len(base[p])
    BY <1>1, <1>5, <2>2 DEF StagedFirst, InStore
  <2> QED
    BY <1>5, <2>1, <2>2
<1> QED
  BY <1>6, <1>7, <1>8 DEF Inv

LEMMA Held == Spec => []Inv
<1>1. Init => Inv
  BY NoRecords DEF Init, Inv, Shape, Resolvable, StagedFirst, InStore, Busy
<1>2. Inv /\ [Next]_vars => Inv'
  <2> SUFFICES ASSUME Inv, [Next]_vars PROVE Inv'
    OBVIOUS
  <2>1. CASE UNCHANGED vars
    BY <2>1 DEF vars, private, Inv, Shape, Records, Resolvable, StagedFirst, InStore
  <2> SUFFICES ASSUME NEW p \in Procs,
                      \/ PlanCommit(p) \/ PlanAddObject(p) \/ ReadStats(p) \/ PlanCheckpoint(p)
                      \/ \E ref \in todo[p] : Stage(p, ref)
                      \/ EnterLock(p) \/ Conflict(p) \/ Load(p) \/ Replace(p)
                      \/ EnsureIndex(p) \/ Crash(p)
               PROVE  Inv'
    BY <2>1 DEF Next
  <2>2. CASE PlanCommit(p) \/ PlanAddObject(p) \/ (PlanCheckpoint(p) /\ ReadsHead(log))
    BY <2>2, Preparing DEF PlanCommit, PlanAddObject, PlanCheckpoint, Commit, AddObject
  <2>3. CASE ReadStats(p) \/ \E ref \in todo[p] : Stage(p, ref)
    BY <2>3, Counting, Staging
  <2>4. CASE EnterLock(p) \/ Load(p) \/ Replace(p)
    BY <2>4, Entering, Loading, Replacing
  <2>5. CASE Conflict(p) \/ Crash(p) \/ (PlanCheckpoint(p) /\ ~ReadsHead(log))
    <3>1. /\ Return(p) /\ UNCHANGED <<log, cas>>
          /\ built' \in [Procs -> BOOLEAN]
          /\ index' = [q \in Procs |-> index'[q]]
          /\ mine' = [q \in Procs |-> mine'[q]]
      BY <2>5 DEF Conflict, Crash, PlanCheckpoint, private, Inv, Shape
    <3> QED
      BY <3>1, Returning
  <2>6. CASE EnsureIndex(p)
    BY <2>6, Quiet DEF EnsureIndex, Inv, Shape, StagedFirst, InStore
  <2> QED
    BY <2>2, <2>3, <2>4, <2>5, <2>6
<1> QED
  BY <1>1, <1>2, PTL DEF Spec

-----------------------------------------------------------------------------
\* No record is ever public before its payloads are in the store: staging alone sees to that, on
\* every platform, whether _lock excludes anybody or not (pad.py:88-91, pad.py:152-178).
THEOREM AlwaysResolvable == Spec => []Resolvable
<1>1. Inv => Resolvable
  BY DEF Inv
<1> QED
  BY <1>1, Held, PTL

-----------------------------------------------------------------------------
(* What holds where the lock excludes. *)

\* The head after the first n records.
HeadAt(records, n) == IF n = 0 THEN <<>> ELSE RecordHash(records[n])

Certified(c, records) ==
    c.event_count \in 0..Len(records) /\ c.log_head = HeadAt(records, c.event_count)

Extends(longer, records) ==
    Len(records) <= Len(longer) /\ \A i \in 1..Len(records) : longer[i] = records[i]

Exclusive == \A p, q \in Holders : p = q

\* What a process holds of the log is true of it: the head it planned on when it has the lock, the
\* records it has read, the moment its checkpoint is to certify.
Sound(p) ==
    /\ pc[p] \in {"locked", "loaded"} => plan[p].expected_head = HeadOf(log)
    /\ pc[p] = "loaded" => base[p] = log
    /\ pc[p] = "counted" => Extends(log, base[p])
    /\ pc[p] \in Busy => \A c \in plan[p].what.objects \ Refs : Certified(c, log)

\* CheckpointsTrue, in terms of HeadAt.
CertifiedAll ==
    \A i \in DOMAIN log : \A c \in log[i].what.objects \ Refs :
        c.event_count < i /\ Certified(c, log)

Authorities == {edge \in Edges : Authoritative(edge)}

Known ==
    \A p \in Procs :
        /\ mine[p] \subseteq Authorities
        /\ built[p] => mine[p] \subseteq index[p] /\ index[p] \subseteq Authorities

LInv == Exclusive /\ (\A p \in Procs : Sound(p)) /\ Verifies /\ CertifiedAll /\ Known

LEMMA HeadsAt ==
    ASSUME NEW records, Records(records)
    PROVE  /\ HeadOf(records) = HeadAt(records, Len(records))
           /\ \A n \in 0..Len(records) : HeadOf(SubSeq(records, 1, n)) = HeadAt(records, n)
<1> DEFINE S == ToSet(records)
<1>1. records \in Seq(S) /\ Len(records) \in Nat /\ (records = <<>> <=> Len(records) = 0)
  BY DEF Records
<1> HIDE DEF S
<1>2. HeadOf(records) = HeadAt(records, Len(records))
  BY <1>1 DEF HeadOf, HeadAt, Last
<1>3. ASSUME NEW n \in 0..Len(records)
      PROVE  HeadOf(SubSeq(records, 1, n)) = HeadAt(records, n)
  <2> DEFINE first == SubSeq(records, 1, n)
  <2>1. /\ first \in Seq(S) /\ Len(first) = n
        /\ \A i \in 1..n : first[i] = records[i]
    BY <1>1
  <2> HIDE DEF first
  <2>2. first = <<>> <=> n = 0
    BY <2>1
  <2>3. HeadOf(first) = HeadAt(records, n)
    BY <2>1, <2>2 DEF HeadOf, HeadAt, Last
  <2> QED
    BY <2>3 DEF first
<1> QED
  BY <1>2, <1>3

\* A head keeps its place in a log that grows.
LEMMA CertifiedStays ==
    ASSUME NEW records, NEW longer, Len(records) \in Nat, Len(longer) \in Nat,
           Extends(longer, records), NEW c, Certified(c, records)
    PROVE  Certified(c, longer)
  BY DEF Extends, Certified, HeadAt

\* What the process that moves owes LInv when the log stays as it is.
LEMMA QuietSound ==
    ASSUME LInv, NEW p \in Procs, Others(p), log' = log, Sound(p)',
           pc'[p] \in {"locked", "loaded"} => Holders \subseteq {p}, Known'
    PROVE  LInv'
<1>1. ASSUME NEW q \in Procs PROVE Sound(q)'
  <2>1. CASE q = p
    BY <2>1
  <2>2. CASE q # p
    <3>1. Sound(q) /\ pc'[q] = pc[q] /\ plan'[q] = plan[q] /\ base'[q] = base[q]
      BY <2>2 DEF LInv, Others
    <3> QED
      BY <3>1 DEF Sound, HeadOf, Extends, Certified, HeadAt
  <2> QED
    BY <2>1, <2>2
<1>2. Exclusive'
  BY DEF LInv, Exclusive, Holders, Others
<1>3. Verifies' /\ CertifiedAll'
  BY DEF LInv, Verifies, Chained, CertifiedAll, Certified, HeadAt
<1> QED
  BY <1>1, <1>2, <1>3 DEF LInv

\* Most steps leave what is known of edges alone, too.
LEMMA KnownStays ==
    ASSUME Known, log' = log, UNCHANGED <<built, index, mine>>
    PROVE  Known'
  BY DEF Known, Authorities, Authoritative

LEMMA PreparingSound ==
    ASSUME Inv, LInv, NEW p \in Procs, NEW what, NEW head, Prepare(p, what, head),
           \A c \in what.objects \ Refs : Certified(c, log)
    PROVE  LInv'
<1>1. /\ pc'[p] = "staging" /\ Others(p)
      /\ plan'[p] = [what |-> what, expected_head |-> head]
      /\ UNCHANGED <<log, built, index, mine>>
  BY DEF Inv, Shape, Prepare, Others, private
<1>2. plan'[p].what = what
  BY <1>1
<1>3. Sound(p)'
  BY <1>1, <1>2 DEF Sound, Certified, HeadAt
<1>4. Known'
  BY <1>1, KnownStays DEF LInv
<1> QED
  BY <1>1, <1>3, <1>4, QuietSound

LEMMA CommitSound ==
    ASSUME PadAssumption, Inv, LInv, NEW p \in Procs, PlanCommit(p) \/ PlanAddObject(p)
    PROVE  LInv'
<1>1. CASE PlanCommit(p)
  <2>1. PICK bundle \in Bundles, scope \in Scopes : Prepare(p, Commit(bundle, scope), HeadOf(log))
    BY <1>1 DEF PlanCommit
  <2>2. Commit(bundle, scope).objects \ Refs = {}
    BY DEF PadAssumption, Commit
  <2> HIDE DEF Commit
  <2> QED
    BY <2>1, <2>2, PreparingSound
<1>2. CASE PlanAddObject(p)
  <2>1. PICK ref \in Refs : Prepare(p, AddObject(ref), None)
    BY <1>2 DEF PlanAddObject
  <2>2. AddObject(ref).objects \ Refs = {}
    BY DEF AddObject
  <2> QED
    BY <2>1, <2>2, PreparingSound
<1> QED
  BY <1>1, <1>2

\* The statistics were true when they were read, and the log has only grown since.
LEMMA CheckpointSound ==
    ASSUME Inv, LInv, NEW p \in Procs, PlanCheckpoint(p), ReadsHead(log)
    PROVE  LInv'
<1>1. Extends(log, base[p]) /\ Records(base[p]) /\ Records(log)
  BY DEF LInv, Sound, PlanCheckpoint, Inv, Shape
<1>2. /\ Len(base[p]) \in Nat /\ Len(log) \in Nat
      /\ HeadOf(base[p]) = HeadAt(base[p], Len(base[p]))
  BY <1>1, HeadsAt DEF Records
<1>3. Stats(p).event_count = Len(base[p]) /\ Stats(p).log_head = HeadOf(base[p])
  BY DEF Stats, Checkpoint
<1>4. Certified(Stats(p), log)
  BY <1>1, <1>2, <1>3 DEF Certified, Extends, HeadAt
<1>5. PICK stats : stats = Stats(p)
  OBVIOUS
<1>6. Prepare(p, Commit({stats}, "none"), HeadOf(log)) /\ Commit({stats}, "none").objects = {stats}
  BY <1>5 DEF PlanCheckpoint, Commit
<1>7. \A c \in Commit({stats}, "none").objects \ Refs : Certified(c, log)
  BY <1>4, <1>5, <1>6
<1> HIDE DEF Commit
<1> QED
  BY <1>6, <1>7, PreparingSound

LEMMA CountingSound ==
    ASSUME Inv, LInv, NEW p \in Procs, ReadStats(p)
    PROVE  LInv'
<1>1. /\ pc'[p] = "counted" /\ base'[p] = log /\ Others(p)
      /\ UNCHANGED <<log, built, index, mine>>
  BY DEF Inv, Shape, ReadStats, Others, private
<1>2. Len(log) \in Nat
  BY DEF Inv, Shape, Records
<1>3. Sound(p)'
  BY <1>1, <1>2 DEF Sound, Extends, Busy
<1> QED
  BY <1>1, <1>3, KnownStays, QuietSound DEF LInv

LEMMA StagingSound ==
    ASSUME Inv, LInv, NEW p \in Procs, NEW ref \in todo[p], Stage(p, ref)
    PROVE  LInv'
<1>1. /\ pc[p] = "staging" /\ Others(p)
      /\ UNCHANGED <<log, pc, plan, base, built, index, mine>>
  BY DEF Inv, Shape, Stage, Others, private
<1>2. Sound(p)'
  BY <1>1 DEF LInv, Sound, HeadOf, Extends, Certified, HeadAt
<1> QED
  BY <1>1, <1>2, KnownStays, QuietSound DEF LInv

\* The lock is taken when nobody has it, and only by a plan on the head there is.
LEMMA EnteringSound ==
    ASSUME Locking, Inv, LInv, NEW p \in Procs, EnterLock(p)
    PROVE  LInv'
<1>1. /\ Others(p) /\ pc'[p] = "locked" /\ plan'[p].what = plan[p].what
      /\ plan'[p].expected_head = HeadOf(log) /\ UNCHANGED <<log, base>>
  BY Entering
<1>2. pc[p] = "staging" /\ Holders = {} /\ UNCHANGED <<built, index, mine>>
  BY DEF EnterLock, Staged, LockFree, private
<1>3. Sound(p)'
  BY <1>1, <1>2 DEF LInv, Sound, HeadOf, Busy, Certified, HeadAt
<1> QED
  BY <1>1, <1>2, <1>3, KnownStays, QuietSound DEF LInv

LEMMA ReturningSound ==
    ASSUME Inv, LInv, NEW p \in Procs, Return(p), log' = log, Known'
    PROVE  LInv'
<1>1. Others(p) /\ pc'[p] = "idle"
  BY Returned DEF Inv
<1>2. Sound(p)'
  BY <1>1 DEF Sound, Busy
<1> QED
  BY <1>1, <1>2, QuietSound

LEMMA LoadingSound ==
    ASSUME Inv, LInv, NEW p \in Procs, Load(p)
    PROVE  LInv'
<1>0. CASE ~Rereads(log)
  <2>1. Return(p) /\ log' = log /\ UNCHANGED <<built, index, mine>>
    BY <1>0 DEF Load, private
  <2> QED
    BY <2>1, KnownStays, ReturningSound DEF LInv
<1> SUFFICES ASSUME Rereads(log) PROVE LInv'
  BY <1>0
<1>1. /\ pc[p] = "locked" /\ pc'[p] = "loaded" /\ base'[p] = log /\ Others(p)
      /\ UNCHANGED <<log, plan, built, index, mine>>
  BY DEF Inv, Shape, Load, Others, private
<1>2. Holders \subseteq {p}
  BY <1>1 DEF LInv, Exclusive, Holders
<1>3. Sound(p)'
  BY <1>1 DEF LInv, Sound, HeadOf, Busy, Certified, HeadAt
<1> QED
  BY <1>1, <1>2, <1>3, KnownStays, QuietSound DEF LInv

\* A rebuilt index has the edges with authority, all of them and no other.
LEMMA RebuiltSound == Rebuilt(log) = Authorities
  BY DEF Rebuilt, OnRecord, Authorities, Authoritative

LEMMA IndexingSound ==
    ASSUME Inv, LInv, NEW p \in Procs, EnsureIndex(p)
    PROVE  LInv' /\ (index'[p] = Authorities)
<1>1. UNCHANGED <<log, cas, pc, plan, todo, base, mine>> /\ Others(p)
  BY DEF EnsureIndex, Others
<1>2. /\ index'[p] = Authorities
      /\ \A q \in Procs \ {p} : built'[q] = built[q] /\ index'[q] = index[q]
  BY RebuiltSound DEF Inv, Shape, EnsureIndex
<1>3. Authorities' = Authorities
  BY <1>1 DEF Authorities, Authoritative
<1>4. Known'
  BY <1>1, <1>2, <1>3 DEF LInv, Known
<1>5. Sound(p)' /\ pc'[p] = "idle"
  BY <1>1 DEF LInv, Sound, EnsureIndex, Busy
<1> QED
  BY <1>1, <1>2, <1>4, <1>5, QuietSound

\* The step that publishes: the log it replaces is the log there is.
LEMMA ReplacingSound ==
    ASSUME Inv, LInv, NEW p \in Procs, Replace(p)
    PROVE  /\ LInv' /\ IsPrefix(log, log')
           /\ index'[p] = (IF built[p] THEN OnRecord(index[p], plan[p].what) ELSE index[p])
           /\ Authorities' = OnRecord(Authorities, plan[p].what)
<1> DEFINE what == plan[p].what
           record == [what |-> what, prev_record_hash |-> plan[p].expected_head]
<1>1. /\ pc[p] = "loaded" /\ p \in Holders /\ Records(log) /\ Sound(p)
      /\ plan[p].expected_head = HeadOf(log) /\ base[p] = log
  BY DEF Replace, Inv, Shape, LInv, Sound, Holders
<1>2. log' = Append(log, record) /\ Return(p) /\ UNCHANGED <<cas, built>>
  BY <1>1 DEF Replace
<1>3. record.what = what /\ record.prev_record_hash = HeadAt(log, Len(log))
  BY <1>1, HeadsAt
<1> HIDE DEF record
<1>4. /\ Len(log) \in Nat /\ Len(log') = Len(log) + 1
      /\ DOMAIN log = 1..Len(log) /\ DOMAIN log' = 1..(Len(log) + 1)
      /\ log'[Len(log) + 1] = record
      /\ \A i \in 1..Len(log) : log'[i] = log[i]
  <2>1. /\ Len(log) \in Nat /\ Len(Append(log, record)) = Len(log) + 1
        /\ DOMAIN log = 1..Len(log)
        /\ DOMAIN Append(log, record) = 1..(Len(log) + 1)
        /\ Append(log, record)[Len(log) + 1] = record
        /\ \A i \in 1..Len(log) : Append(log, record)[i] = log[i]
    BY <1>1, Appended
  <2> QED
    BY <1>2, <2>1
<1>5. Extends(log', log)
  BY <1>4 DEF Extends
<1>6. IsPrefix(log, log')
  <2>1. log \in Seq(ToSet(log) \cup {record}) /\ log' \in Seq(ToSet(log) \cup {record})
    BY <1>1, <1>2 DEF Records
  <2> HIDE DEF what
  <2>2. SubSeq(log, 1, Len(log)) = SubSeq(log', 1, Len(log))
    BY <1>4, <2>1
  <2> QED
    BY <1>4, <2>2 DEF IsPrefix
<1>7. Others(p) /\ pc'[p] = "idle" /\ base'[p] = <<>>
  BY <1>2, Returned DEF Inv
<1>8. ASSUME NEW c, Certified(c, log) PROVE Certified(c, log)'
  <2>1. PICK longer : longer = log'
    OBVIOUS
  <2>2. Len(longer) \in Nat /\ Extends(longer, log)
    BY <1>4, <1>5, <2>1 DEF Extends
  <2>3. Certified(c, longer)
    BY <1>4, <1>8, <2>2, CertifiedStays
  <2> QED
    BY <2>1, <2>3 DEF Certified, HeadAt
<1>9. ASSUME NEW q \in Procs PROVE Sound(q)'
  <2>1. CASE q = p
    BY <1>7, <2>1 DEF Sound, Busy
  <2>2. CASE q # p
    <3>1. /\ q \notin Holders /\ Sound(q)
          /\ pc'[q] = pc[q] /\ plan'[q] = plan[q] /\ base'[q] = base[q]
      BY <1>1, <1>7, <2>2 DEF LInv, Exclusive, Others
    <3>2. pc'[q] \notin {"locked", "loaded"}
      BY <3>1 DEF Holders
    <3>3. ASSUME pc'[q] = "counted" PROVE Extends(log, base[q])'
      <4>1. Extends(log, base[q]) /\ Len(base[q]) \in Nat
        BY <3>1, <3>3 DEF Sound, Inv, Shape, Records
      <4> QED
        BY <1>4, <3>1, <4>1 DEF Extends
    <3>4. ASSUME pc'[q] \in Busy, NEW c \in plan'[q].what.objects \ Refs
          PROVE  Certified(c, log)'
      BY <1>8, <3>1, <3>4 DEF Sound
    <3> QED
      BY <3>2, <3>3, <3>4 DEF Sound
  <2> QED
    BY <2>1, <2>2
<1>10. Exclusive'
  BY <1>7 DEF LInv, Exclusive, Holders, Others
<1>11. Verifies'
  <2> SUFFICES ASSUME NEW i \in DOMAIN log'
               PROVE  log'[i].prev_record_hash = IF i = 1 THEN <<>> ELSE RecordHash(log'[i - 1])
    BY DEF Verifies, Chained, RecordHash
  <2>1. CASE i = Len(log) + 1
    BY <1>3, <1>4, <2>1 DEF HeadAt
  <2>2. CASE i \in 1..Len(log)
    <3>1. log[i].prev_record_hash = IF i = 1 THEN <<>> ELSE RecordHash(log[i - 1])
      BY <1>4, <2>2 DEF LInv, Verifies, Chained
    <3>2. i # 1 => i - 1 \in 1..Len(log)
      BY <1>4, <2>2
    <3> QED
      BY <1>4, <2>2, <3>1, <3>2
  <2> QED
    BY <1>4, <2>1, <2>2
<1>12. CertifiedAll'
  <2> SUFFICES ASSUME NEW i \in DOMAIN log', NEW c \in log'[i].what.objects \ Refs
               PROVE  c.event_count < i /\ Certified(c, log)'
    BY DEF CertifiedAll
  <2>1. CASE i = Len(log) + 1
    <3>1. Certified(c, log)
      BY <1>1, <1>3, <1>4, <2>1 DEF Sound, Busy
    <3> QED
      BY <1>4, <1>8, <2>1, <3>1 DEF Certified
  <2>2. CASE i \in 1..Len(log)
    BY <1>4, <1>8, <2>2 DEF LInv, CertifiedAll
  <2> QED
    BY <1>4, <2>1, <2>2
<1>13. Authorities' = OnRecord(Authorities, what)
  <2>1. ASSUME NEW edge
        PROVE  Authoritative(edge)' <=>
                   \/ Authoritative(edge)
                   \/ edge \in what.objects /\ what.scope # "import_quarantined"
    <3>1. Authoritative(edge)' =>
              \/ Authoritative(edge)
              \/ edge \in what.objects /\ what.scope # "import_quarantined"
      BY <1>3, <1>4 DEF Authoritative
    <3>2. Authoritative(edge) => Authoritative(edge)'
      BY <1>4 DEF Authoritative
    <3>3. edge \in what.objects /\ what.scope # "import_quarantined" => Authoritative(edge)'
      BY <1>3, <1>4 DEF Authoritative
    <3> QED
      BY <3>1, <3>2, <3>3
  <2>2. Authorities' = {edge \in Edges : Authoritative(edge)'}
    BY DEF Authorities
  <2> HIDE DEF what
  <2> QED
    BY <2>1, <2>2 DEF Authorities, OnRecord
<1>14. /\ index'[p] = (IF built[p] THEN OnRecord(index[p], what) ELSE index[p])
       /\ mine'[p] = (IF what.scope = "import_quarantined" THEN mine[p]
                      ELSE mine[p] \cup (what.objects \cap Edges))
       /\ \A q \in Procs \ {p} : index'[q] = index[q] /\ mine'[q] = mine[q]
  BY DEF Replace, Inv, Shape
<1>15. Known'
  <2> SUFFICES ASSUME NEW q \in Procs
               PROVE  /\ mine'[q] \subseteq Authorities'
                      /\ built'[q] => mine'[q] \subseteq index'[q] /\ index'[q] \subseteq Authorities'
    BY DEF Known
  <2>1. /\ mine[q] \subseteq Authorities
        /\ built[q] => mine[q] \subseteq index[q] /\ index[q] \subseteq Authorities
    BY DEF LInv, Known
  <2> HIDE DEF what
  <2> QED
    BY <1>2, <1>13, <1>14, <2>1 DEF OnRecord
<1> QED
  BY <1>6, <1>9, <1>10, <1>11, <1>12, <1>13, <1>14, <1>15 DEF LInv

\* Only Replace touches the log.
LEMMA SteppingSound ==
    ASSUME PadAssumption, Locking, Inv, LInv, [Next]_vars
    PROVE  LInv' /\ (log' = log \/ IsPrefix(log, log'))
<1>1. CASE UNCHANGED vars
  <2>1. \A q \in Procs : Sound(q)'
    BY <1>1 DEF LInv, Sound, vars, HeadOf, Extends, Certified, HeadAt
  <2>2. Known'
    BY <1>1, KnownStays DEF LInv, vars, private
  <2>3. Exclusive' /\ Verifies' /\ CertifiedAll'
    BY <1>1 DEF LInv, vars, Exclusive, Holders, Verifies, Chained, CertifiedAll, Certified, HeadAt
  <2> QED
    BY <1>1, <2>1, <2>2, <2>3 DEF LInv, vars
<1> SUFFICES ASSUME NEW p \in Procs,
                    \/ PlanCommit(p) \/ PlanAddObject(p) \/ ReadStats(p) \/ PlanCheckpoint(p)
                    \/ \E ref \in todo[p] : Stage(p, ref)
                    \/ EnterLock(p) \/ Conflict(p) \/ Load(p) \/ Replace(p)
                    \/ EnsureIndex(p) \/ Crash(p)
             PROVE  LInv' /\ (log' = log \/ IsPrefix(log, log'))
  BY <1>1 DEF Next
<1>2. CASE PlanCommit(p) \/ PlanAddObject(p)
  BY <1>2, CommitSound DEF PlanCommit, PlanAddObject, Prepare
<1>3. CASE ReadStats(p) \/ (PlanCheckpoint(p) /\ ReadsHead(log))
  BY <1>3, CountingSound, CheckpointSound DEF ReadStats, PlanCheckpoint, Prepare
<1>4. CASE \E ref \in todo[p] : Stage(p, ref)
  BY <1>4, StagingSound DEF Stage
<1>5. CASE EnterLock(p)
  BY <1>5, EnteringSound DEF EnterLock
<1>6. CASE Load(p)
  BY <1>6, LoadingSound DEF Load
<1>7. CASE Replace(p)
  BY <1>7, ReplacingSound
<1>8. CASE EnsureIndex(p)
  BY <1>8, IndexingSound DEF EnsureIndex
<1>9. CASE Conflict(p) \/ (PlanCheckpoint(p) /\ ~ReadsHead(log))
  <2>1. Return(p) /\ log' = log /\ UNCHANGED <<built, index, mine>>
    BY <1>9 DEF Conflict, PlanCheckpoint, private
  <2> QED
    BY <2>1, KnownStays, ReturningSound DEF LInv
<1>10. CASE Crash(p)
  <2>1. Return(p) /\ log' = log
    BY <1>10 DEF Crash
  <2>2. /\ mine'[p] = {} /\ built'[p] = FALSE
        /\ \A q \in Procs \ {p} : mine'[q] = mine[q] /\ built'[q] = built[q] /\ index'[q] = index[q]
    BY <1>10 DEF Crash, Inv, Shape
  <2>3. Known'
    BY <2>1, <2>2 DEF LInv, Known, Authorities, Authoritative
  <2> QED
    BY <2>1, <2>3, ReturningSound
<1> QED
  BY <1>2, <1>3, <1>4, <1>5, <1>6, <1>7, <1>8, <1>9, <1>10

LEMMA Locked ==
    ASSUME Locking
    PROVE  Spec => []LInv
<1>1. Init => LInv
  BY NoRecords DEF Init, LInv, Exclusive, Holders, Sound, Busy, Verifies, Chained, CertifiedAll,
                   Known, Authorities, Authoritative
<1>2. Inv /\ LInv /\ [Next]_vars => LInv'
  BY PadAssumption, SteppingSound
<1> QED
  BY <1>1, <1>2, Held, PTL DEF Spec

-----------------------------------------------------------------------------
\* Where the lock excludes, a published record is never lost or changed, whoever publishes
\* meanwhile and whatever dies (log.py:175-233).
THEOREM NeverLost ==
    ASSUME Locking
    PROVE  Spec => AppendOnly
<1>1. Inv /\ LInv /\ [Next]_vars => [IsPrefix(log, log')]_log
  BY PadAssumption, SteppingSound
<1> QED
  BY <1>1, Held, Locked, PTL DEF Spec, AppendOnly

\* There the log also verifies at every moment: every record was bound to the one it follows
\* (log.py:257-288).
THEOREM AlwaysVerifies ==
    ASSUME Locking
    PROVE  Spec => []Verifies
<1>1. LInv => Verifies
  BY DEF LInv
<1> QED
  BY <1>1, Locked, PTL

\* A checkpoint certifies a moment of the log that really was, though the statistics and the
\* commit that carries them read the log at different times (pad.py:301-309).
THEOREM CheckpointsCertify ==
    ASSUME Locking
    PROVE  Spec => []CheckpointsTrue
<1>1. ASSUME Inv, LInv PROVE CheckpointsTrue
  <2> SUFFICES ASSUME NEW i \in DOMAIN log, NEW c \in log[i].what.objects \ Refs
               PROVE  /\ c.event_count < i
                      /\ c.log_head = HeadOf(SubSeq(log, 1, c.event_count))
    BY DEF CheckpointsTrue
  <2>1. c.event_count < i /\ Certified(c, log)
    BY <1>1 DEF LInv, CertifiedAll
  <2> QED
    BY <1>1, <2>1, HeadsAt DEF Certified, Inv, Shape
<1> QED
  BY <1>1, Held, Locked, PTL

\* The log says nothing false, neither of its own order nor of its past (log.py:175-233,
\* pad.py:301-309).
THEOREM LogsTrue ==
    ASSUME Locking
    PROVE  Spec => []LogTrue
  BY AlwaysVerifies, CheckpointsCertify, PTL DEF LogTrue

\* What a process answers from its index rests on records with authority, all that it published
\* itself among them (index.py:30-44, pad.py:152-170).
THEOREM IndexesSound ==
    ASSUME Locking
    PROVE  Spec => []IndexSound
<1>1. LInv => IndexSound
  BY DEF LInv, Known, IndexSound, Authorities
<1> QED
  BY <1>1, Locked, PTL

\* A process that has the pad to itself has the very index a rebuild would give (index.py:16-18).
THEOREM IndexesCurrent ==
    ASSUME Locking, \A p, q \in Procs : p = q
    PROVE  Spec => []IndexCurrent
<1> DEFINE Current == \A p \in Procs : built[p] => index[p] = Authorities
<1>1. Init => Current
  BY DEF Init
<1>2. ASSUME Inv, LInv, Current, [Next]_vars PROVE Current'
  <2> SUFFICES ASSUME NEW p \in Procs, built'[p] PROVE index'[p] = Authorities'
    OBVIOUS
  <2>1. CASE Replace(p)
    BY <1>2, <2>1, ReplacingSound DEF Replace
  <2>2. CASE EnsureIndex(p)
    <3>1. Authorities' = Authorities
      BY <2>2 DEF EnsureIndex, Authorities, Authoritative
    <3> QED
      BY <1>2, <2>2, <3>1, IndexingSound
  <2>3. CASE ~Replace(p) /\ ~EnsureIndex(p)
    <3>1. log' = log /\ built'[p] = built[p] /\ index'[p] = index[p]
      <4>1. CASE UNCHANGED vars
        BY <4>1 DEF vars, private
      <4>2. CASE ~(UNCHANGED vars)
        <5>1. ~Crash(p)
          BY <1>2 DEF Crash, Inv, Shape
        <5> QED
          BY <1>2, <2>3, <4>2, <5>1 DEF Next, PlanCommit, PlanAddObject, ReadStats, PlanCheckpoint,
             Prepare, Stage, EnterLock, Conflict, Load, private
      <4> QED
        BY <4>1, <4>2
    <3> QED
      BY <1>2, <3>1 DEF Authorities, Authoritative
  <2> QED
    BY <2>1, <2>2, <2>3
<1>3. Current => IndexCurrent
  BY DEF IndexCurrent, Authorities
<1>4. Inv /\ LInv /\ Current /\ [Next]_vars => Current'
  BY <1>2
<1> HIDE DEF Current
<1> QED
  BY <1>1, <1>3, <1>4, Held, Locked, PTL DEF Spec

-----------------------------------------------------------------------------
(* The bound on the log, and the other types. *)

Working == {p \in Procs : pc[p] # "idle"}

\* Whoever works began when there was room in the log, and adds one record at most.
Bounded == Len(log) + Cardinality(Working) < MaxRecords + Cardinality(Procs)

Dated == \A r \in cas : r \notin Refs => r.event_count \in 0..Len(log)

ToStage ==
    \A p \in Procs : todo[p] # {} => pc[p] = "staging" /\ todo[p] \subseteq plan[p].what.objects

Indexed == index \in [Procs -> SUBSET Edges] /\ mine \in [Procs -> SUBSET Edges]

Typing == Bounded /\ Dated /\ ToStage /\ Indexed

LEMMA Workers ==
    ASSUME NEW S \in SUBSET Procs
    PROVE  /\ IsFiniteSet(S) /\ Cardinality(S) \in Nat
           /\ Cardinality(Procs) \in Nat \ {0} /\ Cardinality(S) <= Cardinality(Procs)
           /\ \A T \in SUBSET S : IsFiniteSet(T) /\ Cardinality(T) <= Cardinality(S)
           /\ \A p \in S : Cardinality(S \ {p}) = Cardinality(S) - 1
<1>1. IsFiniteSet(Procs) /\ Procs # {}
  BY PadAssumption
<1>2. IsFiniteSet(S) /\ Cardinality(S) <= Cardinality(Procs)
  BY <1>1, FS_Subset
<1>3. Cardinality(S) \in Nat /\ Cardinality(Procs) \in Nat
  BY <1>1, <1>2, FS_CardinalityType
<1>4. Cardinality(Procs) # 0
  BY <1>1, FS_EmptySet
<1>5. \A T \in SUBSET S : IsFiniteSet(T) /\ Cardinality(T) <= Cardinality(S)
  BY <1>2, FS_Subset
<1>6. \A p \in S : Cardinality(S \ {p}) = Cardinality(S) - 1
  BY <1>2, FS_RemoveElement
<1> QED
  BY <1>2, <1>3, <1>4, <1>5, <1>6

\* A step that publishes nothing, of a process that had begun or when there is room.
LEMMA BoundedStays ==
    ASSUME Inv, Bounded, NEW p \in Procs, Others(p), log' = log,
           \/ Len(log) < MaxRecords
           \/ p \in Working
           \/ pc'[p] = "idle"
    PROVE  Bounded'
<1>1. Len(log) \in Nat /\ MaxRecords \in Nat
  BY PadAssumption DEF Inv, Shape, Records
<1>2. /\ Working \in SUBSET Procs /\ Working' \in SUBSET Procs
      /\ Cardinality(Working) \in Nat /\ Cardinality(Working') \in Nat
      /\ Cardinality(Procs) \in Nat /\ Cardinality(Working') <= Cardinality(Procs)
  BY Workers DEF Working
<1>3. CASE Len(log) < MaxRecords
  BY <1>1, <1>2, <1>3 DEF Bounded
<1>4. CASE p \in Working \/ pc'[p] = "idle"
  <2>1. Working' \in SUBSET Working
    BY <1>4 DEF Working, Others
  <2>2. Cardinality(Working') <= Cardinality(Working)
    BY <1>2, <2>1, Workers
  <2> QED
    BY <1>1, <1>2, <2>2 DEF Bounded
<1> QED
  BY <1>3, <1>4

\* What the process that moves owes ToStage.
LEMMA ToStageStays ==
    ASSUME ToStage, NEW p \in Procs, Others(p),
           todo'[p] # {} => pc'[p] = "staging" /\ todo'[p] \subseteq plan'[p].what.objects
    PROVE  ToStage'
<1> SUFFICES ASSUME NEW q \in Procs, todo'[q] # {}
             PROVE  pc'[q] = "staging" /\ todo'[q] \subseteq plan'[q].what.objects
  BY DEF ToStage
<1> QED
  BY DEF ToStage, Others

LEMMA PreparingTyped ==
    ASSUME Inv, Typing, NEW p \in Procs, NEW what, NEW head, Prepare(p, what, head),
           Len(log) < MaxRecords \/ p \in Working
    PROVE  Typing'
<1>1. /\ pc'[p] = "staging" /\ todo'[p] = what.objects /\ Others(p)
      /\ plan'[p] = [what |-> what, expected_head |-> head]
      /\ UNCHANGED <<log, cas, base, built, index, mine>>
  BY DEF Inv, Shape, Prepare, Others, private
<1>2. plan'[p].what = what
  BY <1>1
<1>3. Bounded'
  BY <1>1, BoundedStays DEF Typing
<1>4. ToStage'
  BY <1>1, <1>2, ToStageStays DEF Typing
<1>5. Dated' /\ Indexed'
  BY <1>1 DEF Typing, Dated, Indexed
<1> QED
  BY <1>3, <1>4, <1>5 DEF Typing

\* The events a checkpoint counts are in the log when it is staged.
LEMMA StagingTyped ==
    ASSUME Inv, LInv, Typing, NEW p \in Procs, NEW ref \in todo[p], Stage(p, ref)
    PROVE  Typing'
<1>1. /\ pc[p] = "staging" /\ todo'[p] = todo[p] \ {ref} /\ Others(p)
      /\ cas' = cas \cup {ref}
      /\ UNCHANGED <<log, pc, plan, base, built, index, mine>>
  BY DEF Inv, Shape, Stage, Others, private
<1>2. Bounded'
  BY <1>1, BoundedStays DEF Typing, Working
<1>3. todo[p] \subseteq plan[p].what.objects
  BY DEF Typing, ToStage
<1>4. ToStage'
  BY <1>1, <1>3, ToStageStays DEF Typing
<1>5. ref \notin Refs => ref.event_count \in 0..Len(log)
  BY <1>1, <1>3 DEF LInv, Sound, Busy, Certified
<1>6. Len(log) \in Nat
  BY DEF Inv, Shape, Records
<1>7. Dated'
  BY <1>1, <1>5, <1>6 DEF Typing, Dated
<1> QED
  BY <1>1, <1>2, <1>4, <1>7 DEF Typing, Indexed

LEMMA ReturningTyped ==
    ASSUME Inv, Typing, NEW p \in Procs, Return(p), UNCHANGED <<log, cas>>, Indexed'
    PROVE  Typing'
<1>1. Others(p) /\ pc'[p] = "idle" /\ todo'[p] = {}
  BY Returned DEF Inv
<1>2. Bounded' /\ ToStage'
  BY <1>1, BoundedStays, ToStageStays DEF Typing
<1> QED
  BY <1>2 DEF Typing, Dated

\* The record that is published takes the place of the process that worked on it.
LEMMA ReplacingTyped ==
    ASSUME Inv, LInv, Typing, NEW p \in Procs, Replace(p)
    PROVE  Typing'
<1> DEFINE record == [what |-> plan[p].what, prev_record_hash |-> plan[p].expected_head]
<1>1. pc[p] = "loaded" /\ base[p] = log /\ Records(log) /\ p \in Working
  BY DEF Replace, Inv, Shape, LInv, Sound, Working
<1>2. log' = Append(log, record) /\ Return(p) /\ UNCHANGED <<cas, built>>
  BY <1>1 DEF Replace
<1> HIDE DEF record
<1>3. Len(log) \in Nat /\ Len(log') = Len(log) + 1
  <2>1. Len(log) \in Nat /\ Len(Append(log, record)) = Len(log) + 1
    BY <1>1, Appended
  <2> QED
    BY <1>2, <2>1
<1>4. Others(p) /\ pc'[p] = "idle" /\ todo'[p] = {}
  BY <1>2, Returned DEF Inv
<1>5. Working' = Working \ {p}
  BY <1>4 DEF Working, Others
<1>6. /\ Cardinality(Working) \in Nat /\ Cardinality(Procs) \in Nat
      /\ Cardinality(Working \ {p}) = Cardinality(Working) - 1
  <2>1. Working \in SUBSET Procs
    BY DEF Working
  <2> QED
    BY <1>1, <2>1, Workers
<1>7. Bounded'
  BY <1>3, <1>5, <1>6, PadAssumption DEF Typing, Bounded
<1>8. ToStage'
  BY <1>4, ToStageStays DEF Typing
<1>9. Dated'
  <2> SUFFICES ASSUME NEW r \in cas, r \notin Refs PROVE r.event_count \in 0..Len(log')
    BY <1>2 DEF Dated
  <2>1. r.event_count \in 0..Len(log)
    BY <1>1 DEF Typing, Dated, Inv
  <2> QED
    BY <1>3, <2>1
<1>10. Indexed'
  BY DEF Replace, OnRecord, Typing, Indexed
<1> QED
  BY <1>7, <1>8, <1>9, <1>10 DEF Typing

LEMMA SteppingTyped ==
    ASSUME Inv, LInv, Typing, [Next]_vars
    PROVE  Typing'
<1>1. CASE UNCHANGED vars
  BY <1>1 DEF vars, private, Typing, Bounded, Working, Dated, ToStage, Indexed
<1> SUFFICES ASSUME NEW p \in Procs,
                    \/ PlanCommit(p) \/ PlanAddObject(p) \/ ReadStats(p) \/ PlanCheckpoint(p)
                    \/ \E ref \in todo[p] : Stage(p, ref)
                    \/ EnterLock(p) \/ Conflict(p) \/ Load(p) \/ Replace(p)
                    \/ EnsureIndex(p) \/ Crash(p)
             PROVE  Typing'
  BY <1>1 DEF Next
<1>2. CASE PlanCommit(p) \/ PlanAddObject(p)
  BY <1>2, PreparingTyped DEF PlanCommit, PlanAddObject
<1>3. CASE PlanCheckpoint(p) /\ ReadsHead(log)
  BY <1>3, PreparingTyped DEF PlanCheckpoint, Working
<1>4. CASE ReadStats(p)
  <2>1. /\ Len(log) < MaxRecords /\ pc[p] = "idle" /\ Others(p)
        /\ UNCHANGED <<log, cas, plan, todo, built, index, mine>>
    BY <1>4 DEF Inv, Shape, ReadStats, Others, private
  <2>2. Bounded'
    BY <2>1, BoundedStays DEF Typing
  <2>3. todo[p] = {}
    BY <2>1 DEF Typing, ToStage
  <2>4. ToStage'
    BY <2>1, <2>3, ToStageStays DEF Typing
  <2> QED
    BY <2>1, <2>2, <2>4 DEF Typing, Dated, Indexed
<1>5. CASE \E ref \in todo[p] : Stage(p, ref)
  BY <1>5, StagingTyped
<1>6. CASE EnterLock(p)
  <2>1. /\ pc[p] = "staging" /\ todo[p] = {} /\ Others(p)
        /\ UNCHANGED <<log, cas, todo, built, index, mine>>
    BY <1>6 DEF Inv, Shape, EnterLock, Staged, Others, private
  <2>2. Bounded' /\ ToStage'
    BY <2>1, BoundedStays, ToStageStays DEF Typing, Working
  <2> QED
    BY <2>1, <2>2 DEF Typing, Dated, Indexed
<1>7. CASE Load(p) /\ Rereads(log)
  <2>1. /\ pc[p] = "locked" /\ Others(p)
        /\ UNCHANGED <<log, cas, plan, todo, built, index, mine>>
    BY <1>7 DEF Inv, Shape, Load, Others, private
  <2>2. todo[p] = {}
    BY <2>1 DEF Typing, ToStage
  <2>3. Bounded' /\ ToStage'
    BY <2>1, <2>2, BoundedStays, ToStageStays DEF Typing, Working
  <2> QED
    BY <2>1, <2>3 DEF Typing, Dated, Indexed
<1>8. CASE \/ Load(p) /\ ~Rereads(log)
           \/ Conflict(p)
           \/ PlanCheckpoint(p) /\ ~ReadsHead(log)
  <2>1. Return(p) /\ UNCHANGED <<log, cas, index, mine>>
    BY <1>8 DEF Load, Conflict, PlanCheckpoint, private
  <2> QED
    BY <2>1, ReturningTyped DEF Typing, Indexed
<1>9. CASE Replace(p)
  BY <1>9, ReplacingTyped
<1>10. CASE EnsureIndex(p)
  <2>1. /\ UNCHANGED <<log, cas, pc, plan, todo, mine>>
        /\ index' = [index EXCEPT ![p] = Rebuilt(log)]
    BY <1>10 DEF EnsureIndex
  <2>2. Rebuilt(log) \subseteq Edges
    BY RebuiltSound DEF Authorities
  <2>3. Indexed'
    BY <2>1, <2>2 DEF Typing, Indexed
  <2> QED
    BY <2>1, <2>3 DEF Typing, Bounded, Working, Dated, ToStage
<1>11. CASE Crash(p)
  <2>1. Indexed'
    BY <1>11 DEF Crash, Typing, Indexed
  <2> QED
    BY <1>11, <2>1, ReturningTyped DEF Crash
<1> QED
  BY <1>2, <1>3, <1>4, <1>5, <1>6, <1>7, <1>8, <1>9, <1>10, <1>11

\* Where the lock excludes, the log outgrows its bound by no more than the plans that were made
\* when it was reached, and no checkpoint in the store counts records that never were
\* (pad.py:301-309, log.py:175-233).
THEOREM PadTyped ==
    ASSUME Locking
    PROVE  Spec => []TypeOK
<1>1. Init => Typing
  <2> SUFFICES ASSUME Init PROVE Typing
    OBVIOUS
  <2>1. Working = {}
    BY DEF Init, Working
  <2>2. Cardinality(Working) = 0 /\ Cardinality(Procs) \in Nat \ {0}
    BY <2>1, Workers, FS_EmptySet
  <2>3. Bounded
    BY <2>2, NoRecords, PadAssumption DEF Init, Bounded
  <2> QED
    BY <2>3 DEF Init, Typing, Dated, ToStage, Indexed
<1>2. Inv /\ LInv /\ Typing /\ [Next]_vars => Typing'
  BY SteppingTyped
<1>3. Inv /\ Typing => TypeOK
  <2> SUFFICES ASSUME Inv, Typing PROVE TypeOK
    OBVIOUS
  <2>1. Len(log) \in Nat /\ Cardinality(Working) \in Nat /\ Cardinality(Procs) \in Nat
    <3>1. Working \in SUBSET Procs
      BY DEF Working
    <3> QED
      BY <3>1, Workers DEF Inv, Shape, Records
  <2>2. Len(log) < MaxRecords + Cardinality(Procs)
    BY <2>1, PadAssumption DEF Typing, Bounded
  <2>3. pc \in [Procs -> {"idle", "counted", "staging", "locked", "loaded"}]
    BY DEF Inv, Shape, Busy
  <2> QED
    BY <2>2, <2>3 DEF TypeOK, Typing, Dated, ToStage, Indexed, Inv, Shape
<1> QED
  BY <1>1, <1>2, <1>3, Held, Locked, PTL DEF Spec
=============================================================================
