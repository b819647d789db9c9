--------------------------------- MODULE Pad ---------------------------------
(***************************************************************************)
(* Processes that share one pad directory: the content-addressed store     *)
(* (cas.py), the hash-chained authority log (log.py) and, in each process, *)
(* the facade that publishes commits and keeps a private index of the      *)
(* graph's edges (pad.py, index.py).                                       *)
(*                                                                         *)
(* A publication reads the head, stages every payload in the store without *)
(* any lock, then takes the log's file lock, compares the head and         *)
(* replaces the whole log file.  Steps of different processes interleave   *)
(* between any two of these.  A crash loses what a process has in memory   *)
(* and releases its lock; files are only ever replaced atomically.         *)
(*                                                                         *)
(* What is abstracted.  A payload is its ref, and a record hash, which     *)
(* covers the record and the hash before it, is the sequence of everything *)
(* recorded so far: equal hashes mean equal histories.  Timestamps,        *)
(* receipts, blobs' media types and the outbox rows of a commit are left   *)
(* out; so is a plan that validation refuses, which changes nothing.  Of   *)
(* the text of a record only what stops its being read back is kept.       *)
(* Locking is FALSE where the platform has no fcntl: _lock then excludes   *)
(* nobody.                                                                 *)
(***************************************************************************)
EXTENDS Integers, Sequences, SequencesExt, FiniteSets

CONSTANTS
    Procs,        \* processes, each with its own PopperPad
    Refs,         \* objects and blobs callers may store
    Edges,        \* those that are edges (schema popperpad/edge/v1)
    Bundles,      \* sets of refs callers commit together
    Scopes,       \* logical_authority_scope of the policies callers commit under
    LongLine(_),  \* a record of this, its newline included, takes more than 4096 bytes
    SplitLine(_), \* a record of this holds a separator that splitlines() cuts it at
    Locking,      \* fcntl is available
    MaxRecords,   \* bound: no plan is made once the log is this long
    None          \* no head read, no plan

ASSUME PadAssumption ==
    /\ IsFiniteSet(Procs) /\ Procs # {}
    /\ Edges \subseteq Refs
    /\ Bundles \subseteq SUBSET Refs
    /\ Scopes \subseteq {"none", "import_trusted_receipt", "import_quarantined"}
    /\ Locking \in BOOLEAN
    /\ MaxRecords \in Nat

VARIABLES
    log,          \* the records of log.jsonl
    cas,          \* the refs whose bytes are in the store
    pc,           \* where each process is
    plan,         \* what it is publishing, and on which head
    todo,         \* payloads it has still to stage
    base,         \* the log as it read it under the lock
    built,        \* PopperPad._index_built
    index,        \* PadIndex._edge_refs
    mine          \* edges with authority it published since it started

vars == <<log, cas, pc, plan, todo, base, built, index, mine>>
private == <<built, index, mine>>

-----------------------------------------------------------------------------
\* A record hash names the record and all before it.
RecordHash(record) == Append(record.prev_record_hash, record.what)

\* Only the last line is read: the head is the hash of the last record ...
HeadOf(records) == IF records = <<>> THEN <<>> ELSE RecordHash(Last(records))

\* ... and only from the last block of the file: of a longer line only the end is found, which
\* does not parse (log.py:43-67).
ReadsHead(records) == records # <<>> => ~LongLine(Last(records).what)

\* AppendOnlyLog._verify_records.
Chained(records) ==
    \A i \in DOMAIN records :
        records[i].prev_record_hash = IF i = 1 THEN <<>> ELSE RecordHash(records[i - 1])

\* Under the lock the whole text is read again, and cut with str.splitlines(), which also cuts
\* at U+2028, U+2029 and U+0085: canonical JSON leaves them as they are, and the pieces do not
\* parse (log.py:199-204).
Rereads(records) == Chained(records) /\ \A i \in DOMAIN records : ~SplitLine(records[i].what)

Commit(objects, scope) == [op |-> "commit_bundle", objects |-> objects, scope |-> scope]

\* An object with floats is published as a version-1 record of its own.
AddObject(ref) == [op |-> "add_object", objects |-> {ref}, scope |-> "none"]

Checkpoint(head, count) == [log_head |-> head, event_count |-> count]

\* Slip: where an edge came from is forgotten.
OnRecordUnscoped(edges, what) == edges \cup (what.objects \cap Edges)

\* Slip: objects of every schema are taken for edges.
OnRecordAnySchema(edges, what) ==
    IF what.scope = "import_quarantined" THEN edges ELSE edges \cup what.objects

\* PadIndex.on_record for every logical record of one commit.
OnRecord(edges, what) ==
    IF what.scope = "import_quarantined" THEN edges ELSE edges \cup (what.objects \cap Edges)

\* PadIndex.rebuild_from_log: on_record for each record, in an empty index.
Rebuilt(records) == UNION {OnRecord({}, records[i].what) : i \in DOMAIN records}

-----------------------------------------------------------------------------
Init ==
    /\ log = <<>>
    /\ cas = {}
    /\ pc = [p \in Procs |-> "idle"]
    /\ plan = [p \in Procs |-> None]
    /\ todo = [p \in Procs |-> {}]
    /\ base = [p \in Procs |-> <<>>]
    /\ built = [p \in Procs |-> FALSE]
    /\ index = [p \in Procs |-> {}]
    /\ mine = [p \in Procs |-> {}]

Holders == {p \in Procs : pc[p] \in {"locked", "loaded"}}

\* Slip: the lock is never waited for.
LockIgnored == TRUE

LockFree == Locking => Holders = {}

\* The operation is over, by return or by exception.
Return(p) ==
    /\ pc' = [pc EXCEPT ![p] = "idle"]
    /\ plan' = [plan EXCEPT ![p] = None]
    /\ todo' = [todo EXCEPT ![p] = {}]
    /\ base' = [base EXCEPT ![p] = <<>>]

Prepare(p, what, head) ==
    /\ pc' = [pc EXCEPT ![p] = "staging"]
    /\ plan' = [plan EXCEPT ![p] = [what |-> what, expected_head |-> head]]
    /\ todo' = [todo EXCEPT ![p] = what.objects]
    /\ UNCHANGED <<log, cas, base, private>>

\* commit_values, commit_prevalidated_values: read the head, plan on it.
PlanCommit(p) ==
    /\ pc[p] = "idle"
    /\ Len(log) < MaxRecords
    /\ ReadsHead(log)
    /\ \E bundle \in Bundles, scope \in Scopes : Prepare(p, Commit(bundle, scope), HeadOf(log))

PlanAddObject(p) ==
    /\ pc[p] = "idle"
    /\ Len(log) < MaxRecords
    /\ \E ref \in Refs : Prepare(p, AddObject(ref), None)

\* checkpoint: the statistics first, then an ordinary commit.
ReadStats(p) ==
    /\ pc[p] = "idle"
    /\ Len(log) < MaxRecords
    /\ pc' = [pc EXCEPT ![p] = "counted"]
    /\ base' = [base EXCEPT ![p] = log]
    /\ UNCHANGED <<log, cas, plan, todo, private>>

\* Slip: the records are counted again when the checkpoint is planned.
StatsCountedLate(p) == Checkpoint(HeadOf(base[p]), Len(log))

Stats(p) == Checkpoint(HeadOf(base[p]), Len(base[p]))

PlanCheckpoint(p) ==
    /\ pc[p] = "counted"
    /\ IF ReadsHead(log)
       THEN Prepare(p, Commit({Stats(p)}, "none"), HeadOf(log))
       ELSE Return(p) /\ UNCHANGED <<log, cas, private>>

\* ContentAddressedStore.put_bytes; putting what is there already changes nothing.
Stage(p, ref) ==
    /\ pc[p] = "staging"
    /\ ref \in todo[p]
    /\ cas' = cas \cup {ref}
    /\ todo' = [todo EXCEPT ![p] = @ \ {ref}]
    /\ UNCHANGED <<log, pc, plan, base, private>>

\* Slip: the record is published while payloads are still being written.
StagedPartly(p) == pc[p] = "staging" /\ Cardinality(todo[p]) <= 1

Staged(p) == pc[p] = "staging" /\ todo[p] = {}

\* append_prepared compares, append takes whatever head there is.
HeadMatches(p) ==
    plan[p].what.op = "commit_bundle" => plan[p].expected_head = HeadOf(log)

EnterLock(p) ==
    /\ Staged(p)
    /\ LockFree
    /\ ReadsHead(log)
    /\ HeadMatches(p)
    /\ pc' = [pc EXCEPT ![p] = "locked"]
    /\ plan' = [plan EXCEPT ![p] =
           [what |-> plan[p].what,
            expected_head |-> IF plan[p].what.op = "add_object" THEN HeadOf(log)
                              ELSE plan[p].expected_head]]
    /\ UNCHANGED <<log, cas, todo, base, private>>

\* "commit conflict: authoritative log head changed", or the head cannot be read.  What was
\* staged stays.
Conflict(p) ==
    /\ Staged(p)
    /\ LockFree
    /\ ReadsHead(log) => ~HeadMatches(p)
    /\ Return(p)
    /\ UNCHANGED <<log, cas, private>>

\* _append_line_atomically_unlocked reads and verifies the whole file, and raises on a piece
\* of a record or, with "log corruption", if the chain is broken ...
Load(p) ==
    /\ pc[p] = "locked"
    /\ IF Rereads(log)
       THEN /\ pc' = [pc EXCEPT ![p] = "loaded"]
            /\ base' = [base EXCEPT ![p] = log]
            /\ UNCHANGED <<plan, todo>>
       ELSE Return(p)
    /\ UNCHANGED <<log, cas, private>>

\* ... and replaces it; the index, once built, learns of the new record.
Replace(p) ==
    LET what == plan[p].what
    IN  /\ pc[p] = "loaded"
        /\ log' = Append(base[p], [what |-> what, prev_record_hash |-> plan[p].expected_head])
        /\ index' = [index EXCEPT ![p] = IF built[p] THEN OnRecord(@, what) ELSE @]
        /\ mine' = [mine EXCEPT ![p] =
                       IF what.scope = "import_quarantined" THEN @
                       ELSE @ \cup (what.objects \cap Edges)]
        /\ Return(p)
        /\ UNCHANGED <<cas, built>>

\* _ensure_index, on the first status or transfer_paths of a process.
EnsureIndex(p) ==
    /\ pc[p] = "idle"
    /\ ~built[p]
    /\ built' = [built EXCEPT ![p] = TRUE]
    /\ index' = [index EXCEPT ![p] = Rebuilt(log)]
    /\ UNCHANGED <<log, cas, pc, plan, todo, base, mine>>

\* The process dies and is started again.
Crash(p) ==
    /\ pc[p] # "idle" \/ built[p]
    /\ Return(p)
    /\ built' = [built EXCEPT ![p] = FALSE]
    /\ index' = [index EXCEPT ![p] = {}]
    /\ mine' = [mine EXCEPT ![p] = {}]
    /\ UNCHANGED <<log, cas>>

Next ==
    \E p \in Procs :
        \/ PlanCommit(p)
        \/ PlanAddObject(p)
        \/ ReadStats(p)
        \/ PlanCheckpoint(p)
        \/ \E ref \in todo[p] : Stage(p, ref)
        \/ EnterLock(p)
        \/ Conflict(p)
        \/ Load(p)
        \/ Replace(p)
        \/ EnsureIndex(p)
        \/ Crash(p)

Spec == Init /\ [][Next]_vars

-----------------------------------------------------------------------------
Checkpoints == [log_head : Seq([op : STRING, objects : SUBSET Refs, scope : STRING]),
                event_count : Nat]

\* Every variable has the type the code gives it, and the log stays within the
\* bound plus the plans already made when it was reached.
TypeOK ==
    /\ Len(log) < MaxRecords + Cardinality(Procs)
    /\ \A r \in cas : r \notin Refs => r.event_count <= Len(log)
    /\ pc \in [Procs -> {"idle", "counted", "staging", "locked", "loaded"}]
    /\ \A p \in Procs :
           todo[p] # {} => pc[p] = "staging" /\ todo[p] \subseteq plan[p].what.objects
    /\ built \in [Procs -> BOOLEAN]
    /\ index \in [Procs -> SUBSET Edges]
    /\ mine \in [Procs -> SUBSET Edges]

\* A published record is never lost or changed, whoever publishes meanwhile
\* (log.py:104, "atomic compare-and-swap append").
AppendOnly == [][IsPrefix(log, log')]_log

\* The log always verifies: every record names the one before it.
Verifies == Chained(log)

\* Whatever crashes or conflicts, a record that is public has all its payloads in
\* the store (pad.py:88-91, "cannot expose a partial authoritative state").
Resolvable == \A i \in DOMAIN log : log[i].what.objects \subseteq cas

\* A checkpoint certifies a moment of this log that really was: a number of
\* records and the head they had, before its own record.
CheckpointsTrue ==
    \A i \in DOMAIN log : \A c \in log[i].what.objects \ Refs :
        /\ c.event_count < i
        /\ c.log_head = HeadOf(SubSeq(log, 1, c.event_count))

\* The log says nothing false, neither of its own order nor of its past, whatever the processes
\* that write to it have read and when (log.py:175-233, pad.py:301-309).
LogTrue == Verifies /\ CheckpointsTrue

Authoritative(edge) ==
    \E i \in DOMAIN log : edge \in log[i].what.objects /\ log[i].what.scope # "import_quarantined"

\* A process that answers a status query counts every edge it published itself
\* and none that has only ever been imported in quarantine.
IndexSound ==
    \A p \in Procs : built[p] =>
        /\ mine[p] \subseteq index[p]
        /\ \A edge \in index[p] : edge \in Edges /\ Authoritative(edge)

\* Where one process owns the pad, the index kept up record by record is the one
\* a rebuild would give (index.py:16-18).
IndexCurrent == \A p \in Procs : built[p] => index[p] = {edge \in Edges : Authoritative(edge)}
=============================================================================
