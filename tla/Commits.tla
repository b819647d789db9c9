------------------------------ MODULE Commits -------------------------------
(***************************************************************************)
(* A log with its real records: what the planner derives, what the         *)
(* validator admits and what the log holds, over a history of plans of     *)
(* which many lose the race for the head (core/commit.py, log.py).  Pad    *)
(* has the same publication step by step for several processes and keeps   *)
(* the records abstract; here the publication is one step and the records  *)
(* are built field by field.                                               *)
(*                                                                         *)
(* A bundle need not come from one plan: append_prepared takes any         *)
(* CommitBundle value, so its caller may also put one together (BundlesOf).*)
(***************************************************************************)
EXTENDS CommitPlan

CONSTANTS
    Requests,    \* what may be asked for: a request without its head
    Notes,       \* the contents of version-1 records
    OldLogs,     \* the logs a pad may start with, their records by earlier releases
    LongLine(_),  \* a record's line, its newline included, takes more than 4096 bytes
    SplitLine(_), \* a record's line holds a separator that splitlines() cuts it at
    MaxRecords,  \* bound: records the log may hold
    MaxPlans     \* bound: plans ever made

VARIABLES
    log,      \* the records of log.jsonl
    planned,  \* the requests planned so far, with the head each was bound to
    handed    \* for each record of the log, the payloads handed in with it

vars == <<log, planned, handed>>

\* The head of a log when it had i records.
HeadAt(records, i) == IF i = 0 THEN NoRoot ELSE records[i].record_hash
CurrentHead == HeadAt(log, Len(log))

\* The head is read from the last block of the file: of a longer line only the end is
\* found, which does not parse (log.py:43-67, 141-151).
ReadsHead(records) == records # <<>> => ~LongLine(records[Len(records)])

On(request, head) ==
    [expected_head |-> head, created_at |-> request.created_at,
     evidence_root |-> request.evidence_root, objects |-> request.objects,
     blobs |-> request.blobs, outbox |-> request.outbox,
     policy_version |-> request.policy_version, core_version |-> request.core_version]

IsCommit(record) == "receipt" \in DOMAIN record.core

Note(note, head) ==
    [core |-> [note |-> note, prev_record_hash |-> head],
     record_hash |-> Hash(<<"log-record", 1>>, [note |-> note, prev_record_hash |-> head])]

\* What verify asks of each record of the log, whatever wrote it.
Verifies(record, head) ==
    /\ record.core.prev_record_hash = head
    /\ IF IsCommit(record) THEN ValidRecord(record, TRUE)
                           ELSE record = Note(record.core.note, head)

Verified(records) ==
    \A i \in DOMAIN records : Verifies(records[i], HeadAt(records, i - 1))

\* An append reads the head, and then every record again: it cuts the text with
\* str.splitlines(), which also cuts at U+2028, U+2029 and U+0085, characters that
\* canonical JSON writes as they are; the pieces do not parse (log.py:199-204).
CanAppend(records) ==
    /\ ReadsHead(records)
    /\ \A i \in DOMAIN records : ~SplitLine(records[i])
    /\ Verified(records)

\* A bundle b with another core, and the record hash that fits it.
Around(b, core) ==
    [b EXCEPT !.record = Sealed(core), !.record_hash = Sealed(core).record_hash,
              !.commit_root = core.commit_root, !.receipt = core.receipt,
              !.outbox = core.outbox]

\* b with the effects, the receipt or the payloads of c, and b with a receipt of version 1.
WithEffects(b, c) == Around(b, [b.record.core EXCEPT !.outbox = c.outbox])
WithReceipt(b, c) == Around(b, [b.record.core EXCEPT !.receipt = c.receipt])
WithPayloads(b, c) == [b EXCEPT !.objects = c.objects]
AsOfVersionOne(b) == Around(b, RecordCore(1, ContentsOf(b.record.core)))

\* The bundles a caller may hand in: those it planned, and those it puts together.
BundlesOf(plans) ==
    LET Bundles == {BundleOf(p) : p \in plans}
    IN  Bundles
        \cup {WithEffects(b, c) : b \in Bundles, c \in Bundles}
        \cup {WithReceipt(b, c) : b \in Bundles, c \in Bundles}
        \cup {WithPayloads(b, c) : b \in Bundles, c \in Bundles}
        \cup {AsOfVersionOne(b) : b \in Bundles}

PayloadsOf(b) ==
    {Ref(b.objects[i].payload) : i \in DOMAIN b.objects}
    \cup {Ref(b.blobs[i].payload) : i \in DOMAIN b.blobs}

ASSUME RequestsAssumption == \A request \in Requests : Requested(request)

\* What earlier releases left are sequences of records that verify, and their commits
\* are of version 1.
ASSUME OldLogsAssumption ==
    \A old \in OldLogs :
        /\ old \in Seq({old[i] : i \in DOMAIN old}) /\ Verified(old)
        /\ \A i \in DOMAIN old : IsCommit(old[i]) => old[i].core.receipt.version = 1

-----------------------------------------------------------------------------
Init ==
    /\ log \in OldLogs
    /\ planned = {}
    /\ handed = [i \in DOMAIN log |-> {}]

\* The planner is pure and is told the head, which has to be read: a stale one serves it
\* as well.
PlanCommitOn(request) ==
    /\ Cardinality(planned) < MaxPlans
    /\ ReadsHead(log)
    /\ PlanCommit(On(request, CurrentHead)).code = Ok
    /\ planned' = planned \cup {On(request, CurrentHead)}
    /\ UNCHANGED <<log, handed>>

AppendPrepared(b) ==
    /\ Len(log) < MaxRecords
    /\ ValidBundle(b)
    /\ CanAppend(log)
    /\ b.expected_head = CurrentHead
    /\ log' = Append(log, b.record)
    /\ handed' = Append(handed, PayloadsOf(b))
    /\ UNCHANGED planned

AppendNote(note) ==
    /\ Len(log) < MaxRecords
    /\ CanAppend(log)
    /\ log' = Append(log, Note(note, CurrentHead))
    /\ handed' = Append(handed, {})
    /\ UNCHANGED planned

Next ==
    \/ \E request \in Requests : PlanCommitOn(request)
    \/ \E b \in BundlesOf(planned) : AppendPrepared(b)
    \/ \E note \in Notes : AppendNote(note)

Spec == Init /\ [][Next]_vars

-----------------------------------------------------------------------------
(* Properties. *)

Commits == {i \in DOMAIN log : IsCommit(log[i])}

\* No two effects of the whole log share an id, so that pending_outbox never meets
\* CONFLICTING_EFFECT_ID (core/outbox.py:158) in a log written by append_prepared:
\* not within one commit that asks for the same effect twice, not between a request
\* and its retry, not between commits of different receipt versions.
EffectIdsUnique ==
    \A i, j \in Commits : \A m \in DOMAIN log[i].core.outbox, n \in DOMAIN log[j].core.outbox :
        log[i].core.outbox[m].effect_id = log[j].core.outbox[n].effect_id => i = j /\ m = n

\* A replay id says which commit it is: two plans that differ in anything, effects,
\* evidence and time included, have different ones (tests/test_commit_bundle.py:48).
ReplayIdentifies ==
    \A p, q \in planned :
        ReplayId(2, Contents(p)) = ReplayId(2, Contents(q)) => Contents(p) = Contents(q)

\* Whatever bundle was handed in, what the log took is the derivation, under the
\* receipt version of today, of a request somebody planned (log.py:175-191); only
\* the records it started with may be older.
RecordsDerived ==
    \A i \in Commits :
        \/ log[i].core.receipt.version = 1 /\ \E old \in OldLogs : i <= Len(old) /\ log[i] = old[i]
        \/ \E p \in planned : log[i] = PlanCommit(p).records[1]

\* Every object and blob a record names was handed in with it, byte for byte, so the
\* payloads the publisher stages are those the record promises (commit.py:543).
RowsBacked ==
    \A i \in Commits :
        log[i].core.receipt.version = 2 =>
            handed[i] = RefsOf(log[i].core.objects) \cup RefsOf(log[i].core.blobs)

\* verify, which reads the file line by line, accepts whatever the log was made to take: what
\* append and append_prepared admit is what verify accepts (log.py:235-242, 253-292).  The
\* next append reads it too, but for the lines CanAppend names; behind those the log verifies
\* and takes no more.
StaysReadable == Verified(log)

\* A head that was replaced never becomes the head again: a plan that lost the race
\* can be thrown away, it cannot go through later (log.py:190-192).
HeadsNeverReturn ==
    \A i, j \in 0..Len(log) : HeadAt(log, i) = HeadAt(log, j) => i = j

\* The log takes what was planned, all of it and nothing else, however bundles are put together
\* (commit.py:412-555).
AdmittedAsPlanned == ReplayIdentifies /\ RecordsDerived /\ RowsBacked

\* The log verifies at every moment, also when nothing more can be appended to it, and no
\* moment is ever its last record again (log.py:175-292).
LogHolds == StaysReadable /\ HeadsNeverReturn
=============================================================================
