----------------------------- MODULE CommitPlan -----------------------------
(***************************************************************************)
(* How one commit is planned, and how a record or a bundle that somebody   *)
(* hands in is checked: core/commit.py, and the second implementation of   *)
(* the planner in rust/popperpad-core.                                     *)
(*                                                                         *)
(* A hash is written as what was hashed, under its domain: two hashes are  *)
(* equal exactly when domain and value are.  Canonical bytes are therefore *)
(* the value itself, which is what the shared vectors ask of both codecs.  *)
(* An object that is not an integer-only mapping is one whose field exact  *)
(* is FALSE; the length of a payload is determined by its bytes.           *)
(***************************************************************************)
EXTENDS Naturals, Sequences, FiniteSets

\* The string "" where a root may be absent, and one that is no reference.
NoRoot == <<>>
BadRoot == <<"bad">>

ValidRoot(root) == root # BadRoot

Hash(domain, value) == <<domain, value>>
Ref(bytes) == Hash(<<"bytes", 0>>, bytes)

ObjectRows(objects) ==
    [i \in DOMAIN objects |-> [ref |-> Ref(objects[i].bytes), schema |-> objects[i].schema]]
BlobRows(blobs) ==
    [i \in DOMAIN blobs |-> [ref |-> Ref(blobs[i].bytes), media_type |-> blobs[i].media_type]]

-----------------------------------------------------------------------------
(* The derivation of a record from the contents of a commit, c. *)

\* Version 1 binds neither when, nor on what evidence, nor with which effects.
LegacyCommand(version, c) ==
    [expected_head |-> c.expected_head, objects |-> c.objects, blobs |-> c.blobs,
     policy_version |-> c.policy_version, core_version |-> c.core_version]

Command(version, c) == IF version = 1 THEN LegacyCommand(version, c) ELSE c

CommandHash(version, c) == Hash(<<"commit-command", version>>, Command(version, c))

ReplayId(version, c) ==
    Hash(<<"replay-id", version>>,
         [pre_state_root |-> c.expected_head, command_hash |-> CommandHash(version, c)])

\* Slip: an id says what is done, not for which commit.
EffectIdOfIntent(version, c, i) ==
    Hash(<<"outbox-effect-id", version>>, [index |-> i, intent |-> c.outbox[i]])

EffectId(version, c, i) ==
    Hash(<<"outbox-effect-id", version>>,
         [replay_id |-> ReplayId(version, c), index |-> i, intent |-> c.outbox[i]])

EffectRows(version, c) ==
    [i \in DOMAIN c.outbox |-> [effect_id |-> EffectId(version, c, i), intent |-> c.outbox[i]]]

CommitRoot(version, c) ==
    Hash(<<"commit-bundle", version>>,
         [expected_head |-> c.expected_head, created_at |-> c.created_at,
          command_hash |-> CommandHash(version, c), evidence_root |-> c.evidence_root,
          objects |-> c.objects, blobs |-> c.blobs, outbox |-> EffectRows(version, c),
          policy_version |-> c.policy_version, core_version |-> c.core_version])

Receipt(version, c) ==
    [version |-> version, pre_state_root |-> c.expected_head,
     command_hash |-> CommandHash(version, c), evidence_root |-> c.evidence_root,
     policy_version |-> c.policy_version, core_version |-> c.core_version,
     replay_id |-> ReplayId(version, c), next_state_root |-> CommitRoot(version, c),
     effect_plan_hash |-> Hash(<<"effect-plan", version>>, EffectRows(version, c))]

RecordCore(version, c) ==
    [created_at |-> c.created_at, prev_record_hash |-> c.expected_head,
     commit_root |-> CommitRoot(version, c), objects |-> c.objects, blobs |-> c.blobs,
     outbox |-> EffectRows(version, c), receipt |-> Receipt(version, c)]

\* A version-2 log record: its core and the hash of it.
Sealed(core) == [core |-> core, record_hash |-> Hash(<<"log-record", 2>>, core)]

-----------------------------------------------------------------------------
(* The planner. *)

\* What a request may ask to write and to do.
ObjectRequests == Seq([exact : BOOLEAN, schema : STRING, bytes : STRING])
BlobRequests == Seq([media_type : STRING, bytes : STRING])
EffectRequests == Seq([kind : STRING, exact : BOOLEAN, payload : STRING])

Requested(input) ==
    /\ input.objects \in ObjectRequests
    /\ input.blobs \in BlobRequests
    /\ input.outbox \in EffectRequests

\* What a planner is asked to commit, as the record will name it.
Contents(input) ==
    [expected_head |-> input.expected_head, created_at |-> input.created_at,
     evidence_root |-> input.evidence_root, objects |-> ObjectRows(input.objects),
     blobs |-> BlobRows(input.blobs),
     outbox |-> [i \in DOMAIN input.outbox |->
                    [kind |-> input.outbox[i].kind, payload |-> input.outbox[i].payload]],
     policy_version |-> input.policy_version, core_version |-> input.core_version]

Ok == ""
Faults(defects) == {i \in DOMAIN defects : defects[i] # Ok}
FirstFault(defects) ==
    defects[CHOOSE i \in Faults(defects) : \A j \in Faults(defects) : i <= j]

ObjectDefect(input, i) ==
    LET object == input.objects[i]
    IN  IF ~object.exact THEN "INVALID_OBJECT"
        ELSE IF object.schema = "" THEN "INVALID_OBJECT_SCHEMA"
        ELSE IF \E j \in 1..(i - 1) : input.objects[j].bytes = object.bytes THEN "DUPLICATE_WRITE"
        ELSE Ok

\* Slip: a blob is compared with the other blobs only.
BlobDefectApart(input, i) ==
    IF input.blobs[i].media_type = "" THEN "INVALID_MEDIA_TYPE"
    ELSE IF \E j \in 1..(i - 1) : input.blobs[j].bytes = input.blobs[i].bytes
         THEN "DUPLICATE_WRITE" ELSE Ok

BlobDefect(input, i) ==
    LET blob == input.blobs[i]
    IN  IF blob.media_type = "" THEN "INVALID_MEDIA_TYPE"
        ELSE IF \/ \E j \in DOMAIN input.objects : input.objects[j].bytes = blob.bytes
                \/ \E j \in 1..(i - 1) : input.blobs[j].bytes = blob.bytes
             THEN "DUPLICATE_WRITE"
        ELSE Ok

EffectDefect(input, i) ==
    IF input.outbox[i].kind = "" THEN "INVALID_EFFECT"
    ELSE IF ~input.outbox[i].exact THEN "INVALID_OBJECT"
    ELSE Ok

\* Every check of the planner, in the order of the code.
Defects(input) ==
    << IF ValidRoot(input.expected_head) THEN Ok ELSE "INVALID_PRE_STATE_ROOT",
       IF input.created_at # "" THEN Ok ELSE "INVALID_CREATED_AT",
       IF ValidRoot(input.evidence_root) THEN Ok ELSE "INVALID_EVIDENCE_ROOT" >>
    \o [i \in DOMAIN input.objects |-> ObjectDefect(input, i)]
    \o [i \in DOMAIN input.blobs |-> BlobDefect(input, i)]
    \o [i \in DOMAIN input.outbox |-> EffectDefect(input, i)]

Refused(code) == [code |-> code, records |-> <<>>]
Planned(record) == [code |-> Ok, records |-> <<record>>]

\* The receipt's constructor refuses an empty version by raising, after all checks.
PlanCommit(input) ==
    IF Faults(Defects(input)) # {} THEN Refused(FirstFault(Defects(input)))
    ELSE IF "" \in {input.policy_version, input.core_version} THEN Refused("TypeError")
    ELSE Planned(Sealed(RecordCore(2, Contents(input))))

\* What is handed to the log: the record, what it was derived from, and the payloads.
BundleOf(input) ==
    LET record == PlanCommit(input).records[1]
    IN  [expected_head |-> input.expected_head, commit_root |-> record.core.commit_root,
         record_hash |-> record.record_hash, receipt |-> record.core.receipt,
         objects |-> [i \in DOMAIN input.objects |->
                         [ref |-> Ref(input.objects[i].bytes), schema |-> input.objects[i].schema,
                          payload |-> input.objects[i].bytes]],
         blobs |-> [i \in DOMAIN input.blobs |->
                         [ref |-> Ref(input.blobs[i].bytes),
                          media_type |-> input.blobs[i].media_type,
                          payload |-> input.blobs[i].bytes]],
         outbox |-> record.core.outbox, record |-> record]

-----------------------------------------------------------------------------
(* The validators: a record is read back into contents and derived again. *)

ContentsOf(core) ==
    [expected_head |-> core.prev_record_hash, created_at |-> core.created_at,
     evidence_root |-> core.receipt.evidence_root, objects |-> core.objects,
     blobs |-> core.blobs, outbox |-> [i \in DOMAIN core.outbox |-> core.outbox[i].intent],
     policy_version |-> core.receipt.policy_version, core_version |-> core.receipt.core_version]

RefsOf(rows) == {rows[i].ref : i \in DOMAIN rows}

WellFormed(core) ==
    /\ core.receipt.version \in {1, 2}
    /\ ValidRoot(core.prev_record_hash) /\ ValidRoot(core.receipt.evidence_root)
    /\ "" \notin {core.created_at, core.receipt.policy_version, core.receipt.core_version}
    /\ \A i \in DOMAIN core.objects : core.objects[i].schema # ""
    /\ \A i \in DOMAIN core.blobs : core.blobs[i].media_type # ""
    /\ \A i \in DOMAIN core.outbox : core.outbox[i].intent.kind # ""
    /\ Cardinality(RefsOf(core.objects) \cup RefsOf(core.blobs)) =
           Len(core.objects) + Len(core.blobs)

\* Only a log that already holds it may show a receipt of version 1.
ValidRecord(record, legacy) ==
    LET core == record.core
    IN  /\ WellFormed(core)
        /\ legacy \/ core.receipt.version = 2
        /\ record = Sealed(RecordCore(core.receipt.version, ContentsOf(core)))

RowsOfWrites(writes, tag) ==
    [i \in DOMAIN writes |-> [f \in {"ref", tag} |-> writes[i][f]]]

\* Slip: the payloads are not compared with what the record names.
ValidBundleRecord(b) ==
    /\ ValidRecord(b.record, FALSE)
    /\ b.expected_head = b.record.core.prev_record_hash

\* Slip: the record of a bundle is taken as derived.
ValidBundleFields(b) ==
    LET core == b.record.core
    IN  /\ \A i \in DOMAIN b.objects : Ref(b.objects[i].payload) = b.objects[i].ref
        /\ \A i \in DOMAIN b.blobs : Ref(b.blobs[i].payload) = b.blobs[i].ref
        /\ b.expected_head = core.prev_record_hash
        /\ b.record_hash = b.record.record_hash
        /\ RowsOfWrites(b.objects, "schema") = core.objects
        /\ RowsOfWrites(b.blobs, "media_type") = core.blobs
        /\ b.outbox = core.outbox

ValidBundle(b) ==
    LET core == b.record.core
    IN  /\ ValidRecord(b.record, FALSE)
        /\ \A i \in DOMAIN b.objects : Ref(b.objects[i].payload) = b.objects[i].ref
        /\ \A i \in DOMAIN b.blobs : Ref(b.blobs[i].payload) = b.blobs[i].ref
        /\ b.expected_head = core.prev_record_hash
        /\ b.commit_root = core.commit_root
        /\ b.record_hash = b.record.record_hash
        /\ b.receipt = core.receipt
        /\ RowsOfWrites(b.objects, "schema") = core.objects
        /\ RowsOfWrites(b.blobs, "media_type") = core.blobs
        /\ b.outbox = core.outbox

-----------------------------------------------------------------------------
(* The planner in Rust: the same commit written a second time.  It has no  *)
(* receipt constructor, so nothing looks at the versions.                  *)

RustObjectDefect(input, i) ==
    CASE ~input.objects[i].exact -> "INVALID_OBJECT"
      [] input.objects[i].exact /\ input.objects[i].schema = "" -> "INVALID_OBJECT_SCHEMA"
      [] OTHER -> IF \E j \in 1..(i - 1) : input.objects[j].bytes = input.objects[i].bytes
                  THEN "DUPLICATE_WRITE" ELSE Ok

\* seen_refs is shared by objects and blobs.
RustBlobDefect(input, i) ==
    LET seen == {input.objects[j].bytes : j \in DOMAIN input.objects}
                \cup {input.blobs[j].bytes : j \in 1..(i - 1)}
    IN  IF input.blobs[i].media_type = "" THEN "INVALID_MEDIA_TYPE"
        ELSE IF input.blobs[i].bytes \in seen THEN "DUPLICATE_WRITE" ELSE Ok

RustEffectDefect(input, i) ==
    CASE input.outbox[i].kind = "" -> "INVALID_EFFECT"
      [] input.outbox[i].kind # "" /\ ~input.outbox[i].exact -> "INVALID_OBJECT"
      [] OTHER -> Ok

RustHeaderDefects(input) ==
    << IF input.expected_head = BadRoot THEN "INVALID_PRE_STATE_ROOT" ELSE Ok,
       IF input.created_at = "" THEN "INVALID_CREATED_AT" ELSE Ok,
       IF input.evidence_root = BadRoot THEN "INVALID_EVIDENCE_ROOT" ELSE Ok >>

RustDefects(input) ==
    RustHeaderDefects(input)
    \o [i \in DOMAIN input.objects |-> RustObjectDefect(input, i)]
    \o [i \in DOMAIN input.blobs |-> RustBlobDefect(input, i)]
    \o [i \in DOMAIN input.outbox |-> RustEffectDefect(input, i)]

\* One function derives everything, field by field.
RustRecord(input) ==
    LET head == input.expected_head
        objects == ObjectRows(input.objects)
        blobs == BlobRows(input.blobs)
        intents == [i \in DOMAIN input.outbox |->
                       [kind |-> input.outbox[i].kind, payload |-> input.outbox[i].payload]]
        command == Hash(<<"commit-command", 2>>,
                        [expected_head |-> head, created_at |-> input.created_at,
                         evidence_root |-> input.evidence_root, objects |-> objects,
                         blobs |-> blobs, outbox |-> intents,
                         policy_version |-> input.policy_version,
                         core_version |-> input.core_version])
        replay == Hash(<<"replay-id", 2>>, [pre_state_root |-> head, command_hash |-> command])
        effects == [i \in DOMAIN intents |->
                       [effect_id |-> Hash(<<"outbox-effect-id", 2>>,
                                           [replay_id |-> replay, index |-> i,
                                            intent |-> intents[i]]),
                        intent |-> intents[i]]]
        root == Hash(<<"commit-bundle", 2>>,
                     [expected_head |-> head, created_at |-> input.created_at,
                      command_hash |-> command, evidence_root |-> input.evidence_root,
                      objects |-> objects, blobs |-> blobs, outbox |-> effects,
                      policy_version |-> input.policy_version,
                      core_version |-> input.core_version])
        receipt == [version |-> 2, pre_state_root |-> head, command_hash |-> command,
                    evidence_root |-> input.evidence_root,
                    policy_version |-> input.policy_version,
                    core_version |-> input.core_version, replay_id |-> replay,
                    next_state_root |-> root,
                    effect_plan_hash |-> Hash(<<"effect-plan", 2>>, effects)]
        core == [created_at |-> input.created_at, prev_record_hash |-> head,
                 commit_root |-> root, objects |-> objects, blobs |-> blobs,
                 outbox |-> effects, receipt |-> receipt]
    IN  [core |-> core, record_hash |-> Hash(<<"log-record", 2>>, core)]

RustPlanCommit(input) ==
    IF Faults(RustDefects(input)) = {} THEN Planned(RustRecord(input))
    ELSE Refused(FirstFault(RustDefects(input)))
=============================================================================
