------------------------------- MODULE Imports -------------------------------
(***************************************************************************)
(* Importing a bundle: adapters/flow.py over bundle.py, import_auth.py,    *)
(* core/imports.py, import_receipts.py and core/verifier_receipts.py.  An  *)
(* importer reads a directory it does not control, the manifest first and  *)
(* then one payload after the other; decides on what it read, in four      *)
(* stages; and publishes it as one commit on the head it reads then.  The  *)
(* directory may be rewritten between any two of these reads, other        *)
(* commits may take the head, and an importer may die anywhere.            *)
(*                                                                         *)
(* What is abstracted.  Refs and key ids are numbers, which gives the      *)
(* sorting of the code its meaning; the bytes of an object are its ref,    *)
(* which Object resolves, and any other bytes are Junk.  A root (content,  *)
(* unsigned, bundle) is what it hashes, and a signature is the key that    *)
(* made it with the message it was made over.  A file that cannot be       *)
(* parsed is a missing one.  A refusal is reported by its stage: which     *)
(* check of the stage gives its code is left out, and so are staging and   *)
(* the log's lock, which Pad models.                                       *)
(***************************************************************************)
EXTENDS Integers, Sequences, SequencesExt, FiniteSets, Functions

CONSTANTS
    Importers,      \* processes that call import_bundle
    Refs,           \* refs of objects and blobs
    Object,         \* the object each of them resolves to
    Size,           \* bytes of each, and of Junk
    MaxPayload,     \* MAX_PAYLOAD_BYTES
    MaxTotal,       \* MAX_TOTAL_PAYLOAD_BYTES
    Manifests,      \* manifests that may stand in the directory
    Policies,       \* trust policies importers use
    Provenances,    \* what callers say of adapters that passed verification
    LocalCommits,   \* sets of refs committed by the pad's owner
    MaxWrites,      \* bound: changes to the directory
    MaxRecords,     \* bound: no import is planned once the log is this long
    Junk,           \* bytes that are not those of any ref
    None            \* no file, no manifest, no expectation

\* TrustPolicy.__post_init__: trusted_receipt mode needs everything it relies on.
TrustPolicyValid(policy) ==
    /\ policy.minimum_signatures \in Nat \ {0}
    /\ policy.truth_mode \in {"quarantined", "trusted_receipt"}
    /\ policy.truth_mode = "trusted_receipt" =>
           /\ policy.require_signatures
           /\ policy.trusted_verifiers # {}
           /\ policy.accept_verifier_versions # {}
           /\ policy.accept_receipt_policy_hashes # {}
           /\ policy.accept_toolchain_hashes # {}

ASSUME ImportsAssumption ==
    /\ Refs \subseteq Nat
    /\ \A ref \in Refs : Size[ref] \in Nat
    /\ MaxPayload \in Nat /\ MaxTotal \in Nat /\ MaxWrites \in Nat
    /\ \A policy \in Policies : TrustPolicyValid(policy)
    /\ \A objects \in LocalCommits : objects \subseteq Refs

\* The fields of a manifest that parses, and of its signatures.
ASSUME ManifestsAssumption ==
    \A m \in Manifests :
        /\ m.object_refs \in Seq(Refs) /\ m.blob_refs \in Seq(Refs)
        /\ m.signatures \in Seq(ToSet(m.signatures))
        /\ \A i \in DOMAIN m.signatures : m.signatures[i].key_id \in Nat

VARIABLES
    dir,            \* the bundle directory: its manifest and its files
    writes,         \* changes made to it
    log,            \* the pad's commits
    pc,             \* where each importer is
    call,           \* the policy and provenance it was called with
    manifest,       \* the manifest it read
    payloads,       \* the bytes it read for each ref, in manifest order
    head,           \* the head it planned its commit on
    report          \* the status of its last import, or the stage that refused

vars == <<dir, writes, log, pc, call, manifest, payloads, head, report>>

-----------------------------------------------------------------------------
(* Manifests and their roots. *)

Ascending(s) == \A i, j \in DOMAIN s : i < j => s[i] < s[j]

BundleContentRoot(m) ==
    <<m.object_refs, m.blob_refs, m.entry_refs, m.previous_bundle_refs>>

UnsignedBundleRoot(m) == [m EXCEPT !.signatures = <<>>]

SignerKeys(m) == [i \in DOMAIN m.signatures |-> m.signatures[i].key_id]

\* Manifest.__post_init__ and _verify_content_root.
WellFormed(m) ==
    /\ \A refs \in {m.object_refs, m.blob_refs, m.entry_refs, m.previous_bundle_refs} :
           Ascending(refs)
    /\ ToSet(m.entry_refs) \subseteq ToSet(m.object_refs)
    /\ ToSet(m.object_refs) \cap ToSet(m.blob_refs) = {}
    /\ Ascending(SignerKeys(m))
    /\ m.root_hash = BundleContentRoot(m)

PayloadRefs(m) == m.object_refs \o m.blob_refs

-----------------------------------------------------------------------------
(* authenticate_bundle_signatures and admit_bundle_import. *)

\* Every signature is by a trusted key over the unsigned root, or all is refused.
Authenticated(m, policy) ==
    /\ \A i \in DOMAIN m.signatures :
           /\ m.signatures[i].key_id \in policy.trusted_signers
           /\ m.signatures[i].made_with = m.signatures[i].key_id
           /\ m.signatures[i].over = UnsignedBundleRoot(m)
    /\ policy.require_signatures => Len(m.signatures) >= policy.minimum_signatures

\* Slip: only what the bundle lists is compared, not who produced and signed it.
RootAdmittedByContent(m, policy) ==
    policy.require_bundle_root_match =>
        /\ policy.expected_bundle_root # None
        /\ BundleContentRoot(policy.expected_bundle_root) = BundleContentRoot(m)

\* The caller must name the root, which covers the signatures too.
RootAdmitted(m, policy) ==
    policy.require_bundle_root_match =>
        /\ policy.expected_bundle_root # None
        /\ policy.expected_bundle_root = m

Admitted(m, policy, provenance) ==
    /\ RootAdmitted(m, policy)
    /\ policy.expected_previous_bundle_refs \in {None, m.previous_bundle_refs}
    /\ ToSet(SignerKeys(m)) \subseteq policy.trusted_signers
    /\ policy.require_signatures => Len(m.signatures) >= policy.minimum_signatures
    /\ policy.accept_adapters # {} =>
           /\ provenance.storage_adapters # {}
           /\ provenance.storage_adapters \subseteq policy.accept_adapters
    /\ policy.require_anchors \subseteq provenance.anchor_adapters

\* _preflight_import, on the bytes that were read.
Preflighted(m, bytes) ==
    /\ bytes = PayloadRefs(m)
    /\ \A ref \in ToSet(m.object_refs) : Object[ref].valid

-----------------------------------------------------------------------------
(* admit_trusted_truth. *)

ObjectsOf(m, schema) == {ref \in ToSet(m.object_refs) : Object[ref].schema = schema}

TruthEdge(ref) ==
    Object[ref].schema = "edge" /\ Object[ref].edge_type \in {"supports", "refutes"}

TruthEdges(m) == {ref \in ToSet(m.object_refs) : TruthEdge(ref)}

\* parse_verifier_receipt_object.
ReceiptParses(receipt) ==
    /\ receipt.signer_key_id = receipt.statement.verifier_id
    /\ Ascending(receipt.statement.input_roots)

\* _authenticate: the receipt is what a trusted verifier signed.
ReceiptAuthentic(receipt, policy) ==
    /\ receipt.signer_key_id \in policy.trusted_verifiers
    /\ receipt.made_with = receipt.signer_key_id
    /\ receipt.over = receipt.statement

Referenced(statement) ==
    {statement.claim_ref, statement.recipe_ref, statement.evidence_ref, statement.edge_ref}
        \cup ToSet(statement.input_roots) \cup statement.output_roots
        \cup ({statement.context_ref} \ {None})

\* The checks _truth_binding makes before it builds the binding.
EvidencePasses(edge, evidence) ==
    /\ evidence.schema = "evidence"
    /\ evidence.status = "pass"
    /\ Ascending(evidence.subject_refs)
    /\ edge.to_ref \in ToSet(evidence.subject_refs)
    /\ edge.context_ref = evidence.context_ref
    /\ IsInjective(evidence.outputs)

TruthBinding(edge_ref, evidence_ref) ==
    LET edge == Object[edge_ref]
        evidence == Object[evidence_ref]
    IN  [claim_ref |-> edge.to_ref, context_ref |-> edge.context_ref,
         recipe_ref |-> evidence.recipe_ref, evidence_ref |-> evidence_ref,
         edge_ref |-> edge_ref, input_roots |-> evidence.subject_refs,
         result |-> edge.edge_type, output_roots |-> ToSet(evidence.outputs)]

ReceiptAccepted(statement, policy) ==
    /\ statement.verifier_version \in policy.accept_verifier_versions
    /\ statement.policy_hash \in policy.accept_receipt_policy_hashes
    /\ statement.toolchain_hash \in policy.accept_toolchain_hashes

\* admit_authenticated_verifier_receipt.
ReceiptAdmitted(statement, edge_ref, evidence_ref, policy) ==
    LET binding == TruthBinding(edge_ref, evidence_ref)
    IN  /\ ReceiptAccepted(statement, policy)
        /\ \A field \in DOMAIN binding : statement[field] = binding[field]

ReceiptsFor(m, edge_ref, evidence_ref) ==
    {ref \in ObjectsOf(m, "receipt") :
        /\ Object[ref].statement.edge_ref = edge_ref
        /\ Object[ref].statement.evidence_ref = evidence_ref}

\* Every reason a truth edge gives has one receipt, and it is this one.
EdgeAdmitted(m, edge_ref, policy) ==
    LET evidence_refs == Object[edge_ref].evidence_refs
    IN  /\ evidence_refs # <<>>
        /\ Ascending(evidence_refs)
        /\ \A evidence_ref \in ToSet(evidence_refs) :
               /\ evidence_ref \in ToSet(m.object_refs)
               /\ EvidencePasses(Object[edge_ref], Object[evidence_ref])
               /\ \E receipt \in ObjectsOf(m, "receipt") :
                      /\ ReceiptsFor(m, edge_ref, evidence_ref) = {receipt}
                      /\ ReceiptAdmitted(Object[receipt].statement, edge_ref, evidence_ref, policy)

\* Slip: the first reason of an edge is enough.
TruthAdmittedByFirst(m, policy) ==
    policy.truth_mode = "trusted_receipt" =>
        \A edge_ref \in TruthEdges(m) :
            LET first == Head(Object[edge_ref].evidence_refs)
            IN  \E receipt \in ReceiptsFor(m, edge_ref, first) :
                    ReceiptAdmitted(Object[receipt].statement, edge_ref, first, policy)

TruthAdmitted(m, policy) ==
    policy.truth_mode = "trusted_receipt" =>
        /\ \A receipt \in ObjectsOf(m, "receipt") :
               /\ ReceiptParses(Object[receipt])
               /\ ReceiptAuthentic(Object[receipt], policy)
               /\ Referenced(Object[receipt].statement) \subseteq ToSet(PayloadRefs(m))
               /\ \E edge_ref \in TruthEdges(m) :
                      \E evidence_ref \in ToSet(Object[edge_ref].evidence_refs) :
                          receipt \in ReceiptsFor(m, edge_ref, evidence_ref)
        /\ \A edge_ref \in TruthEdges(m) : EdgeAdmitted(m, edge_ref, policy)

-----------------------------------------------------------------------------
Init ==
    /\ \E m \in Manifests : dir = [manifest |-> m, files |-> [ref \in Refs |-> ref]]
    /\ writes = 0
    /\ log = <<>>
    /\ pc = [p \in Importers |-> "idle"]
    /\ call = [p \in Importers |-> None]
    /\ manifest = [p \in Importers |-> None]
    /\ payloads = [p \in Importers |-> <<>>]
    /\ head = [p \in Importers |-> None]
    /\ report = [p \in Importers |-> None]

\* Whoever writes the directory does so file by file, and whenever.
WriteDirectory ==
    /\ writes < MaxWrites
    /\ writes' = writes + 1
    /\ \/ \E m \in Manifests \cup {None} : dir' = [dir EXCEPT !.manifest = m]
       \/ \E ref \in Refs, bytes \in {Junk, None} : dir' = [dir EXCEPT !.files[ref] = bytes]
    /\ UNCHANGED <<log, pc, call, manifest, payloads, head, report>>

\* import_bundle returns, whatever it had in memory is gone.
Report(p, status) ==
    /\ pc' = [pc EXCEPT ![p] = "idle"]
    /\ call' = [call EXCEPT ![p] = None]
    /\ manifest' = [manifest EXCEPT ![p] = None]
    /\ payloads' = [payloads EXCEPT ![p] = <<>>]
    /\ head' = [head EXCEPT ![p] = None]
    /\ report' = [report EXCEPT ![p] = status]

ManifestReadable == dir.manifest # None /\ WellFormed(dir.manifest)

\* load_bundle_dir: the manifest first ...
ReadManifest(p, policy, provenance) ==
    /\ pc[p] = "idle"
    /\ Len(log) < MaxRecords
    /\ ManifestReadable
    /\ pc' = [pc EXCEPT ![p] = "loading"]
    /\ call' = [call EXCEPT ![p] = [policy |-> policy, provenance |-> provenance]]
    /\ manifest' = [manifest EXCEPT ![p] = dir.manifest]
    /\ UNCHANGED <<dir, writes, log, payloads, head, report>>

ManifestRefused(p) ==
    /\ pc[p] = "idle"
    /\ ~ManifestReadable
    /\ Report(p, "load")
    /\ UNCHANGED <<dir, writes, log>>

\* Slip: what was read already does not count against the total.
PayloadFitsAlone(p, bytes) == Size[bytes] <= MaxPayload /\ Size[bytes] <= MaxTotal

BytesRead(p) == SumFunction([i \in DOMAIN payloads[p] |-> Size[payloads[p][i]]])

\* _read_regular_bundle_file stays under what is left of both limits.
PayloadFits(p, bytes) ==
    /\ Size[bytes] <= MaxPayload
    /\ Size[bytes] <= MaxTotal - BytesRead(p)

NextRef(p) == PayloadRefs(manifest[p])[Len(payloads[p]) + 1]

\* ... then every payload, objects before blobs, each in one read ...
ReadPayload(p) ==
    /\ pc[p] = "loading"
    /\ Len(payloads[p]) < Len(PayloadRefs(manifest[p]))
    /\ LET bytes == dir.files[NextRef(p)]
       IN  /\ bytes = NextRef(p)
           /\ PayloadFits(p, bytes)
           /\ payloads' = [payloads EXCEPT ![p] = Append(@, bytes)]
    /\ UNCHANGED <<dir, writes, log, pc, call, manifest, head, report>>

\* ... unless one is missing, too long or not what its name says.
PayloadRefused(p) ==
    /\ pc[p] = "loading"
    /\ Len(payloads[p]) < Len(PayloadRefs(manifest[p]))
    /\ LET bytes == dir.files[NextRef(p)]
       IN  bytes # NextRef(p) \/ ~PayloadFits(p, bytes)
    /\ Report(p, "load")
    /\ UNCHANGED <<dir, writes, log>>

Loaded(p) == pc[p] = "loading" /\ Len(payloads[p]) = Len(PayloadRefs(manifest[p]))

\* The four decisions, each on what was read and nothing else.
Decisions(p) ==
    LET m == manifest[p]
        policy == call[p].policy
    IN  <<<<"signature_authentication", Authenticated(m, policy)>>,
          <<"import_admission", Admitted(m, policy, call[p].provenance)>>,
          <<"preflight", Preflighted(m, payloads[p])>>,
          <<"verifier_receipts", TruthAdmitted(m, policy)>>>>

\* The first decision against the bundle is the one reported.
Refuse(p) ==
    /\ Loaded(p)
    /\ \E i \in DOMAIN Decisions(p) :
           /\ ~Decisions(p)[i][2]
           /\ \A j \in 1..(i - 1) : Decisions(p)[j][2]
           /\ Report(p, Decisions(p)[i][1])
    /\ UNCHANGED <<dir, writes, log>>

\* commit_prevalidated_values reads the head and plans on it.
Plan(p) ==
    /\ Loaded(p)
    /\ \A i \in DOMAIN Decisions(p) : Decisions(p)[i][2]
    /\ pc' = [pc EXCEPT ![p] = "planned"]
    /\ head' = [head EXCEPT ![p] = Len(log)]
    /\ UNCHANGED <<dir, writes, log, call, manifest, payloads, report>>

\* Slip: the payloads are read from the directory once more.
CommittedFromDirectory(p) == [i \in DOMAIN payloads[p] |-> dir.files[PayloadRefs(manifest[p])[i]]]

CommittedBytes(p) == payloads[p]

Scope(policy) ==
    IF policy.truth_mode = "trusted_receipt" THEN "import_trusted_receipt" ELSE "import_quarantined"

\* One record publishes all of the bundle, under the policy that admitted it.
Publish(p) ==
    /\ pc[p] = "planned"
    /\ head[p] = Len(log)
    /\ log' = Append(log, [objects |-> ToSet(manifest[p].object_refs), bytes |-> CommittedBytes(p),
                           evidence_root |-> manifest[p], policy |-> call[p].policy,
                           scope |-> Scope(call[p].policy)])
    /\ Report(p, "imported")
    /\ UNCHANGED <<dir, writes>>

\* "commit conflict: authoritative log head changed".
Conflict(p) ==
    /\ pc[p] = "planned"
    /\ head[p] # Len(log)
    /\ Report(p, "atomic_commit")
    /\ UNCHANGED <<dir, writes, log>>

Crash(p) ==
    /\ pc[p] # "idle"
    /\ Report(p, None)
    /\ UNCHANGED <<dir, writes, log>>

\* The pad's owner commits objects under a policy of their own.
CommitValues ==
    /\ Len(log) < MaxRecords
    /\ \E objects \in LocalCommits :
           log' = Append(log, [objects |-> objects, bytes |-> <<>>, evidence_root |-> None,
                               policy |-> None, scope |-> "none"])
    /\ UNCHANGED <<dir, writes, pc, call, manifest, payloads, head, report>>

Next ==
    \/ WriteDirectory
    \/ CommitValues
    \/ \E p \in Importers :
           \/ \E policy \in Policies, provenance \in Provenances : ReadManifest(p, policy, provenance)
           \/ ManifestRefused(p)
           \/ ReadPayload(p)
           \/ PayloadRefused(p)
           \/ Refuse(p)
           \/ Plan(p)
           \/ Publish(p)
           \/ Conflict(p)
           \/ Crash(p)

Spec == Init /\ [][Next]_vars

-----------------------------------------------------------------------------
Statuses == {None, "load", "signature_authentication", "import_admission", "preflight",
             "verifier_receipts", "atomic_commit", "imported"}

\* Every variable has the type the code gives it, and no importer ever holds more
\* bytes than the limits allow (bundle.py:498-504).
TypeOK ==
    /\ writes \in 0..MaxWrites
    /\ pc \in [Importers -> {"idle", "loading", "planned"}]
    /\ report \in [Importers -> Statuses]
    /\ \A p \in Importers :
           /\ pc[p] = "idle" => manifest[p] = None /\ payloads[p] = <<>>
           /\ pc[p] # "idle" => manifest[p] \in Manifests /\ call[p].policy \in Policies
           /\ BytesRead(p) <= MaxTotal

Imported == {i \in DOMAIN log : log[i].scope # "none"}

\* What an import published is the bytes its manifest names, all of them and in
\* their order, however the directory was rewritten meanwhile (flow.py:139,
\* "Admit one hostile snapshot, then publish its exact bytes atomically").
SnapshotPublished == \A i \in Imported : log[i].bytes = PayloadRefs(log[i].evidence_root)

\* What was imported is the bundle the importer named, where the policy asks for
\* that, signed by as many different trusted keys as the policy asks for, each
\* over this manifest (imports.py:395-455).
ImportsPinned ==
    \A i \in Imported :
        LET policy == log[i].policy
            m == log[i].evidence_root
            Signers == {s.key_id : s \in {t \in ToSet(m.signatures) :
                            t.made_with \in policy.trusted_signers /\ t.over = UnsignedBundleRoot(m)}}
        IN  /\ policy.require_bundle_root_match => m = policy.expected_bundle_root
            /\ policy.require_signatures => Cardinality(Signers) >= policy.minimum_signatures
            /\ Cardinality(Signers) = Len(m.signatures)

\* A truth edge that an import gave authority rests on evidence published with it,
\* each piece of it about the edge's claim in the edge's context, passing, and
\* vouched for by a verifier the policy trusts, who saw this edge and this outcome
\* (hostile-import-fcis.md: "every imported support or refutation edge must have
\* exactly one valid verifier receipt for each evidence ref").
TruthEarned ==
    \A i \in DOMAIN log : log[i].scope = "import_trusted_receipt" =>
        \A edge_ref \in log[i].objects : TruthEdge(edge_ref) =>
            LET edge == Object[edge_ref]
            IN  /\ edge.evidence_refs # <<>>
                /\ \A evidence_ref \in ToSet(edge.evidence_refs) :
                       LET evidence == Object[evidence_ref]
                       IN  /\ evidence_ref \in log[i].objects
                           /\ evidence.status = "pass"
                           /\ edge.to_ref \in ToSet(evidence.subject_refs)
                           /\ edge.context_ref = evidence.context_ref
                           /\ \E receipt \in log[i].objects :
                                  /\ Object[receipt].schema = "receipt"
                                  /\ Object[receipt].made_with \in log[i].policy.trusted_verifiers
                                  /\ Object[receipt].over = Object[receipt].statement
                                  /\ Object[receipt].over.edge_ref = edge_ref
                                  /\ Object[receipt].over.evidence_ref = evidence_ref
                                  /\ Object[receipt].over.claim_ref = edge.to_ref
                                  /\ Object[receipt].over.recipe_ref = evidence.recipe_ref
                                  /\ Object[receipt].over.result = edge.edge_type
=============================================================================
