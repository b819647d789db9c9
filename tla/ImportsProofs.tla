---------------------------- MODULE ImportsProofs ----------------------------
(***************************************************************************)
(* What is proved about Imports, for all importers, manifests, objects,    *)
(* policies and limits, and however the directory is rewritten.            *)
(***************************************************************************)
EXTENDS Imports, FiniteSetTheorems, TLAPS

-----------------------------------------------------------------------------
(* The inductive invariant. *)

LogRecords ==
    [objects : SUBSET Refs, bytes : Seq(Refs), evidence_root : Manifests \cup {None},
     policy : Policies \cup {None},
     scope : {"none", "import_quarantined", "import_trusted_receipt"}]

\* What an importer decided on before it planned.
Decided(m, policy, bytes) ==
    /\ m \in Manifests /\ policy \in Policies
    /\ WellFormed(m)
    /\ Authenticated(m, policy)
    /\ RootAdmitted(m, policy)
    /\ bytes = PayloadRefs(m)
    /\ TruthAdmitted(m, policy)

Typed ==
    /\ log \in Seq(LogRecords)
    /\ dir \in [manifest : Manifests \cup {None}, files : [Refs -> Refs \cup {Junk, None}]]
    /\ pc \in [Importers -> {"idle", "loading", "planned"}]
    /\ \A f \in {call, manifest, payloads, head, report} : DOMAIN f = Importers

\* An import that goes on is that of a well-formed manifest, and has been decided on once it is
\* planned; neither depends on the directory any more.
Underway ==
    \A p \in Importers :
        /\ pc[p] # "idle" =>
               manifest[p] \in Manifests /\ WellFormed(manifest[p]) /\ call[p].policy \in Policies
        /\ pc[p] = "planned" => Decided(manifest[p], call[p].policy, payloads[p])

\* So has everything that was imported.
Recorded ==
    \A i \in Imported :
        /\ Decided(log[i].evidence_root, log[i].policy, log[i].bytes)
        /\ log[i].objects = ToSet(log[i].evidence_root.object_refs)
        /\ log[i].scope = Scope(log[i].policy)

IInv == Typed /\ Underway /\ Recorded

-----------------------------------------------------------------------------
\* An import that returns leaves the others as they are.
LEMMA ReportIInv ==
    ASSUME IInv, NEW p \in Importers, NEW status, Report(p, status), UNCHANGED <<dir, writes, log>>
    PROVE  IInv'
<1>1. Typed' /\ Recorded'
  BY DEF IInv, Typed, Report, Recorded, Imported
<1>2. ASSUME NEW q \in Importers, pc'[q] # "idle"
      PROVE  /\ q # p /\ pc[q] = pc'[q]
             /\ manifest'[q] = manifest[q] /\ call'[q] = call[q] /\ payloads'[q] = payloads[q]
  BY <1>2 DEF IInv, Typed, Report
<1> QED
  BY <1>1, <1>2 DEF IInv, Underway

\* What follows the four decisions.
LEMMA DecisionsTaken ==
    ASSUME NEW p \in Importers, \A i \in DOMAIN Decisions(p) : Decisions(p)[i][2]
    PROVE  /\ Authenticated(manifest[p], call[p].policy)
           /\ Admitted(manifest[p], call[p].policy, call[p].provenance)
           /\ Preflighted(manifest[p], payloads[p])
           /\ TruthAdmitted(manifest[p], call[p].policy)
<1>1. DOMAIN Decisions(p) = 1..4
  BY DEF Decisions
<1>2. Decisions(p)[1][2] /\ Decisions(p)[2][2] /\ Decisions(p)[3][2] /\ Decisions(p)[4][2]
  BY <1>1
<1> QED
  BY <1>2 DEF Decisions

\* A planned import has been decided on.
LEMMA PlanIInv == ASSUME IInv, NEW p \in Importers, Plan(p) PROVE IInv'
<1>1. Decided(manifest[p], call[p].policy, payloads[p])
  <2>1. /\ Authenticated(manifest[p], call[p].policy)
        /\ Admitted(manifest[p], call[p].policy, call[p].provenance)
        /\ Preflighted(manifest[p], payloads[p])
        /\ TruthAdmitted(manifest[p], call[p].policy)
    BY DecisionsTaken DEF Plan
  <2>2. manifest[p] \in Manifests /\ WellFormed(manifest[p]) /\ call[p].policy \in Policies
    BY DEF IInv, Underway, Plan, Loaded
  <2> QED
    BY <2>1, <2>2 DEF Decided, Admitted, Preflighted
<1>2. Underway'
  BY <1>1 DEF IInv, Typed, Underway, Plan, Loaded
<1>3. Typed' /\ Recorded'
  BY DEF IInv, Typed, Recorded, Imported, Plan
<1> QED
  BY <1>2, <1>3 DEF IInv

\* A manifest that is read is well formed.
LEMMA ReadManifestIInv ==
    ASSUME IInv, NEW p \in Importers, NEW policy \in Policies, NEW provenance,
           ReadManifest(p, policy, provenance)
    PROVE  IInv'
<1>1. dir.manifest \in Manifests /\ WellFormed(dir.manifest)
  BY DEF IInv, Typed, ReadManifest, ManifestReadable
<1>2. Typed' /\ Recorded'
  BY DEF IInv, Typed, Recorded, Imported, ReadManifest
<1>3. Underway'
  BY <1>1 DEF IInv, Typed, Underway, ReadManifest
<1> QED
  BY <1>2, <1>3 DEF IInv

\* Reading a payload decides nothing.
LEMMA ReadPayloadIInv == ASSUME IInv, NEW p \in Importers, ReadPayload(p) PROVE IInv'
<1>1. Typed' /\ Recorded'
  BY DEF IInv, Typed, Recorded, Imported, ReadPayload
<1>2. Underway'
  BY DEF IInv, Typed, Underway, ReadPayload
<1> QED
  BY <1>1, <1>2 DEF IInv

\* One more record at the end of the log leaves those before it as they are.
LEMMA AppendRecorded ==
    ASSUME Typed, Recorded, NEW record \in LogRecords, log' = Append(log, record),
           record.scope # "none" =>
               /\ Decided(record.evidence_root, record.policy, record.bytes)
               /\ record.objects = ToSet(record.evidence_root.object_refs)
               /\ record.scope = Scope(record.policy)
    PROVE  log' \in Seq(LogRecords) /\ Recorded'
<1>1. log' \in Seq(LogRecords) /\ DOMAIN log' = DOMAIN log \cup {Len(log) + 1}
  BY DEF Typed
<1>2. log'[Len(log) + 1] = record /\ \A i \in DOMAIN log : log'[i] = log[i]
  BY DEF Typed
<1> QED
  BY <1>1, <1>2 DEF Recorded, Imported

\* What is published is what was decided on.
LEMMA PublishIInv == ASSUME IInv, NEW p \in Importers, Publish(p) PROVE IInv'
<1> DEFINE record == [objects |-> ToSet(manifest[p].object_refs), bytes |-> CommittedBytes(p),
                      evidence_root |-> manifest[p], policy |-> call[p].policy,
                      scope |-> Scope(call[p].policy)]
<1>1. Decided(manifest[p], call[p].policy, payloads[p]) /\ log' = Append(log, record)
  BY DEF IInv, Underway, Publish
<1>2. record \in LogRecords
  <2>1. manifest[p].object_refs \in Seq(Refs) /\ manifest[p].blob_refs \in Seq(Refs)
    BY <1>1, ManifestsAssumption DEF Decided
  <2>2. ToSet(manifest[p].object_refs) \subseteq Refs
    BY <2>1 DEF ToSet
  <2>3. PayloadRefs(manifest[p]) \in Seq(Refs)
    BY <2>1 DEF PayloadRefs
  <2> QED
    BY <1>1, <2>2, <2>3 DEF LogRecords, Decided, CommittedBytes, Scope
<1>3. log' \in Seq(LogRecords) /\ Recorded'
  <2>1. /\ record.evidence_root = manifest[p] /\ record.policy = call[p].policy
        /\ record.bytes = payloads[p] /\ record.objects = ToSet(manifest[p].object_refs)
        /\ record.scope = Scope(call[p].policy)
    BY DEF CommittedBytes
  <2> HIDE DEF record
  <2> QED
    BY <1>1, <1>2, <2>1, AppendRecorded DEF IInv
<1>4. Typed'
  BY <1>3 DEF IInv, Typed, Publish, Report
<1>5. Underway'
  <2>1. ASSUME NEW q \in Importers, pc'[q] # "idle"
        PROVE  /\ q # p /\ pc[q] = pc'[q]
               /\ manifest'[q] = manifest[q] /\ call'[q] = call[q] /\ payloads'[q] = payloads[q]
    BY <2>1 DEF IInv, Typed, Publish, Report
  <2> QED
    BY <2>1 DEF IInv, Underway
<1> QED
  BY <1>3, <1>4, <1>5 DEF IInv

\* The owner's commits are no imports, and the directory has no part in the invariant.
LEMMA OwnerIInv == ASSUME IInv, CommitValues PROVE IInv'
<1>1. PICK objects \in LocalCommits :
          log' = Append(log, [objects |-> objects, bytes |-> <<>>, evidence_root |-> None,
                              policy |-> None, scope |-> "none"])
  BY DEF CommitValues
<1> DEFINE record == [objects |-> objects, bytes |-> <<>>, evidence_root |-> None,
                      policy |-> None, scope |-> "none"]
<1>2. record \in LogRecords
  <2>1. <<>> \in Seq(Refs) /\ objects \subseteq Refs
    BY ImportsAssumption
  <2> QED
    BY <2>1 DEF LogRecords
<1>3. log' \in Seq(LogRecords) /\ Recorded'
  <2>1. record.scope = "none"
    OBVIOUS
  <2> HIDE DEF record
  <2> QED
    BY <1>1, <1>2, <2>1, AppendRecorded DEF IInv, record
<1>4. Typed' /\ Underway'
  BY <1>3 DEF IInv, Typed, Underway, CommitValues
<1> QED
  BY <1>3, <1>4 DEF IInv

\* The directory may change: what matters of it has been read.
LEMMA DirectoryIInv == ASSUME IInv, WriteDirectory PROVE IInv'
<1>1. dir' \in [manifest : Manifests \cup {None}, files : [Refs -> Refs \cup {Junk, None}]]
  BY DEF IInv, Typed, WriteDirectory
<1> QED
  BY <1>1 DEF IInv, Typed, Underway, Recorded, Imported, WriteDirectory

\* The invariant holds throughout.
LEMMA Inductive == Spec => []IInv
<1>1. Init => IInv
  <2> SUFFICES ASSUME Init PROVE IInv
    OBVIOUS
  <2>1. Typed
    BY DEF Init, Typed
  <2>2. Underway
    BY DEF Init, Underway
  <2>3. Recorded
    BY DEF Init, Recorded, Imported
  <2> QED
    BY <2>1, <2>2, <2>3 DEF IInv
<1>2. IInv /\ [Next]_vars => IInv'
  <2> SUFFICES ASSUME IInv, [Next]_vars PROVE IInv'
    OBVIOUS
  <2>1. CASE WriteDirectory
    BY <2>1, DirectoryIInv
  <2>2. CASE CommitValues
    BY <2>2, OwnerIInv
  <2>3. ASSUME NEW p \in Importers,
               \/ ManifestRefused(p) \/ PayloadRefused(p) \/ Refuse(p)
               \/ Conflict(p) \/ Crash(p)
        PROVE  IInv'
    BY <2>3, ReportIInv DEF ManifestRefused, PayloadRefused, Refuse, Conflict, Crash
  <2>4. ASSUME NEW p \in Importers, NEW policy \in Policies, NEW provenance \in Provenances,
               ReadManifest(p, policy, provenance)
        PROVE  IInv'
    BY <2>4, ReadManifestIInv
  <2>5. ASSUME NEW p \in Importers, ReadPayload(p) \/ Plan(p) \/ Publish(p)
        PROVE  IInv'
    BY <2>5, ReadPayloadIInv, PlanIInv, PublishIInv
  <2>6. CASE UNCHANGED vars
    BY <2>6 DEF vars, IInv, Typed, Underway, Recorded, Imported
  <2> QED
    BY <2>1, <2>2, <2>3, <2>4, <2>5, <2>6 DEF Next
<1> QED
  BY <1>1, <1>2, PTL DEF Spec

-----------------------------------------------------------------------------
(* What is true of every import. *)

\* What an import published is the bytes its manifest names, however the directory was rewritten
\* meanwhile (flow.py:139-264).
THEOREM SnapshotsPublished == Spec => []SnapshotPublished
<1>1. IInv => SnapshotPublished
  BY DEF IInv, Recorded, Decided, SnapshotPublished
<1> QED
  BY <1>1, Inductive, PTL

\* As many keys signed a manifest as it has signatures, for no key signs twice.
LEMMA SignersCounted ==
    ASSUME NEW m \in Manifests, WellFormed(m), NEW Signers,
           Signers = {m.signatures[i].key_id : i \in DOMAIN m.signatures}
    PROVE  Cardinality(Signers) = Len(m.signatures)
<1> DEFINE n == Len(m.signatures)
<1> DEFINE keys == [i \in 1..n |-> m.signatures[i].key_id]
<1>1. n \in Nat /\ DOMAIN m.signatures = 1..n
  BY ManifestsAssumption
<1>2. \A i, j \in 1..n : i < j => keys[i] < keys[j]
  BY <1>1 DEF WellFormed, Ascending, SignerKeys
<1>3. \A i \in 1..n : keys[i] \in Nat
  BY <1>1, ManifestsAssumption
<1>4. \A i, j \in 1..n : keys[i] = keys[j] => i = j
  <2> SUFFICES ASSUME NEW i \in 1..n, NEW j \in 1..n, keys[i] = keys[j], i # j PROVE FALSE
    OBVIOUS
  <2>1. i < j \/ j < i
    BY <1>1
  <2>2. keys[i] \in Nat /\ keys[j] \in Nat
    BY <1>3
  <2> HIDE DEF keys
  <2> QED
    BY <1>2, <2>1, <2>2
<1>5. keys \in Bijection(1..n, Signers)
  <2>1. Signers = {keys[i] : i \in 1..n}
    BY <1>1
  <2>2. keys \in [1..n -> Signers]
    BY <2>1
  <2> HIDE DEF keys
  <2> QED
    BY <1>4, <2>1, <2>2 DEF Bijection, Injection, Surjection, IsInjective
<1>6. IsFiniteSet(1..n) /\ Cardinality(1..n) = n
  BY <1>1, FS_Interval
<1> HIDE DEF keys, n
<1>7. Cardinality(Signers) = Cardinality(1..n)
  BY <1>5, <1>6, FS_Bijection DEF ExistsBijection
<1> QED
  BY <1>6, <1>7 DEF n

\* What was imported is the bundle its policy names, signed over by as many trusted keys as it asks
\* for and by nobody else (imports.py:395-455, import_auth.py).
THEOREM BundlesPinned == Spec => []ImportsPinned
<1>1. ASSUME IInv, NEW i \in Imported
      PROVE  LET policy == log[i].policy
                 m == log[i].evidence_root
                 Signers == {s.key_id : s \in {t \in ToSet(m.signatures) :
                                 t.made_with \in policy.trusted_signers /\ t.over = UnsignedBundleRoot(m)}}
             IN  /\ policy.require_bundle_root_match => m = policy.expected_bundle_root
                 /\ policy.require_signatures => Cardinality(Signers) >= policy.minimum_signatures
                 /\ Cardinality(Signers) = Len(m.signatures)
  <2> DEFINE policy == log[i].policy
             m == log[i].evidence_root
             Signers == {s.key_id : s \in {t \in ToSet(m.signatures) :
                             t.made_with \in policy.trusted_signers /\ t.over = UnsignedBundleRoot(m)}}
  <2>1. /\ m \in Manifests /\ WellFormed(m)
        /\ Authenticated(m, policy) /\ RootAdmitted(m, policy)
    BY <1>1 DEF IInv, Recorded, Decided
  <2>2. Signers = {m.signatures[j].key_id : j \in DOMAIN m.signatures}
    BY <2>1 DEF Authenticated, ToSet
  <2> HIDE DEF policy, m, Signers
  <2>3. Cardinality(Signers) = Len(m.signatures)
    BY <2>1, <2>2, SignersCounted
  <2>4. policy.require_signatures => Cardinality(Signers) >= policy.minimum_signatures
    BY <2>1, <2>3 DEF Authenticated
  <2>5. policy.require_bundle_root_match => m = policy.expected_bundle_root
    BY <2>1 DEF RootAdmitted
  <2> QED
    BY <2>3, <2>4, <2>5 DEF policy, m, Signers
<1>2. IInv => ImportsPinned
  BY <1>1 DEF ImportsPinned
<1> QED
  BY <1>2, Inductive, PTL

\* An accepted receipt says what the edge and its evidence say.
LEMMA ReceiptSays ==
    ASSUME NEW statement, NEW edge_ref, NEW evidence_ref, NEW policy,
           ReceiptAdmitted(statement, edge_ref, evidence_ref, policy)
    PROVE  /\ statement.edge_ref = edge_ref /\ statement.evidence_ref = evidence_ref
           /\ statement.claim_ref = Object[edge_ref].to_ref
           /\ statement.recipe_ref = Object[evidence_ref].recipe_ref
           /\ statement.result = Object[edge_ref].edge_type
<1> DEFINE binding == TruthBinding(edge_ref, evidence_ref)
<1>1. /\ {"edge_ref", "evidence_ref", "claim_ref", "recipe_ref", "result"} \subseteq DOMAIN binding
      /\ binding.edge_ref = edge_ref /\ binding.evidence_ref = evidence_ref
      /\ binding.claim_ref = Object[edge_ref].to_ref
      /\ binding.recipe_ref = Object[evidence_ref].recipe_ref
      /\ binding.result = Object[edge_ref].edge_type
  BY DEF TruthBinding
<1>2. \A field \in DOMAIN binding : statement[field] = binding[field]
  BY DEF ReceiptAdmitted
<1> HIDE DEF binding
<1> QED
  BY <1>1, <1>2

\* A truth edge that an import gave authority rests on evidence for it that was published with it,
\* each piece of it vouched for by a trusted verifier (import_receipts.py, verifier_receipts.py).
THEOREM TruthsEarned == Spec => []TruthEarned
<1>1. ASSUME IInv, NEW i \in DOMAIN log, log[i].scope = "import_trusted_receipt",
             NEW edge_ref \in log[i].objects, TruthEdge(edge_ref),
             NEW evidence_ref \in ToSet(Object[edge_ref].evidence_refs)
      PROVE  /\ Object[edge_ref].evidence_refs # <<>>
             /\ evidence_ref \in log[i].objects
             /\ EvidencePasses(Object[edge_ref], Object[evidence_ref])
             /\ \E receipt \in log[i].objects :
                    /\ Object[receipt].schema = "receipt"
                    /\ ReceiptAuthentic(Object[receipt], log[i].policy)
                    /\ ReceiptAdmitted(Object[receipt].statement, edge_ref, evidence_ref,
                                       log[i].policy)
  <2> DEFINE m == log[i].evidence_root
             policy == log[i].policy
  <2>1. /\ TruthAdmitted(m, policy) /\ log[i].objects = ToSet(m.object_refs)
        /\ log[i].scope = Scope(policy)
    BY <1>1 DEF IInv, Recorded, Imported, Decided
  <2>2. policy.truth_mode = "trusted_receipt"
    BY <1>1, <2>1 DEF Scope
  <2> HIDE DEF m, policy
  <2>3. edge_ref \in TruthEdges(m)
    BY <1>1, <2>1 DEF TruthEdges
  <2>4. EdgeAdmitted(m, edge_ref, policy)
    BY <2>1, <2>2, <2>3 DEF TruthAdmitted
  <2>5. PICK receipt \in ObjectsOf(m, "receipt") :
            ReceiptAdmitted(Object[receipt].statement, edge_ref, evidence_ref, policy)
    BY <1>1, <2>4 DEF EdgeAdmitted
  <2>6. ReceiptAuthentic(Object[receipt], policy)
    BY <2>1, <2>2 DEF TruthAdmitted
  <2> QED
    BY <1>1, <2>1, <2>4, <2>5, <2>6 DEF EdgeAdmitted, ObjectsOf, policy
<1>2. ASSUME IInv, NEW i \in DOMAIN log, log[i].scope = "import_trusted_receipt",
             NEW edge_ref \in log[i].objects, TruthEdge(edge_ref)
      PROVE  Object[edge_ref].evidence_refs # <<>>
  <2>1. /\ TruthAdmitted(log[i].evidence_root, log[i].policy)
        /\ edge_ref \in TruthEdges(log[i].evidence_root)
        /\ log[i].scope = Scope(log[i].policy)
    BY <1>2 DEF IInv, Recorded, Imported, Decided, TruthEdges
  <2> QED
    BY <1>2, <2>1 DEF TruthAdmitted, EdgeAdmitted, Scope
<1>3. ASSUME IInv PROVE TruthEarned
  <2> SUFFICES ASSUME NEW i \in DOMAIN log, log[i].scope = "import_trusted_receipt",
                      NEW edge_ref \in log[i].objects, TruthEdge(edge_ref),
                      NEW evidence_ref \in ToSet(Object[edge_ref].evidence_refs)
               PROVE  /\ evidence_ref \in log[i].objects
                      /\ Object[evidence_ref].status = "pass"
                      /\ Object[edge_ref].to_ref \in ToSet(Object[evidence_ref].subject_refs)
                      /\ Object[edge_ref].context_ref = Object[evidence_ref].context_ref
                      /\ \E receipt \in log[i].objects :
                             /\ Object[receipt].schema = "receipt"
                             /\ Object[receipt].made_with \in log[i].policy.trusted_verifiers
                             /\ Object[receipt].over = Object[receipt].statement
                             /\ Object[receipt].over.edge_ref = edge_ref
                             /\ Object[receipt].over.evidence_ref = evidence_ref
                             /\ Object[receipt].over.claim_ref = Object[edge_ref].to_ref
                             /\ Object[receipt].over.recipe_ref = Object[evidence_ref].recipe_ref
                             /\ Object[receipt].over.result = Object[edge_ref].edge_type
    BY <1>2, <1>3 DEF TruthEarned
  <2>1. PICK receipt \in log[i].objects :
            /\ Object[receipt].schema = "receipt"
            /\ ReceiptAuthentic(Object[receipt], log[i].policy)
            /\ ReceiptAdmitted(Object[receipt].statement, edge_ref, evidence_ref, log[i].policy)
    BY <1>1, <1>3
  <2>2. /\ Object[receipt].made_with \in log[i].policy.trusted_verifiers
        /\ Object[receipt].over = Object[receipt].statement
    BY <2>1 DEF ReceiptAuthentic
  <2>3. /\ Object[receipt].over.edge_ref = edge_ref
        /\ Object[receipt].over.evidence_ref = evidence_ref
        /\ Object[receipt].over.claim_ref = Object[edge_ref].to_ref
        /\ Object[receipt].over.recipe_ref = Object[evidence_ref].recipe_ref
        /\ Object[receipt].over.result = Object[edge_ref].edge_type
    BY <2>1, <2>2, ReceiptSays
  <2>4. /\ evidence_ref \in log[i].objects
        /\ EvidencePasses(Object[edge_ref], Object[evidence_ref])
    BY <1>1, <1>3
  <2> QED
    BY <2>1, <2>2, <2>3, <2>4 DEF EvidencePasses
<1> QED
  BY <1>3, Inductive, PTL

-----------------------------------------------------------------------------
(* The fold that BytesRead is, and what one more number adds to it.  Where *)
(* an induction would be used, the set of what the claim holds of is shown *)
(* to be everything.                                                       *)

\* The fold of the community modules, as a recursive function on a family D of sets.
Picked(s) == CHOOSE x \in s : TRUE

AddsUp(f, D, g) == g = [s \in D |-> IF s = {} THEN 0 ELSE f[Picked(s)] + g[s \ {Picked(s)}]]

AtMost(S, n) == {s \in SUBSET S : Cardinality(s) <= n}

\* A set of natural numbers that holds 0, and n + 1 with every n, holds them all.
LEMMA Stepwise ==
    ASSUME NEW P, 0 \in P, \A n \in Nat : n \in P => n + 1 \in P
    PROVE  Nat \subseteq P
<1> SUFFICES ASSUME Nat \ P # {} PROVE FALSE
  OBVIOUS
<1>1. PICK i \in Nat \ P : \A k \in Nat \ P : ~(k < i)
  <2> DEFINE Less == {ss \in Nat \X Nat : ss[1] < ss[2]}
  <2>1. IsWellFoundedOn(Less, Nat)
    BY NatLessThanWellFounded, Zenon DEF OpToRel
  <2> HIDE DEF Less
  <2>2. PICK i \in Nat \ P : \A k \in Nat \ P : ~(<<k, i>> \in Less)
    BY <2>1, WFMin, Nat \ P \subseteq Nat
  <2>3. ASSUME NEW k \in Nat \ P, k < i PROVE FALSE
    <3>1. <<k, i>> \in Less
      BY <2>2, <2>3 DEF Less
    <3> QED
      BY <2>2, <2>3, <3>1
  <2> QED
    BY <2>2, <2>3
<1>2. i # 0 /\ i - 1 \in Nat /\ i - 1 < i /\ (i - 1) + 1 = i
  BY <1>1
<1>3. i - 1 \in P
  BY <1>1, <1>2
<1> QED
  BY <1>1, <1>2, <1>3

LEMMA SmallerSet ==
    ASSUME NEW S, IsFiniteSet(S), NEW s \in SUBSET S, NEW x \in s
    PROVE  /\ s \ {x} \in SUBSET S
           /\ Cardinality(s) \in Nat \ {0}
           /\ Cardinality(s \ {x}) = Cardinality(s) - 1
<1>1. IsFiniteSet(s)
  BY FS_Subset
<1>2. Cardinality(s) \in Nat /\ Cardinality(s) # 0
  BY <1>1, FS_CardinalityType, FS_EmptySet
<1> QED
  BY <1>1, <1>2, FS_RemoveElement

\* Such a function exists.
LEMMA SumExists ==
    ASSUME NEW S, IsFiniteSet(S), NEW f
    PROVE  \E g : AddsUp(f, SUBSET S, g)
<1> DEFINE P == {n \in Nat : \E g : AddsUp(f, AtMost(S, n), g)}
<1>0. \A s \in SUBSET S : s # {} => Picked(s) \in s
  BY DEF Picked
<1>1. 0 \in P
  <2> DEFINE g == [s \in AtMost(S, 0) |-> 0]
  <2>1. ASSUME NEW s \in AtMost(S, 0) PROVE s = {}
    BY <2>1, FS_Subset, FS_EmptySet, FS_CardinalityType DEF AtMost
  <2>2. AddsUp(f, AtMost(S, 0), g)
    BY <2>1 DEF AddsUp
  <2> QED
    BY <2>2
<1>2. ASSUME NEW n \in Nat, n \in P PROVE n + 1 \in P
  <2>1. PICK g : AddsUp(f, AtMost(S, n), g)
    BY <1>2
  <2> DEFINE h == [s \in AtMost(S, n + 1) |-> IF s = {} THEN 0 ELSE f[Picked(s)] + g[s \ {Picked(s)}]]
  <2>2. ASSUME NEW s \in AtMost(S, n) PROVE s \in AtMost(S, n + 1) /\ h[s] = g[s]
    <3>1. s \in AtMost(S, n + 1)
      <4>1. s \in SUBSET S /\ Cardinality(s) <= n
        BY DEF AtMost
      <4>2. Cardinality(s) \in Nat
        BY <4>1, FS_Subset, FS_CardinalityType
      <4> QED
        BY <4>1, <4>2 DEF AtMost
    <3>2. g[s] = IF s = {} THEN 0 ELSE f[Picked(s)] + g[s \ {Picked(s)}]
      BY <2>1 DEF AddsUp
    <3> QED
      BY <3>1, <3>2
  <2>3. ASSUME NEW s \in AtMost(S, n + 1), s # {} PROVE s \ {Picked(s)} \in AtMost(S, n)
    <3>1. s \in SUBSET S /\ Cardinality(s) <= n + 1 /\ Picked(s) \in s
      BY <1>0, <2>3 DEF AtMost
    <3>2. s \ {Picked(s)} \in SUBSET S /\ Cardinality(s) \in Nat /\ Cardinality(s \ {Picked(s)}) = Cardinality(s) - 1
      BY <3>1, SmallerSet
    <3>3. Cardinality(s) - 1 <= n
      BY <3>1, <3>2
    <3> QED
      BY <3>2, <3>3 DEF AtMost
  <2>4. ASSUME NEW s \in AtMost(S, n + 1)
        PROVE  h[s] = IF s = {} THEN 0 ELSE f[Picked(s)] + h[s \ {Picked(s)}]
    <3>1. CASE s = {}
      BY <3>1
    <3>2. CASE s # {}
      <4>1. h[s] = f[Picked(s)] + g[s \ {Picked(s)}]
        BY <3>2
      <4>2. h[s \ {Picked(s)}] = g[s \ {Picked(s)}]
        BY <2>2, <2>3, <3>2
      <4> QED
        BY <3>2, <4>1, <4>2
    <3> QED
      BY <3>1, <3>2
  <2>5. AddsUp(f, AtMost(S, n + 1), h)
    <3>1. h = [s \in AtMost(S, n + 1) |-> h[s]]
      OBVIOUS
    <3> HIDE DEF h
    <3> QED
      BY <2>4, <3>1, Zenon DEF AddsUp
  <2>6. \E k : AddsUp(f, AtMost(S, n + 1), k)
    BY <2>5
  <2> QED
    BY <2>6
<1>3. Cardinality(S) \in P
  BY <1>1, <1>2, Stepwise, FS_CardinalityType
<1>4. AtMost(S, Cardinality(S)) = SUBSET S
  BY FS_Subset DEF AtMost
<1> QED
  BY <1>3, <1>4

Sums(f, S) == CHOOSE g : AddsUp(f, SUBSET S, g)

LEMMA SumIsFold == ASSUME NEW S, NEW f PROVE SumFunctionOnSet(f, S) = Sums(f, S)[S]
BY DEF SumFunctionOnSet, FoldFunctionOnSet, MapThenFoldSet, Sums, AddsUp, Picked

LEMMA SumsAddUp ==
    ASSUME NEW S, IsFiniteSet(S), NEW f, NEW s \in SUBSET S
    PROVE  Sums(f, S)[s] = IF s = {} THEN 0 ELSE f[Picked(s)] + Sums(f, S)[s \ {Picked(s)}]
<1>1. AddsUp(f, SUBSET S, Sums(f, S))
  BY SumExists DEF Sums
<1> QED
  BY <1>1 DEF AddsUp

\* What holds of the sets with n elements, for every n, holds of every subset.
LEMMA BySize ==
    ASSUME NEW S, IsFiniteSet(S), NEW Good, {} \in Good,
           \A s \in SUBSET S : s # {} /\ (\A x \in s : s \ {x} \in Good) => s \in Good
    PROVE  SUBSET S \subseteq Good
<1> DEFINE P == {n \in Nat : \A s \in SUBSET S : Cardinality(s) = n => s \in Good}
<1>1. 0 \in P
  BY FS_Subset, FS_EmptySet
<1>2. ASSUME NEW n \in Nat, n \in P PROVE n + 1 \in P
  <2>1. ASSUME NEW s \in SUBSET S, Cardinality(s) = n + 1 PROVE s \in Good
    <3>1. s # {}
      <4>1. Cardinality({}) = 0
        BY FS_EmptySet
      <4> QED
        BY <2>1, <4>1
    <3>2. ASSUME NEW x \in s PROVE s \ {x} \in Good
      <4>1. s \ {x} \in SUBSET S /\ Cardinality(s \ {x}) = (n + 1) - 1 /\ (n + 1) - 1 = n
        BY <2>1, SmallerSet
      <4> QED
        BY <1>2, <4>1
    <3> QED
      BY <3>1, <3>2
  <2> QED
    BY <2>1
<1> HIDE DEF P
<1>3. Nat \subseteq P
  BY <1>1, <1>2, Stepwise
<1> QED
  BY <1>3, FS_Subset, FS_CardinalityType DEF P

LEMMA SumIsNumber ==
    ASSUME NEW S, IsFiniteSet(S), NEW f, \A i \in S : f[i] \in Int
    PROVE  \A s \in SUBSET S : Sums(f, S)[s] \in Int
<1> DEFINE Good == {s \in SUBSET S : Sums(f, S)[s] \in Int}
<1>1. {} \in Good
  <2>1. Sums(f, S)[{}] = 0
    BY SumsAddUp
  <2> QED
    BY <2>1
<1>2. ASSUME NEW s \in SUBSET S, s # {}, \A x \in s : s \ {x} \in Good PROVE s \in Good
  <2>1. Picked(s) \in s
    BY <1>2 DEF Picked
  <2>2. Sums(f, S)[s] = f[Picked(s)] + Sums(f, S)[s \ {Picked(s)}]
    BY <1>2, SumsAddUp
  <2>3. f[Picked(s)] \in Int
    BY <2>1
  <2>4. Sums(f, S)[s \ {Picked(s)}] \in Int
    BY <1>2, <2>1
  <2>5. Sums(f, S)[s] \in Int
    BY <2>2, <2>3, <2>4
  <2> QED
    BY <2>5
<1> HIDE DEF Good
<1>3. SUBSET S \subseteq Good
  BY <1>1, <1>2, BySize
<1> QED
  BY <1>3 DEF Good

\* The order in which the elements are picked does not matter.
LEMMA SumOfAny ==
    ASSUME NEW S, IsFiniteSet(S), NEW f, \A i \in S : f[i] \in Int
    PROVE  \A s \in SUBSET S : \A x \in s : Sums(f, S)[s] = f[x] + Sums(f, S)[s \ {x}]
<1> DEFINE g == Sums(f, S)
           Good == {s \in SUBSET S : \A x \in s : g[s] = f[x] + g[s \ {x}]}
<1>0. \A s \in SUBSET S : g[s] \in Int
  BY SumIsNumber
<1>1. {} \in Good
  OBVIOUS
<1>2. ASSUME NEW s \in SUBSET S, s # {}, \A x \in s : s \ {x} \in Good PROVE s \in Good
  <2>1. PICK y \in s : g[s] = f[y] + g[s \ {y}]
    <3>1. Picked(s) \in s
      BY <1>2 DEF Picked
    <3>2. g[s] = f[Picked(s)] + g[s \ {Picked(s)}]
      BY <1>2, SumsAddUp
    <3> QED
      BY <3>1, <3>2
  <2> HIDE DEF g
  <2>2. ASSUME NEW x \in s, x # y PROVE g[s] = f[x] + g[s \ {x}]
    <3>1. g[s \ {y}] = f[x] + g[(s \ {y}) \ {x}]
      BY <1>2, <2>2
    <3>2. g[s \ {x}] = f[y] + g[(s \ {x}) \ {y}]
      BY <1>2, <2>2
    <3>3. (s \ {y}) \ {x} = (s \ {x}) \ {y}
      OBVIOUS
    <3>4. f[x] \in Int /\ f[y] \in Int /\ g[s \ {y}] \in Int /\ g[s \ {x}] \in Int
      BY <1>0
    <3>5. g[(s \ {x}) \ {y}] \in Int
      BY <1>0
    <3> QED
      <4> DEFINE r == g[(s \ {x}) \ {y}]
                 gy == g[s \ {y}]
                 gx == g[s \ {x}]
                 u == f[x]
                 v == f[y]
      <4>1. g[s] = v + gy /\ gy = u + r /\ gx = v + r
        BY <2>1, <3>1, <3>2, <3>3
      <4>2. r \in Int /\ u \in Int /\ v \in Int
        BY <3>4, <3>5
      <4> HIDE DEF r, gx, gy, u, v
      <4>3. g[s] = u + gx
        BY <4>1, <4>2
      <4> QED
        BY <4>3 DEF gx, u
  <2>3. \A x \in s : g[s] = f[x] + g[s \ {x}]
    BY <2>1, <2>2
  <2> QED
    BY <2>3
<1> HIDE DEF Good, g
<1>3. SUBSET S \subseteq Good
  BY <1>1, <1>2, BySize
<1> QED
  BY <1>3 DEF Good, g

\* What is outside a set has no part in its sum.
LEMMA SumOfPart ==
    ASSUME NEW S, NEW T, S \subseteq T, IsFiniteSet(T), NEW f, NEW h,
           \A i \in S : f[i] = h[i]
    PROVE  \A s \in SUBSET S : Sums(f, S)[s] = Sums(h, T)[s]
<1> DEFINE Good == {s \in SUBSET S : Sums(f, S)[s] = Sums(h, T)[s]}
<1>0. IsFiniteSet(S)
  BY FS_Subset
<1>1. {} \in Good
  BY <1>0, SumsAddUp
<1>2. ASSUME NEW s \in SUBSET S, s # {}, \A x \in s : s \ {x} \in Good PROVE s \in Good
  <2>1. Picked(s) \in s
    BY <1>2 DEF Picked
  <2>2. Sums(f, S)[s] = f[Picked(s)] + Sums(f, S)[s \ {Picked(s)}]
    <3>1. Sums(f, S)[s] = IF s = {} THEN 0 ELSE f[Picked(s)] + Sums(f, S)[s \ {Picked(s)}]
      BY <1>0, SumsAddUp
    <3> QED
      BY <1>2, <3>1
  <2>3. Sums(h, T)[s] = h[Picked(s)] + Sums(h, T)[s \ {Picked(s)}]
    <3>1. s \in SUBSET T
      OBVIOUS
    <3>2. Sums(h, T)[s] = IF s = {} THEN 0 ELSE h[Picked(s)] + Sums(h, T)[s \ {Picked(s)}]
      BY <3>1, SumsAddUp
    <3> QED
      BY <1>2, <3>2
  <2> QED
    BY <1>2, <2>1, <2>2, <2>3
<1> HIDE DEF Good
<1>3. SUBSET S \subseteq Good
  BY <1>0, <1>1, <1>2, BySize
<1> QED
  BY <1>3 DEF Good

\* One more number at the end of a sequence adds itself to the sum.
LEMMA SumAppended ==
    ASSUME NEW f \in Seq(Int), NEW x \in Int
    PROVE  /\ SumFunction(f) \in Int
           /\ SumFunction(Append(f, x)) = SumFunction(f) + x
<1> DEFINE S == 1..Len(f)
           T == 1..(Len(f) + 1)
           h == Append(f, x)
<1>1. DOMAIN f = S /\ DOMAIN h = T /\ S = T \ {Len(f) + 1} /\ Len(f) + 1 \in T /\ Len(f) \in Nat
  OBVIOUS
<1>2. IsFiniteSet(S) /\ IsFiniteSet(T)
  BY <1>1, FS_Interval
<1>3. (\A i \in S : f[i] = h[i] /\ f[i] \in Int) /\ h[Len(f) + 1] = x /\ \A i \in T : h[i] \in Int
  OBVIOUS
<1> HIDE DEF h, S, T
<1>4. Sums(h, T)[T] = x + Sums(h, T)[S]
  <2>1. Sums(h, T)[T] = h[Len(f) + 1] + Sums(h, T)[T \ {Len(f) + 1}]
    BY <1>1, <1>2, <1>3, SumOfAny
  <2> QED
    BY <1>1, <1>3, <2>1
<1>5. Sums(f, S)[S] = Sums(h, T)[S]
  <2>1. S \subseteq T /\ \A i \in S : f[i] = h[i]
    BY <1>1, <1>3
  <2>2. \A s \in SUBSET S : Sums(f, S)[s] = Sums(h, T)[s]
    BY <1>2, <2>1, SumOfPart
  <2> QED
    BY <2>2
<1>6. Sums(f, S)[S] \in Int
  BY <1>2, <1>3, SumIsNumber
<1>7. SumFunction(f) = Sums(f, S)[S] /\ SumFunction(h) = Sums(h, T)[T]
  BY <1>1, SumIsFold DEF SumFunction
<1> QED
  BY <1>4, <1>5, <1>6, <1>7 DEF h

LEMMA SumOfNothing == SumFunction(<<>>) = 0
<1>1. SumFunction(<<>>) = Sums(<<>>, {})[{}]
  BY SumIsFold DEF SumFunction
<1> QED
  BY <1>1, SumsAddUp, FS_EmptySet

-----------------------------------------------------------------------------
(* The limits. *)

\* Every payload that was read is that of a ref, and together they stay under the limit.
Limited ==
    \A p \in Importers :
        payloads[p] \in Seq(Refs) /\ BytesRead(p) \in Int /\ BytesRead(p) <= MaxTotal

\* What an importer holds is what its place in the import allows.
Placed ==
    \A p \in Importers :
        /\ pc[p] = "idle" => manifest[p] = None /\ payloads[p] = <<>>
        /\ pc[p] # "idle" => manifest[p] \in Manifests /\ call[p].policy \in Policies

Reported == writes \in 0..MaxWrites /\ report \in [Importers -> Statuses]

TypeInv == Limited /\ Placed /\ Reported

Sizes(bytes) == [i \in DOMAIN bytes |-> Size[bytes[i]]]

\* Nothing read is no bytes; one payload more is as many bytes more as it has.
LEMMA BytesOfNothing ==
    ASSUME NEW p, payloads[p] = <<>> PROVE BytesRead(p) = 0
<1>1. [i \in DOMAIN payloads[p] |-> Size[payloads[p][i]]] = <<>>
  OBVIOUS
<1> QED
  BY <1>1, SumOfNothing DEF BytesRead

LEMMA BytesOfOneMore ==
    ASSUME NEW read \in Seq(Refs), NEW ref \in Refs
    PROVE  /\ SumFunction(Sizes(read)) \in Int
           /\ SumFunction(Sizes(Append(read, ref))) = SumFunction(Sizes(read)) + Size[ref]
<1>1. \A r \in Refs : Size[r] \in Int
  BY ImportsAssumption
<1>2. Sizes(read) \in Seq(Int)
  BY <1>1 DEF Sizes
<1>3. Sizes(Append(read, ref)) = Append(Sizes(read), Size[ref])
  BY <1>1 DEF Sizes
<1> QED
  BY <1>1, <1>2, <1>3, SumAppended

LEMMA ReportTypeInv ==
    ASSUME IInv, TypeInv, NEW p \in Importers, NEW status \in Statuses, Report(p, status),
           UNCHANGED writes
    PROVE  TypeInv'
<1>1. Limited'
  <2>1. ASSUME NEW q \in Importers PROVE (payloads[q] \in Seq(Refs) /\ BytesRead(q) \in Int /\ BytesRead(q) <= MaxTotal)'
    <3>1. CASE q = p
      <4>1. payloads'[q] = <<>>
        BY <3>1 DEF IInv, Typed, Report
      <4>2. BytesRead(q)' = 0
        BY <4>1, SumOfNothing DEF BytesRead
      <4> QED
        BY <4>1, <4>2, ImportsAssumption
    <3>2. CASE q # p
      <4>1. payloads'[q] = payloads[q]
        BY <3>2 DEF IInv, Typed, Report
      <4>2. BytesRead(q)' = BytesRead(q)
        BY <4>1 DEF BytesRead
      <4> QED
        BY <4>1, <4>2 DEF TypeInv, Limited
    <3> QED
      BY <3>1, <3>2
  <2> QED
    BY <2>1 DEF Limited
<1>2. Placed'
  BY DEF IInv, Typed, TypeInv, Placed, Report
<1>3. Reported'
  BY DEF TypeInv, Reported, Report
<1> QED
  BY <1>1, <1>2, <1>3 DEF TypeInv

LEMMA ReadPayloadTypeInv ==
    ASSUME IInv, TypeInv, NEW p \in Importers, ReadPayload(p) PROVE TypeInv'
<1> DEFINE ref == NextRef(p)
<1>1. /\ payloads' = [payloads EXCEPT ![p] = Append(@, ref)]
      /\ PayloadFits(p, ref)
      /\ pc[p] = "loading" /\ Len(payloads[p]) < Len(PayloadRefs(manifest[p]))
  BY DEF ReadPayload
<1>2. payloads[p] \in Seq(Refs) /\ BytesRead(p) \in Int /\ BytesRead(p) <= MaxTotal
  BY DEF TypeInv, Limited
<1>3. ref \in Refs
  <2>1. manifest[p] \in Manifests
    BY <1>1 DEF TypeInv, Placed
  <2>2. PayloadRefs(manifest[p]) \in Seq(Refs)
    BY <2>1, ManifestsAssumption DEF PayloadRefs
  <2> QED
    BY <1>1, <1>2, <2>2 DEF NextRef
<1> HIDE DEF ref
<1>4. payloads'[p] = Append(payloads[p], ref) /\ \A q \in Importers : q # p => payloads'[q] = payloads[q]
  BY <1>1 DEF IInv, Typed
<1>5. Limited'
  <2>1. BytesRead(p)' = BytesRead(p) + Size[ref]
    <3>1. BytesRead(p) = SumFunction(Sizes(payloads[p]))
      BY DEF BytesRead, Sizes
    <3>2. BytesRead(p)' = SumFunction(Sizes(payloads'[p]))
      BY DEF BytesRead, Sizes
    <3> QED
      BY <1>2, <1>3, <1>4, <3>1, <3>2, BytesOfOneMore
  <2>2. Size[ref] \in Nat /\ Size[ref] <= MaxTotal - BytesRead(p) /\ MaxTotal \in Nat
    BY <1>1, <1>3, ImportsAssumption DEF PayloadFits
  <2>3. BytesRead(p)' \in Int /\ BytesRead(p)' <= MaxTotal
    BY <1>2, <2>1, <2>2
  <2>4. payloads'[p] \in Seq(Refs)
    BY <1>2, <1>3, <1>4
  <2>5. ASSUME NEW q \in Importers, q # p
        PROVE  (payloads[q] \in Seq(Refs) /\ BytesRead(q) \in Int /\ BytesRead(q) <= MaxTotal)'
    <3>1. BytesRead(q)' = BytesRead(q)
      BY <1>4, <2>5 DEF BytesRead
    <3> QED
      BY <1>4, <2>5, <3>1 DEF TypeInv, Limited
  <2> QED
    BY <2>3, <2>4, <2>5 DEF Limited
<1>6. Placed' /\ Reported'
  BY <1>1, <1>4 DEF TypeInv, Placed, Reported, ReadPayload
<1> QED
  BY <1>5, <1>6 DEF TypeInv

\* Every variable has the type the code gives it, and no importer ever holds more bytes than the
\* limits allow, whatever it reads (bundle.py:498-504).
THEOREM ImportsTyped == Spec => []TypeOK
<1>1. Init => TypeInv
  <2> SUFFICES ASSUME Init PROVE TypeInv
    OBVIOUS
  <2>1. ASSUME NEW p \in Importers PROVE payloads[p] = <<>> /\ BytesRead(p) = 0
    BY BytesOfNothing DEF Init
  <2>2. Limited
    <3>1. 0 \in Int /\ 0 <= MaxTotal /\ <<>> \in Seq(Refs)
      BY ImportsAssumption
    <3>2. ASSUME NEW p \in Importers
          PROVE  payloads[p] \in Seq(Refs) /\ BytesRead(p) \in Int /\ BytesRead(p) <= MaxTotal
      BY <2>1, <3>1
    <3> QED
      BY <3>2 DEF Limited
  <2>3. Placed /\ Reported
    BY ImportsAssumption DEF Init, Placed, Reported, Statuses
  <2> QED
    BY <2>2, <2>3 DEF TypeInv
<1>2. IInv /\ TypeInv /\ [Next]_vars => TypeInv'
  <2> SUFFICES ASSUME IInv, TypeInv, [Next]_vars PROVE TypeInv'
    OBVIOUS
  <2>1. CASE WriteDirectory
    <3>1. writes' \in 0..MaxWrites
      BY <2>1, ImportsAssumption DEF WriteDirectory, TypeInv, Reported
    <3> QED
      BY <2>1, <3>1 DEF WriteDirectory, TypeInv, Limited, Placed, Reported, BytesRead
  <2>2. CASE CommitValues \/ UNCHANGED vars
    BY <2>2 DEF CommitValues, vars, TypeInv, Limited, Placed, Reported, BytesRead
  <2>3. ASSUME NEW p \in Importers, ManifestRefused(p) \/ PayloadRefused(p) \/ Conflict(p) \/ Crash(p)
        PROVE  TypeInv'
    BY <2>3, ReportTypeInv DEF ManifestRefused, PayloadRefused, Conflict, Crash, Statuses
  <2>4. ASSUME NEW p \in Importers, Refuse(p) PROVE TypeInv'
    <3>1. \A i \in DOMAIN Decisions(p) : Decisions(p)[i][1] \in Statuses
      BY DEF Decisions, Statuses
    <3> QED
      BY <2>4, <3>1, ReportTypeInv DEF Refuse
  <2>5. ASSUME NEW p \in Importers, Publish(p) PROVE TypeInv'
    <3>1. Report(p, "imported") /\ writes' = writes
      BY <2>5 DEF Publish
    <3>2. "imported" \in Statuses
      BY DEF Statuses
    <3> QED
      BY <2>5, <3>1, <3>2, ReportTypeInv
  <2>6. ASSUME NEW p \in Importers, Plan(p) PROVE TypeInv'
    <3>1. /\ pc' = [pc EXCEPT ![p] = "planned"] /\ pc[p] = "loading"
          /\ UNCHANGED <<writes, call, manifest, payloads, report>>
      BY <2>6 DEF Plan, Loaded
    <3>2. Limited' /\ Reported'
      BY <3>1 DEF TypeInv, Limited, Reported, BytesRead
    <3>3. Placed'
      BY <3>1 DEF IInv, Typed, TypeInv, Placed
    <3> QED
      BY <3>2, <3>3 DEF TypeInv
  <2>7. ASSUME NEW p \in Importers, NEW policy \in Policies, NEW provenance \in Provenances,
               ReadManifest(p, policy, provenance)
        PROVE  TypeInv'
    <3>1. dir.manifest \in Manifests
      BY <2>7 DEF ReadManifest, ManifestReadable, IInv, Typed
    <3>2. Limited'
      BY <2>7 DEF ReadManifest, TypeInv, Limited, BytesRead
    <3>3. Placed' /\ Reported'
      BY <2>7, <3>1 DEF ReadManifest, IInv, Typed, TypeInv, Placed, Reported
    <3> QED
      BY <3>2, <3>3 DEF TypeInv
  <2> QED
    BY <2>1, <2>2, <2>3, <2>4, <2>5, <2>6, <2>7, ReadPayloadTypeInv DEF Next
<1>3. IInv /\ TypeInv => TypeOK
  BY DEF IInv, Typed, TypeInv, Limited, Placed, Reported, TypeOK
<1> QED
  BY <1>1, <1>2, <1>3, Inductive, PTL DEF Spec
=============================================================================
