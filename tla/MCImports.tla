------------------------------ MODULE MCImports ------------------------------
(***************************************************************************)
(* An instance of Imports.  Hypothesis 1 is supported by edge 5 on         *)
(* evidence 3 and 4, from recipe 2; 6 and 7 are the receipts of a trusted  *)
(* verifier for the two, 8 is one for the same edge and evidence 3 that    *)
(* says it was refuted, 9 is one for 4 that a verifier nobody trusts has   *)
(* signed, 10 is an object that does not validate.  Alice (1) and bob (2)  *)
(* are trusted signers, mallory (3) is not; verifier 11 is trusted, 12 is  *)
(* not.  The pad's owner may commit an object while an import is planned.  *)
(***************************************************************************)
EXTENDS Imports

CONSTANT i1

OneImporter == {i1}

Evidence(subject) ==
    [schema |-> "evidence", valid |-> TRUE, status |-> "pass", subject_refs |-> <<subject>>,
     context_ref |-> None, recipe_ref |-> 2, outputs |-> <<>>]

Statement(evidence, verifier, result) ==
    [claim_ref |-> 1, context_ref |-> None, recipe_ref |-> 2, evidence_ref |-> evidence,
     edge_ref |-> 5, input_roots |-> <<1>>, verifier_id |-> verifier, verifier_version |-> "v1",
     result |-> result, output_roots |-> {}, policy_hash |-> "p", toolchain_hash |-> "t"]

Receipt(statement, key) ==
    [schema |-> "receipt", valid |-> TRUE, statement |-> statement,
     signer_key_id |-> statement.verifier_id, made_with |-> key, over |-> statement]

Objects ==
    1 :> [schema |-> "hypothesis", valid |-> TRUE]
    @@ 2 :> [schema |-> "recipe", valid |-> TRUE]
    @@ 3 :> Evidence(1)
    @@ 4 :> Evidence(1)
    @@ 5 :> [schema |-> "edge", valid |-> TRUE, edge_type |-> "supports", to_ref |-> 1,
             context_ref |-> None, evidence_refs |-> <<3, 4>>]
    @@ 6 :> Receipt(Statement(3, 11, "supports"), 11)
    @@ 7 :> Receipt(Statement(4, 11, "supports"), 11)
    @@ 8 :> Receipt(Statement(3, 11, "refutes"), 11)
    @@ 9 :> Receipt(Statement(4, 11, "supports"), 12)
    @@ 10 :> [schema |-> "hypothesis", valid |-> FALSE]

TenRefs == 1..10
Sizes == [r \in TenRefs \cup {Junk, None} |-> IF r = 10 THEN 3 ELSE 1]

Unsigned(objects, blobs) ==
    [object_refs |-> objects, blob_refs |-> blobs, entry_refs |-> <<>>,
     previous_bundle_refs |-> <<>>, root_hash |-> <<objects, blobs, <<>>, <<>>>>,
     signatures |-> <<>>]

Sign(m, keys) ==
    [m EXCEPT !.signatures = [i \in DOMAIN keys |->
        [key_id |-> keys[i], made_with |-> keys[i], over |-> m]]]

Complete == Unsigned(<<1, 2, 3, 4, 5, 6, 7>>, <<>>)
OneReceipt == Unsigned(<<1, 2, 3, 4, 5, 6>>, <<>>)
Replayed == Unsigned(<<1, 2, 3, 4, 5, 7, 8>>, <<>>)
Untrusted == Unsigned(<<1, 2, 3, 4, 5, 6, 9>>, <<>>)
EdgeAsBlob == Unsigned(<<1, 2, 3, 4>>, <<5>>)
Invalid == Unsigned(<<1, 10>>, <<>>)
Plain == Unsigned(<<1, 2>>, <<3>>)
LargeAndPlain == Unsigned(<<1, 2, 3>>, <<4, 5, 6, 7, 8>>)

\* Signed by whom it says, over another manifest, in another's name, or not at all.
ManyManifests ==
    {Sign(m, <<1, 2>>) : m \in {Complete, OneReceipt, Replayed, Untrusted, EdgeAsBlob, Invalid,
                                LargeAndPlain}}
        \cup {Sign(Complete, <<1>>), Sign(Complete, <<1, 3>>), Complete,
              [Complete EXCEPT !.signatures = Sign(Plain, <<1, 2>>).signatures],
              [Complete EXCEPT !.signatures = [Sign(Complete, <<1, 2>>).signatures
                                                   EXCEPT ![2].made_with = 3]],
              [Sign(Plain, <<1, 2>>) EXCEPT !.root_hash = Complete.root_hash],
              Unsigned(<<2, 1>>, <<>>)}

Quarantine ==
    [require_signatures |-> FALSE, require_bundle_root_match |-> FALSE,
     expected_bundle_root |-> None, expected_previous_bundle_refs |-> None,
     trusted_signers |-> {1, 2}, minimum_signatures |-> 1, accept_adapters |-> {},
     require_anchors |-> {}, trusted_verifiers |-> {}, accept_verifier_versions |-> {},
     accept_receipt_policy_hashes |-> {}, accept_toolchain_hashes |-> {},
     truth_mode |-> "quarantined"]

TrustedReceipt ==
    [Quarantine EXCEPT !.require_signatures = TRUE, !.minimum_signatures = 2,
                       !.trusted_verifiers = {11}, !.accept_verifier_versions = {"v1"},
                       !.accept_receipt_policy_hashes = {"p"},
                       !.accept_toolchain_hashes = {"t"}, !.truth_mode = "trusted_receipt"]

PinnedAndAnchored(policy, m) ==
    [policy EXCEPT !.require_bundle_root_match = TRUE, !.expected_bundle_root = m,
                   !.expected_previous_bundle_refs = <<>>, !.accept_adapters = {"local-fs-v1"},
                   !.require_anchors = {"local-anchor-v1"}]

ManyPolicies ==
    {Quarantine, TrustedReceipt,
     PinnedAndAnchored(TrustedReceipt, Sign(Complete, <<1, 2>>)),
     PinnedAndAnchored(Quarantine, Sign(Complete, <<1>>)),
     [TrustedReceipt EXCEPT !.accept_toolchain_hashes = {"other"}]}

Verified == [storage_adapters |-> {"local-fs-v1"}, anchor_adapters |-> {"local-anchor-v1"}]
Unverified == [storage_adapters |-> {}, anchor_adapters |-> {}]
BothProvenances == {Verified, Unverified}

OwnObject == {{1}}
=============================================================================
