------------------------------- MODULE Bundles -------------------------------
(***************************************************************************)
(* Publishing a bundle: adapters/bundle.py (export_bundle), flow.py        *)
(* (gather_from_pad, prepare, verify_bundle) and the storage and anchor    *)
(* adapters (local.py, ipfs.py, chain.py, tau.py).  A publisher gathers    *)
(* payloads from its pad, exports them into a directory file by file,      *)
(* publishes the directory with a storage adapter, anchors the receipt and *)
(* has it verified.  Files are written in place: opened, which truncates   *)
(* them, and filled.  A publisher may die between any two steps and start  *)
(* over in the directory as it is.                                         *)
(*                                                                         *)
(* What is abstracted.  A payload is its ref, a bundle root is its         *)
(* manifest, here the sequence of the refs it lists, and a file is empty,  *)
(* cut short or whole.  indexes/refs.json, which nothing reads, receipts'  *)
(* refs and timestamps are left out.  Loading a directory is one step:     *)
(* Imports takes it apart.  The IPFS node and the chain are not in the     *)
(* repository: a node stores what it is given under a name that is its     *)
(* content, a chain may drop an event until its block is final.            *)
(***************************************************************************)
EXTENDS Integers, Sequences, SequencesExt, FiniteSets

CONSTANTS
    Publishers,     \* processes, each with its own export directory
    Refs,           \* payloads their pads hold
    Manifests,      \* what they may publish: sequences of distinct refs
    MaxExports,     \* bound: exports started
    MaxTrouble,     \* bound: crashes, failing clients and reorganisations
    None,           \* no such file, nothing to do
    Partial         \* a file opened and not filled

ASSUME BundlesAssumption ==
    /\ \A m \in Manifests : m \in Seq(Refs)
    /\ MaxExports \in Nat /\ MaxTrouble \in Nat
    /\ "manifest" \notin Refs                \* refs are digests
    /\ \A mark \in {None, Partial} : mark \notin Refs /\ mark \notin Manifests
    /\ None \notin [manifest : Manifests \cup {None, Partial},
                    files : [Refs -> Refs \cup {None, Partial}]]
    /\ Partial # None

VARIABLES
    dir,            \* each publisher's export directory
    pc,             \* where each publisher is
    bundle,         \* the manifest it is exporting or publishing
    todo,           \* the files it has still to write, in their order
    store,          \* LocalStorageAdapter: the directory under each root
    node,           \* IPFS: directories added
    pins,           \* those pinned
    receipts,       \* storage receipts handed out
    anchor_log,     \* lines of the LocalAnchorAdapter's log
    chain,          \* events on the chain: what they say, and whether final
    anchors,        \* anchor receipts handed out
    verified,       \* storage receipts whose verification passed
    confirmed,      \* anchor receipts whose verification passed
    exports, trouble

vars == <<dir, pc, bundle, todo, store, node, pins, receipts, anchor_log, chain, anchors,
          verified, confirmed, exports, trouble>>
storage == <<store, node, pins, receipts>>
anchoring == <<anchor_log, chain, anchors, verified, confirmed>>

-----------------------------------------------------------------------------
EmptyDir == [manifest |-> None, files |-> [ref \in Refs |-> None]]

\* load_bundle_dir: the manifest of a directory whose every payload is whole.
Load(d) ==
    IF /\ d.manifest \in Manifests
       /\ \A ref \in ToSet(d.manifest) : d.files[ref] = ref
    THEN d.manifest
    ELSE None

\* The file called name ("manifest" or a ref) now holds content.
Put(d, name, content) ==
    IF name = "manifest" THEN [d EXCEPT !.manifest = content]
    ELSE [d EXCEPT !.files[name] = content]

Content(m, name) == IF name = "manifest" THEN m ELSE name

Init ==
    /\ dir = [p \in Publishers |-> EmptyDir]
    /\ pc = [p \in Publishers |-> "idle"]
    /\ bundle = [p \in Publishers |-> None]
    /\ todo = [p \in Publishers |-> <<>>]
    /\ store = [m \in Manifests |-> None]
    /\ node = {} /\ pins = {} /\ receipts = {}
    /\ anchor_log = <<>> /\ chain = {} /\ anchors = {} /\ verified = {} /\ confirmed = {}
    /\ exports = 0 /\ trouble = 0

Goto(p, label) == pc' = [pc EXCEPT ![p] = label]

Return(p) ==
    /\ Goto(p, "idle")
    /\ bundle' = [bundle EXCEPT ![p] = None]
    /\ todo' = [todo EXCEPT ![p] = <<>>]

-----------------------------------------------------------------------------
(* export_bundle *)

\* Objects, then blobs, and the manifest when they are all there.
ExportOrder(m) == m \o <<"manifest">>

\* gather_from_pad takes the payloads from the pad; export starts on them.
StartExport(p) ==
    /\ pc[p] = "idle"
    /\ exports < MaxExports
    /\ \E m \in Manifests :
           /\ bundle' = [bundle EXCEPT ![p] = m]
           /\ todo' = [todo EXCEPT ![p] = ExportOrder(m)]
    /\ Goto(p, "exporting")
    /\ exports' = exports + 1
    /\ UNCHANGED <<dir, storage, anchoring, trouble>>

\* Slip: a file that exists is taken for the one that is meant.
OpenUnlessThere(p) ==
    /\ pc[p] = "exporting"
    /\ todo[p] # <<>>
    /\ LET name == Head(todo[p])
       IN  IF name # "manifest" /\ dir[p].files[name] # None
           THEN /\ todo' = [todo EXCEPT ![p] = Tail(@)]
                /\ UNCHANGED <<dir, pc>>
           ELSE /\ dir' = [dir EXCEPT ![p] = Put(@, name, Partial)]
                /\ Goto(p, "filling")
                /\ UNCHANGED todo
    /\ UNCHANGED <<bundle, storage, anchoring, exports, trouble>>

\* Path.write_bytes opens the file, whatever it held is gone ...
Open(p) ==
    /\ pc[p] = "exporting"
    /\ todo[p] # <<>>
    /\ dir' = [dir EXCEPT ![p] = Put(@, Head(todo[p]), Partial)]
    /\ Goto(p, "filling")
    /\ UNCHANGED <<bundle, todo, storage, anchoring, exports, trouble>>

\* ... and fills it.
Fill(p) ==
    /\ pc[p] = "filling"
    /\ LET name == Head(todo[p])
       IN  dir' = [dir EXCEPT ![p] = Put(@, name, Content(bundle[p], name))]
    /\ todo' = [todo EXCEPT ![p] = Tail(@)]
    /\ Goto(p, "exporting")
    /\ UNCHANGED <<bundle, storage, anchoring, exports, trouble>>

\* prepare summarises the bundle that was exported, from memory.
Prepare(p) ==
    /\ pc[p] = "exporting"
    /\ todo[p] = <<>>
    /\ Goto(p, "prepared")
    /\ UNCHANGED <<dir, bundle, todo, storage, anchoring, exports, trouble>>

-----------------------------------------------------------------------------
(* LocalStorageAdapter.publish *)

\* "bundle already published" ...
PublishRefused(p) ==
    /\ pc[p] = "prepared"
    /\ store[bundle[p]] # None
    /\ Return(p)
    /\ UNCHANGED <<dir, storage, anchoring, exports, trouble>>

\* Slip: dirs_exist_ok is taken for leave to publish again.
TargetMayExist(p) == TRUE

TargetAbsent(p) == store[bundle[p]] = None

\* ... or the target is found absent, ...
FindTargetAbsent(p) ==
    /\ pc[p] = "prepared"
    /\ TargetAbsent(p)
    /\ Goto(p, "absent")
    /\ UNCHANGED <<dir, bundle, todo, storage, anchoring, exports, trouble>>

\* ... made (exist_ok, should another publisher have made it by now) ...
MakeTarget(p) ==
    /\ pc[p] = "absent"
    /\ store' = [store EXCEPT ![bundle[p]] = IF @ = None THEN EmptyDir ELSE @]
    /\ \E order \in SetToSeqs(ToSet(bundle[p]) \cup {"manifest"}) :
           todo' = [todo EXCEPT ![p] = order]
    /\ Goto(p, "copying")
    /\ UNCHANGED <<dir, bundle, node, pins, receipts, anchoring, exports, trouble>>

\* ... and the directory copied into it, file by file, in the order it is listed in.
CopyOpen(p) ==
    /\ pc[p] = "copying"
    /\ todo[p] # <<>>
    /\ store' = [store EXCEPT ![bundle[p]] = Put(@, Head(todo[p]), Partial)]
    /\ Goto(p, "copying_file")
    /\ UNCHANGED <<dir, bundle, todo, node, pins, receipts, anchoring, exports, trouble>>

FileIn(d, name) == IF name = "manifest" THEN d.manifest ELSE d.files[name]

CopyFill(p) ==
    /\ pc[p] = "copying_file"
    /\ LET name == Head(todo[p])
       IN  store' = [store EXCEPT ![bundle[p]] = Put(@, name, FileIn(dir[p], name))]
    /\ todo' = [todo EXCEPT ![p] = Tail(@)]
    /\ Goto(p, "copying")
    /\ UNCHANGED <<dir, bundle, node, pins, receipts, anchoring, exports, trouble>>

\* The content id of a local receipt is the root once more.
Receipt(adapter, root, content) == [adapter |-> adapter, bundle_root |-> root, content_id |-> content]

Published(p) ==
    /\ pc[p] = "copying"
    /\ todo[p] = <<>>
    /\ receipts' = receipts \cup {Receipt("local", bundle[p], None)}
    /\ Return(p)
    /\ UNCHANGED <<dir, store, node, pins, anchoring, exports, trouble>>

-----------------------------------------------------------------------------
(* IpfsStorageAdapter *)

\* The node names what it is given by its content ...
AddToNode(p) ==
    /\ pc[p] = "prepared"
    /\ node' = node \cup {dir[p]}
    /\ Goto(p, "added")
    /\ UNCHANGED <<dir, bundle, todo, store, pins, receipts, anchoring, exports, trouble>>

\* ... and keeps it once it is pinned.
Pin(p) ==
    /\ pc[p] = "added"
    /\ dir[p] \in node
    /\ pins' = pins \cup {dir[p]}
    /\ receipts' = receipts \cup {Receipt("ipfs", bundle[p], dir[p])}
    /\ Return(p)
    /\ UNCHANGED <<dir, store, node, anchoring, exports, trouble>>

\* A client call raises: nothing is pinned and no receipt is handed out.
ClientFails(p) ==
    /\ pc[p] = "added"
    /\ trouble < MaxTrouble
    /\ trouble' = trouble + 1
    /\ Return(p)
    /\ UNCHANGED <<dir, storage, anchoring, exports>>

\* What is not pinned the node may drop.
Collect ==
    /\ \E d \in node \ pins : node' = node \ {d}
    /\ UNCHANGED <<dir, pc, bundle, todo, store, pins, receipts, anchoring, exports, trouble>>

\* verify of both adapters loads what is stored and compares its root.
StorageHolds(r) ==
    \/ r.adapter = "local" /\ Load(store[r.bundle_root]) = r.bundle_root
    \/ /\ r.adapter = "ipfs"
       /\ r.content_id \in pins \cap node
       /\ Load(r.content_id) = r.bundle_root

VerifyStorage ==
    /\ \E r \in receipts : StorageHolds(r) /\ verified' = verified \cup {r}
    /\ UNCHANGED <<dir, pc, bundle, todo, storage, anchor_log, chain, anchors, confirmed, exports, trouble>>

-----------------------------------------------------------------------------
(* Anchor adapters *)

Anchor(adapter, r, event) ==
    [adapter |-> adapter, bundle_root |-> r.bundle_root, event |-> event]

Event(r) == [bundle_root |-> r.bundle_root, storage_receipt_ref |-> r.content_id, final |-> FALSE]

\* The line is the name of the schema, and nothing of the anchor.
LocalAnchorLine(r) == None

\* LocalAnchorAdapter.anchor appends one line.
AnchorLocally ==
    /\ \E r \in receipts :
           /\ Anchor("local", r, None) \notin anchors
           /\ anchor_log' = Append(anchor_log, LocalAnchorLine(r))
           /\ anchors' = anchors \cup {Anchor("local", r, None)}
    /\ UNCHANGED <<dir, pc, bundle, todo, storage, chain, verified, confirmed,
                   exports, trouble>>

\* TauNetAnchorAdapter.anchor asks its policy with both facts set.
AnchorOnTau ==
    /\ \E r \in receipts : anchors' = anchors \cup {Anchor("tau", r, None)}
    /\ UNCHANGED <<dir, pc, bundle, todo, storage, anchor_log, chain, verified, confirmed,
                   exports, trouble>>

\* EvmAnchorAdapter.anchor: the client submits, the receipt names the event.
AnchorOnChain ==
    /\ \E r \in receipts :
           /\ chain' = chain \cup {Event(r)}
           /\ anchors' = anchors \cup {Anchor("evm", r, Event(r))}
    /\ UNCHANGED <<dir, pc, bundle, todo, storage, anchor_log, verified, confirmed,
                   exports, trouble>>

\* The client raises after the transaction was sent: an event without a receipt.
SubmissionUnanswered ==
    /\ trouble < MaxTrouble
    /\ trouble' = trouble + 1
    /\ \E r \in receipts : chain' = chain \cup {Event(r)}
    /\ UNCHANGED <<dir, pc, bundle, todo, storage, anchor_log, anchors, verified, confirmed,
                   exports>>

Finalize ==
    /\ \E e \in chain : ~e.final /\ chain' = (chain \ {e}) \cup {[e EXCEPT !.final = TRUE]}
    /\ UNCHANGED <<dir, pc, bundle, todo, storage, anchor_log, anchors, verified, confirmed,
                   exports, trouble>>

\* Blocks that are not final may be dropped with their events.
Reorganise ==
    /\ trouble < MaxTrouble
    /\ trouble' = trouble + 1
    /\ \E e \in chain : ~e.final /\ chain' = chain \ {e}
    /\ UNCHANGED <<dir, pc, bundle, todo, storage, anchor_log, anchors, verified, confirmed,
                   exports>>

\* EvmAnchorAdapter.verify: the event is there, says what the receipt says, is final.  The code
\* asks for the event by the transaction and for finality by the block that the receipt names;
\* neither is modelled: an event that is there is in the block it was first in.
EventFinal(a) ==
    \E e \in chain : /\ e.final
                     /\ e.bundle_root = a.bundle_root
                     /\ e.storage_receipt_ref = a.event.storage_receipt_ref

\* The other two adapters pass every receipt that names a root.
VerifyAnchor ==
    /\ \E a \in anchors :
           /\ a.adapter = "evm" => EventFinal(a)
           /\ confirmed' = confirmed \cup {a}
    /\ UNCHANGED <<dir, pc, bundle, todo, storage, anchor_log, chain, anchors, verified, exports, trouble>>

Crash(p) ==
    /\ pc[p] # "idle"
    /\ trouble < MaxTrouble
    /\ trouble' = trouble + 1
    /\ Return(p)
    /\ UNCHANGED <<dir, storage, anchoring, exports>>

Next ==
    \/ \E p \in Publishers :
           \/ StartExport(p) \/ Open(p) \/ Fill(p) \/ Prepare(p)
           \/ PublishRefused(p) \/ FindTargetAbsent(p) \/ MakeTarget(p)
           \/ CopyOpen(p) \/ CopyFill(p) \/ Published(p)
           \/ AddToNode(p) \/ Pin(p) \/ ClientFails(p) \/ Crash(p)
    \/ Collect \/ VerifyStorage
    \/ AnchorLocally \/ AnchorOnTau \/ AnchorOnChain \/ SubmissionUnanswered
    \/ Finalize \/ Reorganise \/ VerifyAnchor

Spec == Init /\ [][Next]_vars

-----------------------------------------------------------------------------
\* Every variable has the type the code gives it.
TypeOK ==
    /\ pc \in [Publishers -> {"idle", "exporting", "filling", "prepared", "absent", "copying",
                              "copying_file", "added"}]
    /\ \A p \in Publishers : pc[p] # "idle" => bundle[p] \in Manifests
    /\ \A p \in Publishers : \A ref \in Refs : dir[p].files[ref] \in {None, Partial, ref}
    /\ \A p \in Publishers : pc[p] \in {"filling", "copying_file"} => todo[p] # <<>>
    /\ pins \subseteq node
    /\ exports \in 0..MaxExports /\ trouble \in 0..MaxTrouble

\* An export that returned left a directory that loads as what was exported,
\* whatever an earlier export left there half written.
ExportLoads ==
    \A p \in Publishers :
        pc[p] \in {"prepared", "absent", "copying", "copying_file", "added"} => Load(dir[p]) = bundle[p]

\* A directory whose manifest is whole lists no file that was never written: who
\* looks in during the export of a new directory finds no manifest
\* (bundle.py:339-342).
ManifestLast ==
    \A p \in Publishers : dir[p].manifest \in Manifests =>
        \A ref \in ToSet(dir[p].manifest) : dir[p].files[ref] # None

\* A directory is what its manifest says, to the publisher and to whoever looks in
\* (bundle.py:323-365).
ExportsWhole == TypeOK /\ ExportLoads /\ ManifestLast

\* A storage receipt is good for as long as the store is: what it names loads and
\* has the root it names (local.py:27-28, ipfs.py:62-64).
ReceiptsHold == \A r \in receipts : StorageHolds(r)

\* What verification passed once is not taken back: the chain's event stays, the
\* stored bundle stays (blockchain-anchor-spec.md, "Verify finality").
VerifiedStays ==
    /\ \A r \in verified : StorageHolds(r)
    /\ \A a \in confirmed : a.adapter = "evm" => EventFinal(a)

\* What was receipted or confirmed stays true, through restarts, failures, reorganisations and
\* exports of the same root (local.py:36 "append_only=True").
PromisesHold == ReceiptsHold /\ VerifiedStays
=============================================================================
