--------------------------- MODULE BundlesProofs ---------------------------
(***************************************************************************)
(* What is proved about Bundles: a directory is what its manifest says,    *)
(* for all publishers, payloads and manifests; and what was receipted or   *)
(* confirmed stays true while one process at a time publishes.             *)
(***************************************************************************)
EXTENDS Bundles, FiniteSetTheorems, SequenceTheorems, TLAPS

-----------------------------------------------------------------------------
(* The inductive invariant. *)

Names == Refs \cup {"manifest"}

Dirs ==
    {d \in [manifest : Manifests \cup {None, Partial}, files : [Refs -> Refs \cup {None, Partial}]] :
         \A ref \in Refs : d.files[ref] \in {None, Partial, ref}}

Labels ==
    {"idle", "exporting", "filling", "prepared", "absent", "copying", "copying_file", "added"}

Copying(p) == pc[p] \in {"copying", "copying_file"}

Typed ==
    /\ dir \in [Publishers -> Dirs]
    /\ pc \in [Publishers -> Labels]
    /\ bundle \in [Publishers -> Manifests \cup {None}]
    /\ todo \in [Publishers -> Seq(Names)]
    /\ store \in [Manifests -> Dirs \cup {None}]
    /\ \A p \in Publishers :
           /\ pc[p] # "idle" => bundle[p] \in Manifests
           /\ pc[p] \in {"filling", "copying_file"} => todo[p] # <<>>
           /\ Copying(p) => store[bundle[p]] # None
    /\ exports \in 0..MaxExports /\ trouble \in 0..MaxTrouble

ManifestLastOf(names) ==
    \A i \in 1..Len(names) : names[i] = "manifest" <=> i = Len(names)

\* What is left to export ends in the manifest, and what is not left has been written.
Exporting(p) ==
    /\ ManifestLastOf(todo[p])
    /\ \A ref \in ToSet(bundle[p]) \ ToSet(todo[p]) : dir[p].files[ref] = ref
    /\ todo[p] = <<>> => dir[p].manifest = bundle[p]

\* A manifest that can be read lists files that were opened at least.
Listed(d) == d.manifest \in Manifests => \A ref \in ToSet(d.manifest) : d.files[ref] # None

Exported ==
    \A p \in Publishers :
        /\ pc[p] \in {"exporting", "filling"} => Exporting(p)
        /\ pc[p] \in {"prepared", "absent", "copying", "copying_file", "added"} =>
               Load(dir[p]) = bundle[p]
        /\ Listed(dir[p])

IInv == Typed /\ pins \subseteq node /\ Exported

\* What has been copied is what was exported, and has no receipt before it is all there.
Copied ==
    \A p \in Publishers :
        /\ pc[p] = "absent" => store[bundle[p]] = None
        /\ Copying(p) =>
               /\ \A r \in receipts : r.adapter = "local" => r.bundle_root # bundle[p]
               /\ \A name \in (ToSet(bundle[p]) \cup {"manifest"}) \ ToSet(todo[p]) :
                      FileIn(store[bundle[p]], name) = Content(bundle[p], name)

Good(r) ==
    /\ StorageHolds(r) /\ r.bundle_root \in Manifests
    /\ r.adapter = "local" => store[r.bundle_root] # None

Receipted == (\A r \in receipts : Good(r)) /\ verified \subseteq receipts

Confirmed == \A a \in confirmed : a.adapter = "evm" => EventFinal(a)

Promised == Copied /\ Receipted /\ Confirmed

-----------------------------------------------------------------------------
(* One directory. *)

LEMMA EmptyDirIsDir == EmptyDir \in Dirs /\ Listed(EmptyDir)
  BY BundlesAssumption DEF EmptyDir, Dirs, Listed

\* A file that is opened, or filled with what it is the file of.
LEMMA PutIsDir ==
    ASSUME NEW d \in Dirs, NEW name \in Names, NEW content,
           \/ content \in {None, Partial}
           \/ content = Content(content, name) /\ (name = "manifest" => content \in Manifests)
    PROVE  /\ Put(d, name, content) \in Dirs
           /\ FileIn(Put(d, name, content), name) = content
           /\ \A other \in Names \ {name} :
                  FileIn(Put(d, name, content), other) = FileIn(d, other)
  BY BundlesAssumption DEF Dirs, Names, Put, FileIn, Content

\* What loads is what the manifest says, with every file whole.
LEMMA Loads ==
    ASSUME NEW d, NEW m \in Manifests
    PROVE  Load(d) = m <=> d.manifest = m /\ \A ref \in ToSet(m) : d.files[ref] = ref
  BY BundlesAssumption DEF Load

LEMMA RefsOfManifests ==
    ASSUME NEW m \in Manifests
    PROVE  ToSet(m) \subseteq Refs
  BY BundlesAssumption DEF ToSet

\* The files of an export, the manifest last.
LEMMA OrderOfExport ==
    ASSUME NEW m \in Manifests
    PROVE  /\ ExportOrder(m) \in Seq(Names)
           /\ ExportOrder(m) # <<>>
           /\ ManifestLastOf(ExportOrder(m))
           /\ ToSet(m) \subseteq ToSet(ExportOrder(m))
  BY BundlesAssumption DEF ExportOrder, Names, ToSet, ManifestLastOf

LEMMA TailOfNames ==
    ASSUME NEW s \in Seq(Names), s # <<>>
    PROVE  /\ Head(s) \in Names /\ Tail(s) \in Seq(Names)
           /\ ToSet(s) = {Head(s)} \cup ToSet(Tail(s))
<1>1. /\ Tail(s) \in Seq(Names) /\ Len(Tail(s)) = Len(s) - 1 /\ Head(s) = s[1] /\ Len(s) >= 1
      /\ \A i \in 1..Len(Tail(s)) : Tail(s)[i] = s[i + 1]
  OBVIOUS
<1>2. ASSUME NEW i \in 1..Len(s), i # 1 PROVE s[i] \in ToSet(Tail(s))
  <2>1. i - 1 \in DOMAIN Tail(s) /\ Tail(s)[i - 1] = s[i]
    BY <1>1, <1>2
  <2> QED
    BY <1>1, <2>1 DEF ToSet
<1>3. ASSUME NEW i \in 1..Len(Tail(s)) PROVE Tail(s)[i] \in ToSet(s)
  <2>1. i + 1 \in DOMAIN s /\ s[i + 1] = Tail(s)[i]
    BY <1>1
  <2> QED
    BY <2>1 DEF ToSet
<1>4. Head(s) \in ToSet(s)
  BY <1>1 DEF ToSet
<1>5. ToSet(s) \subseteq {Head(s)} \cup ToSet(Tail(s))
  BY <1>1, <1>2 DEF ToSet
<1>6. ToSet(Tail(s)) \subseteq ToSet(s)
  BY <1>1, <1>3 DEF ToSet
<1> QED
  BY <1>1, <1>4, <1>5, <1>6

LEMMA ManifestStaysLast ==
    ASSUME NEW s \in Seq(Names), s # <<>>, ManifestLastOf(s)
    PROVE  (Head(s) = "manifest" <=> Tail(s) = <<>>) /\ ManifestLastOf(Tail(s))
<1> DEFINE t == Tail(s)
<1> DEFINE n == Len(s)
<1>1. /\ t \in Seq(Names) /\ Len(t) = n - 1 /\ n \in Nat \ {0}
      /\ \A i \in 1..Len(t) : t[i] = s[i + 1]
  BY HeadTailProperties, EmptySeq
<1>2. t = <<>> <=> n = 1
  BY <1>1, EmptySeq
<1>3. Head(s) = s[1] /\ 1 \in 1..n
  BY <1>1
<1>4. s[1] = "manifest" <=> n = 1
  BY <1>3 DEF ManifestLastOf
<1>5. ASSUME NEW i \in 1..Len(t) PROVE t[i] = "manifest" <=> i = Len(t)
  <2>1. t[i] = s[i + 1] /\ i + 1 \in 1..n /\ (i + 1 = n <=> i = Len(t))
    BY <1>1
  <2>2. s[i + 1] = "manifest" <=> i + 1 = n
    BY <2>1 DEF ManifestLastOf
  <2> QED
    BY <2>1, <2>2
<1> QED
  BY <1>2, <1>3, <1>4, <1>5 DEF ManifestLastOf

-----------------------------------------------------------------------------
(* Each step keeps the invariant. *)

\* Whatever p does, the other publishers are where they were.
Others(p) ==
    \A q \in Publishers \ {p} :
        dir'[q] = dir[q] /\ pc'[q] = pc[q] /\ bundle'[q] = bundle[q] /\ todo'[q] = todo[q]

\* The invariant of one publisher, its directory and its place.
Alone(p) ==
    /\ dir[p] \in Dirs /\ Listed(dir[p])
    /\ pc[p] \in Labels /\ bundle[p] \in Manifests \cup {None} /\ todo[p] \in Seq(Names)
    /\ pc[p] # "idle" => bundle[p] \in Manifests
    /\ pc[p] \in {"filling", "copying_file"} => todo[p] # <<>>
    /\ pc[p] \in {"exporting", "filling"} => Exporting(p)
    /\ pc[p] \in {"prepared", "absent", "copying", "copying_file", "added"} =>
           Load(dir[p]) = bundle[p]

LEMMA Split ==
    ASSUME Typed, Exported
    PROVE  \A p \in Publishers : Alone(p)
  BY DEF Typed, Exported, Alone

Domains ==
    /\ dir = [p \in Publishers |-> dir[p]]
    /\ pc = [p \in Publishers |-> pc[p]]
    /\ bundle = [p \in Publishers |-> bundle[p]]
    /\ todo = [p \in Publishers |-> todo[p]]

Stored ==
    /\ store \in [Manifests -> Dirs \cup {None}]
    /\ \A p \in Publishers : Copying(p) => store[bundle[p]] # None

Counted == exports \in 0..MaxExports /\ trouble \in 0..MaxTrouble

\* So only who moves is to be looked at.
LEMMA OneMoves ==
    ASSUME IInv, NEW p \in Publishers, Others(p), Domains', Alone(p)', Stored', Counted',
           (pins \subseteq node)'
    PROVE  IInv'
<1>1. \A q \in Publishers : Alone(q)'
  <2> SUFFICES ASSUME NEW q \in Publishers \ {p} PROVE Alone(q)'
    OBVIOUS
  <2>1. Alone(q)
    BY Split DEF IInv
  <2>2. dir'[q] = dir[q] /\ pc'[q] = pc[q] /\ bundle'[q] = bundle[q] /\ todo'[q] = todo[q]
    BY DEF Others
  <2>3. Exporting(q)' = Exporting(q) /\ Listed(dir[q])' = Listed(dir[q]) /\ Load(dir[q])' = Load(dir[q])
    BY <2>2 DEF Exporting
  <2> QED
    BY <2>1, <2>2, <2>3 DEF Alone
<1>2. /\ dir' \in [Publishers -> Dirs] /\ pc' \in [Publishers -> Labels]
      /\ bundle' \in [Publishers -> Manifests \cup {None}] /\ todo' \in [Publishers -> Seq(Names)]
  BY <1>1 DEF Domains, Alone
<1>3. Typed'
  BY <1>1, <1>2 DEF Alone, Stored, Counted, Typed
<1>4. Exported'
  BY <1>1 DEF Alone, Exported
<1> QED
  BY <1>3, <1>4 DEF IInv

LEMMA DirsAreThere == None \notin Dirs
  BY BundlesAssumption DEF Dirs

\* A step that moves neither directory nor store.
LEMMA Rests ==
    ASSUME IInv, NEW p \in Publishers, NEW label \in Labels, Goto(p, label),
           UNCHANGED <<dir, bundle, todo, store>>
    PROVE  Others(p) /\ Domains' /\ (~Copying(p)' => Stored')
  BY DEF IInv, Typed, Goto, Others, Domains, Stored, Copying

LEMMA Returns ==
    ASSUME IInv, NEW p \in Publishers, Return(p), UNCHANGED <<dir, store>>
    PROVE  Others(p) /\ Domains' /\ Stored' /\ Alone(p)'
<1>1. Alone(p)
  BY Split DEF IInv
<1>2. /\ dir' = dir /\ pc' = [pc EXCEPT ![p] = "idle"] /\ store' = store
      /\ bundle' = [bundle EXCEPT ![p] = None] /\ todo' = [todo EXCEPT ![p] = <<>>]
  BY DEF Return, Goto
<1>3. Others(p) /\ Domains' /\ Stored'
  BY <1>2 DEF IInv, Typed, Others, Domains, Stored, Copying
<1>4. /\ dir'[p] = dir[p] /\ pc'[p] = "idle" /\ bundle'[p] = None /\ todo'[p] = <<>>
  BY <1>2 DEF IInv, Typed
<1>5. Alone(p)'
  BY <1>1, <1>4 DEF Alone, Labels, Listed
<1> QED
  BY <1>3, <1>5

LEMMA StartIInv ==
    ASSUME IInv, NEW p \in Publishers, StartExport(p)
    PROVE  IInv'
<1>1. PICK m \in Manifests :
          /\ bundle' = [bundle EXCEPT ![p] = m] /\ todo' = [todo EXCEPT ![p] = ExportOrder(m)]
          /\ pc' = [pc EXCEPT ![p] = "exporting"] /\ exports' = exports + 1 /\ exports < MaxExports
          /\ UNCHANGED <<dir, storage, trouble>> /\ pc[p] = "idle"
  BY DEF StartExport, Goto
<1>2. /\ dir'[p] = dir[p] /\ pc'[p] = "exporting" /\ bundle'[p] = m /\ todo'[p] = ExportOrder(m)
  BY <1>1 DEF IInv, Typed
<1>3. Others(p) /\ Domains' /\ Stored' /\ Counted' /\ (pins \subseteq node)'
  <2>1. Others(p) /\ Domains'
    BY <1>1 DEF IInv, Typed, Others, Domains
  <2>2. Stored' /\ (pins \subseteq node)'
    BY <1>1 DEF IInv, Typed, Stored, Copying, storage
  <2>3. Counted'
    BY <1>1, BundlesAssumption DEF IInv, Typed, Counted
  <2> QED
    BY <2>1, <2>2, <2>3
<1>4. Exporting(p)'
  BY <1>2, OrderOfExport DEF Exporting
<1>5. Alone(p)'
  <2>1. Alone(p)
    BY Split DEF IInv
  <2> QED
    BY <1>2, <1>4, <2>1, OrderOfExport DEF Alone, Labels, Listed
<1> QED
  BY <1>3, <1>5, OneMoves

\* Writing a file of the directory that is exported.
LEMMA OpenIInv ==
    ASSUME IInv, NEW p \in Publishers, Open(p)
    PROVE  IInv'
<1>1. Alone(p) /\ Exporting(p) /\ todo[p] # <<>> /\ pc[p] = "exporting"
  BY Split DEF IInv, Open, Alone
<1> DEFINE name == Head(todo[p])
<1>2. /\ dir'[p] = Put(dir[p], name, Partial)
      /\ pc'[p] = "filling" /\ bundle'[p] = bundle[p] /\ todo'[p] = todo[p]
  BY DEF Open, Goto, IInv, Typed
<1>3. Others(p) /\ Domains' /\ Stored' /\ Counted' /\ (pins \subseteq node)'
  BY <1>1 DEF Open, Goto, IInv, Typed, Others, Domains, Stored, Copying, Counted, storage
<1>4. name \in Names /\ name \in ToSet(todo[p])
  BY <1>1, TailOfNames DEF Alone
<1>5. /\ dir'[p] \in Dirs /\ FileIn(dir'[p], name) = Partial
      /\ \A other \in Names \ {name} : FileIn(dir'[p], other) = FileIn(dir[p], other)
  BY <1>1, <1>2, <1>4, PutIsDir DEF Alone
<1>6. Listed(dir'[p])
  BY <1>1, <1>5, BundlesAssumption, RefsOfManifests DEF Alone, Listed, FileIn, Names
<1>7. bundle[p] \in Manifests
  BY <1>1 DEF Alone
<1>8. Exporting(p)'
  BY <1>1, <1>2, <1>4, <1>5, <1>7, RefsOfManifests, BundlesAssumption DEF Exporting, FileIn, Names
<1>9. Alone(p)'
  BY <1>1, <1>2, <1>5, <1>6, <1>8 DEF Alone, Labels
<1> QED
  BY <1>3, <1>9, OneMoves

LEMMA FillIInv ==
    ASSUME IInv, NEW p \in Publishers, Fill(p)
    PROVE  IInv'
<1>1. Alone(p) /\ Exporting(p) /\ todo[p] # <<>> /\ pc[p] = "filling" /\ bundle[p] \in Manifests
  BY Split DEF IInv, Fill, Alone
<1> DEFINE name == Head(todo[p])
<1> DEFINE content == Content(bundle[p], name)
<1>2. /\ dir'[p] = Put(dir[p], name, content)
      /\ pc'[p] = "exporting" /\ bundle'[p] = bundle[p] /\ todo'[p] = Tail(todo[p])
  BY DEF Fill, Goto, IInv, Typed
<1>3. Others(p) /\ Domains' /\ Stored' /\ Counted' /\ (pins \subseteq node)'
  BY <1>1 DEF Fill, Goto, IInv, Typed, Others, Domains, Stored, Copying, Counted, storage
<1>4. /\ name \in Names /\ Tail(todo[p]) \in Seq(Names)
      /\ ToSet(todo[p]) = {name} \cup ToSet(Tail(todo[p]))
  BY <1>1, TailOfNames DEF Alone
<1>5. /\ dir'[p] \in Dirs /\ FileIn(dir'[p], name) = content
      /\ \A other \in Names \ {name} : FileIn(dir'[p], other) = FileIn(dir[p], other)
  <2>1. content = Content(content, name) /\ (name = "manifest" => content \in Manifests)
    BY <1>1 DEF Content
  <2> QED
    BY <1>1, <1>2, <1>4, <2>1, PutIsDir DEF Alone
<1>6. /\ name = "manifest" <=> Tail(todo[p]) = <<>>
      /\ ManifestLastOf(Tail(todo[p]))
  BY <1>1, ManifestStaysLast DEF Exporting, Alone
<1>7. \A ref \in ToSet(bundle[p]) \ ToSet(Tail(todo[p])) : dir'[p].files[ref] = ref
  BY <1>1, <1>4, <1>5, RefsOfManifests, BundlesAssumption DEF Exporting, FileIn, Names, Content
<1>8. Exporting(p)'
  BY <1>1, <1>2, <1>5, <1>6, <1>7 DEF Exporting, FileIn, Content
<1>9. Listed(dir'[p])
  <2>1. CASE name = "manifest"
    <3>1. dir'[p].manifest = bundle[p]
      BY <1>5, <2>1 DEF FileIn, Content
    <3>2. ToSet(Tail(todo[p])) = {}
      BY <1>6, <2>1 DEF ToSet
    <3>3. \A ref \in ToSet(bundle[p]) : dir'[p].files[ref] = ref
      BY <1>7, <3>2
    <3> QED
      BY <1>1, <3>1, <3>3, RefsOfManifests, BundlesAssumption DEF Listed
  <2>2. CASE name # "manifest"
    BY <1>1, <1>4, <1>5, <2>2, BundlesAssumption, RefsOfManifests
    DEF Alone, Listed, FileIn, Names, Content
  <2> QED
    BY <2>1, <2>2
<1>10. Alone(p)'
  BY <1>1, <1>2, <1>4, <1>5, <1>8, <1>9 DEF Alone, Labels
<1> QED
  BY <1>3, <1>10, OneMoves

\* An export that is done left a directory that loads.
LEMMA PrepareIInv ==
    ASSUME IInv, NEW p \in Publishers, Prepare(p)
    PROVE  IInv'
<1>1. Alone(p) /\ Exporting(p) /\ todo[p] = <<>> /\ bundle[p] \in Manifests
  BY Split DEF IInv, Prepare, Alone
<1>2. Others(p) /\ Domains' /\ Stored' /\ Counted' /\ (pins \subseteq node)'
  BY Rests DEF Prepare, Labels, IInv, Typed, Goto, Copying, Counted, storage
<1>3. dir'[p] = dir[p] /\ pc'[p] = "prepared" /\ bundle'[p] = bundle[p] /\ todo'[p] = todo[p]
  BY DEF Prepare, Goto, IInv, Typed
<1>4. Load(dir[p]) = bundle[p]
  <2>1. ToSet(todo[p]) = {}
    BY <1>1 DEF ToSet
  <2> QED
    BY <1>1, <2>1, Loads DEF Exporting
<1>5. Alone(p)'
  BY <1>1, <1>3, <1>4 DEF Alone, Labels
<1> QED
  BY <1>2, <1>5, OneMoves

\* The publications that give up or are over, with or without a receipt.
LEMMA ReturnIInv ==
    ASSUME IInv, NEW p \in Publishers,
           PublishRefused(p) \/ Published(p) \/ Pin(p) \/ ClientFails(p) \/ Crash(p)
    PROVE  IInv'
<1>1. Return(p) /\ UNCHANGED <<dir, store>>
  BY DEF PublishRefused, Published, Pin, ClientFails, Crash, storage
<1>2. Counted' /\ (pins \subseteq node)'
  BY BundlesAssumption
  DEF PublishRefused, Published, Pin, ClientFails, Crash, storage, IInv, Typed, Counted
<1> QED
  BY <1>1, <1>2, Returns, OneMoves

LEMMA GoOnIInv ==
    ASSUME IInv, NEW p \in Publishers, FindTargetAbsent(p) \/ AddToNode(p)
    PROVE  IInv'
<1>1. PICK label \in {"absent", "added"} : Goto(p, label)
  BY DEF FindTargetAbsent, AddToNode
<1>2. pc[p] = "prepared" /\ UNCHANGED <<dir, bundle, todo, store>>
  BY DEF FindTargetAbsent, AddToNode, storage
<1>3. dir'[p] = dir[p] /\ pc'[p] = label /\ bundle'[p] = bundle[p] /\ todo'[p] = todo[p]
  BY <1>1, <1>2 DEF Goto, IInv, Typed
<1>4. Others(p) /\ Domains' /\ Stored'
  BY <1>1, <1>2, <1>3, Rests DEF Labels, Copying
<1>5. Counted' /\ (pins \subseteq node)'
  BY DEF FindTargetAbsent, AddToNode, storage, IInv, Typed, Counted
<1>6. Alone(p)'
  <2>1. Alone(p)
    BY Split DEF IInv
  <2> QED
    BY <1>1, <1>2, <1>3, <2>1 DEF Alone, Labels
<1> QED
  BY <1>4, <1>5, <1>6, OneMoves

-----------------------------------------------------------------------------
(* Copying into the store. *)

LEMMA SequencesOfAll ==
    ASSUME NEW S, IsFiniteSet(S), NEW order \in SetToSeqs(S)
    PROVE  order \in Seq(S) /\ ToSet(order) = S
<1> DEFINE n == Cardinality(S)
<1>1. n \in Nat
  BY FS_CardinalityType
<1>2. order \in [1..n -> S] /\ \A i, j \in 1..n : i # j => order[i] # order[j]
  BY DEF SetToSeqs
<1>3. order \in Seq(S) /\ ToSet(order) \subseteq S
  BY <1>1, <1>2 DEF ToSet
<1>4. order \in Bijection(1..n, ToSet(order))
  <2>1. order \in [1..n -> ToSet(order)]
    BY <1>2 DEF ToSet
  <2>2. order \in Injection(1..n, ToSet(order))
    BY <1>2, <2>1 DEF Injection, IsInjective
  <2>3. order \in Surjection(1..n, ToSet(order))
    BY <1>2, <2>1 DEF Surjection, ToSet
  <2> QED
    BY <2>2, <2>3 DEF Bijection
<1>5. Cardinality(ToSet(order)) = n
  BY <1>1, <1>4, FS_CountingElements DEF ExistsBijection
<1> QED
  BY <1>3, <1>5, FS_Subset

LEMMA FilesOfManifest ==
    ASSUME NEW m \in Manifests
    PROVE  /\ IsFiniteSet(ToSet(m) \cup {"manifest"})
           /\ ToSet(m) \cup {"manifest"} \subseteq Names
<1>1. m \in Seq(Refs)
  BY BundlesAssumption
<1>2. ToSet(m) = {m[i] : i \in 1..Len(m)}
  BY <1>1 DEF ToSet
<1>3. IsFiniteSet(1..Len(m))
  BY <1>1, FS_Interval
<1>4. IsFiniteSet(ToSet(m))
  <2>1. m \in Surjection(1..Len(m), ToSet(m))
    BY <1>1, <1>2 DEF Surjection
  <2> QED
    BY <1>3, <2>1, FS_Surjection DEF ExistsSurjection
<1> QED
  BY <1>4, FS_AddElement, RefsOfManifests DEF Names

\* Who copies leaves its directory alone, and puts directories into the store.
LEMMA CopyIInv ==
    ASSUME IInv, NEW p \in Publishers, MakeTarget(p) \/ CopyOpen(p) \/ CopyFill(p)
    PROVE  IInv'
<1>1. /\ Alone(p) /\ bundle[p] \in Manifests /\ pc[p] \in {"absent", "copying", "copying_file"}
      /\ store[bundle[p]] \in Dirs \cup {None}
  BY Split DEF IInv, Typed, Alone, MakeTarget, CopyOpen, CopyFill
<1>2. PICK label \in {"copying", "copying_file"}, names \in Seq(Names), d \in Dirs :
          /\ pc' = [pc EXCEPT ![p] = label]
          /\ todo' = [todo EXCEPT ![p] = names] /\ (label = "copying_file" => names # <<>>)
          /\ store' = [store EXCEPT ![bundle[p]] = d]
  <2>1. CASE MakeTarget(p)
    <3>1. PICK order \in SetToSeqs(ToSet(bundle[p]) \cup {"manifest"}) :
              todo' = [todo EXCEPT ![p] = order]
      BY <2>1 DEF MakeTarget
    <3>2. order \in Seq(Names)
      <4> DEFINE S == ToSet(bundle[p]) \cup {"manifest"}
      <4>1. IsFiniteSet(S) /\ S \subseteq Names
        BY <1>1, FilesOfManifest
      <4>2. order \in Seq(S)
        BY <3>1, <4>1, SequencesOfAll
      <4> QED
        BY <4>1, <4>2, SeqMonotonic
    <3> DEFINE d == IF store[bundle[p]] = None THEN EmptyDir ELSE store[bundle[p]]
    <3>3. d \in Dirs
      BY <1>1, EmptyDirIsDir
    <3>4. pc' = [pc EXCEPT ![p] = "copying"] /\ store' = [store EXCEPT ![bundle[p]] = d]
      BY <2>1 DEF MakeTarget, Goto
    <3> QED
      BY <3>1, <3>2, <3>3, <3>4
  <2>2. ASSUME CopyOpen(p) \/ CopyFill(p)
        PROVE  /\ store[bundle[p]] \in Dirs /\ todo[p] \in Seq(Names) /\ todo[p] # <<>>
               /\ Head(todo[p]) \in Names /\ Tail(todo[p]) \in Seq(Names)
    BY <1>1, <2>2, TailOfNames DEF CopyOpen, CopyFill, IInv, Typed, Copying
  <2>3. CASE CopyOpen(p)
    <3>1. Put(store[bundle[p]], Head(todo[p]), Partial) \in Dirs
      BY <2>2, <2>3, PutIsDir
    <3>2. /\ pc' = [pc EXCEPT ![p] = "copying_file"] /\ todo' = [todo EXCEPT ![p] = todo[p]]
          /\ store' = [store EXCEPT ![bundle[p]] = Put(store[bundle[p]], Head(todo[p]), Partial)]
      BY <2>3 DEF CopyOpen, Goto, IInv, Typed
    <3> QED
      BY <2>2, <2>3, <3>1, <3>2
  <2>4. CASE CopyFill(p)
    <3> DEFINE content == FileIn(dir[p], Head(todo[p]))
    <3>1. \/ content \in {None, Partial}
          \/ /\ content = Content(content, Head(todo[p]))
             /\ Head(todo[p]) = "manifest" => content \in Manifests
      BY <1>1, <2>2, <2>4 DEF FileIn, Content, Alone, Dirs, Names
    <3>2. Put(store[bundle[p]], Head(todo[p]), content) \in Dirs
      BY <2>2, <2>4, <3>1, PutIsDir
    <3>3. /\ pc' = [pc EXCEPT ![p] = "copying"] /\ todo' = [todo EXCEPT ![p] = Tail(todo[p])]
          /\ store' = [store EXCEPT ![bundle[p]] =
                           Put(store[bundle[p]], Head(todo[p]), content)]
      BY <2>4 DEF CopyFill, Goto, IInv, Typed
    <3> QED
      BY <2>2, <2>4, <3>2, <3>3
  <2> QED
    BY <2>1, <2>3, <2>4
<1>3. /\ UNCHANGED <<dir, bundle, node, pins, exports, trouble>>
  BY DEF MakeTarget, CopyOpen, CopyFill
<1>4. dir'[p] = dir[p] /\ pc'[p] = label /\ bundle'[p] = bundle[p] /\ todo'[p] = names
  BY <1>2, <1>3 DEF IInv, Typed
<1>5. Others(p) /\ Domains'
  BY <1>2, <1>3 DEF IInv, Typed, Others, Domains
<1>6. Stored'
  BY <1>1, <1>2, <1>3, <1>4, <1>5, DirsAreThere DEF IInv, Typed, Stored, Copying, Others
<1>7. Counted' /\ (pins \subseteq node)'
  BY <1>3 DEF IInv, Typed, Counted
<1>8. Alone(p)'
  BY <1>1, <1>2, <1>4 DEF Alone, Labels, Listed
<1> QED
  BY <1>5, <1>6, <1>7, <1>8, OneMoves

\* What the node, the chain and the verifiers do leaves the publishers alone.
Outside ==
    \/ Collect \/ VerifyStorage
    \/ AnchorLocally \/ AnchorOnTau \/ AnchorOnChain \/ SubmissionUnanswered
    \/ Finalize \/ Reorganise \/ VerifyAnchor

LEMMA OutsideIInv ==
    ASSUME IInv, Outside
    PROVE  IInv'
<1>1. UNCHANGED <<dir, pc, bundle, todo, store, pins, exports>>
  BY DEF Outside, Collect, VerifyStorage, AnchorLocally, AnchorOnTau, AnchorOnChain,
         SubmissionUnanswered, Finalize, Reorganise, VerifyAnchor, storage
<1>2. (pins \subseteq node)'
  BY DEF Outside, Collect, VerifyStorage, AnchorLocally, AnchorOnTau, AnchorOnChain,
         SubmissionUnanswered, Finalize, Reorganise, VerifyAnchor, storage, IInv
<1>3. trouble' \in 0..MaxTrouble
  BY BundlesAssumption
  DEF Outside, Collect, VerifyStorage, AnchorLocally, AnchorOnTau, AnchorOnChain,
      SubmissionUnanswered, Finalize, Reorganise, VerifyAnchor, storage, IInv, Typed
<1>4. Typed'
  BY <1>1, <1>3 DEF IInv, Typed, Copying
<1>5. Exported'
  BY <1>1 DEF IInv, Exported, Exporting
<1> QED
  BY <1>2, <1>4, <1>5 DEF IInv

LEMMA InitIInv == Init => IInv
<1> SUFFICES ASSUME Init PROVE IInv
  OBVIOUS
<1>1. Typed
  BY EmptyDirIsDir, BundlesAssumption DEF Init, Typed, Labels, Copying
<1>2. Exported
  BY EmptyDirIsDir DEF Init, Exported
<1> QED
  BY <1>1, <1>2 DEF Init, IInv

LEMMA NextIInv == IInv /\ [Next]_vars => IInv'
<1> SUFFICES ASSUME IInv, [Next]_vars PROVE IInv'
  OBVIOUS
<1>1. CASE UNCHANGED vars
  BY <1>1 DEF vars, IInv, Typed, Exported, Exporting, Copying, storage, anchoring
<1>2. CASE Outside
  BY <1>2, OutsideIInv
<1>3. ASSUME NEW p \in Publishers,
             \/ StartExport(p) \/ Open(p) \/ Fill(p) \/ Prepare(p)
             \/ PublishRefused(p) \/ FindTargetAbsent(p) \/ MakeTarget(p)
             \/ CopyOpen(p) \/ CopyFill(p) \/ Published(p)
             \/ AddToNode(p) \/ Pin(p) \/ ClientFails(p) \/ Crash(p)
      PROVE  IInv'
  BY <1>3, StartIInv, OpenIInv, FillIInv, PrepareIInv, ReturnIInv, GoOnIInv, CopyIInv
<1> QED
  BY <1>1, <1>2, <1>3 DEF Next, Outside

LEMMA Inductive == Spec => []IInv
  BY InitIInv, NextIInv, PTL DEF Spec

\* A directory is what its manifest says, to the publisher and to whoever looks in, however
\* often exports are cut off and whatever is published at the same time (bundle.py:323-365).
THEOREM DirectoriesAreWhole == Spec => []ExportsWhole
<1>1. IInv => ExportsWhole
  <2> SUFFICES ASSUME IInv PROVE ExportsWhole
    OBVIOUS
  <2>1. TypeOK
    BY DEF IInv, Typed, TypeOK, Labels, Dirs
  <2>2. ExportLoads /\ ManifestLast
    BY DEF IInv, Exported, ExportLoads, ManifestLast, Listed
  <2> QED
    BY <2>1, <2>2 DEF ExportsWhole
<1> QED
  BY <1>1, Inductive, PTL

-----------------------------------------------------------------------------
(* What was promised stays true. *)

\* A receipt holds on where its bundle is left alone.
LEMMA GoodStays ==
    ASSUME IInv', pins \subseteq pins', NEW r, Good(r),
           r.adapter = "local" => store'[r.bundle_root] = store[r.bundle_root]
    PROVE  Good(r)'
<1>1. pins' \subseteq node'
  BY DEF IInv
<1> QED
  BY <1>1 DEF Good, StorageHolds

\* The steps that hand out no receipt, put nothing into the store and verify nothing.
LEMMA ReceiptedKept ==
    ASSUME IInv', Receipted, UNCHANGED <<store, receipts, verified>>, pins \subseteq pins'
    PROVE  Receipted'
<1>1. ASSUME NEW r \in receipts' PROVE Good(r)'
  BY <1>1, GoodStays DEF Receipted
<1> QED
  BY <1>1 DEF Receipted

LEMMA ConfirmedKept ==
    ASSUME Confirmed, [Next]_vars
    PROVE  Confirmed'
<1>1. \A e \in chain : e.final => e \in chain'
  <2>1. CASE Finalize \/ Reorganise
    BY <2>1 DEF Finalize, Reorganise
  <2>2. CASE AnchorOnChain \/ SubmissionUnanswered
    BY <2>2 DEF AnchorOnChain, SubmissionUnanswered
  <2>3. CASE ~(Finalize \/ Reorganise \/ AnchorOnChain \/ SubmissionUnanswered)
    <3>1. UNCHANGED chain
      BY <2>3 DEF Next, vars, anchoring, StartExport, Open, Fill, Prepare, PublishRefused,
                  FindTargetAbsent, MakeTarget, CopyOpen, CopyFill, Published, AddToNode, Pin,
                  ClientFails, Crash, Collect, VerifyStorage, AnchorLocally, AnchorOnTau,
                  VerifyAnchor
    <3> QED
      BY <3>1
  <2> QED
    BY <2>1, <2>2, <2>3
<1>2. \A a : EventFinal(a) => EventFinal(a)'
  BY <1>1 DEF EventFinal
<1>3. CASE VerifyAnchor
  BY <1>2, <1>3 DEF VerifyAnchor, Confirmed
<1>4. CASE ~VerifyAnchor
  <2>1. UNCHANGED confirmed
    BY <1>4 DEF Next, vars, anchoring, StartExport, Open, Fill, Prepare, PublishRefused,
                FindTargetAbsent, MakeTarget, CopyOpen, CopyFill, Published, AddToNode, Pin,
                ClientFails, Crash, Collect, VerifyStorage, AnchorLocally, AnchorOnTau,
                AnchorOnChain, SubmissionUnanswered, Finalize, Reorganise
  <2> QED
    BY <1>2, <2>1 DEF Confirmed
<1> QED
  BY <1>3, <1>4

\* With one publisher, what it does is all that happens to its directory and its bundle.
LEMMA GoOnPromised ==
    ASSUME IInv, IInv', Promised, NEW p \in Publishers, Publishers = {p},
           StartExport(p) \/ Open(p) \/ Fill(p) \/ Prepare(p) \/ FindTargetAbsent(p) \/ AddToNode(p)
    PROVE  Copied' /\ Receipted'
<1>1. UNCHANGED <<store, receipts, verified, pins>>
  BY DEF StartExport, Open, Fill, Prepare, FindTargetAbsent, AddToNode, storage, anchoring
<1>2. Receipted'
  BY <1>1, ReceiptedKept DEF Promised
<1>3. ~Copying(p)' /\ (pc'[p] = "absent" => store'[bundle'[p]] = None)
  <2>1. CASE FindTargetAbsent(p)
    BY <2>1 DEF FindTargetAbsent, TargetAbsent, Goto, storage, Copying, IInv, Typed
  <2>2. CASE ~FindTargetAbsent(p)
    BY <2>2 DEF StartExport, Open, Fill, Prepare, AddToNode, Goto, Copying, IInv, Typed
  <2> QED
    BY <2>1, <2>2
<1>4. Copied'
  BY <1>3 DEF Copied
<1> QED
  BY <1>2, <1>4

LEMMA ReturnPromised ==
    ASSUME IInv, IInv', Promised, NEW p \in Publishers, Publishers = {p},
           PublishRefused(p) \/ Published(p) \/ Pin(p) \/ ClientFails(p) \/ Crash(p)
    PROVE  Copied' /\ Receipted'
<1>1. Return(p) /\ UNCHANGED <<dir, store, verified>> /\ pins \subseteq pins'
  BY DEF PublishRefused, Published, Pin, ClientFails, Crash, storage, anchoring
<1>2. Copied'
  <2>1. pc'[p] = "idle"
    BY <1>1 DEF Return, Goto, IInv, Typed
  <2> QED
    BY <2>1 DEF Copied, Copying
<1>3. ASSUME NEW r \in receipts PROVE Good(r)'
  BY <1>1, GoodStays DEF Promised, Receipted
<1>4. bundle[p] \in Manifests
  BY DEF PublishRefused, Published, Pin, ClientFails, Crash, IInv, Typed
<1>5. CASE Published(p)
  <2> DEFINE new == Receipt("local", bundle[p], None)
  <2>1. /\ receipts' = receipts \cup {new} /\ todo[p] = <<>> /\ Copying(p)
    BY <1>5 DEF Published, Copying
  <2>2. new.adapter = "local" /\ new.bundle_root = bundle[p]
    BY DEF Receipt
  <2>3. store[bundle[p]] # None
    BY <2>1 DEF IInv, Typed
  <2>4. \A name \in ToSet(bundle[p]) \cup {"manifest"} :
            FileIn(store[bundle[p]], name) = Content(bundle[p], name)
    BY <2>1 DEF Promised, Copied, ToSet
  <2>5. Load(store[bundle[p]]) = bundle[p]
    BY <1>4, <2>4, Loads, RefsOfManifests, BundlesAssumption DEF FileIn, Content
  <2>6. ASSUME NEW r \in receipts' PROVE Good(r)'
    <3>1. CASE r \in receipts
      BY <1>3, <3>1
    <3>2. CASE r = new
      BY <1>1, <1>4, <2>2, <2>3, <2>5, <3>2 DEF Good, StorageHolds
    <3> QED
      BY <2>1, <2>6, <3>1, <3>2
  <2>7. verified' \subseteq receipts'
    BY <1>1, <2>1 DEF Promised, Receipted
  <2> QED
    BY <1>2, <2>6, <2>7 DEF Receipted
<1>6. CASE Pin(p)
  <2> DEFINE new == Receipt("ipfs", bundle[p], dir[p])
  <2>1. receipts' = receipts \cup {new} /\ dir[p] \in node' /\ dir[p] \in pins'
    BY <1>6 DEF Pin
  <2>2. new.adapter = "ipfs" /\ new.bundle_root = bundle[p] /\ new.content_id = dir[p]
    BY DEF Receipt
  <2>3. Load(dir[p]) = bundle[p]
    BY <1>6 DEF Pin, IInv, Exported
  <2>4. ASSUME NEW r \in receipts' PROVE Good(r)'
    <3>1. CASE r \in receipts
      BY <1>3, <3>1
    <3>2. CASE r = new
      BY <1>4, <2>1, <2>2, <2>3, <3>2 DEF Good, StorageHolds
    <3> QED
      BY <2>1, <2>4, <3>1, <3>2
  <2>5. verified' \subseteq receipts'
    BY <1>1, <2>1 DEF Promised, Receipted
  <2> QED
    BY <1>2, <2>4, <2>5 DEF Receipted
<1>7. CASE UNCHANGED receipts
  BY <1>1, <1>2, <1>7, ReceiptedKept DEF Promised
<1> QED
  BY <1>5, <1>6, <1>7 DEF PublishRefused, ClientFails, Crash, storage

\* Copying touches what has no receipt yet, and what it has copied is what was exported.
LEMMA CopyPromised ==
    ASSUME IInv, IInv', Promised, NEW p \in Publishers, Publishers = {p},
           MakeTarget(p) \/ CopyOpen(p) \/ CopyFill(p)
    PROVE  Copied' /\ Receipted'
<1>1. /\ UNCHANGED <<dir, bundle, pins, receipts, verified>>
      /\ bundle[p] \in Manifests /\ pc[p] \in {"absent", "copying", "copying_file"}
      /\ pc'[p] \in {"copying", "copying_file"}
  BY DEF MakeTarget, CopyOpen, CopyFill, Goto, anchoring, IInv, Typed
<1>2. \A r \in receipts : r.adapter = "local" => r.bundle_root # bundle[p]
  BY <1>1 DEF Promised, Copied, Copying, Receipted, Good
<1>3. \A m \in Manifests \ {bundle[p]} : store'[m] = store[m]
  BY DEF MakeTarget, CopyOpen, CopyFill, IInv, Typed
<1>4. Receipted'
  <2>1. ASSUME NEW r \in receipts' PROVE Good(r)'
    BY <1>1, <1>2, <1>3, <2>1, GoodStays DEF Promised, Receipted, Good
  <2>2. verified' \subseteq receipts'
    BY <1>1 DEF Promised, Receipted
  <2> QED
    BY <2>1, <2>2 DEF Receipted
<1> DEFINE all == ToSet(bundle[p]) \cup {"manifest"}
<1>5. all \subseteq Names /\ IsFiniteSet(all)
  BY <1>1, FilesOfManifest
<1>6. ASSUME NEW name \in all \ ToSet(todo'[p])
      PROVE  FileIn(store'[bundle[p]], name) = Content(bundle[p], name)
  <2>1. CASE MakeTarget(p)
    <3>1. PICK order \in SetToSeqs(all) : todo' = [todo EXCEPT ![p] = order]
      BY <2>1 DEF MakeTarget
    <3>2. todo'[p] = order
      BY <3>1 DEF IInv, Typed
    <3>3. ToSet(order) = all
      BY <1>5, <3>1, SequencesOfAll
    <3> QED
      BY <1>6, <3>2, <3>3
  <2>2. ASSUME CopyOpen(p) \/ CopyFill(p)
        PROVE  /\ Copying(p) /\ store[bundle[p]] \in Dirs
               /\ todo[p] \in Seq(Names) /\ todo[p] # <<>> /\ Head(todo[p]) \in Names
               /\ ToSet(todo[p]) = {Head(todo[p])} \cup ToSet(Tail(todo[p]))
    BY <1>1, <2>2, TailOfNames DEF CopyOpen, CopyFill, IInv, Typed, Copying
  <2>3. CASE CopyOpen(p)
    <3>1. /\ todo'[p] = todo[p]
          /\ store'[bundle[p]] = Put(store[bundle[p]], Head(todo[p]), Partial)
      BY <1>1, <2>3 DEF CopyOpen, IInv, Typed
    <3>2. name # Head(todo[p]) /\ name \notin ToSet(todo[p])
      BY <1>6, <2>2, <2>3, <3>1
    <3>3. FileIn(store'[bundle[p]], name) = FileIn(store[bundle[p]], name)
      BY <1>5, <1>6, <2>2, <2>3, <3>1, <3>2, PutIsDir
    <3> QED
      BY <1>6, <2>2, <2>3, <3>2, <3>3 DEF Promised, Copied
  <2>4. CASE CopyFill(p)
    <3> DEFINE content == FileIn(dir[p], Head(todo[p]))
    <3>1. /\ todo'[p] = Tail(todo[p])
          /\ store'[bundle[p]] = Put(store[bundle[p]], Head(todo[p]), content)
      BY <1>1, <2>4 DEF CopyFill, IInv, Typed
    <3>2. dir[p] \in Dirs /\ Load(dir[p]) = bundle[p]
      BY <1>1 DEF IInv, Typed, Exported
    <3>3. \/ content \in {None, Partial}
          \/ /\ content = Content(content, Head(todo[p]))
             /\ Head(todo[p]) = "manifest" => content \in Manifests
      BY <2>2, <2>4, <3>2 DEF FileIn, Content, Dirs, Names
    <3>4. /\ FileIn(store'[bundle[p]], Head(todo[p])) = content
          /\ \A other \in Names \ {Head(todo[p])} :
                 FileIn(store'[bundle[p]], other) = FileIn(store[bundle[p]], other)
      BY <2>2, <2>4, <3>1, <3>3, PutIsDir
    <3>5. CASE name = Head(todo[p])
      <4>1. FileIn(dir[p], name) = Content(bundle[p], name)
        BY <1>1, <1>6, <3>2, Loads DEF FileIn, Content
      <4> QED
        BY <3>4, <3>5, <4>1
    <3>6. CASE name # Head(todo[p])
      BY <1>5, <1>6, <2>2, <2>4, <3>1, <3>4, <3>6 DEF Promised, Copied
    <3> QED
      BY <3>5, <3>6
  <2> QED
    BY <2>1, <2>3, <2>4
<1>7. Copied'
  BY <1>1, <1>2, <1>6 DEF Copied
<1> QED
  BY <1>4, <1>7

LEMMA OutsidePromised ==
    ASSUME IInv, IInv', Promised, Outside
    PROVE  Copied' /\ Receipted'
<1>1. UNCHANGED <<dir, pc, bundle, todo, store, pins, receipts>>
  BY DEF Outside, Collect, VerifyStorage, AnchorLocally, AnchorOnTau, AnchorOnChain,
         SubmissionUnanswered, Finalize, Reorganise, VerifyAnchor, storage
<1>2. Copied'
  BY <1>1 DEF Promised, Copied, Copying
<1>3. CASE VerifyStorage
  <2>1. ASSUME NEW r \in receipts' PROVE Good(r)'
    BY <1>1, <2>1, GoodStays DEF Promised, Receipted
  <2>2. verified' \subseteq receipts'
    BY <1>1, <1>3 DEF VerifyStorage, Promised, Receipted
  <2> QED
    BY <1>2, <2>1, <2>2 DEF Receipted
<1>4. CASE ~VerifyStorage
  <2>1. UNCHANGED verified
    BY <1>4 DEF Outside, Collect, AnchorLocally, AnchorOnTau, AnchorOnChain,
                SubmissionUnanswered, Finalize, Reorganise, VerifyAnchor, anchoring
  <2> QED
    BY <1>1, <1>2, <2>1, ReceiptedKept DEF Promised
<1> QED
  BY <1>3, <1>4

LEMMA NextPromised ==
    ASSUME \A p, q \in Publishers : p = q, IInv, IInv', Promised, [Next]_vars
    PROVE  Promised'
<1>1. Confirmed'
  BY ConfirmedKept DEF Promised
<1>2. CASE UNCHANGED vars
  BY <1>1, <1>2, ReceiptedKept DEF vars, Promised, Copied, Copying, storage, anchoring
<1>3. CASE Outside
  BY <1>1, <1>3, OutsidePromised DEF Promised
<1>4. ASSUME NEW p \in Publishers,
             \/ StartExport(p) \/ Open(p) \/ Fill(p) \/ Prepare(p)
             \/ PublishRefused(p) \/ FindTargetAbsent(p) \/ MakeTarget(p)
             \/ CopyOpen(p) \/ CopyFill(p) \/ Published(p)
             \/ AddToNode(p) \/ Pin(p) \/ ClientFails(p) \/ Crash(p)
      PROVE  Promised'
  <2>1. Publishers = {p}
    OBVIOUS
  <2> QED
    BY <1>1, <1>4, <2>1, GoOnPromised, ReturnPromised, CopyPromised DEF Promised
<1> QED
  BY <1>2, <1>3, <1>4 DEF Next, Outside

\* What was receipted or confirmed stays true, through restarts, failures, reorganisations and
\* exports of the same root, while one process at a time publishes: two that publish one root
\* at once find its target absent both (local.py:27-40, ipfs.py:62-64).
THEOREM PromisesAreKept ==
    ASSUME \A p, q \in Publishers : p = q
    PROVE  Spec => []PromisesHold
<1>1. Init => Promised
  BY DEF Init, Promised, Copied, Copying, Receipted, Confirmed
<1>2. IInv /\ IInv' /\ Promised /\ [Next]_vars => Promised'
  BY NextPromised
<1>3. Promised => PromisesHold
  BY DEF Promised, Receipted, Good, Confirmed, PromisesHold, ReceiptsHold, VerifiedStays
<1> QED
  BY <1>1, <1>2, <1>3, Inductive, PTL DEF Spec
=============================================================================
