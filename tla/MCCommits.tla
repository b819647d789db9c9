----------------------------- MODULE MCCommits ------------------------------
(***************************************************************************)
(* An instance of Planning: a behaviour is either the history of a log or  *)
(* the planning of one request.  In the first, two requests differ only in *)
(* their effects, one of which is asked for twice, two more only in        *)
(* evidence and in time, one makes a record too long for the head to be    *)
(* read behind it and one note holds a line separator; a log may start     *)
(* with a commit, or a note and a commit, of an earlier release.  In the   *)
(* second, a request has up to two objects, blobs and effects, anything    *)
(* may be wrong with them, and the versions are stated.                    *)
(***************************************************************************)
EXTENDS Planning

Request(time, evidence, outbox) ==
    [created_at |-> time, evidence_root |-> evidence, outbox |-> outbox,
     objects |-> <<[exact |-> TRUE, schema |-> "domain", bytes |-> "a"]>>, blobs |-> <<>>,
     policy_version |-> "v1", core_version |-> "v1"]

Notify == [kind |-> "notify", exact |-> TRUE, payload |-> "p"]

ManyRequests ==
    {Request("t1", NoRoot, <<Notify>>), Request("t1", NoRoot, <<Notify, Notify>>),
     Request("t2", NoRoot, <<Notify>>), Request("t1", Ref("proof"), <<Notify>>),
     [Request("t1", NoRoot, <<>>) EXCEPT !.objects = <<>>,
         !.blobs = <<[media_type |-> "text", bytes |-> "b"]>>],
     [Request("t1", NoRoot, <<>>) EXCEPT !.objects = <<>>,
         !.blobs = <<[media_type |-> "long", bytes |-> "b"]>>]}

TwoNotes == {"checkpoint", "split"}

\* A name with more than 4000 letters, and a name with a line separator in it.
IsLong(record) ==
    IsCommit(record) /\ \E i \in DOMAIN record.core.blobs : record.core.blobs[i].media_type = "long"
IsSplit(record) == ~IsCommit(record) /\ record.core.note = "split"

Legacy(request, head) == Sealed(RecordCore(1, Contents(On(request, head))))
OldCommit == Legacy(Request("t0", NoRoot, <<Notify>>), NoRoot)
SomeOldLogs ==
    {<<>>, <<OldCommit>>,
     <<Note("checkpoint", NoRoot),
       Legacy(Request("t0", NoRoot, <<Notify>>), Note("checkpoint", NoRoot).record_hash)>>}

-----------------------------------------------------------------------------
UpToTwo(S) == UNION {[1..n -> S] : n \in 0..2}

AllObjectLists ==
    UpToTwo({[exact |-> TRUE, schema |-> "domain", bytes |-> "a"],
             [exact |-> TRUE, schema |-> "domain", bytes |-> "b"],
             [exact |-> TRUE, schema |-> "", bytes |-> "c"],
             [exact |-> FALSE, schema |-> "domain", bytes |-> "d"]})
AllBlobLists ==
    UpToTwo({[media_type |-> "text", bytes |-> "a"], [media_type |-> "text", bytes |-> "e"],
             [media_type |-> "", bytes |-> "e"]})
AllOutboxLists ==
    UpToTwo({Notify, [kind |-> "notify", exact |-> FALSE, payload |-> "q"],
             [kind |-> "", exact |-> FALSE, payload |-> "q"]})

SomeRoots == {NoRoot, BadRoot}
SomeTimes == {"", "t1"}
OneVersion == {"v1"}

-----------------------------------------------------------------------------
NoInput == [code |-> "none"]

MCInit ==
    \/ Init /\ input = NoInput /\ python = <<>> /\ rust = <<>>
    \/ P!Init /\ log = <<>> /\ planned = {} /\ handed = <<>>

MCNext ==
    \/ input = NoInput /\ Next /\ UNCHANGED <<input, python, rust>>
    \/ input # NoInput /\ P!Next /\ UNCHANGED vars

MCSpec == MCInit /\ [][MCNext]_<<log, planned, handed, input, python, rust>>
=============================================================================
