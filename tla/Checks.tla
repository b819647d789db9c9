------------------------------- MODULE Checks -------------------------------
(***************************************************************************)
(* The check engine (engine.py, core/check.py, core/evidence.py) and the   *)
(* status of a hypothesis (graph.py, core/graph.py) on one pad.  A check   *)
(* runs the recipes of a hypothesis that fit its intent, one after the     *)
(* other, and publishes the evidence and the edges of all of them in one   *)
(* commit; the status is derived from the records a process has indexed,   *)
(* which it reads once and then knows only its own additions to.  The      *)
(* processes race for the head of the log, die anywhere, and also write    *)
(* evidence and edges by hand or import them: put_object looks at the      *)
(* shape of an object and never at whether anything was run for it.        *)
(*                                                                         *)
(* A ref is the object it names.  Of a run of a recipe only its status     *)
(* matters, which Runner models; a run has a number, which stands for what *)
(* makes its evidence unlike any other (times, tool hashes); evidence that *)
(* nobody ran has none.  Counterexample artifacts, blobs, the staging of   *)
(* payloads and the reading back of the log, which Pad models, are left    *)
(* out, and so is a recipe that an edge names as its evidence: a neutral   *)
(* one then does what evidence for it does.                                *)
(***************************************************************************)
EXTENDS Naturals, Sequences, FiniteSets, SequencesExt

CONSTANTS
    Checkers,           \* processes, each with its own PopperPad
    Hypotheses, Contexts,
    Recipes,
    verdict_on_pass,    \* "support", "refute" or "neutral", of each recipe
    check_recipe_refs,  \* the sequence a hypothesis lists: recipes, repeated or not, and others
    Statuses,           \* what a run may come to
    Written,            \* records of evidence and edges that nobody ran anything for
    Drafts,             \* edges authors write, but for their evidence
    MaxCited,           \* bound: pieces of evidence an edge cites
    MaxRuns,            \* bound: runs of recipes
    MaxRecords,         \* bound: records of the log; no recipe is run once it has as many
    None                \* no context, no run, no index, no job

\* The policies a record is committed under, by the scope they have (commit.py:18-27).
Quarantined == "import_quarantined"
ByHand == {"policy", "import_trusted_receipt", Quarantined}

ASSUME ChecksAssumption ==
    /\ verdict_on_pass \in [Recipes -> {"support", "refute", "neutral"}]
    /\ DOMAIN check_recipe_refs = Hypotheses
    /\ \A hyp \in Hypotheses :
           check_recipe_refs[hyp] \in Seq(ToSet(check_recipe_refs[hyp]))
    /\ None \notin Nat
    /\ \A record \in Written :
           /\ record.policy \in ByHand
           /\ \A object \in record.objects : object.schema = "evidence" => object.run = None
    /\ Drafts \subseteq [kind : {"supports", "refutes", "semantic"}, to_ref : Hypotheses,
                         context_ref : Contexts \cup {None}]

VARIABLES
    log,            \* the records: their objects and the policy they were committed under
    cas,            \* the evidence in the store
    index,          \* the records each process has indexed, once it has been asked for a status
    runs,           \* every run of a recipe there was
    pc,             \* where each checker is
    job,            \* its check: intent, hypothesis, context, the rest of the list, what it planned
    head,           \* the head it planned on
    passes          \* the checks that answered PASS, whom, and the record that shows it

vars == <<log, cas, index, runs, pc, job, head, passes>>

-----------------------------------------------------------------------------
(* The engine's pure parts. *)

recipe_applies(verdict, intent) ==
    verdict = (IF intent = "prove" THEN "support" ELSE "refute")

\* _matching_recipes: where the list names a recipe that fits, for the first time.
MatchingRecipes(hyp, intent) ==
    LET refs == check_recipe_refs[hyp]
    IN  {i \in DOMAIN refs :
            /\ refs[i] \in Recipes
            /\ recipe_applies(verdict_on_pass[refs[i]], intent)
            /\ \A j \in 1..(i - 1) : refs[j] # refs[i]}

Category(status) ==
    CASE status = "PASS" -> "pass" [] status = "FAIL" -> "fail" [] OTHER -> "inconclusive"

decide_check_summary(intent, categories) ==
    IF categories = {} THEN "INCONCLUSIVE"
    ELSE IF intent = "refute"
    THEN IF "pass" \in categories THEN "PASS"
         ELSE IF "inconclusive" \in categories THEN "INCONCLUSIVE" ELSE "FAIL"
    ELSE IF "fail" \in categories THEN "FAIL"
    ELSE IF "pass" \in categories THEN "PASS" ELSE "INCONCLUSIVE"

EvidenceOf(run) ==
    [schema |-> "evidence", run |-> run.number, recipe_ref |-> run.recipe,
     context_ref |-> run.ctx, subject_refs |-> {run.hyp}, status |-> run.status]

EdgeOf(run, intent) ==
    [schema |-> "edge", kind |-> IF intent = "prove" THEN "supports" ELSE "refutes",
     to_ref |-> run.hyp, context_ref |-> run.ctx, evidence_refs |-> {EvidenceOf(run)}]

plan_check_objects(run, intent) ==
    {EvidenceOf(run)} \cup (IF run.status = "PASS" THEN {EdgeOf(run, intent)} ELSE {})

-----------------------------------------------------------------------------
(* The status of a hypothesis. *)

EvidenceIn(objects) == {object \in objects : object.schema = "evidence"}

\* What c has in its index, or would have if it were asked now (_ensure_index).
Indexed(c) == IF index[c] = None THEN DOMAIN log ELSE index[c]

\* The edges of the index: those of its records that are not in quarantine.
AuthorityEdges(c) ==
    {edge \in UNION {log[i].objects : i \in {j \in Indexed(c) : log[j].policy # Quarantined}} :
        edge.schema = "edge"}

\* _load_status_objects: the evidence that is in the store, whatever record brought it.
Loaded(edge) == edge.evidence_refs \cap cas

Listed(hyp) == ToSet(check_recipe_refs[hyp]) \cap Recipes

\* Slip: evidence for any hypothesis will do.
AdmissibleForAny(edge, hyp) ==
    \E evidence \in Loaded(edge) :
        /\ evidence.context_ref = edge.context_ref
        /\ evidence.status = "PASS"
        /\ evidence.recipe_ref \in Listed(hyp)
        /\ verdict_on_pass[evidence.recipe_ref]
               = IF edge.kind = "supports" THEN "support" ELSE "refute"

\* Slip: only the last run of a recipe counts.
AdmissibleByLatest(edge, hyp) ==
    \E evidence \in Loaded(edge) :
        /\ AdmissibleForAny(edge, hyp)
        /\ evidence.status = "PASS" /\ evidence.run # None
        /\ \A other \in cas :
               /\ other.run # None
               /\ other.recipe_ref = evidence.recipe_ref
               => other.run <= evidence.run

\* _truth_edge_admissible: one piece of evidence for it suffices, if it is in the store.
Admissible(edge, hyp) ==
    \E evidence \in Loaded(edge) :
        /\ hyp \in evidence.subject_refs
        /\ evidence.context_ref = edge.context_ref
        /\ evidence.status = "PASS"
        /\ evidence.recipe_ref \in Listed(hyp)
        /\ verdict_on_pass[evidence.recipe_ref]
               = IF edge.kind = "supports" THEN "support" ELSE "refute"

\* derive_status: the edges that count for c in a context, or in every one.
Counted(c, hyp, ctx, kind) ==
    {edge \in AuthorityEdges(c) :
        /\ edge.kind = kind
        /\ edge.to_ref = hyp
        /\ ctx # None => edge.context_ref = ctx
        /\ Admissible(edge, hyp)}

\* compute_status raises on evidence without a status that a truth edge cites, in whatever
\* context, and on a recipe the hypothesis lists that is neither for nor against it and that
\* evidence of any edge was made with (graph.py:100-123, core/graph.py:13-31).
Raises(c, hyp) ==
    \E edge \in AuthorityEdges(c) : edge.to_ref = hyp /\ \E evidence \in Loaded(edge) :
        \/ edge.kind \in {"supports", "refutes"} /\ evidence.status = ""
        \/ evidence.recipe_ref \in Listed(hyp) /\ verdict_on_pass[evidence.recipe_ref] = "neutral"

\* What c answers to a status query.
Status(c, hyp, ctx) ==
    LET supports == Counted(c, hyp, ctx, "supports") # {}
        refutes == Counted(c, hyp, ctx, "refutes") # {}
    IN  IF Raises(c, hyp) THEN "raises"
        ELSE CASE supports /\ refutes -> "disputed"
               [] ~supports /\ refutes -> "falsified"
               [] supports /\ ~refutes -> "supported"
               [] OTHER -> "unknown"

-----------------------------------------------------------------------------
Init ==
    /\ log = <<>> /\ cas = {} /\ runs = {}
    /\ index = [c \in Checkers |-> None]
    /\ pc = [c \in Checkers |-> "idle"]
    /\ job = [c \in Checkers |-> None]
    /\ head = [c \in Checkers |-> 0]
    /\ passes = {}

\* The bounds: no check is begun and no recipe run that could not be published.
Bounded == Cardinality(runs) < MaxRuns /\ Len(log) < MaxRecords

\* run_hypothesis, to the first recipe.
Start(c, hyp, ctx, intent) ==
    /\ pc[c] = "idle"
    /\ Bounded
    /\ check_recipe_refs[hyp] # <<>>
    /\ pc' = [pc EXCEPT ![c] = "running"]
    /\ job' = [job EXCEPT ![c] = [intent |-> intent, hyp |-> hyp, ctx |-> ctx,
                                  left |-> MatchingRecipes(hyp, intent),
                                  categories |-> {}, planned |-> {}]]
    /\ UNCHANGED <<log, cas, index, runs, head, passes>>

\* What a run adds to the check.
Proceeded(check, i, run) ==
    [intent |-> check.intent, hyp |-> check.hyp, ctx |-> check.ctx, left |-> check.left \ {i},
     categories |-> check.categories \cup {Category(run.status)},
     planned |-> check.planned \cup plan_check_objects(run, check.intent)]

\* _run_one_recipe, in the order of the list.
RunOneRecipe(c) ==
    /\ pc[c] = "running"
    /\ Bounded
    /\ \E i \in job[c].left, status \in Statuses :
           LET run == [number |-> Cardinality(runs) + 1,
                       recipe |-> check_recipe_refs[job[c].hyp][i],
                       hyp |-> job[c].hyp, ctx |-> job[c].ctx, status |-> status]
           IN  /\ \A j \in job[c].left : i <= j
               /\ runs' = runs \cup {run}
               /\ job' = [job EXCEPT ![c] = Proceeded(job[c], i, run)]
    /\ UNCHANGED <<log, cas, index, pc, head, passes>>

Return(c) ==
    /\ pc' = [pc EXCEPT ![c] = "idle"]
    /\ job' = [job EXCEPT ![c] = None]
    /\ head' = [head EXCEPT ![c] = 0]

\* The answer, which nothing is kept of but that it is PASS, and the record that shows it.
Answer(c, at) ==
    /\ passes' =
           IF decide_check_summary(job[c].intent, job[c].categories) = "PASS"
           THEN passes \cup {[intent |-> job[c].intent, hyp |-> job[c].hyp, ctx |-> job[c].ctx,
                              by |-> c, at |-> at]}
           ELSE passes
    /\ Return(c)

\* No recipe of the hypothesis fits the intent.
NothingToRun(c) ==
    /\ pc[c] = "running" /\ job[c].left = {} /\ job[c].planned = {}
    /\ Answer(c, 0)
    /\ UNCHANGED <<log, cas, index, runs>>

\* commit_values reads the head, plans, and stages the objects.
Plan(c) ==
    /\ pc[c] = "running" /\ job[c].left = {} /\ job[c].planned # {}
    /\ Len(log) < MaxRecords
    /\ pc' = [pc EXCEPT ![c] = "planned"]
    /\ head' = [head EXCEPT ![c] = Len(log)]
    /\ cas' = cas \cup EvidenceIn(job[c].planned)
    /\ UNCHANGED <<log, index, runs, job, passes>>

Record(c) == [objects |-> job[c].planned, policy |-> "check-policy"]

\* Slip: an index that was built is not told.
IndexesNothing(c, at) == UNCHANGED index

\* PadIndex.on_record: an index that was built learns of what its own process adds.
Indexes(c, at) ==
    index' = [index EXCEPT ![c] = IF index[c] = None THEN None ELSE index[c] \cup {at}]

\* append_prepared finds the head it was planned on.
Publish(c) ==
    /\ pc[c] = "planned" /\ head[c] = Len(log)
    /\ log' = Append(log, Record(c))
    /\ Indexes(c, Len(log) + 1)
    /\ Answer(c, Len(log) + 1)
    /\ UNCHANGED <<cas, runs>>

\* "commit conflict".  Nothing is published; what was staged stays.
Conflict(c) ==
    /\ pc[c] = "planned" /\ head[c] # Len(log)
    /\ Return(c)
    /\ UNCHANGED <<log, cas, index, runs, passes>>

\* The process dies and is started again: nothing is published, and its index is lost.
Crash(c) ==
    /\ pc[c] # "idle" \/ index[c] # None
    /\ Return(c)
    /\ index' = [index EXCEPT ![c] = None]
    /\ UNCHANGED <<log, cas, runs, passes>>

\* _ensure_index, on the first status query of a process.
EnsureIndex(c) ==
    /\ pc[c] = "idle" /\ index[c] = None
    /\ index' = [index EXCEPT ![c] = DOMAIN log]
    /\ UNCHANGED <<log, cas, runs, pc, job, head, passes>>

Publishes(c, record) ==
    /\ pc[c] = "idle"
    /\ Len(log) < MaxRecords
    /\ log' = Append(log, record)
    /\ cas' = cas \cup EvidenceIn(record.objects)
    /\ Indexes(c, Len(log) + 1)
    /\ UNCHANGED <<runs, pc, job, head, passes>>

\* put_object, commit_values or import_bundle, of objects somebody has made up ...
PutObjects(c) == \E record \in Written : Publishes(c, record)

\* ... or of which only the evidence reaches the store, for the head had moved.
LosePut(c) ==
    /\ pc[c] = "idle"
    /\ Len(log) < MaxRecords
    /\ \E record \in Written : cas' = cas \cup EvidenceIn(record.objects)
    /\ UNCHANGED <<log, index, runs, pc, job, head, passes>>

EdgeOver(draft, cited) ==
    [schema |-> "edge", kind |-> draft.kind, to_ref |-> draft.to_ref,
     context_ref |-> draft.context_ref, evidence_refs |-> cited]

\* put_object of an edge over whatever evidence its author names, which need not be in the store
\* (yet), may be in quarantine or made up, and whatever the edge claims of it.  The edges that
\* are neither for nor against a hypothesis are "semantic" here.
AuthorEdge(c) ==
    \E cited \in SUBSET (cas \cup EvidenceIn(UNION {record.objects : record \in Written})),
       draft \in Drafts :
        /\ Cardinality(cited) <= MaxCited
        /\ Publishes(c, [objects |-> {EdgeOver(draft, cited)}, policy |-> "policy"])

Next ==
    \E c \in Checkers :
        \/ \E hyp \in Hypotheses, ctx \in Contexts \cup {None}, intent \in {"prove", "refute"} :
               Start(c, hyp, ctx, intent)
        \/ RunOneRecipe(c)
        \/ NothingToRun(c)
        \/ Plan(c)
        \/ Publish(c)
        \/ Conflict(c)
        \/ Crash(c)
        \/ EnsureIndex(c)
        \/ PutObjects(c)
        \/ LosePut(c)
        \/ AuthorEdge(c)

Spec == Init /\ [][Next]_vars

-----------------------------------------------------------------------------
\* The run that bears an edge out: a recipe the hypothesis lists, with the verdict the edge
\* states, passed for this hypothesis in the edge's context.
BorneOut(edge, hyp) ==
    \E run \in runs :
        /\ run.hyp = hyp
        /\ run.ctx = edge.context_ref
        /\ run.status = "PASS"
        /\ run.recipe \in Listed(hyp)
        /\ verdict_on_pass[run.recipe] = IF edge.kind = "supports" THEN "support" ELSE "refute"

\* Somebody with authority over this pad stands for the edge: a record that no check made and
\* that is not in quarantine holds it, over evidence, made up by whomever, that says just that.
StoodFor(edge, hyp) ==
    /\ \E i \in DOMAIN log : edge \in log[i].objects /\ log[i].policy \in ByHand \ {Quarantined}
    /\ \E evidence \in Loaded(edge) :
           /\ evidence.run = None
           /\ hyp \in evidence.subject_refs
           /\ evidence.context_ref = edge.context_ref
           /\ evidence.recipe_ref \in Listed(hyp)

\* No check shows more than it ran, and nothing shows because of an import in quarantine: an edge
\* counts, in whichever process, only if a run on this pad bears it out or somebody wrote it, with
\* authority, over evidence nobody ran anything for, about this hypothesis and one of its recipes
\* (core/graph.py:186-246, pad.py:180-276).  The second kind is all that separates the code from
\* README.md:20, "derived from replayable evidence, not asserted".
StatusEarned ==
    \A c \in Checkers, hyp \in Hypotheses, ctx \in Contexts \cup {None} :
        \A edge \in Counted(c, hyp, ctx, "supports") \cup Counted(c, hyp, ctx, "refutes") :
            BorneOut(edge, hyp) \/ StoodFor(edge, hyp)

\* What a check has answered shows: after a PASS the process that ran the check, and every other
\* one that has indexed its record or is asked for the first time, answers that the hypothesis is
\* supported, or falsified, or disputed, unless some edge makes it raise (engine.py:136-197,
\* pad.py:68-71, 221-240).
PassShows ==
    \A pass \in passes, c \in Checkers :
        c = pass.by \/ pass.at \in Indexed(c) =>
            Status(c, pass.hyp, pass.ctx) \in
                {"raises", "disputed", IF pass.intent = "prove" THEN "supported" ELSE "falsified"}

\* What may be answered after an answer.
After(status) ==
    CASE status = "raises" -> {"raises"}
      [] status = "disputed" -> {"disputed", "raises"}
      [] status \in {"supported", "falsified"} -> {status, "disputed", "raises"}
      [] OTHER -> {"unknown", "supported", "falsified", "disputed", "raises"}

\* A status is never taken back: no later failure of a recipe, lost check, import, restart or index
\* that is behind the log takes away an edge that a process has counted, so what it once answered
\* as falsified it never answers as supported or unknown again.  It may come to raise, by an edge
\* over evidence that put_object should have refused, and then it does so for good
\* (core/graph.py:13-31, 186-216, index.py:44-52).
NeverTakenBack ==
    [][\A c \in Checkers, hyp \in Hypotheses, ctx \in Contexts \cup {None} :
           Status(c, hyp, ctx)' \in After(Status(c, hyp, ctx))]_vars
=============================================================================
