----------------------------- MODULE ChecksProofs -----------------------------
(***************************************************************************)
(* What is proved about Checks, for all processes, hypotheses, recipes and *)
(* lists of recipes, and for whatever is written by hand or imported;      *)
(* about Runner, for a run of any recipe; and about AdapterShell, for all  *)
(* streams, requests, lengths of a request and records that are nested too *)
(* deeply.                                                                 *)
(***************************************************************************)
EXTENDS Checks, RecipeRun, Serving, Integers, FiniteSetTheorems, SequenceTheorems,
        WellFoundedInduction, TLAPS

-----------------------------------------------------------------------------
(* The inductive invariant. *)

Intents == {"prove", "refute"}

KindOf(intent) == IF intent = "prove" THEN "supports" ELSE "refutes"

Runs == [number : Nat, recipe : Recipes, hyp : Hypotheses, ctx : Contexts \cup {None},
         status : Statuses]

Plannable == {EvidenceOf(run) : run \in Runs}
                 \cup UNION {{EdgeOf(run, intent) : run \in Runs} : intent \in Intents}

Jobs == [intent : Intents, hyp : Hypotheses, ctx : Contexts \cup {None}, left : SUBSET Nat,
         categories : SUBSET {"pass", "fail", "inconclusive"}, planned : SUBSET Plannable]

Typed ==
    /\ log \in Seq(ToSet(log))
    /\ index \in [Checkers -> (SUBSET DOMAIN log) \cup {None}]
    /\ runs \subseteq Runs /\ IsFiniteSet(runs)
    /\ pc \in [Checkers -> {"idle", "running", "planned"}]
    /\ job \in [Checkers -> Jobs \cup {None}]

\* Evidence of a run there was.
Real(evidence) == \E run \in runs : evidence = EvidenceOf(run)

\* An object that was not made up: evidence of a run, or an edge over such evidence only.
Vouched(object) ==
    /\ object.schema = "evidence" => Real(object)
    /\ object.schema = "edge" => \A evidence \in object.evidence_refs : Real(evidence)

\* Evidence that has the number of a run is of a run.
StoreVouched == \A evidence \in cas : evidence.run # None => Real(evidence)

\* A check publishes nothing made up; what others publish they publish under a policy of their own.
Upright(record) ==
    \/ record.policy \in ByHand
    \/ record.policy = "check-policy" /\ \A object \in record.objects : Vouched(object)

LogVouched == \A i \in DOMAIN log : Upright(log[i])

\* A run that passed for a check: its recipe is on the list and fits.
PassedFor(run, hyp, ctx, intent) ==
    /\ run.status = "PASS" /\ run.hyp = hyp /\ run.ctx = ctx
    /\ run.recipe \in Listed(hyp)
    /\ recipe_applies(verdict_on_pass[run.recipe], intent)

\* A check that goes on has planned what its runs came to, and staged it before it publishes.
JobOK(c) ==
    /\ job[c] \in Jobs
    /\ job[c].left \subseteq MatchingRecipes(job[c].hyp, job[c].intent)
    /\ \A object \in job[c].planned : Vouched(object)
    /\ "pass" \in job[c].categories =>
           \E run \in runs :
               /\ PassedFor(run, job[c].hyp, job[c].ctx, job[c].intent)
               /\ EvidenceOf(run) \in job[c].planned
               /\ EdgeOf(run, job[c].intent) \in job[c].planned
    /\ pc[c] = "planned" => EvidenceIn(job[c].planned) \subseteq cas

JobsOK == \A c \in Checkers : pc[c] # "idle" => JobOK(c)

\* An edge that shows what a check answered.
Shows(edge, pass) ==
    /\ edge.schema = "edge" /\ edge.kind = KindOf(pass.intent) /\ edge.to_ref = pass.hyp
    /\ pass.ctx # None => edge.context_ref = pass.ctx
    /\ Admissible(edge, pass.hyp)

\* The record of a check that answered PASS holds such an edge, and who has the answer indexed it.
ShownOne(pass) ==
    /\ pass.intent \in Intents
    /\ pass.by \in Checkers
    /\ pass.at \in DOMAIN log /\ pass.at \in Indexed(pass.by)
    /\ log[pass.at].policy # Quarantined
    /\ \E edge \in log[pass.at].objects : Shows(edge, pass)

Shown == \A pass \in passes : ShownOne(pass)

IInv == Typed /\ StoreVouched /\ LogVouched /\ JobsOK /\ Shown

-----------------------------------------------------------------------------
(* Steps only ever add, to what there is and to what each process knows of it. *)

Longer == \A i \in DOMAIN log : i \in DOMAIN log' /\ log'[i] = log[i]

Grows ==
    /\ Longer /\ cas \subseteq cas' /\ runs \subseteq runs'
    /\ \A c \in Checkers : Indexed(c) \subseteq Indexed(c)'

\* A record appended to the log.
LEMMA Appended ==
    ASSUME log \in Seq(ToSet(log)), NEW record, log' = Append(log, record)
    PROVE  /\ log' \in Seq(ToSet(log'))
           /\ DOMAIN log' = DOMAIN log \cup {Len(log) + 1} /\ Len(log) + 1 \notin DOMAIN log
           /\ log'[Len(log) + 1] = record
           /\ Longer
<1> DEFINE S == ToSet(log)
<1>1. log \in Seq(S \cup {record}) /\ log \in Seq(S)
  OBVIOUS
<1> HIDE DEF S
<1>2. /\ log' \in Seq(S \cup {record})
      /\ DOMAIN log' = DOMAIN log \cup {Len(log) + 1} /\ Len(log) + 1 \notin DOMAIN log
      /\ log'[Len(log) + 1] = record
      /\ \A i \in DOMAIN log : i \in DOMAIN log' /\ log'[i] = log[i]
  BY <1>1
<1>3. ToSet(log') = S \cup {record}
  BY <1>2 DEF ToSet, S
<1> QED
  BY <1>2, <1>3 DEF Longer

\* What a process knows is in the log.
LEMMA KnownIsLogged ==
    ASSUME Typed, NEW c \in Checkers
    PROVE  Indexed(c) \subseteq DOMAIN log
  BY DEF Typed, Indexed

\* An index that is kept, lost, or rebuilt or extended from what was known knows no less.
LEMMA KnowledgeGrows ==
    ASSUME Typed, Longer,
           \A c \in Checkers :
               index'[c] = index[c] \/ index'[c] = None \/ Indexed(c) \subseteq index'[c]
    PROVE  \A c \in Checkers : Indexed(c) \subseteq Indexed(c)'
<1> SUFFICES ASSUME NEW c \in Checkers, NEW i \in Indexed(c) PROVE i \in Indexed(c)'
  OBVIOUS
<1>1. i \in DOMAIN log' /\ (index[c] # None => i \in index[c])
  BY KnownIsLogged DEF Longer, Indexed
<1>2. index'[c] = None => i \in Indexed(c)'
  BY <1>1 DEF Indexed
<1>3. index'[c] # None => i \in index'[c]
  BY <1>1
<1> QED
  BY <1>2, <1>3 DEF Indexed

\* The step that publishes adds its record to the log and to the index of who publishes, if built.
LEMMA IndexLearns ==
    ASSUME Typed, NEW c \in Checkers, NEW record,
           log' = Append(log, record), Indexes(c, Len(log) + 1)
    PROVE  /\ log' \in Seq(ToSet(log')) /\ Longer
           /\ log'[Len(log) + 1] = record
           /\ DOMAIN log' = DOMAIN log \cup {Len(log) + 1} /\ Len(log) + 1 \notin DOMAIN log
           /\ index' \in [Checkers -> (SUBSET DOMAIN log') \cup {None}]
           /\ \A d \in Checkers : Indexed(d) \subseteq Indexed(d)'
           /\ Len(log) + 1 \in Indexed(c)'
<1>1. /\ log' \in Seq(ToSet(log'))
      /\ DOMAIN log' = DOMAIN log \cup {Len(log) + 1} /\ Len(log) + 1 \notin DOMAIN log
      /\ log'[Len(log) + 1] = record
      /\ Longer
  BY Appended DEF Typed
<1> DEFINE at == Len(log) + 1
<1> HIDE DEF at
<1>2. /\ index' = [index EXCEPT ![c] = IF index[c] = None THEN None ELSE index[c] \cup {at}]
      /\ DOMAIN log' = DOMAIN log \cup {at}
  BY <1>1 DEF Indexes, at
<1>3. \A d \in Checkers :
          /\ index'[d] \in (SUBSET DOMAIN log') \cup {None}
          /\ index'[d] = index[d] \/ (index[d] # None /\ index'[d] = index[d] \cup {at})
  BY <1>2 DEF Typed
<1>4. index' \in [Checkers -> (SUBSET DOMAIN log') \cup {None}]
  BY <1>2, <1>3 DEF Typed
<1>5. \A d \in Checkers : Indexed(d) \subseteq Indexed(d)'
  <2>1. \A d \in Checkers :
            index'[d] = index[d] \/ index'[d] = None \/ Indexed(d) \subseteq index'[d]
    BY <1>3 DEF Indexed
  <2> QED
    BY <1>1, <2>1, KnowledgeGrows
<1>6. at \in Indexed(c)'
  <2>1. index'[c] = IF index[c] = None THEN None ELSE index[c] \cup {at}
    BY <1>2 DEF Typed
  <2>2. index'[c] # None => at \in index'[c]
    BY <2>1
  <2> QED
    BY <1>2, <2>2 DEF Indexed
<1> QED
  BY <1>1, <1>4, <1>5, <1>6 DEF at

\* Evidence stays evidence of a run.
LEMMA VouchedStays ==
    ASSUME Grows, NEW object, Vouched(object)
    PROVE  Vouched(object)'
  BY DEF Grows, Vouched, Real

\* Evidence goes on counting for an edge.
LEMMA AdmissibleStays ==
    ASSUME Grows, NEW edge, NEW hyp, Admissible(edge, hyp)
    PROVE  Admissible(edge, hyp)'
<1>1. Loaded(edge) \subseteq Loaded(edge)'
  BY DEF Grows, Loaded
<1> QED
  BY <1>1 DEF Admissible, Listed

\* An edge a process knows of stays known.
LEMMA EdgesStay ==
    ASSUME Typed, Grows, NEW c \in Checkers
    PROVE  AuthorityEdges(c) \subseteq AuthorityEdges(c)'
<1> SUFFICES ASSUME NEW edge \in AuthorityEdges(c) PROVE edge \in AuthorityEdges(c)'
  OBVIOUS
<1>1. PICK i \in Indexed(c) : log[i].policy # Quarantined /\ edge \in log[i].objects
  BY DEF AuthorityEdges
<1>2. i \in Indexed(c)' /\ log'[i] = log[i]
  BY KnownIsLogged DEF Grows, Longer
<1>3. edge.schema = "edge"
  BY DEF AuthorityEdges
<1> QED
  BY <1>1, <1>2, <1>3 DEF AuthorityEdges, Quarantined

\* An edge that counts for a process goes on counting.
LEMMA CountedStays ==
    ASSUME Typed, Grows, NEW c \in Checkers, NEW hyp, NEW ctx, NEW kind
    PROVE  Counted(c, hyp, ctx, kind) \subseteq Counted(c, hyp, ctx, kind)'
  BY EdgesStay, AdmissibleStays DEF Counted

\* What makes a process raise goes on doing so.
LEMMA RaisesStays ==
    ASSUME Typed, Grows, NEW c \in Checkers, NEW hyp, Raises(c, hyp)
    PROVE  Raises(c, hyp)'
<1>1. \A edge : Loaded(edge) \subseteq Loaded(edge)'
  BY DEF Grows, Loaded
<1> DEFINE Bad(edge, evidence) ==
               \/ edge.kind \in {"supports", "refutes"} /\ evidence.status = ""
               \/ /\ evidence.recipe_ref \in Listed(hyp)
                  /\ verdict_on_pass[evidence.recipe_ref] = "neutral"
<1>2. PICK edge \in AuthorityEdges(c) :
          edge.to_ref = hyp /\ \E evidence \in Loaded(edge) : Bad(edge, evidence)
  BY DEF Raises
<1>3. PICK evidence \in Loaded(edge) : Bad(edge, evidence)
  BY <1>2
<1>4. edge \in AuthorityEdges(c)' /\ evidence \in Loaded(edge)'
  BY <1>1, <1>2, <1>3, EdgesStay
<1> QED
  BY <1>2, <1>3, <1>4 DEF Raises, Listed

\* What plan_check_objects makes of a run.
LEMMA Planned ==
    ASSUME NEW run, NEW intent
    PROVE  /\ EvidenceOf(run).schema = "evidence"
           /\ EdgeOf(run, intent).schema = "edge"
           /\ EdgeOf(run, intent).evidence_refs = {EvidenceOf(run)}
  BY DEF EvidenceOf, EdgeOf

\* A job that a step leaves alone stays as it should be.
LEMMA JobStays ==
    ASSUME Grows, NEW c \in Checkers, JobOK(c), pc'[c] = pc[c], job'[c] = job[c]
    PROVE  JobOK(c)'
<1>1. \A object \in job'[c].planned : Vouched(object)'
  BY VouchedStays DEF JobOK
<1>2. job[c].left \subseteq MatchingRecipes(job[c].hyp, job[c].intent)
      => job'[c].left \subseteq MatchingRecipes(job[c].hyp, job[c].intent)'
  BY DEF MatchingRecipes
<1>3. pc'[c] = "planned" => EvidenceIn(job[c].planned)' \subseteq cas'
  BY DEF JobOK, EvidenceIn, Grows
<1>4. "pass" \in job'[c].categories =>
           \E run \in runs' :
               /\ PassedFor(run, job'[c].hyp, job'[c].ctx, job'[c].intent)
               /\ EvidenceOf(run) \in job'[c].planned
               /\ EdgeOf(run, job'[c].intent) \in job'[c].planned
  BY DEF JobOK, Grows
<1> QED
  BY <1>1, <1>2, <1>3, <1>4 DEF JobOK, PassedFor

Others(c) == \A q \in Checkers \ {c} : pc'[q] = pc[q] /\ job'[q] = job[q]

\* So only the job of the checker that moves is of interest.
LEMMA JobsStay ==
    ASSUME JobsOK, Grows, NEW c \in Checkers, Others(c), pc'[c] = "idle" \/ JobOK(c)'
    PROVE  JobsOK'
<1> SUFFICES ASSUME NEW q \in Checkers, pc'[q] # "idle" PROVE JobOK(q)'
  BY DEF JobsOK
<1>1. CASE q = c
  BY <1>1
<1>2. CASE q # c
  BY <1>2, JobStays DEF JobsOK, Others
<1> QED
  BY <1>1, <1>2

\* What was shown is still shown.
LEMMA ShownStays ==
    ASSUME Shown, Grows, \A pass \in passes' \ passes : ShownOne(pass)'
    PROVE  Shown'
<1> SUFFICES ASSUME NEW pass \in passes PROVE ShownOne(pass)'
  BY DEF Shown
<1>1. ShownOne(pass)
  BY DEF Shown
<1>2. /\ pass.at \in DOMAIN log' /\ pass.at \in Indexed(pass.by)'
      /\ log'[pass.at] = log[pass.at]
  BY <1>1 DEF ShownOne, Grows, Longer
<1>3. PICK edge \in log[pass.at].objects : Shows(edge, pass)
  BY <1>1 DEF ShownOne
<1>4. Shows(edge, pass)'
  BY <1>3, AdmissibleStays DEF Shows, KindOf
<1> QED
  BY <1>1, <1>2, <1>3, <1>4 DEF ShownOne, Quarantined, Intents

\* The log and the store as they were are still vouched for.
LEMMA StoreStays ==
    ASSUME StoreVouched, Grows,
           \A evidence \in cas' \ cas : evidence.run # None => Real(evidence)
    PROVE  StoreVouched'
  BY DEF StoreVouched, Grows, Real

LEMMA UprightStays ==
    ASSUME Grows, NEW record, Upright(record)
    PROVE  Upright(record)'
  BY VouchedStays DEF Upright, ByHand, Quarantined

LEMMA LogStays ==
    ASSUME Typed, LogVouched, Grows,
           log' = log \/ \E record : log' = Append(log, record) /\ Upright(record)
    PROVE  LogVouched'
<1> SUFFICES ASSUME NEW i \in DOMAIN log', NEW record, record = log'[i] PROVE Upright(record)'
  BY DEF LogVouched, Upright, Vouched, Real, ByHand, Quarantined
<1>1. CASE i \in DOMAIN log
  <2>1. record = log[i] /\ Upright(log[i])
    BY <1>1 DEF Grows, Longer, LogVouched
  <2> QED
    BY <2>1, UprightStays
<1>2. CASE i \notin DOMAIN log
  <2>1. PICK other : log' = Append(log, other) /\ Upright(other)
    BY <1>2
  <2>2. record = other
    BY <1>2, <2>1, Appended DEF Typed
  <2> QED
    BY <2>1, <2>2, UprightStays
<1> QED
  BY <1>1, <1>2

\* A checker that returns leaves the others alone.
LEMMA Returned ==
    ASSUME Typed, NEW c \in Checkers, Return(c)
    PROVE  /\ Others(c) /\ pc'[c] = "idle"
           /\ pc' \in [Checkers -> {"idle", "running", "planned"}]
           /\ job' \in [Checkers -> Jobs \cup {None}]
  BY DEF Typed, Return, Others

\* A step that leaves log and indices alone, and takes nothing out of the store, grows.
LEMMA QuietGrows ==
    ASSUME Typed, UNCHANGED <<log, index>>, cas \subseteq cas', runs \subseteq runs'
    PROVE  Grows
  BY DEF Grows, Longer, Indexed
-----------------------------------------------------------------------------
(* Each action. *)

LEMMA Starting ==
    ASSUME ChecksAssumption, IInv, NEW c \in Checkers, NEW hyp \in Hypotheses,
           NEW ctx \in Contexts \cup {None}, NEW intent \in Intents,
           Start(c, hyp, ctx, intent)
    PROVE  IInv' /\ Grows
<1>1. Grows
  BY QuietGrows DEF Start, IInv
<1>2. MatchingRecipes(hyp, intent) \subseteq Nat
  <2>1. check_recipe_refs[hyp] \in Seq(ToSet(check_recipe_refs[hyp]))
    BY DEF ChecksAssumption
  <2>2. DOMAIN check_recipe_refs[hyp] \subseteq Nat
    BY <2>1
  <2> QED
    BY <2>2 DEF MatchingRecipes
<1> DEFINE started == [intent |-> intent, hyp |-> hyp, ctx |-> ctx,
                       left |-> MatchingRecipes(hyp, intent),
                       categories |-> {}, planned |-> {}]
<1>3. started \in Jobs
  BY <1>2 DEF Jobs
<1>4. pc' = [pc EXCEPT ![c] = "running"] /\ job' = [job EXCEPT ![c] = started]
  BY DEF Start
<1>5. pc'[c] = "running" /\ job'[c] = started /\ Others(c)
  BY <1>4 DEF IInv, Typed, Others
<1>6. Typed'
  <2>1. /\ pc' \in [Checkers -> {"idle", "running", "planned"}]
        /\ job' \in [Checkers -> Jobs \cup {None}]
    BY <1>3, <1>4 DEF IInv, Typed
  <2> QED
    BY <2>1 DEF IInv, Typed, Start
<1>7. JobOK(c)'
  <2>1. /\ job'[c] \in Jobs /\ job'[c].left = MatchingRecipes(hyp, intent)
        /\ job'[c].hyp = hyp /\ job'[c].intent = intent
        /\ job'[c].planned = {} /\ job'[c].categories = {} /\ pc'[c] # "planned"
    BY <1>3, <1>5
  <2> HIDE DEF started
  <2>2. MatchingRecipes(job[c].hyp, job[c].intent)' = MatchingRecipes(hyp, intent)
    BY <2>1 DEF MatchingRecipes
  <2> QED
    BY <2>1, <2>2 DEF JobOK
<1>8. JobsOK'
  BY <1>1, <1>5, <1>7, JobsStay DEF IInv
<1>9. StoreVouched' /\ LogVouched'
  BY <1>1, StoreStays, LogStays DEF IInv, Start
<1>10. Shown'
  BY <1>1, ShownStays DEF IInv, Start
<1> QED
  BY <1>1, <1>6, <1>8, <1>9, <1>10 DEF IInv

LEMMA Running ==
    ASSUME ChecksAssumption, IInv, NEW c \in Checkers, RunOneRecipe(c)
    PROVE  IInv' /\ Grows
<1>1. PICK old \in Jobs : old = job[c]
  BY DEF RunOneRecipe, IInv, JobsOK, JobOK
<1>2. pc[c] = "running" /\ JobOK(c)
  BY DEF RunOneRecipe, IInv, JobsOK
<1>3. /\ old.intent \in Intents /\ old.hyp \in Hypotheses /\ old.ctx \in Contexts \cup {None}
      /\ old.left \subseteq Nat /\ old.categories \subseteq {"pass", "fail", "inconclusive"}
      /\ old.planned \subseteq Plannable
  BY DEF Jobs
<1>4. PICK i \in old.left, status \in Statuses, run \in runs' :
          /\ run = [number |-> Cardinality(runs) + 1,
                    recipe |-> check_recipe_refs[old.hyp][i],
                    hyp |-> old.hyp, ctx |-> old.ctx, status |-> status]
          /\ runs' = runs \cup {run}
          /\ job' = [job EXCEPT ![c] = Proceeded(old, i, run)]
  <2>1. PICK i \in job[c].left, status \in Statuses :
            LET run == [number |-> Cardinality(runs) + 1,
                        recipe |-> check_recipe_refs[job[c].hyp][i],
                        hyp |-> job[c].hyp, ctx |-> job[c].ctx, status |-> status]
            IN  /\ runs' = runs \cup {run}
                /\ job' = [job EXCEPT ![c] = Proceeded(job[c], i, run)]
    BY DEF RunOneRecipe
  <2> QED
    BY <1>1, <2>1
<1>5. /\ check_recipe_refs[old.hyp][i] \in Listed(old.hyp)
      /\ recipe_applies(verdict_on_pass[check_recipe_refs[old.hyp][i]], old.intent)
  BY <1>1, <1>2 DEF JobOK, MatchingRecipes, ToSet, Listed
<1>6. /\ run \in Runs /\ run.recipe = check_recipe_refs[old.hyp][i] /\ run.hyp = old.hyp
      /\ run.ctx = old.ctx /\ run.status = status
  <2>1. Cardinality(runs) \in Nat
    BY FS_CardinalityType DEF IInv, Typed
  <2> QED
    BY <2>1, <1>3, <1>4, <1>5 DEF Runs, Listed
<1> DEFINE new == [intent |-> old.intent, hyp |-> old.hyp, ctx |-> old.ctx,
                   left |-> old.left \ {i},
                   categories |-> old.categories \cup {Category(status)},
                   planned |-> old.planned \cup plan_check_objects(run, old.intent)]
<1>7. job'[c] = new /\ Others(c) /\ job' = [job EXCEPT ![c] = new]
  <2>1. Proceeded(old, i, run) = new
    BY <1>6 DEF Proceeded
  <2> QED
    BY <1>4, <2>1 DEF IInv, Typed, Others, RunOneRecipe
<1>8. Grows /\ run \in runs'
  BY <1>4, QuietGrows DEF IInv, RunOneRecipe
<1>9. new \in Jobs
  <2>1. Category(status) \in {"pass", "fail", "inconclusive"}
    BY DEF Category
  <2>2. plan_check_objects(run, old.intent) \subseteq Plannable
    BY <1>3, <1>6 DEF plan_check_objects, Plannable
  <2> QED
    BY <1>3, <2>1, <2>2 DEF Jobs
<1>10. Typed'
  <2>1. job' \in [Checkers -> Jobs \cup {None}]
    BY <1>7, <1>9 DEF IInv, Typed
  <2>2. runs' \subseteq Runs /\ IsFiniteSet(runs')
    BY <1>4, <1>6, FS_AddElement DEF IInv, Typed
  <2> QED
    BY <2>1, <2>2 DEF IInv, Typed, RunOneRecipe
<1>11. JobOK(c)'
  <2>1. job'[c] \in Jobs /\ job'[c] = new /\ pc'[c] = "running"
    BY <1>2, <1>7, <1>9 DEF RunOneRecipe
  <2>2. job'[c].left \subseteq MatchingRecipes(job[c].hyp, job[c].intent)'
    BY <1>1, <1>2, <2>1 DEF JobOK, MatchingRecipes
  <2>3. MatchingRecipes(job[c].hyp, job[c].intent)'
            = MatchingRecipes(job'[c].hyp, job'[c].intent)
    BY DEF MatchingRecipes
  <2>4. \A object \in job'[c].planned : Vouched(object)'
    <3>1. \A object \in old.planned : Vouched(object)'
      BY <1>1, <1>2, <1>8, VouchedStays DEF JobOK
    <3>2. \A object \in plan_check_objects(run, old.intent) : Vouched(object)'
      <4>1. /\ EvidenceOf(run).schema = "evidence" /\ Real(EvidenceOf(run))'
            /\ EdgeOf(run, old.intent).schema = "edge"
            /\ EdgeOf(run, old.intent).evidence_refs = {EvidenceOf(run)}
        BY <1>8, Planned DEF Real, EvidenceOf
      <4>2. Vouched(EvidenceOf(run))' /\ Vouched(EdgeOf(run, old.intent))'
        BY <4>1 DEF Vouched
      <4> QED
        BY <4>2 DEF plan_check_objects
    <3> QED
      BY <3>1, <3>2, <2>1
  <2>5. ASSUME "pass" \in job'[c].categories
        PROVE  \E other \in runs' :
                   /\ PassedFor(other, job'[c].hyp, job'[c].ctx, job'[c].intent)
                   /\ EvidenceOf(other) \in job'[c].planned
                   /\ EdgeOf(other, job'[c].intent) \in job'[c].planned
    <3>1. CASE "pass" \in old.categories
      BY <3>1, <1>1, <1>2, <1>8, <2>1 DEF JobOK, Grows
    <3>2. CASE "pass" \notin old.categories
      <4>1. status = "PASS"
        BY <3>2, <2>5, <2>1 DEF Category
      <4>2. PassedFor(run, old.hyp, old.ctx, old.intent)
        BY <4>1, <1>5, <1>6 DEF PassedFor
      <4>3. EvidenceOf(run) \in new.planned /\ EdgeOf(run, old.intent) \in new.planned
        BY <4>1, <1>6 DEF plan_check_objects
      <4> QED
        BY <4>2, <4>3, <2>1, <1>8
    <3> QED
      BY <3>1, <3>2
  <2> QED
    BY <2>1, <2>2, <2>3, <2>4, <2>5 DEF JobOK, PassedFor
<1>12. JobsOK'
  BY <1>7, <1>8, <1>11, JobsStay DEF IInv
<1>13. StoreVouched' /\ LogVouched'
  BY <1>8, StoreStays, LogStays DEF IInv, RunOneRecipe
<1>14. Shown'
  BY <1>8, ShownStays DEF IInv, RunOneRecipe
<1> QED
  BY <1>8, <1>10, <1>12, <1>13, <1>14 DEF IInv

LEMMA Planning ==
    ASSUME ChecksAssumption, IInv, NEW c \in Checkers, Plan(c)
    PROVE  IInv' /\ Grows
<1>1. Grows
  BY QuietGrows DEF Plan, IInv
<1>2. pc[c] = "running" /\ JobOK(c) /\ cas' = cas \cup EvidenceIn(job[c].planned)
  BY DEF Plan, IInv, JobsOK
<1>3. pc'[c] = "planned" /\ job' = job /\ Others(c) /\ Typed'
  BY DEF Plan, IInv, Typed, Others
<1>4. JobOK(c)'
  <2>1. \A object \in job'[c].planned : Vouched(object)'
    BY <1>1, <1>2, <1>3, VouchedStays DEF JobOK
  <2>2. MatchingRecipes(job[c].hyp, job[c].intent)' = MatchingRecipes(job[c].hyp, job[c].intent)
    BY <1>3 DEF MatchingRecipes
  <2>3. EvidenceIn(job[c].planned)' \subseteq cas'
    BY <1>2, <1>3 DEF EvidenceIn
  <2> QED
    BY <1>1, <1>2, <1>3, <2>1, <2>2, <2>3 DEF JobOK, Grows, PassedFor
<1>5. JobsOK'
  BY <1>1, <1>3, <1>4, JobsStay DEF IInv
<1>6. StoreVouched'
  BY <1>1, <1>2, StoreStays DEF IInv, JobOK, Vouched, EvidenceIn
<1>7. LogVouched' /\ Shown'
  BY <1>1, LogStays, ShownStays DEF IInv, Plan
<1> QED
  BY <1>1, <1>3, <1>5, <1>6, <1>7 DEF IInv

\* What decides the answer of a check.
LEMMA PassNeedsPass ==
    ASSUME NEW intent \in Intents, NEW categories, decide_check_summary(intent, categories) = "PASS"
    PROVE  "pass" \in categories
  BY DEF decide_check_summary

LEMMA Nothing ==
    ASSUME ChecksAssumption, IInv, NEW c \in Checkers, NothingToRun(c)
    PROVE  IInv' /\ Grows
<1>1. Grows
  BY QuietGrows DEF NothingToRun, IInv
<1>2. pc[c] = "running" /\ JobOK(c) /\ Return(c)
  BY DEF NothingToRun, Answer, IInv, JobsOK
<1>3. Typed' /\ JobsOK'
  <2>1. /\ Others(c) /\ pc'[c] = "idle"
        /\ pc' \in [Checkers -> {"idle", "running", "planned"}]
        /\ job' \in [Checkers -> Jobs \cup {None}]
    BY <1>2, Returned DEF IInv
  <2> QED
    BY <1>1, <2>1, JobsStay DEF IInv, Typed, NothingToRun
<1>4. Shown'
  <2>1. job[c].intent \in Intents
    BY <1>2 DEF JobOK, Jobs
  <2>2. decide_check_summary(job[c].intent, job[c].categories) # "PASS"
    BY <1>2, <2>1, PassNeedsPass DEF JobOK, NothingToRun
  <2>3. passes' = passes
    BY <2>2 DEF NothingToRun, Answer
  <2> QED
    BY <1>1, <2>3, ShownStays DEF IInv
<1>5. StoreVouched' /\ LogVouched'
  BY <1>1, StoreStays, LogStays DEF IInv, NothingToRun
<1> QED
  BY <1>1, <1>3, <1>4, <1>5 DEF IInv

\* An answer that passes is borne out by what its record brings.
LEMMA Publishing ==
    ASSUME ChecksAssumption, IInv, NEW c \in Checkers, Publish(c)
    PROVE  IInv' /\ Grows
<1>1. PICK hyp, ctx, intent, planned, record :
          /\ hyp = job[c].hyp /\ ctx = job[c].ctx /\ intent = job[c].intent
          /\ planned = job[c].planned /\ record = Record(c)
  OBVIOUS
<1>2. /\ log' = Append(log, record) /\ Indexes(c, Len(log) + 1)
      /\ Return(c) /\ UNCHANGED <<cas, runs>>
      /\ record.objects = planned /\ record.policy = "check-policy"
  BY <1>1 DEF Publish, Answer, Record
<1>3. pc[c] = "planned" /\ JobOK(c) /\ intent \in Intents
  BY <1>1 DEF Publish, IInv, JobsOK, JobOK, Jobs
<1>4. /\ log' \in Seq(ToSet(log')) /\ Longer
      /\ log'[Len(log) + 1] = record
      /\ Len(log) + 1 \in DOMAIN log'
      /\ index' \in [Checkers -> (SUBSET DOMAIN log') \cup {None}]
      /\ \A d \in Checkers : Indexed(d) \subseteq Indexed(d)'
      /\ Len(log) + 1 \in Indexed(c)'
  <2>1. Typed
    BY DEF IInv
  <2> QED
    BY <1>2, <2>1, IndexLearns
<1>5. Grows
  BY <1>2, <1>4 DEF Grows
<1>6. /\ Others(c) /\ pc'[c] = "idle"
      /\ pc' \in [Checkers -> {"idle", "running", "planned"}]
      /\ job' \in [Checkers -> Jobs \cup {None}]
  BY <1>2, Returned DEF IInv
<1>7. Typed' /\ JobsOK'
  BY <1>2, <1>4, <1>5, <1>6, JobsStay DEF IInv, Typed
<1>8. StoreVouched' /\ LogVouched'
  <2>1. Upright(record)
    BY <1>1, <1>2, <1>3 DEF Upright, JobOK
  <2> QED
    BY <1>2, <1>5, <2>1, StoreStays, LogStays DEF IInv
<1>9. ASSUME decide_check_summary(job[c].intent, job[c].categories) = "PASS", NEW pass,
             pass = [intent |-> intent, hyp |-> hyp, ctx |-> ctx, by |-> c, at |-> Len(log) + 1]
      PROVE  ShownOne(pass)'
  <2>1. PICK run \in runs :
            /\ PassedFor(run, hyp, ctx, intent)
            /\ EvidenceOf(run) \in planned
            /\ EdgeOf(run, intent) \in planned
    BY <1>1, <1>3, <1>9, PassNeedsPass DEF JobOK
  <2> DEFINE edge == EdgeOf(run, intent)
             evidence == EvidenceOf(run)
  <2>2. /\ edge.schema = "edge" /\ edge.kind = KindOf(intent) /\ edge.to_ref = hyp
        /\ edge.context_ref = ctx /\ edge.evidence_refs = {evidence}
        /\ hyp \in evidence.subject_refs /\ evidence.context_ref = ctx
        /\ evidence.status = "PASS" /\ evidence.recipe_ref = run.recipe
        /\ evidence.schema = "evidence"
    BY <2>1 DEF PassedFor, EdgeOf, EvidenceOf, KindOf
  <2>3. evidence \in planned /\ edge \in planned
    BY <2>1
  <2> HIDE DEF edge, evidence
  <2>4. Admissible(edge, hyp)'
    <3>1. evidence \in edge.evidence_refs \cap cas'
      BY <1>1, <1>2, <1>3, <2>2, <2>3 DEF JobOK, EvidenceIn
    <3>2. /\ run.recipe \in Listed(hyp)
          /\ verdict_on_pass[run.recipe] = IF edge.kind = "supports" THEN "support" ELSE "refute"
      BY <1>3, <2>1, <2>2 DEF PassedFor, recipe_applies, KindOf, Intents
    <3> QED
      BY <2>2, <3>1, <3>2 DEF Admissible, Loaded
  <2>5. /\ pass.intent = intent /\ pass.hyp = hyp /\ pass.ctx = ctx
        /\ pass.by = c /\ pass.at = Len(log) + 1
    BY <1>9
  <2>6. Shows(edge, pass)'
    BY <2>2, <2>4, <2>5 DEF Shows, KindOf
  <2>7. edge \in log'[pass.at].objects
    BY <1>2, <1>4, <2>3, <2>5
  <2> QED
    BY <1>2, <1>3, <1>4, <2>5, <2>6, <2>7 DEF ShownOne, Quarantined, Intents
<1>10. Shown'
  <2>1. ASSUME NEW pass \in passes' \ passes PROVE ShownOne(pass)'
    <3>1. /\ decide_check_summary(job[c].intent, job[c].categories) = "PASS"
          /\ pass = [intent |-> intent, hyp |-> hyp, ctx |-> ctx, by |-> c, at |-> Len(log) + 1]
      BY <1>1, <2>1 DEF Publish, Answer
    <3> QED
      BY <1>9, <3>1
  <2> QED
    BY <1>5, <2>1, ShownStays DEF IInv
<1> QED
  BY <1>5, <1>7, <1>8, <1>10 DEF IInv

LEMMA Conflicting ==
    ASSUME ChecksAssumption, IInv, NEW c \in Checkers, Conflict(c)
    PROVE  IInv' /\ Grows
<1>1. Grows
  BY QuietGrows DEF Conflict, IInv
<1>2. /\ Others(c) /\ pc'[c] = "idle"
      /\ pc' \in [Checkers -> {"idle", "running", "planned"}]
      /\ job' \in [Checkers -> Jobs \cup {None}]
  BY Returned DEF IInv, Conflict
<1>3. Typed' /\ JobsOK'
  BY <1>1, <1>2, JobsStay DEF IInv, Typed, Conflict
<1>4. StoreVouched' /\ LogVouched' /\ Shown'
  BY <1>1, StoreStays, LogStays, ShownStays DEF IInv, Conflict
<1> QED
  BY <1>1, <1>3, <1>4 DEF IInv

\* A restart forgets an index that knew of no more than the next one will.
LEMMA Crashing ==
    ASSUME ChecksAssumption, IInv, NEW c \in Checkers, Crash(c)
    PROVE  IInv' /\ Grows
<1>1. UNCHANGED <<log, cas, runs, passes>> /\ index' = [index EXCEPT ![c] = None] /\ Return(c)
  BY DEF Crash
<1>2. /\ \A d \in Checkers : index'[d] = index[d] \/ index'[d] = None
      /\ index' \in [Checkers -> (SUBSET DOMAIN log) \cup {None}]
  BY <1>1 DEF IInv, Typed
<1>3. Grows
  BY <1>1, <1>2, KnowledgeGrows DEF IInv, Grows, Longer
<1>4. /\ Others(c) /\ pc'[c] = "idle"
      /\ pc' \in [Checkers -> {"idle", "running", "planned"}]
      /\ job' \in [Checkers -> Jobs \cup {None}]
  BY <1>1, Returned DEF IInv
<1>5. Typed' /\ JobsOK'
  BY <1>1, <1>2, <1>3, <1>4, JobsStay DEF IInv, Typed
<1>6. StoreVouched' /\ LogVouched' /\ Shown'
  BY <1>1, <1>3, StoreStays, LogStays, ShownStays DEF IInv
<1> QED
  BY <1>3, <1>5, <1>6 DEF IInv

LEMMA Indexing ==
    ASSUME ChecksAssumption, IInv, NEW c \in Checkers, EnsureIndex(c)
    PROVE  IInv' /\ Grows
<1>1. /\ UNCHANGED <<log, cas, runs, pc, job, head, passes>>
      /\ index[c] = None /\ index' = [index EXCEPT ![c] = DOMAIN log]
  BY DEF EnsureIndex
<1>2. /\ \A d \in Checkers : index'[d] = index[d] \/ Indexed(d) \subseteq index'[d]
      /\ index' \in [Checkers -> (SUBSET DOMAIN log) \cup {None}]
  BY <1>1 DEF IInv, Typed, Indexed
<1>3. Grows
  BY <1>1, <1>2, KnowledgeGrows DEF IInv, Grows, Longer
<1>4. Typed' /\ JobsOK'
  BY <1>1, <1>2, <1>3, JobStays DEF IInv, Typed, JobsOK
<1>5. StoreVouched' /\ LogVouched' /\ Shown'
  BY <1>1, <1>3, StoreStays, LogStays, ShownStays DEF IInv
<1> QED
  BY <1>3, <1>4, <1>5 DEF IInv

\* What is published by hand claims no evidence of a run, and says who stands for it.
LEMMA OthersPublish ==
    ASSUME ChecksAssumption, IInv, NEW c \in Checkers, NEW record, Publishes(c, record),
           \A evidence \in EvidenceIn(record.objects) : evidence.run = None,
           record.policy \in ByHand
    PROVE  IInv' /\ Grows
<1>1. /\ log' = Append(log, record) /\ Indexes(c, Len(log) + 1)
      /\ cas' = cas \cup EvidenceIn(record.objects)
      /\ UNCHANGED <<runs, pc, job, passes>>
  BY DEF Publishes
<1>2. /\ log' \in Seq(ToSet(log')) /\ Longer
      /\ index' \in [Checkers -> (SUBSET DOMAIN log') \cup {None}]
      /\ \A d \in Checkers : Indexed(d) \subseteq Indexed(d)'
  <2>1. Typed
    BY DEF IInv
  <2> QED
    BY <1>1, <2>1, IndexLearns
<1>3. Grows
  BY <1>1, <1>2 DEF Grows
<1>4. Typed'
  BY <1>1, <1>2 DEF IInv, Typed
<1>5. JobsOK'
  BY <1>1, <1>3, JobStays DEF IInv, JobsOK
<1>6. StoreVouched'
  BY <1>1, <1>3, StoreStays DEF IInv
<1>7. LogVouched'
  BY <1>1, <1>3, LogStays DEF IInv, Upright
<1>8. Shown'
  BY <1>1, <1>3, ShownStays DEF IInv
<1> QED
  BY <1>3, <1>4, <1>5, <1>6, <1>7, <1>8 DEF IInv

LEMMA Losing ==
    ASSUME ChecksAssumption, IInv, NEW c \in Checkers, LosePut(c)
    PROVE  IInv' /\ Grows
<1>1. /\ UNCHANGED <<log, index, runs, pc, job, head, passes>>
      /\ \E record \in Written : cas' = cas \cup EvidenceIn(record.objects)
  BY DEF LosePut
<1>2. Grows
  BY <1>1, QuietGrows DEF IInv
<1>3. Typed' /\ JobsOK'
  BY <1>1, <1>2, JobStays DEF IInv, Typed, JobsOK
<1>4. StoreVouched'
  BY <1>1, <1>2, StoreStays DEF IInv, ChecksAssumption, EvidenceIn
<1>5. LogVouched' /\ Shown'
  BY <1>1, <1>2, LogStays, ShownStays DEF IInv
<1> QED
  BY <1>2, <1>3, <1>4, <1>5 DEF IInv

LEMMA Putting ==
    ASSUME ChecksAssumption, IInv, NEW c \in Checkers, PutObjects(c)
    PROVE  IInv' /\ Grows
  BY OthersPublish DEF PutObjects, ChecksAssumption, EvidenceIn

LEMMA Authoring ==
    ASSUME ChecksAssumption, IInv, NEW c \in Checkers, AuthorEdge(c)
    PROVE  IInv' /\ Grows
<1>1. PICK record :
          /\ Publishes(c, record)
          /\ record.policy = "policy"
          /\ \A object \in record.objects : object.schema = "edge"
  BY DEF AuthorEdge, EdgeOver
<1>2. EvidenceIn(record.objects) = {} /\ record.policy \in ByHand
  BY <1>1 DEF EvidenceIn, ByHand
<1> QED
  BY <1>1, <1>2, OthersPublish

LEMMA Stepping ==
    ASSUME ChecksAssumption, IInv, [Next]_vars
    PROVE  IInv' /\ Grows
<1>1. CASE UNCHANGED vars
  <2>1. Grows
    BY <1>1, QuietGrows DEF vars, IInv
  <2>2. Typed' /\ JobsOK'
    BY <1>1, <2>1, JobStays DEF IInv, Typed, JobsOK, vars
  <2>3. StoreVouched' /\ LogVouched' /\ Shown'
    BY <1>1, <2>1, StoreStays, LogStays, ShownStays DEF IInv, vars
  <2> QED
    BY <2>1, <2>2, <2>3 DEF IInv
<1>2. ASSUME NEW c \in Checkers, NEW hyp \in Hypotheses, NEW ctx \in Contexts \cup {None},
             NEW intent \in {"prove", "refute"}, Start(c, hyp, ctx, intent)
      PROVE  IInv' /\ Grows
  BY <1>2, Starting DEF Intents
<1>3. ASSUME NEW c \in Checkers, RunOneRecipe(c) PROVE IInv' /\ Grows
  BY <1>3, Running
<1>4. ASSUME NEW c \in Checkers, NothingToRun(c) PROVE IInv' /\ Grows
  BY <1>4, Nothing
<1>5. ASSUME NEW c \in Checkers, Plan(c) PROVE IInv' /\ Grows
  BY <1>5, Planning
<1>6. ASSUME NEW c \in Checkers, Publish(c) PROVE IInv' /\ Grows
  BY <1>6, Publishing
<1>7. ASSUME NEW c \in Checkers, Conflict(c) PROVE IInv' /\ Grows
  BY <1>7, Conflicting
<1>8. ASSUME NEW c \in Checkers, Crash(c) PROVE IInv' /\ Grows
  BY <1>8, Crashing
<1>9. ASSUME NEW c \in Checkers, EnsureIndex(c) PROVE IInv' /\ Grows
  BY <1>9, Indexing
<1>10. ASSUME NEW c \in Checkers, PutObjects(c) PROVE IInv' /\ Grows
  BY <1>10, Putting
<1>11. ASSUME NEW c \in Checkers, LosePut(c) PROVE IInv' /\ Grows
  BY <1>11, Losing
<1>12. ASSUME NEW c \in Checkers, AuthorEdge(c) PROVE IInv' /\ Grows
  BY <1>12, Authoring
<1> QED
  BY <1>1, <1>2, <1>3, <1>4, <1>5, <1>6, <1>7, <1>8, <1>9, <1>10, <1>11, <1>12 DEF Next

LEMMA Starts ==
    ASSUME Init
    PROVE  IInv
<1>1. <<>> \in Seq(ToSet(<<>>)) /\ DOMAIN <<>> = {}
  BY DEF ToSet
<1>2. Typed
  BY <1>1, FS_EmptySet DEF Init, Typed
<1>3. LogVouched
  BY <1>1 DEF Init, LogVouched
<1> QED
  BY <1>2, <1>3 DEF Init, IInv, StoreVouched, JobsOK, Shown

LEMMA Inductive == Spec => []IInv
<1>1. Init => IInv
  BY Starts
<1>2. IInv /\ [Next]_vars => IInv'
  BY ChecksAssumption, Stepping
<1> QED
  BY <1>1, <1>2, PTL DEF Spec

-----------------------------------------------------------------------------
\* Whatever anybody writes, imports or stages, and whatever index a process has, an edge counts
\* only if a run on this pad bears it out or somebody with authority over the pad stands for it
\* (core/graph.py:186-246, pad.py:180-276).
THEOREM StatusesEarned == Spec => []StatusEarned
<1>1. ASSUME IInv PROVE StatusEarned
  <2> SUFFICES ASSUME NEW c \in Checkers, NEW hyp \in Hypotheses, NEW ctx \in Contexts \cup {None},
                      NEW kind \in {"supports", "refutes"}, NEW edge \in Counted(c, hyp, ctx, kind)
               PROVE  BorneOut(edge, hyp) \/ StoodFor(edge, hyp)
    BY DEF StatusEarned
  <2>1. edge \in AuthorityEdges(c) /\ edge.schema = "edge" /\ Admissible(edge, hyp)
    BY DEF Counted, AuthorityEdges
  <2>2. PICK i \in DOMAIN log : edge \in log[i].objects /\ log[i].policy # Quarantined
    BY <1>1, <2>1, KnownIsLogged DEF IInv, AuthorityEdges
  <2>3. PICK evidence \in Loaded(edge) :
            /\ hyp \in evidence.subject_refs
            /\ evidence.context_ref = edge.context_ref
            /\ evidence.status = "PASS"
            /\ evidence.recipe_ref \in Listed(hyp)
            /\ verdict_on_pass[evidence.recipe_ref]
                   = IF edge.kind = "supports" THEN "support" ELSE "refute"
    BY <2>1 DEF Admissible
  <2>4. ASSUME Real(evidence) PROVE BorneOut(edge, hyp)
    <3>1. PICK run \in runs : evidence = EvidenceOf(run)
      BY <2>4 DEF Real
    <3>2. /\ run.hyp = hyp /\ run.ctx = evidence.context_ref
          /\ run.status = evidence.status /\ run.recipe = evidence.recipe_ref
      BY <2>3, <3>1 DEF EvidenceOf
    <3> QED
      BY <2>3, <3>2 DEF BorneOut
  <2>5. CASE evidence.run # None
    BY <1>1, <2>3, <2>4, <2>5 DEF IInv, StoreVouched, Loaded
  <2>6. CASE log[i].policy = "check-policy" /\ evidence.run = None
    BY <1>1, <2>1, <2>2, <2>3, <2>4, <2>6
       DEF IInv, LogVouched, Upright, Vouched, Loaded, ByHand, Quarantined
  <2>7. CASE log[i].policy # "check-policy" /\ evidence.run = None
    <3>1. log[i].policy \in ByHand \ {Quarantined}
      BY <1>1, <2>2, <2>7 DEF IInv, LogVouched, Upright
    <3> QED
      BY <2>2, <2>3, <2>7, <3>1 DEF StoodFor
  <2> QED
    BY <2>5, <2>6, <2>7
<1> QED
  BY <1>1, Inductive, PTL

\* What a check answered shows to whoever has its record, whatever other checks answer, whoever
\* publishes and whoever restarts (engine.py:136-197, pad.py:68-71, core/graph.py:186-216).
THEOREM PassesShow == Spec => []PassShows
<1>1. ASSUME IInv PROVE PassShows
  <2> SUFFICES ASSUME NEW pass \in passes, NEW c \in Checkers,
                      c = pass.by \/ pass.at \in Indexed(c)
               PROVE  Status(c, pass.hyp, pass.ctx) \in
                          {"raises", "disputed",
                           IF pass.intent = "prove" THEN "supported" ELSE "falsified"}
    BY DEF PassShows
  <2>1. ShownOne(pass)
    BY <1>1 DEF IInv, Shown
  <2>2. PICK edge \in log[pass.at].objects : Shows(edge, pass)
    BY <2>1 DEF ShownOne
  <2>3. edge \in AuthorityEdges(c)
    BY <2>1, <2>2 DEF ShownOne, Shows, AuthorityEdges
  <2>4. edge \in Counted(c, pass.hyp, pass.ctx, KindOf(pass.intent))
    BY <2>2, <2>3 DEF Counted, Shows
  <2>5. CASE pass.intent = "prove"
    BY <2>4, <2>5 DEF KindOf, Status
  <2>6. CASE pass.intent = "refute"
    BY <2>4, <2>6 DEF KindOf, Status
  <2> QED
    BY <2>1, <2>5, <2>6 DEF ShownOne, Intents
<1> QED
  BY <1>1, Inductive, PTL

\* No step makes a process answer less than it did: what it once answered as falsified stays so,
\* or is disputed, or raises, and raising is for good (core/graph.py:13-31, 186-216,
\* index.py:44-52).
THEOREM StatusesNeverTakenBack == Spec => NeverTakenBack
<1>1. ASSUME IInv, [Next]_vars, NEW c \in Checkers, NEW hyp \in Hypotheses,
             NEW ctx \in Contexts \cup {None}
      PROVE  Status(c, hyp, ctx)' \in After(Status(c, hyp, ctx))
  <2> DEFINE supports == Counted(c, hyp, ctx, "supports") # {}
             refutes == Counted(c, hyp, ctx, "refutes") # {}
  <2>1. Typed /\ Grows
    BY <1>1, ChecksAssumption, Stepping DEF IInv
  <2>2. (supports => supports') /\ (refutes => refutes')
    BY <2>1, CountedStays
  <2>3. Raises(c, hyp) => Raises(c, hyp)'
    BY <2>1, RaisesStays
  <2> QED
    BY <2>2, <2>3 DEF Status, After
<1>2. IInv /\ [Next]_vars
      => [\A c \in Checkers, hyp \in Hypotheses, ctx \in Contexts \cup {None} :
              Status(c, hyp, ctx)' \in After(Status(c, hyp, ctx))]_vars
  BY <1>1
<1> QED
  BY <1>2, Inductive, PTL DEF Spec, NeverTakenBack
-----------------------------------------------------------------------------
(***************************************************************************)
(* One run of a recipe, which Checks knows by its status (Runner).         *)
(***************************************************************************)
\* The run was given up, or never begun: none of its processes is left.
GivenUp ==
    alive = {} /\ piped = {} /\ \E status : result = R!Non_pass(status) /\ status # "PASS"

\* The process was over when its output was judged, and what was judged does not change.
Judged ==
    /\ "leader" \notin alive /\ piped = {}
    /\ \E status \in {"PASS", "FAIL"}, captured \in BOOLEAN :
           /\ result = [status |-> status, truncated |-> R!truncated(output),
                        captured |-> captured]
           /\ status = "PASS" /\ "no text" \in expects => output # "kept"

RunInv ==
    /\ stage \in {"planning", "waiting", "draining", "observed", "opening", "done", "raised"}
    /\ output \in {"nowhere", "kept", "cut"}
    /\ piped \subseteq alive
    /\ stage = "planning" => alive = {}
    /\ stage \in {"planning", "waiting", "raised"} => result = NoResult
    /\ stage = "draining" => GivenUp
    /\ stage \in {"observed", "opening"} => Judged
    /\ stage = "done" => GivenUp \/ Judged

\* What the processes do changes nothing that was found: once the leader is gone nobody is
\* started, and once the pipes are closed nobody writes.
LEMMA ProcessesStep ==
    ASSUME RunInv, R!Fork \/ R!Write \/ R!Touch \/ (\E p \in {"leader", "child"} : R!Exit(p))
    PROVE  RunInv'
<1>1. UNCHANGED <<stage, expects, result>> /\ piped' \subseteq alive'
  BY DEF RunInv, R!Fork, R!Write, R!Touch, R!Exit
<1>2. output' \in {"nowhere", "kept", "cut"} /\ (piped = {} => output' = output)
  BY DEF RunInv, R!Fork, R!Write, R!Touch, R!Exit
<1>3. "leader" \notin alive => "leader" \notin alive' /\ piped' \subseteq piped
  BY DEF R!Fork, R!Write, R!Touch, R!Exit
<1>4. alive = {} => alive' = {}
  BY DEF R!Fork, R!Write, R!Touch, R!Exit
<1>5. GivenUp => GivenUp'
  BY <1>1, <1>3, <1>4 DEF GivenUp, R!Non_pass
<1>6. Judged => Judged'
  <2>1. piped = {} => R!truncated(output)' = R!truncated(output)
    BY <1>2 DEF R!truncated
  <2> QED
    BY <1>1, <1>2, <1>3, <2>1 DEF Judged
<1> QED
  BY <1>1, <1>2, <1>4, <1>5, <1>6 DEF RunInv

\* Each step of run_recipe.
LEMMA RunStep ==
    ASSUME RunInv, R!Run
    PROVE  RunInv'
<1>1. CASE R!NotStarted
  BY <1>1 DEF RunInv, R!NotStarted, GivenUp
<1>2. CASE R!Start
  BY <1>2 DEF RunInv, R!Start
<1>3. CASE R!Timeout \/ R!CommunicateFails
  BY <1>3 DEF RunInv, R!Timeout, R!CommunicateFails, R!Kill, R!Survivors, GivenUp
<1>4. CASE R!Drained
  BY <1>4 DEF RunInv, R!Drained, GivenUp
<1>5. CASE R!Observe
  <2>1. /\ result' = [status |-> R!evaluate_observation, truncated |-> R!truncated(output),
                      captured |-> FALSE]
        /\ stage' = "observed" /\ "leader" \notin alive /\ piped = {}
        /\ UNCHANGED <<alive, piped, exit, output, file, expects>>
    BY <1>5 DEF R!Observe
  <2>2. /\ R!evaluate_observation \in {"PASS", "FAIL"}
        /\ R!evaluate_observation = "PASS" /\ "no text" \in expects => output # "kept"
    BY DEF R!evaluate_observation
  <2>3. R!truncated(output)' = R!truncated(output)
    BY <2>1 DEF R!truncated
  <2>4. Judged'
    BY <2>1, <2>2, <2>3 DEF Judged
  <2> QED
    BY <2>1, <2>4 DEF RunInv
<1>6. CASE R!Look
  <2>1. /\ stage' \in {"opening", "done"} /\ UNCHANGED <<alive, piped, output, expects, result>>
        /\ Judged
    BY <1>6 DEF RunInv, R!Look
  <2>2. R!truncated(output)' = R!truncated(output)
    BY <2>1 DEF R!truncated
  <2>3. Judged'
    BY <2>1, <2>2 DEF Judged
  <2> QED
    BY <2>1, <2>3 DEF RunInv
<1>7. CASE R!Capture
  <2>1. Judged /\ UNCHANGED <<alive, piped, output, expects>>
    BY <1>7 DEF RunInv, R!Capture
  <2>2. CASE file
    <3>1. stage' = "done" /\ result' = [result EXCEPT !.captured = TRUE]
      BY <1>7, <2>2 DEF R!Capture
    <3>2. R!truncated(output)' = R!truncated(output)
      BY <2>1 DEF R!truncated
    <3>3. PICK status \in {"PASS", "FAIL"}, captured \in BOOLEAN :
              /\ result = [status |-> status, truncated |-> R!truncated(output),
                           captured |-> captured]
              /\ status = "PASS" /\ "no text" \in expects => output # "kept"
      BY <2>1 DEF Judged
    <3>4. result' = [status |-> status, truncated |-> R!truncated(output), captured |-> TRUE]
      BY <3>1, <3>3
    <3>5. Judged'
      BY <2>1, <3>2, <3>3, <3>4 DEF Judged
    <3> QED
      BY <2>1, <3>1, <3>5 DEF RunInv
  <2>3. CASE ~file
    BY <1>7, <2>1, <2>3 DEF RunInv, R!Capture
  <2> QED
    BY <2>2, <2>3
<1> QED
  BY <1>1, <1>2, <1>3, <1>4, <1>5, <1>6, <1>7 DEF R!Run

\* Whatever the processes of a recipe do, and whenever the timer goes off, a PASS admits output
\* that was cut and a run that was given up leaves nothing running (runner.py:180-252, 369-398).
THEOREM RunsEndClean == R!Spec => []EndsClean
<1>1. R!Init => RunInv
  BY DEF R!Init, RunInv
<1>2. RunInv /\ [R!Next]_R!vars => RunInv'
  <2> SUFFICES ASSUME RunInv, [R!Next]_R!vars PROVE RunInv'
    OBVIOUS
  <2>1. CASE UNCHANGED R!vars
    <3>1. R!truncated(output)' = R!truncated(output)
      BY <2>1 DEF R!truncated, R!vars
    <3>2. GivenUp' = GivenUp
      BY <2>1 DEF R!vars, GivenUp, R!Non_pass
    <3>3. Judged' = Judged
      BY <2>1, <3>1 DEF R!vars, Judged
    <3> QED
      BY <2>1, <3>2, <3>3 DEF R!vars, RunInv
  <2>2. CASE R!Next
    BY <2>2, ProcessesStep, RunStep DEF R!Next
  <2> QED
    BY <2>1, <2>2
<1>3. RunInv => EndsClean
  <2>1. ASSUME RunInv, result # NoResult, result.status = "PASS", "no text" \in expects,
               output # "nowhere"
        PROVE  result.truncated
    <3>1. ASSUME NEW status, result = R!Non_pass(status) PROVE status = "PASS"
      <4>1. R!Non_pass(status).status = status
        BY DEF R!Non_pass
      <4> QED
        BY <2>1, <3>1, <4>1
    <3>2. Judged
      BY <2>1, <3>1 DEF RunInv, GivenUp
    <3>3. PICK status \in {"PASS", "FAIL"}, captured \in BOOLEAN :
              /\ result = [status |-> status, truncated |-> R!truncated(output),
                           captured |-> captured]
              /\ status = "PASS" /\ "no text" \in expects => output # "kept"
      BY <3>2 DEF Judged
    <3>4. result.status = status
      BY <3>3, Zenon
    <3>5. result.truncated = R!truncated(output)
      BY <3>3, Zenon
    <3>6. R!truncated(output)
      BY <2>1, <3>3, <3>4 DEF RunInv, R!truncated
    <3> QED
      BY <3>5, <3>6, Zenon
  <2>2. ASSUME RunInv, stage = "done", result.status \in {"TIMEOUT", "ERROR"}
        PROVE  alive = {}
    <3>1. ASSUME NEW status \in {"PASS", "FAIL"}, NEW captured \in BOOLEAN,
                 result = [status |-> status, truncated |-> R!truncated(output),
                           captured |-> captured]
          PROVE  FALSE
      <4>1. result.status = status
        BY <3>1, Zenon
      <4> QED
        BY <2>2, <4>1
    <3> QED
      BY <2>2, <3>1 DEF RunInv, GivenUp, Judged
  <2> QED
    BY <2>1, <2>2 DEF EndsClean, R!EndsClean, R!TruncationShown, R!GivenUpLeavesNothing
<1> QED
  BY <1>1, <1>2, <1>3, PTL DEF R!Spec

-----------------------------------------------------------------------------
(***************************************************************************)
(* AdapterShell.  The records of a stream are a recursion over it; that    *)
(* there is one such function, and only one, is shown first.               *)
(***************************************************************************)

\* A set of natural numbers that is not empty has a least.
LEMMA Least ==
    ASSUME NEW S, S \subseteq Nat, S # {}
    PROVE  \E i \in S : \A j \in S : i <= j
<1> DEFINE Less == {ss \in Nat \X Nat : ss[1] < ss[2]}
<1>1. IsWellFoundedOn(Less, Nat)
  BY NatLessThanWellFounded, Zenon DEF OpToRel
<1> HIDE DEF Less
<1>2. PICK i \in S : \A k \in S : ~(<<k, i>> \in Less)
  BY <1>1, WFMin
<1>3. ASSUME NEW k \in S, k < i PROVE FALSE
  <2>1. <<k, i>> \in Less
    BY <1>2, <1>3 DEF Less
  <2> QED
    BY <1>2, <1>3, <2>1
<1> QED
  BY <1>2, <1>3

\* A set of natural numbers that holds 0, and n + 1 with every n, holds them all.
LEMMA Climbing ==
    ASSUME NEW P, 0 \in P, \A n \in Nat : n \in P => n + 1 \in P
    PROVE  Nat \subseteq P
<1> SUFFICES ASSUME Nat \ P # {} PROVE FALSE
  OBVIOUS
<1>1. PICK i \in Nat \ P : \A k \in Nat \ P : i <= k
  BY Least
<1>2. i # 0 /\ i - 1 \in Nat /\ (i - 1) + 1 = i
  BY <1>1
<1>3. i - 1 \in P
  BY <1>1, <1>2
<1> QED
  BY <1>1, <1>2, <1>3

\* Where the first line of what remains from i on ends.
EndsAt(s, i, e) ==
    /\ e \in i..Len(s)
    /\ \A k \in i..e - 1 : s[k] # LF
    /\ s[e] = LF \/ e = Len(s)

\* readline, of a limit of at least one.
LEMMA LineRead ==
    ASSUME NEW S, NEW s \in Seq(S), s # <<>>, NEW limit \in Nat \ {0}
    PROVE  \E n \in 1..Len(s) :
               /\ A!readline(s, limit) = SubSeq(s, 1, n)
               /\ n <= limit
               /\ \A k \in 1..n - 1 : s[k] # LF
               /\ s[n] = LF \/ n = Len(s) \/ n = limit
<1> DEFINE I == {i \in 1..Len(s) : s[i] = LF}
           lf == IF I # {} THEN A!Min(I) ELSE 0
           length == IF lf = 0 THEN Len(s) ELSE lf
           n == IF length <= limit THEN length ELSE limit
<1>1. A!readline(s, limit) = SubSeq(s, 1, n)
  BY DEF A!readline, A!SelectInSeq
<1>2. Len(s) \in Nat \ {0}
  BY EmptySeq
<1>3. I # {} => lf \in I /\ \A j \in I : lf <= j
  <2>1. I \subseteq Nat
    BY <1>2
  <2> HIDE DEF I
  <2>2. I # {} => \E i \in I : \A j \in I : i <= j
    BY <2>1, Least
  <2> QED
    BY <2>2 DEF A!Min
<1>4. CASE I = {}
  <2>1. length = Len(s) /\ \A k \in 1..Len(s) : s[k] # LF
    BY <1>4
  <2> HIDE DEF I, lf, length
  <2> QED
    BY <1>1, <1>2, <2>1
<1>5. CASE I # {}
  <2>1. lf \in 1..Len(s) /\ s[lf] = LF /\ \A k \in 1..Len(s) : s[k] = LF => lf <= k
    BY <1>3, <1>5
  <2>2. length = lf
    BY <1>2, <2>1
  <2> HIDE DEF I, lf, length
  <2> QED
    BY <1>1, <1>2, <2>1, <2>2
<1> QED
  BY <1>4, <1>5

\* The line that begins at i.
Piece(s, i) == A!readline(SubSeq(s, i, Len(s)), Len(s))

\* It goes up to where a line ends.
LEMMA PieceFound ==
    ASSUME NEW S, NEW s \in Seq(S), NEW i \in 1..Len(s)
    PROVE  \E e \in i..Len(s) : EndsAt(s, i, e) /\ Piece(s, i) = SubSeq(s, i, e)
<1> DEFINE t == SubSeq(s, i, Len(s))
<1>1. Len(s) \in Nat \ {0} /\ i \in Int
  BY LenProperties
<1>2. /\ t \in Seq(S) /\ Len(t) = Len(s) - i + 1
      /\ \A k \in 1..Len(t) : t[k] = s[i + k - 1]
  BY <1>1, SubSeqProperties, ElementOfSeq
<1>3. t # <<>>
  <2>1. Len(t) # 0
    BY <1>1, <1>2
  <2> HIDE DEF t
  <2> QED
    BY <2>1, EmptySeq
<1>4. Piece(s, i) = A!readline(t, Len(s))
  BY DEF Piece
<1> HIDE DEF t
<1>5. PICK n \in 1..Len(t) :
           /\ A!readline(t, Len(s)) = SubSeq(t, 1, n)
           /\ n <= Len(s)
           /\ \A k \in 1..n - 1 : t[k] # LF
           /\ t[n] = LF \/ n = Len(t) \/ n = Len(s)
  BY <1>1, <1>2, <1>3, LineRead
<1>6. SubSeq(t, 1, n) = SubSeq(s, i, i + n - 1)
  BY <1>1, <1>2, <1>5, SubSeqOfSubSeq DEF t
<1> DEFINE e == i + n - 1
<1>7. e \in i..Len(s)
  BY <1>1, <1>2, <1>5
<1>8. \A k \in i..e - 1 : s[k] # LF
  <2> TAKE k \in i..e - 1
  <2>1. k - i + 1 \in 1..n - 1 /\ k - i + 1 \in 1..Len(t) /\ i + (k - i + 1) - 1 = k
    BY <1>1, <1>2, <1>5
  <2>2. t[k - i + 1] = s[i + (k - i + 1) - 1]
    BY <1>2, <2>1
  <2> QED
    BY <1>5, <2>1, <2>2
<1>9. s[e] = LF \/ e = Len(s)
  BY <1>1, <1>2, <1>5
<1> QED
  BY <1>4, <1>5, <1>6, <1>7, <1>8, <1>9 DEF EndsAt

\* Only one place is the end.
LEMMA EndIsOne ==
    ASSUME NEW S, NEW s \in Seq(S), NEW i \in Nat, NEW e, NEW f, EndsAt(s, i, e), EndsAt(s, i, f)
    PROVE  e = f
<1>1. Len(s) \in Nat
  BY LenProperties
<1>2. e \in Nat /\ f \in Nat /\ e <= Len(s) /\ f <= Len(s) /\ i <= e /\ i <= f
  BY <1>1 DEF EndsAt
<1>3. ~(e < f)
  <2> SUFFICES ASSUME e < f PROVE FALSE
    OBVIOUS
  <2>1. e \in i..f - 1
    BY <1>2
  <2> QED
    BY <1>1, <1>2, <2>1 DEF EndsAt
<1>4. ~(f < e)
  <2> SUFFICES ASSUME f < e PROVE FALSE
    OBVIOUS
  <2>1. f \in i..e - 1
    BY <1>2
  <2> QED
    BY <1>1, <1>2, <2>1 DEF EndsAt
<1> QED
  BY <1>2, <1>3, <1>4

\* Where nothing is left there is nothing to read.
LEMMA NothingRead ==
    ASSUME NEW limit \in Nat
    PROVE  A!readline(<<>>, limit) = <<>>
<1>1. A!readline(<<>>, limit) = SubSeq(<<>>, 1, IF 0 <= limit THEN 0 ELSE limit)
  <2>1. {i \in 1..Len(<<>>) : <<>>[i] = LF} = {}
    OBVIOUS
  <2> QED
    BY <2>1 DEF A!readline, A!SelectInSeq
<1>2. (IF 0 <= limit THEN 0 ELSE limit) = 0
  OBVIOUS
<1>3. SubSeq(<<>>, 1, 0) = <<>>
  BY SubSeqEmpty
<1> QED
  BY <1>1, <1>2, <1>3, Zenon

\* After the last symbol there is no line.
LEMMA NoPiece ==
    ASSUME NEW S, NEW s \in Seq(S)
    PROVE  Piece(s, Len(s) + 1) = <<>>
<1>1. Len(s) \in Nat
  BY LenProperties
<1>2. SubSeq(s, Len(s) + 1, Len(s)) = <<>>
  BY <1>1, SubSeqEmpty
<1>3. A!readline(<<>>, Len(s)) = <<>>
  BY <1>1, NothingRead
<1> QED
  BY <1>2, <1>3, Zenon DEF Piece

-----------------------------------------------------------------------------
(* The records of a stream. *)

\* What Records says of the place i.
RecordsAt(s, g, i) ==
    IF Piece(s, i) = <<>> THEN <<>>
    ELSE <<A!strip_delimiter(Piece(s, i))>> \o g[i + Len(Piece(s, i))]

\* g is the function whose first value Records is.
Splits(s, g) == g = [i \in 1..Len(s) + 1 |-> RecordsAt(s, g, i)]

\* Records is chosen among such functions.
LEMMA RecordsIs ==
    ASSUME NEW s
    PROVE  A!Records(s) = (CHOOSE g : Splits(s, g))[1]
  BY DEF A!Records, Splits, RecordsAt, Piece

\* Without its delimiter a line is still a sequence.
LEMMA StripTyped ==
    ASSUME NEW S, NEW s \in Seq(S)
    PROVE  A!strip_delimiter(s) \in Seq(S)
<1>1. ASSUME NEW t \in Seq(S), t # <<>> PROVE A!Front(t) \in Seq(S)
  <2>1. Len(t) \in Nat \ {0}
    BY <1>1, EmptySeq
  <2>2. \A i \in 1..Len(t) - 1 : t[i] \in S
    BY <2>1, ElementOfSeq
  <2> QED
    BY <2>1, <2>2, SubSeqProperties DEF A!Front
<1> QED
  BY <1>1 DEF A!strip_delimiter, A!Ends

\* What is said of a place is known once it is known of the places behind it.
LEMMA RecordsAtIs ==
    ASSUME NEW S, NEW s \in Seq(S), NEW i \in 1..Len(s) + 1
    PROVE  \/ i = Len(s) + 1 /\ \A g : RecordsAt(s, g, i) = <<>>
           \/ /\ i <= Len(s)
              /\ \E e \in i..Len(s) :
                     /\ EndsAt(s, i, e)
                     /\ A!strip_delimiter(SubSeq(s, i, e)) \in Seq(S)
                     /\ \A g : RecordsAt(s, g, i) =
                                  <<A!strip_delimiter(SubSeq(s, i, e))>> \o g[e + 1]
<1>1. Len(s) \in Nat
  BY LenProperties
<1>2. CASE i = Len(s) + 1
  BY <1>2, NoPiece DEF RecordsAt
<1>3. CASE i # Len(s) + 1
  <2>1. i \in 1..Len(s)
    BY <1>1, <1>3
  <2>2. PICK e \in i..Len(s) : EndsAt(s, i, e) /\ Piece(s, i) = SubSeq(s, i, e)
    BY <2>1, PieceFound
  <2>3. /\ SubSeq(s, i, e) \in Seq(S)
        /\ Len(SubSeq(s, i, e)) = e - i + 1
    <3>1. \A k \in i..e : s[k] \in S
      BY <1>1, <2>1, <2>2, ElementOfSeq
    <3> QED
      BY <1>1, <2>1, <2>2, <3>1, SubSeqProperties
  <2>4. Piece(s, i) # <<>>
    BY <1>1, <2>1, <2>2, <2>3, EmptySeq
  <2>5. i + Len(Piece(s, i)) = e + 1
    BY <1>1, <2>1, <2>2, <2>3
  <2>6. A!strip_delimiter(SubSeq(s, i, e)) \in Seq(S)
    BY <2>3, StripTyped
  <2>7. \A g : RecordsAt(s, g, i) = <<A!strip_delimiter(SubSeq(s, i, e))>> \o g[e + 1]
    BY <2>2, <2>4, <2>5, Zenon DEF RecordsAt
  <2>8. i <= Len(s)
    BY <1>1, <2>1
  <2> QED
    BY <2>2, <2>6, <2>7, <2>8, Zenon
<1> QED
  BY <1>2, <1>3

\* A split of what remains from a place on.
SplitFrom(S, s, j, g) ==
    /\ g \in [j..Len(s) + 1 -> Seq(Seq(S))]
    /\ \A i \in j..Len(s) + 1 : g[i] = RecordsAt(s, g, i)

\* There is a split: from the end, one place more at a time.
LEMMA SplitExists ==
    ASSUME NEW S, NEW s \in Seq(S)
    PROVE  \E g : SplitFrom(S, s, 1, g)
<1> DEFINE n == Len(s)
           P == {k \in Nat : k <= n => \E g : SplitFrom(S, s, n + 1 - k, g)}
<1>1. n \in Nat
  BY LenProperties
<1> HIDE DEF n
<1>2. 0 \in P
  <2> DEFINE g == [i \in n + 1..n + 1 |-> <<>>]
  <2>1. \A i \in n + 1..n + 1 : g[i] = <<>> /\ i = n + 1
    BY <1>1
  <2>2. \A f : RecordsAt(s, f, n + 1) = <<>>
    BY <1>1, RecordsAtIs DEF n
  <2>3. g \in [n + 1..n + 1 -> Seq(Seq(S))]
    BY <1>1
  <2> HIDE DEF g
  <2>4. SplitFrom(S, s, n + 1, g)
    BY <2>1, <2>2, <2>3 DEF SplitFrom, n
  <2>5. n + 1 - 0 = n + 1
    BY <1>1
  <2> QED
    BY <2>4, <2>5
<1>3. ASSUME NEW k \in Nat, k \in P PROVE k + 1 \in P
  <2> SUFFICES ASSUME k + 1 <= n PROVE \E g : SplitFrom(S, s, n + 1 - (k + 1), g)
    OBVIOUS
  <2> DEFINE j == n - k
  <2>1. j \in 1..n /\ n + 1 - k = j + 1 /\ n + 1 - (k + 1) = j
    BY <1>1
  <2>2. PICK g : SplitFrom(S, s, j + 1, g)
    BY <1>1, <1>3, <2>1
  <2> HIDE DEF j, P
  <2>3. PICK e \in j..n :
            /\ EndsAt(s, j, e)
            /\ A!strip_delimiter(SubSeq(s, j, e)) \in Seq(S)
            /\ \A f : RecordsAt(s, f, j) = <<A!strip_delimiter(SubSeq(s, j, e))>> \o f[e + 1]
    <3>1. j \in 1..n + 1 /\ j # n + 1
      BY <1>1, <2>1
    <3> QED
      BY <3>1, RecordsAtIs DEF n
  <2>4. e + 1 \in j + 1..n + 1 /\ g[e + 1] \in Seq(Seq(S))
    <3>1. e + 1 \in j + 1..n + 1
      BY <1>1, <2>1, <2>3
    <3> QED
      BY <2>2, <3>1 DEF SplitFrom, n
  <2> DEFINE first == <<A!strip_delimiter(SubSeq(s, j, e))>> \o g[e + 1]
             h == [i \in j..n + 1 |-> IF i = j THEN first ELSE g[i]]
  <2>5. first \in Seq(Seq(S))
    <3> DEFINE a == A!strip_delimiter(SubSeq(s, j, e))
    <3>1. <<a>> \in Seq(Seq(S))
      BY <2>3
    <3> HIDE DEF a
    <3> QED
      BY <2>4, <3>1, ConcatProperties DEF a
  <2> HIDE DEF first
  <2>6. h[j] = first /\ \A i \in j + 1..n + 1 : h[i] = g[i]
    BY <1>1, <2>1
  <2>7. h \in [j..n + 1 -> Seq(Seq(S))]
    <3>1. \A i \in j + 1..n + 1 : g[i] \in Seq(Seq(S))
      BY <2>2 DEF SplitFrom, n
    <3>2. \A i \in j..n + 1 : i # j => i \in j + 1..n + 1
      BY <1>1, <2>1
    <3> QED
      BY <2>5, <3>1, <3>2
  <2> HIDE DEF h
  <2>8. h[j] = RecordsAt(s, h, j)
    BY <2>3, <2>4, <2>6 DEF first
  <2>9. ASSUME NEW i \in j + 1..n + 1 PROVE h[i] = RecordsAt(s, h, i)
    <3>1. g[i] = RecordsAt(s, g, i)
      BY <2>2, <2>9 DEF SplitFrom, n
    <3>2. i \in 1..n + 1
      BY <1>1, <2>1, <2>9
    <3>3. RecordsAt(s, h, i) = RecordsAt(s, g, i)
      <4>1. CASE i = n + 1
        BY <1>1, <3>2, <4>1, RecordsAtIs DEF n
      <4>2. CASE i # n + 1
        <5>1. PICK f \in i..n :
                  \A u : RecordsAt(s, u, i) = <<A!strip_delimiter(SubSeq(s, i, f))>> \o u[f + 1]
          BY <3>2, <4>2, RecordsAtIs DEF n
        <5>2. f + 1 \in j + 1..n + 1
          BY <1>1, <2>1, <2>9, <5>1
        <5> QED
          BY <2>6, <5>1, <5>2
      <4> QED
        BY <4>1, <4>2
    <3> QED
      BY <2>6, <3>1, <3>3
  <2>10. \A i \in j..n + 1 : i = j \/ i \in j + 1..n + 1
    BY <1>1, <2>1
  <2>11. SplitFrom(S, s, j, h)
    BY <2>7, <2>8, <2>9, <2>10 DEF SplitFrom, n
  <2> QED
    BY <2>1, <2>11
<1>4. n \in P
  BY <1>1, <1>2, <1>3, Climbing
<1>5. n + 1 - n = 1
  BY <1>1
<1> QED
  BY <1>1, <1>4, <1>5

\* g is right at every place, whatever else it is.
IsSplit(s, g) == \A i \in 1..Len(s) + 1 : g[i] = RecordsAt(s, g, i)

\* There is one split: the end of a sequence is split as the end of that end.
LEMMA SplitIsOne ==
    ASSUME NEW S, NEW s \in Seq(S), NEW from \in 1..Len(s) + 1,
           SubSeq(s, from, Len(s)) \in Seq(S), NEW g, IsSplit(s, g),
           NEW h, IsSplit(SubSeq(s, from, Len(s)), h)
    PROVE  g[from] = h[1]
<1> DEFINE t == SubSeq(s, from, Len(s))
           d == from - 1
           n == Len(s)
           m == Len(t)
           P == {k \in Nat : \A i \in 1..m + 1 : m + 1 - i <= k => g[i + d] = h[i]}
<1>0. d \in Nat /\ d + 1 = from /\ t = SubSeq(s, d + 1, Len(s))
  BY LenProperties
<1> HIDE DEF d
<1>1. n \in Nat /\ m \in Nat /\ d \in Nat /\ m = n - d
  <2>1. \A k \in from..n : s[k] \in S
    BY LenProperties, ElementOfSeq
  <2> QED
    BY <1>0, <2>1, LenProperties, SubSeqProperties
<1>2. \A i \in 1..m : t[i] = s[i + d]
  <2>1. \A k \in from..n : s[k] \in S
    BY LenProperties, ElementOfSeq
  <2>2. \A k \in 1..n - from + 1 : t[k] = s[from + k - 1]
    BY <1>1, <2>1, SubSeqProperties
  <2>3. \A k \in 1..m : k \in 1..n - from + 1 /\ from + k - 1 = k + d
    BY <1>0, <1>1
  <2> QED
    BY <2>2, <2>3
<1>9. t \in Seq(S) /\ IsSplit(t, h)
  OBVIOUS
<1> HIDE DEF n, m, t
<1>3. ASSUME NEW i \in 1..m + 1
      PROVE  /\ i + d \in 1..n + 1 /\ g[i + d] = RecordsAt(s, g, i + d)
             /\ h[i] = RecordsAt(t, h, i)
  BY <1>0, <1>1, <1>3, <1>9 DEF IsSplit, n, m
<1>4. g[(m + 1) + d] = h[m + 1]
  <2>1. (m + 1) + d = n + 1 /\ m + 1 \in 1..m + 1
    BY <1>1
  <2>2. RecordsAt(s, g, n + 1) = <<>>
    BY NoPiece, Zenon DEF RecordsAt, n
  <2>3. RecordsAt(t, h, m + 1) = <<>>
    BY <1>9, NoPiece, Zenon DEF RecordsAt, m
  <2> QED
    BY <1>3, <2>1, <2>2, <2>3
<1>5. 0 \in P
  <2>1. \A i \in 1..m + 1 : m + 1 - i <= 0 => i = m + 1
    BY <1>1
  <2> QED
    BY <1>4, <2>1
<1>6. ASSUME NEW k \in Nat, k \in P PROVE k + 1 \in P
  <2> SUFFICES ASSUME NEW i \in 1..m + 1, m + 1 - i <= k + 1, i # m + 1 PROVE g[i + d] = h[i]
    BY <1>4
  <2>1. i \in 1..m /\ i + d \in 1..n
    BY <1>1
  <2>2. PICK e \in i..m :
            /\ EndsAt(t, i, e)
            /\ \A u : RecordsAt(t, u, i) = <<A!strip_delimiter(SubSeq(t, i, e))>> \o u[e + 1]
    BY <1>1, <1>9, RecordsAtIs DEF m
  <2>3. PICK f \in i + d..n :
            /\ EndsAt(s, i + d, f)
            /\ \A u : RecordsAt(s, u, i + d) =
                       <<A!strip_delimiter(SubSeq(s, i + d, f))>> \o u[f + 1]
    <3>1. i + d \in 1..n + 1 /\ i + d # n + 1
      BY <1>1, <2>1
    <3> QED
      BY <3>1, RecordsAtIs DEF n
  <2>4. f = e + d
    <3>1. e + d \in i + d..n
      BY <1>1, <2>1, <2>2
    <3>2. \A j \in i + d..(e + d) - 1 : s[j] # LF
      <4> TAKE j \in i + d..(e + d) - 1
      <4>1. j - d \in i..e - 1 /\ j - d \in 1..m /\ (j - d) + d = j
        BY <1>1, <2>1, <2>2
      <4>2. t[j - d] # LF
        BY <2>2, <4>1 DEF EndsAt
      <4> QED
        BY <1>2, <4>1, <4>2
    <3>3. s[e + d] = LF \/ e + d = n
      <4>1. e \in 1..m
        BY <1>1, <2>1, <2>2
      <4>2. t[e] = s[e + d]
        BY <1>2, <4>1
      <4> QED
        BY <1>1, <2>2, <4>1, <4>2 DEF EndsAt, m
    <3>4. EndsAt(s, i + d, e + d)
      BY <3>1, <3>2, <3>3 DEF EndsAt, n
    <3>5. i + d \in Nat
      BY <2>1
    <3> QED
      BY <2>3, <3>4, <3>5, EndIsOne
  <2>5. SubSeq(t, i, e) = SubSeq(s, i + d, e + d)
    <3>1. d + 1 \in 1..n /\ n \in 1..n /\ i \in 1..n - (d + 1) + 1 /\ e \in 1..n - (d + 1) + 1
      BY <1>1, <2>1, <2>2
    <3>2. SubSeq(t, i, e) = SubSeq(s, (d + 1) + i - 1, (d + 1) + e - 1)
      BY <1>0, <1>9, <3>1, SubSeqOfSubSeq DEF n
    <3>3. (d + 1) + i - 1 = i + d /\ (d + 1) + e - 1 = e + d
      BY <1>1, <2>1, <2>2
    <3> QED
      BY <3>2, <3>3
  <2>6. g[f + 1] = h[e + 1]
    <3>1. e + 1 \in 1..m + 1 /\ m + 1 - (e + 1) <= k /\ (e + 1) + d = f + 1
      BY <1>1, <2>1, <2>2, <2>4
    <3> QED
      BY <1>6, <3>1
  <2>7. RecordsAt(t, h, i) = <<A!strip_delimiter(SubSeq(t, i, e))>> \o h[e + 1]
    BY <2>2
  <2>8. RecordsAt(s, g, i + d) = <<A!strip_delimiter(SubSeq(s, i + d, f))>> \o g[f + 1]
    BY <2>3
  <2>9. RecordsAt(t, h, i) = RecordsAt(s, g, i + d)
    BY <2>4, <2>5, <2>6, <2>7, <2>8, Zenon
  <2> QED
    BY <1>3, <2>9
<1>7. m \in P
  BY <1>1, <1>5, <1>6, Climbing
<1>8. g[1 + d] = h[1]
  BY <1>1, <1>7
<1> QED
  BY <1>0, <1>8

\* Records is that split.
LEMMA RecordsSplit ==
    ASSUME NEW S, NEW s \in Seq(S)
    PROVE  \E g : A!Records(s) = g[1] /\ SplitFrom(S, s, 1, g) /\ IsSplit(s, g)
<1>1. PICK g : SplitFrom(S, s, 1, g)
  BY SplitExists
<1>2. Splits(s, g) /\ IsSplit(s, g)
  BY <1>1 DEF Splits, SplitFrom, IsSplit
<1> DEFINE h == CHOOSE f : Splits(s, f)
<1>3. Splits(s, h)
  BY <1>2, Zenon
<1>4. A!Records(s) = h[1]
  BY RecordsIs
<1> HIDE DEF h
<1>5. IsSplit(s, h)
  <2> DEFINE row == [i \in 1..Len(s) + 1 |-> RecordsAt(s, h, i)]
  <2>1. h = row
    BY <1>3 DEF Splits
  <2>2. \A i \in 1..Len(s) + 1 : row[i] = RecordsAt(s, h, i)
    OBVIOUS
  <2> HIDE DEF row
  <2>3. \A i \in 1..Len(s) + 1 : h[i] = RecordsAt(s, h, i)
    BY <2>1, <2>2
  <2> QED
    BY <2>3 DEF IsSplit
<1>6. g[1] = h[1]
  <2>1. 1 \in 1..Len(s) + 1
    BY LenProperties
  <2>2. SubSeq(s, 1, Len(s)) \in Seq(S) /\ IsSplit(SubSeq(s, 1, Len(s)), h)
    BY <1>5, SubSeqFull, Zenon
  <2>3. \A from \in 1..Len(s) + 1 :
            SubSeq(s, from, Len(s)) \in Seq(S) /\ IsSplit(SubSeq(s, from, Len(s)), h)
                => g[from] = h[1]
    BY <1>2, SplitIsOne, ZenonT(40)
  <2> QED
    BY <2>1, <2>2, <2>3, ZenonT(40)
<1> QED
  BY <1>1, <1>2, <1>4, <1>6

\* The records are the first line without its delimiter, and those of what follows it.
LEMMA RecordsFirst ==
    ASSUME NEW S, NEW s \in Seq(S), NEW n, EndsAt(s, 1, n)
    PROVE  /\ A!strip_delimiter(SubSeq(s, 1, n)) \in Seq(S)
           /\ SubSeq(s, n + 1, Len(s)) \in Seq(S)
           /\ A!Records(s) = <<A!strip_delimiter(SubSeq(s, 1, n))>>
                                 \o A!Records(SubSeq(s, n + 1, Len(s)))
<1> DEFINE t == SubSeq(s, n + 1, Len(s))
<1>1. Len(s) \in Nat /\ n \in 1..Len(s)
  BY LenProperties DEF EndsAt
<1>2. t \in Seq(S)
  <2> DEFINE a == n + 1
             z == Len(s)
  <2>1. a \in Int /\ z \in Int /\ \A k \in a..z : s[k] \in S
    BY <1>1, ElementOfSeq
  <2> HIDE DEF a, z
  <2>2. SubSeq(s, a, z) \in Seq(S)
    BY <2>1, SubSeqProperties
  <2> QED
    BY <2>2 DEF a, z
<1>3. PICK g : A!Records(s) = g[1] /\ IsSplit(s, g)
  BY RecordsSplit
<1>4. PICK h : A!Records(t) = h[1] /\ IsSplit(t, h)
  BY <1>2, RecordsSplit
<1>5. g[n + 1] = h[1]
  <2>1. n + 1 \in 1..Len(s) + 1
    BY <1>1
  <2> QED
    BY <1>2, <1>3, <1>4, <2>1, SplitIsOne, ZenonT(40)
<1> HIDE DEF t
<1>6. PICK e \in 1..Len(s) :
          /\ EndsAt(s, 1, e)
          /\ A!strip_delimiter(SubSeq(s, 1, e)) \in Seq(S)
          /\ \A u : RecordsAt(s, u, 1) = <<A!strip_delimiter(SubSeq(s, 1, e))>> \o u[e + 1]
  <2>1. 1 \in 1..Len(s) + 1 /\ 1 # Len(s) + 1
    BY <1>1
  <2> QED
    BY <2>1, RecordsAtIs
<1>7. e = n
  BY <1>6, EndIsOne
<1>8. g[1] = RecordsAt(s, g, 1)
  BY <1>1, <1>3 DEF IsSplit
<1> QED
  BY <1>2, <1>3, <1>4, <1>5, <1>6, <1>7, <1>8 DEF t

\* Records are sequences of what the stream is made of.
LEMMA RecordsTyped ==
    ASSUME NEW S, NEW s \in Seq(S)
    PROVE  A!Records(s) \in Seq(Seq(S))
<1>1. PICK g : A!Records(s) = g[1] /\ SplitFrom(S, s, 1, g)
  BY RecordsSplit
<1>2. 1 \in 1..Len(s) + 1
  BY LenProperties
<1> QED
  BY <1>1, <1>2 DEF SplitFrom

\* The empty stream has no record.
LEMMA RecordsOfNone == A!Records(<<>>) = <<>>
<1>1. <<>> \in Seq({}) /\ Len(<<>>) = 0
  BY EmptySeq
<1>2. PICK g : A!Records(<<>>) = g[1] /\ IsSplit(<<>>, g)
  BY <1>1, RecordsSplit
<1>3. g[1] = RecordsAt(<<>>, g, 1)
  BY <1>1, <1>2 DEF IsSplit
<1>4. RecordsAt(<<>>, g, Len(<<>>) + 1) = <<>>
  BY <1>1, NoPiece, Zenon DEF RecordsAt
<1> QED
  BY <1>1, <1>2, <1>3, <1>4
-----------------------------------------------------------------------------
(* Delimiters. *)

\* The operators of AdapterShell on sequences: all but the last, whether the last is x, and the
\* sequence without its delimiter.
FrontOf(s) == A!Front(s)
Ends(s, x) == A!Ends(s, x)
Strip(s) == A!strip_delimiter(s)

\* w is u and v behind it.
Joins(S, u, v, w) ==
    /\ w \in Seq(S) /\ Len(w) = Len(u) + Len(v)
    /\ Len(u) \in Nat /\ Len(v) \in Nat
    /\ \A i \in 1..Len(u) : w[i] = u[i]
    /\ \A i \in 1..Len(v) : w[Len(u) + i] = v[i]

\* w is u and one thing behind it.
Extends(S, u, x, w) ==
    /\ w \in Seq(S) /\ Len(w) = Len(u) + 1 /\ Len(u) \in Nat
    /\ \A i \in 1..Len(u) : w[i] = u[i]
    /\ w[Len(u) + 1] = x

\* A sequence put in front of another is there, and the other behind it.
LEMMA Joined ==
    ASSUME NEW S, NEW u \in Seq(S), NEW v \in Seq(S)
    PROVE  Joins(S, u, v, u \o v)
<1> DEFINE w == u \o v
           m == Len(u)
           n == Len(v)
<1>1. m \in Nat /\ n \in Nat
  BY LenProperties
<1>2. w \in Seq(S) /\ Len(w) = m + n
  BY ConcatProperties
<1>3. \A i \in 1..m + n : w[i] = IF i <= m THEN u[i] ELSE v[i - m]
  BY ConcatProperties
<1> HIDE DEF w, m, n
<1>4. \A i \in 1..m : w[i] = u[i]
  <2>1. \A i \in 1..m : i \in 1..m + n /\ i <= m
    BY <1>1
  <2> QED
    BY <1>3, <2>1
<1>5. \A i \in 1..n : w[m + i] = v[i]
  <2>1. \A i \in 1..n : m + i \in 1..m + n /\ ~(m + i <= m) /\ (m + i) - m = i
    BY <1>1
  <2> QED
    BY <1>3, <2>1
<1> QED
  BY <1>1, <1>2, <1>4, <1>5, Zenon DEF Joins, w, m, n

\* And each can be cut out again.
LEMMA Parted ==
    ASSUME NEW S, NEW u \in Seq(S), NEW v \in Seq(S)
    PROVE  /\ SubSeq(u \o v, 1, Len(u)) = u
           /\ SubSeq(u \o v, Len(u) + 1, Len(u \o v)) = v
<1> DEFINE w == u \o v
           m == Len(u)
           n == Len(v)
<1>1. /\ w \in Seq(S) /\ Len(w) = m + n /\ m \in Nat /\ n \in Nat
      /\ \A i \in 1..m : w[i] = u[i]
      /\ \A i \in 1..n : w[m + i] = v[i]
  <2>1. Joins(S, u, v, w)
    BY Joined
  <2> HIDE DEF w
  <2> QED
    BY <2>1, Zenon DEF Joins
<1> HIDE DEF w
<1>2. \A i \in 1..m + n : w[i] \in S
  <2> HIDE DEF m, n
  <2> QED
    BY <1>1, ElementOfSeq
<1>3. SubSeq(w, 1, m) = u
  <2> DEFINE x == SubSeq(w, 1, m)
  <2>1. \A i \in 1..m : w[i] \in S
    BY <1>1, <1>2
  <2>2. x \in Seq(S) /\ Len(x) = m /\ \A i \in 1..m : x[i] = w[i]
    BY <1>1, <2>1, SubSeqProperties
  <2> HIDE DEF x
  <2>3. \A i \in 1..Len(x) : x[i] = u[i]
    BY <1>1, <2>2
  <2>4. x = u
    BY <2>2, <2>3, SeqEqual
  <2> QED
    BY <2>4 DEF x
<1>4. SubSeq(w, m + 1, m + n) = v
  <2> DEFINE x == SubSeq(w, m + 1, m + n)
  <2>1. \A i \in m + 1..m + n : w[i] \in S
    BY <1>1, <1>2
  <2>2. x \in Seq(S) /\ Len(x) = n
    BY <1>1, <2>1, SubSeqProperties
  <2>3. \A i \in 1..(m + n) - (m + 1) + 1 : x[i] = w[(m + 1) + i - 1]
    BY <1>1, <2>1, SubSeqProperties
  <2> HIDE DEF x
  <2>4. \A i \in 1..Len(x) : x[i] = v[i]
    <3>1. \A i \in 1..n : i \in 1..(m + n) - (m + 1) + 1 /\ (m + 1) + i - 1 = m + i
      BY <1>1
    <3> QED
      BY <1>1, <2>2, <2>3, <3>1
  <2>5. x = v
    BY <2>2, <2>4, SeqEqual
  <2> QED
    BY <2>5 DEF x
<1> QED
  BY <1>1, <1>3, <1>4 DEF w

\* The same, of one thing more.
LEMMA OneBehind ==
    ASSUME NEW S, NEW u \in Seq(S), NEW x \in S
    PROVE  Extends(S, u, x, u \o <<x>>)
<1> DEFINE v == <<x>>
           w == u \o v
<1>1. v \in Seq(S) /\ Len(v) = 1 /\ v[1] = x /\ 1 \in 1..1
  OBVIOUS
<1> HIDE DEF v
<1>2. Joins(S, u, v, w)
  BY <1>1, Joined
<1> HIDE DEF w
<1>3. w[Len(u) + 1] = x
  <2>1. 1 \in 1..Len(v)
    BY <1>1
  <2>2. w[Len(u) + 1] = v[1]
    BY <1>2, <2>1, Zenon DEF Joins
  <2> QED
    BY <1>1, <2>2, Zenon
<1>4. Len(w) = Len(u) + 1
  BY <1>1, <1>2, Zenon DEF Joins
<1>5. Extends(S, u, x, w)
  BY <1>2, <1>3, <1>4, Zenon DEF Joins, Extends
<1> QED
  BY <1>5 DEF v, w

\* The front and the last symbol.
LEMMA FrontIs ==
    ASSUME NEW S, NEW s \in Seq(S), s # <<>>
    PROVE  /\ Len(s) \in Nat \ {0} /\ s[Len(s)] \in S
           /\ FrontOf(s) \in Seq(S) /\ Len(FrontOf(s)) = Len(s) - 1
           /\ \A i \in 1..Len(s) - 1 : FrontOf(s)[i] = s[i]
           /\ FrontOf(s) \o <<s[Len(s)]>> = s
<1>1. Len(s) \in Nat \ {0}
  BY EmptySeq
<1>2. \A i \in 1..Len(s) : s[i] \in S
  BY ElementOfSeq
<1>3. /\ FrontOf(s) \in Seq(S) /\ Len(FrontOf(s)) = Len(s) - 1
      /\ \A i \in 1..Len(s) - 1 : FrontOf(s)[i] = s[i]
  <2>1. \A i \in 1..Len(s) - 1 : s[i] \in S
    BY <1>1, <1>2
  <2>2. /\ SubSeq(s, 1, Len(s) - 1) \in Seq(S)
        /\ Len(SubSeq(s, 1, Len(s) - 1)) = Len(s) - 1
        /\ \A i \in 1..Len(s) - 1 : SubSeq(s, 1, Len(s) - 1)[i] = s[i]
    <3> DEFINE k == Len(s) - 1
               x == SubSeq(s, 1, k)
    <3>1. k \in Nat /\ \A i \in 1..k : s[i] \in S
      BY <1>1, <2>1
    <3> HIDE DEF k
    <3>2. /\ x \in Seq(S) /\ Len(x) = IF 1 <= k THEN k - 1 + 1 ELSE 0
          /\ \A i \in 1..k - 1 + 1 : x[i] = s[1 + i - 1]
      BY <3>1, SubSeqProperties
    <3> HIDE DEF x
    <3>3. x \in Seq(S) /\ Len(x) = k /\ \A i \in 1..k : x[i] = s[i]
      BY <3>1, <3>2
    <3> QED
      BY <3>3 DEF k, x
  <2> QED
    BY <2>2 DEF FrontOf, A!Front
<1>4. FrontOf(s) \o <<s[Len(s)]>> = s
  <2> DEFINE last == s[Len(s)]
             x == FrontOf(s) \o <<last>>
  <2>1. <<last>> \in Seq(S) /\ Len(<<last>>) = 1 /\ <<last>>[1] = last
    BY <1>1, <1>2
  <2>2. /\ x \in Seq(S) /\ Len(x) = Len(s)
        /\ \A i \in 1..Len(s) - 1 : x[i] = s[i]
        /\ x[Len(s)] = last
    <3> HIDE DEF last
    <3> DEFINE f == FrontOf(s)
    <3>0. f \in Seq(S) /\ Len(f) = Len(s) - 1 /\ last \in S
      BY <1>1, <1>2, <1>3 DEF last
    <3> HIDE DEF f
    <3>2. Extends(S, f, last, f \o <<last>>)
      BY <3>0, OneBehind
    <3>3. f \o <<last>> = x
      BY DEF f
    <3> HIDE DEF x
    <3>4. Extends(S, f, last, x)
      BY <3>2, <3>3, Zenon
    <3>1. /\ x \in Seq(S) /\ Len(x) = (Len(s) - 1) + 1
          /\ \A i \in 1..Len(s) - 1 : x[i] = FrontOf(s)[i]
          /\ x[(Len(s) - 1) + 1] = <<last>>[1]
      BY <2>1, <3>0, <3>4, Zenon DEF f, Extends
    <3> HIDE DEF x
    <3> QED
      BY <1>1, <1>3, <2>1, <3>1
  <2> HIDE DEF x
  <2>3. \A i \in 1..Len(x) : x[i] = s[i]
    BY <1>1, <2>2
  <2>4. x = s
    BY <2>2, <2>3, SeqEqual
  <2> QED
    BY <2>4 DEF x
<1> QED
  BY <1>1, <1>2, <1>3, <1>4

\* What a sequence ends with, and what is before that, it has from its second part.
LEMMA FrontOfBoth ==
    ASSUME NEW S, NEW u \in Seq(S), NEW v \in Seq(S), v # <<>>
    PROVE  /\ u \o v # <<>>
           /\ \A x : Ends(u \o v, x) <=> Ends(v, x)
           /\ FrontOf(u \o v) = u \o FrontOf(v)
<1> DEFINE w == u \o v
<1>1. /\ w \in Seq(S) /\ Len(w) = Len(u) + Len(v) /\ Len(u) \in Nat /\ Len(v) \in Nat \ {0}
      /\ \A i \in 1..Len(u) : w[i] = u[i]
      /\ \A i \in 1..Len(v) : w[Len(u) + i] = v[i]
  <2>1. Joins(S, u, v, w)
    BY Joined
  <2>2. Len(v) \in Nat \ {0}
    BY EmptySeq
  <2> HIDE DEF w
  <2> QED
    BY <2>1, <2>2, Zenon DEF Joins
<1> HIDE DEF w
<1>2. w # <<>>
  BY <1>1, EmptySeq
<1>3. w[Len(w)] = v[Len(v)]
  BY <1>1
<1>4. \A x : Ends(w, x) <=> Ends(v, x)
  BY <1>2, <1>3 DEF Ends, A!Ends, A!Last
<1>5. FrontOf(w) = u \o FrontOf(v)
  <2> DEFINE y == u \o FrontOf(v)
  <2>1. /\ FrontOf(v) \in Seq(S) /\ Len(FrontOf(v)) = Len(v) - 1
        /\ \A i \in 1..Len(v) - 1 : FrontOf(v)[i] = v[i]
    BY FrontIs
  <2>2. /\ FrontOf(w) \in Seq(S) /\ Len(FrontOf(w)) = Len(w) - 1
        /\ \A i \in 1..Len(w) - 1 : FrontOf(w)[i] = w[i]
    BY <1>1, <1>2, FrontIs
  <2>3. /\ y \in Seq(S) /\ Len(y) = Len(u) + (Len(v) - 1)
        /\ \A i \in 1..Len(u) : y[i] = u[i]
        /\ \A i \in 1..Len(v) - 1 : y[Len(u) + i] = FrontOf(v)[i]
    <3> DEFINE f == FrontOf(v)
    <3>1. f \in Seq(S) /\ Len(f) = Len(v) - 1
      BY <2>1
    <3> HIDE DEF f
    <3>2. Joins(S, u, f, u \o f)
      BY <3>1, Joined
    <3>3. u \o f = y
      BY DEF f
    <3> HIDE DEF y
    <3>4. Joins(S, u, f, y)
      BY <3>2, <3>3, Zenon
    <3> QED
      BY <3>1, <3>4, Zenon DEF f, Joins
  <2> HIDE DEF y
  <2>4. ASSUME NEW i \in 1..Len(w) - 1 PROVE FrontOf(w)[i] = y[i]
    <3>1. CASE i <= Len(u)
      BY <1>1, <2>2, <2>3, <3>1
    <3>2. CASE ~(i <= Len(u))
      <4>1. /\ i - Len(u) \in 1..Len(v) - 1 /\ i - Len(u) \in 1..Len(v)
            /\ Len(u) + (i - Len(u)) = i
        BY <1>1, <3>2
      <4>2. w[Len(u) + (i - Len(u))] = v[i - Len(u)]
        BY <1>1, <4>1
      <4>3. y[Len(u) + (i - Len(u))] = FrontOf(v)[i - Len(u)]
        BY <2>3, <4>1
      <4>4. FrontOf(v)[i - Len(u)] = v[i - Len(u)] /\ FrontOf(w)[i] = w[i]
        BY <2>1, <2>2, <4>1
      <4> QED
        BY <4>1, <4>2, <4>3, <4>4
    <3> QED
      BY <3>1, <3>2
  <2>5. Len(FrontOf(w)) = Len(y)
    BY <1>1, <2>2, <2>3
  <2>6. \A i \in 1..Len(FrontOf(w)) : FrontOf(w)[i] = y[i]
    BY <2>2, <2>4
  <2>7. FrontOf(w) = y
    BY <2>2, <2>3, <2>5, <2>6, SeqEqual
  <2> QED
    BY <2>7 DEF y
<1> QED
  BY <1>2, <1>4, <1>5 DEF w

\* A delimiter is taken off a sequence as off its second part, if it is all there.
LEMMA StripOfBoth ==
    ASSUME NEW S, NEW u \in Seq(S), NEW v \in Seq(S), v # <<>>, Ends(v, LF),
           FrontOf(v) = <<>> => ~Ends(u, CR)
    PROVE  Strip(u \o v) = u \o Strip(v)
<1>1. Ends(u \o v, LF) /\ FrontOf(u \o v) = u \o FrontOf(v) /\ FrontOf(v) \in Seq(S)
  BY FrontOfBoth, FrontIs
<1>2. CASE FrontOf(v) = <<>>
  <2>1. ~Ends(FrontOf(v), CR)
    BY <1>2 DEF Ends, A!Ends
  <2>2. FrontOf(u \o v) = u /\ Strip(v) = <<>>
    BY <1>1, <1>2, <2>1, ConcatEmptySeq DEF Strip, A!strip_delimiter, Ends, FrontOf
  <2>3. Strip(u \o v) = u
    BY <1>1, <1>2, <2>2 DEF Strip, A!strip_delimiter, Ends, FrontOf
  <2> QED
    BY <2>2, <2>3, ConcatEmptySeq
<1>3. CASE FrontOf(v) # <<>>
  <2>1. /\ Ends(u \o FrontOf(v), CR) <=> Ends(FrontOf(v), CR)
        /\ FrontOf(u \o FrontOf(v)) = u \o FrontOf(FrontOf(v))
    BY <1>1, <1>3, FrontOfBoth
  <2>2. Strip(v) = IF Ends(FrontOf(v), CR) THEN FrontOf(FrontOf(v)) ELSE FrontOf(v)
    BY DEF Strip, A!strip_delimiter, Ends, FrontOf
  <2>3. Strip(u \o v) = IF Ends(u \o FrontOf(v), CR) THEN FrontOf(u \o FrontOf(v))
                        ELSE u \o FrontOf(v)
    BY <1>1 DEF Strip, A!strip_delimiter, Ends, FrontOf
  <2> QED
    BY <2>1, <2>2, <2>3
<1> QED
  BY <1>2, <1>3
-----------------------------------------------------------------------------
(* Requests. *)

\* The assumptions on the constants.
LEMMA ShellKnows ==
    /\ MAX_REQUEST_BYTES \in Nat \ {0}
    /\ CR # LF
    /\ Streams \subseteq Seq(A!Symbols)
    /\ NoCode \notin A!Codes
  BY ServingAssumption DEF A!ShellParameters

\* The checks of a request, one by one.
Tests(r) == A!RequestChecks(r)

\* The checks of a request: what each reports.
LEMMA CodesAre ==
    ASSUME NEW r
    PROVE  /\ Len(Tests(r)) = 14
           /\ Tests(r)[1][1] = "UNKNOWN_FIELD" /\ Tests(r)[2][1] = "SCHEMA_MISMATCH"
           /\ Tests(r)[3][1] = "SCHEMA_MISMATCH" /\ Tests(r)[4][1] = "SCHEMA_MISMATCH"
           /\ Tests(r)[5][1] = "BINDING_MISMATCH" /\ Tests(r)[6][1] = "SCHEMA_MISMATCH"
           /\ Tests(r)[7][1] = "ABSTRACT_STATE_OUT_OF_DOMAIN"
           /\ Tests(r)[8][1] = "ABSTRACT_COMMAND_OUT_OF_DOMAIN"
           /\ Tests(r)[9][1] = "ABSTRACT_COMMAND_OUT_OF_DOMAIN"
           /\ Tests(r)[10][1] = "ABSTRACT_COMMAND_OUT_OF_DOMAIN"
           /\ Tests(r)[11][1] = "SCHEMA_MISMATCH" /\ Tests(r)[12][1] = "UNKNOWN_FIELD"
           /\ Tests(r)[13][1] = "SCHEMA_MISMATCH" /\ Tests(r)[14][1] = "PRE_STATE_HASH_MISMATCH"
<1>1. Len(Tests(r)) = 14
  BY DEF Tests, A!RequestChecks
<1>2. /\ Tests(r)[1][1] = "UNKNOWN_FIELD" /\ Tests(r)[2][1] = "SCHEMA_MISMATCH"
      /\ Tests(r)[3][1] = "SCHEMA_MISMATCH" /\ Tests(r)[4][1] = "SCHEMA_MISMATCH"
      /\ Tests(r)[5][1] = "BINDING_MISMATCH" /\ Tests(r)[6][1] = "SCHEMA_MISMATCH"
      /\ Tests(r)[7][1] = "ABSTRACT_STATE_OUT_OF_DOMAIN"
  BY DEF Tests, A!RequestChecks
<1>3. /\ Tests(r)[8][1] = "ABSTRACT_COMMAND_OUT_OF_DOMAIN"
      /\ Tests(r)[9][1] = "ABSTRACT_COMMAND_OUT_OF_DOMAIN"
      /\ Tests(r)[10][1] = "ABSTRACT_COMMAND_OUT_OF_DOMAIN"
      /\ Tests(r)[11][1] = "SCHEMA_MISMATCH" /\ Tests(r)[12][1] = "UNKNOWN_FIELD"
      /\ Tests(r)[13][1] = "SCHEMA_MISMATCH" /\ Tests(r)[14][1] = "PRE_STATE_HASH_MISMATCH"
  BY DEF Tests, A!RequestChecks
<1> QED
  BY <1>1, <1>2, <1>3, Zenon

\* And what is checked; of the fields, whether there are others or some are missing, is left out.
LEMMA ConditionsAre ==
    ASSUME NEW r
    PROVE  /\ Tests(r)[3][2] = ~r.ids /\ Tests(r)[4][2] = ~r.schema
           /\ Tests(r)[5][2] = ~r.binding
           /\ Tests(r)[6][2] = (r.operation \notin {"step", "validate_state"})
           /\ Tests(r)[7][2] = ~r.state /\ Tests(r)[8][2] = (r.command = "other")
           /\ Tests(r)[9][2] = (r.operation = "step" /\ r.command = "null")
           /\ Tests(r)[10][2] = (r.operation = "validate_state" /\ r.command # "null")
           /\ Tests(r)[11][2] = (r.context = "other") /\ Tests(r)[12][2] = (r.context = "unknown")
           /\ Tests(r)[13][2] = (r.context \in {"missing", "wrong type", "negative"})
           /\ Tests(r)[14][2] = ~r.expected
<1>1. /\ Tests(r)[3][2] = ~r.ids /\ Tests(r)[4][2] = ~r.schema
      /\ Tests(r)[5][2] = ~r.binding
      /\ Tests(r)[6][2] = (r.operation \notin {"step", "validate_state"})
      /\ Tests(r)[7][2] = ~r.state /\ Tests(r)[8][2] = (r.command = "other")
  BY DEF Tests, A!RequestChecks
<1>2. /\ Tests(r)[9][2] = (r.operation = "step" /\ r.command = "null")
      /\ Tests(r)[10][2] = (r.operation = "validate_state" /\ r.command # "null")
      /\ Tests(r)[11][2] = (r.context = "other") /\ Tests(r)[12][2] = (r.context = "unknown")
      /\ Tests(r)[13][2] = (r.context \in {"missing", "wrong type", "negative"})
      /\ Tests(r)[14][2] = ~r.expected
  BY DEF Tests, A!RequestChecks
<1> QED
  BY <1>1, <1>2, Zenon

\* A fault is named by a code, none of them the one of size; and what has no fault passes every
\* check.
LEMMA FaultIs ==
    ASSUME NEW r
    PROVE  /\ A!RequestFault(r) \in (A!Codes \ {"INPUT_TOO_LARGE"}) \cup {NoCode}
           /\ A!RequestFault(r) = NoCode => \A i \in 1..14 : ~A!RequestChecks(r)[i][2]
<1> DEFINE I == {i \in 1..Len(Tests(r)) : Tests(r)[i][2]}
<1>1. Len(Tests(r)) = 14
  BY CodesAre, Zenon
<1>2. \A i \in 1..14 : Tests(r)[i][1] \in A!Codes \ {"INPUT_TOO_LARGE"}
  <2>1. 1..14 = {1, 2, 3, 4, 5, 6, 7, 8, 9, 10, 11, 12, 13, 14}
    OBVIOUS
  <2> DEFINE X == A!Codes \ {"INPUT_TOO_LARGE"}
  <2>2. /\ "UNKNOWN_FIELD" \in X /\ "SCHEMA_MISMATCH" \in X /\ "BINDING_MISMATCH" \in X
        /\ "ABSTRACT_STATE_OUT_OF_DOMAIN" \in X /\ "ABSTRACT_COMMAND_OUT_OF_DOMAIN" \in X
        /\ "PRE_STATE_HASH_MISMATCH" \in X
    BY DEF A!Codes
  <2> HIDE DEF X
  <2>3. /\ Tests(r)[1][1] \in X /\ Tests(r)[2][1] \in X /\ Tests(r)[3][1] \in X
        /\ Tests(r)[4][1] \in X /\ Tests(r)[5][1] \in X
    <3>1. /\ Tests(r)[1][1] = "UNKNOWN_FIELD" /\ Tests(r)[2][1] = "SCHEMA_MISMATCH"
          /\ Tests(r)[3][1] = "SCHEMA_MISMATCH" /\ Tests(r)[4][1] = "SCHEMA_MISMATCH"
          /\ Tests(r)[5][1] = "BINDING_MISMATCH"
      BY CodesAre, Zenon
    <3> QED
      BY <2>2, <3>1, Zenon
  <2>4. /\ Tests(r)[6][1] \in X /\ Tests(r)[7][1] \in X /\ Tests(r)[8][1] \in X
        /\ Tests(r)[9][1] \in X /\ Tests(r)[10][1] \in X
    <3>1. /\ Tests(r)[6][1] = "SCHEMA_MISMATCH"
          /\ Tests(r)[7][1] = "ABSTRACT_STATE_OUT_OF_DOMAIN"
          /\ Tests(r)[8][1] = "ABSTRACT_COMMAND_OUT_OF_DOMAIN"
          /\ Tests(r)[9][1] = "ABSTRACT_COMMAND_OUT_OF_DOMAIN"
          /\ Tests(r)[10][1] = "ABSTRACT_COMMAND_OUT_OF_DOMAIN"
      BY CodesAre, Zenon
    <3> QED
      BY <2>2, <3>1, Zenon
  <2>5. /\ Tests(r)[11][1] \in X /\ Tests(r)[12][1] \in X /\ Tests(r)[13][1] \in X
        /\ Tests(r)[14][1] \in X
    <3>1. /\ Tests(r)[11][1] = "SCHEMA_MISMATCH" /\ Tests(r)[12][1] = "UNKNOWN_FIELD"
          /\ Tests(r)[13][1] = "SCHEMA_MISMATCH"
          /\ Tests(r)[14][1] = "PRE_STATE_HASH_MISMATCH"
      BY CodesAre, Zenon
    <3> QED
      BY <2>2, <3>1, Zenon
  <2>6. \A i \in 1..14 : Tests(r)[i][1] \in X
    BY <2>1, <2>3, <2>4, <2>5, Zenon
  <2> QED
    BY <2>6 DEF X
<1>3. A!RequestFault(r) =
          IF (IF I # {} THEN A!Min(I) ELSE 0) = 0 THEN NoCode
          ELSE Tests(r)[IF I # {} THEN A!Min(I) ELSE 0][1]
  BY DEF Tests, A!RequestFault, A!SelectInSeq
<1>4. CASE I = {}
  <2>1. A!RequestFault(r) = NoCode
    BY <1>3, <1>4
  <2>2. \A i \in 1..14 : ~Tests(r)[i][2]
    BY <1>1, <1>4
  <2> QED
    BY <2>1, <2>2 DEF Tests
<1>5. CASE I # {}
  <2>1. I \subseteq 1..14 /\ I \subseteq Nat
    BY <1>1
  <2> HIDE DEF I
  <2>2. \E i \in I : \A j \in I : i <= j
    BY <1>5, <2>1, Least
  <2>3. A!Min(I) \in I
    BY <2>2 DEF A!Min
  <2>4. A!Min(I) \in 1..14 /\ A!Min(I) # 0
    <3>1. A!Min(I) \in 1..14
      BY <2>1, <2>3, Zenon
    <3> QED
      BY <3>1
  <2>5. A!RequestFault(r) = Tests(r)[A!Min(I)][1]
    BY <1>3, <1>5, <2>4, Zenon
  <2> QED
    BY <1>2, <2>4, <2>5, ShellKnows
<1> QED
  BY <1>4, <1>5

\* What _build_request lets through, AdapterRequest accepts, so only what is nested too deeply raises.
LEMMA NestedRaises ==
    ASSUME NEW payload, A!Raises(payload)
    PROVE  A!TooDeep(payload) /\ Len(payload) <= MAX_REQUEST_BYTES
<1> SUFFICES ASSUME ~A!TooDeep(payload) PROVE FALSE
  BY DEF A!Raises
<1> DEFINE r == payload[1]
<1>1. r \in AdapterRequests /\ A!RequestFault(r) = NoCode /\ ~A!Constructible(r)
  BY DEF A!Raises, A!IsRequest
<1> HIDE DEF r
<1>2. \A i \in 1..14 : ~A!RequestChecks(r)[i][2]
  BY <1>1, FaultIs
<1>3. /\ r.ids /\ r.schema /\ r.binding /\ r.state /\ r.expected
      /\ r.operation \in {"step", "validate_state"}
      /\ r.command # "other"
      /\ ~(r.operation = "step" /\ r.command = "null")
      /\ ~(r.operation = "validate_state" /\ r.command # "null")
      /\ r.context # "other" /\ r.context # "unknown"
      /\ r.context \notin {"missing", "wrong type", "negative"}
  <2>1. /\ ~Tests(r)[3][2] /\ ~Tests(r)[4][2] /\ ~Tests(r)[5][2] /\ ~Tests(r)[6][2]
        /\ ~Tests(r)[7][2]
        /\ ~Tests(r)[8][2] /\ ~Tests(r)[9][2] /\ ~Tests(r)[10][2] /\ ~Tests(r)[11][2]
        /\ ~Tests(r)[12][2] /\ ~Tests(r)[13][2] /\ ~Tests(r)[14][2]
    BY <1>2 DEF Tests
  <2> QED
    BY <2>1, ConditionsAre
<1>4. /\ r.command \in {"null", "object", "other"}
      /\ r.context \in {"exact", "other", "unknown", "missing", "wrong type", "negative"}
  BY <1>1, ServingAssumption DEF A!ShellParameters
<1> QED
  BY <1>1, <1>3, <1>4 DEF A!Constructible

\* The responses: a code or none, and the bytes they are about.
Answers == [code : A!Codes \cup {NoCode}, of : Seq(A!Symbols \cup {CR})]

\* The answer to a record is about its bytes, and says that they are too many only if they are.
LEMMA AnswerIs ==
    ASSUME NEW payload \in Seq(A!Symbols \cup {CR})
    PROVE  /\ A!process_line(payload) \in Answers
           /\ A!process_line(payload).of = payload
           /\ A!process_line(payload).code = "INPUT_TOO_LARGE"
                  <=> Len(payload) > MAX_REQUEST_BYTES
<1>1. "INPUT_TOO_LARGE" \in A!Codes /\ "NON_CANONICAL_JSON" \in A!Codes
  BY DEF A!Codes
<1>2. A!IsRequest(payload) => <<payload[1]>> = payload
  BY DEF A!IsRequest
<1> QED
  BY <1>1, <1>2, FaultIs, ShellKnows DEF A!process_line, A!boundary, A!adapted, Answers
-----------------------------------------------------------------------------
(* The inductive invariant. *)

\* What passes through: the symbols that arrive, and the CR that is kept back.
Alphabet == A!Symbols \cup {CR}

\* What was read of an oversized line before its last piece.
Before == hashed \o (IF pending_cr THEN <<CR>> ELSE <<>>)

\* No symbol is an LF.
NoLF(s) == \A k \in 1..Len(s) : s[k] # LF

\* The types.
ShellTyped ==
    /\ stdin \in Seq(Alphabet) /\ chunk \in Seq(Alphabet) /\ hashed \in Seq(Alphabet)
    /\ pending_cr \in BOOLEAN
    /\ stdout \in Seq(Answers)
    /\ doing \in {"reading", "draining", "done", "raised"}

\* An oversized line is read in pieces that leave nothing out.  Until the end of the stream they
\* are as long as they may be, so an LF comes after as many symbols as a piece has.
Pieces ==
    /\ chunk # <<>>
    /\ NoLF(Before)
    /\ \A k \in 1..Len(chunk) - 1 : chunk[k] # LF
    /\ pending_cr = FALSE => ~Ends(hashed, CR)
    /\ Len(Before) + Len(chunk) > MAX_REQUEST_BYTES
    /\ stdin # <<>> => Len(Before) + Len(chunk) >= MAX_REQUEST_BYTES + 2
    /\ Ends(chunk, LF) => Len(Before) >= MAX_REQUEST_BYTES + 2

\* SizesTold.
Sizes == \A i \in DOMAIN stdout :
             stdout[i].code = "INPUT_TOO_LARGE" <=> Len(stdout[i].of) > MAX_REQUEST_BYTES

\* The invariant.
Serves == ShellTyped /\ (doing = "draining" => Pieces) /\ Sizes

\* The shell begins in the invariant.
LEMMA ServesFirst == A!Init => Serves
<1> SUFFICES ASSUME A!Init PROVE Serves
  OBVIOUS
<1>1. stdin \in Seq(Alphabet)
  <2>1. stdin \in Seq(A!Symbols) /\ A!Symbols \subseteq Alphabet
    BY ShellKnows DEF A!Init, Alphabet
  <2> QED
    BY <2>1, SeqMonotonic
<1>2. /\ chunk = <<>> /\ hashed = <<>> /\ pending_cr = FALSE /\ stdout = <<>>
      /\ doing = "reading"
  BY DEF A!Init
<1>3. ShellTyped
  <2>1. chunk \in Seq(Alphabet) /\ hashed \in Seq(Alphabet) /\ stdout \in Seq(Answers)
    BY <1>2, EmptySeq
  <2> QED
    BY <1>1, <1>2, <2>1 DEF ShellTyped
<1>4. Sizes
  <2>1. DOMAIN stdout = {}
    BY <1>2
  <2> QED
    BY <2>1 DEF Sizes
<1> QED
  BY <1>2, <1>3, <1>4 DEF Serves

\* What an answer is about.
Abouts(s) == [i \in DOMAIN s |-> s[i].of]

\* One more answer is about one more record.
LEMMA OneMore ==
    ASSUME ShellTyped, Sizes, NEW a \in Answers,
           a.code = "INPUT_TOO_LARGE" <=> Len(a.of) > MAX_REQUEST_BYTES,
           stdout' = Append(stdout, a)
    PROVE  /\ stdout' \in Seq(Answers) /\ Sizes'
           /\ Abouts(stdout) \in Seq(Seq(Alphabet)) /\ a.of \in Seq(Alphabet)
           /\ Abouts(stdout') = Abouts(stdout) \o <<a.of>>
<1>1. stdout \in Seq(Answers) /\ Len(stdout) \in Nat /\ DOMAIN stdout = 1..Len(stdout)
  BY LenProperties DEF ShellTyped
<1>2. /\ stdout' \in Seq(Answers) /\ Len(stdout') = Len(stdout) + 1
      /\ DOMAIN stdout' = 1..Len(stdout) + 1
      /\ \A i \in 1..Len(stdout) : stdout'[i] = stdout[i]
      /\ stdout'[Len(stdout) + 1] = a
  BY <1>1, AppendProperties, LenProperties
<1>3. \A i \in 1..Len(stdout) + 1 : i \in 1..Len(stdout) \/ i = Len(stdout) + 1
  BY <1>1
<1>4. Sizes'
  BY <1>1, <1>2, <1>3 DEF Sizes
<1> DEFINE T == Seq(Alphabet)
<1>5. a.of \in T /\ \A i \in 1..Len(stdout) : stdout[i].of \in T
  <2>1. \A e \in Answers : e.of \in T
    BY DEF Answers, Alphabet
  <2>2. \A i \in 1..Len(stdout) : stdout[i] \in Answers
    BY <1>1, ElementOfSeq
  <2> QED
    BY <2>1, <2>2
<1> HIDE DEF T
<1> DEFINE x == Abouts(stdout)
           y == Abouts(stdout')
<1>6. x \in Seq(T) /\ Len(x) = Len(stdout) /\ \A i \in 1..Len(stdout) : x[i] = stdout[i].of
  <2>1. x = [i \in 1..Len(stdout) |-> stdout[i].of]
    BY <1>1 DEF Abouts
  <2>2. x \in [1..Len(stdout) -> T]
    BY <1>5, <2>1
  <2>3. x \in Seq(T)
    BY <1>1, <2>2, SeqDef
  <2>4. Len(x) = Len(stdout)
    BY <1>1, <2>2, <2>3, LenProperties
  <2> QED
    BY <2>1, <2>3, <2>4
<1>7. /\ y \in Seq(T) /\ Len(y) = Len(stdout) + 1
      /\ \A i \in 1..Len(stdout) + 1 : y[i] = stdout'[i].of
  <2>1. y = [i \in 1..Len(stdout) + 1 |-> stdout'[i].of]
    BY <1>2 DEF Abouts
  <2>2. y \in [1..Len(stdout) + 1 -> T]
    BY <1>2, <1>3, <1>5, <2>1
  <2>3. y \in Seq(T)
    BY <1>1, <2>2, SeqDef
  <2>4. Len(y) = Len(stdout) + 1
    BY <1>1, <2>2, <2>3, LenProperties
  <2> QED
    BY <2>1, <2>3, <2>4
<1> HIDE DEF x, y
<1>8. y = x \o <<a.of>>
  <2> DEFINE z == x \o <<a.of>>
             b == a.of
  <2>1. b \in T
    BY <1>5
  <2>2. /\ z \in Seq(T) /\ Len(z) = Len(stdout) + 1
        /\ \A i \in 1..Len(stdout) : z[i] = x[i]
        /\ z[Len(stdout) + 1] = b
    <3> HIDE DEF b
    <3>1. Extends(T, x, b, x \o <<b>>)
      BY <1>6, <2>1, OneBehind
    <3>2. x \o <<b>> = z
      BY DEF b
    <3> HIDE DEF z
    <3>3. Extends(T, x, b, z)
      BY <3>1, <3>2, Zenon
    <3> QED
      BY <1>6, <3>3, Zenon DEF Extends
  <2> HIDE DEF z
  <2>3. \A i \in 1..Len(y) : y[i] = z[i]
    <3> SUFFICES ASSUME NEW i \in 1..Len(stdout) + 1 PROVE y[i] = z[i]
      BY <1>7
    <3>1. CASE i \in 1..Len(stdout)
      <4>1. y[i] = stdout'[i].of /\ z[i] = x[i] /\ x[i] = stdout[i].of
        BY <1>6, <1>7, <2>2, <3>1, Zenon
      <4> QED
        BY <1>2, <3>1, <4>1, Zenon
    <3>2. CASE i = Len(stdout) + 1
      BY <1>2, <1>7, <2>2, <3>2, Zenon
    <3> QED
      BY <1>3, <3>1, <3>2, Zenon
  <2>4. y \in Seq(T) /\ z \in Seq(T) /\ Len(y) = Len(z)
    BY <1>7, <2>2, Zenon
  <2>5. y = z
    BY <2>3, <2>4, SeqEqual
  <2> QED
    BY <2>5 DEF z
<1> QED
  BY <1>2, <1>4, <1>5, <1>6, <1>8 DEF x, y, T
-----------------------------------------------------------------------------
(* The steps. *)

\* A piece of a stream, and the rest of it.
LEMMA PieceTaken ==
    ASSUME NEW S, NEW s \in Seq(S), s # <<>>, NEW limit \in Nat \ {0}
    PROVE  LET line == A!readline(s, limit)
               rest == A!Rest(s, line)
               n == Len(line)
           IN  /\ line \in Seq(S) /\ line # <<>> /\ rest \in Seq(S)
               /\ n \in 1..Len(s) /\ n <= limit
               /\ line = SubSeq(s, 1, n) /\ rest = SubSeq(s, n + 1, Len(s))
               /\ \A k \in 1..n - 1 : line[k] # LF /\ s[k] # LF
               /\ line[n] = s[n]
               /\ Ends(line, LF) <=> s[n] = LF
               /\ s[n] = LF \/ rest = <<>> \/ n = limit
               /\ s[n] = LF \/ n = Len(s) \/ n = limit
               /\ line \o rest = s
<1> DEFINE line == A!readline(s, limit)
           rest == A!Rest(s, line)
<1>1. PICK n \in 1..Len(s) :
          /\ line = SubSeq(s, 1, n)
          /\ n <= limit
          /\ \A k \in 1..n - 1 : s[k] # LF
          /\ s[n] = LF \/ n = Len(s) \/ n = limit
  BY LineRead
<1>2. Len(s) \in Nat \ {0} /\ \A k \in 1..Len(s) : s[k] \in S
  BY EmptySeq, ElementOfSeq
<1> HIDE DEF line
<1>3. line \in Seq(S) /\ Len(line) = n /\ \A k \in 1..n : line[k] = s[k]
  <2>1. \A k \in 1..n : s[k] \in S
    BY <1>1, <1>2
  <2>2. /\ SubSeq(s, 1, n) \in Seq(S)
        /\ Len(SubSeq(s, 1, n)) = IF 1 <= n THEN n - 1 + 1 ELSE 0
        /\ \A k \in 1..n - 1 + 1 : SubSeq(s, 1, n)[k] = s[1 + k - 1]
    BY <1>1, <2>1, SubSeqProperties
  <2>3. n \in Nat /\ 1 <= n /\ n - 1 + 1 = n /\ \A k \in 1..n : 1 + k - 1 = k
    BY <1>1
  <2> QED
    BY <1>1, <2>2, <2>3
<1>4. rest = SubSeq(s, n + 1, Len(s)) /\ rest \in Seq(S)
  <2>1. \A k \in n + 1..Len(s) : s[k] \in S
    BY <1>1, <1>2
  <2>2. SubSeq(s, n + 1, Len(s)) \in Seq(S)
    BY <1>1, <1>2, <2>1, SubSeqProperties
  <2> QED
    BY <1>3, <2>2 DEF A!Rest
<1> HIDE DEF rest
<1>5. n = Len(s) => rest = <<>>
  BY <1>2, <1>4, SubSeqEmpty
<1>6. line \o rest = s
  <2>1. 1 \in 1..Len(s) + 1 /\ n \in 1 - 1..Len(s) /\ Len(s) \in n..Len(s)
    BY <1>1, <1>2
  <2>2. SubSeq(s, 1, n) \o SubSeq(s, n + 1, Len(s)) = SubSeq(s, 1, Len(s))
    BY <2>1, ConcatAdjacentSubSeq
  <2> QED
    BY <1>1, <1>4, <2>2, SubSeqFull
<1>7. line # <<>> /\ line[n] = s[n]
  BY <1>1, <1>2, <1>3, EmptySeq
<1>8. Ends(line, LF) <=> s[n] = LF
  BY <1>3, <1>7 DEF Ends, A!Ends, A!Last
<1>9. \A k \in 1..n - 1 : line[k] # LF /\ s[k] # LF
  <2>1. \A k \in 1..n - 1 : k \in 1..n
    BY <1>1
  <2> QED
    BY <1>1, <1>3, <2>1
<1> QED
  BY <1>1, <1>3, <1>4, <1>5, <1>6, <1>7, <1>8, <1>9 DEF line, rest

\* AnswersKept: the answers, and the records still to be answered behind them.
Kept == (A!Answered \o A!Unanswered)' = A!Answered \o A!Unanswered

\* An answer more and a record less.
LEMMA OneLess ==
    ASSUME ShellTyped, Sizes, NEW a \in Answers,
           a.code = "INPUT_TOO_LARGE" <=> Len(a.of) > MAX_REQUEST_BYTES,
           stdout' = Append(stdout, a),
           A!Unanswered = <<a.of>> \o A!Unanswered',
           A!Unanswered' \in Seq(Seq(Alphabet))
    PROVE  Kept /\ stdout' \in Seq(Answers) /\ Sizes'
<1> DEFINE T == Seq(Alphabet)
           x == Abouts(stdout)
           y == A!Unanswered'
           b == a.of
<1>1. /\ stdout' \in Seq(Answers) /\ Sizes' /\ x \in Seq(T) /\ b \in T
      /\ Abouts(stdout') = x \o <<b>> /\ y \in Seq(T)
  BY OneMore
<1>2. A!Answered = x /\ A!Answered' = Abouts(stdout')
  BY DEF A!Answered, Abouts
<1>3. A!Unanswered = <<b>> \o y
  OBVIOUS
<1> HIDE DEF T, x, y, b
<1>4. <<b>> \in Seq(T)
  BY <1>1
<1>5. (x \o <<b>>) \o y = x \o (<<b>> \o y)
  BY <1>1, <1>4, ConcatAssociative
<1> QED
  BY <1>1, <1>2, <1>3, <1>5 DEF Kept, y

\* The end of the input changes neither.
LEMMA EndStep == Serves /\ A!EndOfInput => Serves' /\ Kept
<1> SUFFICES ASSUME Serves, A!EndOfInput PROVE Serves' /\ Kept
  OBVIOUS
<1>1. /\ stdin' = stdin /\ stdout' = stdout /\ chunk' = chunk /\ hashed' = hashed
      /\ pending_cr' = pending_cr /\ doing = "reading" /\ doing' = "done"
  BY DEF A!EndOfInput
<1>2. Serves'
  BY <1>1 DEF Serves, ShellTyped, Sizes
<1>3. Kept
  BY <1>1 DEF Kept, A!Answered, A!Unanswered
<1> QED
  BY <1>2, <1>3

\* A line that is not too large is one record, whole.  It is answered, or the shell stops at it.
LEMMA LineStep ==
    Serves /\ A!ReadLine => Serves' /\ A!StopsAtNested /\ (doing' # "raised" => Kept)
<1> SUFFICES ASSUME Serves, A!ReadLine
             PROVE  Serves' /\ A!StopsAtNested /\ (doing' # "raised" => Kept)
  OBVIOUS
<1> DEFINE line == A!readline(stdin, A!Limit)
           payload == A!strip_delimiter(line)
           a == A!process_line(payload)
           n == Len(line)
<1>1. /\ doing = "reading" /\ stdin # <<>> /\ ~A!Oversized(line)
      /\ stdin' = A!Rest(stdin, line)
      /\ \/ A!Raises(payload) /\ stdout' = stdout /\ doing' = "raised"
         \/ stdout' = Append(stdout, a) /\ doing' = doing
      /\ chunk' = chunk /\ hashed' = hashed /\ pending_cr' = pending_cr
  BY DEF A!ReadLine
<1>2. stdin \in Seq(Alphabet) /\ A!Limit \in Nat \ {0} /\ A!Limit = MAX_REQUEST_BYTES + 2
  BY ShellKnows DEF Serves, ShellTyped, A!Limit
<1>3. /\ n \in 1..Len(stdin) /\ n <= A!Limit
      /\ line \in Seq(Alphabet)
      /\ line = SubSeq(stdin, 1, n) /\ stdin' = SubSeq(stdin, n + 1, Len(stdin))
      /\ stdin' \in Seq(Alphabet)
      /\ \A k \in 1..n - 1 : stdin[k] # LF
      /\ Ends(line, LF) <=> stdin[n] = LF
      /\ stdin[n] = LF \/ n = Len(stdin) \/ n = A!Limit
  BY <1>1, <1>2, PieceTaken
<1> HIDE DEF line
<1>4. EndsAt(stdin, 1, n)
  <2>1. Len(stdin) \in Nat
    BY <1>2, LenProperties
  <2>2. ~(n > MAX_REQUEST_BYTES /\ ~Ends(line, LF))
    BY <1>1 DEF A!Oversized, Ends
  <2> HIDE DEF payload, a, n
  <2>3. MAX_REQUEST_BYTES \in Nat
    BY ShellKnows
  <2>4. n \in 1..Len(stdin) /\ (n <= MAX_REQUEST_BYTES \/ stdin[n] = LF)
    BY <1>3, <2>1, <2>2, <2>3
  <2>5. stdin[n] = LF \/ n = Len(stdin)
    BY <1>2, <1>3, <2>1, <2>3, <2>4
  <2> QED
    BY <1>3, <2>5 DEF EndsAt
<1>5. /\ payload \in Seq(Alphabet)
      /\ A!Records(stdin) = <<payload>> \o A!Records(stdin')
  BY <1>2, <1>3, <1>4, RecordsFirst
<1>9. A!Records(stdin') \in Seq(Seq(Alphabet))
  BY <1>3, RecordsTyped
<1> HIDE DEF payload
<1>6. /\ a \in Answers /\ a.of = payload
      /\ a.code = "INPUT_TOO_LARGE" <=> Len(a.of) > MAX_REQUEST_BYTES
  BY <1>5, AnswerIs DEF Alphabet
<1> HIDE DEF a
<1>7. A!Unanswered = A!Records(stdin) /\ A!Unanswered' = A!Records(stdin')
  BY <1>1 DEF A!Unanswered
<1>8. CASE A!Raises(payload) /\ stdout' = stdout /\ doing' = "raised"
  <2>1. A!TooDeep(payload) /\ Len(payload) <= MAX_REQUEST_BYTES
    BY <1>8, NestedRaises
  <2>2. A!Unanswered # <<>> /\ Head(A!Unanswered) = payload
    BY <1>5, <1>7, <1>9
  <2>3. A!StopsAtNested
    BY <1>8, <2>1, <2>2 DEF A!StopsAtNested
  <2> QED
    BY <1>1, <1>3, <1>8, <2>3 DEF Serves, ShellTyped, Sizes
<1>10. CASE stdout' = Append(stdout, a) /\ doing' = doing
  <2>1. A!Unanswered = <<a.of>> \o A!Unanswered' /\ A!Unanswered' \in Seq(Seq(Alphabet))
    BY <1>5, <1>6, <1>7, <1>9
  <2>2. Kept /\ stdout' \in Seq(Answers) /\ Sizes'
    BY <1>6, <1>10, <2>1, OneLess DEF Serves
  <2> QED
    BY <1>1, <1>3, <1>10, <2>2 DEF Serves, ShellTyped, A!StopsAtNested
<1> QED
  BY <1>1, <1>8, <1>10

\* The first piece of an oversized line is read, and nothing is answered.
LEMMA OversizedStep == Serves /\ A!ReadOversized => Serves' /\ Kept
<1> SUFFICES ASSUME Serves, A!ReadOversized PROVE Serves' /\ Kept
  OBVIOUS
<1> DEFINE line == A!readline(stdin, A!Limit)
           n == Len(line)
<1>1. /\ doing = "reading" /\ A!Oversized(line)
      /\ stdin' = A!Rest(stdin, line) /\ chunk' = line
      /\ hashed' = <<>> /\ pending_cr' = FALSE
      /\ doing' = "draining" /\ stdout' = stdout
  BY DEF A!ReadOversized
<1>2. stdin \in Seq(Alphabet) /\ A!Limit \in Nat \ {0} /\ A!Limit = MAX_REQUEST_BYTES + 2
  BY ShellKnows DEF Serves, ShellTyped, A!Limit
<1>3. stdin # <<>>
  <2> SUFFICES ASSUME stdin = <<>> PROVE FALSE
    OBVIOUS
  <2>1. line = <<>>
    BY <1>2, NothingRead
  <2>2. Len(<<>>) = 0
    OBVIOUS
  <2> HIDE DEF line
  <2> QED
    BY <1>1, <2>1, <2>2, ShellKnows DEF A!Oversized
<1>4. /\ n \in 1..Len(stdin)
      /\ line \in Seq(Alphabet) /\ line # <<>>
      /\ stdin' \in Seq(Alphabet)
      /\ \A k \in 1..n - 1 : line[k] # LF
      /\ Ends(line, LF) <=> stdin[n] = LF
      /\ stdin[n] = LF \/ stdin' = <<>> \/ n = A!Limit
      /\ line \o stdin' = stdin
  BY <1>1, <1>2, <1>3, PieceTaken
<1> HIDE DEF line
<1>5. n > MAX_REQUEST_BYTES /\ ~Ends(line, LF)
  BY <1>1 DEF A!Oversized, Ends
<1>6. ShellTyped'
  BY <1>1, <1>4, EmptySeq DEF Serves, ShellTyped
<1>7. Before' = <<>> /\ Len(<<>>) = 0
  <2>1. <<>> \o <<>> = <<>>
    OBVIOUS
  <2> QED
    BY <1>1, <2>1 DEF Before
<1>8. Pieces'
  <2>1. NoLF(<<>>)
    BY <1>7 DEF NoLF
  <2>2. ~Ends(<<>>, CR)
    BY DEF Ends, A!Ends
  <2>3. 0 + n > MAX_REQUEST_BYTES /\ (stdin' # <<>> => 0 + n >= MAX_REQUEST_BYTES + 2)
    BY <1>2, <1>4, <1>5, ShellKnows
  <2> QED
    BY <1>1, <1>4, <1>5, <1>7, <2>1, <2>2, <2>3 DEF Pieces
<1>9. Sizes'
  BY <1>1 DEF Serves, Sizes
<1>10. Kept
  <2>1. A!Unanswered = A!Records(stdin)
    BY <1>1 DEF A!Unanswered
  <2>2. A!Unanswered' = A!Records(((<<>> \o <<>>) \o line) \o stdin')
    BY <1>1 DEF A!Unanswered
  <2>3. (<<>> \o <<>>) \o line = line
    <3>1. <<>> \o <<>> = <<>>
      OBVIOUS
    <3> QED
      BY <1>4, <3>1, ConcatEmptySeq
  <2> QED
    BY <1>1, <1>4, <2>1, <2>2, <2>3 DEF Kept, A!Answered
<1> QED
  BY <1>6, <1>8, <1>9, <1>10 DEF Serves
\* A piece of an oversized line goes into the digest, with the CR that was kept back; of its end,
\* the delimiter does not.
LEMMA TurnIs ==
    ASSUME ShellTyped, Pieces
    PROVE  LET turn == A!DigestOf(chunk, hashed, pending_cr)
               u == Before \o chunk
           IN  /\ turn.ended <=> Ends(chunk, LF)
               /\ turn.digest \in Seq(Alphabet) /\ turn.cr \in BOOLEAN
               /\ turn.ended => turn.digest = Strip(u) /\ Len(turn.digest) > MAX_REQUEST_BYTES
               /\ ~turn.ended =>
                      /\ turn.digest \o (IF turn.cr THEN <<CR>> ELSE <<>>) = u
                      /\ turn.cr = FALSE => ~Ends(turn.digest, CR)
<1> DEFINE turn == A!DigestOf(chunk, hashed, pending_cr)
           u == Before \o chunk
           n == Len(chunk)
           b == Before
<1>1. /\ chunk \in Seq(Alphabet) /\ chunk # <<>> /\ hashed \in Seq(Alphabet)
      /\ pending_cr \in BOOLEAN
  BY DEF ShellTyped, Pieces
<1>2. n \in Nat \ {0}
  BY <1>1, EmptySeq
<1>3. CR # LF /\ MAX_REQUEST_BYTES \in Nat /\ CR \in Alphabet
  BY ShellKnows DEF Alphabet
<1>4. /\ b \in Seq(Alphabet) /\ Len(b) \in Nat
      /\ pending_cr => b = hashed \o <<CR>> /\ Len(b) = Len(hashed) + 1
      /\ ~pending_cr => b = hashed
      /\ Len(hashed) \in Nat
  <2>1. <<CR>> \in Seq(Alphabet) /\ Len(<<CR>>) = 1
    BY <1>3
  <2>2. /\ hashed \o <<CR>> \in Seq(Alphabet) /\ Len(hashed \o <<CR>>) = Len(hashed) + 1
        /\ Len(hashed) \in Nat
    <3>1. Extends(Alphabet, hashed, CR, hashed \o <<CR>>)
      BY <1>1, <1>3, OneBehind
    <3> QED
      BY <3>1, Zenon DEF Extends
  <2>3. hashed \o <<>> = hashed
    BY <1>1, ConcatEmptySeq
  <2>4. Len(hashed) + 1 \in Nat
    BY <2>2
  <2>5. CASE pending_cr
    BY <2>2, <2>4, <2>5 DEF Before
  <2>6. CASE ~pending_cr
    BY <1>1, <2>2, <2>3, <2>6 DEF Before
  <2> QED
    BY <2>5, <2>6
<1>5. /\ \A k \in 1..n - 1 : chunk[k] # LF
      /\ pending_cr = FALSE => ~Ends(hashed, CR)
      /\ Ends(chunk, LF) => Len(b) >= MAX_REQUEST_BYTES + 2
  BY DEF Pieces
<1>6. /\ \A x : Ends(chunk, x) <=> chunk[n] = x
      /\ A!Head(chunk) = chunk[1]
  BY <1>1 DEF Ends, A!Ends, A!Last
<1> HIDE DEF b
<1>7. CASE pending_cr /\ chunk[1] = LF
  <2>1. turn = [digest |-> hashed, cr |-> FALSE, ended |-> TRUE]
    BY <1>6, <1>7 DEF A!DigestOf
  <2>2. n = 1
    <3>1. ~(1 \in 1..n - 1)
      BY <1>5, <1>7
    <3> HIDE DEF n
    <3> QED
      BY <1>2, <3>1
  <2>3. Ends(chunk, LF)
    BY <1>6, <1>7, <2>2
  <2>4. FrontOf(chunk) = <<>>
    <3>1. FrontOf(chunk) \in Seq(Alphabet) /\ Len(FrontOf(chunk)) = n - 1
      BY <1>1, FrontIs
    <3>2. n - 1 = 0
      BY <2>2
    <3> QED
      BY <3>1, <3>2, EmptySeq
  <2>5. Ends(u, LF) /\ FrontOf(u) = b
    <3>1. \A x : Ends(b \o chunk, x) <=> Ends(chunk, x)
      BY <1>1, <1>4, FrontOfBoth
    <3>2. FrontOf(b \o chunk) = b \o <<>>
      <4>1. FrontOf(b \o chunk) = b \o FrontOf(chunk)
        BY <1>1, <1>4, FrontOfBoth
      <4> QED
        BY <2>4, <4>1
    <3>3. b \o <<>> = b
      BY <1>4, ConcatEmptySeq
    <3> QED
      BY <2>3, <3>1, <3>2, <3>3 DEF b
  <2>6. Ends(b, CR) /\ FrontOf(b) = hashed
    <3> DEFINE c == <<CR>>
    <3>1. c \in Seq(Alphabet) /\ c # <<>> /\ Len(c) = 1 /\ c[1] = CR
      BY <1>3
    <3>2. Ends(c, CR)
      BY <3>1 DEF Ends, A!Ends, A!Last
    <3>4. b = hashed \o c
      BY <1>4, <1>7
    <3> HIDE DEF c
    <3>3. FrontOf(c) \in Seq(Alphabet) /\ Len(FrontOf(c)) = 0
      <4>1. FrontOf(c) \in Seq(Alphabet) /\ Len(FrontOf(c)) = Len(c) - 1
        BY <3>1, FrontIs
      <4> QED
        BY <3>1, <4>1
    <3>5. Ends(hashed \o c, CR) /\ FrontOf(hashed \o c) = hashed \o FrontOf(c)
      BY <1>1, <3>1, <3>2, FrontOfBoth
    <3>6. FrontOf(c) = <<>> /\ hashed \o <<>> = hashed
      BY <1>1, <3>3, EmptySeq, ConcatEmptySeq
    <3> QED
      BY <3>4, <3>5, <3>6
  <2> HIDE DEF u
  <2>7. Strip(u) = hashed
    BY <2>5, <2>6 DEF Strip, A!strip_delimiter, Ends, FrontOf
  <2>8. Len(hashed) > MAX_REQUEST_BYTES
    BY <1>3, <1>4, <1>5, <1>7, <2>3
  <2> QED
    BY <1>1, <2>1, <2>3, <2>7, <2>8 DEF u
<1>8. CASE ~(pending_cr /\ chunk[1] = LF)
  <2>1. turn = IF Ends(chunk, LF)
               THEN [digest |-> b \o Strip(chunk), cr |-> FALSE, ended |-> TRUE]
               ELSE IF Ends(chunk, CR)
               THEN [digest |-> b \o FrontOf(chunk), cr |-> TRUE, ended |-> FALSE]
               ELSE [digest |-> b \o chunk, cr |-> FALSE, ended |-> FALSE]
    <3>1. (IF pending_cr THEN Append(hashed, CR) ELSE hashed) = b
      <4>1. Append(hashed, CR) = hashed \o <<CR>>
        BY <1>1, <1>3, AppendIsConcat
      <4> QED
        BY <1>4, <4>1
    <3> QED
      BY <1>6, <1>8, <3>1 DEF A!DigestOf, Ends, FrontOf, Strip
  <2>2. CASE Ends(chunk, LF)
    <3>1. FrontOf(chunk) = <<>> => ~Ends(b, CR)
      <4> SUFFICES ASSUME FrontOf(chunk) = <<>> PROVE ~Ends(b, CR)
        OBVIOUS
      <4>1. Len(FrontOf(chunk)) = n - 1 /\ Len(<<>>) = 0
        BY <1>1, FrontIs
      <4>2. n = 1
        BY <1>2, <4>1
      <4>3. ~pending_cr
        BY <1>6, <1>8, <2>2, <4>2
      <4> QED
        BY <1>1, <1>4, <1>5, <4>3
    <3>2. Strip(u) = b \o Strip(chunk)
      <4>1. Strip(b \o chunk) = b \o Strip(chunk)
        BY <1>1, <1>4, <2>2, <3>1, StripOfBoth
      <4> QED
        BY <4>1 DEF b
    <3> DEFINE p == Strip(chunk)
    <3>3. p \in Seq(Alphabet)
      BY <1>1, StripTyped DEF Strip
    <3>4. turn = [digest |-> b \o p, cr |-> FALSE, ended |-> TRUE]
      BY <2>1, <2>2
    <3> HIDE DEF p, u, turn
    <3>5. b \o p \in Seq(Alphabet) /\ Len(b \o p) = Len(b) + Len(p) /\ Len(p) \in Nat
      <4>1. Joins(Alphabet, b, p, b \o p)
        BY <1>4, <3>3, Joined
      <4> QED
        BY <4>1, Zenon DEF Joins
    <3>6. Len(b \o p) > MAX_REQUEST_BYTES
      BY <1>3, <1>4, <1>5, <2>2, <3>5
    <3>7. Strip(u) = b \o p
      BY <3>2 DEF p
    <3> QED
      BY <2>2, <3>4, <3>5, <3>6, <3>7 DEF u, turn
  <2>3. CASE ~Ends(chunk, LF) /\ Ends(chunk, CR)
    <3> DEFINE f == FrontOf(chunk)
    <3>1. f \in Seq(Alphabet) /\ f \o <<CR>> = chunk
      BY <1>1, <1>6, <2>3, FrontIs
    <3>2. turn = [digest |-> b \o f, cr |-> TRUE, ended |-> FALSE]
      BY <2>1, <2>3
    <3>3. b \o f \in Seq(Alphabet) /\ (b \o f) \o <<CR>> = b \o chunk
      <4> HIDE DEF f
      <4>1. <<CR>> \in Seq(Alphabet)
        BY <1>3
      <4>2. (b \o f) \o <<CR>> = b \o (f \o <<CR>>)
        BY <1>4, <3>1, <4>1, ConcatAssociative
      <4>3. b \o f \in Seq(Alphabet)
        BY <1>4, <3>1, ConcatProperties
      <4> QED
        BY <3>1, <4>2, <4>3, Zenon
    <3>4. u = b \o chunk
      BY DEF b
    <3> HIDE DEF f, u, turn
    <3> QED
      BY <2>3, <3>2, <3>3, <3>4 DEF u, turn
  <2>4. CASE ~Ends(chunk, LF) /\ ~Ends(chunk, CR)
    <3>1. turn = [digest |-> b \o chunk, cr |-> FALSE, ended |-> FALSE]
      BY <2>1, <2>4
    <3>2. b \o chunk \in Seq(Alphabet) /\ (b \o chunk) \o <<>> = b \o chunk
      <4>1. b \o chunk \in Seq(Alphabet)
        BY <1>1, <1>4, ConcatProperties
      <4> QED
        BY <4>1, ConcatEmptySeq
    <3>3. ~Ends(b \o chunk, CR)
      BY <1>1, <1>4, <2>4, FrontOfBoth
    <3>4. u = b \o chunk
      BY DEF b
    <3> HIDE DEF u, turn
    <3> QED
      BY <2>4, <3>1, <3>2, <3>3, <3>4 DEF u, turn
  <2> QED
    BY <2>2, <2>3, <2>4
<1> QED
  BY <1>1, <1>7, <1>8

\* The refusal of a line that is too large.
LEMMA RefusalIs ==
    ASSUME NEW bytes \in Seq(Alphabet), Len(bytes) > MAX_REQUEST_BYTES
    PROVE  LET a == A!boundary("INPUT_TOO_LARGE", bytes)
           IN  /\ a \in Answers /\ a.of = bytes
               /\ a.code = "INPUT_TOO_LARGE" <=> Len(a.of) > MAX_REQUEST_BYTES
<1>1. "INPUT_TOO_LARGE" \in A!Codes
  BY DEF A!Codes
<1> QED
  BY <1>1 DEF A!boundary, Answers, Alphabet

\* A turn of the drain.
LEMMA DrainStep == Serves /\ A!Drain => Serves' /\ Kept
<1> SUFFICES ASSUME Serves, A!Drain PROVE Serves' /\ Kept
  OBVIOUS
<1> DEFINE turn == A!DigestOf(chunk, hashed, pending_cr)
           next == A!readline(stdin, A!Limit)
           u == Before \o chunk
<1>1. ShellTyped /\ Pieces /\ Sizes /\ doing = "draining"
  BY DEF Serves, A!Drain
<1>2. /\ turn.ended <=> Ends(chunk, LF)
      /\ turn.digest \in Seq(Alphabet) /\ turn.cr \in BOOLEAN
      /\ turn.ended => turn.digest = Strip(u) /\ Len(turn.digest) > MAX_REQUEST_BYTES
      /\ ~turn.ended => /\ turn.digest \o (IF turn.cr THEN <<CR>> ELSE <<>>) = u
                        /\ turn.cr = FALSE => ~Ends(turn.digest, CR)
  BY <1>1, TurnIs
<1>3. /\ stdin \in Seq(Alphabet) /\ chunk \in Seq(Alphabet) /\ chunk # <<>>
      /\ Before \in Seq(Alphabet)
      /\ A!Limit \in Nat \ {0} /\ A!Limit = MAX_REQUEST_BYTES + 2
      /\ MAX_REQUEST_BYTES \in Nat
  <2>1. <<CR>> \in Seq(Alphabet) /\ <<>> \in Seq(Alphabet)
    BY DEF Alphabet
  <2>2. hashed \o <<CR>> \in Seq(Alphabet) /\ hashed \o <<>> \in Seq(Alphabet)
    BY <1>1, <2>1, ConcatProperties DEF ShellTyped
  <2>3. Before \in Seq(Alphabet)
    BY <2>2 DEF Before
  <2> QED
    BY <1>1, <2>3, ShellKnows DEF ShellTyped, Pieces, A!Limit
<1>4. A!Unanswered = A!Records(u \o stdin)
  BY <1>1 DEF A!Unanswered, Before
<1>5. /\ u \in Seq(Alphabet) /\ Len(u) = Len(Before) + Len(chunk)
      /\ Len(Before) \in Nat /\ Len(chunk) \in Nat \ {0} /\ u # <<>>
      /\ \A k \in 1..Len(u) - 1 : u[k] # LF
      /\ Ends(chunk, LF) <=> u[Len(u)] = LF
  <2> DEFINE b == Before
  <2>1. /\ b \in Seq(Alphabet) /\ \A k \in 1..Len(b) : b[k] # LF
        /\ \A k \in 1..Len(chunk) - 1 : chunk[k] # LF
    BY <1>1, <1>3 DEF Pieces, NoLF
  <2>2. Ends(chunk, LF) <=> chunk[Len(chunk)] = LF
    BY <1>3 DEF Ends, A!Ends, A!Last
  <2> DEFINE w == b \o chunk
  <2> HIDE DEF b
  <2>3. /\ w \in Seq(Alphabet) /\ Len(w) = Len(b) + Len(chunk)
        /\ Len(b) \in Nat /\ Len(chunk) \in Nat \ {0}
        /\ \A i \in 1..Len(b) : w[i] = b[i]
        /\ \A i \in 1..Len(chunk) : w[Len(b) + i] = chunk[i]
    <3>1. Joins(Alphabet, b, chunk, w)
      BY <1>3, <2>1, Joined
    <3>2. Len(chunk) \in Nat \ {0}
      BY <1>3, EmptySeq
    <3> HIDE DEF w
    <3> QED
      BY <3>1, <3>2, Zenon DEF Joins
  <2> HIDE DEF w
  <2>4. \A k \in 1..Len(w) - 1 : w[k] # LF
    <3> TAKE k \in 1..Len(w) - 1
    <3>1. CASE k <= Len(b)
      BY <2>1, <2>3, <3>1
    <3>2. CASE ~(k <= Len(b))
      <4>1. /\ k - Len(b) \in 1..Len(chunk) - 1 /\ k - Len(b) \in 1..Len(chunk)
            /\ Len(b) + (k - Len(b)) = k
        BY <2>3, <3>2
      <4>2. w[Len(b) + (k - Len(b))] = chunk[k - Len(b)]
        BY <2>3, <4>1
      <4> QED
        BY <2>1, <4>1, <4>2
    <3> QED
      BY <3>1, <3>2
  <2>5. w[Len(w)] = chunk[Len(chunk)]
    BY <2>3
  <2>6. w # <<>>
    BY <2>3, EmptySeq
  <2>7. u = w
    BY DEF b, w
  <2> HIDE DEF u
  <2> QED
    BY <2>2, <2>3, <2>4, <2>5, <2>6, <2>7 DEF b
<1> HIDE DEF turn, next
<1>6. ASSUME NEW digest \in Seq(Alphabet), Len(digest) > MAX_REQUEST_BYTES,
             digest = Strip(u), EndsAt(u \o stdin, 1, Len(u)),
             A!Refuse(digest), stdin' = stdin
      PROVE  Serves' /\ Kept
  <2> DEFINE a == A!boundary("INPUT_TOO_LARGE", digest)
             t == u \o stdin
  <2>1. /\ stdout' = Append(stdout, a) /\ doing' = "reading"
        /\ chunk' = <<>> /\ hashed' = <<>> /\ pending_cr' = FALSE
    BY <1>6 DEF A!Refuse
  <2>2. /\ a \in Answers /\ a.of = digest
        /\ a.code = "INPUT_TOO_LARGE" <=> Len(a.of) > MAX_REQUEST_BYTES
    BY <1>6, RefusalIs
  <2> HIDE DEF a
  <2>3. /\ t \in Seq(Alphabet) /\ SubSeq(t, 1, Len(u)) = u
        /\ SubSeq(t, Len(u) + 1, Len(t)) = stdin
    <3>1. u \in Seq(Alphabet) /\ stdin \in Seq(Alphabet)
      BY <1>3, <1>5
    <3> HIDE DEF u
    <3>2. t \in Seq(Alphabet)
      BY <3>1, ConcatProperties
    <3> QED
      BY <3>1, <3>2, Parted, Zenon
  <2>4. A!Records(t) = <<digest>> \o A!Records(stdin)
    <3>1. /\ A!strip_delimiter(SubSeq(t, 1, Len(u))) = digest
          /\ SubSeq(t, Len(u) + 1, Len(t)) = stdin
      BY <1>6, <2>3 DEF Strip
    <3>2. EndsAt(t, 1, Len(u))
      BY <1>6
    <3> HIDE DEF t, u
    <3>3. A!Records(t) = <<A!strip_delimiter(SubSeq(t, 1, Len(u)))>>
                            \o A!Records(SubSeq(t, Len(u) + 1, Len(t)))
      BY <2>3, <3>2, RecordsFirst
    <3> QED
      BY <3>1, <3>3
  <2>5. A!Unanswered' = A!Records(stdin)
    BY <1>6, <2>1 DEF A!Unanswered
  <2>6. A!Unanswered' \in Seq(Seq(Alphabet))
    BY <1>3, <2>5, RecordsTyped
  <2>7. A!Unanswered = <<a.of>> \o A!Unanswered'
    BY <1>4, <2>2, <2>4, <2>5
  <2>8. Kept /\ stdout' \in Seq(Answers) /\ Sizes'
    BY <1>1, <2>1, <2>2, <2>6, <2>7, OneLess
  <2>9. <<>> \in Seq(Alphabet)
    BY EmptySeq
  <2> QED
    BY <1>3, <1>6, <2>1, <2>8, <2>9 DEF Serves, ShellTyped
<1>7. CASE turn.ended
  <2>1. A!Refuse(turn.digest) /\ stdin' = stdin
    BY <1>7 DEF A!Drain, turn
  <2>2. EndsAt(u \o stdin, 1, Len(u))
    <3> HIDE DEF u
    <3>1. /\ Len(u \o stdin) = Len(u) + Len(stdin) /\ Len(u) \in Nat /\ Len(stdin) \in Nat
          /\ \A i \in 1..Len(u) : (u \o stdin)[i] = u[i]
      <4>1. u \in Seq(Alphabet) /\ stdin \in Seq(Alphabet)
        BY <1>3, <1>5
      <4>2. Joins(Alphabet, u, stdin, u \o stdin)
        BY <4>1, Joined
      <4> QED
        BY <4>2, Zenon DEF Joins
    <3>2. Len(u) # 0 /\ u[Len(u)] = LF
      BY <1>2, <1>5, <1>7
    <3> DEFINE t == u \o stdin
    <3> HIDE DEF t
    <3>3. /\ Len(t) = Len(u) + Len(stdin)
          /\ \A i \in 1..Len(u) : t[i] = u[i]
      BY <3>1 DEF t
    <3>4. Len(u) \in 1..Len(t) /\ t[Len(u)] = LF /\ \A k \in 1..Len(u) - 1 : t[k] # LF
      BY <1>5, <3>1, <3>2, <3>3
    <3>5. EndsAt(t, 1, Len(u))
      BY <3>4 DEF EndsAt
    <3> QED
      BY <3>5 DEF t
  <2> QED
    BY <1>2, <1>6, <1>7, <2>1, <2>2
<1>8. CASE ~turn.ended /\ stdin = <<>>
  <2> DEFINE digest == IF turn.cr THEN Append(turn.digest, CR) ELSE turn.digest
  <2>1. next = <<>>
    BY <1>3, <1>8, NothingRead DEF next
  <2>2. A!Refuse(digest) /\ stdin' = stdin
    BY <1>8, <2>1 DEF A!Drain, turn, next
  <2>3. digest = u
    <3>1. Append(turn.digest, CR) = turn.digest \o <<CR>> /\ turn.digest \o <<>> = turn.digest
      BY <1>2, AppendIsConcat, ConcatEmptySeq DEF Alphabet
    <3> QED
      BY <1>2, <1>8, <3>1
  <2>4. Len(u) > MAX_REQUEST_BYTES
    BY <1>1, <1>5 DEF Pieces
  <2>5. Strip(u) = u
    <3>1. ~Ends(u, LF)
      BY <1>2, <1>5, <1>8 DEF Ends, A!Ends, A!Last
    <3> QED
      BY <3>1 DEF Strip, A!strip_delimiter, Ends
  <2>6. EndsAt(u \o stdin, 1, Len(u))
    <3> HIDE DEF u
    <3>1. u \o stdin = u /\ Len(u) \in Nat \ {0}
      BY <1>5, <1>8, EmptySeq, ConcatEmptySeq
    <3>2. EndsAt(u, 1, Len(u))
      BY <1>5, <3>1 DEF EndsAt
    <3> QED
      BY <3>1, <3>2
  <2> HIDE DEF digest, u
  <2>7. digest \in Seq(Alphabet) /\ Len(digest) > MAX_REQUEST_BYTES /\ digest = Strip(u)
    BY <1>5, <2>3, <2>4, <2>5
  <2> QED
    BY <1>6, <2>2, <2>6, <2>7
<1>9. CASE ~turn.ended /\ stdin # <<>>
  <2> DEFINE m == Len(next)
  <2>1. /\ next \in Seq(Alphabet) /\ next # <<>> /\ A!Rest(stdin, next) \in Seq(Alphabet)
        /\ m \in 1..Len(stdin)
        /\ \A k \in 1..m - 1 : next[k] # LF
        /\ Ends(next, LF) <=> stdin[m] = LF
        /\ stdin[m] = LF \/ A!Rest(stdin, next) = <<>> \/ m = A!Limit
        /\ next \o A!Rest(stdin, next) = stdin
    BY <1>3, <1>9, PieceTaken DEF next
  <2>2. /\ hashed' = turn.digest /\ pending_cr' = turn.cr /\ chunk' = next
        /\ stdin' = A!Rest(stdin, next) /\ stdout' = stdout /\ doing' = doing
    BY <1>9, <2>1 DEF A!Drain, turn, next
  <2>3. Before' = u
    BY <1>2, <1>9, <2>2 DEF Before
  <2>4. ShellTyped'
    BY <1>1, <1>2, <2>1, <2>2 DEF ShellTyped
  <2>5. NoLF(u) /\ Len(u) >= MAX_REQUEST_BYTES + 2
    <3>1. u[Len(u)] # LF
      BY <1>2, <1>5, <1>9
    <3>2. Len(u) >= MAX_REQUEST_BYTES + 2
      BY <1>1, <1>5, <1>9 DEF Pieces
    <3> HIDE DEF u
    <3>3. Len(u) \in Nat
      BY <1>5
    <3> QED
      BY <1>5, <3>1, <3>2, <3>3 DEF NoLF
  <2> HIDE DEF u
  <2>6. Pieces'
    <3>1. Len(u) + m > MAX_REQUEST_BYTES /\ Len(u) + m >= MAX_REQUEST_BYTES + 2
      <4>1. Len(u) \in Nat /\ m \in Nat
        BY <1>5, <2>1, LenProperties
      <4> QED
        BY <1>3, <2>5, <4>1
    <3>2. pending_cr' = FALSE => ~Ends(hashed', CR)
      BY <1>2, <1>9, <2>2
    <3> QED
      BY <2>1, <2>2, <2>3, <2>5, <3>1, <3>2 DEF Pieces
  <2>7. Sizes'
    BY <1>1, <2>2 DEF Sizes
  <2>8. Kept
    <3>1. A!Unanswered' = A!Records((u \o next) \o A!Rest(stdin, next))
      BY <1>1, <2>2, <2>3 DEF A!Unanswered, Before
    <3>2. (u \o next) \o A!Rest(stdin, next) = u \o stdin
      <4> DEFINE r == A!Rest(stdin, next)
      <4>1. u \in Seq(Alphabet) /\ next \in Seq(Alphabet) /\ r \in Seq(Alphabet)
        BY <1>5, <2>1
      <4>2. next \o r = stdin
        BY <2>1
      <4> HIDE DEF r
      <4>3. (u \o next) \o r = u \o (next \o r)
        <5>1. \A x, y, z \in Seq(Alphabet) : (x \o y) \o z = x \o (y \o z)
          BY ConcatAssociative
        <5> QED
          BY <4>1, <5>1
      <4> QED
        BY <4>2, <4>3, Zenon DEF r
    <3> QED
      BY <1>4, <2>2, <3>1, <3>2 DEF Kept, A!Answered, u
  <2> QED
    BY <2>4, <2>6, <2>7 , <2>8 DEF Serves
<1> QED
  BY <1>7, <1>8, <1>9

\* Whatever arrives, in whatever pieces a long line is read: every record gets one answer, in its
\* place, about exactly its bytes, which says that they are too many if and only if they are; and
\* if the service stops before the end, then at a record that is nested too deeply and not too
\* large, after answering all before it (data_adapter_jsonl.py:106-217, 446-512).
THEOREM AnswersAreRight == A!Spec => OneAnswerEach
<1>1. A!Init => Serves
  BY ServesFirst
<1>2. Serves /\ [A!Next]_(A!vars) => Serves' /\ [A!AnswersRight]_(A!vars)
  <2> SUFFICES ASSUME Serves, [A!Next]_(A!vars) PROVE Serves' /\ [A!AnswersRight]_(A!vars)
    OBVIOUS
  <2>1. CASE UNCHANGED A!vars
    <3>1. Serves'
      BY <2>1 DEF Serves, ShellTyped, Pieces, Sizes, Before, A!vars
    <3> QED
      BY <2>1, <3>1
  <2>2. CASE A!Next
    <3>1. A!EndOfInput \/ A!ReadOversized \/ A!Drain => doing' # "raised"
      BY DEF A!EndOfInput, A!ReadOversized, A!Drain, A!Refuse
    <3>2. Serves' /\ A!StopsAtNested /\ (doing' # "raised" => Kept)
      BY <2>2, <3>1, EndStep, LineStep, OversizedStep, DrainStep DEF A!Next, A!StopsAtNested
    <3>3. A!AnswersKept
      BY <3>2 DEF A!AnswersKept, Kept
    <3>4. A!SizesTold'
      BY <3>2 DEF Serves, Sizes, A!SizesTold
    <3> QED
      BY <3>2, <3>3, <3>4 DEF A!AnswersRight
  <2> QED
    BY <2>1, <2>2
<1> QED
  BY <1>1, <1>2, PTL DEF A!Spec, OneAnswerEach, A!OneAnswerEach
=============================================================================
