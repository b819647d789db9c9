------------------------------ MODULE MCShells ------------------------------
(***************************************************************************)
(* Instances of the data adapter, SingleSlot, of the shell in front of it, *)
(* AdapterShell (Serving), and of Runner, the other place where the        *)
(* program meets a process (RecipeRun).  They share no state: a behaviour  *)
(* is a run of one of them, the subject.                                   *)
(*                                                                         *)
(* SingleSlot: the profile of refinement/profiles/market_single_slot_v1,   *)
(* with its own amounts, deadlines and time representatives.               *)
(* AdapterShell: every stream of up to seven symbols over one request of   *)
(* one byte, CR and LF, so that a line takes up to three pieces of three   *)
(* and a CR or an LF falls on every place of a piece; every stream of up   *)
(* to five symbols that may hold nested values too; and every request with *)
(* up to two fields wrong, without its delimiter and before a good one.    *)
(* Runner has no parameter to bound.                                       *)
(***************************************************************************)
EXTENDS RecipeRun, Serving, Integers, Sequences, TLC

CONSTANTS
    Submission, Challenge, Submitter, Challenger, Sponsor, Treasury, Recipe, Verifier, Finding,
    Settlement, DeclaredReceipt, DeclaredRuling, None

VARIABLES
    subject,                                                 \* which of the three
    slot, bounty, custody, answered                          \* SingleSlot's

answering == <<slot, bounty, custody, answered>>

ProfileTimes ==
    [pre_deadline |-> 100, at_deadline |-> 1000, challenge_window |-> 1050,
     post_challenge_window |-> 1101, post_resolution_deadline |-> 1200]

S == INSTANCE SingleSlot WITH
    SubmissionIds <- {Submission}, ChallengeIds <- {Challenge}, AcceptedRecipes <- {Recipe},
    AcceptedVerifiers <- {Verifier}, SlashableFindings <- {Finding},
    TimeRepresentative <- ProfileTimes, RewardAtoms <- 1000, BondAtoms <- 100, DepositAtoms <- 50,
    Reward <- 1000, MinBounty <- 1000, MinSubmissionBond <- 100, PolicyMinBond <- 100,
    MinChallengeDeposit <- 50, Deadline <- 1000, ChallengeWindow <- 100, ResolutionSeconds <- 100

-----------------------------------------------------------------------------
GoodStep ==
    [fields |-> "exact", ids |-> TRUE, schema |-> TRUE, binding |-> TRUE, operation |-> "step",
     state |-> TRUE, command |-> "object", context |-> "exact", expected |-> TRUE]

SomeNested == [too_deep_for : {"decoding", "encoding", "freezing"}]

ShortStreams ==
    UNION {[1..n -> {GoodStep, CR, LF}] : n \in 0..7}
    \cup UNION {[1..n -> {GoodStep, CR, LF} \cup SomeNested] : n \in 0..5}

OneWrong(r) ==
    {[r EXCEPT !.fields = v] : v \in {"unknown", "missing"}}
    \cup {[r EXCEPT !.ids = FALSE], [r EXCEPT !.schema = FALSE], [r EXCEPT !.binding = FALSE],
          [r EXCEPT !.state = FALSE], [r EXCEPT !.expected = FALSE]}
    \cup {[r EXCEPT !.operation = v] : v \in {"step", "validate_state", "other"}}
    \cup {[r EXCEPT !.command = v] : v \in {"null", "object", "other"}}
    \cup {[r EXCEPT !.context = v] : v \in {"other", "unknown", "missing", "wrong type", "negative"}}

TwoWrong == UNION {OneWrong(r) : r \in OneWrong(GoodStep)}

SomeStreams ==
    ShortStreams \cup {<<r>> : r \in TwoWrong} \cup {<<r, CR, LF, GoodStep, LF>> : r \in TwoWrong}

ASSUME ShellsAssumption == S!SlotParameters

-----------------------------------------------------------------------------
\* At rest, each is in one of its initial states.
NotAnswering == S!Init

NotServing ==
    /\ stdin = <<>> /\ stdout = <<>> /\ chunk = <<>> /\ hashed = <<>>
    /\ pending_cr = FALSE /\ doing = "reading"

NotRunning ==
    /\ stage = "planning" /\ alive = {} /\ piped = {} /\ exit = NoResult /\ output = "nowhere"
    /\ file = FALSE /\ expects = {} /\ result = NoResult

MCInit ==
    \/ subject = "adapter" /\ S!Init /\ NotServing /\ NotRunning
    \/ subject = "shell" /\ NotAnswering /\ A!Init /\ NotRunning
    \/ subject = "runner" /\ NotAnswering /\ NotServing /\ R!Init

MCNext ==
    /\ UNCHANGED subject
    /\ \/ subject = "adapter" /\ S!Next /\ UNCHANGED <<serving, running>>
       \/ subject = "shell" /\ A!Next /\ UNCHANGED <<answering, running>>
       \/ subject = "runner" /\ R!Next /\ UNCHANGED <<answering, serving>>

\* The fairness of Runner; the others need none.
MCSpec ==
    MCInit /\ [][MCNext]_<<subject, answering, serving, running>>
        /\ WF_running(subject = "runner" /\ R!Run /\ UNCHANGED <<subject, answering, serving>>)

-----------------------------------------------------------------------------
\* The adapter decides as the market would, in every state and at every clock reading, and
\* answers whatever it is asked (SingleSlot).
StandsIn == subject = "adapter" => S!StandsIn

\* Every run of a recipe ends (Runner).
RunsEnd == subject = "runner" => R!RunsEnd
=============================================================================
