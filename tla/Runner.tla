------------------------------- MODULE Runner -------------------------------
(***************************************************************************)
(* runner.py: one recipe run as a child process.  The recipe is planned,   *)
(* its inputs laid out, the process started in a session of its own and    *)
(* waited for with a timeout; its output is cut to what the recipe keeps,  *)
(* judged (core/recipe.py) and put away with the files it left.            *)
(*                                                                         *)
(* The process may start a second one, which shares its pipes or has       *)
(* closed them, and outlives it or not; it stays in the session, and the   *)
(* system is a POSIX one.  Of the output only one thing matters: whether   *)
(* the text of stdout_not_contains occurs in it, in the part that is kept  *)
(* or only after it.  Of the files there is one, which the recipe may      *)
(* expect, and which it captures.                                          *)
(***************************************************************************)
EXTENDS Naturals

CONSTANTS
    None            \* no result, no exit code yet

VARIABLES
    pc,             \* where run_recipe is
    alive,          \* which of "leader" and "child" run
    piped,          \* which of them hold the pipes
    exit,           \* how the leader ended: "expected" or "other"
    output,         \* where the forbidden text is: "nowhere", "kept", "cut"
    file,           \* whether the expected file exists
    expects,        \* what the recipe expects: "no text", "file"
    result          \* what the run came to

vars == <<pc, alive, piped, exit, output, file, expects, result>>

\* stdout_truncated.  Of the outputs that are too long, the one told apart is the one that has
\* the text after the cut.
truncated(text) == text = "cut"

\* evaluate_observation, on what was kept: a text that occurs after the cut is not seen.
evaluate_observation ==
    IF /\ exit = "expected"
       /\ "no text" \in expects => output # "kept"
       /\ "file" \in expects => file
    THEN "PASS" ELSE "FAIL"

Non_pass(status) == [status |-> status, truncated |-> FALSE, captured |-> FALSE]

-----------------------------------------------------------------------------
Init ==
    /\ pc = "planning"
    /\ alive = {} /\ piped = {}
    /\ exit = None /\ output = "nowhere"
    /\ file = FALSE
    /\ expects \in SUBSET {"no text", "file"}
    /\ result = None

\* A bad recipe, a missing tool or path, an input that cannot be laid out, a process that
\* does not start: the run is over before it begins.
NotStarted ==
    /\ pc = "planning"
    /\ \E status \in {"SKIP", "ERROR"} : result' = Non_pass(status)
    /\ pc' = "done"
    /\ UNCHANGED <<alive, piped, exit, output, file, expects>>

\* Popen.
Start ==
    /\ pc = "planning"
    /\ pc' = "waiting"
    /\ alive' = {"leader"} /\ piped' = {"leader"}
    /\ UNCHANGED <<exit, output, file, expects, result>>

Fork ==
    /\ "leader" \in alive /\ "child" \notin alive
    /\ alive' = alive \cup {"child"}
    /\ piped' \in {piped, piped \cup {"child"}}
    /\ UNCHANGED <<pc, exit, output, file, expects, result>>

\* Whoever holds the pipes prints, whoever runs changes files.
Write ==
    /\ piped # {} /\ output = "nowhere"
    /\ output' \in {"kept", "cut"}
    /\ UNCHANGED <<pc, alive, piped, exit, file, expects, result>>

Touch ==
    /\ alive # {}
    /\ file' = ~file
    /\ UNCHANGED <<pc, alive, piped, exit, output, expects, result>>

Exit(p) ==
    /\ p \in alive
    /\ alive' = alive \ {p} /\ piped' = piped \ {p}
    /\ IF p = "leader" THEN exit' \in {"expected", "other"} ELSE UNCHANGED exit
    /\ UNCHANGED <<pc, output, file, expects, result>>

\* Slip: only the process that was started is killed.
SurvivorsOfKill == {"child"}

\* _kill_process_tree: the session's whole process group.
Survivors == {}

\* communicate: the timeout, or anything else it raises, kills the group.
Kill(status) ==
    /\ pc = "waiting"
    /\ pc' = "draining"
    /\ alive' = alive \cap Survivors /\ piped' = piped \cap Survivors
    /\ result' = Non_pass(status)
    /\ UNCHANGED <<exit, output, file, expects>>

Timeout == Kill("TIMEOUT")

CommunicateFails == Kill("ERROR")

\* The second communicate has no timeout: it waits for the pipes to be closed.
Drained ==
    /\ pc = "draining"
    /\ "leader" \notin alive /\ piped = {}
    /\ pc' = "done"
    /\ UNCHANGED <<alive, piped, exit, output, file, expects, result>>

\* The process is over and nobody holds its pipes: cut its output, look for the files, judge.
Observe ==
    /\ pc = "waiting"
    /\ "leader" \notin alive /\ piped = {}
    /\ pc' = "observed"
    /\ result' = [status |-> evaluate_observation, truncated |-> truncated(output),
                  captured |-> FALSE]
    /\ UNCHANGED <<alive, piped, exit, output, file, expects>>

\* _capture_file looks for the file once more, and then opens it.
Look ==
    /\ pc = "observed"
    /\ pc' = IF file THEN "opening" ELSE "done"
    /\ UNCHANGED <<alive, piped, exit, output, file, expects, result>>

Capture ==
    /\ pc = "opening"
    /\ IF file THEN pc' = "done" /\ result' = [result EXCEPT !.captured = TRUE]
       ELSE pc' = "raised" /\ result' = None
    /\ UNCHANGED <<alive, piped, exit, output, file, expects>>

Run == NotStarted \/ Start \/ Timeout \/ CommunicateFails \/ Drained \/ Observe \/ Look \/ Capture

Next == Run \/ Fork \/ Write \/ Touch \/ \E p \in {"leader", "child"} : Exit(p)

\* The runner goes on when it can, and its timer runs.  The processes may do anything.
Spec == Init /\ [][Next]_vars /\ WF_vars(Run)

-----------------------------------------------------------------------------
\* A PASS that the whole output does not bear out says so: the text that should not occur does
\* occur only where the evidence states that output was cut (runner.py:369-398, README.md:100
\* "truncation flags").
TruncationShown ==
    result # None /\ result.status = "PASS" /\ "no text" \in expects /\ output # "nowhere" =>
        result.truncated

\* When a run has been given up, nothing of it goes on: no process of the recipe is left to
\* write into the directory that is removed, or to hold the pipes (runner.py:180-192, 230-252).
GivenUpLeavesNothing ==
    pc = "done" /\ result.status \in {"TIMEOUT", "ERROR"} => alive = {}

\* Every run ends, whatever the processes do: a second process that keeps the pipes open is
\* waited for until the timeout and no longer (runner.py:229-242).
RunsEnd == <>(pc \in {"done", "raised"})

\* Whatever the processes of a recipe do, the result admits what it did not see and leaves
\* nothing running (runner.py:180-252, 369-398).
EndsClean == TruncationShown /\ GivenUpLeavesNothing
=============================================================================
