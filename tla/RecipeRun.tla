----------------------------- MODULE RecipeRun ------------------------------
(***************************************************************************)
(* One run of a recipe (Runner), beside whatever else goes on: its state   *)
(* under names of its own, and what is promised of it.  Checks knows of a  *)
(* run only the status it came to.                                         *)
(***************************************************************************)
CONSTANT NoResult

VARIABLES stage, alive, piped, exit, output, file, expects, result

running == <<stage, alive, piped, exit, output, file, expects, result>>

R == INSTANCE Runner WITH pc <- stage, None <- NoResult

\* A PASS that rests on output that was cut says so, and a run that was given up leaves no
\* process behind (runner.py:180-252, 369-398).
EndsClean == R!EndsClean
=============================================================================
