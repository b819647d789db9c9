------------------------------ MODULE Serving -------------------------------
(***************************************************************************)
(* The shell in front of the data adapter (AdapterShell), beside whatever  *)
(* else goes on, and what is promised of it.                               *)
(***************************************************************************)
CONSTANTS CR, LF, MAX_REQUEST_BYTES, AdapterRequests, AdapterNested, Streams, NoCode

VARIABLES stdin, stdout, chunk, hashed, pending_cr, doing

serving == <<stdin, stdout, chunk, hashed, pending_cr, doing>>

A == INSTANCE AdapterShell WITH
    Requests <- AdapterRequests, Nested <- AdapterNested, None <- NoCode

ASSUME ServingAssumption == A!ShellParameters

\* One answer for each record, in order, about exactly its bytes, up to a value that is nested too
\* deeply (data_adapter_jsonl.py:446-512).
OneAnswerEach == A!OneAnswerEach
=============================================================================
