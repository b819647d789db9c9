---------------------------- MODULE AdapterShell ----------------------------
(***************************************************************************)
(* shells/data_adapter_jsonl.py: requests come in on a byte stream, one a  *)
(* line, and one response goes out for each.  A line is read in one piece, *)
(* at most MAX_REQUEST_BYTES and a delimiter of two; a longer one is read  *)
(* to its end, hashed and refused.                                         *)
(*                                                                         *)
(* A stream is a sequence of symbols: CR, LF, requests, values nested too  *)
(* deeply, and characters in UTF-8 that are not white space and begin no   *)
(* JSON value.  A request stands for the bytes of its canonical JSON and   *)
(* takes one symbol, and so does a value that the interpreter cannot       *)
(* recurse into: decoding it, encoding it again or freezing it raises, and *)
(* each is only reached if the one before it is through and what follows   *)
(* the value allows.  Any other payload that is not exactly one request is *)
(* not canonical JSON.  Of a request every field is what its validation    *)
(* finds it to be.  A hash is what it hashes.                              *)
(***************************************************************************)
EXTENDS Integers, Sequences, SequencesExt

CONSTANTS
    CR, LF,
    MAX_REQUEST_BYTES,
    Requests,       \* records of the fields _build_request looks at
    Nested,         \* values nested too deeply, and what raises RecursionError on them
    Streams,        \* what may arrive on stdin
    None

Symbols == UNION {Range(stream) : stream \in Streams}

\* The codes of InvalidInputCode that the model tells apart.
Codes == {"INPUT_TOO_LARGE", "NON_CANONICAL_JSON", "UNKNOWN_FIELD", "SCHEMA_MISMATCH",
          "BINDING_MISMATCH", "ABSTRACT_STATE_OUT_OF_DOMAIN", "ABSTRACT_COMMAND_OUT_OF_DOMAIN",
          "PRE_STATE_HASH_MISMATCH"}

\* What the constants are.
ShellParameters ==
    /\ MAX_REQUEST_BYTES \in Nat \ {0}
    /\ CR # LF
    /\ Requests \subseteq
           [fields : {"exact", "unknown", "missing"}, ids : BOOLEAN, schema : BOOLEAN,
            binding : BOOLEAN, operation : {"step", "validate_state", "other"}, state : BOOLEAN,
            command : {"null", "object", "other"},
            context : {"exact", "other", "unknown", "missing", "wrong type", "negative"},
            expected : BOOLEAN]
    /\ Nested \subseteq [too_deep_for : {"decoding", "encoding", "freezing"}]
    /\ Nested \cap (Requests \cup {CR, LF}) = {}
    /\ Streams \subseteq Seq(Symbols)
    /\ None \notin Codes

VARIABLES
    stdin,          \* what has not been read
    stdout,         \* the answers so far
    chunk,          \* the piece of an oversized line just read
    hashed,         \* what its digest has been given
    pending_cr,     \* a CR at the end of a piece, not yet hashed
    doing           \* "reading", "draining", "done" or "raised"

vars == <<stdin, stdout, chunk, hashed, pending_cr, doing>>

-----------------------------------------------------------------------------
(* _build_request: what it refuses, in its order. *)

RequestChecks(r) ==
    <<<<"UNKNOWN_FIELD", r.fields = "unknown">>,
      <<"SCHEMA_MISMATCH", r.fields = "missing">>,
      <<"SCHEMA_MISMATCH", ~r.ids>>,
      <<"SCHEMA_MISMATCH", ~r.schema>>,
      <<"BINDING_MISMATCH", ~r.binding>>,
      <<"SCHEMA_MISMATCH", r.operation \notin {"step", "validate_state"}>>,
      <<"ABSTRACT_STATE_OUT_OF_DOMAIN", ~r.state>>,
      <<"ABSTRACT_COMMAND_OUT_OF_DOMAIN", r.command = "other">>,
      <<"ABSTRACT_COMMAND_OUT_OF_DOMAIN", r.operation = "step" /\ r.command = "null">>,
      <<"ABSTRACT_COMMAND_OUT_OF_DOMAIN", r.operation = "validate_state" /\ r.command # "null">>,
      <<"SCHEMA_MISMATCH", r.context = "other">>,
      <<"UNKNOWN_FIELD", r.context = "unknown">>,
      <<"SCHEMA_MISMATCH", r.context \in {"missing", "wrong type", "negative"}>>,
      <<"PRE_STATE_HASH_MISMATCH", ~r.expected>>>>

RequestFault(r) ==
    LET checks == RequestChecks(r)
        first == SelectInSeq(checks, LAMBDA check : check[2])
    IN  IF first = 0 THEN None ELSE checks[first][1]

\* AdapterRequest.__post_init__: anything else raises, and nothing catches it.
Constructible(r) ==
    /\ r.ids /\ r.schema /\ r.binding /\ r.state /\ r.expected
    /\ \/ r.operation = "step" /\ r.command = "object"
       \/ r.operation = "validate_state" /\ r.command = "null"
    /\ r.context = "exact"

-----------------------------------------------------------------------------
(* process_line. *)

\* A BoundaryFailureResponse has no request; it names the bytes it answers.
boundary(code, bytes) == [code |-> code, of |-> bytes]

\* The answer of apply_data_adapter, whatever it is.
adapted(r) == [code |-> None, of |-> <<r>>]

IsRequest(payload) == Len(payload) = 1 /\ payload[1] \in Requests

\* parse_canonical_json decodes the first value of a payload, refuses what follows it but white
\* space, encodes it again and refuses that too, and process_line freezes it: each of the three
\* recurses, and none of the handlers is for that.
TooDeep(payload) ==
    /\ payload # <<>> /\ payload[1] \in Nested
    /\ \/ payload[1].too_deep_for = "decoding"
       \/ payload[1].too_deep_for = "encoding" /\ \A i \in 2..Len(payload) : payload[i] = CR
       \/ payload[1].too_deep_for = "freezing" /\ Len(payload) = 1

Raises(payload) ==
    /\ Len(payload) <= MAX_REQUEST_BYTES
    /\ \/ TooDeep(payload)
       \/ IsRequest(payload) /\ RequestFault(payload[1]) = None /\ ~Constructible(payload[1])

process_line(payload) ==
    IF Len(payload) > MAX_REQUEST_BYTES THEN boundary("INPUT_TOO_LARGE", payload)
    ELSE IF ~IsRequest(payload) THEN boundary("NON_CANONICAL_JSON", payload)
    ELSE IF RequestFault(payload[1]) # None THEN boundary(RequestFault(payload[1]), payload)
    ELSE adapted(payload[1])

-----------------------------------------------------------------------------
(* Reading. *)

Ends(piece, symbol) == piece # <<>> /\ Last(piece) = symbol

\* _strip_jsonl_delimiter.
strip_delimiter(line) ==
    IF ~Ends(line, LF) THEN line
    ELSE IF Ends(Front(line), CR) THEN Front(Front(line)) ELSE Front(line)

\* BufferedReader.readline: to the first LF, to the limit, or to the end.
readline(stream, limit) ==
    LET lf == SelectInSeq(stream, LAMBDA symbol : symbol = LF)
        length == IF lf = 0 THEN Len(stream) ELSE lf
    IN  SubSeq(stream, 1, IF length <= limit THEN length ELSE limit)

Rest(stream, line) == SubSeq(stream, Len(line) + 1, Len(stream))

Limit == MAX_REQUEST_BYTES + 2

Oversized(line) == Len(line) > MAX_REQUEST_BYTES /\ ~Ends(line, LF)

Init ==
    /\ stdin \in Streams
    /\ stdout = <<>>
    /\ chunk = <<>> /\ hashed = <<>> /\ pending_cr = FALSE
    /\ doing = "reading"

EndOfInput ==
    /\ doing = "reading" /\ stdin = <<>>
    /\ doing' = "done"
    /\ UNCHANGED <<stdin, stdout, chunk, hashed, pending_cr>>

ReadLine ==
    LET line == readline(stdin, Limit)
        payload == strip_delimiter(line)
    IN  /\ doing = "reading" /\ stdin # <<>> /\ ~Oversized(line)
        /\ stdin' = Rest(stdin, line)
        /\ IF Raises(payload)
           THEN doing' = "raised" /\ UNCHANGED stdout
           ELSE stdout' = Append(stdout, process_line(payload)) /\ UNCHANGED doing
        /\ UNCHANGED <<chunk, hashed, pending_cr>>

ReadOversized ==
    LET line == readline(stdin, Limit)
    IN  /\ doing = "reading" /\ Oversized(line)
        /\ stdin' = Rest(stdin, line)
        /\ chunk' = line
        /\ hashed' = <<>> /\ pending_cr' = FALSE
        /\ doing' = "draining"
        /\ UNCHANGED stdout

\* Slip: a CR at the end of a piece is taken for half of a delimiter.
DigestOfDropsCR(piece, digest, cr) ==
    IF cr /\ Head(piece) = LF THEN [digest |-> digest, cr |-> FALSE, ended |-> TRUE]
    ELSE LET before == digest
         IN  IF Ends(piece, LF)
             THEN [digest |-> before \o strip_delimiter(piece), cr |-> FALSE, ended |-> TRUE]
             ELSE IF Ends(piece, CR)
             THEN [digest |-> before \o Front(piece), cr |-> TRUE, ended |-> FALSE]
             ELSE [digest |-> before \o piece, cr |-> FALSE, ended |-> FALSE]

\* One turn of the loop of _hash_oversized_jsonl_payload, up to the next readline.
DigestOf(piece, digest, cr) ==
    IF cr /\ Head(piece) = LF THEN [digest |-> digest, cr |-> FALSE, ended |-> TRUE]
    ELSE LET before == IF cr THEN Append(digest, CR) ELSE digest
         IN  IF Ends(piece, LF)
             THEN [digest |-> before \o strip_delimiter(piece), cr |-> FALSE, ended |-> TRUE]
             ELSE IF Ends(piece, CR)
             THEN [digest |-> before \o Front(piece), cr |-> TRUE, ended |-> FALSE]
             ELSE [digest |-> before \o piece, cr |-> FALSE, ended |-> FALSE]

Refuse(digest) ==
    /\ stdout' = Append(stdout, boundary("INPUT_TOO_LARGE", digest))
    /\ doing' = "reading"
    /\ chunk' = <<>> /\ hashed' = <<>> /\ pending_cr' = FALSE

Drain ==
    LET turn == DigestOf(chunk, hashed, pending_cr)
        next == readline(stdin, Limit)
    IN  /\ doing = "draining"
        /\ IF turn.ended THEN Refuse(turn.digest) /\ UNCHANGED stdin
           ELSE IF next = <<>>
           THEN Refuse(IF turn.cr THEN Append(turn.digest, CR) ELSE turn.digest) /\ UNCHANGED stdin
           ELSE /\ hashed' = turn.digest /\ pending_cr' = turn.cr
                /\ chunk' = next
                /\ stdin' = Rest(stdin, next)
                /\ UNCHANGED <<stdout, doing>>

Next == EndOfInput \/ ReadLine \/ ReadOversized \/ Drain

Spec == Init /\ [][Next]_vars

-----------------------------------------------------------------------------
(* The records of a stream, without reading it piece by piece. *)

Records(stream) ==
    LET from[i \in 1..Len(stream) + 1] ==
            LET line == readline(SubSeq(stream, i, Len(stream)), Len(stream))
            IN  IF line = <<>> THEN <<>>
                ELSE <<strip_delimiter(line)>> \o from[i + Len(line)]
    IN  from[1]

-----------------------------------------------------------------------------
\* What is still to be read and drained, put after what was answered, are the records of the
\* stream.
Unanswered ==
    IF doing # "draining" THEN Records(stdin)
    ELSE Records(hashed \o (IF pending_cr THEN <<CR>> ELSE <<>>) \o chunk \o stdin)

Answered == [i \in DOMAIN stdout |-> stdout[i].of]

AnswersKept ==
    doing # "raised" /\ doing' # "raised" => (Answered \o Unanswered)' = Answered \o Unanswered

\* A record is called too large if and only if it is (data_adapter_jsonl.py:192, 495: two tests
\* of two lengths, one with the delimiter and one without).
SizesTold ==
    \A i \in DOMAIN stdout :
        stdout[i].code = "INPUT_TOO_LARGE" <=> Len(stdout[i].of) > MAX_REQUEST_BYTES

\* Only a value nested too deeply, in a record that is not too large, stops the shell, when
\* everything before it has been answered: what _build_request lets through, AdapterRequest
\* accepts (data_adapter_jsonl.py:106-217, 249-403, adapter_protocol.py:498-531).
StopsAtNested ==
    doing # "raised" /\ doing' = "raised" =>
        /\ stdout' = stdout
        /\ Unanswered # <<>> /\ TooDeep(Head(Unanswered))
        /\ Len(Head(Unanswered)) <= MAX_REQUEST_BYTES

AnswersRight == AnswersKept /\ SizesTold' /\ StopsAtNested

\* One answer for each record, in order, right about its size, and each about exactly the bytes of
\* its record: however the pieces of a long line fall, CRs and all, nothing is answered twice,
\* skipped or taken together.  The one thing that stops the service before the end of its input is
\* a value nested too deeply, which data_adapter_jsonl.py:14 would have answered too
\* (data_adapter_jsonl.py:106-217, 446-512).
OneAnswerEach == [][AnswersRight]_vars
=============================================================================
