# PopperPad in TLA+

PopperPad keeps falsifiable claims, the recipes that check them and the evidence
those checks produced in an append-only, content-addressed pad, and pays
bounties for refutations. This directory holds TLA+ models of the parts whose
correctness depends on order, interleaving, failure or long histories, the TLC
runs that check them, and TLAPS proofs of the results that matter most.
Paths below are relative to the repository; `popperpad/` means `src/popperpad/`.

## Inventory

| Component | State it keeps | Operations | Hard because | Must hold |
|---|---|---|---|---|
| Falsification market: `core/market.py`, `core/market_invariants.py` | `BountyState`: phase, escrow, submissions with bonds, challenges with deposits, payable ids, settlement, processed command ids | eight commands through `apply_market_command`; returns next state and effects, or a refusal | four deadlines, stakes given back by four handlers, signed verdicts bound to an exact state, an invariant that freezes the bounty when broken | no invalid state, value conserved, stakes follow verdicts, nobody paid who did not survive, the bounty can be closed |
| Log, store, pad, index: `log.py`, `cas.py`, `pad.py`, `index.py` | `log.jsonl`, `cas/`, per-process edge index | commit (stage, lock, compare head, replace file), version-1 append, checkpoint, index build, status | several processes, crashes between stages, optimistic publication, lines that cannot be read back, stale private index | append only, chain verifies, public records resolvable, true checkpoints, no edge with authority from quarantine |
| Commit planning: `core/commit.py`, `core/codec.py`, and again in `rust/popperpad-core` | none (values) | `plan_commit`, `validate_commit_record`, `validate_commit_bundle` | ids bound to the head, three generations of records in one log, two implementations | effect and replay ids identify, only what was planned is admitted, both planners agree |
| Outbox: `outbox.py`, `core/outbox.py` | acknowledgement journal | `pending`, `deliver_pending`, `append_idempotent`, `verify` | at-least-once delivery, two files read without a common lock, racing deliverers, failing handlers | acknowledgements deserved, unique, permanent; every deliverable effect delivered |
| Imports: `core/imports.py`, `core/verifier_receipts.py`, `adapters/flow.py`, `adapters/import_*.py` | none; commits through the pad | admit a signed bundle, quarantine or trust, preflight, commit | policy from outside, bundle directory may change between reads | nothing unsigned admitted, authority only from trusted receipts, all or nothing |
| Bundles and adapters: `adapters/` | bundle directories | export, put, get, anchor | external services | round trip, manifest binds content |
| Check engine: `engine.py`, `core/check.py`, `core/evidence.py`, `core/recipe.py`, `runner.py` | none; commits results | run the recipes of a hypothesis, record evidence and edges | timeouts, partial results | verdict follows the outcomes, results committed together |
| Graph: `core/graph.py` | none | status, transfer paths | quantifiers over evidence that anybody writes, private indexes, inputs that raise; simple paths | a status rests on a run or on somebody's word with authority, and is not taken back; exactly the paths within the depth |
| Doctor: `doctor.py` | none | log, reference and cycle checks | depth-first search with an explicit stack beside the recursion | cycles reported are cycles, none is missed |
| Finite refinement: `refinement/` | none | single-slot profile, enumerator | mapping between two machines | profile simulates the market |
| Data adapter: `core/adapter_protocol.py`, `shells/data_adapter_jsonl.py` | none | read a record, validate it, answer | framing, limits, failures at the boundary, recursion | one answer per record, about exactly its bytes |
| Mechanism, gamification, validation, CLI, TUI | | | | see `PROJECT.json` |

The shells call the pure core and interpret what it returns: the engine and the
import flow build values and commit them through the pad; a commit carries
outbox effects in the same log record; the outbox reads them from the log. The
market is pure and is called by whoever holds a `BountyState`; its effects are
what an escrow would execute. Nothing else is shared but files: the log, the
store, the journal, and one lock file beside each of log and journal.

## Modules

`Market.tla` is one bounty. Its variables are the fields of `BountyState`, with
`custody`, what the escrow that executes the effects holds, and `sent`, all
effects so far. There is one action per outcome of a handler: `OpenBounty`,
`SubmitCandidate`, `VerifyAccepted`, `VerifyRejected`, `OpenChallenge`,
`ResolveUpheld`, `ResolveRejected`, `AdvancePayable`, `AdvanceExpired`,
`SettleBounty`, `CancelBounty`. Each has its guard in a definition of its own
(`CanSubmit`, ...) and `Commit` is what `apply_market_command` does around
every handler, including the refusal of any command in a state where
`ValidState`, the projection of `market_invariants.py`, does not hold. A
refused command changes nothing and is no action. A command id is used once, so
`processed` is a number; because `market_state_hash` covers the processed ids,
that number also stands for the `pre_state_hash` a verifier signs. Command
clocks are independent (the code never compares two of them). The policy is the
same for all commands of a bounty.

`Escrow.tla` is the abstract promise: a lot is locked once, leaves whole and in
one step, the prize stays to the end, and a closed escrow is empty and still.
`Market` refines it with each reward, bond and deposit as a lot (`Held`,
`Locked`).

`Pad.tla` is several processes on one pad directory. `log` and `cas` are the files;
`pc`, `plan`, `todo`, `base` are the locals of a publication; `built` and `index` are
the private index; `mine` remembers what a process published with authority. The actions
follow the code's steps: `PlanCommit`, `PlanAddObject` or `ReadStats` and
`PlanCheckpoint`; `Stage` for every payload; `EnterLock` or `Conflict`; `Load`, which
verifies the file and gives up where the chain is broken or a line cannot be read back;
`Replace`. `EnsureIndex` and `Crash` may come at any time the code allows. Reading back
is not the identity: `LongLine` and `SplitLine` say of which records the code finds a
fragment (see Findings), and `ReadsHead` and `Rereads` are what it then can do. Where
the lock excludes, `AlwaysVerifies` says that such a line is all that makes `Load` give
up; without it a broken chain is possible, and `AlwaysResolvable` is proved for both. A
record hash is the sequence of all contents up to the record, so hashes are equal
exactly when histories are. `Locking` is FALSE on a platform without `fcntl`.

`Outbox.tla` is several processes that run `deliver_pending` while commits
arrive. `committed` is what the log holds, `journal` the acknowledgements,
`performed` how often a handler carried an effect out. A run is `ReadLog`,
`ReadJournal` or `Refuse`, then per effect `MissingHandler`, `Deliver`,
`HandlerFails`, `PoisonFails`, `LockJournal`, `Acknowledge`, `AckFails`, and
`Finish`. Handlers are external: only what `outbox.py` requires of them is
assumed.

`MarketDecision.tla` is `apply_market_command` as the function it is: for a
state, a command and its evidence, the checks of every handler in their order,
the code of the first that fails, or the next state and the effects with the
parties they go to. `MarketCalls.tla` drives it with every command, in every
state, also those each check refuses, and refines `Market`: what the function
accepts is a step of the machine. `Bounties.tla` puts the two side by side, for the
proofs about the function.

`SingleSlot.tla` is the finite stand-in of a bounty (`finite_state.py`,
`market_adapter.py`): `Concretize`, `apply_market_command` from `MarketDecision`, and
the projection back, beside a bounty that is never projected. `Enumerator.tla` is the
breadth-first search over it, for any transition system. `AdapterShell.tla` is the byte
stream around it: records, limits, one answer each, and the values nested too deeply
(`Nested`) that end it; `Serving.tla` is that machine with its assumptions, for the run
and the proof about it.

`CommitPlan.tla` holds operators only: how `_derive_commit_record` builds receipt, ids
and record, the checks of `_plan_commit` in their order, the two validators, and the
planner in Rust written a second time from its own source. A hash is what was hashed,
under its domain. `Planners.tla` gives one request to both planners; the planner's
refusals are the first fault of a list of checks (`Faults`, `FirstFault`). `Commits.tla`
is a log with such records: `PlanCommitOn`, `AppendPrepared` (of a planned bundle or one
put together from two plans: `WithEffects`, `WithReceipt`, `WithPayloads`,
`AsOfVersionOne`), `AppendNote`; `ReadsHead` and `CanAppend` are as in `Pad`. Where
`Pad` takes the publication apart and keeps the record abstract, `Commits` does the
reverse. `Planning.tla` puts the two side by side, so that one instance and one module
of proofs are about both.

`Imports.tla` is an importer that reads the manifest and payload after payload
from a directory that may be rewritten under its hands, authenticates, admits,
checks receipts and commits on the head it reads last. `Bundles.tla` is the other
direction: export file by file, storage and anchor adapters, death and restart,
chain reorganisations. The node and the chain are external.

`Runner.tla` is one run of a recipe: planning, the child and a grandchild, pipes,
timeout, kill, drain, judgement, capture; `RecipeRun.tla` is that machine under names
of its own. `Checks.tla` takes the outcome of runs
and models the choice of recipes, evidence, edges and the one commit (`Start` to
`Publish`), and the status a process derives from what it has indexed. `index` is
what each process knows of the log: all of it when it is first asked
(`EnsureIndex`), afterwards what it adds itself (`Indexes`). `PutObjects`, `LosePut`
and `AuthorEdge` are what else reaches the pad: evidence nobody ran anything for
(`Written`), imports in quarantine or with a trusted receipt, and edges over whatever
evidence their author names. `Status` includes that the code may raise (`Raises`).
`passes` remembers which check answered PASS and the record that shows it.
`Transfer.tla` is the search for transfer paths, `Doctor.tla` the doctor's
depth-first search for cycles of supersedes edges, with a frame per nested call.
Both take the sets they search (graphs; edges, nodes, depths of the stack) as
parameters. `Searches.tla` puts them and `Enumerator` side by side.

Modules that prove (`...Proofs`) extend the module they prove about. An `MC` module
gives the instances. Three of them, `MCCommits`, `MCSearches` and `MCShells`, hold
several components that share no state, so that one run can ask about all of them: a
behaviour is a run of one, named by its initial state, while the variables of the others
stand still. There the properties are repeated under the subject they are about. The
parameters of a module that is only instantiated are asserted where it is
(`SearchesAssumption`, `PlanningAssumption`, `BountiesAssumption`, `ServingAssumption`,
`ShellsAssumption`).

Definitions marked `Slip` are plausible mistakes; substituting one for the
definition after it must break the property it is listed with in `PROJECT.json`.

## Runs

Several of the properties are conjunctions of parts with names of their own:
`StakesFollowVerdicts` (bonds, deposits), `RightValue` (who is paid, how much),
`LogTrue` (the chain, the checkpoints), `AcksSound` (types, performed, once),
`ExportsWhole` and `PromisesHold` (exports; receipts and verifications),
`AdmittedAsPlanned` and `LogHolds` (records; readability and heads),
`PlannersAgree`, `ReportTrue`, `PathsTrue`, `VerdictTrue`, `EndsClean`, and
`StandsIn`, which is all that is asked of the single slot. A part is stated and
explained where it is defined.

| Run | Question | Instance | States |
|---|---|---|---|
| `Market_stakes` | all safety properties of the market, the refinement of `Escrow`, and `EventuallyClosed` under `FairSpec` | 2 submissions, 2 challenges, 2 accepted keys and 1 foreign, amounts 0..1, clock readings before, at and after each deadline | 172,000 |
| `Market_zero_deposit` | `EventuallyClosed` where the minimum deposit is zero: violated | 2 submissions, 1 challenge, 1 key, every clock reading 0..4 | |
| `MarketCalls_commands` | the function takes only steps of `Market`, pays the right party, pays a split reward once, accepts no verdict too late to be contested | 2 submissions, 1 challenge, up to 7 commands, 2 parties, recipes, keys and findings, reward 2; every malformed and misdirected variant | 4,900 |
| `Pad_shared` | all pad properties | 2 processes, an edge alone or with a blob, own or quarantined scope, one record too long for the head and one with a line separator, plans while the log has fewer than 2 records, so up to 3 records | 315,000 |
| `Commits_race` | ids and heads never repeat, only what was planned is admitted, with its payloads, and the log verifies, also when it takes no more; and both planners answer alike, with plans the validator accepts | up to 3 plans of 6 requests, of which one makes a line that is too long, and 2 notes, of which one holds a line separator, up to 3 records, logs that start with older records; requests with up to 2 objects, blobs and effects and every fault in every combination | 141,000 |
| `Outbox_delivers` | acknowledgements with racing deliverers, bounded redelivery, and `EventuallyAcked` under `FairSpec` | 2 deliverers, 4 effects, the first always fails, the last has no handler, 2 failures or crashes | 270,000 |
| `Outbox_snapshot` | `SnapshotComplete`: violated | 2 deliverers, 2 effects, no failures | |
| `Imports_hostile` | what is committed is what was verified, signed as the policy asks, truth only with receipts | 1 importer and a commit of the owner, 14 manifests (half signed, misordered, receipts missing, replayed or untrusted), 5 policies, 1 rewrite | 183,000 |
| `Bundles_restarts` | exports load, receipts hold, what was verified stays, the store is only added to | 1 publisher, 2 bundles that share a payload, 2 exports, 1 crash, client failure or reorganisation | 356,000 |
| `Checks_race` | a status rests on runs or on somebody with authority, a pass shows to whoever has indexed it, nothing answered is taken back, for the loser and the winner of a race | 2 processes, a hypothesis whose list repeats a recipe and names a neutral one, another with nothing to run; forged evidence and an edge over it in quarantine, the same edge and evidence without a status from a trusted import, a refuting edge over any one piece of evidence (MaxCited, Drafts), 2 runs, 2 records | 858,000 |
| `Searches_all` | complete means closed and the budget is exact; exactly the simple paths within the depth, no obligation hidden; a reported cycle is one, none is missed unless the search breaks off | every transition system of 3 states, 2 cases, budgets 1..4; every graph of up to 3 edges on 3 nodes, depths 1 and 2; every list of up to 4 edges on 4 nodes, room for 3 or 4 nested calls | 328,000 |
| `Shells_all` | the profile decides as the market does, states and amounts survive the round trip, every request is answered; one answer a record, about exactly its bytes, up to a value nested too deeply; a run of a recipe ends, leaves nothing when given up, admits that it cut the output | the checked-in profile's values, every abstract command and time class in every state; every stream of up to 7 symbols, of up to 5 with nested values, limit 1, requests with up to 2 wrong fields; 1 process and 1 child of it, 1 file, output within and beyond what is kept | 55,000 |

Why the bounds are enough. In the market every rule relates at most two
submissions or two challenges (one open challenge per submission, payouts over a
set) and one key to another; times matter only by their order with the
deadlines; amounts only by being zero, the minimum, or more (larger and unequal
ones are left to `Conserved`). Seven commands are the longest useful life of a
submission with a challenge. In the pad a conflict needs two processes and a
stale view one record in between; the third record lets a process build on
another's that was itself appended after a conflict. In `Commits` three records
make a head return after two others, and two requests that differ only in
effects, evidence or time are all a replay id must tell apart. In the outbox a
race needs two deliverers and one effect, head of line blocking a second effect.
An import rule looks at one payload and the one before it, and one rewrite can
fall between any two reads; what a second importer does to the first is what the
owner's commit does, to take the head. The search algorithms fail, when they
fail, on a node reached twice, a loop or a diamond, all of which three or four
nodes have. Where a theorem stands below, the bound does not matter for that
property; two importers at once, contexts beside a hypothesis, edges over several
pieces of evidence, hypotheses that share a recipe, and what may follow a nested value
in a record that is longer than one symbol, are left to those of `ImportsProofs` and
`ChecksProofs`. In `Checks_race` two runs are a pass that shows and a later failure,
two records a check that loses the race to an author, or an edge that raises after
one that counts.

Symmetry is used only where no property is a liveness property, over ids that no
definition orders. `CHECK_DEADLOCK FALSE` stands where the system may stop: a closed
bounty, a full log, a finished search, import or run, the end of an input. The bounds by
name: MaxRecords (records of a log), MaxPlans, MaxCommands, MaxRuns, MaxCited (pieces of
evidence an edge cites), MaxExports, MaxEdges, MaxWrites (rewrites of a directory),
MaxTrouble (crashes, failures, reorganisations). Submissions, challenges and effects
happen once each.

### Fairness

The repository has no scheduler, so liveness is relative to callers.
`Market!FairSpec`: advancing and settling need no one's permission in the code
(no identity is checked by either handler), and someone keeps trying with every
clock reading; nobody else is assumed to do anything. `Outbox!FairSpec`: someone
keeps calling `deliver_pending`, and a call that began makes its next step. Weak
fairness suffices, the lock included: it is held over two steps of a process
that cannot block. Handlers other than poison fail a bounded number of times.
`Runner` (in `MCShells!MCSpec`): the Python code makes its next step when it can,
timeouts included; the processes of the recipe are assumed to do nothing at all,
only to stay in their session, where the kill reaches them.

## Findings

1. `Market_zero_deposit`. `MarketPolicy` allows a minimum challenge deposit of
   zero and `_open_challenge` then accepts a challenge without deposit, but the
   invariant projection requires a positive one: every later command is refused
   with `INVALID_STATE` and nothing can be released. `NeverInvalid` proves that
   this is the only way to an invalid state.
2. `Outbox_snapshot`. The log and the journal are read one after the other
   without a lock; a commit delivered and acknowledged in between makes a
   healthy outbox look corrupt (`ACK_FOR_UNKNOWN_EFFECT`).

Seen in the source while modelling it, without a run of their own:

- `_read_last_nonempty_line` (`log.py:43-67`) stops at the first block of 4096 bytes
  that holds a newline, and the last byte of the file is one. Of a last record whose
  line is longer, `head()` gets the end, raises `JSONDecodeError`, and so does every
  later commit and append, while `verify`, `stats` and the doctor, which read by
  lines, find nothing wrong.
- An append cuts the log with `str.splitlines()` (`log.py:201`), which also cuts at
  U+2028, U+2029 and U+0085. `canonical_json_bytes` writes them as they are, so a
  media type or a policy version with one of them is admitted and stops every later
  append; again `verify` finds nothing wrong. `LogHolds` and `LogTrue` say what such
  a log still is: in order, and closed.
- `put_object` looks at the shape of evidence only (`validate.py:263-294`), and a
  status loads its evidence from the store, whatever record brought it
  (`pad.py:242-276`). So an edge with authority over evidence that somebody wrote by
  hand, or that was imported in quarantine, counts, although `README.md:20` says that
  verdicts are derived from replayable evidence and not asserted. `StatusEarned` allows
  this (`StoodFor`) and nothing else.
- A recipe may be neutral (`validate.py:30`), and the status of evidence may be the
  empty string (`validate.py:271`). `RecipeRecord` raises on the first and
  `EvidenceRecord` on the second (`core/graph.py:15`, `core/graph.py:29`): an edge over
  evidence that was made with a neutral recipe which the hypothesis lists, or a truth
  edge over evidence without a status, makes `status` raise for that hypothesis from
  then on.
- The index is built once in a process (`pad.py:68-71`): what other processes publish
  later does not show in the status it gives until it is started again.
- A line of less than a megabyte that nests too deeply, such as 1500 opening brackets,
  raises `RecursionError` in the decoder, the encoder or `freeze_json`, and neither
  `parse_canonical_json`, `process_line` nor the loop of the shell catches it: the
  service ends, where `data_adapter_jsonl.py:14` says that all boundary failures are
  answered. `StopsAtNested` says that nothing else ends it.
- Where `fcntl` is missing the lock of the log excludes nobody (`log.py:124-132`)
  and two publications can both succeed, one erasing the other.
  `Locking = FALSE` in `Pad` is that platform; only `AlwaysResolvable` holds there.
- Two publishers of one root may both find the local target absent, and the
  slower one then rewrites files behind a receipt (`adapters/local.py:39-42`); one
  that dies while it copies leaves a target that nobody completes, because a
  second attempt is refused as already published.
- A line of the local anchor log names no bundle, though its docstring says it is
  keyed by the bundle root.
- The order of refusal classes that `core/market.py` declares normative is not the
  order of the checks: a repeated command id is found before a malformed field.
- An abstract state with a bond and no submission counts as valid and loses the
  bond on its way through a `BountyState`; no reachable state is of that kind
  (`AmountsHeld`).
- For an empty policy or core version the Python planner raises where the one in
  Rust plans a record, so `Parity` is asked of versions that are stated.
- The doctor's search nests a call per edge of a chain: a chain longer than the
  interpreter has room for is answered by a `RecursionError`, and then nothing is said
  of cycles. `VerdictTrue` is about the other answers.
- A process of a recipe that leaves its session is out of the kill's reach.

## Proofs

Every theorem holds for all values of the constants that satisfy the named
assumptions of its module; hypotheses beyond them are stated here. TLC checks
the assumptions of every instance.

`MarketProofs` (`MarketAssumption`, and `NoneAssumption`: no
signed statement is the value that stands for none; `BountiesAssumption` for the last
three, which are about `MarketCalls`).

- `TypeCorrect`: inductive as it stands; one step per action, with lemmas for
  the bulk updates.
- `NeverInvalid`: `ValidState`, if `MinChallengeDeposit > 0`. Inductive together
  with `TypeOK`; the hypothesis is exactly what the first finding lacks.
- `Conserved`: needs that a bond of an absent submission is zero, which is why
  that is part of `Conservation`; each bulk refund is compared point by point
  with the state it leaves (`BulkCustody`).
- `MarketImplementsEscrow`: uses `TypeOK`, `Conservation` and the guard
  `ValidState` that every command has, not `[]ValidState`, so it needs nothing of
  the policy. `ReleaseRefines`, `LockRefines`, `CloseRefines` reduce each action to
  the lots it touches.
- `VerdictsAlwaysFresh`, `PrizesSurvive`, `DepositsAlwaysFollow` and `BondsAlwaysFollow`
  (together `StakesAlwaysFollow`). None is inductive: `sent` is all effects ever, so
  what an effect says must be tied to the state that caused it. The strengthenings say
  what every recorded receipt was signed over, what is still true of whoever was paid,
  and for each lot which effects about it were sent in which status (`DepositsTracked`,
  `BondsTracked`).
- `AlwaysContestable`. The decision of the function is the first failure in a list of
  checks, so an accepted command is one whose list is `Clear`, and a lemma for each
  handler says what that means (`VerifyClear`, `ChallengeClear`). After an acceptance
  the state is still one that `market_state_violations` finds nothing wrong with
  (`StillValid`), and no challenge of that submission is on file, because only what
  has been verified was ever challenged: that is the invariant (`Whole`).
- `AlwaysRightValue`. Every stake on record is one that a returned effect locked for
  the same party (`Backed`), and the reward is locked once, by the amount in escrow,
  and paid by nothing before it is settled (`Funded`). `TakenRight` keeps that for
  every handler. The sums are folds, which the community modules define by a choice
  and a recursion; `PaidOutFew`, `AmountOfOne` and `AmountOfTwo` find their values for
  the settlements `MarketCalls` tries, which split the reward in at most two.
- `CallsImplementMarket`: `ImplementsMarket`, that every call of the function that is
  taken is a step of `Market` and every other leaves it where it is. Its one hypothesis,
  `NoneIsNoReceipt`, says that the value for an absent receipt is not a receipt; it
  ranges over every value, so TLC cannot evaluate it. The invariant (`Sound`) is that
  what is recorded fits together (`Whole`), that amounts are natural numbers and no
  challenge has a deposit before it is filed (`Counted`), and that custody is a number
  for each party (`Holdings`).
  `SubmissionSeen`, `ChallengeSeen` and `EffectSeen` read the records and effects of the
  function as those of the machine. Both machines execute effects by a fold, which
  is shown to exist and to execute two lists one after the other (`ExecutionExists`,
  `CustodyOfBoth`). `CommitSeen` says once, for every handler, what remains to
  compare; a lemma for each outcome of each handler (`OpenBountySeen` to
  `CancelBountySeen`) compares it, and `PlanSeen` shows that the two ways to split a
  reward pay the same. `ReceiptSeen` and `ValidSeen` do the evidence and the check of
  the invariants.

`PadProofs` (`PadAssumption`; `Locking` except for the first): `AlwaysResolvable`,
`NeverLost`, `AlwaysVerifies` and `CheckpointsCertify` (together `LogsTrue`),
`IndexesSound`, and `IndexesCurrent` for one process, the one listed theorem whose
property (`IndexCurrent`, an incremental index is the rebuilt one) no run checks.
The invariant `LInv` says that one process is between taking and releasing the
lock, that what it has read is the log and its plan is bound to the head, and that
every checkpoint on the way certifies a moment that was. `PadTyped` is `TypeOK`, in
which one conjunct is not a matter of types: the log outgrows `MaxRecords` by fewer
records than there are processes, although each looks at its length before it
plans and publishes later. `Bounded` counts the processes at work (`Working`): one
that begins finds room, and a record is published by one that stops working. That
needs finitely many processes, at least one, which is all `PadAssumption` says of
them; and the lock, without which the log may shrink below what a checkpoint in the
store counts.

`CommitProofs` (`RequestsAssumption`: what is asked for has the types of the
planner's parameters; `OldLogsAssumption`: older logs verify and their commits have
receipts of version 1; `PlanningAssumption`). All of it takes hashes as injective,
as the module models them.

- `AlwaysReadable` and `HeadsAreUnique` (together `LogsHold`), `EffectsAreUnique`, for
  any choice of the lines that cannot be read back: these only take steps away. The
  invariant is only that the log verifies. That heads differ follows by a least
  element: two equal heads come from equal records, these from equal predecessors,
  and so back to the empty root, which is no hash. An effect id contains its replay
  id and so its predecessor, of which there is one successor.
- `AlwaysAsPlanned`. `BundleWasPlanned` goes through the ways to put a bundle
  together: each keeps the commit root of a plan, or is refused, and a commit root
  contains the whole command, so a record that validates is that plan's
  (`RootNamesContents`). `PayloadsAreNamed` does the payloads. The invariant `DInv`
  adds that every plan was granted and that each record has its entry in `handed`.
- `PlannersAlwaysAgree`, for requests of any length. The two write their checks
  differently, so each defect is compared with its counterpart (`PlannersAlike`), and
  the record field by field. That the plan validates (`PlansAreValid`) is the longer
  half: nothing was wrong with the request (`NothingWrong`), the record is read back
  into the contents it came from (`ReadBack`), and because no payload comes twice
  the refs are as many as the rows (`RefsCounted`). It holds for requests whose
  versions are stated (`PlannersParameters`); see Findings for the others.

`OutboxProofs` (`OutboxAssumption`): `Types`, `OneAckEach` and `AcksEarned` (together
`AcksAreSound`), `AcksKept`, and `RedeliveriesExplained` if the deliverers are finitely
many. Whoever holds the lock has read the journal as it is and is alone (`LockKept`),
and what is about to be acknowledged was performed (`AckedNext`). For redelivery,
`Explained` counts per effect the deliverers that have had their one delivery of it
(`Spent`): a delivery adds one to them, and only a failure takes one away.

`ImportsProofs` (`ImportsAssumption`, `ManifestsAssumption`):
`SnapshotsPublished`, `BundlesPinned`, `TruthsEarned`: what every stage found is
kept in the importer's locals (`Underway`) up to the commit and in the log after it
(`Recorded`), whatever happens to the directory. `ImportsTyped` is `TypeOK`, with the
limit on all payload bytes read so far. Those bytes are a fold over the payloads,
which the community modules define by a choice and a recursion; the section on sums
shows that such a fold exists and takes its elements in any order (`SumExists`,
`SumOfAny`), so that reading one more payload adds its size (`SumAppended`).

`BundlesProofs` (`BundlesAssumption`). `DirectoriesAreWhole`: while a publisher
exports, what it has written and what it has still to write are the bundle, and the
manifest is the last (`Exporting`). `PromisesAreKept`: every receipt names what a
store holds (`Receipted`, `Copied`) and every confirmed anchor is a final event or a
line that stays (`Confirmed`). Its hypothesis is that one process at a time
publishes; two are in the Findings.

`ChecksProofs` (`ChecksAssumption`, `ServingAssumption`).

- `StatusesEarned`: evidence in the store that carries the number of a run is that
  run's (`StoreVouched`), an edge of a check cites evidence of its own runs
  (`LogVouched`, `Upright`), and what a checker has done so far is what its job says
  (`JobsOK`); whatever else counts, somebody wrote.
- `PassesShow`: the record that shows a PASS stands in the log with an edge that counts
  and is in the index of its process, if that has one (`Shown`).
- `StatusesNeverTakenBack`: log, store and what each process knows of the log only grow
  (`KnowledgeGrows`), the restart of a process included, for it then reads all of it.
  So do the edges that count, and so does whatever makes the status raise
  (`CountedStays`, `RaisesStays`). No fact about runs is needed.
- `RunsEndClean`, about `Runner`: up to the judgement the output is only judged when
  nobody can write it any more, and afterwards nothing that was judged changes
  (`RunInv`).
- `AnswersAreRight`: `OneAnswerEach` of `AdapterShell`, for streams of any length, with
  nested values anywhere, and any limit of at least one byte. What the records of a
  stream are is a recursion over it (`Records`), which the language defines as a choice
  of a function; such a function exists (`SplitExists`), and there is one
  (`SplitIsOne`), so the records are the first line and those of the rest
  (`RecordsFirst`). While an oversized line is drained (`Pieces`), what was hashed, the
  CR kept back, the piece at hand and the rest of the input are together what was there;
  no LF is in it before the end of the piece; and whoever finds that LF has hashed more
  than the limit, because pieces are as long as they may be until the input ends. That
  is why the two tests of size, one with the delimiter and one without, agree. `TurnIs`
  does the CR at the end of a piece. That no request raises, so that only a value nested
  too deeply does (`NestedRaises`), goes through the fourteen checks of
  `_build_request`.

`SearchesProofs` (`EnumeratorAssumption`, `SearchesAssumption`).

- `CompleteSearches`, `BudgetsExact` and `CorpusesComplete` (together `ReportsTrue`): a
  visited state is in the queue, being asked or has been asked every case
  (`Worked`), and the answers counted are so many per state (`Counting`). The last
  two use that what can be reached is the least closed set.
- `DiagnosesTrue`. The nested calls are a path of different nodes (`Nested`); a node
  that was visited and left leads only to such nodes, and no cycle is among them
  (`ClosedDone`, `Acyclic`). When a node is left, a new cycle would go through it
  and so lead back to it through nodes that are closed without it.
- `TransfersTrue`. `Sound`: an entry of the queue is a walk from the start, and an
  answer one that ends at the target. `Complete`: of every path that should be
  found, the answer has it or the queue a beginning of it. That what is found are
  the paths of the definition (`PathsAre`) is the last step.

Only model-checked:

- liveness (`EventuallyClosed`, `EventuallyAcked`, `RunsEnd`), which needs ENABLED
  and fairness and is beyond the prover;
- `StandsIn` of `SingleSlot`: it is about one profile with its amounts and deadlines,
  whose every command, clock reading and state the run goes through, so nothing is
  left that a bound cuts off.

## Not modelled

Hash functions, signatures and canonical encodings are taken to be what they are
meant to be. Disk failure, partial writes below `os.replace` and skipped
directory syncs are not modelled.

- Mechanism and gamification: integer scores and points from the fields of one
  value; no state or order, and a reference would restate the formula.
- Validation (`validate.py`, `schemas.py`) and the doctor's reference checks:
  field by field and object by object.
- Command line and terminal interface: parsing of arguments and rendering.
- The loader of the single-slot profile: it reads files and compares hashes.
- Queries on the index and how `pad.transfer_paths` and `pad.status` load objects.
- The rest of the Rust core: a canonical writer and checked amounts.
- The comparison of an anchor's transaction and block references (`chain.py:147`,
  `chain.py:155`), on which no verdict of `Bundles` rests.
- The Tau policy evaluator beyond the constant facts `tau.py` gives it.

Of the hazards in `PROJECT.json` one is covered in part: two publishers of one root
at the same moment (see Findings). Nothing in the repository says what should happen.
