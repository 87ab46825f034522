# AMCA core: specifications, checks and proofs

AMCA lets untrusted proposers (models, agents, tools) ask for things and lets
only accepted evidence decide what is true. The authority is a small core: an
event-sourced *run kernel* admits proposals, effects, evidence, approvals and
mutations into the log of a run; a *proof engine* evaluates the claims of a
final candidate against admitted evidence; a *release gate* decides whether the
candidate's message goes out; *ledgers* store the log. This directory holds TLA+
modules of that core, TLC configurations that check them on small instances, and
TLAPS proofs of what matters most, for every instance. Around the core stand
models of what feeds it and what reads it: the effect broker, the run harness, the
tool adapters, replay, projection and reconciliation.

Paths below are relative to `src/packages/` unless they begin with `docs/`.

## The system

| component | state | operations | talks to |
|---|---|---|---|
| run kernel `kernel/run-kernel.ts`, `in-memory-ledger.ts` | the log; one private list per kind of record; `#startedEventId`; `#stateRevisions` | `startRun`, two `submit*Command`, `record*` for effects, evidence, preflight, quarantine and approvals, `commitMutation`, `submitFinalCandidate`; all synchronous | proof engine, release gate |
| proof engine `proof/` | none | `evaluateProof(candidate, receipts, observations, time)` | |
| release gate `kernel/release-gate.ts` | none | `decideRelease(candidate, proof)` | |
| semantic ledger `ledger/` | a stream per run | append one event, read a run; the two validators every adapter uses | |
| ledger-backed kernel `kernel/ledger-backed-run-kernel.ts` | a kernel, `#appendFailure` | every kernel method, then one awaited append per event | kernel, event sink |
| local ledger `ledger-local/` | `events.jsonl` per run | read, validate, append a line; awaited file operations | file system |
| Postgres ledger `ledger-postgres/` | the table `amca_run_events` | BEGIN, lock, SELECT, INSERT, COMMIT or ROLLBACK; awaited statements | one client |
| effect broker `effect-broker/` | capabilities, adapters, preflight decisions, idempotency cache | preflight, dispatch; awaits adapters | adapters |
| run harness `harness/` | a kernel, a broker, recorded effects by id | dispatch and record, submit, re-evaluate, replay | kernel, broker |
| projection, replay `projections/`, `replay/` | none | fold a log; re-run a log through a fresh kernel | kernel |
| reconciliation `reconciliation/` | none | compare accepted and fresh evidence, advisory | |
| service, security `service/`, `security/` | runs by id, tenants | the harness behind capability and tenant checks | harness, projection, replay |
| contracts, protocol | none | parsers, canonical hashing, types | everything |
| tool adapters `adapters-tools/` | none between calls | execute a shell or compute profile, read a file, GET a page, call GitHub; await processes, files, responses, timers | operating system, network |
| Temporal and LangGraph adapters, conformance, capabilities, provider harness, observability, CLI, eval, fixtures | various | I/O, translations, static data | |

What is hard in it:

* *Unusual sequences of legal calls.* Callers choose event ids, evidence ids,
  approval ids, causes and dates, and may call any method at any time. The
  kernel must stay right through all of it, and a log that outlives the process
  must show that it did.
* *Throws in the middle.* `appendEvent` appends before it validates the event,
  and `submitFinalCandidate` appends several events one by one.
* *Concurrent asynchronous calls.* The ledger-backed kernel, both ledgers, the
  broker and the harness read state, await, and use what they read.
* *Failures.* Appends fail, answers get lost, connections break, writes are torn,
  processes restart over existing streams.
* *Time.* Evidence goes stale, approvals run out, clocks disagree, timers race the
  answers they wait for.
* *A world that moves.* A file is replaced between the check and the read, a
  process leaves children behind, a server carries out a request and its answer is
  lost.

What makes each part correct is stated with its module below.

## Modules

```
ToolCall <- ProcessTools, FilesystemRead, HttpObservation, GithubRest <- ToolAdapters
Checks   <- ToolCall, EffectBroker, ProofEngine

ProofEngine <- EvidencePool <- EvidenceProofs -> ToolAdapters
ProofEngine <- RunKernel <- RunKernelProperties <- RunKernelProofs
               RunKernel <- LedgerBackedKernel   <- StoredLogProofs  -> RunKernelProofs
               RunKernel <- Replay <- RunHistory <- StoredLogProofs
               RunKernel <- RunHarness           <- RunHarnessProofs -> RunKernelProofs
               (RunHistory uses RunProjection, Reconciliation)
EffectBroker <- EffectBrokerProofs    (RunHarness uses the first, RunHarnessProofs the second)

LedgerContract  used by  SemanticLedger, LedgerBackedKernel, LocalLedger,
                         PostgresLedger, Replay, RunProjection
SemanticLedger  <- SemanticLedgerProofs
LocalLedger     <- LocalLedgerProofs
PostgresLedger  <- PostgresLedgerProperties <- PostgresLedgerProofs
LocalLedger and PostgresLedgerProperties implement SemanticLedger
```

`A <- B` and `B -> A` read: B extends A. `MC*` modules hold the small inputs of a run, each beside its `.cfg`. Operators
named `X_Something` under a comment that begins with "Mutant" are deliberate
bugs: each property of a run is known to be violated when the definition named
before the underscore is replaced by one of them.

### ProofEngine and EvidencePool

`ProofEngine` is `evaluateProof` and `decideRelease` as operators. Data is
abstracted to what the evaluation tells apart: a hash is a value of the constant
operator `CanonicalHash`, a payload maps fields to values, a predicate pins
fields (`test_result`, `historical_action`) or compares one property of an
observed state (`current_state`). The rendered message is the set of claims it
states. `EvidencePool` is a state machine around them: receipts and observations
are admitted one by one, the clock moves, and in every state any candidate may be
evaluated. Its records include what no honest caller would hand over.

Run **evidence_pool** (2 claims per candidate at most, 7 receipts, 5 observations,
clock to 4; the bounds let every operator, both sides of every freshness limit,
shared claim ids, shared refs and future observations happen):

* `ProofsAreRight`: the verdict and the approved ids agree with `Witnessed`, a
  definition of evidence written from the meaning of claims and not from the
  engine's order of checks.
* `MessagesAreTrue`: the message states witnessed claims only, and all of them,
  also when two claims share an id; the gate releases only passing proofs without
  blocking mismatches, whoever made the proof, and a refusal names what blocks.
* `EvidenceRetractsOnlyByFailure`: later evidence unsays a claim only if it is a
  cited receipt that reports no success, and then it must.
* `TimeOnlyAges`: time alone changes only current-state claims, in the two ways
  it may. (An observation dated after the proof counts as stale until the clock
  catches up.)

### RunKernel

`RunKernel` is `InMemoryRunKernel` with its `InMemoryLedger`: `log` is the ledger
(the position is the sequence number), `kept` holds the private lists under the
event type that feeds them, `started` and `revision` are the two other private
fields. Each method is synchronous and so is one action. A call that throws
before changing anything is no step; a call that throws later is a step with
what it had changed by then: a lone event with a malformed date stays in the log
without entering its list (`RecordEvent`), and a final candidate's events stop
where an append throws (`AppendPlan`). Input objects have passed the contract
parsers; `wellFormed` is whether the event options' `occurredAt` is a date the
parsers accept. "identity" stands for the command, capability, tool and
idempotency key of a write, which the kernel always compares together. The
public `ledger` field, which a caller could append to directly, is taken to be
read only.

The promises (`RunKernelProperties`) are stated over the log, because the log is
what is stored, replayed, projected and audited:

* `LogIntegrity`: ids are unique and causes precede, whoever chose them.
* `PrivateStateFollowsLog`: the private state is what the accepted events carry, in their
  order, and the run the kernel remembers is the one the log starts with.
* `ReceiptsAnswerRequests`, `EvidenceResolvesUniquely`: receipts answer earlier
  requests; no two admitted records share an evidence ref.
* `MutationsAreSerial`, `CommitsWereProposed`: the commits of a state reference
  are one chain of revisions; each carries out a command proposed earlier, once.
* `CriticalWritesAreApproved`, `QuarantinesWereDecided`: an allowed critical write
  has a request and a grant of exactly its scope, in time, and no earlier denial
  or expiry; a quarantine is the one an earlier decision embeds.
* `ReleasesAreProven`: behind a `FinalReleased` event the log shows a released
  decision, a passing proof of this very candidate and, before the proof, genuine
  fresh evidence for every claim.

Run **kernel** checks them and `TypeOK`. Its inputs tell five stories (mutations,
approved writes, quarantined writes, receipts, observations); the constraint
`OneStory` keeps TLC to calls of one story, of four to six calls, on logs of at
most `MaxEvents` = 6 events before a call. The kernel decides about each kind of
record from its own kind of events only, so a mix of stories adds interleavings
that no guard can tell apart. Callers leave ids out, choose ids (with or without
a cause) that collide, and pass malformed dates.

Run **kernel_rejected** checks what a test and the architecture notes say of
malformed event metadata, that it fails closed (`RejectedCallsLeaveNoEvent`), and
finds it violated: the event stays in the log.

### LedgerContract and SemanticLedger

`LedgerContract` is the append check and the reader's check of
`ledger/semantic-ledger.ts`. `SemanticLedger` is the in-memory ledger and, at the
same time, the abstract specification of every ledger: one append-only stream per
run. What it promises (`StreamsReadBack`, `AppendOnly`) is proved, so it has no
run of its own; the adapters' runs check that they implement it.

### LedgerBackedKernel

`LedgerBackedKernel` composes `RunKernel` with its stream in a ledger. `Call(c)` is
a method up to its first await; the sink then appends, rejects, is unavailable, or
appends and loses the answer, for several callers at once and in any order.
`Restart` is a new kernel over the existing stream. History variables record how
each event's call ended.

Run **ledger_kernel** (2 callers, 1 restart, up to 4 events before a call, two
final candidates, one of which is released):

* `StreamMirrorsLog`: the stream is always a prefix of the log of a kernel that found it
  empty.
* `ReturnedIsDurable`: the events of a call that returned are stored where the
  kernel put them, with everything before them that the kernel accepted beyond the places the
  stream held when it started: of a kernel that found the stream empty, everything accepted
  before.
* `GapCloses`: an event the kernel holds but never sent (it threw after the append)
  leaves a gap, and the next call that tries to store something closes the kernel.
* `QuietMeansPersisted`: with no call waiting and no failure, the log is stored up
  to such an event.
* `NoSuccessOverInherited`: a kernel over a stream with events never returns
  success for positions the stream already holds.
* `CallsSettle`: every waiting call ends. Fairness: each promise of the sink
  settles, in whatever way (`FairSink`); nothing is assumed of callers.

A restart needs care. The new kernel is empty, so its first event is
normally refused and closes it; but if that first event was never sent (a
malformed date), its next one can be accepted as the second event of the old
stream. So `GapCloses` and `StreamMirrorsLog` are about kernels that found the
stream empty, and no property says that a restarted kernel writes nothing.
Nor is what a returned call rests on always stored by such a kernel: over an old stream of
three events, let `startRun`, an effect request, its receipt and a final candidate run at
once. Events 1 to 3 are refused, which fails their calls and sets `#appendFailure`; but the
candidate's loop (`ledger-backed-run-kernel.ts:304-316`) does not look at that again, its
events 4 to 7 fit the old stream and are stored, and its release returns although the receipt
it rests on is not in the stream. `ReturnedIsDurable` says what remains true: the places past
the inherited ones are the kernel's own, without a gap.

### LocalLedger

`LocalLedger` is the JSONL adapter: an append reads and validates, then awaits,
then adds its line. Interrupted writes leave nothing, an empty file, part of a
line, a line without its newline, or the whole line without an answer. `calm` is
history: per run, that no two calls overlapped and no torn text was left. An event's field
`parses` is whether the readers' parser takes it: an append checks shape, sequence and hash
only, and a reader runs `parseRunEvent` over every line (`local-jsonl-ledger.ts:139`), which
also wants a date in `occurredAt`.

Run **local_ledger** (2 callers, 3 calls each, 2 runs):

* `ReadsHideNothing`: a file a reader accepts contains every acknowledged event;
  a torn or doubly written file is refused as a whole.
* `CalmRunsReadBack`: while a run is calm its file holds every acknowledged event, and reads
  back exactly when every line in it parses. One acknowledged event whose `occurredAt` is no
  date makes the run unreadable, and closes it to further appends, without any race or torn
  line (see the findings; the run's inputs have such an event).
* `CalmRunsImplementLedger`: while a run is calm, its file changes only as the abstract
  ledger does. This is about what is appended, not about what a reader accepts.

Run **local_race** drops `calm`: two overlapping appends are both acknowledged and
the file becomes unreadable (`AckedReadsBack` violated). Not repaired by later
calls: a torn line or a missing newline makes the run unreadable for good, and so
does a file created without its first line.

### PostgresLedger

`PostgresLedger` is an append statement by statement over a server that is modelled
as far as the statements need it: read-committed snapshots, an error aborts the
transaction, `COMMIT` of an aborted or absent transaction answers without error,
the advisory lock and the unique constraints. A client serves its statements in
the order they were issued and owns the transaction. The row locks of
`SELECT ... FOR UPDATE` are left out, as the run's advisory lock comes first; a
pool as the client, on which each statement may use another connection, is not
modelled either.

Run **postgres** (3 callers on clients of their own, 2 runs, rivals for one
place, an altered payload, a wrong run, a type the table refuses):

* `AckedIsStored`, `OneWinner`: what was acknowledged stays stored; of the rivals
  for a place at most one is acknowledged, once.
* `ImplementsLedger`: the committed rows implement `SemanticLedger`.
* `AppendsSettle`: every call ends. Fairness: the server answers each statement it
  can run.

Run **postgres_shared** puts two callers on one client. Their statements
interleave in one transaction; the `ROLLBACK` of a rejected call ends the other's,
whose `COMMIT` then succeeds without its row (`AckedIsStored` violated). The
migration's type check also lacks five event types the contract accepts
(`MutationCommitted` and the four approvals): such appends fail at `INSERT`.

### EffectBroker

`EffectBroker` is `InMemoryEffectBroker`. Its state is the broker's maps
(`capabilities`, `adapters`, `decisions`, `cache`), per caller the dispatch it has
running, and as history every call of an adapter. Preflight and registration are
synchronous and one action each. A dispatch is two: everything up to the adapter's
await (`DirectDispatch`, `DispatchWithPreflight`: the checks in the code's order,
`FirstError` naming the one that throws) and everything after it (`AdapterAnswers`:
validation of the result, then the write of the cache). Hashes of commands are the
records of the fields they cover; message texts are left out.

Run **effect_broker** (2 callers, 6 commands sharing one key, 2 adapter calls, a
capability or an adapter that is registered again with another class or another
receipt type, adapters that succeed, fail, throw, answer for another effect or admit
their own evidence):

* `KeysRunOnce`: an idempotency key reaches an adapter twice only while the first
  call is unanswered, or when the first was a read that failed. A write is never
  repeated after its answer, however that was judged.
* `WritesAreCleared`: no write reaches an adapter but on the decision the broker made
  last under its preflight id, for this very command, with adapter and capability
  still as decided, whatever was registered in between.
* `ResultsAreBacked`: what a dispatch returns, cached or not, is what an adapter
  answered to an effect of the same run, capability, tool, class, key and arguments.
* `CacheEntriesStay`: what is remembered of a key, a quarantine above all, is replaced
  only by the answer to a call that overlapped another one with the key.

The exceptions for overlapping calls are what the code does and not what its test
says (`harness/src/local-run-harness.test.ts:132`): the cache is read before the await
and written after it, so two overlapping dispatches of one key both reach the adapter,
and the later answer replaces the earlier one's entry, a quarantine included. Two calls
of one key, and a third command after them, are all it takes; more calls repeat the same
races. `CONSTRAINT OneDrift` lets either the capability or the adapter change, not both;
the callers are symmetric.

### RunHarness

`RunHarness` composes `RunKernel` and an instance of `EffectBroker` with the state
of `LocalRunHarness`: `recorded` is its map of recorded effects, `jobs` is where each
caller's call is. A call awaits once, at the broker. The kernel calls it makes before and
after are steps of their own, because any of them may throw and leave the earlier ones
in the log; `busy` keeps other callers out of them, as JavaScript's event loop does. The
ids under which evidence is admitted are functions of the command id with characters
replaced (`SanitizeId`), so different commands may share them.

Run **run_harness** (2 callers, 3 calls, 4 commands: two whose ids collide once
sanitized, one without a key, one unknown; adapters that succeed, fail, throw, or give
evidence of another payload; candidates that cite what will have been recorded):

* `ReceiptsWereExecuted`: every receipt in the log was the answer of an adapter call
  the broker accepted, to a command the log shows as proposed before; no effect has two.
* `ReleasedClaimsHappened`: each claim of a released candidate is of something an
  adapter really reported. This is the promise of the whole system, from the adapter's
  answer to the release.
* `ResolvedIsRecorded`: the receipt and the observation a dispatch resolves with are in the
  log, under the events it names and after a request of the effect; and, unless two different
  commands share an effect id, the receipt is an adapter's answer to this very command.

### Replay, RunProjection, Reconciliation and RunHistory

`Replay` is `replayRunEvents`: it reads a stored stream, feeds it event by event to
a second instance of `RunKernel` (`Copy`, with variables of its own), submits the last
final candidate with the stored ids and time, and compares. A call of the fresh kernel
that throws ends the replay. When one throws is not said anew: `MayBeReadmitted` and
`MayBeSubmitted` put together the checks that the kernel's own actions have as their
guards (`CanRecord`, `ReceiptMayBeRecorded`, `DecisionMayBeRecorded`, ...), which is why
those are operators of what a kernel keeps. The stream may be a
cut of the run's log, or one with an event somebody rewrote into another that parses
(`Forgeries`).
`RunProjection` and `Reconciliation` are pure operators. `RunHistory` asks of every log
the kernel can reach what these readers make of it.

Run **run_history** (the stories of the kernel's run, of three to five calls, each ending
in final candidates, `ShortStory`; 4 fresh observations, 3 status summaries, 2 freshness
policies):

* `ReplayDecidesRightly` has three parts. `PassesVouch`: a replay that passes vouches for the
  stored decision, also in a stream that was tampered with: the evidence stored before the
  candidate, judged anew at the stored time, decides the same. `PassesRepeat`: of an untouched
  stream in which no mutation id is used for two commands, a replay that passes has repeated
  the run, event by event. And an untouched stream with one submission that was carried
  through does replay.
* `ProjectionIsCoherent`: a projection of any cut shows as released only what a decision
  released with every claim approved; while the last submission is carried through, status
  and released candidate agree; a projection of the whole log lists what the kernel keeps.
* `ReconciliationIsSound`: with distinct record ids, "consistent" is never said over a
  missing receipt, an unknown outcome, a state the world has moved on from or nobody looked
  at in time, or a lone contradicting summary; and it is said when everything agrees.

The provisos are the code's limits. `replayRunEvents` takes the last final candidate and
matches it with the first proof and decision after it, and refuses any before it, so a run
with two submissions does not replay (`replay-runner.ts:446`). The projection takes
`finalReleased` from any `FinalReleased` event and the status from the last decision, so after
a release and a blocked second candidate it shows both. Reconciliation keeps the first
record of each id, and the first summary in its own order.

### ToolCall, ProcessTools, FilesystemRead, HttpObservation, GithubRest, ToolAdapters

The tool adapters keep nothing between calls, so each module follows one call: `call` is
its locals and where it waits, `world` what it acts on. `ProcessTools` is the shell and the
controlled compute adapter: a process that writes, exits, hangs, cannot be killed or leaves
a child holding its pipes, and a timer and an output limit that race it.
`FilesystemRead` lets the disk change between resolving, looking, opening and any two chunks
of the read. A path may fail to resolve although a file is there (a directory that may not be
searched, links that go round), and what it leads to may be a directory or a pipe, socket or
device. What was opened stays open when it is removed or replaced, and changes when it is
written to.
`HttpObservation` follows redirects, each hop under its timer, and streams the body.
`GithubRest` checks scopes and branches, sends once, and throws when it cannot know
whether a write was carried out, so that the broker quarantines it. `ToolAdapters` picks one.

Run **tools** (a sound configuration and request of each adapter, and each of their parts
wrong in turn; output of up to 2 bytes against a limit of 1; files of up to 3 chunks against
a limit of 2; 2 disk changes; 1 redirect allowed against responses that go on redirecting;
writes that GitHub carries out and whose answer is lost):

* `ReceiptsTellTheTruth` says what a receipt stands for. "succeeded": a process that ended by
  itself with 0 and, in the shell, whose output was kept; a path that led into the root, to a
  small enough file, and content every part of which was in the opened file during the read; a
  2xx response read to its end from the origin first asked; a GitHub write that was carried
  out, or answered with a 3xx. "failed": a process that did not do so; a reason for not reading
  a file that was the case, as the adapter means it; a GitHub write that was not carried out.
  A failed read of a page or of GitHub claims nothing.
* `NothingRefusedIsDone`: a refused request starts no process and sends nothing, redirects
  are bounded and stay within the origin, what GitHub is sent is covered by one scope.
* `CallsEnd`: every call ends, unless the world keeps it waiting (`Excused`). Fairness: an
  awaited operation completes once it can (`FilesystemFairness`, `GithubFairness`), a timer
  that is set fires, and data, `close` and `error` events that are due are delivered
  (`ProcessFairness`, `HttpFairness`): the event loop runs ready callbacks. No process is
  assumed to exit and no server to answer.

Four waits have no timer and are excused: a descendant that holds a killed process's pipes,
since the shell's timer only kills the process and the call settles on `close`
(`shell-command-adapter.ts:822`, against `adapters-tools/README.md:75`); GitHub not
answering; its body not ending; and a pipe that took the place of the file after `stat` and
that nobody writes to. So `CallsEnd` says nothing of those hangs: the hazards list has them.

What a filesystem receipt does not say. The adapter does not look again after `stat`: what it
reads may be larger than its limit, behind a link made meanwhile, or come from a pipe.
`readFile` reads in chunks, each awaited (`filesystem-read-adapter.ts:253`): of a file that is
written to meanwhile the receipt's content may be a mixture that was never there at one
moment. And its reasons are coarser than their names: whatever `realpath` fails with is
`not_found`, a missing permission or a loop of links as well (`:176-190`), and whatever is no
regular file is `directory_not_allowed` (`:223`). `ReadReceiptIsTrue` and `ReadFailureWasSeen`
are worded to say exactly that, and no more.

Of GitHub the model assumes what HTTP says (`ServerAnswers`): a write answered with 2xx was
carried out, one answered with 4xx was not; a 3xx or 5xx says neither. The adapter takes every
status below 400 for a success (`github-rest-adapter.ts:404-406`), so the "succeeded" of a
write answered with 300 or 304 claims what nobody said, and `GithubReceiptIsTrue` excepts it.

`validateShellCertification` accepts more kinds than the README of the package says. A
GitHub base URL with a path (an Enterprise `/api/v3`) passes the check of bases, but resources
are parsed from the whole path, so every endpoint below it is refused; the run has such
requests.

## Disagreements with docs and tests

Three runs expect a violation: **kernel_rejected**, **postgres_shared** and **local_race**.
Six further disagreements were met while modelling and are recorded under "findings" of
`PROJECT.json`, each with the line it contradicts: the event types the migration refuses,
overlapping dispatches of one key, a service whose broker has no capability
(`service/src/local-amca-service.ts:49`), the shell's certification kinds, the shell's
timeout, and events the local ledger stores but cannot read. The passing properties describe the code as it is and name the exception.

## Proofs

What holds for all constants: any input sets, any hash (but see `HashesTellStatesApart`), any
number of callers, runs and events. Assumed is what the modules assume by name, checked by TLC on each run:

* `InputContracts`: what the contract parsers guarantee. Claims are a sequence, each
  of a known kind (`ClaimSchema` makes its type the kind of its predicate, so `evaluateClaim`'s
  comparison of the two is left out), freshness limits and times are integers, mutation
  commands name a state reference, `wellFormed` is Boolean.
* `NullIsNoEventId`, `NullIsNoError`, `NullIsNoValue`: the value for "none" is no event id, no
  name or code of an error, and no exit code.
* `ToolContracts`, `FilesAreChunks`, `OutputLimit`, `GithubStatuses`: the process cases are the
  shell's and the compute adapter's, a file's content is a sequence of chunks, limits are numbers
  (where the adapter's options are valid), the scopes of a GitHub adapter are numbered, GitHub's status codes are from 200 to 599,
  and the disk first seen is a disk. `ServerAnswers` is an action, not an ASSUME, and holds the
  one thing taken of GitHub: the meaning of 2xx and 4xx.
* `CallerNames`: a caller is not called "returned", "thrown" or "unsent".
* `PoolContracts`: as `InputContracts`, for the candidates and records of the pool, whose
  clock runs to a natural number.
* `ProposalKinds`, `EvidenceContracts`, `HashesTellStatesApart` (`RunHistory`): tool commands,
  mutation commands and final candidates have their kind; what is reconciled are finite sets and arrays of records with numbers for
  times; and of the states observed no two have one canonical hash. Only `ReconcilingIsSound`
  uses the last: a report compares hashes, and the property speaks of states.
* `IdsAreTold` (`Replay`): the ids in callers' options are `CallerIds`, and an option left out is
  none of these, no id the kernel makes, no list of ids, and not "no cause".
* `AnswerShape`: a well-formed receipt says "succeeded", "failed" or "unknown".
* `GarbageIsNoEvent`, `RequestShape`, `InterruptionKinds` (`LocalLedger`): torn text is not an
  event, a request is an event for a run, and a write is interrupted in one of five ways.
* `HarnessContracts`, `HarnessInputs`: the same for the harness's commands and answers, and that
  the options and requests it makes up itself are among those its kernel takes.
* `CallersHaveClients`, `NullIsNoClient`, `RequestShape` (`PostgresLedger`): every caller has
  a client, `Null` is none, requests are well-formed pairs.
* `OwnClients`, a hypothesis of the Postgres theorems and not an assumption: no two callers
  share a client. **postgres_shared** shows that it is needed.

### The kernel (`RunKernelProofs`)

1. `TypeCorrect`: `Spec => []TypeOK`, on which every other proof rests.
2. `LogStaysIntact`: each action extends the log by accepted events only;
   `SubmitFinalCandidate` by a prefix of its plan.
3. `ListsMirrorLog`: everything in a private list is the body of a well-formed event of that
   type in the log, and vice versa (`Mirrored`). The kernel decides from the lists and the
   promises are about the log; this strengthening makes them inductive.
4. `PrivateStateIsTheLogs`: the same with order and multiplicity, which `Mirrored` leaves open.
   A list is as long as its type has accepted events, and the body of an event is at the event's
   rank among them (`ListsInOrder`); the run the kernel remembers is the one its log starts with
   (`StartIsKnown`). A call adds at most one event of a kept type, at the end of both.
5. `ReceiptsAreRequested`, `CriticalWritesAreSafe`, `CommitsAreSerial`: from `TypeOK`,
   `Mirrored` and themselves; the approval promise also from `GrantsAreRequested`.
6. `CommitsAreProposed`: before every commit the log has a proposal of its command
   (`CommandsComeFirst`), and the command is the first one kept under its mutation id
   (`CommitsCarryFirst`). Two commits of one command would then have one base revision, which
   `MutationsAreSerial` excludes.
7. `EvidenceIsUnambiguous`: admitted records carry the hash of their content and cite only
   their own event (`EvidenceStaysSound`); event ids are unique, so records that share a ref
   are one.
8. `QuarantinesAreDecided`: from `DecisionsAreRequested`, that every decision in the log
   answers an earlier request for the same write and embeds its own quarantine.
9. `ReleasesAreSound`, the purpose of the kernel, in two halves. Evaluation: a claim the
   engine supports from the lists is shown by the log, because the lists mirror it and what
   it admits is sound. Release: the events of a submission are appended by one call, so
   the decision and proof behind a `FinalReleased` event are that call's, and no later call
   can add a mismatch to its proof.

### Evidence: the proof engine and the tool adapters (`EvidenceProofs`)

The engine. One equivalence carries its four theorems: a claim is *supported*, in the engine's
order of checks, exactly when it is *witnessed*, by the definition made from the meaning of
claims. The engine starts from the claim's refs of the right kind and pairs each with the records
it resolves to; the definition starts from the records and asks which are cited. `ProofsHold` and
`MessagesHold` follow in every state; `EvidenceNeverUnsays` and `TimeOnlyAgesHolds` compare what is
witnessed in two pools, or at two times.

The adapters. `ToolInv` is one inductive invariant per adapter, saying what a call's locals have
to do with the world at each of its awaits (`ToolsHold`):

* `ProcessInv`: what is kept of a stream is what was read, cut at the limit; what was read the
  process wrote; a process exists once it was spawned and ends in one way.
* `FilesystemInv`: the disk was seen in moments that follow each other, and may have changed
  between them: the path led into the root, the file there was small enough, it was opened
  (`FileIsOpen`), and each chunk read since was in it at some moment since.
* `HttpInv`: the hops are one more than the redirects, all of the origin first asked and each
  within the limit; only a 2xx response is read, and no more of it than the limit.
* `GithubInv`: nothing is done before it is asked for, a 2xx answer was preceded by the deed
  and one from 400 to 499 was not, and a write waits with the broker's key sent.

From it `ToolsTellTheTruth` and `ToolsDoNothingRefused`. That the checks before a request refuse
what they should is in lemmas of their own (`ArgsErrorNull`, `ScopedUrlErrorNull` and others):
when `FirstError` finds nothing, each check in the list held.

### The effect broker (`EffectBrokerProofs`)

`KeyInv` is about idempotency keys: what waits for an answer is the call listed for it
(`CallsAreListed`); a call answered without overlap is remembered under its key unless it was a
read that failed (`KeysAreRemembered`); and open calls of one key are known to overlap
(`OverlapsAreSeen`). These make `KeysRunOnce` inductive: `KeysHold`, `KeysReachAdaptersOnce`,
and `RememberedStays`. `WritesReachAdaptersCleared` needs no invariant, as a dispatch checks and
calls the adapter without an await between. `ResultInv`, that each accepted result is an adapter's
answer to its own request, intact and decided, and that cache and dispatches hold only such
results, gives `ReturnsAreBacked`: the cache answers a command with what was said to another
one of its fingerprint.

### The stored log (`StoredLogProofs`)

One half is about writing it, the other about reading it back. For the ledger-backed
kernel, the inductive invariant `LBInv`: the part of the stream this kernel filled is its own log
(`FilledByKernel`), a call's pending events are a run of positions of the log
(`PendingFromLog`), an applied append is stored (`AppliedIsStored`), and each event of a
call is stored or still owed (`FatesAreKnown`). The promises talk of returned calls only;
without what running calls still owe, a call could return with an event left out. From it:
`StreamIsLogPrefix`, `ReturnsAreDurable`, `InheritedIsNeverClaimed`, `QuietIsPersisted`.

`HistoriesAreRuns` says that replaying, projecting and reconciling change nothing of the
run, so the kernel's theorems hold of every history. A projection pushes the bodies of events
one by one (`BodiesAt`); `BodiesInOrder` says what comes out: the body of each event at its
rank among its kind, and nothing else. That is induction over the stream, made by taking the
shortest prefix at which it would fail (`LeastOf`).

* `ProjectionsAreCoherent` rests on `SubmissionsStayWhole`, an inductive invariant: each proof,
  mismatch, decision and release in the log stands in one uninterrupted stretch after the
  candidate it is about, and a release directly after the decision that released it. So what
  follows the last candidate of a cut is about it (`OfTheLastSubmission`), whatever came
  before. That a projection of the whole log lists what the kernel keeps is
  `PrivateStateIsTheLogs` with `BodiesInOrder`.
* `ReconcilingIsSound` needs no invariant but the types: `ReportsAreSound` proves the report
  right for any evidence with distinct ids. Of the fresh observations of a subject some are
  the latest (`SomeAreLatest`), which is why one that differs cannot be overlooked.
* `PassingReplaysVouch` is about a second kernel that runs beside the first. `ReplayInv`: while a
  replay goes on, the evidence the fresh kernel keeps is what the stream told so far
  (`ReplayKeepsUp`), by `ReadmissionRecords`, which says what a call for a stored event leaves.
  The resubmission then decides on just that evidence (`ResubmissionDecides`), and it is with
  this decision that the stored one is compared. Nothing is asked of the stream but that it
  parses, so it holds of a rewritten one too.
* `PassingReplaysRepeat` is about the two kernels side by side, over a stream nobody touched.
  About the run that wrote it, two invariants: `SubmissionsFollowPlans`, each proof, mismatch,
  decision and release in the log is the one its submission's plan sets at that place; and
  `EventsStayNamed`, each event has an id some caller chose or the kernel makes of place and
  type. About the replay, `ReplayRepeats`: what it has passed over holds no proof, mismatch,
  decision or release, the fresh kernel has at most one event for each event passed over, and
  if it has one for each, they are the stored ones. It may have fewer, for an earlier final
  candidate is passed over in silence, and then its events stand one place before the
  stored ones. But a replay that passes found all types equal, and the proof of the
  resubmission would then stand where the stream has the candidate or something before
  it, which is no proof: so nothing was left out (`NothingSkipped`). The resubmission starts from
  the log the stored submission started from: the evidence, hence the proof, is the same, its
  mismatches come in the one claim order there is (`ClaimOrderIsUnique`), and the stored
  ids are handed over in that order. That no mutation id is used for two commands is needed:
  the replay takes the first command of that id (`MutationProposalBefore`).
* `ReplaysDecideRightly` adds the direction no passing replay can tell: an untouched stream of
  one submission, carried through, is never refused. About the run, `InputsAreAllowed`: the
  log has a history of what the kernel knew before each event (its lists, its revisions, the
  run it is in), and each input was allowed by the checks of its method on what was known
  then. A guard is a fact of the moment of the call, and the log alone no longer shows it;
  with the history it stays a fact of the log. About the replay, `StepInv`: the fresh kernel
  holds the stored events before the next one and knows what the history knew there, so what
  was allowed is allowed again (`MayBeReadmittedAgain`). With one candidate nothing is
  passed over and nothing of a release comes before it (`BeforeTheCandidate`), so it arrives
  where the candidate is with the evidence the kernel had. There the plan of the candidate
  is of the stored types (`PlanIsMet`), its ids are free, since the stream's are unique
  (`PlanIsAppendable`), so it is carried out to the end (`CandidateIsCarriedOut`), and what comes
  out is the stored outcome (`OutcomeIsStored`): no note of divergence is left to make. With two
  submissions the proof fails where the code does, at the first proof in the way.

### The ledgers (`SemanticLedgerProofs`, `LocalLedgerProofs`, `PostgresLedgerProofs`)

`StreamsAreTyped`, `StreamsAlwaysReadBack` (the append check maintains the reader's check)
and `AcceptedHistoryIsKept` (an action property) about the abstract ledger.

For the JSONL files, `JsonlInv`: a pending write is of the run it was validated for
(`WritesAreOfTheRun`); what was acknowledged is in its file unless a torn line spoils the whole
(`AckedStay`); and a calm run's file is a stream, to which its one pending write may still be
appended (`CalmRunsAreStreams`). From it `ReadsShowAllAcked`, `CalmAckedReadsBack` (a calm file reads back
exactly when its lines parse), and the
refinement `CalmRunsFollowLedger`: while a run is calm, a step that changes its file is an
append of the abstract ledger.

For Postgres, with clients of their own, `PGInv` says where each caller's `Conversation`
with its server is: from the answer of the lock statement to the end of the transaction the
lock is its own, and what it read of its run still is what the table holds, since nobody
inserts into a run without the run's lock. So the append check, made on what was read, still
holds at COMMIT. `RunsAreListed` says that the rows of a run are numbered without gaps, which
makes reading them in sequence order an append at the end (`ListingIsInOrder`). From it:
`AppendsAreDurable`, `RacesHaveOneWinner`, and `TableImplementsLedger`, the refinement
`PGSpec => Abstract!Spec`: a COMMIT that takes effect is an append of the abstract ledger,
every other step a stutter.

### The run harness (`RunHarnessProofs`)

The harness is a composition, and its proofs use those of its parts. `HarnessDrivesBroker` and
`HarnessDrivesKernel` say that a run of the harness is a run of its broker and of its kernel (it
gives their methods only what they take), so that `LogStaysIntact`, `ReleasesAreSound`,
`ResultsHold` and the others hold of them here. `HarnessInv` joins the two: what a job carries
between its steps is an accepted call of its command (`JobHolds`), as is what the map of
recorded effects holds (`RecordedHolds`); accepted calls were proposed in the log
(`CallsWereProposed`); and evidence in the log is an accepted answer (`EvidenceHolds`). From it:

* `ReceiptsAreExecuted`: no receipt without an adapter's answer, no effect with two.
* `ReleasedHappened`: `ReleasesAreSound` shows a genuine record in the log behind each claim of
  a released candidate, and `EvidenceHolds` an adapter that reported it. This is the promise
  of the whole system, for any number of callers, commands, adapters and claims.
* `ResolvedStaysRecorded`: what a dispatch resolves with is in the log, for good.

### Only model-checked

* Liveness: `CallsSettle`, `GapCloses`, `AppendsSettle` and `CallsEnd`, which are about fairness
  and out of this prover's reach.

Every invariant, action property and refinement that a passing run checks is stated by a
theorem.

## Plan

Done: kernel, proof engine and gate; the ledger contract, the ledger-backed kernel and both
ledger adapters; effect broker, harness, projection, replay and reconciliation; the tool
adapters; the proofs above. What would come next, in order:

1. `AmcaService`, and the retry envelopes of the orchestrator adapters.
2. The readers over the very stream a ledger-backed kernel left behind, as one composed
   specification, where today the cuts of the log stand for it.

## Not modelled

* Parsing, JSON and canonical hashing are assumed right, as constants and assumptions;
  text rendering, redaction and audit reports are layout.
* Service and security policy: a map from run ids to harnesses, whose methods check a
  capability or tenant and delegate, with nothing between check and delegation.
* Temporal and LangGraph adapters: pure translations between envelopes and proposals.
* Adapter and ledger certification, capabilities: static data and its validation.
* Provider harness: a network client and text normalisation. Observability, the CLI,
  evaluation, fixtures: files, counters and demonstrations outside the authority.
* Direct use of the kernel's public `ledger` field, and a connection pool as the Postgres
  client. Two statements of different shared clients waiting for each other's locks: Postgres
  ends one with an error, which is one more failing statement.

## Running

    tlc -config MCRunKernel.cfg MCRunKernel
    tlapm RunKernelProofs.tla

and so on for the other `.cfg` files: each is named after its MC module, with a
suffix where a module has a second run. The runs take from a second to about three
minutes on two cores, the proofs of a module from some seconds to some ten minutes.
