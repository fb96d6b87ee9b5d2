# Verification of pirml

pirml runs programs that call tools. A program is a subprocess that speaks a
line protocol (NDJSON frames on stdin and stdout) with a supervisor; the run
leaves a trace and a final result, can be replayed from its trace, and keeps
large data in a content-addressed artifact store. Around this core are a
recursive kernel for generated code, a web pipeline with a shared cache, an
evaluation runner, a tool search, a program compiler, a bridge to a host
program, and commands.

This directory holds TLA+ models of these parts, TLC instances of them, and proofs
that TLAPS checks. Line numbers refer to the sources under `src/`.

## The system

| Component | State | Operations | What is hard | What makes it correct |
|---|---|---|---|---|
| Line protocol (`runtime/rpc.py`) | `StreamValidator`: calls and results seen, last id, finals | `validate_frame`, `validate_trace`, `validate_strict_trace`, byte cap | a progressive validator whose verdict on prefixes must agree with that on whole traces | ids ascend, a result follows its call and is the only one, one final and last |
| Live supervisor (`runtime/exec.py`, `policy.py`, `tools.py`) | process, pipes, reader thread and its queue, validator, sequence number, trace, rows | spawn, read, stamp, validate, execute with retry and policy, write, reap, finish | a program that does anything, full pipes, deadlines, a failure between effect and log | the trace obeys the protocol, results are the supervisor's, trace, final and exit code agree, tools run within policy, the run ends |
| Replay supervisor (`runtime/exec.py`) | the plan (call ids, recorded results), the same trace state | plan, compare, answer, compare finals | a changed program, a damaged source | no error means the run was reproduced |
| Program side (`runtime/rpc.py`) | shared counter, pending futures, reader task and its thread | `call`, `AsyncRpcClient`, `send_final`, `send_custom` | fan-out over two pipes, cancellation, a thread that cannot be interrupted | every call returns its own answer |
| Artifact writers (`runtime/trace.py`, `cli.py`) | trace, final, metrics | write each file of a run | a kill between or within files | a reader knows whose files it reads |
| Artifact store (`artifacts/`) | files, SQLite index, ledger `trace.ndjson` | `put_raw`, `put_json`, `put_view_stream`, `materialize`, `rebuild_index`, lookups | three writes without a transaction, several processes, an index unlinked under them | what is named has its bytes, the ledger can rebuild the index |
| Recursive kernel (`rlm/`) | history, sub-call counter, semaphore, variables of the generated code | `run`, `llm_query`, `amap`, `get`, `put` | budget under concurrent sub-calls, a timeout looked at rarely, tasks a failed map leaves behind | sub-calls stay within the budget and the bound on parallelism, a result is that of whole code |
| Context governor (`rlm/governor.py`) | none | `pack_ctx`, `apply_cohesion_rule` | cap, critical items and cohesion at once | what is weighed stays within the cap, with the goal in it |
| Web fetch and cache (`web/fetch.py`, `web/cache/sqlite.py`) | meta and body tables | conditional GET, `put`, `mark_304` | a row read before the request and used after it, two processes | a document was the page's content |
| Web pipeline (`web/`) | the rows of a shard | search, fetch, extract, cite | fan-out with failures | a citation has its document in the trace, a shard ends |
| Evaluation runner (`eval_runner/`, `eval.py`) | one file per shard, trace stubs | resume, judge, replay check, append | a crash within an append, two runners | every task has one verdict, a shard can be resumed |
| Reports (`report.py`, `reporting.py`) | pointers, report, pareto | merge, count, write | files of other processes | what is published is in the files |
| Host bridge and extension (`ux/`, `scripts/pirml_run.py`, `spawn.ts`) | a run directory, links to the last run | run, read, point, project, summarise | two timeouts, a kill, artifacts of an earlier run | a run is told its own result |
| Compiler (`compiler/`) | one attempt, a directory | find tools, ask, extract, verify, try out, publish | a program that outwits its harness, files of an earlier attempt, a failing write | nothing unverified is published, exit code and files agree |
| Tool search (`toolsearch/`) | three caches | load, rewrite, rank, boost, cache, hydrate | keys coarser than the query, manifests edited meanwhile | a cached answer is the answer |
| Tool manifests and lint, artifact view DSL, product shell, operator scripts | files | commands | - | - |

Components talk by function calls, except: program and supervisor by two pipes;
reader thread and supervisor by a queue; processes over one artifact root by
its files and the SQLite database; the shards of the web pipeline by the cache;
evaluation runners, their successors and the report by the shards' files; bridge,
command line and extension by exit code, files and links; the compiler and the
program it tries out by a pipe.

`PROJECT.json` lists the components with what is modelled of each, and the
hazards with their lines: what can go wrong, and which property would show it.

## The modules

| Module | Models | Uses |
|---|---|---|
| `Protocol` | the validator as operators on a record | |
| `RunLog` | abstract: a run as readers of its artifacts see it | |
| `Supervisor` | `run_live` | `Protocol`, implements `RunLog` |
| `Replay` | `run_replay` | `Protocol`, implements `RunLog` |
| `AsyncRpc` | the program's helpers against a supervisor | `Protocol` |
| `ArtifactStore` | the store under several processes | |
| `EvalShard` | runners, their crashes, the report | |
| `WebPipeline` | shards, cache and changing pages | |
| `Order` | `sorted()` and the picking of elements, as operators | |
| `Governor` | packing a prompt, as operators | `Order` |
| `RlmKernel` | the kernel under arbitrary code | `Governor` |
| `RunBridge` | extension, bridge, command line, projection | |
| `Verifier` | the checks on a contract and a program, as operators | |
| `Compiler` | an attempt, its try-out and its files | `Verifier` |
| `ToolSearch` | catalog, ranking, caches, choice of tools | `Order` |
| `*_proofs` | the theorems on the module of that name; `Program_proofs` those on `AsyncRpc` and `Replay`, `Prompt_proofs` those on `Order`, `Governor`, `RlmKernel` and `ToolSearch` | |
| `MC*` | the instance of a module for TLC | |

An operator under a comment "A slip" is not part of a model: it is a mistake the
code could have, which shows that a property notices it (`mutants` in
`PROJECT.json`).

**Protocol.** `Accepts` is "validate_frame does not raise", `Record` what it
remembers, `ValidateTrace` and `ValidateStrictTrace` fold them over a trace.
`WellFormed` states what an accepted trace means without the state machine. An id
`cNNNNN` is its rank, every other id is `NoId`: the code only compares ids for
equality and order, and the lexical order of ids of five digits is the numeric
one.

**RunLog** is the abstract specification of a run for whoever reads its
artifacts: a log that grows, calls answered before anything else is taken, one
final at the end, one verdict (exit code 0, 1 or 2 with artifacts, or without them 2,
or Python's 1 for an exception that `main` does not catch).

**Supervisor.** `pc` is where the loop of `run_live` stands:

| `pc` | code |
|---|---|
| `read` | `_read_program_frame`, stamp, validate, append (522-547) |
| `call` | `_require_call_fields`, deadline, policy (548-570) |
| `tool` | one `registry.execute` of `execute_with_retry` |
| `fit_ok`, `fit_error` | build the result and bring it under the byte cap (578-589) |
| `reply_ok`, `reply_error` | validate, write, log the result (590-593) |
| `wait` | `proc.wait(timeout=5)`, kill (597-602) |
| `shutdown`, `close` | `_shutdown_process`: terminate; close the pipes, read stderr |
| `finish` | made-up or projected final, `normalize_frames` (612-626) |

The program writes any line of `Emittable` at any time, reads or does not read,
closes its pipes, leaves a process behind that inherited them, exits or stays. A
pipe holds `PipeCap` lines, so a write blocks; whether a result fits the byte cap is settled
before (`ResultFits`, `ResultUnfit`), so that nothing but room in the pipe, or its end, lets
the supervisor out of the write. The reader thread moves lines to an
unbounded queue and ends with the output or with the first line it cannot parse.
A line carries flags for what the code tells apart: whether it passes the byte
cap, has its fields, says ok, and how many rows still fit in a final. `Deadline`
lets the global timeout pass at any moment; only the code's own checks see it.
`unflushed` is the text left in the writer's buffer after a failed write, whose
second failure in `close()` leaves `run_live`.

**Replay.** Its initial states are all traces that a live run of a script leaves,
whole, with an unanswered call at the end, or with a gap in the numbers; the
program is the same script again or a changed program that writes any line of
`Drift`. The loop is modelled as in `Supervisor`, with the pipes reduced to their
outcomes (a line, the end, an error, a broken write). `Exchanged(s)[n]` is what a
live run has written when it has read `n` lines of the script `s`.

**AsyncRpc.** Tasks on one event loop call through an `AsyncRpcClient`, whose
reader loop reads in an executor thread; then a blocking call after the client was
stopped. The supervisor is reduced to: pump, validate, answer one call at a time,
kill. A write to a full pipe holds the event loop (`holder`).

**ArtifactStore.** Every write another process can see is a step: the file
(`atomic_write`), the row, each parent, the frame of the ledger, and its newline
when the frame exceeds the file's buffer. A put and a rebuild share the steps of
the index (`InsertRow`, `InsertLink`), as the code shares `ArtifactsIndex.put`.
`dbs` is the sequence of database files: a rebuild appends a new one, and a
connection keeps the file it opened. `Fails` ends the operation of a process at
any step, with or without the process.

**EvalShard.** `Starts` reads the file once (`_load_existing`), and refuses one
that is torn, has a gap or two verdicts for a task; then each task is skipped or
judged (`Judges`, with its trace stub) and its row appended. A runner dies
anywhere, also in the middle of an append: the row may lack its end or its
newline, and then the next runner's row continues the line. Nothing keeps two
runners from the same shard. `faulty` remembers the shards where a row was torn or
two runners met, which the properties except and nothing else looks at. The
report takes the verdicts of all files and writes its three files in order.

**WebPipeline.** A fetch is `Requests` (read the cache, send the validator),
`Answered`, then `Marks` and `ReadsBack` after a 304, or `PutsBody` and `PutsMeta`
after a 200: each statement of `SqliteCache` commits by itself. Pages change
between any two steps, a site may send no validator, a shard may die anywhere.
`raced` remembers the pages two shards fetched at once. A shard ends with its rows
(`written`), with a search that failed, with an answer that raised, or dead.

**Order.** `Ranked(S, R)` is the set `S` in the order `R`, a set of pairs: an element
stands where as many are in front of it. `Picked(seq, I)` is a comprehension over a
sequence. All sorting and filtering in `Governor` and `ToolSearch` is one of these.

**Governor, RlmKernel.** `PackCtx` and `ApplyCohesion` are the two passes of the
governor over items of a cost and a relevance. `prompt` is what an iteration offers to
it, `Kept` what it keeps, and `Sent` the tokens of the prompt, which begins with the line of
the goal whatever is kept (`PromptCost`). In the kernel the generated code may, at each of
its steps, set `Final`, print, query, put, begin a map (awaited or failing), catch what was
raised, come to its end, or never come back. Tasks of a map that failed go on: into
later iterations, and into the next run of the same kernel, whose counter they
increment.

**RunBridge.** A command line writes trace, final and metrics, each emptied before
it is filled (`CliWrites`), may hang, and outlives a bridge that is killed. It may raise
instead (`CliRaises`): what `main` catches (`cli.py:205-210`) is exit code 2, anything else
Python's 1, and neither writes more files; `returned` tells the runs that did not. The
bridge waits, kills its child at its timeout, reads `final.json`, writes the
pointer, projects the last run link by link, reads the first row of
`metrics.csv`, and summarises. A file is known by the number of the run that wrote
it, which is how a property can say that a run was told another's result.

**Verifier, Compiler.** `ContractErrors` and `ProgErrors` collect the codes of
`verify.py` and `policy.py`; `Verified` is the verdict after the repair. An attempt
finds its tools, asks the model, takes the text apart, verifies, tries the program
out and publishes. In the try-out the program's coroutines call, overlap, are
cancelled, catch the exit of the harness, and print lines of their own: finals, what is no
frame, and calls and results through `pirml.runtime.rpc`, which the verifier lets them import.
A line remembers `by` whom it was printed, which only properties look at. The directory keeps
the files of earlier attempts; a write empties the file first. A failure outside the `try` of
`compile_task`, of the directory or of an error file, leaves `main` by a `Traceback`, exit
code 1.

**ToolSearch.** `LoadCatalog`, the rewriting of a query, both backends, the two
boosts, the ceiling on names, the three caches with their keys, and hydration
(`Hydrates`), which reads the manifests of the ranked names again from their files,
while `Edits` change the directory between any two steps.

## What the runs check

| Run | Module | Shows | States |
|---|---|---|---|
| `live` | MCSupervisor | protocol, forged results, answers, final against trace, replayability, tool audit, `RunLog` | 1,059,000 |
| `live_ends` | MCSupervisor | a run ends, whatever its program does, unless it is held in a write or in the shutdown | 119,000 |
| `live_emits` | MCSupervisor | violated: a run may leave no artifact | |
| `replay` | MCReplay | a replay without error reproduced the run; answers in order; no false alarm; `RunLog` | 12,700 |
| `fan_out` | MCAsyncRpc | ids, order of answers, a poisoned client wakes its waiters, every call returns | 22,000 |
| `store` | MCArtifactStore | files, ledger and index under failures and a rebuild | 167,000 |
| `eval` | MCEvalShard | shards can be resumed, a runner that ends has judged all, what was published stays true | 964,000 |
| `web` | MCWebPipeline | documents are the page's, citations have their frame, shards end | 447,000 |
| `kernel` | MCRlmKernel | budget, parallelism, result, prompt, termination of code that returns | 192,000 |
| `bridge` | MCRunBridge | a run is told its own result, the projection is of one run, bridges end | 826,000 |
| `compile` | MCCompiler | what passes a try-out, what is published, what the exit code says, attempts end | 647,000 |
| `tools` | MCToolSearch | caches do not show, what is shown is what was ranked, an exact name comes first | 971,000 |

`live_emits` states what a document says; its counterexample is the finding in `PROJECT.json`,
and it was reproduced with the code. The other statements of documents that the code does
not keep are at the end of the MC modules, each with a `.cfg` of its own (below).

### Refinement

`RunContract` in `live` and `ReplayContract` in `replay` state that `Supervisor` and
`Replay` implement `RunLog`, under the mapping of frames to entries of the log and
of the end of `run_live` to a verdict. `RunBridge` starts from what `RunLog`
promises: exit code 0 or 1 with a final, or 2 or Python's 1 without.

### Bounds

- `live`: three lines of the program out of twelve kinds, one line in each pipe,
  four tools. Three lines are enough for a call, its forged or late result and
  what follows; one line makes both pipes full; the tools cover the policies that
  the code tells apart (none, idempotent, not idempotent, refused). One row fits in
  the made-up final, so that the second answered call exceeds it.
- `live_ends`: three kinds of lines, and a process left behind.
- `replay`: seven scripts of at most three lines, two calls, each damage, each
  combination of answers; a changed program writes up to six frames of ten kinds.
- `fan_out`: three tasks and the blocking call, one frame in each pipe: the call
  of the third task meets a full pipe while answers wait in the other.
- `store`: two processes, three puts, one rebuild, one failure at any step; the
  theorems cover the rest. Two requests share their bytes, one has a parent and a
  long frame, one is a view.
- `eval`: two runners, three starts, one crash, three tasks (one fails, one is too
  long for the second configuration, one is fine), six rows a shard. The same suite
  is run in two shards and in one, which is how configurations change a shard's
  tasks. Three starts are a crash, the resumption and a resumption of that.
- `web`: two shards, a page that changes once, a page nothing can be cited from and a third;
  one shard asks for all three, and for the first page twice, with two fetches at a time, so
  that one fetch has to wait for another's place. One change is enough for a validator of one
  version beside the body of another.
- `kernel`: two runs of one kernel, two iterations, three sub-calls, two at a time,
  maps of three, two steps of code. A map of three is wider than the semaphore and
  fits the budget only if nobody else counts.
- `bridge`: two runs, two directories, every projection that may be there before,
  including a directory in place of a link.
- `compile`: two attempts, every program with the contracts that are sound, three of them
  with those that are not, and texts that cannot be taken apart; two of three tools share an identifier; the
  contract allows two calls, two in parallel, and few bytes, so that every budget is
  met and exceeded; five lines in a try-out, of which the program's own calls and results
  bear an id that the harness uses too.
- `tools`: two requests out of twelve, two edits, six directories, three files,
  four queries of which two have the same normal form and one is no pattern.

### Fairness

- `LiveSpec` of `Supervisor` (`live_ends`): the supervisor and its reader are threads the
  operating system runs, time passes, a tool returns. Of the program nothing is assumed:
  `RunEnds` says where it can hold the supervisor for ever, in a write to a pipe that is full
  (`HeldInWrite`) and in closing the pipes of a process left behind (`HeldInClose`), and that
  there is no third place.
- `FairRpcSpec` of `AsyncRpc`: the event loop, the executor's thread and the supervisor
  run. Nothing makes anyone cancel a task or kill the program. `EveryCallReturns`
  excepts what really may stop a call: the supervisor's timeout, a cancellation,
  and the orphaned read of a stopped client.
- `WebPipeline`: a shard works; `urlopen` has a timeout, so that a request is
  answered or fails.
- `RlmKernel`: the event loop runs the kernel and its tasks; models answer or fail,
  which their callables must ensure. Of the generated code nothing is assumed: there is no
  timeout around it (`kernel.py:113`). `RunEnds` is about runs whose code always comes back
  (`CodeReturns`); the others go on after their time is up.
- `RunBridge`: only the bridge's own steps. Of the command line nothing is assumed:
  the bridge ends because of its timeout.
- `Compiler`: only the compiler's own steps, among them the timeout of the try-out.
  Of the program nothing is assumed.
- `EvalShard`, `ArtifactStore`, `ToolSearch`: no liveness is claimed. They do one
  thing after the other and wait for nobody.

## What is proved

Every theorem holds for all values of the constants that satisfy the assumptions of
its module. No invariant below is inductive as it stands; the strengthening says
what each stage of the operation knows.

**Supervisor**, for every set of tools, policy, set of lines, pipe size and bound
(`SupervisorAssumption`):

- `TypeCorrect`: the types, with the bound on retries.
- `TraceIsWellFormed`, `ResultsAreTheSupervisors`, `EachCallAnswered`,
  `CleanRunsReplay`, `FinalsTellTheTrace`, `ToolsAreAudited`: the invariants of `live`.
- `RunKeepsContract`: `Supervisor` implements `RunLog` under the mapping that `Log`
  gives.

`RunInv` is their invariant. `FramesInv` relates the trace to the validator's memory:
every logged call and result was seen, and every call seen is logged, but a result
seen may be missing (the write broke). `StageInv` says that in `read` every call seen
has its result, and that while a call is served it is the last entry and the only one
without: this is why a forged result is always a duplicate or unknown. `NumberInv`
says that numbers have no gap before an error. `RowsInv` keeps the rows beside the
results in the trace, whose ids ascend because each is of the call in front of it.
`ToolInv` ties the count of executions to the retry counter. The step lemmas treat
`TakeFrame`, `SendResult` and `Finish`, which write the trace, one by one; all other
actions leave it alone and share a lemma. For the contract, each of the three is a step
of `RunLog` under the mapping of frames to entries, and the rest a stutter or the loss
of the run.

**Replay**, for every set of scripts a live run accepts, of any length, and for every
changed program (`ReplayAssumption`):

- `CleanReplayReproduces`: `ReplayFaithful`, what a replay without error means.
- `AnswersAreTheSources`: `AnswersInOrder`, for replays that fail too.
- `SameProgramSameTrace`: `SameProgramMatches`, no false alarm: the same program
  against an undamaged source writes the source's trace again.
- `ReplayKeepsContract`: `Replay` implements `RunLog`.

`ReplayInv` has four parts: the calls of the source ascend and its rows answer the
first of them (`SourceOK`); how far the loop is (`StageOK`); every row so far is the
source's and has its frame, in order (`RowsOK`); what a run that returned without an
error has compared (`SameAsSource`).

`SameInv` is the invariant of the third theorem: the source is what `LiveRun` made of
the script (`SourceIsLive`), and as long as the program is the same and nothing broke,
the replay is where the live run was at that line (`WithLive`, one part for each place of
the loop): its trace is `Exchanged(script)[n].frames`, its calls those of the first `n`
lines. The lemmas before it say what `Exchanged` is at every line, by induction on the
line: a call adds two frames and every other line one, the numbers count the frames,
the calls are those lines that are calls, in order, so that their ids ascend.

**AsyncRpc**, for any number of tasks, any size of the pipes, with and without
cancellation (`AsyncRpcAssumption`):

- `NoAnswerIsLost`: `RoundTrip`, calls and answers travel in one order, none twice, and
  while the reader loop runs the call or the answer of every open future is on its way.
- `HelpersNeverMakeFatal`: `CallsAccepted`, no call of the helpers is refused by the
  supervisor's validator.
- `PoisonLeavesNobody`: `PoisonWakesWaiters`.

The argument is one row of ids: the answer the reader loop holds, those in stdin, the
call being served, those in the queue and in stdout, and the one being written
(`UnderWay`), of which the supervisor has yet to take the end (`Untaken`). `Order` says
that the row ascends up to the last id handed out, and that the untaken ones are beyond
every call taken; `Awaited` that an open future is registered and in the row. Every step
then has one of four effects on the row: it `Stays`, `Grows` at the end, `Drops` its
first, or a call `Passes` to the supervisor; a lemma for each effect carries `Order` over,
and a lemma for each action says which it has.

**ArtifactStore**, for every set of processes and requests, and any number of puts,
rebuilds and failures (`ArtifactAssumption`):

- `StoreTypes`: the types.
- `StoreResolvable`: `Resolvable`, from `FileInv`, which adds that the request of an
  operation under way has its file.
- `StoreCovers` and `StoreRebuilds`: `IndexCoversLedger` and `RebuildComplete`, from
  `CoverInv`. It says what an operation has put into the database it has open: at
  the k-th parent, the row and the parents before; at the ledger, everything; in a
  rebuild, every line it has passed, but for the one going in. Databases only grow
  and the ledger is append-only, so what one process knows no other can undo, and
  each step needs to be looked at for the process that takes it.
- `StoreTells`: `LedgerComplete`, from `LedgerInv`: every id in any database file is
  accounted for, and what a rebuild puts is in the ledger already.

**Compiler**, for every set of tools and submissions, any try-out and any number of
attempts (`VerifierAssumption`, `CompilerAssumption`):

- `RepairIsIdle`: the repair never changes a verdict. It moves the schema of the
  final as the verifier's alias does, so what it makes of a refused contract is
  refused again.
- `PassedMeansOrderly`: `AcceptedTrace`, from `TraceInv`: until the harness prints a final
  that says failure, the calls made through the tools so far keep every rule of the contract
  and the harness's lines of them are in order, whatever the program prints between them
  (`Tidy`); a program that passed has one final, which says ok, so that it never broke any.
- `NothingUnverifiedIsPublished` and `ExitCodeMatchesFiles`: `PublishedRuns` and
  `VerdictOnFile`, from `IInv`. The step of interest is `Verifies`: `AcceptedRuns`
  shows that a pair without error codes runs as its contract says, which `IInv`
  carries through the try-out to the writes; the rest of `IInv` says which files
  are this attempt's at each stage, and that an attempt which wrote its error file is at its
  end, so that the one that ends by a traceback has none.

**RunBridge**, for any number of runs and directories (`BridgeAssumption`):

- `BridgeTypes`: the types.
- `RunsAreToldTheirOwn`: `OwnResult`, from `OwnInv`: a directory that is not shared
  has no other living command line (`Alone`), a run that came to its end
  has written its final (`Written`), nothing is read before the command line is over
  (`Over`), and what was read is the run's (`Told`).
- `ProjectionNamesOneRun`: `ProjectionOfOneRun`, from `LinksInv`, which says which
  links are gone and which are set at each of the steps of `project_last_run`, and
  from `FilesOK`: where there is a final there is a trace, so that both links are set.

**ToolSearch**, for every catalog, weight, query and number of edits
(`SearchAssumption`):

- `SearchIsDeterministic`: `Deterministic`, from `CacheInv`: every entry of the three
  caches is what would be computed for its key, and the key of the search cache
  was once asked.
- `ShownAreTheRanked`: `ShownIsRanked`, from `ShownInv`: the catalog maps a name to a
  manifest with that name, which stood in the file of that name, or the search was
  refused.
- `NamedToolIsFirst`: `ExactFirst`. Weight and ties together are an order of the
  catalog's names (`WeightOrders`, which needs weights that can be compared,
  `WeightAssumption`), so that the ranked names are all names, each once; a boost is a
  `Picked` of the boosted and a `Picked` of the rest (`FirstKeeps`), so that the tool of
  that name leads, and the ceiling takes from the end. `SearchedInv` adds what the
  search in hand is about: its catalog was loaded from a directory that was there.

**EvalShard**, for any number of runners, starts, crashes, shards and tasks
(`EvalAssumption`):

- `EvalTypes`: the types.
- `ShardsResumable`, `PublishedStandsFast`, `FinishersJudgedAll`: `ShardResumable`,
  `PublishedStands` and `FinishedMeansJudged`, from `EvalInv`. A file no row of which was
  torn and where no two runners met is sound: numbered, each task judged once, each
  verdict with its stub (`SoundFile`). Its runner knows the file's end and its verdicts
  (`Aware`), which is what `_load_existing` read and what it appended since; on the other
  files nothing is claimed. `Reporting` says which of the three files of a report are of
  the verdicts it took.

**WebPipeline**, for every set of shards and queries and every history of the pages
(`WebAssumption`):

- `WebTypes`: the types.
- `DocumentsFresh` and `CitationsHaveFrames`: `Fresh` and `EvidenceParity`, from `WebInv`. On
  a page no two shards fetched at once, one fetch is in flight (`Alone`), the row of the
  cache holds body and validator of one version (`RowSound`), and a fetch knows at each of
  its stages the span of versions between its request and now in which its document lies
  (`JobSound`). `Framed` relates what is cited to the frames of fetches that are done.

**RlmKernel**, for any budget, code and number of runs (`KernelAssumption`):

- `BudgetHolds`: `WithinBudget`, from `BudgetInv`: what reached the model was counted
  first, and a task enters only below the semaphore's bound. The counting of tasks
  in the model uses the library's facts on cardinality.
- `OnlyWholeCodeReturns`: `ReturnsWholeCode`, from `ReturnInv`: as long as a run goes
  on, the state has no `Final`; only the end of code sets both.
- `GoalStaysInContext`: `GoalAnchored`, for every history and every state, however
  many items a prompt has: what is weighed stays within the cap, so that a prompt exceeds it
  by the line of the goal at most, and the goal is among what is kept. `PromptInv` says that what is offered is the goal, which is
  critical, and after it items that are not (`GoalFirst`). Sorted by relevance per token,
  the goal is first as long as it fits under the cap: its boost exceeds what any other
  item can have. So it is packed before anything else; the cohesion rule drops from
  the end of what is not critical, and would come to the goal only when nothing else
  is left, which is within the cap.

`TokenAssumption` bounds a relevance by twice the cost, and twice the cap by the boost.
Relevance counts words and cost counts a token for three characters or fewer
(`governor.py`), words are kept apart by a character, and the boost of 1000000 and the cap
of 8000 tokens are constants of the code. Without it a print of enough matching words
would displace the goal.

Every safety property of the runs that pass, invariant or action property, is a
theorem. Only model-checked is what needs fairness (`RunEnds` of the supervisor and of
the kernel, `EveryCallReturns`, `ShardEnds`, `BridgeEnds`, `CompileEnds`), which the prover does not treat.

### Induction

The prover cannot instantiate a theorem that takes an operator, as the induction
theorems of the library do, nor reason about `SelectSeq`, `SetToSortSeq` and the folds,
which take one too. So a pass over a sequence is a recursive function in these modules,
sorting and filtering are `Ranked` and `Picked`, whose order is a set, and induction is over
a set of numbers: `UpTo` states that a set which has 0 and with each number the next has
all numbers up to a bound, from the library's fact that a set of naturals has a least
element (`NatLessThanWellFounded`, `WFMin`). `Recursion` uses it to show that a recursive
function has its equation at every number. `Follows(g, base, step, k)` says that `g` is
that function up to `k`.

## Simplifications

- All: payloads, hashes, time stamps and wording are left out, unless a property
  compares them; then they are a model value, a number or a flag.
- `Supervisor`: a tool may hang, which nothing in the supervisor ends but the tool's
  own timeout; how long tools take is not modelled. In `Replay` a recorded answer is
  taken to fit under the byte cap as it did live.
- `AsyncRpc`: calls of several threads of one program, an unparsable line on its
  stdin and ids past `c99999` are left out.
- `EvalShard`: the report reads all files at once; comparing with an earlier report
  only changes its exit code and is left out; the dataset does not change.
- `RlmKernel`: a direct `llm_query` is not under the semaphore, as in the code; tasks
  left by an earlier run of a kernel count against the next run's budget, as in the
  code; the timeout is one event, looked at once in an iteration. The kernel's history has log
  events only (`kernel.py:116`), so that the part of the cohesion rule that keeps a call with
  its result has no case in the run.
- `RunBridge`: `replay` of the bridge and `headless.py` are the same flow and not
  modelled apart.
- `Compiler`: the prompt is left out, as are writes of the program to the globals of
  the harness and a command line that argparse refuses, which begins no attempt; a line without an operation is one the parser ignores; of tools with
  the same identifier the one that is called is left open (`assemble.py:13`). The
  runtime does not enforce the budgets of a contract: only the try-out does.
- `ToolSearch`: a catalog is loaded in one step; the BM25 weight is any function of
  the index, the words and the name; names are numbers in the names' order.
  `search_with_cache` has no caller in the repository but tests.

## Not modelled

- The view DSL: canonical forms and slices of text. A view id is a model value in
  `ArtifactStore`.
- Tool manifests and lint but for the two questions the compiler asks
  (`ToolSearch`): validation and rendering of JSON.
- The product shell: sequential commands over files and the options of the other
  commands. Replacing the installed extension is the one hazard of a crash in it.
- The operator scripts: they read, check and format finished files.
- Metrics, tables and Markdown of reports; the citation map of the kernel's prompt;
  extraction, chunking and scoring of pages, of which only what becomes of a
  document is kept; the extension's glue inside its host.

## Disagreements between code and documents

The documents say what the code does not do:

| Document | Code | Shown by |
|---|---|---|
| `docs/handoff/002-pirml-v2-substrate-ops.md:13`: every run emits its artifacts | closing stdin raises past the made-up final (`exec.py:190`) | run `live_emits` |
| `cli.py:49`: a timeout on the run | looked at only before a frame is read and before a call; the write waits for a program that does not read (`exec.py:591`) and the shutdown for a process that stays (`exec.py:194`) | the exceptions in `RunEnds` of `Supervisor` |
| `docs/handoff/005-web-substrate-handoff.md:90`: no results are an answer, not a crash | `pack_citations` raises (`cite.py:68`) before there is an answer, and the shard writes no row | `MCWebPipelineAnswers.cfg` |
| `docs/handoff/006-spec-06-recursive-artifacts.md:90`: the timeout is enforced in `run` | looked at once an iteration, not around the code (`kernel.py:102`) | the condition of `RunEnds` of `RlmKernel` |
| `docs/adr/006-artifact-rlm-substrate.md:29`: a prompt never exceeds the cap | the line of the goal is not weighed (`governor.py:215`) | `MCRlmKernelCap.cfg` |
| `docs/adr/007-extension-surface-headless-protocol/01-execution-owner.md:26-28`: a failing command line makes ok false | any `final.json` in the directory is told, also an earlier run's (`runtime_bridge.py:107`) | `MCRunBridgeStale.cfg` |
| `docs/adr/004-compiler-l1-smoke-verifier/03-smoke-determinism.md:8`: traces of try-outs pass the lint | ids are not looked at (`smoke.py:161`), and a program may print frames itself (`verify.py:22`) | `MCCompilerForged.cfg` |
| `docs/adr/004-compiler-l1-smoke-verifier.md:17`: a program and a contract, or an error file | the contract is written after the program and may fail (`compile.py:171`) | `MCCompilerBranch.cfg` |
| `docs/adr/003-tool-search-discovery.md:45`, `:63-72`: the score ranks first, an exact name only among equal scores | an exact name comes first whatever its score (`search.py:67`), also where the better score is that of a tool whose alias it is | `MCToolSearchRank.cfg` |

A `.cfg` in the last column is no run of the project: `tlc -config MCRunBridgeStale.cfg
MCRunBridge` finds the counterexample within seconds, and so do the others.

`ExactFirst`, which the run `tools` checks, says what the code does; it and the rank of ADR 003
cannot both hold, and the ADR's line 113 expects the boosts to mask better scores. Line 85 of the
handoff on recursive artifacts says that the prompt and `Final` are anchored regardless of cost:
the goal has its line in every prompt, while as an item it is kept only when it fits
(`GoalAnchored`).

Seen while modelling, without a run of their own:

- A saved trace may skip a number after a result that could not be written, which
  `validate_strict_trace` then refuses.
- A blocking `call` after an `AsyncRpcClient` loses its answer to the read the client
  left behind; a call made after the reader loop ended waits for ever (`rpc.py:150`).
- The parity metadata of a replay may exceed the byte cap (`exec.py:758`), which
  makes the replay of a recorded run fail.
- A rebuilt index may give an id another kind than the index it replaces, when two
  puts of the same bytes named different kinds (`store.py:72`).
- Attempts that succeed, fail and succeed in one directory leave program, contract and an error
  file of different attempts; `VerdictOnFile` and `BranchLaw` speak of one attempt's files.
- The row of `metrics.csv` the bridge reads is the first run's of that directory.
- The key of the search cache normalises a query while its pattern and its
  namespace are taken from the raw text: ` svc.list` is answered with what was found
  for `svc.list`. `Deterministic` says so much and no more.

## Plan

1. Durations: the time a call with retries may take (`exec.py:570`), the one hazard
   of the supervisor without a property.
2. Threads of a program that call at once (`rpc.py:75`).
3. The product shell's replacement of the installed extension, and the manifest lint.
