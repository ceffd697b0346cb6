# A TLA+ development of the agent desk

The desk (`src/cmd/agent-desk`) is a single Go process that runs tools for
agents: a client submits a job over HTTP, the job is checked against the tool's
contract, queued, run in a sandbox by one of a few worker goroutines, retried,
and kept in a SQL table until somebody acknowledges its result. This directory
holds a model of the queue and the life of a job, of the requests that wait for
one, of what is enforced on a run, of the checks on a tool's folder, the contract's
schemas and `tcs-shim`, with TLC runs on small instances and TLAPS proofs for
every instance.

To check it (TLC and TLAPS with the community modules):

    tlc -config MCBacklog.cfg MCBacklog        # likewise for each MC*.cfg
    tlapm BacklogProofs.tla                 # likewise for each *Proofs module

## 1. Inventory

Each part, the state it keeps, what it does, and what makes it correct.

| part | state | operations | correct when |
|---|---|---|---|
| admission backlog, dispatcher (`queue.go`) | `pending` and `reserved` under `q.mu`, the one-token channel `wake`, the job channel `ch`, `stop` | `reserve`, `release`, `enqueueReserved`, `requeue`, `dispatch`, the loops of `worker` and `Resume`, `Stop` | the cap is never overshot and no slot leaks; no job is lost or doubled on its way; the dispatcher never sleeps on work; `Stop` returns |
| job life cycle (`queue.go`) | `q.jobs`, the `Job` values it points to, `q.cancels` | `submit` with deduplication, `process`, `finish`, `finishCanceled`, `Cancel`, `Ack`, `Get`, `Resume` | one execution at a time; one job per idempotency key; outcomes are final; table and memory agree; every answered submit ends |
| job store (`store.go`, `store_sqlite.go`, `store_postgres.go`) | the `jobs` table with a partial unique index on (tool, key) | `Insert`, `Update`, `Ack`, `LoadIncomplete`, `ListTerminalUnacked` | a lifecycle write never takes an acknowledgement back; the listings are in the order they promise |
| HTTP handlers (`main.go`) | none of their own; wait on the queue | submit with `?wait=`, wait, batch, inbox, wait-any, cancel, ack, output files | a client that waits is told in the end, and what it is told stays true; a batch names every job it has created; the inbox empties |
| strict enforcement (`executor.go`, `main.go`, `posture.go`, `seccomp.go`) | flags set at the start; the atomic `resourceLimitsOK` | probes, the list of `-strict`, the tests of each run, `GET /` | with `-strict` no job runs with less than promised; the status is true of what runs |
| execution and workspace (`executor.go`) | `data/jobs/<id>/in`, `out` | materialise inputs, run, audit `out/`, collect outputs | the outcome of an attempt is that attempt's, and no earlier process can change it |
| tools, pins, direct waits (`tools.go`, `integrity.go`) | the tool map, fixed after startup | load, verify the pin at load and before each run, print pins, the bound on a direct call | a pin keeps out what it was not computed from; a direct call waits as long as its attempts can take |
| preflight (`preflight.go`) | none | look for the programs a tool needs | it says what the sandbox will find |
| contract validator, lint (`internal/tcs`) | none | validate a JSON value against the schema subset; lint a schema | they agree with each other and with the meaning of the keywords |
| tcs library helpers (`internal/tcs`) | none | search paths, shebangs, hashes | the desk, `tcs-verify` and the sandbox find one program |
| `tcs-shim` | none across calls | make a command line of a template and the input; cap and shape the output | no data is taken for a flag; the answer is all the command wrote |
| `tcs-verify` | none | check the folders of tools | what it passes, the desk loads |
| settings, config | flags and limits, fixed at the start | | |

How they interact. A handler calls `submit`, which holds `q.mu` three times with
a call of the store in between: to promise a slot, to put the job in `q.jobs`, to
put it on the backlog. The dispatcher goroutine moves jobs from the backlog to
`ch`; it is the only sender. Workers receive from `ch`, change the job under
`q.mu`, write copies of it to the store outside the lock, run the tool, and put a
retry back on the backlog. `Cancel`, `Ack` and `Get` change the same `Job` values
under the lock and write to the store outside it. At startup `Resume` puts the
unfinished rows of the table on the backlog before the listener opens.

What is hard here: copies taken under a lock and written after it; a row that is
visible before the memory knows of it; a channel send that may block, with a
stop in the middle; a table that outlives the memory; errors of the store
that say nothing about what was written; flags that fall while runs go on that
were begun under them; and one thing computed by two pieces of code (the linter and
the gate, the loader and `tcs-verify`, preflight and the sandbox) that should agree. The hazards are listed one by one, with
their lines, in `PROJECT.json`.

## 2. The modules

| module | models | how |
|---|---|---|
| `Backlog` | the hand-off of jobs, every `q.stop` test, critical section, channel operation and signal a step of its own | goroutines and their program points are `sub`, `resume`, `disp`, `wk`; the data are `pending`, `reserved`, `wake`, `ch` |
| `JobLine` | what `Backlog` promises: one first-come first-served line of bounded length | abstract; `Backlog!LineSpec` is the refinement mapping |
| `MCBacklog` | instances of `Backlog` for TLC | |
| `BacklogProofs` | theorems about `Backlog` | TLAPS |
| `JobStore` | what each SQL statement does to the rows | operators on a function from ids to rows |
| `JobQueue` | the life of a job over that table, with crashes, restarts and store errors | one action per critical section and per call of the store |
| `MCJobQueue` | instances of `JobQueue` for TLC | |
| `QueueProofs`, `StoreProofs` | theorems about `JobQueue`, the second on top of the first | TLAPS |
| `Calls` | batches, waits and the inbox, on top of the desk of `JobQueue` | extends it: every step of the desk is a step here, and the handlers' steps are added |
| `MCCalls` | an instance of `Calls` | |
| `CallsProofs` | theorems about `Calls`, on top of `StoreProofs` | TLAPS |
| `Execution` | the start of the desk, `Execute()` on several workers, the shared workspace, `GET /` | one action per test, launch and end of a run, and per change of the machine |
| `MCExecution` | instances of `Execution`: the boxes the desk is started on | |
| `ExecutionProofs` | theorems about `Execution` | TLAPS |
| `Schema` | the gate and the linter, and the meaning of a schema | recursive functions on schemas and values, each the fixed point of an operator that does one level |
| `ToolFolder` | loading, pins, `tcs-verify`, preflight, what the sandbox binds, the bound on a direct call | operators on a host and its folders |
| `Shim` | the command line, the capped writer and the output modes of `tcs-shim` | operators on a configuration, an input and what the command writes |
| `Cases` | the evaluation of a function on one input | one behaviour per case: pick, then compute |
| `SchemaCases` | what is said of a schema, for any sets of schemas and values | the cases of `Schema` |
| `ToolCases` | what is said of a host and its folders, and of a direct wait, for any sets of these | the cases of `ToolFolder` |
| `ShimCases` | what is said of a command line, an output and an answer, for any sets of configurations, inputs, writes, caps and codes | the cases of `Shim` |
| `MCContract` | the inputs on which `SchemaCases`, `ToolCases` and `ShimCases` are checked | all of these cases, on small sets |
| `SchemaProofs` | theorems about `Schema`, on the cases of `SchemaCases` | TLAPS |
| `ToolProofs` | theorems about `ToolFolder`, on the cases of `ToolCases` | TLAPS |
| `ShimProofs` | theorems about `Shim`, on the cases of `ShimCases` | TLAPS |

An operator introduced by a comment "Fault:" is not part of a specification: it
is a plausible mistake in the operator that follows it, kept to show which
property would notice.

### Backlog

A job is a model value; what it is about does not matter here. A submit goes
`idle -> admit -> insert -> signal -> accepted`, or `refused` at the first three:
`ReserveCheck` is the test of `q.stop` outside the lock, `Reserve` the critical
section, `Release` and `EnqueueReserved` the two ways out of the store call,
`SubmitSignal` the send on `wake` after the lock is released. `Resume` and a
worker's requeue have the same three steps. The dispatcher scans (`DispatchScan`),
parks (`DispatchWake`), sends (`DispatchSend`) or leaves (`DispatchExit`); when
both arms of one of its selects are ready either may be taken. `Execute` begins
an attempt, `Finish` and `BackoffDrops` end the job, `Retry`, `BackoffEnds`,
`RequeueAppend`, `RequeueSignal` queue it again.

When `Stop` closes `q.stop` a job in the dispatcher's hand is dropped by the code;
its row is still `queued`, so the next start loads it. The model leaves it in
`hand`, so that `NothingDropped` can say it is still known.

Attempts of resumed jobs start anywhere in `0..MaxRetries`: the table keeps the
count, and a crash can come at every value of it.

### JobStore and JobQueue

A row keeps `status`, `attempt`, `error` and `acked`; `error` is reduced to why
the last attempt ended. Timestamps, input and result are left out.

A job id can have two `Job` values in memory. The one that `submit` or `Resume`
queues is the one a worker mutates (`obj[id].own`). The other is scanned from the
table by a lookup that does not find the id in `q.jobs` (`obj[id].read`).
`tracked[id]` says at which of them `q.jobs[id]` points, and the whole of `Cancel`
and `Ack` acts on that one. Most of the surprises below come from there.

A worker goes `idle -> took -> starting -> executing -> ended` and then
`finishing`, or `retrying -> backoff -> requeue`; `discard` is the path of a job
found canceled. `cp[w]` is the copy it took under the lock; `Persist` is the call
of the store that writes it, which may fail and is then only logged. A caller's
`Cancel` or `Ack` is a mark under the lock and a write after it, with the copy in
`carried`. A `Get` that misses is a read and, later, a fill of `q.jobs`. Requests
that change nothing (a second `Ack`, a `Cancel` of a finished job or of one only
the table has, a `Get` of a tracked job) are stuttering steps.

The slice, the dispatcher and the channel are one sequence, `line`: `Backlog`
implements that. `Crash` empties the memory between any two steps; `Restart` is
`Resume` on the incomplete rows, in any order, possibly without the tool of the
jobs (`toolGone`), possibly with a store that fails to list them, in which case
the desk serves without them, as `main` does.

### Calls

`SubmitBatch` submits its items one after the other, so `Desk` lets an item's
`submit` begin only when it is next; `jobs` are those it has collected. A batch
without a job that fails is `BatchAccepted`, one whose next item was refused is
`BatchRefused`, with the jobs so far in the answer. `WaitForTerminal` looks the job up
(`Get`, in one step when it is in memory and in two when only the table has it) and
only then at its deadline; a deadline may come at any time. A client that is
answered 202 asks again.

A crash ends every request. A client that was told an outcome remembers it; when
the row did not have that outcome yet, the job is run again and the client's
knowledge is void, so `CallsCrash` takes it back: this is the window that
section 5 lists, and `ToldStands` is what holds outside it.

### Execution

A box is what the desk is started on: which programs are installed, whether it is
root or listens beyond loopback, whether the filter works and the user has a bus.
`bwrap` and `systemd-run` may be uninstalled while the desk runs and a pinned script may be edited.
A worker goes `idle -> entered -> admitted -> running`: `entered` is the head of
`Execute`, `admitted` is past its tests, and the flag of the caps is read again in
`Launch`. `att[w]` says what the run was given. Of a file in `out/` is kept whether
it is a link, and which attempt wrote it. A process outlives the one the desk waits
for only without the sandbox (`survivors`); it can go on writing.

What GET / says is computed from flags. `StatusCovers` is what they are worth: while it does not
say degraded, every run has the sandbox, the filter and the caps, unless `bwrap` is gone and the
desk is not strict, a pipe failed outside `-strict`, or `systemd-run` is gone. `StatusInForce` has
none of these exceptions and is false (section 5).

### Schema, ToolFolder, Shim

A schema is a function from the keywords it has; a JSON value is a record with its
type. A keyword whose value is not of the type it calls for, which the gate passes over and the
linter does not look at, has the value `Misfit`, and so has an entry of `required` that is
no string. Numbers and bounds are counted in halves, since the gate makes the bound of a length an
integer (`Truncated`); a string has two lengths, in bytes, which the gate compares, and in
characters, which JSON Schema means. `Accepts` and `LintClean` follow the code case by case; `Means` is what JSON
Schema says, written without looking at the code; `Placed` is what the linter
leaves to the author: keywords of their types, at the types that read them, and lengths that are
integers. Each is a function on the schemas there are (`Schemas`, with
`Values` where it needs them), equal to one level of itself: `AcceptsBy`, `CleanBy`,
`MeansBy` and `PlacedBy` are the bodies, the function they are given does the levels below.
`Parts` is what of a schema is a schema again, and `Depth` says that this ends.

A host maps paths to what is there; a path is a directory and a base, for
one directory of each kind that the code treats alike. A link stands for a link in
any part of the path. A tool's folder may be a link itself (`linked`), which the loader skips and
`tcs-verify` follows. Hashes are names, equal if and only if the contents are.

An argument of the shim is a sequence of dashes and words: what the guard can tell
apart. An element of `exec` is a spread or a template of the author's text and at most two references
to the input, one tested by an `if` and one printed. How a reference is written decides
whether the two walks over the parsed template see it, so a reference has one of five forms: a field
(`{{.f}}`), a field of the variable `$` (`{{$.f}}`), a field in parentheses (`{{print (.f)}}`),
one read by other means (`{{index . "f"}}`), and the whole input (`{{.}}`).
`interpolatesInputData` sees the first two, `referencedFields` the first and the third.

The output is a sequence of pieces: a newline, a digit, JSON with and without a field `exit_code`
or with a field twice, a byte that is
not UTF-8 inside and outside a string, a word. `Unmarshal` is decoding into an `any`: it replaces
the byte, keeps one of two fields of a name and rounds a number with more than
`ExactDigits` digits (16 for a float64, 2 in the run), and fails beyond `MaxDigits`
(309, and 4 in the run). `Split` reads it from left to right; `Joined`,
which is not the code's, puts lines together again, and `Holds` says with it that an answer
is the whole output.

## 3. The runs

| run | question | bounds | distinct states |
|---|---|---|---|
| `backlog` | Do the cap and its accounting hold, is no job lost, doubled or left behind a sleeping dispatcher, and is the whole one first-come first-served line? | 3 submits, 1 resumed job, 2 workers, `MaxPending` 2, `ChanCap` 1, `MaxRetries` 2 | 1.66 million |
| `backlog_live` | Is each job finished or the queue stopped, and does `Stop` return? | 2 submits, 1 resumed job, 1 worker, `MaxPending` 1, `ChanCap` 1, `MaxRetries` 2 | 111 000 |
| `queue_dedupe` | One job per key, one execution at a time, nothing behind a refusal, every answered submit ends, with a crash and a caller | 2 submits of one key, 2 workers, 1 caller, `MaxRetries` 2, 1 crash | 79 500 |
| `queue_store_fails` | With every call of the store failing at will: do rows and memory agree, are attempts bounded, outcomes final, acknowledgements kept? | the same with 2 callers and a stop | 1.63 million |
| `execution` | Does a strict desk isolate and cap, is the status true, is a pin kept, does an answer stand? | 2 jobs, 2 workers, `MaxRetries` 2, one declared file and one other, seven boxes, 1 crash, `bwrap` and `systemd-run` may go | 1.45 million |
| `contract` | Do the gate and the linter, `tcs-verify` and the loader, the pins, preflight and the sandbox, and the shim do what is meant? | schemas of depth 3, two directories of `PATH` and one outside, up to 3 elements of `exec`, up to 3 writes, `max_retries` from -1 to 9 | 29 200 |
| `desk_calls` | Do batches, waits and the inbox tell the truth, and in the end something, across a crash? | a batch of 2, 1 worker, 1 inbox client, `MaxRetries` 2, 1 crash | 134 000 |
| `cancel_overwritten`, `terminal_runs`, `orphan_row`, `strict_uncapped` | Does the program do what its comments and documents say? It does not; see section 5 | 1 or 2 submits, 1 worker; `strict_uncapped` 2 | small |
| `status_stale` | Is the status "actually in force right now"? It is not | 1 job, 1 worker, `bwrap` may go | small |

Why the bounds reach the interesting cases. Three submits against a cap of two
make one of them refused in some order and let two hold slots at once. A channel
of one fills with the first job, so the dispatcher blocks with a job in hand
while a second is pending and a worker wants to requeue; a retry over a full
backlog occurs. The retry test is `Attempt < MaxRetries` after `Attempt` was
incremented, so `MaxRetries` must be at least 2 for any retry to happen. With one
worker a worker that waited for `ch` itself would wait for ever, which is the
deadlock `backlog_live` is after. One crash is enough for a job to be resumed
with attempts used, and a second resume is the first one again; two callers let
two requests on one job overlap each other and the worker. The two submits of
`queue_dedupe` and `queue_store_fails` share a key: the second meets the first at
each of its steps, and after a crash they are separate runs of the program.

In `execution` two workers are the least that can clear a flag another has tested;
`MaxRetries` 2 and a crash give a job up to three attempts in one workspace; the
seven boxes are, with `-strict`, the one that has everything and a pinned tool and each that lacks one
thing, and without it the full one. `Scratch` is a name
the tool does not declare, so that the audit can fail on what an earlier attempt left.

In `contract` every case is an initial state, and its one step computes it. The
schemas have every keyword at the boundary of some value, and each keyword that has a type
with a value of another one; one string has more bytes than characters, and bounds of lengths
are fractions and negative too; every pair of leaf schemas
under `oneOf` and `anyOf`, and nesting under each keyword that nests. Deeper schemas
repeat the same recursion. A search path needs two directories to have a first and a
second; every form of a reference occurs under `if` and printed, beside data that begins with a dash
or is the `--` itself; a number has one digit more than decoding keeps, and one more than it
takes; a cap of 1 to 5 pieces over up to three writes of up to two pieces meets each write
below, at and across the cap, and after it.

In `desk_calls` the second item of the batch is refused, or both are accepted, with
the first one's job in any state of its life. One worker and one client that
acknowledges are enough for a lifecycle write to meet an acknowledgement.

Symmetry is declared for the ids of the submits (and of the workers) in the runs
that check safety only; both ids have the same key. Runs that check liveness
declare none.

`CHECK_DEADLOCK FALSE`: a fixed set of submits comes to an end, and so does a
stopped queue; that nothing is left undone then is what the liveness properties
say.

Fairness. The Go scheduler runs a goroutine that is not blocked, so each step of
the dispatcher, `Resume`, a worker and a call already begun is weakly fair. That
a client calls, that the operator stops the desk or that it crashes is not
assumed; that a crashed desk is started again is (`WF_vars(Restart)`). For a worker
the formula is about the worker as a whole (`WF_vars(Work(w))`): it may choose
among outcomes but not sit for ever on an attempt. That rests on the tool's
timeout. One thing can break it, and is listed as a hazard: a grandchild of the
tool that keeps the output pipe open keeps `cmd.Run` from returning.

`desk_calls` adds the handlers' own steps and two clients: one that asks again until
it is told, one that acknowledges what the inbox shows. Without them there is
nothing to await: the desk pushes nothing. The desk's own fairness is that of
`JobQueue`. A finite number of crashes is what lets anything end.

What each property guards against is shown by a fault, listed under `mutants` in
`PROJECT.json`: with the fault in place of the operator, the run finds the
property violated.

## 4. What is proved

For every finite set of jobs, any workers, `MaxPending`,
`ChanCap`, `MaxRetries`; assumptions: `JobAssumption`, `WorkerAssumption`,
`BoundAssumption` of `Backlog`, which say that the caps are positive, that the workers are finitely many and at least
one, and that nil is no job (`BacklogProofs`):

- `TypeCorrect`: `Spec => []TypeOK`. The channel stays within its capacity and no
  nil job travels. `TypeOK` alone is not inductive: that a send on `ch` sends a job
  and that a worker at work holds one follows from where the goroutines are, which
  `PlacesOK` adds.
- `SlotsKept`: `Spec => []SlotsAccounted`, and `CapHolds`: `Spec => []AdmissionCap`,
  from one invariant. The counter `reserved`
  is the number of submits at the store, so no error path leaks a slot or gives one
  back twice, and jobs admitted plus slots promised never exceed the cap. The
  invariant needs one more fact (`StartedOK`): a job a worker queues again has an
  attempt behind it, which is what keeps retries out of the count. The cases that
  matter are `Reserve`, where the number of new jobs is at most the length of the
  slice (`ElemsBound`), and `EnqueueReserved`, where a slot becomes a job.
- `WakeupKept`: `Spec => []NoLostWakeup`. Inductive as it stands, given the types.
- `HeldOnce`: `Spec => []OneHolder`. The property speaks of one long sequence; the
  proof splits it into `loading`, `ch`, the dispatcher's hand and `pending`
  (`LineParts`), so that each step moves a job from one set to another. The
  inductive invariant `HolderInv` adds that a job is nowhere before its submit
  queues it (`NotYet`) and that who takes a job holds none (`EmptyHanded`).
- `NoJobDropped`: `Spec => NothingDropped`, an action property, from `HolderInv`:
  a hand or a worker's variable that is overwritten is an empty one.
- `ServesInLine`: `Spec => LineSpec`, the refinement. The dispatcher's steps leave
  the line as it is, because concatenation is associative; a worker that receives takes
  the head of the whole. `reserve` promises a place the line has, because a line is at
  most `ChanCap + 1` longer than the backlog (`WaitingBound`); a retry is no new job because
  it has been started (`StartedOK` of the cap's invariant); what is accepted or
  reloaded is new to the line by `HolderInv`. This is what lets `JobQueue` keep one line in place
  of the three.

`ExecutionProofs`, for any jobs, boxes and bounds, any finite set of workers that is not
empty, and any declared files, which are apart from the names a tool leaves beside them
(`ExecutionAssumption`):

- `StrictKept`: `Spec => []StrictIsolated`. `StatusTrue`: `Spec => []StatusCovers`.
  `PinsKept`: `Spec => []PinnedRunsVetted`. None is inductive: each speaks of a run
  that goes on and says nothing of the worker before it. `Enforced` adds it. A strict
  desk that serves has passed its list (`ServingOK`); a run has no less than the box
  and the flags have now, because programs only go and the flag of the caps only
  falls within the life of a process, but for what was looked up again and not found
  (`RunOK`), which are the exceptions of `StatusCovers`; and who is past the test of the pins
  began on a vetted script, because a script never goes back to vetted (`PinOK`).
- `ExecutionTypes`: `Spec => []TypeOK`, and `AnswerKept`: `Spec => []AnswerStands`, from
  `Kept`. That the count of attempts keeps its type needs the bound on it: a job that
  waits has an attempt left, and so has one that a crash left running (`AttemptsOK`). That
  an answer stands needs to know who could still write in the job's directory. A job is in
  the hands of one worker at most, and then it has begun and is not over (`HeldOK`), so who runs
  another job writes elsewhere and no one runs a job that is done; and on a box with
  the sandbox no process is left behind (`NoSurvivors`), by an attempt or by the desk
  that crashed. What remains is the end of a run, where `auditOutDir` and the search for
  the declared files meet: the result is the first one there is (`LeastOf`).
- `UncappedBounded`: `Spec => []StrictUncappedBound`, from `Slipped`. While the flag is up
  no run is uncapped. Once it has fallen no worker passes the test again, so those that
  may still slip through are the workers that are past it (`Past`), and the sum of the
  two can only shrink. It begins below the number of workers because the worker whose run
  made the flag fall is not past the test any more.

All the safety properties of `JobQueue` that its passing runs check, for any finite set of ids, any
keys, workers, callers, retry limit and number of crashes (`KeyAssumption`: the ids
are finitely many and the absent key is no key; `NoRowAssumption`, `QueueAssumption`:
there is a worker, and the markers are no ids or jobs). Where it says "true store", the
theorem assumes `~StoreFails`, as the run does; the others hold with a store whose
every write may fail. The invariants build on each other:

- `QueueTypes`: `Spec => []TypeOK`, from `Typed`, which adds that a worker that is not
  idle holds an id, that a request under way names one, and that a submit at `dedupe`
  has what it found.
- `KeyHasOneJob`: `Spec => []OneJobPerKey`. `AckStays`: `Spec => []AckDurable`. Their
  invariant is `Backed`: two rows never share a key (`OneRowPerKey`); whatever names
  an id - an entry, an answer, what a submit found, a request under way - names one
  that has a row, of the key that was asked for. So the answers to one key are rows of
  one key, and an acknowledgement is a write on a row that exists.
- `OnePlace`: `Spec => []OneExecution`, from `PlaceInv`. Placement is taken as two sets, the line
  without repetitions (`Once`) and the workers' hands (`OneWorker`, `Apart`). A crash
  and `Resume` need `DownEmpty`: a desk that is down holds nothing, so what it loads
  is loaded once.
- `RunsBounded`: `Spec => []ExecutionBound`, from `RunInv`. The count of runs is compared with the
  attempt in each place a later decision can take it from: the worker's job, the
  copy it is about to persist, the row (`RunsCounted`). The row may be behind by the
  one run whose "running" copy is not written yet, and only then; a crash there costs
  one run more, which is the `crashes` of the bound.
- `OutcomeStays`: `Spec => OutcomeIsFinal`, from `OutcomeInv`: whoever may still write
  the status holds a job without an outcome.
- `RefusedIsGone` (true store): `Spec => []RefusedLeavesNoJob`.
- `StoreOnlyIsOver` (true store): `Spec => []StoreOnlyIsTerminal`. `TrackedInv` is what
  it needs: whoever runs or waits is in `q.jobs`, so a worker never opens the row of a job
  that memory does not have.
- `RowsAgree`: `Spec => []StoreAgrees`, from `AgreeInv`: the copy of a worker that
  finishes equals the job from the moment it is taken, unless a cancel
  interferes (`Untouched`), so the row is right when it lands.
- `ReadCopiesOver` (true store): `Spec => []ReadCopySettled`. This is the unlocked read of `Get`:
  everything read from the table that may still be installed in `q.jobs` is the row of
  a job that is over (`FillsRead`, `DupsRead`, `CopiesRead`). No step can write another
  status there, because a cancel that is still to be written is of an entry that is
  tracked (`CancelsOpen`). The one exception, a submit between its insert and its
  entry, ends by overwriting the copy.

`CallsProofs`, for any desk of `JobQueue`, any batch and any waits. `CallsAssumption`: the
items of the batch are distinct submits without a key, as `SubmitBatch` makes them
(`queue.go:284`). A step of `Calls` is a step of `JobQueue`, leaves its state alone, or
is the second half of a wait's lookup, which puts a row in `q.jobs` as `GetFill` does
(`CallsSteps`). So the invariants of `JobQueue` are taken over, once it is shown that
they survive that one step more (`BaseFill`).

- `BatchAnswered` (true store): `CallsSpec => []BatchAnswerNames`, from `AnswersInv`: the
  jobs collected are the items up to the one that is next, in their order (`BatchInOrder`);
  an item has no key, so its `submit` never meets another job and is answered with the
  job it made (`Keyless`); and a job that ran has a row (`RunsHave`), which an item that
  was refused has not, since the store does not fail.
- `ToldHolds`: `CallsSpec => []ToldStands`, with a store whose every call may fail. Three
  values can answer a client: the worker's own, the copy a lookup put in `q.jobs`, and the row. `CopyInv`
  says which of them counts: while the worker's value is in `q.jobs` it does, and no
  lookup replaces it; otherwise the row does, and every copy of it, installed or about
  to be (`Free`), agrees with it about the outcome. So what was told is final (`Final`):
  the worker's value has it, and keeps it by `OutcomeInv`, or the row has it, and whoever
  could still write another status there would have to hold the job. Of a crash
  `ToldStands` claims no more than the row had.

`SchemaProofs`, for schemas and values of any depth. `SchemaAssumption`: a document is
finite, so its parts are less deep than it is, and all of its parts are at hand; bounds of
lengths are numbers or `Misfit`; a
value has one of the six types of JSON, and when its strings are ASCII so are those of its members.

- `GateHeld`: `GateSpec => []GateMeansContract`. `Accepts`, `Means`, `LintClean` and `Placed`
  are each defined by an equation about themselves, which says nothing unless some function
  solves it. `OneLevel` is the right side of the four, and it depends on the parts
  only (`LevelLocal`). So the functions that obey the equation below a depth agree
  there (`UptoAgree`), exist for every depth (`UptoExists`), and together make one that
  obeys it everywhere (`SolutionExists`). With the four equations at hand (`AcceptsIs`,
  `MeansIs`, `CleanIs`, `PlacedIs`) the theorem is about one level: the gate and the meaning agree
  on a schema if they agree on its parts. A clean schema in its place has clean parts in
  their places (`ProperParts`); `oneOf` and `anyOf` stand alone there (`Alone`), and exactly one
  branch matches for the gate when exactly one holds (`OneOfAgrees`); otherwise the type
  says which keywords there are (`KeywordsOf`) and both sides read the same ones
  (`TypeAgrees`); the lengths are the same for an integer bound and a string that is
  ASCII (`LengthAgrees`), and what is in such a value is ASCII again (`MembersAre`). A least depth with a schema on which they differ is impossible (`AllAgree`).

`ToolProofs`, for any hosts, folders, timeouts and `max_retries`. `ToolsAssumption`: they have
their types, and outside the sandbox there is nothing at `/deskbox/tool` (`executor.go:385`). `FirstOf` is
the first index that passes a test, so what the loader, `tcs-verify` and the lookup in
`PATH` take is worked out first, by cases (`ResolveIs`, `VerifyIs`, `LookIs`).

- `VerifiedLoad`: `ToolSpec => []VerifiedToolsLoad`. `PinsHeld`: `ToolSpec => []PinsHoldTools`.
  Each compares two pieces of code that read the same folder; `VerifiedFolder` and
  `SameScript` say what of a folder each of them depends on.
- `InterpreterHeld`: `ToolSpec => []SandboxInterpreterVetted`. `PreflightHeld`:
  `ToolSpec => []PreflightTellsSandbox`. Both rest on what the sandbox has of a path:
  `SeenIsThere`, that what can be run in it is the host's, and `ThereIsSeen`, that what can be
  run on the host, in a bound directory and not by way of a link out of these, can be run in it.
  The lookup in `PATH` needs both: to find the same program second, the first directory
  must have none on either side.
- `WaitHeld`: `ToolSpec => []DirectToolIsAwaited`. The sleeps are summed over a set, in an order
  the definition leaves open: taking any element out of a set takes its sleep out of the
  sum (`SleptWithout`), so every order gives `Slept` (`SleepsSum`). Up to five sleeps are 3.1 seconds,
  which the five seconds of slack cover.

`ShimProofs`, for configurations, inputs and writes of any length. `ShimAssumption`: they
have their types, a spread names its field and a configuration one of the five modes, as
the code demands (`main.go:271`, `main.go:210`).
Every loop of the shim is a fold, which the community modules define as a `CHOOSE` of a function
on the subsets of a domain. That there is such a function, and that the fold of a sequence
adds the next element to the fold of those before it, is shown for all of them at once
(`Step` says which of them is meant): the functions that obey the equation up to a given size
exist for each size (`FoldExists`), and a least size without one is impossible
(`LeastIn`), so no induction theorem with an operator for its parameter is needed.

- `FlagsHeld`: `ShimSpec => []ShimFlagsAreTheAuthors`. Of every prefix of `exec` it holds that
  an argument with data in it that the guard sees and a dash in front has a `--` before it that
  the guard takes for the author's, and that `afterDoubleDash` is set only if there is one (`Clean`). The inner loop of a spread
  keeps it item by item (`ItemsAreClean`).
- `DeclaredHeld`: `ShimSpec => []ShimReadsDeclared`. An element that `validateTemplates` passes makes
  the same of two inputs that agree on the declared fields and on those the walk does not
  find (`SameElement`, from `ReferenceIsCovered` and `PrintedIsText`), and so does every prefix;
  a template that reads the whole input is left out.
- `CapHeld`: `ShimSpec => []ShimCapExact`. After every write the buffer is the output so far, cut at
  the cap, and `overflow` is set if and only if something was cut off (`CapIsKept`).
- `AnswerHeld`: `ShimSpec => []ShimAnswerFaithful`. An answer without an error is of a command that
  started, did not overflow and ended well (`RunAnswers`), so what is shaped is all it
  wrote (`AllIsKept`). After every byte the lines so far, joined, are the text so far
  (`OneMoreByte`, from `JoinedMore` and `JoinedOne`), so the lines of a text are that text
  (`SplitIs`), but for one newline at its end (`LinesAre`). Decoding keeps
  what is not `Lossy` (`UnmarshaledIs`), line by line (`LinesUnmarshaled`).
  `OutputHas` puts this together mode by mode.

## 5. Where the program and its text disagree

Each is a run whose single property states the text, with TLC's counterexample.

- **A cancel can be overwritten** (`cancel_overwritten`, `queue.go:434`). The
  status is read under the lock when `Execute` returns and set in a later critical
  section without looking again. A `Cancel` in between has answered true.
- **A canceled job can start** (`terminal_runs`, `queue.go:326`). Between the
  first submit's `Insert` and its entry in `q.jobs`, a second submit with the key
  puts the row it read into `q.jobs`; a `Cancel` marks that value; the first
  submit then overwrites the entry with its own, still queued.
- **A refused submit can leave a row** (`orphan_row`, `queue.go:314`): an `Insert`
  that committed and still returned an error.
- **Under `-strict` a job can start without caps** (`strict_uncapped`,
  `executor.go:348`): the flag is tested at the head of `Execute` and read again
  when the command is wrapped. `StrictUncappedBound` says how far it goes: fewer
  runs than there are workers, in the life of the process. That holds while `systemd-run` stays
  installed; when it is uninstalled the wrapping finds no program and every later job of a strict
  desk runs without caps (`executor.go:594-597`).
- **The status is not what is in force** (`status_stale`, `executor.go:384`). `main.go:85-86` says
  that `enforcement` reports "whether each guarantee the desk advertises is actually in force
  right now". `sandboxOK` is set once, at the start. A desk that is not strict admits a job, `bwrap`
  is uninstalled, the job runs outside the sandbox, and `GET /` does not say degraded.

Other interleavings met while modelling, which the properties above exclude or
leave open on purpose:

- A `Cancel` persists before the worker's older "running" copy does
  (`queue.go:430`); the row then says running until the final write, and a crash
  in that window runs the canceled job again. `StoreAgrees` leaves canceled jobs
  out for that reason.
- `Get` installs a row it read earlier over whatever entry is there
  (`queue.go:372-382`): an acknowledgement in between is in the table and no
  longer in the lookup.
- A client may see a result, and ack it, before the row has it (`queue.go:516`);
  a crash before that write runs the job again.
- A second `Ack` is answered from memory while the first one's write is under way
  (`queue.go:652`); a crash then loses an acknowledgement that was answered.
- When `LoadIncomplete` fails at startup `main` only logs it (`main.go:421`), while
  `Cancel` relies on every unfinished row being in memory (`queue.go:589-591`).
- A client can be told "done" before the row says so; a crash then runs the job
  again (`queue.go:516`). `ToldStands` leaves out what the row did not have yet.
- A job that succeeds after a retry keeps the error of the failed attempt.
- Attempts of a job share its directory (`executor.go:254`): a declared file that an earlier attempt
  left in `out/` is the result of the attempt that writes none. `AnswerStands` says that what
  was answered stays, not whose it is.

Met while modelling the functions; the properties name the cases they leave out:

- `lint.go:36-41` says that `Lint` finds "exactly the set of problems" of a contract that "validated fine
  but didn't constrain what I thought". It looks at the names of the keywords only: a value that is
  not of the keyword's type (a bound that is no number, `required` or `enum` that is no list,
  `properties` that is no object, a required name that is no string) is clean, and the gate passes over
  it (`validator.go:57`, `66`, `92-95`, `104`, `116-119`, `195-201`): `{type: integer, minimum: "2"}`
  accepts 0. Nor does it report `enum` on anything but
  strings, keywords beside `oneOf` or `anyOf`, an `additionalProperties` that is no
  Boolean, keywords without a `type`, nor an `items` that is no schema; the gate ignores
  each. The bound of a length is cut to an integer (`minItems: 1.5` is 1). `Placed` excludes
  all of these. The length of a string is that in bytes (`validator.go:116-119`), not in characters:
  `GateMeansContract` is about values whose strings are ASCII.
- `tcs-verify/main.go:3-5` says "a contract this passes is exactly one the desk will honor". `LoadTools`
  skips an entry of the tools directory that is not itself a directory (`tools.go:113`), while
  `tcs-verify` follows a link (`main.go:108`): such a folder is verified and not loaded. So are one with a
  field only the desk decodes and one whose name is taken; `VerifiedToolsLoad` names the three.
- `tcs-shim/main.go:227-228` says that any element whose value comes from the input is checked for
  a dash. An element that prints it without a field or a variable among the arguments of a command
  (`{{index . "f"}}`, `{{print (.f)}}`, `{{.}}`) is not (`337-350`): a value with a dash in front becomes
  a flag, and the value `--` ends the guard for all that follows. `Overlooked` names these in
  `ShimFlagsAreTheAuthors`.
- `tcs-shim/main.go:380-382` says that every referenced field is checked against the contract;
  `{{$.f}}`, `{{index . "f"}}` and the whole input are not (`443-490`). `Missed` and `ReadsWhole` name
  these in `ShimReadsDeclared`.
- The retry is taken while `job.Attempt < job.MaxRetries` and the attempt counts the first run
  (`queue.go:461`), so a job is run `max(1, max_retries)` times; `tools.go:73-75` and the repository's
  README (283, 368) count the retries apart.
- `preflight.go:14-23` says it checks what the sandbox will see. A path inside `/usr`
  that is a link out of what is bound (`/usr/local` to `/var/usrlocal`, or through
  `/etc/alternatives`) is "ok" and is not there for the job; the hash of
  `integrity.go:54-57` is then that of a file no job runs. A program the tool brings in its
  own folder, named by `/deskbox/tool/...`, is reported missing.
- The bound on a direct call falls short of the backoffs from `max_retries: 7` on with
  short timeouts, and from 10 on at the default of 30 s (`tools.go:79`). A negative `max_retries`,
  which nothing refuses, still runs the tool once and makes the bound shorter than that run.
- In `tcs-shim` a bare field that is absent prints `<no value>`; an empty item of a
  spread list is kept although an empty element is dropped; one empty line is no lines;
  a `field` named `exit_code` overwrites the data beside `include_exit_code`; `json` and
  `jsonl` decode into an `any` and encode again (`tcs-shim/main.go:533`, `579`), so bytes that are not UTF-8
  are replaced where `raw` and `lines` refuse them, an integer above 2^53 is rounded, and of two
  fields of one name the last is kept (`Lossy`).
- Without `bwrap` but with `systemd-run`, `GET /` reports `resource_limits` true (and the
  desk degraded) though nothing is capped; a failed pipe of the filter, outside
  `-strict`, and `bwrap` or `systemd-run` uninstalled later are not in the status.
- Whatever prints "Failed to connect to bus" on stderr, the tool included, ends the capping
  (`executor.go:420`).

## 6. What is only model-checked, and what is not modelled

Only model-checked: liveness (`HeldJobFinishes`, `StopReturns`,
`AnsweredJobFinishes`, `WaitIsAnswered`, `InboxDrains`), which is out of the prover's
reach, because it rests on fairness and so on what is enabled. Every other property of a passing run is a
theorem.

Abstracted: time (a timer may fire at any moment), the contents of inputs,
results and errors, the ids (`newJobID` never repeats one), the intervals of polling,
statistics. The store serialises its calls, as SQLite's single connection does;
one desk uses it. `Execution` takes jobs in any order and lets the store never
fail, since `Backlog` and `JobQueue` are about that; a cancel is seen at once.

Not modelled: `-store=memory`, which is the same queue without a table; the text
timestamps and the order of listings; settings and config, read once; decoding of requests,
auth and the listing of tools, which change no state; the bytes of the seccomp program;
in `tcs-shim` `range` and `with`, variables a template declares, the template of stdin, the
reading of `shim.yaml` and of the contract beside it; logs and the layout of reports; the example tools.

## 7. Plan

What is left, in this order:

1. `TextTime`: the order of RFC 3339 text with trailing zeros dropped
   (`store_sqlite.go:219`) against the order of time.
2. `TwoDesks`: two processes on one Postgres table, each with its own `q.jobs`
   (`store_postgres.go:14`).
3. Proofs: the lemmas of `JobQueue` about one desk restated for the two of `TwoDesks`.
4. `tcs-shim`: `range` and `with` in templates, and stdin.
