------------------------------- MODULE JobQueue ------------------------------
(***************************************************************************)
(* The life of a job (src/cmd/agent-desk/queue.go): submit with its        *)
(* deduplication, the worker's process() with its retries, Cancel, Ack,    *)
(* Get, and a crash of the desk followed by Resume().                      *)
(*                                                                         *)
(* A job id can have two Job values in memory.  The one that submit() or   *)
(* Resume() puts on the backlog is the job a worker mutates: "own".  A     *)
(* lookup that misses q.jobs scans a second one from the store: "read".    *)
(* q.jobs[id] points at one of them (tracked[id]), and the whole of Cancel *)
(* and Ack acts on that one.  A critical section of q.mu is one step, a    *)
(* call of the store is one step, and between them others may run.         *)
(* The backlog, the dispatcher and the channel are one line of jobs, which *)
(* is what Backlog is shown to implement.                                  *)
(***************************************************************************)
EXTENDS JobStore

CONSTANTS Worker,     \* the worker goroutines
          Caller,     \* the handlers of cancel, ack and get requests
          MaxRetries, \* MaxRetries of every job
          CallerOps,  \* the requests the callers make, of {"cancel", "ack", "get"}
          MaxCrashes, \* bound: the crashes of the desk
          StoreFails, \* a call of the store may return an error
          CanStop     \* Stop() may be called

NoId == "no id"

ASSUME QueueAssumption ==
    /\ NoId \notin Id /\ Worker # {}
    /\ MaxRetries \in Nat /\ MaxCrashes \in Nat
    /\ CallerOps \subseteq {"cancel", "ack", "get"}
    /\ StoreFails \in BOOLEAN /\ CanStop \in BOOLEAN

VARIABLES
    rows,     \* the jobs table
    \* the process's memory
    tracked,  \* q.jobs: which Job value of the id it points at, or "none"
    obj,      \* the two Job values of each id
    line,     \* the ids on the backlog, in order
    stopped,  \* q.stop is closed
    toolGone, \* the tool was removed before this start of the desk
    sub,      \* where each submit() is
    dup,      \* what Insert returned to a submit() that was deduplicated
    wk,       \* where each worker is
    at,       \* the id of the job each worker processes
    cp,       \* the copy a worker took under the lock, to persist
    cl,       \* where each caller is
    target,   \* the id a caller's request names
    carried,  \* the Job value a caller took under the lock or from the store
    \* the world outside
    up,       \* the desk runs
    crashes,  \* how often it has crashed
    reply,    \* the id each submit() answered with
    execs,    \* the attempts that were begun for each id
    canceled, \* the ids for which a Cancel() returned true
    acked,    \* the ids for which the Ack() that set the flag has returned; a second
              \* Ack() is answered from memory and changes nothing
    lost      \* the ids one of whose writes failed

memory  == <<tracked, obj, line, stopped, toolGone>>
submits == <<sub, dup, reply>>
workers == <<wk, at, cp, execs>>
callers == <<cl, target, carried, canceled, acked>>
world   == <<up, crashes>>
vars == <<rows, memory, submits, workers, callers, world, lost>>

Start == [own |-> NewJob, read |-> NewJob]

TypeOK ==
    /\ rows \in Rows
    /\ tracked \in [Id -> {"none", "own", "read"}]
    /\ obj \in [Id -> [own : Job, read : Job]]
    /\ line \in Seq(Id)
    /\ stopped \in BOOLEAN /\ toolGone \in BOOLEAN
    /\ sub \in [Id -> {"idle", "insert", "track", "enqueue", "dedupe", "done", "refused",
                         "broken"}]
    /\ dup \in [Id -> {<<>>} \union (Id \X Job)]
    /\ wk \in [Worker -> {"idle", "took", "starting", "executing", "ended", "discard",
                          "retrying", "backoff", "requeue", "finishing"}]
    /\ at \in [Worker -> Id \union {NoId}]
    /\ cp \in [Worker -> Job]
    /\ cl \in [Caller -> {"idle", "cancelPersist", "ackPersist", "ackStore", "getFill"}]
    /\ target \in [Caller -> Id \union {NoId}]
    /\ carried \in [Caller -> Job]
    /\ up \in BOOLEAN /\ crashes \in Nat
    /\ reply \in [Id -> Id \union {NoId}]
    /\ execs \in [Id -> Nat]
    /\ canceled \subseteq Id /\ acked \subseteq Id /\ lost \subseteq Id

Init ==
    /\ rows = [i \in Id |-> NoRow]
    /\ tracked = [i \in Id |-> "none"]
    /\ obj = [i \in Id |-> Start]
    /\ line = <<>> /\ stopped = FALSE /\ toolGone = FALSE
    /\ sub = [i \in Id |-> "idle"] /\ dup = [i \in Id |-> <<>>]
    /\ reply = [i \in Id |-> NoId]
    /\ wk = [w \in Worker |-> "idle"] /\ at = [w \in Worker |-> NoId]
    /\ cp = [w \in Worker |-> NewJob] /\ execs = [i \in Id |-> 0]
    /\ cl = [c \in Caller |-> "idle"] /\ target = [c \in Caller |-> NoId]
    /\ carried = [c \in Caller |-> NewJob]
    /\ canceled = {} /\ acked = {}
    /\ up = TRUE /\ crashes = 0 /\ lost = {}

\* A write of the lifecycle columns: persist() only logs an error.
Persist(id, job) ==
    \/ rows' = Updated(rows, id, job) /\ UNCHANGED lost
    \/ StoreFails /\ lost' = lost \union {id} /\ UNCHANGED rows

------------------------------------------------------------------------------
(* submit(): the id stands for the call that generates it.                   *)

SubmitStep(id, from, to) == up /\ sub[id] = from /\ sub' = [sub EXCEPT ![id] = to]

\* The tool exists, and reserve() grants a slot or does not.
SubmitBegin(id) ==
    /\ SubmitStep(id, "idle", "insert") \/ SubmitStep(id, "idle", "refused")
    /\ sub'[id] = "insert" => ~stopped /\ ~toolGone
    /\ UNCHANGED <<rows, memory, dup, reply, workers, callers, world, lost>>

SubmitInsert(id) ==
    /\ rows' = Inserted(rows, id)
    /\ IF Owners(rows, id) = {}
       THEN SubmitStep(id, "insert", "track") /\ UNCHANGED dup
       ELSE /\ SubmitStep(id, "insert", "dedupe")
            /\ \E o \in Owners(rows, id) : dup' = [dup EXCEPT ![id] = <<o, rows[o]>>]
    /\ UNCHANGED <<memory, reply, workers, callers, world, lost>>

\* Insert returned an error: the row is not there, or it is and the answer to the
\* commit was lost or late (5 s).  The slot is released, the client told.
SubmitInsertFails(id) ==
    /\ StoreFails
    /\ SubmitStep(id, "insert", "refused")
    /\ rows' \in {rows, Inserted(rows, id)}
    /\ UNCHANGED <<memory, dup, reply, workers, callers, world, lost>>

\* q.jobs[job.ID] = job, whatever the entry was.
SubmitTrack(id) ==
    /\ SubmitStep(id, "track", "enqueue")
    /\ tracked' = [tracked EXCEPT ![id] = "own"]
    /\ UNCHANGED <<rows, obj, line, stopped, toolGone, dup, reply, workers, callers, world, lost>>

\* Fault: admission is decided when the row is there.
SubmitEnqueueRefuses(id) ==
    /\ SubmitStep(id, "enqueue", "refused")
    /\ UNCHANGED <<rows, memory, dup, reply, workers, callers, world, lost>>

\* enqueueReserved(), and the answer to the client.
SubmitEnqueue(id) ==
    /\ SubmitStep(id, "enqueue", "done")
    /\ line' = Append(line, id)
    /\ reply' = [reply EXCEPT ![id] = id]
    /\ UNCHANGED <<rows, tracked, obj, stopped, toolGone, dup, workers, callers, world, lost>>

\* Fault: the submit does not stop at the job it found, and enqueues it.
SubmitDedupeEnqueues(id) ==
    LET first == dup[id][1]  IN
    /\ SubmitStep(id, "dedupe", "done")
    /\ tracked' = [tracked EXCEPT ![first] = "own"]
    /\ line' = Append(line, first)
    /\ reply' = [reply EXCEPT ![id] = first]
    /\ dup' = [dup EXCEPT ![id] = <<>>]
    /\ UNCHANGED <<rows, obj, stopped, toolGone, workers, callers, world, lost>>

\* Fault: the row that was found takes the place of the entry that is there.
SubmitDedupeOverwrites(id) ==
    LET first == dup[id][1]  IN
    /\ SubmitStep(id, "dedupe", "done")
    /\ tracked' = [tracked EXCEPT ![first] = "read"]
    /\ obj' = [obj EXCEPT ![first].read = dup[id][2]]
    /\ reply' = [reply EXCEPT ![id] = first]
    /\ dup' = [dup EXCEPT ![id] = <<>>]
    /\ UNCHANGED <<rows, line, stopped, toolGone, workers, callers, world, lost>>

\* The job an earlier submit() created: tracked, or known from its row alone.
SubmitDedupe(id) ==
    LET first == dup[id][1]  IN
    /\ SubmitStep(id, "dedupe", "done")
    /\ IF tracked[first] = "none"
       THEN /\ tracked' = [tracked EXCEPT ![first] = "read"]
            /\ obj' = [obj EXCEPT ![first].read = dup[id][2]]
       ELSE UNCHANGED <<tracked, obj>>
    /\ reply' = [reply EXCEPT ![id] = first]
    /\ dup' = [dup EXCEPT ![id] = <<>>]
    /\ UNCHANGED <<rows, line, stopped, toolGone, workers, callers, world, lost>>

Submit(id) == \/ SubmitBegin(id) \/ SubmitInsert(id) \/ SubmitInsertFails(id)
              \/ SubmitTrack(id) \/ SubmitEnqueue(id) \/ SubmitDedupe(id)

------------------------------------------------------------------------------
(* process() on a worker.  job is the "own" value of its id.                 *)

WorkerStep(w, from, to) == up /\ wk[w] = from /\ wk' = [wk EXCEPT ![w] = to]

Own(w) == obj[at[w]].own

\* A critical section that leaves the job as j, and the copy that is persisted.
Leave(w, j) == obj' = [obj EXCEPT ![at[w]].own = j] /\ cp' = [cp EXCEPT ![w] = j]

\* A critical section that reads or writes nothing but the job.
Quiet == UNCHANGED <<rows, tracked, line, stopped, toolGone, submits, at, callers, world, lost>>

Take(w) ==
    /\ WorkerStep(w, "idle", "took")
    /\ line # <<>>
    /\ at' = [at EXCEPT ![w] = Head(line)] /\ line' = Tail(line)
    /\ UNCHANGED <<rows, tracked, obj, stopped, toolGone, submits, cp, execs, callers, world, lost>>

\* finish() with an error, of the given reason.
FinishFailed(w, from, reason) ==
    /\ WorkerStep(w, from, "finishing")
    /\ Leave(w, [Own(w) EXCEPT !.status = "failed", !.error = reason])
    /\ UNCHANGED execs /\ Quiet

\* The desk was restarted without the job's tool.
NoTool(w) == toolGone /\ FinishFailed(w, "took", "permanent")

\* The status is tested and set in one critical section with the registration
\* of the cancel func: cancels[id] exists while w is "starting" or "executing".
Begin(w) ==
    /\ WorkerStep(w, "took", "starting")
    /\ ~toolGone
    /\ Own(w).status # "canceled"
    /\ Leave(w, [Own(w) EXCEPT !.status = "running", !.attempt = @ + 1])
    /\ execs' = [execs EXCEPT ![at[w]] = @ + 1]
    /\ Quiet

BeginCanceled(w) ==
    /\ WorkerStep(w, "took", "discard")
    /\ ~toolGone
    /\ Own(w).status = "canceled"
    /\ UNCHANGED <<obj, cp, execs>> /\ Quiet

\* persist() of the running job, and the start of Execute().
PersistRunning(w) ==
    /\ WorkerStep(w, "starting", "executing")
    /\ Persist(at[w], cp[w])
    /\ UNCHANGED <<memory, submits, at, cp, execs, callers, world>>

\* Execute() returned: the cancel func is deleted and the status read.
ExecuteEnds(w) ==
    /\ WorkerStep(w, "executing", IF Own(w).status = "canceled" THEN "discard" ELSE "ended")
    /\ UNCHANGED <<obj, cp, execs>> /\ Quiet

FinishCanceled(w) ==
    /\ WorkerStep(w, "discard", "finishing")
    /\ Leave(w, [Own(w) EXCEPT !.error = "operator"])
    /\ UNCHANGED execs /\ Quiet

\* Fault: the copy is taken before the outcome is set.
FinishDoneStale(w) ==
    /\ WorkerStep(w, "ended", "finishing")
    /\ obj' = [obj EXCEPT ![at[w]].own.status = "done"]
    /\ cp' = [cp EXCEPT ![w] = Own(w)]
    /\ UNCHANGED execs /\ Quiet

FinishDone(w) ==
    /\ WorkerStep(w, "ended", "finishing")
    /\ Leave(w, [Own(w) EXCEPT !.status = "done"])
    /\ UNCHANGED execs /\ Quiet

\* A violation of the contract, of integrity or of enforcement; or the attempts
\* are used up.
FinishPermanent(w) == FinishFailed(w, "ended", "permanent")
FinishExhausted(w) == FinishFailed(w, "ended", "retryable") /\ Own(w).attempt >= MaxRetries

\* Fault: one attempt more.
RetryOnceMore(w) ==
    /\ WorkerStep(w, "ended", "retrying")
    /\ Own(w).attempt <= MaxRetries
    /\ Leave(w, [Own(w) EXCEPT !.status = "queued", !.error = "retryable"])
    /\ UNCHANGED execs /\ Quiet

Retry(w) ==
    /\ WorkerStep(w, "ended", "retrying")
    /\ Own(w).attempt < MaxRetries
    /\ Leave(w, [Own(w) EXCEPT !.status = "queued", !.error = "retryable"])
    /\ UNCHANGED execs /\ Quiet

PersistRetry(w) ==
    /\ WorkerStep(w, "retrying", "backoff")
    /\ Persist(at[w], cp[w])
    /\ UNCHANGED <<memory, submits, at, cp, execs, callers, world>>

\* The timer fired: a cancel during the sleep is seen here.
BackoffEnds(w) ==
    /\ WorkerStep(w, "backoff", IF Own(w).status = "canceled" THEN "discard" ELSE "requeue")
    /\ UNCHANGED <<obj, cp, execs>> /\ Quiet

\* The queue was stopped, seen by the sleep or by requeue().
StoppedInBackoff(w) ==
    /\ stopped
    /\ FinishFailed(w, "backoff", "retryable") \/ FinishFailed(w, "requeue", "retryable")

Rest(w) == at' = [at EXCEPT ![w] = NoId] /\ cp' = [cp EXCEPT ![w] = NewJob]

\* Fault: the worker lets go of the job before it queues it.
RequeueNil(w) ==
    /\ WorkerStep(w, "requeue", "idle")
    /\ ~stopped
    /\ Rest(w)
    /\ line' = Append(line, at'[w])
    /\ UNCHANGED <<rows, tracked, obj, stopped, toolGone, submits, execs, callers, world, lost>>

\* Fault: a retry is not queued.
RequeueDropped(w) ==
    /\ WorkerStep(w, "requeue", "idle")
    /\ ~stopped
    /\ Rest(w)
    /\ UNCHANGED <<rows, memory, submits, execs, callers, world, lost>>

Requeue(w) ==
    /\ WorkerStep(w, "requeue", "idle")
    /\ ~stopped
    /\ line' = Append(line, at[w])
    /\ Rest(w)
    /\ UNCHANGED <<rows, tracked, obj, stopped, toolGone, submits, execs, callers, world, lost>>

PersistFinal(w) ==
    /\ WorkerStep(w, "finishing", "idle")
    /\ Persist(at[w], cp[w])
    /\ Rest(w)
    /\ UNCHANGED <<memory, submits, execs, callers, world>>

Work(w) == \/ Take(w) \/ NoTool(w) \/ Begin(w) \/ BeginCanceled(w) \/ PersistRunning(w)
           \/ ExecuteEnds(w) \/ FinishCanceled(w) \/ FinishDone(w) \/ FinishPermanent(w)
           \/ FinishExhausted(w) \/ Retry(w) \/ PersistRetry(w) \/ BackoffEnds(w)
           \/ StoppedInBackoff(w) \/ Requeue(w) \/ PersistFinal(w)
------------------------------------------------------------------------------
(* The handlers of cancel, ack and get requests.                             *)

\* A client has the id from the answer to a submit(), from the status page, which
\* lists q.jobs, or from the inbox.
Known(id) == \/ \E i \in Id : reply[i] = id
             \/ tracked[id] # "none"
             \/ id \in Stored(rows) /\ rows[id].status \in Terminal

Request(c, op, id) == up /\ cl[c] = "idle" /\ op \in CallerOps /\ Known(id)

\* The caller goes to a step of its own with the id and the Job value it read.
Carry(c, to, id, j) ==
    /\ cl' = [cl EXCEPT ![c] = to]
    /\ target' = [target EXCEPT ![c] = id]
    /\ carried' = [carried EXCEPT ![c] = j]

Answer(c, from) == up /\ cl[c] = from /\ Carry(c, "idle", NoId, NewJob)

Tracked(id) == obj[id][tracked[id]]

\* Fault: a job that has its outcome is canceled as well.
CancelMarkTerminal(c, id) ==
    /\ Request(c, "cancel", id)
    /\ tracked[id] # "none"
    /\ LET j == [Tracked(id) EXCEPT !.status = "canceled"] IN
       /\ obj' = [obj EXCEPT ![id][tracked[id]] = j]
       /\ Carry(c, "cancelPersist", id, j)
    /\ UNCHANGED <<rows, tracked, line, stopped, toolGone, submits, workers, canceled, acked,
                   world, lost>>

\* The critical section of Cancel(): a job that is terminal is answered false and
\* left alone, and so is one that only the store has.  cancels[id] is called, if
\* there is one: it ends Execute() early, with an outcome that is discarded.
CancelMark(c, id) ==
    /\ Request(c, "cancel", id)
    /\ tracked[id] # "none"
    /\ Tracked(id).status \notin Terminal
    /\ LET j == [Tracked(id) EXCEPT !.status = "canceled"] IN
       /\ obj' = [obj EXCEPT ![id][tracked[id]] = j]
       /\ Carry(c, "cancelPersist", id, j)
    /\ UNCHANGED <<rows, tracked, line, stopped, toolGone, submits, workers, canceled, acked,
                   world, lost>>

CancelPersist(c) ==
    /\ Answer(c, "cancelPersist")
    /\ Persist(target[c], carried[c])
    /\ canceled' = canceled \union {target[c]}
    /\ UNCHANGED <<memory, submits, workers, acked, world>>

\* The critical section of Ack() for a tracked job.
AckMark(c, id) ==
    /\ Request(c, "ack", id)
    /\ tracked[id] # "none"
    /\ Tracked(id).status \in Terminal /\ ~Tracked(id).acked
    /\ LET j == [Tracked(id) EXCEPT !.acked = TRUE] IN
       /\ obj' = [obj EXCEPT ![id][tracked[id]] = j]
       /\ Carry(c, "ackPersist", id, j)
    /\ UNCHANGED <<rows, tracked, line, stopped, toolGone, submits, workers, canceled, acked,
                   world, lost>>

\* persistAck(): an error is logged, and the client told of success.
AckPersist(c) ==
    /\ Answer(c, "ackPersist")
    /\ \/ rows' = AckedRow(rows, target[c]) /\ UNCHANGED lost
       \/ StoreFails /\ lost' = lost \union {target[c]} /\ UNCHANGED rows
    /\ acked' = acked \union {target[c]}
    /\ UNCHANGED <<memory, submits, workers, canceled, world>>

\* Ack() of a job that is not in q.jobs: Get() from the store, then store.Ack().
AckRead(c, id) ==
    /\ Request(c, "ack", id)
    /\ tracked[id] = "none"
    /\ id \in TerminalUnacked(rows)
    /\ Carry(c, "ackStore", id, rows[id])
    /\ UNCHANGED <<rows, memory, submits, workers, canceled, acked, world, lost>>

AckStore(c) ==
    /\ Answer(c, "ackStore")
    /\ \/ rows' = AckedRow(rows, target[c]) /\ acked' = acked \union {target[c]}
       \/ StoreFails /\ UNCHANGED <<rows, acked>>
    /\ UNCHANGED <<memory, submits, workers, canceled, world, lost>>

\* Get() of a job that is not in q.jobs: the row is read without the lock ...
GetMiss(c, id) ==
    /\ Request(c, "get", id)
    /\ tracked[id] = "none"
    /\ id \in Stored(rows)
    /\ Carry(c, "getFill", id, rows[id])
    /\ UNCHANGED <<rows, memory, submits, workers, canceled, acked, world, lost>>

\* ... and put in q.jobs under it, whatever is there by then.
GetFill(c) ==
    /\ Answer(c, "getFill")
    /\ tracked' = [tracked EXCEPT ![target[c]] = "read"]
    /\ obj' = [obj EXCEPT ![target[c]].read = carried[c]]
    /\ UNCHANGED <<rows, line, stopped, toolGone, submits, workers, canceled, acked, world, lost>>

Call(c) == \/ CancelPersist(c) \/ AckPersist(c) \/ AckStore(c) \/ GetFill(c)
           \/ \E id \in Id : CancelMark(c, id) \/ AckMark(c, id) \/ AckRead(c, id) \/ GetMiss(c, id)

------------------------------------------------------------------------------
(* The process.                                                              *)

\* The workers and the dispatcher go on for as long as they like: a select with
\* two ready cases takes either.
Stop ==
    /\ CanStop /\ up /\ ~stopped
    /\ stopped' = TRUE
    /\ UNCHANGED <<rows, tracked, obj, line, toolGone, submits, workers, callers, world, lost>>

\* The process is gone, between any two steps; the table is not.
Crash ==
    /\ up /\ crashes < MaxCrashes
    /\ up' = FALSE /\ crashes' = crashes + 1
    /\ tracked' = [i \in Id |-> "none"]
    /\ obj' = [i \in Id |-> Start]
    /\ line' = <<>> /\ stopped' = FALSE /\ toolGone' = FALSE
    /\ sub' = [i \in Id |-> IF sub[i] \in {"insert", "track", "enqueue", "dedupe"}
                            THEN "broken" ELSE sub[i]]
    /\ dup' = [i \in Id |-> <<>>]
    /\ wk' = [w \in Worker |-> "idle"] /\ at' = [w \in Worker |-> NoId]
    /\ cp' = [w \in Worker |-> NewJob]
    /\ cl' = [c \in Caller |-> "idle"] /\ target' = [c \in Caller |-> NoId]
    /\ carried' = [c \in Caller |-> NewJob]
    /\ UNCHANGED <<rows, reply, execs, canceled, acked, lost>>

\* Resume(), before the desk listens.  The workers run by then, but only on jobs
\* it has already queued, so its loop is one step.  Every loaded job is queued in
\* memory; its row keeps its status.  When the store fails the desk serves anyway.
Restart ==
    /\ ~up /\ up' = TRUE
    /\ toolGone' \in BOOLEAN
    /\ \E loaded \in {Incomplete(rows)} \union (IF StoreFails THEN {{}} ELSE {}) :
         /\ tracked' = [i \in Id |-> IF i \in loaded THEN "own" ELSE "none"]
         /\ obj' = [i \in Id |-> IF i \in loaded
                                 THEN [Start EXCEPT !.own = [rows[i] EXCEPT !.status = "queued"]]
                                 ELSE Start]
         /\ line' \in {s \in [1..Cardinality(loaded) -> loaded] : \A i \in loaded : \E n \in DOMAIN s : s[n] = i}
    /\ UNCHANGED <<rows, stopped, submits, workers, callers, crashes, lost>>

Next == \/ \E id \in Id : Submit(id)
        \/ \E w \in Worker : Work(w)
        \/ \E c \in Caller : Call(c)
        \/ Stop \/ Crash \/ Restart

Spec == Init /\ [][Next]_vars

\* Every goroutine that can go on does; a client's request, a crash and a stop
\* need not come, a restart after a crash does.
Fairness ==
    /\ \A id \in Id : WF_vars(sub[id] # "idle" /\ Submit(id))
    /\ \A w \in Worker : WF_vars(Work(w))
    /\ \A c \in Caller : WF_vars(cl[c] # "idle" /\ Call(c))
    /\ WF_vars(Restart)

FairSpec == Spec /\ Fairness
------------------------------------------------------------------------------
(* Properties the code has.                                                  *)

Places(id) == {<<"line", n>> : n \in {m \in DOMAIN line : line[m] = id}}
              \union {<<"worker", w>> : w \in {v \in Worker : at[v] = id}}

\* A job is in one place: once on the backlog or with one worker, and its submit()
\* has let go of it.  Two places would be two executions at a time of one job, in
\* one workspace; a deduplicated submit, a retry and a resume could each add one.
OneExecution ==
    \A id \in Id : /\ \A p, q \in Places(id) : p = q
                   /\ sub[id] \in {"insert", "track", "enqueue"} => Places(id) = {}

\* Two submits with one idempotency key are answered with one job, at whatever
\* moments they meet and whether or not the desk restarts between them.
OneJobPerKey ==
    \A i, j \in Id : (KeyOf[i] = KeyOf[j] /\ KeyOf[i] # NoKey /\ reply[i] # NoId /\ reply[j] # NoId)
                     => reply[i] = reply[j]

\* A submit that was refused left no job behind, which a restart would run and a
\* second submit with its key be answered with: admission is decided before the
\* row is written (the comment of reserve()).
RefusedLeavesNoJob == \A id \in Id : sub[id] = "refused" => rows[id] = NoRow

\* An Ack that was answered is in the table and stays there, unless a write of the
\* job failed: a worker that persists the outcome at the same time does not write
\* the flag (the comments of finish() and persistAck()).
AckDurable == \A id \in acked \ lost : rows[id] # NoRow /\ rows[id].acked

\* Done and failed are final: a Cancel that comes when the worker has recorded the
\* outcome, and not yet persisted it, changes nothing.
OutcomeIsFinal ==
    [][\A id \in Id : obj[id].own.status \in {"done", "failed"} /\ up'
                      => obj'[id].own.status = obj[id].own.status]_vars

\* When no one is at work on a job, its row and the worker's job agree in every
\* lifecycle column: the copies that are persisted outside the lock arrive in the
\* order in which they were taken.  Jobs that were canceled are left out, and so
\* are those a write of which failed.
Settled(id) == /\ tracked[id] = "own"
               /\ Places(id) = {}
               /\ \A c \in Caller : target[c] # id
               /\ sub[id] \in {"done", "broken"}
StoreAgrees ==
    \A id \in Id \ (canceled \union lost) :
        Settled(id) => rows[id] # NoRow /\ rows[id] = [obj[id].own EXCEPT !.acked = rows[id].acked]

\* A job is run at most MaxRetries times, and at least once, plus once for every
\* crash: the count of attempts is in the table, so a restart does not reset it.
ExecutionBound ==
    \A id \in Id \ lost : execs[id] <= (IF MaxRetries > 1 THEN MaxRetries ELSE 1) + crashes

\* A job that only the store has is terminal: Resume() has loaded all others, and a
\* submit() tracks its job before it answers.  Cancel() relies on it.
StoreOnlyIsTerminal ==
    up => \A id \in Stored(rows) : tracked[id] = "none" /\ rows[id].status \notin Terminal
                                   => sub[id] = "track"

\* A lookup that reads a row and puts it in q.jobs later, over whatever is there by then,
\* never hides a job that is still to run from Cancel(): what it puts there is the
\* outcome that the table has, until the job's own submit() overwrites it.
ReadCopySettled ==
    up => \A id \in Id : tracked[id] = "read" /\ sub[id] # "track"
                         => /\ obj[id].read.status \in Terminal
                            /\ rows[id].status = obj[id].read.status

\* Every submit that was answered gets a terminal row, across crashes, for the job
\* it was answered with, which may be that of an earlier submit.
AnsweredJobFinishes ==
    \A i, id \in Id : reply[i] = id ~> rows[id] # NoRow /\ rows[id].status \in Terminal

------------------------------------------------------------------------------
(* What the comments and the documents say of the program.                   *)

\* isTerminal(): no future write can move a job out of a terminal status.
CanceledIsFinal ==
    [][\A id \in Id : obj[id].own.status = "canceled" /\ up'
                      => obj'[id].own.status = "canceled"]_vars

\* isTerminal(): nothing further will run for a job that a client has seen
\* canceled, or has acked; Cancel(): a queued job is skipped.
TerminalNeverRuns ==
    [][\A id \in canceled \union acked : execs'[id] = execs[id]]_vars
=============================================================================
