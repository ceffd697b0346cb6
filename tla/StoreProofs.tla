------------------------------ MODULE StoreProofs ------------------------------
(***************************************************************************)
(* Theorems about JobQueue, for any jobs, workers, callers and bounds: the *)
(* outcome of a job is final, and what memory and the table say of one job *)
(* agree.  With a store that may fail: the worker's job and its row are    *)
(* the same when no one is at work on it.  With one that does not: a       *)
(* refused submit leaves no job, a job that only the store has is          *)
(* terminal, and a copy that a lookup read hides no job that is still to   *)
(* run.                                                                    *)
(***************************************************************************)
EXTENDS QueueProofs

------------------------------------------------------------------------------
(* Outcomes.  Whoever may still write the status of a job finds it without   *)
(* an outcome: a job that is to run, or whose worker has not recorded one.   *)

Outcome == {"done", "failed"}

Unfinished(id) == \/ ~up \/ Early(id) \/ id \in Ids(line)
                  \/ \E w \in Worker : at[w] = id /\ wk[w] # "finishing"

OutcomeInv == \A id \in Id : Unfinished(id) => obj[id].own.status \notin Outcome

LEMMA InitOutcomeInv == Init => OutcomeInv
BY DEF Init, OutcomeInv, Outcome, Start, NewJob

\* No step of a submit() writes the worker's Job value.
LEMMA SubmitOwn ==
    ASSUME Typed, NEW id \in Id, Submit(id)
    PROVE  \A i \in Id : obj'[i].own = obj[i].own
<1>1. CASE SubmitDedupe(id)
    <2>1. sub[id] = "dedupe"
        BY <1>1 DEF SubmitDedupe, SubmitStep
    <2>2. dup[id][1] \in Id
        BY <2>1 DEF Typed, SubmitsTyped
    <2>3. \/ obj' = obj
          \/ obj' = [obj EXCEPT ![dup[id][1]] = [obj[dup[id][1]] EXCEPT !.read = dup[id][2]]]
        BY <1>1 DEF SubmitDedupe
    <2>. QED
        BY <2>2, <2>3 DEF Typed, MemoryTyped
<1>2. CASE ~SubmitDedupe(id)
    BY <1>2 DEF Submit, SubmitBegin, SubmitInsert, SubmitInsertFails, SubmitTrack, SubmitEnqueue,
                memory
<1>. QED
    BY <1>1, <1>2

LEMMA SubmitOutcomeInv == ASSUME Typed, OutcomeInv, NEW id \in Id, Submit(id) PROVE OutcomeInv'
<1>. USE DEF SubmitStep
<1>1. UNCHANGED <<wk, at, up>>
    BY DEF Submit, SubmitBegin, SubmitInsert, SubmitInsertFails, SubmitTrack, SubmitEnqueue,
           SubmitDedupe, workers, world
<1>2. \A i \in Id : Early(i)' => Early(i)
    BY DEF Early, Submit, SubmitBegin, SubmitInsert, SubmitInsertFails, SubmitTrack, SubmitEnqueue,
           SubmitDedupe, Typed, SubmitsTyped
<1>3. \A i \in Id : i \in Ids(line') => i \in Ids(line) \/ Early(i)
    <2>1. CASE SubmitEnqueue(id)
        <3>1. line' = Append(line, id) /\ Early(id)
            BY <2>1 DEF SubmitEnqueue, Early
        <3>2. line \in Seq(Id)
            BY DEF Typed, MemoryTyped
        <3>3. \A n \in DOMAIN Append(line, id) : \/ Append(line, id)[n] = id
                                                 \/ n \in DOMAIN line /\ Append(line, id)[n] = line[n]
            BY <3>2
        <3>. QED
            BY <3>1, <3>3 DEF Ids
    <2>2. CASE ~SubmitEnqueue(id)
        BY <2>2 DEF Submit, SubmitBegin, SubmitInsert, SubmitInsertFails, SubmitTrack, SubmitDedupe,
                    memory
    <2>. QED
        BY <2>1, <2>2
<1>4. \A i \in Id : Unfinished(i)' => Unfinished(i)
    BY <1>1, <1>2, <1>3 DEF Unfinished
<1>. QED
    BY <1>4, SubmitOwn DEF OutcomeInv

\* A step of a worker writes the status of its own job, before it has an outcome.
LEMMA WorkOwn ==
    ASSUME Typed, NEW w \in Worker, Work(w)
    PROVE  \/ obj' = obj
           \/ /\ wk[w] \notin {"idle", "finishing"} /\ UNCHANGED <<line, at>>
              /\ \A i \in Id : i # at[w] => obj'[i] = obj[i]
              /\ obj'[at[w]].own.status \in Outcome => wk'[w] = "finishing"
<1>1. ASSUME wk[w] \notin {"idle", "finishing"}, NEW j \in Job, Leave(w, j), Quiet,
             j.status \in Outcome => wk'[w] = "finishing"
      PROVE  /\ wk[w] \notin {"idle", "finishing"} /\ UNCHANGED <<line, at>>
             /\ \A i \in Id : i # at[w] => obj'[i] = obj[i]
             /\ obj'[at[w]].own.status \in Outcome => wk'[w] = "finishing"
    <2>1. at[w] \in Id
        BY <1>1, OwnTyped
    <2>2. obj' = [obj EXCEPT ![at[w]] = [obj[at[w]] EXCEPT !.own = j]]
        BY <1>1 DEF Leave
    <2>3. obj'[at[w]].own = j
        BY <2>1, <2>2 DEF Typed, MemoryTyped
    <2>. QED
        BY <1>1, <2>1, <2>2, <2>3 DEF Quiet, Typed, MemoryTyped
<1>2. ASSUME NEW from \in {"took", "ended", "backoff", "requeue"}, NEW r \in Reason,
             FinishFailed(w, from, r)
      PROVE  /\ wk[w] \notin {"idle", "finishing"} /\ UNCHANGED <<line, at>>
             /\ \A i \in Id : i # at[w] => obj'[i] = obj[i]
             /\ obj'[at[w]].own.status \in Outcome => wk'[w] = "finishing"
    <2>1. wk[w] = from /\ Own(w) \in Job /\ wk'[w] = "finishing" /\ "failed" \in JobStatus
        BY <1>2, OwnTyped DEF FinishFailed, WorkerStep, Typed, WorkersTyped, JobStatus
    <2>2. [Own(w) EXCEPT !.status = "failed", !.error = r] \in Job
        BY <2>1, JobSet
    <2>. QED
        BY <1>1, <1>2, <2>1, <2>2 DEF FinishFailed
<1>3. CASE NoTool(w) \/ FinishPermanent(w) \/ FinishExhausted(w) \/ StoppedInBackoff(w)
    BY <1>2, <1>3 DEF NoTool, FinishPermanent, FinishExhausted, StoppedInBackoff, Reason
<1>4. CASE Begin(w) \/ Retry(w) \/ FinishDone(w) \/ FinishCanceled(w)
    <2>1. /\ wk[w] \notin {"idle", "finishing"} /\ Own(w) \in Job
          /\ FinishDone(w) \/ FinishCanceled(w) => wk'[w] = "finishing"
        BY <1>4, OwnTyped DEF Begin, Retry, FinishDone, FinishCanceled, WorkerStep, Typed, WorkersTyped
    <2>2. {"running", "queued", "done"} \subseteq JobStatus /\ {"operator", "retryable"} \subseteq Reason
        BY DEF JobStatus, Reason
    <2>3. /\ [Own(w) EXCEPT !.status = "running", !.attempt = @ + 1].status \notin Outcome
          /\ [Own(w) EXCEPT !.status = "queued", !.error = "retryable"].status \notin Outcome
        BY <2>1 DEF Job, Outcome
    <2>4. CASE Begin(w)
        BY <1>1, <2>1, <2>2, <2>3, <2>4, JobSet DEF Begin
    <2>5. CASE Retry(w)
        BY <1>1, <2>1, <2>2, <2>3, <2>5, JobSet DEF Retry
    <2>6. CASE FinishDone(w)
        BY <1>1, <2>1, <2>2, <2>6, JobSet DEF FinishDone
    <2>7. CASE FinishCanceled(w)
        BY <1>1, <2>1, <2>2, <2>7, JobSet DEF FinishCanceled
    <2>. QED
        BY <1>4, <2>4, <2>5, <2>6, <2>7
<1>5. CASE \/ Take(w) \/ BeginCanceled(w) \/ PersistRunning(w) \/ ExecuteEnds(w) \/ PersistRetry(w)
           \/ BackoffEnds(w) \/ Requeue(w) \/ PersistFinal(w)
    BY <1>5 DEF Take, BeginCanceled, PersistRunning, ExecuteEnds, PersistRetry, BackoffEnds, Requeue,
                PersistFinal, memory
<1>. QED
    BY <1>3, <1>4, <1>5 DEF Work

LEMMA WorkOutcomeInv ==
    ASSUME Typed, PlaceInv, PlaceInv', OutcomeInv, NEW w \in Worker, Work(w) PROVE OutcomeInv'
<1>1. up /\ UNCHANGED <<sub, up>>
    BY WorkMoves
<1>2. /\ at \in [Worker -> Id \union {NoId}] /\ line \in Seq(Id)
      /\ wk[w] = "idle" <=> at[w] = NoId
      /\ \A v \in Worker : v # w => wk'[v] = wk[v] /\ at'[v] = at[v]
    BY DEF Work, Take, NoTool, Begin, BeginCanceled, PersistRunning, ExecuteEnds, FinishCanceled,
           FinishDone, FinishPermanent, FinishExhausted, Retry, PersistRetry, BackoffEnds,
           StoppedInBackoff, Requeue, PersistFinal, FinishFailed, Quiet, WorkerStep, Rest,
           Typed, WorkersTyped, MemoryTyped
<1>3. wk[w] = "finishing" => at'[w] = NoId
    BY <1>2 DEF Work, Take, NoTool, Begin, BeginCanceled, PersistRunning, ExecuteEnds, FinishCanceled,
           FinishDone, FinishPermanent, FinishExhausted, Retry, PersistRetry, BackoffEnds,
           StoppedInBackoff, Requeue, PersistFinal, FinishFailed, WorkerStep, Rest
<1>. SUFFICES ASSUME NEW i \in Id, Unfinished(i)' PROVE obj'[i].own.status \notin Outcome
    BY DEF OutcomeInv
<1>4. Unfinished(i)
    <2>1. CASE UNCHANGED <<line, at>>
        BY <1>1, <1>2, <1>3, <2>1, QueueAssumption DEF Unfinished, Early
    <2>2. CASE Take(w)
        <3>1. /\ line # <<>> /\ line' = Tail(line) /\ at'[w] = Head(line)
            BY <1>2, <2>2 DEF Take
        <3>2. Head(line) \in Ids(line) /\ Ids(line') \subseteq Ids(line)
            BY <1>2, <3>1, OnceTail DEF PlaceInv
        <3>. QED
            BY <1>1, <1>2, <3>1, <3>2 DEF Unfinished, Early
    <2>3. CASE Requeue(w)
        <3>1. /\ wk[w] = "requeue" /\ at[w] \in Id
              /\ line' = Append(line, at[w]) /\ at'[w] = NoId
            BY <1>2, <2>3, OwnTyped DEF Requeue, Rest, WorkerStep
        <3>2. Ids(line') = Ids(line) \union {at[w]}
            BY <1>2, <3>1, OnceAppend DEF PlaceInv, Apart
        <3>. QED
            BY <1>1, <1>2, <3>1, <3>2, QueueAssumption DEF Unfinished, Early
    <2>4. CASE line' = line /\ at' = [at EXCEPT ![w] = NoId]
        BY <1>1, <1>2, <2>4, QueueAssumption DEF Unfinished, Early
    <2>. QED
        BY <2>1, <2>2, <2>3, <2>4, WorkMoves
<1>5. CASE obj' = obj
    BY <1>4, <1>5 DEF OutcomeInv
<1>6. CASE /\ wk[w] \notin {"idle", "finishing"} /\ UNCHANGED <<line, at>>
           /\ \A k \in Id : k # at[w] => obj'[k] = obj[k]
           /\ obj'[at[w]].own.status \in Outcome => wk'[w] = "finishing"
    <2>1. CASE i = at[w]
        <3>1. i \notin Ids(line') /\ ~Early(i)'
            BY <1>6, <2>1 DEF PlaceInv, Apart, NotYet, Placed, Early
        <3>2. \A v \in Worker : at'[v] = i => v = w
            BY <1>2, <1>6, <2>1, QueueAssumption DEF PlaceInv, OneWorker
        <3>3. wk'[w] # "finishing"
            BY <1>1, <3>1, <3>2 DEF Unfinished
        <3>. QED
            BY <1>6, <2>1, <3>3
    <2>2. CASE i # at[w]
        BY <1>4, <1>6, <2>2 DEF OutcomeInv
    <2>. QED
        BY <2>1, <2>2
<1>. QED
    BY <1>5, <1>6, WorkOwn

\* A handler writes the status of a job that has no outcome, and writes no outcome.
LEMMA CallOwn ==
    ASSUME Typed, NEW c \in Caller, Call(c)
    PROVE  \A i \in Id : \/ obj'[i].own.status = obj[i].own.status
                         \/ obj[i].own.status \notin Outcome /\ obj'[i].own.status \notin Outcome
<1>1. ASSUME NEW id \in Id, CancelMark(c, id) \/ AckMark(c, id), NEW i \in Id
      PROVE  \/ obj'[i].own.status = obj[i].own.status
             \/ obj[i].own.status \notin Outcome /\ obj'[i].own.status \notin Outcome
    <2>1. tracked[id] \in {"own", "read"} /\ Tracked(id) \in Job
        BY <1>1 DEF CancelMark, AckMark, Tracked, Typed, MemoryTyped
    <2>2. PICK j \in Job : /\ obj' = [obj EXCEPT ![id][tracked[id]] = j]
                           /\ \/ j.status = Tracked(id).status
                              \/ Tracked(id).status \notin Terminal /\ j.status = "canceled"
        <3>1. /\ [Tracked(id) EXCEPT !.status = "canceled"].status = "canceled"
              /\ [Tracked(id) EXCEPT !.acked = TRUE].status = Tracked(id).status
            BY <2>1 DEF Job
        <3>2. "canceled" \in JobStatus /\ "none" \in Reason
            BY DEF JobStatus, Reason
        <3>. QED
            BY <1>1, <2>1, <3>1, <3>2, JobSet DEF CancelMark, AckMark
    <2>3. obj' = [obj EXCEPT ![id] = [obj[id] EXCEPT ![tracked[id]] = j]]
        BY <2>2
    <2>4. \/ [obj[id] EXCEPT ![tracked[id]] = j].own.status = obj[id].own.status
          \/ /\ obj[id].own.status \notin Outcome
             /\ [obj[id] EXCEPT ![tracked[id]] = j].own.status \notin Outcome
        BY <2>1, <2>2 DEF Tracked, Typed, MemoryTyped, Terminal, Outcome
    <2>. QED
        BY <2>3, <2>4 DEF Typed, MemoryTyped
<1>2. CASE GetFill(c)
    <2>1. obj' = [obj EXCEPT ![target[c]] = [obj[target[c]] EXCEPT !.read = carried[c]]]
        BY <1>2 DEF GetFill
    <2>. QED
        BY <2>1 DEF Typed, MemoryTyped
<1>3. ASSUME NEW id \in Id, AckRead(c, id) \/ GetMiss(c, id)
      PROVE  obj' = obj
    BY <1>3 DEF AckRead, GetMiss, memory
<1>4. CASE CancelPersist(c) \/ AckPersist(c) \/ AckStore(c)
    BY <1>4 DEF CancelPersist, AckPersist, AckStore, memory
<1>. QED
    BY <1>1, <1>2, <1>3, <1>4 DEF Call

LEMMA CallOutcomeInv == ASSUME Typed, OutcomeInv, NEW c \in Caller, Call(c) PROVE OutcomeInv'
<1>1. UNCHANGED <<line, sub, wk, at, up>>
    BY DEF Call, CancelPersist, AckPersist, AckStore, GetFill, CancelMark, AckMark, AckRead, GetMiss,
           memory, submits, workers, world
<1>2. \A i \in Id : Unfinished(i)' => Unfinished(i)
    BY <1>1 DEF Unfinished, Early
<1>. QED
    BY <1>2, CallOwn DEF OutcomeInv

LEMMA ProcessOutcomeInv ==
    ASSUME Typed, OutcomeInv, Stop \/ Crash \/ Restart PROVE OutcomeInv'
<1>1. CASE Stop
    BY <1>1 DEF Stop, submits, workers, world, OutcomeInv, Unfinished, Early
<1>2. CASE Crash
    <2>1. \A i \in Id : obj'[i].own.status = "queued"
        BY <1>2 DEF Crash, Start, NewJob
    <2>. QED
        BY <2>1 DEF OutcomeInv, Outcome
<1>3. CASE Restart
    <2>1. PICK S \in {Incomplete(rows)} \union (IF StoreFails THEN {{}} ELSE {}) :
              obj' = [i \in Id |-> IF i \in S
                                   THEN [Start EXCEPT !.own = [rows[i] EXCEPT !.status = "queued"]]
                                   ELSE Start]
        BY <1>3 DEF Restart
    <2>2. \A i \in S : rows[i] \in Job
        BY <2>1 DEF Incomplete, Stored, Typed, TableTyped, Rows
    <2>3. \A i \in S : [rows[i] EXCEPT !.status = "queued"].status = "queued"
        BY <2>2 DEF Job
    <2>4. \A i \in Id : obj'[i].own.status = "queued"
        BY <2>1, <2>3 DEF Start, NewJob
    <2>. QED
        BY <2>4 DEF OutcomeInv, Outcome
<1>. QED
    BY <1>1, <1>2, <1>3

LEMMA OutcomeStep ==
    ASSUME Typed, PlaceInv, PlaceInv', OutcomeInv, [Next]_vars PROVE OutcomeInv'
<1>1. UNCHANGED vars => OutcomeInv'
    BY DEF vars, memory, submits, workers, world, OutcomeInv, Unfinished, Early
<1>. QED
    BY <1>1, SubmitOutcomeInv, WorkOutcomeInv, CallOutcomeInv, ProcessOutcomeInv DEF Next

LEMMA OutcomeInvariant == Spec => []OutcomeInv
BY InitOutcomeInv, OutcomeStep, TypedInvariant, PlaceInvariant, PTL DEF Spec

LEMMA OutcomeFixed ==
    ASSUME Typed, OutcomeInv, Next, NEW id \in Id, obj[id].own.status \in Outcome, up'
    PROVE  obj'[id].own.status = obj[id].own.status
<1>1. ~Unfinished(id) /\ up
    BY DEF OutcomeInv, Unfinished
<1>2. ASSUME NEW i \in Id, Submit(i) PROVE obj'[id].own.status = obj[id].own.status
    BY <1>2, SubmitOwn
<1>3. ASSUME NEW w \in Worker, Work(w) PROVE obj'[id].own.status = obj[id].own.status
    <2>1. wk[w] \notin {"idle", "finishing"} => at[w] # id
        BY <1>1 DEF Unfinished
    <2>. QED
        BY <1>3, <2>1, WorkOwn
<1>4. ASSUME NEW c \in Caller, Call(c) PROVE obj'[id].own.status = obj[id].own.status
    BY <1>4, CallOwn
<1>5. CASE Stop \/ Crash \/ Restart
    BY <1>1, <1>5 DEF Stop, Crash, Restart
<1>. QED
    BY <1>2, <1>3, <1>4, <1>5 DEF Next

\* Done and failed are final in the worker's job: whatever cancel, acknowledgement or
\* retry comes, nobody writes a status over an outcome in the life of a process.
THEOREM OutcomeStays == Spec => OutcomeIsFinal
<1>1. Typed /\ OutcomeInv /\ [Next]_vars
      => [\A id \in Id : obj[id].own.status \in {"done", "failed"} /\ up'
                         => obj'[id].own.status = obj[id].own.status]_vars
    BY OutcomeFixed DEF Outcome
<1>. QED
    BY <1>1, TypedInvariant, OutcomeInvariant, PTL DEF Spec, OutcomeIsFinal

------------------------------------------------------------------------------
(* With a store that does not fail: which rows there are, and which of them  *)
(* have their job in q.jobs.                                                 *)

\* Nobody but a submit() makes a row, and nobody takes one away.
LEMMA RowsStay ==
    ASSUME Typed,
           \/ \E w \in Worker : Work(w)
           \/ \E c \in Caller : Call(c)
           \/ Stop \/ Crash \/ Restart \/ UNCHANGED vars
    PROVE  \A i \in Id : Has(i)' <=> Has(i)
<1>1. ASSUME NEW w \in Worker, Work(w) PROVE Kept
    <2>1. CASE UNCHANGED <<rows, lost>>
        BY <2>1 DEF Kept, Has, Typed, TableTyped
    <2>2. CASE wk[w] # "idle" /\ Persist(at[w], cp[w])
        <3>1. at[w] \in Id /\ cp[w] \in Job
            BY <2>2 DEF Typed, WorkersTyped
        <3>2. rows' = rows \/ rows' = Updated(rows, at[w], cp[w])
            BY <2>2 DEF Persist
        <3>. QED
            BY <3>1, <3>2, UpdateKeeps DEF Typed
    <2>. QED
        BY <1>1, <2>1, <2>2, WorkRows
<1>2. ASSUME NEW c \in Caller, Call(c) PROVE Kept
    <2>1. CASE CancelPersist(c) \/ AckPersist(c) \/ AckStore(c)
        <3>1. target[c] \in Id /\ carried[c] \in Job
            BY <2>1 DEF CancelPersist, AckPersist, AckStore, Answer, Typed, CallersTyped
        <3>2. \/ rows' = rows
              \/ rows' = Updated(rows, target[c], carried[c])
              \/ rows' = AckedRow(rows, target[c])
            BY <2>1 DEF CancelPersist, AckPersist, AckStore, Persist
        <3>. QED
            BY <3>1, <3>2, UpdateKeeps DEF Typed
    <2>2. CASE ~(CancelPersist(c) \/ AckPersist(c) \/ AckStore(c))
        <3>1. rows' = rows
            BY <1>2, <2>2 DEF Call, GetFill, CancelMark, AckMark, AckRead, GetMiss
        <3>. QED
            BY <3>1 DEF Kept, Has, Typed, TableTyped
    <2>. QED
        BY <2>1, <2>2
<1>3. CASE Stop \/ Crash \/ Restart \/ UNCHANGED vars
    <2>1. rows' = rows
        BY <1>3 DEF Stop, Crash, Restart, vars
    <2>. QED
        BY <2>1 DEF Kept, Has, Typed, TableTyped
<1>. QED
    BY <1>1, <1>2, <1>3 DEF Kept, Has

\* The only row a submit() writes is its own, before it has tracked its job.
LEMMA SubmitRows ==
    ASSUME ~StoreFails, Typed, NEW id \in Id, Submit(id)
    PROVE  /\ up /\ up' /\ \A i \in Id : i # id => sub'[i] = sub[i] /\ rows'[i] = rows[i]
           /\ \/ rows' = rows /\ (sub'[id] = "refused" => sub[id] = "idle")
              \/ sub[id] = "insert" /\ sub'[id] = "track"
<1>. USE DEF SubmitStep
<1>1. up /\ up' /\ \A i \in Id : i # id => sub'[i] = sub[i]
    <2>1. up /\ UNCHANGED up
        BY DEF Submit, SubmitBegin, SubmitInsert, SubmitInsertFails, SubmitTrack, SubmitEnqueue,
               SubmitDedupe, world
    <2>2. \A i \in Id : i # id => sub'[i] = sub[i]
        BY DEF Submit, SubmitBegin, SubmitInsert, SubmitInsertFails, SubmitTrack, SubmitEnqueue,
               SubmitDedupe, Typed, SubmitsTyped
    <2>. QED
        BY <2>1, <2>2
<1>2. CASE SubmitInsert(id)
    <2>1. sub[id] = "insert" /\ rows' = Inserted(rows, id) /\ rows \in Rows
        BY <1>2 DEF SubmitInsert, Typed, TableTyped
    <2>2. CASE Owners(rows, id) = {}
        <3>1. sub'[id] = "track" /\ rows' = [rows EXCEPT ![id] = NewJob]
            BY <1>2, <2>1, <2>2 DEF SubmitInsert, Inserted, Typed, SubmitsTyped
        <3>. QED
            BY <1>1, <2>1, <3>1 DEF Rows
    <2>3. CASE Owners(rows, id) # {}
        BY <1>1, <1>2, <2>1, <2>3 DEF SubmitInsert, Inserted, Typed, SubmitsTyped
    <2>. QED
        BY <2>2, <2>3
<1>3. CASE ~SubmitInsert(id)
    BY <1>1, <1>3 DEF Submit, SubmitBegin, SubmitInsertFails, SubmitTrack, SubmitEnqueue, SubmitDedupe,
                      Typed, SubmitsTyped
<1>. QED
    BY <1>2, <1>3

LEMMA RefusedStep ==
    ASSUME ~StoreFails, Typed, Backed, RefusedLeavesNoJob, [Next]_vars PROVE RefusedLeavesNoJob'
<1>1. ASSUME NEW id \in Id, Submit(id) PROVE RefusedLeavesNoJob'
    BY <1>1, SubmitRows DEF RefusedLeavesNoJob, Backed, SubmitsBacked, Has
<1>2. CASE ~\E id \in Id : Submit(id)
    <2>1. \A i \in Id : Has(i)' <=> Has(i)
        BY <1>2, RowsStay DEF Next
    <2>2. \A i \in Id : sub'[i] = "refused" => sub[i] = "refused"
        <3>1. CASE Crash
            BY <3>1 DEF Crash
        <3>2. CASE ~Crash
            <4>1. UNCHANGED submits
                BY <1>2, <3>2, WorkRows
                   DEF Next, Call, CancelPersist, AckPersist, AckStore, GetFill, CancelMark,
                       AckMark, AckRead, GetMiss, Stop, Restart, vars
            <4>. QED
                BY <4>1 DEF submits
        <3>. QED
            BY <3>1, <3>2
    <2>. QED
        BY <2>1, <2>2 DEF RefusedLeavesNoJob, Has
<1>. QED
    BY <1>1, <1>2

\* A store that answers truly leaves no row of a submit() that was refused: admission is
\* decided before the row is written, on every path.
THEOREM RefusedIsGone == ASSUME ~StoreFails PROVE Spec => []RefusedLeavesNoJob
<1>1. Init => RefusedLeavesNoJob
    BY DEF Init, RefusedLeavesNoJob
<1>. QED
    BY <1>1, RefusedStep, TypedInvariant, BackedInvariant, PTL DEF Spec

\* Whoever runs or waits is in q.jobs.
TrackedInv ==
    up => \A id \in Id : Placed(id) \/ sub[id] = "enqueue" => tracked[id] # "none"

StoreOnlyInv == TrackedInv /\ StoreOnlyIsTerminal

LEMMA InitStoreOnly == Init => StoreOnlyInv
<1>. SUFFICES ASSUME Init PROVE StoreOnlyInv
    OBVIOUS
<1>1. PlaceInv /\ Stored(rows) = {} /\ \A id \in Id : sub[id] = "idle"
    BY InitPlaceInv DEF Init, Stored
<1>. QED
    BY <1>1 DEF StoreOnlyInv, TrackedInv, StoreOnlyIsTerminal, PlaceInv, NotYet

\* A submit() gives no job a place but the one it queues.
LEMMA SubmitPlaces ==
    ASSUME Typed, NEW id \in Id, Submit(id)
    PROVE  \A i \in Id : Placed(i)' => Placed(i) \/ (i = id /\ sub[i] = "enqueue")
<1>. USE DEF SubmitStep
<1>1. UNCHANGED at
    BY DEF Submit, SubmitBegin, SubmitInsert, SubmitInsertFails, SubmitTrack, SubmitEnqueue,
           SubmitDedupe, workers
<1>2. CASE SubmitEnqueue(id)
    <2>1. sub[id] = "enqueue" /\ line' = Append(line, id) /\ line \in Seq(Id)
        BY <1>2 DEF SubmitEnqueue, Typed, MemoryTyped
    <2>2. \A n \in DOMAIN Append(line, id) : \/ Append(line, id)[n] = id
                                             \/ n \in DOMAIN line /\ Append(line, id)[n] = line[n]
        BY <2>1
    <2>. QED
        BY <1>1, <2>1, <2>2 DEF Placed, Ids
<1>3. CASE ~SubmitEnqueue(id)
    BY <1>1, <1>3 DEF Submit, SubmitBegin, SubmitInsert, SubmitInsertFails, SubmitTrack,
                      SubmitDedupe, memory, Placed
<1>. QED
    BY <1>2, <1>3

\* A worker gives no job a place, and writes the row of no job but its own.
LEMMA WorkPlaces ==
    ASSUME Typed, PlaceInv, NEW w \in Worker, Work(w)
    PROVE  \A i \in Id : /\ Placed(i)' => Placed(i)
                         /\ rows'[i] = rows[i] \/ Placed(i)
<1>1. \A i \in Id : Placed(i)' => Placed(i)
    <2>1. CASE UNCHANGED <<line, at>>
        BY <2>1 DEF Placed
    <2>2. CASE Take(w)
        <3>1. /\ line # <<>> /\ line' = Tail(line) /\ at' = [at EXCEPT ![w] = Head(line)]
            BY <2>2 DEF Take
        <3>2. Head(line) \in Ids(line) /\ Ids(line') \subseteq Ids(line)
            BY <3>1, OnceTail DEF PlaceInv, Typed, MemoryTyped
        <3>. QED
            BY <3>1, <3>2 DEF Placed, Typed, WorkersTyped
    <2>3. CASE Requeue(w)
        <3>1. /\ at[w] \in Id /\ line' = Append(line, at[w]) /\ at' = [at EXCEPT ![w] = NoId]
            BY <2>3, OwnTyped DEF Requeue, Rest, WorkerStep
        <3>2. Ids(line') = Ids(line) \union {at[w]}
            BY <3>1, OnceAppend DEF PlaceInv, Apart, Typed, MemoryTyped
        <3>. QED
            BY <3>1, <3>2, QueueAssumption DEF Placed, Typed, WorkersTyped
    <2>4. CASE line' = line /\ at' = [at EXCEPT ![w] = NoId]
        BY <2>4, QueueAssumption DEF Placed, Typed, WorkersTyped
    <2>. QED
        BY <2>1, <2>2, <2>3, <2>4, WorkMoves
<1>2. \A i \in Id : rows'[i] = rows[i] \/ Placed(i)
    <2>1. CASE UNCHANGED <<rows, lost>>
        BY <2>1
    <2>2. CASE wk[w] # "idle" /\ Persist(at[w], cp[w])
        BY <2>2 DEF Persist, Updated, Placed, Typed, TableTyped, Rows
    <2>. QED
        BY <2>1, <2>2, WorkRows
<1>. QED
    BY <1>1, <1>2

\* The row a submit() writes is not tracked until its next step; no step takes an entry
\* out of q.jobs.
LEMMA SubmitStoreOnly ==
    ASSUME ~StoreFails, Typed, StoreOnlyInv, NEW id \in Id, Submit(id) PROVE StoreOnlyInv'
<1>. USE DEF SubmitStep
<1>1. /\ up /\ up' /\ \A i \in Id : i # id => sub'[i] = sub[i] /\ rows'[i] = rows[i]
      /\ \/ rows' = rows /\ (sub'[id] = "refused" => sub[id] = "idle")
         \/ sub[id] = "insert" /\ sub'[id] = "track"
    BY SubmitRows
<1>2. \A i \in Id : tracked[i] # "none" => tracked'[i] # "none"
    BY DEF Submit, SubmitBegin, SubmitInsert, SubmitInsertFails, SubmitTrack, SubmitEnqueue,
           SubmitDedupe, memory, Typed, MemoryTyped
<1>3. /\ sub'[id] = "enqueue" => tracked'[id] # "none"
      /\ sub[id] = "track" => tracked'[id] # "none"
    BY DEF Submit, SubmitBegin, SubmitInsert, SubmitInsertFails, SubmitTrack, SubmitEnqueue,
           SubmitDedupe, Typed, SubmitsTyped, MemoryTyped
<1>4. \A i \in Id : Placed(i)' => Placed(i) \/ sub[i] = "enqueue"
    BY SubmitPlaces
<1>5. TrackedInv'
    BY <1>1, <1>2, <1>3, <1>4 DEF StoreOnlyInv, TrackedInv
<1>6. StoreOnlyIsTerminal'
    BY <1>1, <1>2, <1>3 DEF StoreOnlyInv, StoreOnlyIsTerminal, Stored
<1>. QED
    BY <1>5, <1>6 DEF StoreOnlyInv

\* A worker writes the row of a job that is in q.jobs.
LEMMA WorkStoreOnly ==
    ASSUME Typed, PlaceInv, StoreOnlyInv, NEW w \in Worker, Work(w) PROVE StoreOnlyInv'
<1>1. up /\ up' /\ UNCHANGED <<tracked, sub>>
    BY WorkMoves, WorkRows
<1>2. \A i \in Id : Placed(i)' => Placed(i)
    BY WorkPlaces
<1>3. \A i \in Id : rows'[i] = rows[i] \/ Placed(i)
    BY WorkPlaces
<1>4. \A i \in Id : tracked'[i] = "none" => rows'[i] = rows[i]
    BY <1>1, <1>3 DEF StoreOnlyInv, TrackedInv
<1>. QED
    BY <1>1, <1>2, <1>4 DEF StoreOnlyInv, TrackedInv, StoreOnlyIsTerminal, Stored

\* A handler opens no row.
LEMMA CallStoreOnly ==
    ASSUME Typed, RunInv, StoreOnlyInv, NEW c \in Caller, Call(c) PROVE StoreOnlyInv'
<1>1. up /\ up' /\ UNCHANGED <<line, sub, at>>
    <2>1. UNCHANGED <<line, sub, at, up>>
        BY DEF Call, CancelPersist, AckPersist, AckStore, GetFill, CancelMark, AckMark, AckRead,
               GetMiss, memory, submits, workers, world
    <2>2. up
        BY DEF Call, CancelPersist, AckPersist, AckStore, GetFill, CancelMark, AckMark, AckRead,
               GetMiss, Answer, Request
    <2>. QED
        BY <2>1, <2>2
<1>2. \A i \in Id : tracked[i] # "none" => tracked'[i] # "none"
    BY DEF Call, CancelPersist, AckPersist, AckStore, GetFill, CancelMark, AckMark, AckRead, GetMiss,
           memory, Typed, MemoryTyped
<1>3. \A i \in Id : rows'[i] # NoRow /\ rows'[i].status \notin Terminal
                    => rows[i] # NoRow /\ rows[i].status \notin Terminal
    <2>1. CASE CancelPersist(c)
        <3>1. carried[c] \in Job /\ carried[c].status = "canceled"
            BY <2>1 DEF CancelPersist, Answer, Typed, CallersTyped, RunInv, CancelsClose
        <3>2. \A i \in Id : [carried[c] EXCEPT !.acked = rows[i].acked].status \in Terminal
            BY <3>1 DEF Job, Terminal
        <3>3. \A i \in Id : \/ rows'[i] = rows[i]
                            \/ rows'[i] = [carried[c] EXCEPT !.acked = rows[i].acked]
            BY <2>1 DEF CancelPersist, Persist, Updated
        <3>. QED
            BY <3>2, <3>3
    <2>2. CASE AckPersist(c) \/ AckStore(c)
        <3>1. \A i \in Id : \/ rows'[i] = rows[i]
                            \/ rows[i] # NoRow /\ rows'[i] = [rows[i] EXCEPT !.acked = TRUE]
            BY <2>2 DEF AckPersist, AckStore, AckedRow
        <3>2. \A i \in Id : rows[i] # NoRow => [rows[i] EXCEPT !.acked = TRUE].status = rows[i].status
            BY DEF Typed, TableTyped, Rows, Job
        <3>. QED
            BY <3>1, <3>2
    <2>3. CASE ~(CancelPersist(c) \/ AckPersist(c) \/ AckStore(c))
        <3>1. rows' = rows
            BY <2>3 DEF Call, GetFill, CancelMark, AckMark, AckRead, GetMiss
        <3>. QED
            BY <3>1
    <2>. QED
        BY <2>1, <2>2, <2>3
<1>4. TrackedInv'
    BY <1>1, <1>2 DEF StoreOnlyInv, TrackedInv, Placed
<1>5. StoreOnlyIsTerminal'
    BY <1>1, <1>2, <1>3 DEF StoreOnlyInv, StoreOnlyIsTerminal, Stored, Typed, MemoryTyped
<1>. QED
    BY <1>4, <1>5 DEF StoreOnlyInv

\* Resume() tracks every row that is not terminal, and queues no other.
LEMMA RestartStoreOnly ==
    ASSUME ~StoreFails, Typed, PlaceInv, Restart PROVE StoreOnlyInv'
<1>1. /\ tracked' = [i \in Id |-> IF i \in Incomplete(rows) THEN "own" ELSE "none"]
      /\ line' \in {s \in [1..Cardinality(Incomplete(rows)) -> Incomplete(rows)] :
                       \A i \in Incomplete(rows) : \E n \in DOMAIN s : s[n] = i}
      /\ ~up /\ UNCHANGED <<rows, sub, at>>
    BY DEF Restart, submits, workers
<1>2. Incomplete(rows) \subseteq Id
    BY DEF Incomplete, Stored
<1>3. Ids(line') = Incomplete(rows)
    BY <1>1, <1>2, OnceLoaded
<1>4. \A i \in Id : sub'[i] # "enqueue" /\ (Placed(i)' => i \in Incomplete(rows))
    BY <1>1, <1>3, QueueAssumption DEF PlaceInv, DownEmpty, Placed
<1>5. \A i \in Stored(rows) : rows[i].status \notin Terminal => i \in Incomplete(rows)
    BY DEF Incomplete, Stored, Terminal, Typed, TableTyped, Rows, Job, JobStatus
<1>. QED
    BY <1>1, <1>4, <1>5 DEF StoreOnlyInv, TrackedInv, StoreOnlyIsTerminal, Stored

LEMMA StoreOnlyInvariant == ASSUME ~StoreFails PROVE Spec => []StoreOnlyInv
<1>1. StoreOnlyInv /\ (Stop \/ Crash \/ UNCHANGED vars) => StoreOnlyInv'
    BY DEF Stop, Crash, vars, memory, submits, workers, world, StoreOnlyInv, TrackedInv,
           StoreOnlyIsTerminal, Placed
<1>2. Typed /\ PlaceInv /\ RunInv /\ StoreOnlyInv /\ [Next]_vars => StoreOnlyInv'
    BY <1>1, SubmitStoreOnly, WorkStoreOnly, CallStoreOnly, RestartStoreOnly DEF Next
<1>. QED
    BY <1>2, InitStoreOnly, TypedInvariant, PlaceInvariant, RunInvariant, PTL DEF Spec

\* A job that only the store has is terminal when the store does not fail: Resume() has
\* loaded all others and a submit() tracks its own, which is what Cancel() relies on when it
\* answers that a job it does not find in q.jobs is over.
THEOREM StoreOnlyIsOver == ASSUME ~StoreFails PROVE Spec => []StoreOnlyIsTerminal
<1>1. StoreOnlyInv => StoreOnlyIsTerminal
    BY DEF StoreOnlyInv
<1>. QED
    BY <1>1, StoreOnlyInvariant, PTL


------------------------------------------------------------------------------
(* The worker's job and its row.  The copy that is still to be persisted is  *)
(* what joins them, as long as no cancel interferes.                         *)

Untouched(id) == /\ id \notin canceled \union lost
                 /\ \A c \in Caller : ~(cl[c] = "cancelPersist" /\ target[c] = id)

\* Equal in every lifecycle column.
Same(i, j) == i.status = j.status /\ i.attempt = j.attempt /\ i.error = j.error

Let(id) == tracked[id] = "own" /\ ~Placed(id) /\ sub[id] \in {"done", "broken"}

AgreeInv ==
    /\ \A id \in Id : sub[id] = "dedupe" => ~Has(id)
    /\ \A id \in Id : Untouched(id) =>
          /\ Let(id) => Has(id) /\ Same(rows[id], obj[id].own)
          /\ \A w \in Worker : at[w] = id /\ wk[w] = "finishing" => Same(cp[w], obj[id].own)

LEMMA InitAgree == Init => AgreeInv
<1>. SUFFICES ASSUME Init PROVE AgreeInv
    OBVIOUS
<1>1. \A id \in Id : tracked[id] = "none" /\ sub[id] = "idle"
    BY DEF Init
<1>2. \A w \in Worker : wk[w] = "idle"
    BY DEF Init
<1>. QED
    BY <1>1, <1>2 DEF AgreeInv, Let

\* The step that answers a submit() gives its job a place, or has no job.
LEMMA SubmitAgree == ASSUME Typed, Backed, AgreeInv, NEW id \in Id, Submit(id) PROVE AgreeInv'
<1>. USE DEF SubmitStep
<1>1. UNCHANGED <<at, wk, cp, cl, target, canceled, lost>>
    BY DEF Submit, SubmitBegin, SubmitInsert, SubmitInsertFails, SubmitTrack, SubmitEnqueue,
           SubmitDedupe, workers, callers
<1>2. \A i \in Id : i # id => sub'[i] = sub[i]
    BY DEF Submit, SubmitBegin, SubmitInsert, SubmitInsertFails, SubmitTrack, SubmitEnqueue,
           SubmitDedupe, Typed, SubmitsTyped
<1>3. \A i \in Id : i # id => rows'[i] = rows[i]
    <2>1. rows' = rows \/ rows' = Inserted(rows, id)
        BY DEF Submit, SubmitBegin, SubmitInsert, SubmitInsertFails, SubmitTrack, SubmitEnqueue,
               SubmitDedupe
    <2>. QED
        BY <2>1 DEF Inserted, Typed, TableTyped, Rows
<1>4. \A i \in Id : i # id /\ tracked'[i] = "own" => tracked[i] = "own"
    BY DEF Submit, SubmitBegin, SubmitInsert, SubmitInsertFails, SubmitTrack, SubmitEnqueue,
           SubmitDedupe, memory, Typed, MemoryTyped
<1>5. \A i \in Id : Placed(i) => Placed(i)'
    <2>1. CASE SubmitEnqueue(id)
        <3>1. line' = Append(line, id) /\ line \in Seq(Id)
            BY <2>1 DEF SubmitEnqueue, Typed, MemoryTyped
        <3>2. \A n \in DOMAIN line : n \in DOMAIN Append(line, id) /\ Append(line, id)[n] = line[n]
            BY <3>1
        <3>. QED
            BY <1>1, <3>1, <3>2 DEF Placed, Ids
    <2>2. CASE ~SubmitEnqueue(id)
        BY <1>1, <2>2 DEF Submit, SubmitBegin, SubmitInsert, SubmitInsertFails, SubmitTrack,
                          SubmitDedupe, memory, Placed
    <2>. QED
        BY <2>1, <2>2
<1>6. ~Let(id)'
    <2>1. CASE SubmitEnqueue(id)
        <3>1. line' = Append(line, id) /\ line \in Seq(Id)
            BY <2>1 DEF SubmitEnqueue, Typed, MemoryTyped
        <3>2. /\ Len(line) + 1 \in DOMAIN Append(line, id)
              /\ Append(line, id)[Len(line) + 1] = id
            BY <3>1
        <3>. QED
            BY <3>1, <3>2 DEF Let, Placed, Ids
    <2>2. CASE SubmitDedupe(id)
        <3>1. sub[id] = "dedupe" /\ dup[id] # <<>>
            BY <2>2 DEF SubmitDedupe, Typed, SubmitsTyped
        <3>2. tracked[id] = "none" /\ dup[id][1] # id /\ dup[id][1] \in Id
            BY <3>1 DEF AgreeInv, Backed, SubmitsBacked, Typed, SubmitsTyped
        <3>3. tracked'[id] = "none"
            BY <2>2, <3>2 DEF SubmitDedupe, Typed, MemoryTyped
        <3>. QED
            BY <3>3 DEF Let
    <2>3. CASE ~SubmitEnqueue(id) /\ ~SubmitDedupe(id)
        BY <2>3 DEF Submit, SubmitBegin, SubmitInsert, SubmitInsertFails, SubmitTrack, Let,
                    Typed, SubmitsTyped
    <2>. QED
        BY <2>1, <2>2, <2>3
<1>7. sub'[id] = "dedupe" => ~Has(id)'
    <2>1. CASE SubmitInsert(id) /\ Owners(rows, id) # {}
        BY <2>1 DEF SubmitInsert, Inserted, Has, Backed, SubmitsBacked
    <2>2. CASE ~(SubmitInsert(id) /\ Owners(rows, id) # {})
        BY <2>2 DEF Submit, SubmitBegin, SubmitInsert, SubmitInsertFails, SubmitTrack, SubmitEnqueue,
                    SubmitDedupe, Typed, SubmitsTyped
    <2>. QED
        BY <2>1, <2>2
<1>8. \A i \in Id : sub'[i] = "dedupe" => ~Has(i)'
    BY <1>2, <1>3, <1>7 DEF AgreeInv, Has
<1>9. ASSUME NEW i \in Id, Untouched(i)'
      PROVE  /\ Let(i)' => Has(i)' /\ Same(rows'[i], obj'[i].own)
             /\ \A w \in Worker : at'[w] = i /\ wk'[w] = "finishing" => Same(cp'[w], obj'[i].own)
    <2>1. Untouched(i) /\ obj'[i].own = obj[i].own
        BY <1>1, <1>9, SubmitOwn DEF Untouched
    <2>2. Let(i)' => Let(i) /\ rows'[i] = rows[i]
        BY <1>2, <1>3, <1>4, <1>5, <1>6 DEF Let
    <2>. QED
        BY <1>1, <2>1, <2>2 DEF AgreeInv, Has
<1>. QED
    BY <1>8, <1>9 DEF AgreeInv

\* Who records an outcome leaves the job and the copy of it alike.
LEMMA FinishCopies ==
    ASSUME Typed, NEW w \in Worker, Work(w), wk'[w] = "finishing"
    PROVE  at' = at /\ cp'[w] = obj'[at[w]].own
<1>1. ASSUME NEW j, Leave(w, j), wk[w] # "idle" PROVE cp'[w] = obj'[at[w]].own
    BY <1>1, OwnTyped DEF Leave, Typed, WorkersTyped, MemoryTyped
<1>2. CASE \/ NoTool(w) \/ FinishPermanent(w) \/ FinishExhausted(w) \/ StoppedInBackoff(w)
           \/ FinishDone(w) \/ FinishCanceled(w)
    <2>1. at' = at /\ wk[w] # "idle" /\ \E j : Leave(w, j)
        BY <1>2 DEF NoTool, FinishPermanent, FinishExhausted, StoppedInBackoff, FinishDone,
                    FinishCanceled, FinishFailed, WorkerStep, Quiet
    <2>. QED
        BY <1>1, <2>1
<1>3. CASE \/ Take(w) \/ Begin(w) \/ BeginCanceled(w) \/ PersistRunning(w) \/ ExecuteEnds(w)
           \/ Retry(w) \/ PersistRetry(w) \/ BackoffEnds(w) \/ Requeue(w) \/ PersistFinal(w)
    BY <1>3 DEF Take, Begin, BeginCanceled, PersistRunning, ExecuteEnds, Retry, PersistRetry,
                BackoffEnds, Requeue, PersistFinal, WorkerStep, Typed, WorkersTyped
<1>. QED
    BY <1>2, <1>3 DEF Work

\* A job loses its place with the write of its outcome, and not otherwise.
LEMMA LetGo ==
    ASSUME Typed, PlaceInv, NEW w \in Worker, Work(w), NEW i \in Id, Placed(i), ~Placed(i)'
    PROVE  PersistFinal(w) /\ at[w] = i
<1>1. \/ UNCHANGED <<line, at>> \/ Take(w) \/ Requeue(w) \/ PersistFinal(w)
    BY DEF Work, NoTool, Begin, BeginCanceled, PersistRunning, ExecuteEnds, FinishCanceled,
           FinishDone, FinishPermanent, FinishExhausted, Retry, PersistRetry, BackoffEnds,
           StoppedInBackoff, FinishFailed, Quiet, memory
<1>2. CASE UNCHANGED <<line, at>>
    BY <1>2 DEF Placed
<1>3. CASE Take(w)
    <2>1. /\ line # <<>> /\ line' = Tail(line) /\ at' = [at EXCEPT ![w] = Head(line)]
          /\ at[w] = NoId
        BY <1>3 DEF Take, WorkerStep, Typed, WorkersTyped
    <2>2. Ids(line') = Ids(line) \ {Head(line)}
        BY <2>1, OnceTail DEF PlaceInv, Typed, MemoryTyped
    <2>. QED
        BY <2>1, <2>2, QueueAssumption DEF Placed, Typed, WorkersTyped
<1>4. CASE Requeue(w)
    <2>1. /\ at[w] \in Id /\ line' = Append(line, at[w]) /\ at' = [at EXCEPT ![w] = NoId]
        BY <1>4, OwnTyped DEF Requeue, Rest, WorkerStep
    <2>2. Ids(line') = Ids(line) \union {at[w]}
        BY <2>1, OnceAppend DEF PlaceInv, Apart, Typed, MemoryTyped
    <2>. QED
        BY <2>1, <2>2 DEF Placed, Typed, WorkersTyped
<1>5. CASE PersistFinal(w)
    <2>1. line' = line /\ at' = [at EXCEPT ![w] = NoId]
        BY <1>5 DEF PersistFinal, Rest, memory
    <2>. QED
        BY <1>5, <2>1 DEF Placed, Typed, WorkersTyped
<1>. QED
    BY <1>1, <1>2, <1>3, <1>4, <1>5

LEMMA WorkAgree ==
    ASSUME Typed, Backed, PlaceInv, AgreeInv, NEW w \in Worker, Work(w) PROVE AgreeInv'
<1>1. /\ UNCHANGED <<tracked, sub, cl, target, canceled>>
      /\ lost \subseteq lost'
    BY WorkRows DEF Persist, submits, callers
<1>2. \A i \in Id : Has(i)' <=> Has(i)
    BY RowsStay
<1>3. \A i \in Id : /\ Placed(i)' => Placed(i)
                    /\ rows'[i] = rows[i] \/ Placed(i)
    BY WorkPlaces
<1>4. \A v \in Worker : v # w => wk'[v] = wk[v] /\ cp'[v] = cp[v] /\ at'[v] = at[v]
    BY DEF Work, Take, NoTool, Begin, BeginCanceled, PersistRunning, ExecuteEnds, FinishCanceled,
           FinishDone, FinishPermanent, FinishExhausted, Retry, PersistRetry, BackoffEnds,
           StoppedInBackoff, Requeue, PersistFinal, FinishFailed, Quiet, WorkerStep, Rest, Leave,
           Typed, WorkersTyped
<1>5. \A i \in Id : i # at[w] => obj'[i] = obj[i]
    BY WorkOwn
<1>6. ASSUME NEW i \in Id, Untouched(i)', Let(i)'
      PROVE  Has(i)' /\ Same(rows'[i], obj'[i].own)
    <2>1. Untouched(i) /\ i \notin lost'
        BY <1>1, <1>6 DEF Untouched
    <2>2. CASE Placed(i)
        <3>1. PersistFinal(w) /\ at[w] = i
            BY <1>6, <2>2, LetGo DEF Let
        <3>2. /\ wk[w] = "finishing" /\ Persist(i, cp[w]) /\ obj' = obj /\ cp[w] \in Job
            BY <3>1 DEF PersistFinal, WorkerStep, memory, Typed, WorkersTyped
        <3>3. rows' = Updated(rows, i, cp[w])
            BY <2>1, <3>2 DEF Persist, Typed, TableTyped
        <3>4. Has(i) /\ Has(i)'
            BY <1>1, <1>2, <1>6 DEF Let, Backed
        <3>5. rows'[i] = [cp[w] EXCEPT !.acked = rows[i].acked]
            BY <3>3, <3>4 DEF Updated, Has
        <3>6. Same(rows'[i], cp[w])
            BY <3>2, <3>5 DEF Same, Job
        <3>7. Same(cp[w], obj[i].own)
            BY <2>1, <3>1, <3>2 DEF AgreeInv
        <3>. QED
            BY <3>2, <3>4, <3>6, <3>7 DEF Same
    <2>3. CASE ~Placed(i)
        <3>1. Let(i) /\ at[w] # i
            BY <1>1, <1>6, <2>3 DEF Let, Placed
        <3>. QED
            BY <1>2, <1>3, <1>5, <2>1, <2>3, <3>1 DEF AgreeInv
    <2>. QED
        BY <2>2, <2>3
<1>7. ASSUME NEW i \in Id, Untouched(i)', NEW v \in Worker, at'[v] = i, wk'[v] = "finishing"
      PROVE  Same(cp'[v], obj'[i].own)
    <2>1. CASE v = w
        BY <1>7, <2>1, FinishCopies DEF Same
    <2>2. CASE v # w
        <3>1. Untouched(i) /\ at[v] = i /\ wk[v] = "finishing" /\ cp'[v] = cp[v]
            BY <1>1, <1>4, <1>7, <2>2 DEF Untouched
        <3>2. at[w] # i
            BY <2>2, <3>1, QueueAssumption DEF PlaceInv, OneWorker
        <3>. QED
            BY <1>5, <3>1, <3>2 DEF AgreeInv
    <2>. QED
        BY <2>1, <2>2
<1>8. \A i \in Id : sub'[i] = "dedupe" => ~Has(i)'
    BY <1>1, <1>2 DEF AgreeInv
<1>. QED
    BY <1>6, <1>7, <1>8 DEF AgreeInv

\* A handler that writes the status of a job, or its row, is a cancel.
LEMMA CallAgree == ASSUME Typed, AgreeInv, NEW c \in Caller, Call(c) PROVE AgreeInv'
<1>1. UNCHANGED <<line, at, wk, cp, sub>> /\ canceled \subseteq canceled' /\ lost \subseteq lost'
    BY DEF Call, CancelPersist, AckPersist, AckStore, GetFill, CancelMark, AckMark, AckRead, GetMiss,
           Persist, memory, submits, workers
<1>2. \A i \in Id : Has(i)' <=> Has(i)
    BY RowsStay
<1>3. \A i \in Id : tracked'[i] = "own" => tracked[i] = "own"
    BY DEF Call, CancelPersist, AckPersist, AckStore, GetFill, CancelMark, AckMark, AckRead, GetMiss,
           memory, Typed, MemoryTyped
<1>4. ASSUME NEW i \in Id, Untouched(i)' PROVE Untouched(i)
    <2>1. \A d \in Caller : d # c => cl'[d] = cl[d] /\ target'[d] = target[d]
        BY DEF Call, CancelPersist, AckPersist, AckStore, GetFill, CancelMark, AckMark, AckRead,
               GetMiss, Answer, Carry, Typed, CallersTyped
    <2>2. cl[c] = "cancelPersist" => target[c] \in canceled'
        BY DEF Call, CancelPersist, AckPersist, AckStore, GetFill, CancelMark, AckMark, AckRead,
               GetMiss, Answer, Request
    <2>. QED
        BY <1>1, <1>4, <2>1, <2>2 DEF Untouched
<1>5. ASSUME NEW i \in Id, Untouched(i)' PROVE Same(obj'[i].own, obj[i].own)
    <2>1. ASSUME NEW id \in Id, CancelMark(c, id) PROVE Same(obj'[i].own, obj[i].own)
        <3>1. id # i
            BY <1>5, <2>1 DEF CancelMark, Carry, Untouched, Typed, CallersTyped
        <3>. QED
            BY <2>1, <3>1 DEF CancelMark, Same, Typed, MemoryTyped
    <2>2. ASSUME NEW id \in Id, AckMark(c, id) PROVE Same(obj'[i].own, obj[i].own)
        <3>1. /\ tracked[id] \in {"own", "read"} /\ Tracked(id) \in Job
              /\ obj' = [obj EXCEPT ![id][tracked[id]] = [Tracked(id) EXCEPT !.acked = TRUE]]
            BY <2>2 DEF AckMark, Tracked, Typed, MemoryTyped
        <3>2. Same([Tracked(id) EXCEPT !.acked = TRUE], Tracked(id))
            BY <3>1 DEF Same, Job
        <3>3. obj'[id].own = obj[id].own \/ Same(obj'[id].own, obj[id].own)
            BY <3>1, <3>2 DEF Tracked, Typed, MemoryTyped
        <3>. QED
            BY <3>1, <3>3 DEF Same, Typed, MemoryTyped
    <2>3. CASE GetFill(c)
        <3>1. obj' = [obj EXCEPT ![target[c]] = [obj[target[c]] EXCEPT !.read = carried[c]]]
            BY <2>3 DEF GetFill
        <3>. QED
            BY <3>1 DEF Same, Typed, MemoryTyped
    <2>4. ASSUME NEW id \in Id, AckRead(c, id) \/ GetMiss(c, id)
          PROVE  obj' = obj
        BY <2>4 DEF AckRead, GetMiss, memory
    <2>5. CASE CancelPersist(c) \/ AckPersist(c) \/ AckStore(c)
        BY <2>5 DEF CancelPersist, AckPersist, AckStore, memory, Same
    <2>. QED
        BY <2>1, <2>2, <2>3, <2>4, <2>5 DEF Call, Same
<1>6. ASSUME NEW i \in Id, Untouched(i)' PROVE Has(i) => Same(rows'[i], rows[i])
    <2>1. CASE CancelPersist(c)
        <3>1. target[c] # i
            BY <1>6, <2>1 DEF CancelPersist, Untouched
        <3>. QED
            BY <2>1, <3>1 DEF CancelPersist, Persist, Updated, Same
    <2>2. CASE AckPersist(c) \/ AckStore(c)
        <3>1. \/ rows'[i] = rows[i]
              \/ rows[i] # NoRow /\ rows'[i] = [rows[i] EXCEPT !.acked = TRUE]
            BY <2>2 DEF AckPersist, AckStore, AckedRow
        <3>2. rows[i] # NoRow => Same([rows[i] EXCEPT !.acked = TRUE], rows[i])
            BY DEF Same, Typed, TableTyped, Rows, Job
        <3>. QED
            BY <3>1, <3>2 DEF Same
    <2>3. CASE ~(CancelPersist(c) \/ AckPersist(c) \/ AckStore(c))
        <3>1. rows' = rows
            BY <2>3 DEF Call, GetFill, CancelMark, AckMark, AckRead, GetMiss
        <3>. QED
            BY <3>1 DEF Same
    <2>. QED
        BY <2>1, <2>2, <2>3
<1>7. \A i \in Id : Let(i)' => Let(i)
    BY <1>1, <1>3 DEF Let, Placed
<1>8. ASSUME NEW i \in Id, Untouched(i)'
      PROVE  /\ Let(i)' => Has(i)' /\ Same(rows'[i], obj'[i].own)
             /\ \A w \in Worker : at'[w] = i /\ wk'[w] = "finishing" => Same(cp'[w], obj'[i].own)
    <2>1. Untouched(i) /\ Same(obj'[i].own, obj[i].own) /\ (Has(i) => Same(rows'[i], rows[i]))
        BY <1>4, <1>5, <1>6, <1>8
    <2>2. Let(i)' => Has(i)' /\ Same(rows'[i], obj'[i].own)
        BY <1>2, <1>7, <2>1 DEF AgreeInv, Same
    <2>3. \A w \in Worker : at'[w] = i /\ wk'[w] = "finishing" => Same(cp'[w], obj'[i].own)
        BY <1>1, <2>1 DEF AgreeInv, Same
    <2>. QED
        BY <2>2, <2>3
<1>. QED
    BY <1>1, <1>2, <1>8 DEF AgreeInv

\* What Resume() tracks it also queues.
LEMMA ProcessAgree == ASSUME Typed, PlaceInv, AgreeInv, Crash \/ Restart PROVE AgreeInv'
<1>1. \A i \in Id : sub'[i] = "dedupe" => ~Has(i)'
    BY DEF Crash, Restart, submits, AgreeInv, Has
<1>2. \A w \in Worker : at'[w] = NoId
    BY DEF Crash, Restart, workers, PlaceInv, DownEmpty
<1>3. \A i \in Id : ~Let(i)'
    <2>1. CASE Crash
        BY <2>1 DEF Crash, Let
    <2>2. CASE Restart
        <3>1. PICK S \in {Incomplete(rows)} \union (IF StoreFails THEN {{}} ELSE {}) :
                  /\ tracked' = [i \in Id |-> IF i \in S THEN "own" ELSE "none"]
                  /\ line' \in {s \in [1..Cardinality(S) -> S] : \A i \in S : \E n \in DOMAIN s : s[n] = i}
            BY <2>2 DEF Restart
        <3>2. S \subseteq Id
            BY <3>1 DEF Incomplete, Stored
        <3>3. Ids(line') = S
            BY <3>1, <3>2, OnceLoaded
        <3>. QED
            BY <3>1, <3>3 DEF Let, Placed
    <2>. QED
        BY <2>1, <2>2
<1>. QED
    BY <1>1, <1>2, <1>3, QueueAssumption DEF AgreeInv

\* When no one is at work on a job, its row and the worker's job agree in every lifecycle
\* column: the copies that process() persists outside the lock are each as new as the job
\* when they arrive, unless a cancel came between or a write failed.
THEOREM RowsAgree == Spec => []StoreAgrees
<1>1. AgreeInv /\ (Stop \/ UNCHANGED vars) => AgreeInv'
    BY DEF Stop, vars, memory, submits, workers, callers, AgreeInv, Untouched, Let, Placed, Has
<1>2. Typed /\ Backed /\ PlaceInv /\ AgreeInv /\ [Next]_vars => AgreeInv'
    BY <1>1, SubmitAgree, WorkAgree, CallAgree, ProcessAgree DEF Next
<1>3. ASSUME Typed, AgreeInv PROVE StoreAgrees
    <2>. SUFFICES ASSUME NEW id \in Id \ (canceled \union lost), Settled(id)
                  PROVE  rows[id] # NoRow /\ rows[id] = [obj[id].own EXCEPT !.acked = rows[id].acked]
        BY DEF StoreAgrees
    <2>1. Untouched(id) /\ Let(id)
        <3>1. ~Placed(id)
            BY DEF Settled, Places, Placed, Ids
        <3>. QED
            BY <3>1 DEF Settled, Untouched, Let
    <2>2. Has(id) /\ Same(rows[id], obj[id].own)
        BY <1>3, <2>1 DEF AgreeInv
    <2>3. rows[id] \in Job /\ obj[id].own \in Job
        BY <1>3, <2>2 DEF Typed, TableTyped, MemoryTyped, Rows, Has
    <2>. QED
        BY <2>2, <2>3 DEF Has, Same, Job
<1>. QED
    BY <1>2, <1>3, InitAgree, TypedInvariant, BackedInvariant, PlaceInvariant, PTL DEF Spec

------------------------------------------------------------------------------
(* Read copies.  A lookup finds the row of a job that is over, and no step   *)
(* writes another status in it.                                              *)

Over(id, status) == /\ status \in Terminal /\ rows[id].status = status
                    /\ ~Placed(id) /\ ~Early(id)

CopiesRead == \A id \in Id : tracked[id] = "read" /\ sub[id] # "track"
                             => Over(id, obj[id].read.status)

FillsRead == \A c \in Caller : cl[c] = "getFill" => /\ tracked[target[c]] # "own"
                                                    /\ Over(target[c], carried[c].status)

DupsRead ==
    \A id \in Id : /\ dup[id] # <<>>
                   /\ tracked[dup[id][1]] = "none" /\ sub[dup[id][1]] # "track"
                   => Over(dup[id][1], dup[id][2].status)

\* A cancel that is still to be persisted is of a job whose entry is, or will be, its own.
CancelsOpen == \A c \in Caller : cl[c] = "cancelPersist"
                                 => \/ tracked[target[c]] = "own"
                                    \/ tracked[target[c]] = "read" /\ sub[target[c]] = "track"

RepliesTracked == \A i, id \in Id : reply[i] = id /\ sub[id] = "track" => tracked[id] # "none"

\* The row of a submit() that has yet to track it is as it was inserted, unless the job is
\* in q.jobs through another.
FreshRows == \A id \in Id : sub[id] = "track" /\ tracked[id] = "none"
                            => rows[id].status \notin Terminal

DownIdle == (\A id \in Id : dup[id] = <<>>) /\ (\A c \in Caller : cl[c] = "idle")

ReadInv == /\ up => /\ CopiesRead /\ FillsRead /\ DupsRead
                    /\ CancelsOpen /\ RepliesTracked /\ FreshRows
           /\ ~up => DownIdle

\* What is over stays over, with its status, and no submit() takes its entry back.
LEMMA OverStays ==
    ASSUME ~StoreFails, Typed, PlaceInv, up, CancelsOpen,
           NEW i \in Id, NEW st, Over(i, st), tracked[i] # "own",
           \/ \E id \in Id : Submit(id)
           \/ \E w \in Worker : Work(w)
           \/ \E c \in Caller : Call(c)
           \/ Stop \/ UNCHANGED vars
    PROVE  Over(i, st)' /\ tracked'[i] # "own"
<1>1. ASSUME NEW id \in Id, Submit(id) PROVE Over(i, st)' /\ tracked'[i] # "own"
    <2>1. CASE id # i
        <3>1. sub'[i] = sub[i] /\ rows'[i] = rows[i] /\ (Placed(i)' => Placed(i))
            BY <1>1, <2>1, SubmitRows, SubmitPlaces
        <3>2. tracked'[i] # "own"
            BY <1>1, <2>1 DEF Submit, SubmitBegin, SubmitInsert, SubmitInsertFails, SubmitTrack,
                              SubmitEnqueue, SubmitDedupe, memory, Typed, MemoryTyped
        <3>. QED
            BY <3>1, <3>2 DEF Over, Early
    <2>2. CASE id = i
        <3>1. SubmitDedupe(i)
            BY <1>1, <2>2 DEF Over, Early, Submit, SubmitBegin, SubmitInsert, SubmitInsertFails,
                              SubmitTrack, SubmitEnqueue, SubmitStep
        <3>2. rows' = rows /\ sub'[i] = "done" /\ tracked'[i] # "own"
            BY <3>1 DEF SubmitDedupe, SubmitStep, Typed, SubmitsTyped, MemoryTyped
        <3>3. Placed(i)' => Placed(i)
            BY <3>1 DEF SubmitDedupe, workers, Placed
        <3>. QED
            BY <3>2, <3>3 DEF Over, Early
    <2>. QED
        BY <2>1, <2>2
<1>2. ASSUME NEW w \in Worker, Work(w) PROVE Over(i, st)' /\ tracked'[i] # "own"
    <2>1. UNCHANGED <<tracked, sub>>
        BY <1>2, WorkRows DEF submits
    <2>2. (Placed(i)' => Placed(i)) /\ rows'[i] = rows[i]
        BY <1>2, WorkPlaces DEF Over
    <2>. QED
        BY <2>1, <2>2 DEF Over, Early
<1>3. ASSUME NEW c \in Caller, Call(c) PROVE Over(i, st)' /\ tracked'[i] # "own"
    <2>1. UNCHANGED <<line, at, sub>>
        BY <1>3 DEF Call, CancelPersist, AckPersist, AckStore, GetFill, CancelMark, AckMark, AckRead,
                    GetMiss, memory, submits, workers
    <2>2. tracked'[i] # "own"
        BY <1>3 DEF Call, CancelPersist, AckPersist, AckStore, GetFill, CancelMark, AckMark, AckRead,
                    GetMiss, memory, Typed, MemoryTyped
    <2>3. rows'[i].status = rows[i].status
        <3>1. CASE CancelPersist(c)
            <4>1. target[c] # i
                BY <3>1 DEF CancelPersist, Answer, CancelsOpen, Over, Early
            <4>. QED
                BY <3>1, <4>1 DEF CancelPersist, Persist, Updated
        <3>2. CASE AckPersist(c) \/ AckStore(c)
            <4>1. \/ rows'[i] = rows[i]
                  \/ rows[i] # NoRow /\ rows'[i] = [rows[i] EXCEPT !.acked = TRUE]
                BY <3>2 DEF AckPersist, AckStore, AckedRow
            <4>2. rows[i] # NoRow => [rows[i] EXCEPT !.acked = TRUE].status = rows[i].status
                BY DEF Typed, TableTyped, Rows, Job
            <4>. QED
                BY <4>1, <4>2
        <3>3. CASE ~(CancelPersist(c) \/ AckPersist(c) \/ AckStore(c))
            BY <1>3, <3>3 DEF Call, GetFill, CancelMark, AckMark, AckRead, GetMiss
        <3>. QED
            BY <3>1, <3>2, <3>3
    <2>. QED
        BY <2>1, <2>2, <2>3 DEF Over, Placed, Early
<1>4. CASE Stop \/ UNCHANGED vars
    BY <1>4 DEF Stop, vars, memory, submits, workers, Over, Placed, Early
<1>. QED
    BY <1>1, <1>2, <1>3, <1>4

\* A row that is found when its id is not in q.jobs, and no submit() is between its insert
\* and its entry, is over.
LEMMA MissedIsOver ==
    ASSUME Typed, Backed, up, StoreOnlyInv, NEW i \in Id, Has(i),
           tracked[i] = "none", sub[i] # "track"
    PROVE  Over(i, rows[i].status)
<1>1. rows[i].status \in Terminal
    BY DEF StoreOnlyInv, StoreOnlyIsTerminal, Stored, Has
<1>2. ~Placed(i) /\ sub[i] # "enqueue"
    BY DEF StoreOnlyInv, TrackedInv
<1>3. ~Early(i)
    BY <1>2 DEF Early, Backed, SubmitsBacked
<1>. QED
    BY <1>1, <1>2, <1>3 DEF Over

LEMMA SubmitRead ==
    ASSUME ~StoreFails, Typed, Backed, PlaceInv, StoreOnlyInv, ReadInv, NEW id \in Id, Submit(id)
    PROVE  ReadInv'
<1>. USE DEF SubmitStep
<1>1. /\ up /\ up' /\ \A i \in Id : i # id => sub'[i] = sub[i] /\ rows'[i] = rows[i]
      /\ \/ rows' = rows /\ (sub'[id] = "refused" => sub[id] = "idle")
         \/ sub[id] = "insert" /\ sub'[id] = "track"
    BY SubmitRows
<1>2. UNCHANGED <<cl, target, carried>>
    BY DEF Submit, SubmitBegin, SubmitInsert, SubmitInsertFails, SubmitTrack, SubmitEnqueue,
           SubmitDedupe, callers
<1>3. CopiesRead /\ FillsRead /\ DupsRead /\ CancelsOpen /\ RepliesTracked /\ FreshRows
    BY <1>1 DEF ReadInv
<1>4. ASSUME NEW i \in Id, NEW st, Over(i, st), tracked[i] # "own"
      PROVE  Over(i, st)' /\ tracked'[i] # "own"
    BY <1>1, <1>3, <1>4, OverStays
<1>5. \A i \in Id : /\ tracked[i] # "none" => tracked'[i] # "none"
                    /\ tracked[i] = "own" => tracked'[i] = "own"
                    /\ sub[i] = "track" => sub'[i] = "track" \/ tracked'[i] = "own"
    BY <1>1 DEF Submit, SubmitBegin, SubmitInsert, SubmitInsertFails, SubmitTrack, SubmitEnqueue,
                SubmitDedupe, memory, Typed, MemoryTyped, SubmitsTyped
<1>6. FillsRead'
    BY <1>2, <1>3, <1>4 DEF FillsRead, Typed, CallersTyped, Over
<1>7. CancelsOpen'
    <2>1. \A c \in Caller : cl[c] = "cancelPersist" => target[c] \in Id
        BY QueueAssumption DEF Typed, CallersTyped
    <2>2. \A i \in Id : tracked'[i] \in {"none", "own", "read"}
        BY SubmitTyped DEF Typed, MemoryTyped
    <2>3. \A i \in Id : tracked[i] = "own" \/ (tracked[i] = "read" /\ sub[i] = "track")
                        => tracked'[i] = "own" \/ (tracked'[i] = "read" /\ sub'[i] = "track")
        BY <1>5, <2>2
    <2>. QED
        BY <1>2, <1>3, <2>1, <2>3 DEF CancelsOpen
<1>8. FreshRows'
    <2>1. sub'[id] = "track" => rows'[id] = NewJob
        BY DEF Submit, SubmitBegin, SubmitInsert, SubmitInsertFails, SubmitTrack, SubmitEnqueue,
               SubmitDedupe, Inserted, Typed, SubmitsTyped, TableTyped, Rows
    <2>2. NewJob.status \notin Terminal
        BY DEF NewJob, Terminal
    <2>. QED
        BY <1>1, <1>3, <1>5, <2>1, <2>2 DEF FreshRows
<1>9. CASE SubmitDedupe(id)
    <2>. DEFINE f == dup[id][1]
    <2>1. /\ dup[id] # <<>> /\ f \in Id /\ dup[id][2] \in Job /\ sub[id] = "dedupe" /\ Has(f)
          /\ sub' = [sub EXCEPT ![id] = "done"] /\ rows' = rows
        BY <1>9 DEF SubmitDedupe, Typed, SubmitsTyped, Backed, SubmitsBacked
    <2>2. /\ dup' = [dup EXCEPT ![id] = <<>>]
          /\ reply' = [reply EXCEPT ![id] = f]
        BY <1>9 DEF SubmitDedupe
    <2>3. tracked[f] # "none" => UNCHANGED <<tracked, obj>>
        BY <1>9 DEF SubmitDedupe
    <2>4. tracked[f] = "none" => /\ tracked' = [tracked EXCEPT ![f] = "read"]
                                 /\ obj' = [obj EXCEPT ![f] = [obj[f] EXCEPT !.read = dup[id][2]]]
        BY <1>9 DEF SubmitDedupe
    <2>. HIDE DEF f
    <2>5. tracked'[f] # "none" /\ \A i \in Id : i # f => tracked'[i] = tracked[i] /\ obj'[i] = obj[i]
        BY <2>1, <2>3, <2>4 DEF Typed, MemoryTyped
    <2>6. sub'[f] # "track" /\ tracked[f] = "none" => sub[f] # "track"
        BY <2>1 DEF Typed, SubmitsTyped
    <2>7. CopiesRead'
        <3>1. ASSUME NEW i \in Id, tracked'[i] = "read", sub'[i] # "track"
              PROVE  Over(i, obj[i].read.status)'
            <4>0. sub[i] # "track"
                BY <2>1, <3>1 DEF Typed, SubmitsTyped
            <4>1. CASE i = f /\ tracked[f] = "none"
                <5>1. Over(i, dup[id][2].status)
                    BY <1>3, <2>1, <4>0, <4>1 DEF DupsRead, f
                <5>2. obj'[i].read = dup[id][2]
                    BY <2>1, <2>4, <4>1 DEF Typed, MemoryTyped
                <5>. QED
                    BY <1>4, <4>1, <5>1, <5>2 DEF Over
            <4>2. CASE ~(i = f /\ tracked[f] = "none")
                <5>1. tracked[i] = "read" /\ obj'[i] = obj[i]
                    BY <2>3, <2>5, <3>1, <4>2
                <5>2. Over(i, obj[i].read.status)
                    BY <1>3, <4>0, <5>1 DEF CopiesRead
                <5>. QED
                    BY <1>4, <5>1, <5>2 DEF Over
            <4>. QED
                BY <4>1, <4>2
        <3>. QED
            BY <3>1 DEF CopiesRead, Over
    <2>8. DupsRead'
        <3>1. ASSUME NEW i \in Id, dup'[i] # <<>>, tracked'[dup'[i][1]] = "none",
                     sub'[dup'[i][1]] # "track"
              PROVE  Over(dup[i][1], dup[i][2].status)'
            <4>1. i # id /\ dup'[i] = dup[i] /\ dup[i][1] \in Id
                BY <2>2, <3>1 DEF Typed, SubmitsTyped
            <4>2. tracked[dup[i][1]] = "none" /\ sub[dup[i][1]] # "track"
                BY <1>5, <2>1, <3>1, <4>1 DEF Typed, SubmitsTyped
            <4>3. Over(dup[i][1], dup[i][2].status)
                BY <1>3, <3>1, <4>1, <4>2 DEF DupsRead
            <4>. QED
                BY <1>4, <4>1, <4>2, <4>3 DEF Over
        <3>. QED
            BY <3>1 DEF DupsRead, Over
    <2>9. RepliesTracked'
        BY <1>3, <1>5, <2>1, <2>2, <2>5 DEF RepliesTracked, Typed, SubmitsTyped
    <2>. QED
        BY <1>1, <1>6, <1>7, <1>8, <2>7, <2>8, <2>9 DEF ReadInv
<1>10. CASE ~SubmitDedupe(id)
    <2>1. UNCHANGED obj /\ \A i \in Id : tracked'[i] = tracked[i] \/ tracked'[i] = "own"
        BY <1>10 DEF Submit, SubmitBegin, SubmitInsert, SubmitInsertFails, SubmitTrack, SubmitEnqueue,
                    memory, Typed, MemoryTyped
    <2>2. \A i \in Id : sub'[i] # "track" /\ tracked'[i] # "own" => sub[i] # "track"
        BY <1>5
    <2>3. CopiesRead'
        <3>1. ASSUME NEW i \in Id, tracked'[i] = "read", sub'[i] # "track"
              PROVE  Over(i, obj[i].read.status)'
            <4>1. tracked[i] = "read" /\ obj'[i] = obj[i]
                BY <2>1, <3>1
            <4>2. Over(i, obj[i].read.status)
                BY <1>3, <2>2, <3>1, <4>1 DEF CopiesRead
            <4>. QED
                BY <1>4, <4>1, <4>2 DEF Over
        <3>. QED
            BY <3>1 DEF CopiesRead, Over
    <2>4. ASSUME NEW i \in Id, dup'[i] = dup[i], dup[i] # <<>>, tracked'[dup[i][1]] = "none",
                 sub'[dup[i][1]] # "track"
          PROVE  Over(dup[i][1], dup[i][2].status)'
        <3>1. dup[i][1] \in Id
            BY <2>4 DEF Typed, SubmitsTyped
        <3>2. tracked[dup[i][1]] = "none" /\ sub[dup[i][1]] # "track"
            BY <2>1, <2>2, <2>4, <3>1
        <3>3. Over(dup[i][1], dup[i][2].status)
            BY <1>3, <2>4, <3>2 DEF DupsRead
        <3>. QED
            BY <1>4, <2>4, <3>1, <3>2, <3>3 DEF Over
    <2>5. DupsRead'
        <3>1. CASE dup' = dup
            BY <2>4, <3>1 DEF DupsRead, Over
        <3>2. CASE dup' # dup
            <4>1. SubmitInsert(id) /\ Owners(rows, id) # {}
                BY <1>10, <3>2 DEF Submit, SubmitBegin, SubmitInsert, SubmitInsertFails, SubmitTrack,
                                  SubmitEnqueue
            <4>2. PICK o \in Owners(rows, id) : dup' = [dup EXCEPT ![id] = <<o, rows[o]>>]
                BY <4>1 DEF SubmitInsert
            <4>3. /\ o \in Id /\ Has(o) /\ UNCHANGED <<rows, tracked>>
                  /\ sub' = [sub EXCEPT ![id] = "dedupe"]
                BY <4>1 DEF SubmitInsert, Inserted, Owners, Stored, Has, memory
            <4>4. o # id
                BY <4>1, <4>3 DEF SubmitInsert, Backed, SubmitsBacked
            <4>5. tracked[o] = "none" /\ sub'[o] # "track" => Over(o, rows[o].status)'
                BY <1>1, <1>4, <4>3, <4>4, MissedIsOver DEF Over
            <4>6. ASSUME NEW i \in Id, dup'[i] # <<>>, tracked'[dup'[i][1]] = "none",
                         sub'[dup'[i][1]] # "track"
                  PROVE  Over(dup[i][1], dup[i][2].status)'
                <5>1. CASE i = id
                    <6>1. dup'[i] = <<o, rows[o]>>
                        BY <4>2, <5>1 DEF Typed, SubmitsTyped
                    <6>. QED
                        BY <4>3, <4>5, <4>6, <6>1 DEF Over
                <5>2. CASE i # id
                    <6>1. dup'[i] = dup[i]
                        BY <4>2, <5>2 DEF Typed, SubmitsTyped
                    <6>. QED
                        BY <2>4, <4>6, <6>1 DEF Over
                <5>. QED
                    BY <5>1, <5>2
            <4>. QED
                BY <4>6 DEF DupsRead, Over
        <3>. QED
            BY <3>1, <3>2
    <2>6. RepliesTracked'
        <3>1. ASSUME NEW i \in Id, NEW k \in Id, reply'[i] = k, sub'[k] = "track"
              PROVE  tracked'[k] # "none"
            <4>1. reply[i] = k
                BY <1>10, <3>1 DEF Submit, SubmitBegin, SubmitInsert, SubmitInsertFails, SubmitTrack,
                                  SubmitEnqueue, Typed, SubmitsTyped
            <4>2. Has(k)
                BY <3>1, <4>1, QueueAssumption DEF Backed, SubmitsBacked
            <4>3. sub[k] # "insert" /\ sub[k] # "idle"
                BY <4>2 DEF Backed, SubmitsBacked
            <4>4. sub[k] = "track"
                BY <1>10, <3>1, <4>3 DEF Submit, SubmitBegin, SubmitInsert, SubmitInsertFails,
                                        SubmitTrack, SubmitEnqueue, Typed, SubmitsTyped
            <4>. QED
                BY <1>3, <1>5, <4>1, <4>4 DEF RepliesTracked
        <3>. QED
            BY <3>1 DEF RepliesTracked
    <2>. QED
        BY <1>1, <1>6, <1>7, <1>8, <2>3, <2>5, <2>6 DEF ReadInv
<1>. QED
    BY <1>9, <1>10

\* A worker writes its own Job value, and none that a lookup read.
LEMMA WorkKeepsRead ==
    ASSUME Typed, NEW w \in Worker, Work(w) PROVE \A i \in Id : obj'[i].read = obj[i].read
<1>1. obj' = obj \/ \E j : obj' = [obj EXCEPT ![at[w]] = [obj[at[w]] EXCEPT !.own = j]]
    BY DEF Work, Take, NoTool, Begin, BeginCanceled, PersistRunning, ExecuteEnds, FinishCanceled,
           FinishDone, FinishPermanent, FinishExhausted, Retry, PersistRetry, BackoffEnds,
           StoppedInBackoff, Requeue, PersistFinal, FinishFailed, Quiet, Leave, memory
<1>2. ASSUME NEW j, obj' = [obj EXCEPT ![at[w]] = [obj[at[w]] EXCEPT !.own = j]], NEW i \in Id
      PROVE  obj'[i].read = obj[i].read
    <2>1. obj \in [Id -> [own : Job, read : Job]]
        BY DEF Typed, MemoryTyped
    <2>2. [obj[i] EXCEPT !.own = j].read = obj[i].read
        BY <2>1
    <2>. QED
        BY <1>2, <2>1, <2>2
<1>. QED
    BY <1>1, <1>2

\* A worker has its job in q.jobs as its own, or under a copy of the table that was read
\* when it was over.
LEMMA WorkRead ==
    ASSUME ~StoreFails, Typed, PlaceInv, ReadInv, NEW w \in Worker, Work(w) PROVE ReadInv'
<1>1. /\ up /\ up' /\ UNCHANGED <<tracked, sub, dup, reply, cl, target, carried>>
    BY WorkMoves, WorkRows DEF submits, callers
<1>2. CopiesRead /\ FillsRead /\ DupsRead /\ CancelsOpen /\ RepliesTracked /\ FreshRows
    BY <1>1 DEF ReadInv
<1>3. ASSUME NEW i \in Id, NEW st, Over(i, st), tracked[i] # "own"
      PROVE  Over(i, st)' /\ tracked'[i] # "own"
    BY <1>1, <1>2, <1>3, OverStays
<1>4. \A i \in Id : obj'[i].read = obj[i].read
    BY WorkKeepsRead
<1>5. CopiesRead'
    <2>1. ASSUME NEW i \in Id, tracked'[i] = "read", sub'[i] # "track"
          PROVE  Over(i, obj[i].read.status)'
        <3>1. Over(i, obj[i].read.status) /\ tracked[i] # "own"
            BY <1>1, <1>2, <2>1 DEF CopiesRead
        <3>. QED
            BY <1>3, <1>4, <3>1 DEF Over
    <2>. QED
        BY <2>1 DEF CopiesRead, Over
<1>6. FillsRead'
    BY <1>1, <1>2, <1>3 DEF FillsRead, Typed, CallersTyped, Over
<1>7. DupsRead'
    <2>1. ASSUME NEW i \in Id, dup'[i] # <<>>, tracked'[dup'[i][1]] = "none",
                 sub'[dup'[i][1]] # "track"
          PROVE  Over(dup[i][1], dup[i][2].status)'
        <3>1. dup[i][1] \in Id
            BY <1>1, <2>1 DEF Typed, SubmitsTyped
        <3>2. Over(dup[i][1], dup[i][2].status)
            BY <1>1, <1>2, <2>1 DEF DupsRead
        <3>. QED
            BY <1>1, <1>3, <2>1, <3>1, <3>2 DEF Over
    <2>. QED
        BY <2>1 DEF DupsRead, Over
<1>8. FreshRows'
    <2>1. \A i \in Id : rows'[i] = rows[i] \/ Placed(i)
        BY WorkPlaces
    <2>. QED
        BY <1>1, <1>2, <2>1 DEF FreshRows, PlaceInv, NotYet
<1>. QED
    BY <1>1, <1>2, <1>5, <1>6, <1>7, <1>8 DEF ReadInv, CancelsOpen, RepliesTracked

\* What a handler makes of the copies that lookups read.
LEMMA CallCopies ==
    ASSUME Typed, CopiesRead, NEW c \in Caller, Call(c), ~GetFill(c),
           NEW i \in Id, tracked[i] = "read", sub[i] # "track"
    PROVE  obj'[i].read.status = obj[i].read.status
<1>1. obj \in [Id -> [own : Job, read : Job]] /\ tracked \in [Id -> {"none", "own", "read"}]
    BY DEF Typed, MemoryTyped
<1>2. CASE UNCHANGED obj
    BY <1>2
<1>3. ASSUME NEW id \in Id, CancelMark(c, id) PROVE obj'[i].read.status = obj[i].read.status
    <2>1. Tracked(id).status \notin Terminal /\ \E j : obj' = [obj EXCEPT ![id][tracked[id]] = j]
        BY <1>3 DEF CancelMark
    <2>2. id # i
        BY <1>1, <2>1 DEF CopiesRead, Over, Tracked
    <2>. QED
        BY <1>1, <2>1, <2>2
<1>4. ASSUME NEW id \in Id, AckMark(c, id) PROVE obj'[i].read.status = obj[i].read.status
    <2>. DEFINE j == [Tracked(id) EXCEPT !.acked = TRUE]
    <2>1. obj' = [obj EXCEPT ![id][tracked[id]] = j]
        BY <1>4 DEF AckMark
    <2>2. id = i => j.status = obj[i].read.status
        BY <1>1 DEF Tracked, Job
    <2>. HIDE DEF j
    <2>3. CASE id = i
        <3>1. obj' = [obj EXCEPT ![i] = [obj[i] EXCEPT !.read = j]]
            BY <2>1, <2>3
        <3>2. [obj[i] EXCEPT !.read = j].read = j
            BY <1>1
        <3>. QED
            BY <1>1, <2>2, <2>3, <3>1, <3>2
    <2>4. CASE id # i
        BY <1>1, <2>1, <2>4
    <2>. QED
        BY <2>3, <2>4
<1>. QED
    BY <1>2, <1>3, <1>4 DEF Call, CancelPersist, AckPersist, AckStore, AckRead, GetMiss, memory

\* The steps of the handlers that leave, of the entries of q.jobs, all but the one that a
\* lookup fills.
LEMMA CallRead ==
    ASSUME ~StoreFails, Typed, Backed, PlaceInv, StoreOnlyInv, ReadInv, NEW c \in Caller, Call(c)
    PROVE  ReadInv'
<1>1. up /\ up' /\ UNCHANGED <<sub, dup, reply, line, at>>
    <2>1. up
        BY DEF Call, CancelPersist, AckPersist, AckStore, GetFill, CancelMark, AckMark, AckRead,
               GetMiss, Answer, Request
    <2>2. UNCHANGED <<sub, dup, reply, line, at, up>>
        BY DEF Call, CancelPersist, AckPersist, AckStore, GetFill, CancelMark, AckMark, AckRead,
               GetMiss, memory, submits, workers, world
    <2>. QED
        BY <2>1, <2>2
<1>2. CopiesRead /\ FillsRead /\ DupsRead /\ CancelsOpen /\ RepliesTracked /\ FreshRows
    BY <1>1 DEF ReadInv
<1>3. ASSUME NEW i \in Id, NEW st, Over(i, st), tracked[i] # "own"
      PROVE  Over(i, st)' /\ tracked'[i] # "own"
    BY <1>1, <1>2, <1>3, OverStays
<1>4. \/ UNCHANGED tracked /\ ~GetFill(c)
      \/ /\ GetFill(c) /\ cl[c] = "getFill" /\ target[c] \in Id
         /\ tracked' = [tracked EXCEPT ![target[c]] = "read"]
    BY QueueAssumption
       DEF Call, CancelPersist, AckPersist, AckStore, GetFill, CancelMark, AckMark, AckRead,
           GetMiss, memory, Answer, Typed, CallersTyped
<1>5. \A i \in Id : /\ tracked[i] = "own" => tracked'[i] = "own"
                    /\ tracked[i] = "read" => tracked'[i] = "read"
                    /\ tracked[i] # "none" => tracked'[i] # "none"
    BY <1>2, <1>4 DEF FillsRead, Typed, MemoryTyped
<1>6. CopiesRead'
    <2>1. ASSUME NEW i \in Id, tracked'[i] = "read", sub'[i] # "track"
          PROVE  Over(i, obj[i].read.status)'
        <3>1. CASE GetFill(c) /\ i = target[c]
            <4>1. Over(i, carried[c].status) /\ tracked[i] # "own"
                BY <1>2, <1>4, <3>1 DEF FillsRead
            <4>2. obj' = [obj EXCEPT ![i] = [obj[i] EXCEPT !.read = carried[c]]]
                BY <3>1 DEF GetFill
            <4>3. [obj[i] EXCEPT !.read = carried[c]].read = carried[c]
                BY DEF Typed, MemoryTyped
            <4>4. obj'[i].read = carried[c]
                BY <4>2, <4>3 DEF Typed, MemoryTyped
            <4>. QED
                BY <1>3, <4>1, <4>4 DEF Over
        <3>2. CASE GetFill(c) /\ i # target[c]
            <4>1. obj'[i] = obj[i] /\ tracked[i] = "read"
                BY <1>4, <2>1, <3>2 DEF GetFill, Typed, MemoryTyped
            <4>2. Over(i, obj[i].read.status)
                BY <1>1, <1>2, <2>1, <4>1 DEF CopiesRead
            <4>. QED
                BY <1>3, <4>1, <4>2 DEF Over
        <3>3. CASE ~GetFill(c)
            <4>1. tracked[i] = "read" /\ sub[i] # "track"
                BY <1>1, <1>4, <2>1, <3>3
            <4>2. Over(i, obj[i].read.status)
                BY <1>2, <4>1 DEF CopiesRead
            <4>3. obj'[i].read.status = obj[i].read.status
                BY <1>2, <3>3, <4>1, CallCopies
            <4>. QED
                BY <1>3, <4>1, <4>2, <4>3 DEF Over
        <3>. QED
            BY <3>1, <3>2, <3>3
    <2>. QED
        BY <2>1 DEF CopiesRead, Over
<1>7. FillsRead'
    <2>1. ASSUME NEW d \in Caller, d # c, cl'[d] = "getFill"
          PROVE  tracked'[target'[d]] # "own" /\ Over(target[d], carried[d].status)'
        <3>1. cl'[d] = cl[d] /\ target'[d] = target[d] /\ carried'[d] = carried[d]
            BY <2>1 DEF Call, CancelPersist, AckPersist, AckStore, GetFill, CancelMark, AckMark,
                        AckRead, GetMiss, Answer, Carry, Typed, CallersTyped
        <3>2. target[d] \in Id /\ Over(target[d], carried[d].status) /\ tracked[target[d]] # "own"
            BY <1>2, <2>1, <3>1, QueueAssumption DEF FillsRead, Typed, CallersTyped
        <3>. QED
            BY <1>3, <3>1, <3>2 DEF Over
    <2>2. ASSUME cl'[c] = "getFill"
          PROVE  tracked'[target'[c]] # "own" /\ Over(target[c], carried[c].status)'
        <3>1. PICK id \in Id : GetMiss(c, id)
            BY <2>2 DEF Call, CancelPersist, AckPersist, AckStore, GetFill, CancelMark, AckMark,
                        AckRead, Answer, Carry, Typed, CallersTyped
        <3>2. /\ tracked[id] = "none" /\ Has(id) /\ Known(id) /\ UNCHANGED rows
              /\ target'[c] = id /\ carried'[c] = rows[id]
            BY <3>1 DEF GetMiss, Request, Carry, Stored, Has, Typed, CallersTyped
        <3>3. sub[id] # "track"
            BY <1>2, <3>2 DEF Known, RepliesTracked, FreshRows
        <3>4. Over(id, rows[id].status)
            BY <1>1, <3>2, <3>3, MissedIsOver
        <3>. QED
            BY <1>3, <3>2, <3>4 DEF Over
    <2>. QED
        BY <2>1, <2>2 DEF FillsRead, Over
<1>8. DupsRead'
    <2>1. ASSUME NEW i \in Id, dup'[i] # <<>>, tracked'[dup'[i][1]] = "none",
                 sub'[dup'[i][1]] # "track"
          PROVE  Over(dup[i][1], dup[i][2].status)'
        <3>1. dup[i][1] \in Id /\ tracked[dup[i][1]] = "none"
            BY <1>1, <1>5, <2>1 DEF Typed, SubmitsTyped
        <3>2. Over(dup[i][1], dup[i][2].status)
            BY <1>1, <1>2, <2>1, <3>1 DEF DupsRead
        <3>. QED
            BY <1>1, <1>3, <2>1, <3>1, <3>2 DEF Over
    <2>. QED
        BY <2>1 DEF DupsRead, Over
<1>9. CancelsOpen'
    <2>1. ASSUME NEW d \in Caller, d # c, cl'[d] = "cancelPersist"
          PROVE  \/ tracked'[target'[d]] = "own"
                 \/ tracked'[target'[d]] = "read" /\ sub'[target'[d]] = "track"
        <3>1. cl'[d] = cl[d] /\ target'[d] = target[d]
            BY <2>1 DEF Call, CancelPersist, AckPersist, AckStore, GetFill, CancelMark, AckMark,
                        AckRead, GetMiss, Answer, Carry, Typed, CallersTyped
        <3>2. target[d] \in Id
            BY <2>1, <3>1, QueueAssumption DEF Typed, CallersTyped
        <3>. QED
            BY <1>1, <1>2, <1>5, <2>1, <3>1, <3>2 DEF CancelsOpen
    <2>2. ASSUME cl'[c] = "cancelPersist"
          PROVE  \/ tracked'[target'[c]] = "own"
                 \/ tracked'[target'[c]] = "read" /\ sub'[target'[c]] = "track"
        <3>1. PICK id \in Id : CancelMark(c, id)
            BY <2>2 DEF Call, CancelPersist, AckPersist, AckStore, GetFill, AckMark, AckRead,
                        GetMiss, Answer, Carry, Typed, CallersTyped
        <3>2. /\ tracked[id] # "none" /\ Tracked(id).status \notin Terminal
              /\ target'[c] = id /\ UNCHANGED tracked
            BY <3>1 DEF CancelMark, Carry, Typed, CallersTyped
        <3>3. tracked[id] = "own" \/ tracked[id] = "read"
            BY <3>2 DEF Typed, MemoryTyped
        <3>4. tracked[id] = "read" => sub[id] = "track"
            BY <1>2, <3>2 DEF CopiesRead, Over, Tracked
        <3>. QED
            BY <1>1, <3>2, <3>3, <3>4
    <2>. QED
        BY <2>1, <2>2 DEF CancelsOpen
<1>10. RepliesTracked'
    BY <1>1, <1>2, <1>5 DEF RepliesTracked
<1>11. FreshRows'
    <2>1. ASSUME NEW i \in Id, sub[i] = "track", tracked[i] = "none"
          PROVE  rows'[i].status = rows[i].status
        <3>1. CASE CancelPersist(c)
            <4>1. target[c] # i
                BY <1>2, <2>1, <3>1 DEF CancelPersist, Answer, CancelsOpen
            <4>. QED
                BY <3>1, <4>1 DEF CancelPersist, Persist, Updated
        <3>2. CASE AckPersist(c) \/ AckStore(c)
            <4>1. \/ rows'[i] = rows[i]
                  \/ rows[i] # NoRow /\ rows'[i] = [rows[i] EXCEPT !.acked = TRUE]
                BY <3>2 DEF AckPersist, AckStore, AckedRow
            <4>2. rows[i] # NoRow => [rows[i] EXCEPT !.acked = TRUE].status = rows[i].status
                BY DEF Typed, TableTyped, Rows, Job
            <4>. QED
                BY <4>1, <4>2
        <3>3. CASE ~(CancelPersist(c) \/ AckPersist(c) \/ AckStore(c))
            BY <3>3 DEF Call, GetFill, CancelMark, AckMark, AckRead, GetMiss
        <3>. QED
            BY <3>1, <3>2, <3>3
    <2>. QED
        BY <1>1, <1>2, <1>5, <2>1 DEF FreshRows
<1>. QED
    BY <1>1, <1>6, <1>7, <1>8, <1>9, <1>10, <1>11 DEF ReadInv

LEMMA InitRead == Init => ReadInv
BY DEF Init, ReadInv, CopiesRead, FillsRead, DupsRead, CancelsOpen, RepliesTracked, FreshRows

\* A crash takes every copy with it; Resume() makes entries of its own only.
LEMMA ProcessRead == ASSUME PlaceInv, ReadInv, Stop \/ Crash \/ Restart PROVE ReadInv'
<1>1. CASE Stop
    BY <1>1 DEF Stop, submits, workers, callers, world, ReadInv, CopiesRead, FillsRead, DupsRead,
                CancelsOpen, RepliesTracked, FreshRows, DownIdle, Over, Placed, Early
<1>2. CASE Crash
    BY <1>2 DEF Crash, ReadInv, DownIdle
<1>3. CASE Restart
    <2>1. up' /\ DownIdle /\ UNCHANGED <<sub, dup, reply, cl>>
        BY <1>3 DEF Restart, ReadInv, submits, callers
    <2>2. \A i \in Id : sub[i] # "track" /\ tracked'[i] \in {"own", "none"}
        BY <1>3 DEF Restart, PlaceInv, DownEmpty
    <2>. QED
        BY <2>1, <2>2 DEF ReadInv, DownIdle, CopiesRead, FillsRead, DupsRead, CancelsOpen,
                          RepliesTracked, FreshRows
<1>. QED
    BY <1>1, <1>2, <1>3

\* With a store that does not fail, a row that a lookup read without the lock and put in
\* q.jobs later, over whatever was there by then, is the outcome of a job that is over: no
\* job that is still to run is hidden from Cancel() behind it.
THEOREM ReadCopiesOver == ASSUME ~StoreFails PROVE Spec => []ReadCopySettled
<1>1. ReadInv /\ UNCHANGED vars => ReadInv'
    BY DEF vars, memory, submits, workers, callers, world, ReadInv, CopiesRead, FillsRead, DupsRead,
           CancelsOpen, RepliesTracked, FreshRows, DownIdle, Over, Placed, Early
<1>2. Typed /\ Backed /\ PlaceInv /\ StoreOnlyInv /\ ReadInv /\ [Next]_vars => ReadInv'
    BY <1>1, SubmitRead, WorkRead, CallRead, ProcessRead DEF Next
<1>3. ReadInv => ReadCopySettled
    BY DEF ReadInv, CopiesRead, Over, ReadCopySettled
<1>. QED
    BY <1>2, <1>3, InitRead, TypedInvariant, BackedInvariant, PlaceInvariant, StoreOnlyInvariant,
       PTL DEF Spec
=============================================================================
