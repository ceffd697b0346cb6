------------------------------ MODULE QueueProofs ------------------------------
(***************************************************************************)
(* Theorems about JobQueue, for any jobs, keys, workers, callers and       *)
(* bounds, with a store that may fail and a desk that crashes: its types,  *)
(* one job per idempotency key, the acknowledgements that stay, and that a *)
(* job is in one place at a time and is run no more often than its retries *)
(* and the crashes of the desk account for.                                *)
(***************************************************************************)
EXTENDS JobQueue, FiniteSetTheorems, TLAPS

------------------------------------------------------------------------------
(* The types.  TypeOK is not inductive: that a worker at work holds the id   *)
(* of a job, a request under way names one, and a submit() that was          *)
(* deduplicated knows of which, are added to its parts.                      *)

TableTyped == rows \in Rows /\ lost \subseteq Id

MemoryTyped ==
    /\ tracked \in [Id -> {"none", "own", "read"}]
    /\ obj \in [Id -> [own : Job, read : Job]]
    /\ line \in Seq(Id)
    /\ stopped \in BOOLEAN /\ toolGone \in BOOLEAN

SubmitsTyped ==
    /\ sub \in [Id -> {"idle", "insert", "track", "enqueue", "dedupe", "done", "refused",
                         "broken"}]
    /\ dup \in [Id -> {<<>>} \union (Id \X Job)]
    /\ reply \in [Id -> Id \union {NoId}]
    /\ \A id \in Id : sub[id] = "dedupe" => dup[id] # <<>>

WorkersTyped ==
    /\ wk \in [Worker -> {"idle", "took", "starting", "executing", "ended", "discard",
                          "retrying", "backoff", "requeue", "finishing"}]
    /\ at \in [Worker -> Id \union {NoId}]
    /\ cp \in [Worker -> Job]
    /\ execs \in [Id -> Nat]
    /\ \A w \in Worker : wk[w] = "idle" <=> at[w] = NoId

CallersTyped ==
    /\ cl \in [Caller -> {"idle", "cancelPersist", "ackPersist", "ackStore", "getFill"}]
    /\ target \in [Caller -> Id \union {NoId}]
    /\ carried \in [Caller -> Job]
    /\ canceled \subseteq Id /\ acked \subseteq Id
    /\ \A c \in Caller : cl[c] = "idle" <=> target[c] = NoId

WorldTyped == up \in BOOLEAN /\ crashes \in Nat

Typed == /\ TableTyped /\ MemoryTyped /\ SubmitsTyped
         /\ WorkersTyped /\ CallersTyped /\ WorldTyped

LEMMA NewJobType == NewJob \in Job /\ Start \in [own : Job, read : Job]
BY DEF NewJob, Job, JobStatus, Reason, Start

\* A job whose status, error, count or flag is set is a job.
LEMMA JobSet ==
    ASSUME NEW j \in Job, NEW s \in JobStatus, NEW r \in Reason
    PROVE  /\ [j EXCEPT !.status = s] \in Job
           /\ [j EXCEPT !.error = r] \in Job
           /\ [j EXCEPT !.status = s, !.error = r] \in Job
           /\ [j EXCEPT !.status = s, !.attempt = @ + 1] \in Job
           /\ [j EXCEPT !.acked = TRUE] \in Job
<1>1. [j EXCEPT !.status = s] \in Job /\ [j EXCEPT !.error = r] \in Job
    BY DEF Job
<1>2. [j EXCEPT !.status = s, !.error = r] \in Job
    BY DEF Job
<1>3. [j EXCEPT !.status = s, !.attempt = @ + 1] \in Job
    <2>1. j.attempt \in Nat /\ j.attempt + 1 \in Nat
        BY DEF Job
    <2>. QED
        BY <2>1 DEF Job
<1>4. [j EXCEPT !.acked = TRUE] \in Job
    BY DEF Job
<1>. QED
    BY <1>1, <1>2, <1>3, <1>4

\* What the statements of the store make of the rows are rows.
LEMMA StoreTypes ==
    ASSUME NEW rs \in Rows, NEW id \in Id, NEW j \in Job
    PROVE  Inserted(rs, id) \in Rows /\ Updated(rs, id, j) \in Rows /\ AckedRow(rs, id) \in Rows
<1>1. Inserted(rs, id) \in Rows
    BY NewJobType DEF Inserted, Rows
<1>2. ASSUME NEW i \in Id, rs[i] # NoRow
      PROVE  /\ [j EXCEPT !.acked = rs[i].acked] \in Job
             /\ [rs[i] EXCEPT !.acked = TRUE] \in Job
    BY <1>2 DEF Rows, Job
<1>3. Updated(rs, id, j) \in Rows
    BY <1>2 DEF Updated, Rows
<1>4. AckedRow(rs, id) \in Rows
    BY <1>2 DEF AckedRow, Rows
<1>. QED
    BY <1>1, <1>3, <1>4

LEMMA PersistTypes ==
    ASSUME TableTyped, NEW id \in Id, NEW j \in Job, Persist(id, j)
    PROVE  TableTyped'
BY StoreTypes DEF TableTyped, Persist

LEMMA InitTyped == Init => Typed
<1>. SUFFICES ASSUME Init PROVE Typed
    OBVIOUS
<1>1. TableTyped /\ WorldTyped
    BY DEF Init, TableTyped, WorldTyped, Rows
<1>2. MemoryTyped
    <2>1. line \in Seq(Id)
        BY DEF Init
    <2>2. obj \in [Id -> [own : Job, read : Job]]
        BY NewJobType DEF Init
    <2>3. tracked \in [Id -> {"none", "own", "read"}] /\ stopped \in BOOLEAN /\ toolGone \in BOOLEAN
        BY DEF Init
    <2>. QED
        BY <2>1, <2>2, <2>3 DEF MemoryTyped
<1>3. SubmitsTyped
    BY DEF Init, SubmitsTyped
<1>4. WorkersTyped
    BY NewJobType DEF Init, WorkersTyped
<1>5. CallersTyped
    BY NewJobType DEF Init, CallersTyped
<1>. QED
    BY <1>1, <1>2, <1>3, <1>4, <1>5 DEF Typed

LEMMA SubmitTyped == ASSUME Typed, NEW id \in Id, Submit(id) PROVE Typed'
<1>. USE DEF Typed, Submit, SubmitStep
<1>1. WorkersTyped' /\ CallersTyped' /\ WorldTyped'
    <2>1. UNCHANGED <<workers, callers, world>>
        BY DEF SubmitBegin, SubmitInsert, SubmitInsertFails, SubmitTrack, SubmitEnqueue,
               SubmitDedupe
    <2>. QED
        BY <2>1 DEF workers, callers, world, WorkersTyped, CallersTyped, WorldTyped
<1>2. TableTyped'
    <2>1. /\ rows' = rows \/ rows' = Inserted(rows, id)
          /\ UNCHANGED lost
        BY DEF SubmitBegin, SubmitInsert, SubmitInsertFails, SubmitTrack, SubmitEnqueue,
               SubmitDedupe
    <2>. QED
        BY <2>1, StoreTypes, NewJobType DEF TableTyped
<1>3. MemoryTyped'
    <2>. USE DEF MemoryTyped
    <2>1. CASE SubmitBegin(id) \/ SubmitInsert(id) \/ SubmitInsertFails(id)
        BY <2>1 DEF SubmitBegin, SubmitInsert, SubmitInsertFails, memory
    <2>2. CASE SubmitTrack(id)
        BY <2>2 DEF SubmitTrack
    <2>4. CASE SubmitEnqueue(id)
        <3>1. Append(line, id) \in Seq(Id)
            OBVIOUS
        <3>. QED
            BY <2>4, <3>1 DEF SubmitEnqueue
    <2>3. CASE SubmitDedupe(id)
        <3>1. sub[id] = "dedupe" /\ dup[id][1] \in Id /\ dup[id][2] \in Job
            BY <2>3 DEF SubmitDedupe, SubmitsTyped
        <3>2. [obj[dup[id][1]] EXCEPT !.read = dup[id][2]] \in [own : Job, read : Job]
            BY <3>1
        <3>3. UNCHANGED <<line, stopped, toolGone>>
            BY <2>3 DEF SubmitDedupe
        <3>4. tracked' \in [Id -> {"none", "own", "read"}]
            BY <2>3, <3>1 DEF SubmitDedupe
        <3>5. obj' \in [Id -> [own : Job, read : Job]]
            <4>1. \/ obj' = obj
                  \/ obj' = [obj EXCEPT ![dup[id][1]] = [obj[dup[id][1]] EXCEPT !.read = dup[id][2]]]
                BY <2>3 DEF SubmitDedupe
            <4>. QED
                BY <3>1, <3>2, <4>1
        <3>. QED
            BY <3>3, <3>4, <3>5
    <2>. QED
        BY <2>1, <2>2, <2>3, <2>4
<1>4. SubmitsTyped'
    <2>. USE DEF SubmitsTyped
    <2>1. CASE SubmitBegin(id)
        BY <2>1 DEF SubmitBegin
    <2>2. CASE SubmitInsert(id)
        <3>1. CASE Owners(rows, id) = {}
            BY <2>2, <3>1 DEF SubmitInsert
        <3>2. CASE Owners(rows, id) # {}
            <4>1. PICK o \in Owners(rows, id) : dup' = [dup EXCEPT ![id] = <<o, rows[o]>>]
                BY <2>2, <3>2 DEF SubmitInsert
            <4>2. o \in Id /\ rows[o] \in Job
                BY DEF Owners, Stored, Rows, TableTyped
            <4>. QED
                BY <2>2, <3>2, <4>1, <4>2 DEF SubmitInsert
        <3>. QED
            BY <3>1, <3>2
    <2>3. CASE SubmitInsertFails(id) \/ SubmitTrack(id) \/ SubmitEnqueue(id)
        BY <2>3 DEF SubmitInsertFails, SubmitTrack, SubmitEnqueue
    <2>4. CASE SubmitDedupe(id)
        BY <2>4 DEF SubmitDedupe
    <2>. QED
        BY <2>1, <2>2, <2>3, <2>4
<1>. QED
    BY <1>1, <1>2, <1>3, <1>4

\* What a critical section of a worker leaves of the job is a job.
LEMMA LeaveTyped ==
    ASSUME Typed, NEW w \in Worker, at[w] \in Id, NEW j \in Job, Leave(w, j),
           UNCHANGED <<tracked, line, stopped, toolGone>>
    PROVE  MemoryTyped' /\ cp' \in [Worker -> Job]
<1>1. [obj[at[w]] EXCEPT !.own = j] \in [own : Job, read : Job]
    BY DEF Typed, MemoryTyped
<1>2. obj' = [obj EXCEPT ![at[w]] = [obj[at[w]] EXCEPT !.own = j]]
    BY DEF Leave
<1>3. obj' \in [Id -> [own : Job, read : Job]]
    BY <1>1, <1>2 DEF Typed, MemoryTyped
<1>4. cp' \in [Worker -> Job]
    BY DEF Leave, Typed, WorkersTyped
<1>. QED
    BY <1>3, <1>4 DEF Typed, MemoryTyped

\* A worker at work holds the id of a job, whose "own" value is a job.
LEMMA OwnTyped == ASSUME Typed, NEW w \in Worker, wk[w] # "idle" PROVE at[w] \in Id /\ Own(w) \in Job
BY DEF Typed, WorkersTyped, MemoryTyped, Own

\* The steps of process() by what they do: take a job, leave it changed, write the copy,
\* go on, or let go of it.
LEMMA WorkTyped == ASSUME Typed, NEW w \in Worker, Work(w) PROVE Typed'
<1>1. SubmitsTyped' /\ CallersTyped' /\ WorldTyped'
    <2>1. UNCHANGED <<submits, callers, world>>
        BY DEF Work, Take, NoTool, Begin, BeginCanceled, PersistRunning, ExecuteEnds, FinishCanceled,
               FinishDone, FinishPermanent, FinishExhausted, Retry, PersistRetry, BackoffEnds,
               StoppedInBackoff, Requeue, PersistFinal, FinishFailed, Quiet
    <2>. QED
        BY <2>1 DEF submits, callers, world, Typed, SubmitsTyped, CallersTyped, WorldTyped
<1>2. CASE Take(w)
    <2>1. Head(line) \in Id /\ Tail(line) \in Seq(Id)
        BY <1>2 DEF Take, Typed, MemoryTyped
    <2>2. TableTyped' /\ MemoryTyped'
        BY <1>2, <2>1 DEF Take, Typed, TableTyped, MemoryTyped
    <2>3. WorkersTyped'
        BY <1>2, <2>1, QueueAssumption DEF Take, WorkerStep, Typed, WorkersTyped
    <2>. QED
        BY <1>1, <2>2, <2>3 DEF Typed
<1>3. ASSUME wk[w] # "idle",
             NEW to \in {"starting", "finishing", "retrying"}, wk' = [wk EXCEPT ![w] = to],
             NEW j \in Job, Leave(w, j), Quiet,
             execs' = execs \/ execs' = [execs EXCEPT ![at[w]] = @ + 1]
      PROVE  Typed'
    <2>1. MemoryTyped' /\ cp' \in [Worker -> Job]
        BY <1>3, OwnTyped, LeaveTyped DEF Quiet
    <2>2. TableTyped'
        BY <1>3 DEF Quiet, Typed, TableTyped
    <2>3. at[w] \in Id /\ at' = at
        BY <1>3, OwnTyped DEF Quiet
    <2>4. execs' \in [Id -> Nat]
        BY <1>3, <2>3 DEF Typed, WorkersTyped
    <2>5. wk' \in [Worker -> {"idle", "took", "starting", "executing", "ended", "discard",
                              "retrying", "backoff", "requeue", "finishing"}]
        BY <1>3 DEF Typed, WorkersTyped
    <2>6. \A v \in Worker : wk'[v] = "idle" <=> at'[v] = NoId
        BY <1>3, <2>3 DEF Typed, WorkersTyped
    <2>. QED
        BY <1>1, <2>1, <2>2, <2>3, <2>4, <2>5, <2>6 DEF Typed, WorkersTyped
<1>4. ASSUME NEW from \in {"took", "ended", "backoff", "requeue"}, NEW r \in Reason,
             FinishFailed(w, from, r)
      PROVE  Typed'
    BY <1>3, <1>4, OwnTyped, JobSet DEF FinishFailed, WorkerStep, JobStatus
<1>5. CASE NoTool(w) \/ FinishPermanent(w) \/ FinishExhausted(w) \/ StoppedInBackoff(w)
    BY <1>4, <1>5 DEF NoTool, FinishPermanent, FinishExhausted, StoppedInBackoff, Reason
<1>6. CASE Begin(w) \/ FinishDone(w) \/ Retry(w) \/ FinishCanceled(w)
    BY <1>3, <1>6, OwnTyped, JobSet
       DEF Begin, FinishDone, Retry, FinishCanceled, WorkerStep, JobStatus, Reason
<1>7. CASE BeginCanceled(w) \/ ExecuteEnds(w) \/ BackoffEnds(w)
    <2>1. /\ wk[w] # "idle" /\ UNCHANGED <<rows, lost, memory, at, cp, execs>>
          /\ \E to \in {"discard", "ended", "requeue"} : wk' = [wk EXCEPT ![w] = to]
        BY <1>7 DEF BeginCanceled, ExecuteEnds, BackoffEnds, WorkerStep, Quiet, memory
    <2>2. TableTyped' /\ MemoryTyped'
        BY <2>1 DEF Typed, TableTyped, MemoryTyped, memory
    <2>3. WorkersTyped'
        BY <2>1 DEF Typed, WorkersTyped
    <2>. QED
        BY <1>1, <2>2, <2>3 DEF Typed
<1>8. CASE PersistRunning(w) \/ PersistRetry(w)
    <2>1. /\ wk[w] # "idle" /\ Persist(at[w], cp[w]) /\ UNCHANGED <<memory, at, cp, execs>>
          /\ \E to \in {"executing", "backoff"} : wk' = [wk EXCEPT ![w] = to]
        BY <1>8 DEF PersistRunning, PersistRetry, WorkerStep
    <2>2. TableTyped'
        BY <2>1, OwnTyped, PersistTypes DEF Typed, WorkersTyped
    <2>3. MemoryTyped'
        BY <2>1 DEF Typed, MemoryTyped, memory
    <2>4. WorkersTyped'
        BY <2>1 DEF Typed, WorkersTyped
    <2>. QED
        BY <1>1, <2>2, <2>3, <2>4 DEF Typed
<1>9. CASE Requeue(w)
    <2>1. at[w] \in Id /\ Append(line, at[w]) \in Seq(Id)
        BY <1>9, OwnTyped DEF Requeue, WorkerStep, Typed, MemoryTyped
    <2>2. TableTyped' /\ MemoryTyped'
        BY <1>9, <2>1 DEF Requeue, Typed, TableTyped, MemoryTyped
    <2>3. WorkersTyped'
        BY <1>9, NewJobType DEF Requeue, Rest, WorkerStep, Typed, WorkersTyped
    <2>. QED
        BY <1>1, <2>2, <2>3 DEF Typed
<1>10. CASE PersistFinal(w)
    <2>1. TableTyped'
        BY <1>10, OwnTyped, PersistTypes DEF PersistFinal, WorkerStep, Typed, WorkersTyped
    <2>2. MemoryTyped'
        BY <1>10 DEF PersistFinal, Typed, MemoryTyped, memory
    <2>3. WorkersTyped'
        BY <1>10, NewJobType DEF PersistFinal, Rest, WorkerStep, Typed, WorkersTyped
    <2>. QED
        BY <1>1, <2>1, <2>2, <2>3 DEF Typed
<1>. QED
    BY <1>2, <1>5, <1>6, <1>7, <1>8, <1>9, <1>10 DEF Work

\* A request takes a Job value of the id it names along; its second half leaves.
LEMMA CallTyped == ASSUME Typed, NEW c \in Caller, Call(c) PROVE Typed'
<1>1. SubmitsTyped' /\ WorkersTyped' /\ WorldTyped'
    <2>1. UNCHANGED <<submits, workers, world>>
        BY DEF Call, CancelPersist, AckPersist, AckStore, GetFill, CancelMark, AckMark, AckRead, GetMiss
    <2>. QED
        BY <2>1 DEF submits, workers, world, Typed, SubmitsTyped, WorkersTyped, WorldTyped
<1>2. ASSUME NEW id \in Id, NEW j \in Job, NEW to \in {"cancelPersist", "ackPersist", "ackStore", "getFill"},
             Carry(c, to, id, j), UNCHANGED <<canceled, acked>>
      PROVE  CallersTyped'
    BY <1>2, QueueAssumption DEF Carry, Typed, CallersTyped
<1>3. ASSUME NEW from \in {"cancelPersist", "ackPersist", "ackStore", "getFill"}, Answer(c, from),
             canceled' \subseteq Id, acked' \subseteq Id
      PROVE  CallersTyped' /\ target[c] \in Id /\ carried[c] \in Job
    <2>1. target[c] \in Id /\ carried[c] \in Job
        BY <1>3 DEF Answer, Typed, CallersTyped
    <2>. QED
        BY <1>3, <2>1, NewJobType DEF Answer, Carry, Typed, CallersTyped
<1>4. ASSUME NEW id \in Id, NEW k \in {"own", "read"}, NEW j \in Job,
             obj' = [obj EXCEPT ![id][k] = j], UNCHANGED <<tracked, line, stopped, toolGone>>
      PROVE  MemoryTyped'
    <2>1. [obj[id] EXCEPT ![k] = j] \in [own : Job, read : Job]
        BY DEF Typed, MemoryTyped
    <2>2. obj' = [obj EXCEPT ![id] = [obj[id] EXCEPT ![k] = j]]
        BY <1>4
    <2>. QED
        BY <1>4, <2>1, <2>2 DEF Typed, MemoryTyped
<1>5. ASSUME NEW id \in Id, tracked[id] # "none"
      PROVE  tracked[id] \in {"own", "read"} /\ Tracked(id) \in Job
    BY <1>5 DEF Typed, MemoryTyped, Tracked
<1>6. ASSUME NEW id \in Id, CancelMark(c, id) \/ AckMark(c, id) PROVE Typed'
    <2>1. PICK j \in Job, to \in {"cancelPersist", "ackPersist"} :
              obj' = [obj EXCEPT ![id][tracked[id]] = j] /\ Carry(c, to, id, j)
        BY <1>5, <1>6, JobSet DEF CancelMark, AckMark, JobStatus, Reason
    <2>2. UNCHANGED <<rows, tracked, line, stopped, toolGone, canceled, acked, lost>> /\ tracked[id] # "none"
        BY <1>6 DEF CancelMark, AckMark
    <2>3. MemoryTyped' /\ CallersTyped'
        BY <1>2, <1>4, <1>5, <2>1, <2>2
    <2>. QED
        BY <1>1, <2>2, <2>3 DEF Typed, TableTyped
<1>7. ASSUME NEW id \in Id, AckRead(c, id) \/ GetMiss(c, id) PROVE Typed'
    <2>1. rows[id] \in Job
        BY <1>7 DEF AckRead, GetMiss, TerminalUnacked, Stored, Rows, Typed, TableTyped
    <2>2. UNCHANGED <<rows, memory, canceled, acked, lost>>
          /\ \E to \in {"ackStore", "getFill"} : Carry(c, to, id, rows[id])
        BY <1>7 DEF AckRead, GetMiss
    <2>3. CallersTyped'
        BY <1>2, <2>1, <2>2
    <2>. QED
        BY <1>1, <2>2, <2>3 DEF Typed, TableTyped, MemoryTyped, memory
<1>8. CASE CancelPersist(c) \/ AckPersist(c) \/ AckStore(c)
    <2>1. PICK from \in {"cancelPersist", "ackPersist", "ackStore"} : Answer(c, from)
        BY <1>8 DEF CancelPersist, AckPersist, AckStore
    <2>2. target[c] \in Id /\ carried[c] \in Job
        BY <2>1 DEF Answer, Typed, CallersTyped
    <2>3. canceled' \subseteq Id /\ acked' \subseteq Id /\ UNCHANGED memory
        BY <1>8, <2>2 DEF CancelPersist, AckPersist, AckStore, Typed, CallersTyped
    <2>4. TableTyped'
        BY <1>8, <2>2, PersistTypes, StoreTypes
           DEF CancelPersist, AckPersist, AckStore, Typed, TableTyped
    <2>5. CallersTyped'
        BY <1>3, <2>1, <2>3
    <2>. QED
        BY <1>1, <2>3, <2>4, <2>5 DEF Typed, MemoryTyped, memory
<1>9. CASE GetFill(c)
    <2>1. CallersTyped' /\ target[c] \in Id /\ carried[c] \in Job
        BY <1>3, <1>9 DEF GetFill, Typed, CallersTyped
    <2>2. [obj[target[c]] EXCEPT !.read = carried[c]] \in [own : Job, read : Job]
        BY <2>1 DEF Typed, MemoryTyped
    <2>3. obj' = [obj EXCEPT ![target[c]] = [obj[target[c]] EXCEPT !.read = carried[c]]]
        BY <1>9 DEF GetFill
    <2>4. MemoryTyped'
        BY <1>9, <2>1, <2>2, <2>3 DEF GetFill, Typed, MemoryTyped
    <2>. QED
        BY <1>1, <1>9, <2>1, <2>4 DEF GetFill, Typed, TableTyped
<1>. QED
    BY <1>6, <1>7, <1>8, <1>9 DEF Call

\* The order in which Resume() queues what it has loaded is a sequence of ids.
LEMMA LoadedLine ==
    ASSUME NEW S \in SUBSET Id, NEW s \in [1..Cardinality(S) -> S]
    PROVE  s \in Seq(Id) /\ Len(s) = Cardinality(S)
<1>1. Cardinality(S) \in Nat
    BY KeyAssumption, FS_Subset, FS_CardinalityType
<1>. QED
    BY <1>1

LEMMA ProcessTyped == ASSUME Typed, Stop \/ Crash \/ Restart PROVE Typed'
<1>1. CASE Stop
    BY <1>1 DEF Stop, submits, workers, callers, world, Typed, TableTyped, MemoryTyped, SubmitsTyped,
                WorkersTyped, CallersTyped, WorldTyped
<1>2. CASE Crash
    <2>2. line' \in Seq(Id)
        BY <1>2 DEF Crash
    <2>7. UNCHANGED <<rows, lost>> /\ up' = FALSE /\ crashes' = crashes + 1
        BY <1>2 DEF Crash
    <2>1. TableTyped' /\ WorldTyped'
        <3>1. crashes + 1 \in Nat
            BY DEF Typed, WorldTyped
        <3>2. WorldTyped'
            BY <2>7, <3>1 DEF WorldTyped
        <3>. QED
            BY <2>7, <3>2 DEF Typed, TableTyped
    <2>3. MemoryTyped'
        BY <1>2, <2>2, NewJobType DEF Crash, MemoryTyped
    <2>4. SubmitsTyped'
        BY <1>2 DEF Crash, Typed, SubmitsTyped
    <2>5. WorkersTyped'
        BY <1>2, NewJobType DEF Crash, Typed, WorkersTyped
    <2>6. CallersTyped'
        BY <1>2, NewJobType DEF Crash, Typed, CallersTyped
    <2>. QED
        BY <2>1, <2>3, <2>4, <2>5, <2>6 DEF Typed
<1>3. CASE Restart
    <2>1. TableTyped' /\ SubmitsTyped' /\ WorkersTyped' /\ CallersTyped' /\ WorldTyped'
        BY <1>3 DEF Restart, submits, workers, callers, Typed, TableTyped, SubmitsTyped,
                    WorkersTyped, CallersTyped, WorldTyped
    <2>2. PICK S \in {Incomplete(rows)} \union (IF StoreFails THEN {{}} ELSE {}) :
              /\ tracked' = [i \in Id |-> IF i \in S THEN "own" ELSE "none"]
              /\ obj' = [i \in Id |-> IF i \in S
                                      THEN [Start EXCEPT !.own = [rows[i] EXCEPT !.status = "queued"]]
                                      ELSE Start]
              /\ line' \in {s \in [1..Cardinality(S) -> S] : \A i \in S : \E n \in DOMAIN s : s[n] = i}
        BY <1>3 DEF Restart
    <2>3. S \subseteq Id /\ \A i \in S : rows[i] \in Job
        BY <2>2 DEF Incomplete, Stored, Rows, Typed, TableTyped
    <2>4. \A i \in S : [Start EXCEPT !.own = [rows[i] EXCEPT !.status = "queued"]] \in [own : Job, read : Job]
        BY <2>3, JobSet, NewJobType DEF JobStatus, Reason
    <2>5. line' \in Seq(Id)
        BY <2>2, <2>3, LoadedLine
    <2>6. obj' \in [Id -> [own : Job, read : Job]]
        BY <2>2, <2>4, NewJobType
    <2>7. MemoryTyped'
        BY <1>3, <2>2, <2>5, <2>6 DEF Restart, Typed, MemoryTyped
    <2>. QED
        BY <2>1, <2>7 DEF Typed
<1>. QED
    BY <1>1, <1>2, <1>3

LEMMA TypedStep == ASSUME Typed, [Next]_vars PROVE Typed'
<1>1. UNCHANGED vars => Typed'
    BY DEF vars, memory, submits, workers, callers, world, Typed, TableTyped, MemoryTyped,
           SubmitsTyped, WorkersTyped, CallersTyped, WorldTyped
<1>. QED
    BY <1>1, SubmitTyped, WorkTyped, CallTyped, ProcessTyped DEF Next

LEMMA TypedInvariant == Spec => []Typed
BY InitTyped, TypedStep, PTL DEF Spec

\* The rows, both Job values of every id, every copy on its way to the store and every
\* place in submit(), process() and the handlers keep their type.
THEOREM QueueTypes == Spec => []TypeOK
<1>1. Typed => TypeOK
    BY DEF Typed, TableTyped, MemoryTyped, SubmitsTyped, WorkersTyped, CallersTyped, WorldTyped, TypeOK
<1>. QED
    BY <1>1, TypedInvariant, PTL

------------------------------------------------------------------------------
(* Rows stay.  Whoever has an id, as the answer of a submit(), from q.jobs   *)
(* or from the table, has the id of a row; rows are never taken away, and    *)
(* no statement lowers the flag of an acknowledgement.                       *)

\* Two rows have one key only if they are one.
OneRowPerKey ==
    \A i, j \in Stored(rows) : KeyOf[i] = KeyOf[j] /\ KeyOf[i] # NoKey => i = j

Has(id) == rows[id] # NoRow

SubmitsBacked ==
    \A id \in Id : /\ sub[id] \in {"idle", "insert"} => ~Has(id)
                   /\ sub[id] \in {"track", "enqueue"} => Has(id)
                   /\ dup[id] # <<>> => Has(dup[id][1]) /\ KeyOf[dup[id][1]] = KeyOf[id]
                   /\ reply[id] # NoId => Has(reply[id]) /\ KeyOf[reply[id]] = KeyOf[id]

CallersBacked == \A c \in Caller : cl[c] # "idle" => Has(target[c])

Backed == /\ OneRowPerKey /\ SubmitsBacked /\ CallersBacked /\ AckDurable
          /\ \A id \in Id : tracked[id] # "none" => Has(id)

\* What a step that inserts no row does to the table.
Kept == /\ rows' \in Rows
        /\ \A i \in Id : rows'[i] = NoRow <=> rows[i] = NoRow
        /\ \A i \in Id : Has(i) /\ rows[i].acked => rows'[i].acked

LEMMA UpdateKeeps ==
    ASSUME TableTyped, NEW id \in Id, NEW j \in Job,
           rows' = rows \/ rows' = Updated(rows, id, j) \/ rows' = AckedRow(rows, id)
    PROVE  Kept
<1>1. rows' \in Rows
    BY StoreTypes DEF TableTyped
<1>2. ASSUME NEW i \in Id, rows[i] # NoRow
      PROVE  /\ rows[i] \in Job
             /\ [j EXCEPT !.acked = rows[i].acked] \in Job
             /\ [j EXCEPT !.acked = rows[i].acked].acked = rows[i].acked
             /\ [rows[i] EXCEPT !.acked = TRUE] \in Job
             /\ [rows[i] EXCEPT !.acked = TRUE].acked = TRUE
    BY <1>2 DEF TableTyped, Rows, Job
<1>3. CASE rows' = rows
    BY <1>1, <1>3 DEF Kept, Has
<1>4. CASE rows' = Updated(rows, id, j)
    BY <1>1, <1>2, <1>4, NoRowAssumption DEF Kept, Has, Updated
<1>5. CASE rows' = AckedRow(rows, id)
    BY <1>1, <1>2, <1>5, NoRowAssumption DEF Kept, Has, AckedRow
<1>. QED
    BY <1>3, <1>4, <1>5

\* A step that keeps the rows keeps what is said of those who stand still.
LEMMA KeptBacks ==
    ASSUME Typed, Backed, Kept, lost \subseteq lost'
    PROVE  /\ OneRowPerKey'
           /\ \A i \in Id : Has(i)' <=> Has(i)
           /\ UNCHANGED submits => SubmitsBacked'
           /\ UNCHANGED <<cl, target>> => CallersBacked'
           /\ \A i \in acked \ lost' : Has(i)' /\ rows'[i].acked
<1>1. \A i \in Id : Has(i)' <=> Has(i)
    BY DEF Kept, Has
<1>2. Stored(rows') = Stored(rows)
    BY DEF Kept, Stored
<1>3. OneRowPerKey'
    BY <1>2 DEF Backed, OneRowPerKey
<1>4. UNCHANGED submits => SubmitsBacked'
    BY <1>1 DEF submits, Typed, SubmitsTyped, Backed, SubmitsBacked
<1>5. UNCHANGED <<cl, target>> => CallersBacked'
    BY <1>1 DEF Typed, CallersTyped, Backed, CallersBacked
<1>6. \A i \in acked \ lost' : Has(i)' /\ rows'[i].acked
    BY <1>1 DEF Typed, CallersTyped, Backed, AckDurable, Kept, Has
<1>. QED
    BY <1>1, <1>3, <1>4, <1>5, <1>6

\* A row that is inserted is the first of its id, and of its key.
LEMMA InsertBacks ==
    ASSUME Typed, Backed, NEW id \in Id, sub[id] = "insert",
           rows' = rows \/ rows' = Inserted(rows, id), UNCHANGED <<lost, acked>>
    PROVE  /\ OneRowPerKey' /\ AckDurable'
           /\ \A i \in Id : Has(i) => Has(i)'
           /\ \A i \in Id : i # id => rows'[i] = rows[i]
           /\ rows' = rows \/ Has(id)'
<1>1. CASE rows' = rows
    BY <1>1 DEF Backed, OneRowPerKey, AckDurable, Has
<1>2. CASE Owners(rows, id) = {} /\ rows' = [rows EXCEPT ![id] = NewJob]
    <2>1. ~Has(id) /\ rows \in Rows
        BY DEF Backed, SubmitsBacked, Typed, TableTyped
    <2>2. /\ rows'[id] = NewJob /\ NewJob # NoRow
          /\ \A i \in Id : i # id => rows'[i] = rows[i]
        BY <1>2, <2>1, NewJobType, NoRowAssumption DEF Rows
    <2>3. OneRowPerKey'
        <3>1. SUFFICES ASSUME NEW i \in Stored(rows'), NEW j \in Stored(rows'),
                              KeyOf[i] = KeyOf[j], KeyOf[i] # NoKey
                       PROVE  i = j
            BY DEF OneRowPerKey
        <3>2. \A k \in Stored(rows') : k # id => k \in Stored(rows)
            BY <2>2 DEF Stored
        <3>3. \A k \in Stored(rows) : KeyOf[k] = KeyOf[id] => KeyOf[id] = NoKey
            BY <1>2 DEF Owners
        <3>. QED
            BY <3>1, <3>2, <3>3 DEF Backed, OneRowPerKey
    <2>4. AckDurable'
        BY <2>1, <2>2 DEF Backed, AckDurable, Has, Typed, CallersTyped
    <2>. QED
        BY <2>1, <2>2, <2>3, <2>4 DEF Has
<1>. QED
    BY <1>1, <1>2 DEF Inserted

LEMMA InitBacked == Init => Backed
<1>. SUFFICES ASSUME Init PROVE Backed
    OBVIOUS
<1>1. Stored(rows) = {}
    BY DEF Init, Stored
<1>. QED
    BY <1>1 DEF Init, Backed, OneRowPerKey, SubmitsBacked, CallersBacked, AckDurable, Has

LEMMA SubmitBacked == ASSUME Typed, Backed, NEW id \in Id, Submit(id) PROVE Backed'
<1>. USE DEF SubmitStep
<1>1. UNCHANGED <<callers, lost>> /\ UNCHANGED <<cl, target, acked>>
    BY DEF Submit, SubmitBegin, SubmitInsert, SubmitInsertFails, SubmitTrack, SubmitEnqueue,
           SubmitDedupe, callers
<1>2. CASE SubmitBegin(id) \/ SubmitTrack(id) \/ SubmitEnqueue(id) \/ SubmitDedupe(id)
    <2>1. UNCHANGED rows
        BY <1>2 DEF SubmitBegin, SubmitTrack, SubmitEnqueue, SubmitDedupe
    <2>2. Kept
        BY <2>1 DEF Kept, Has, Typed, TableTyped
    <2>3. OneRowPerKey' /\ CallersBacked' /\ AckDurable' /\ \A i \in Id : Has(i)' <=> Has(i)
        BY <1>1, <2>1, <2>2, KeptBacks DEF Backed, AckDurable, Has
    <2>4. /\ sub \in [Id -> {"idle", "insert", "track", "enqueue", "dedupe", "done", "refused",
                             "broken"}]
          /\ dup \in [Id -> {<<>>} \union (Id \X Job)]
          /\ reply \in [Id -> Id \union {NoId}]
          /\ sub[id] = "dedupe" => dup[id] # <<>>
        BY DEF Typed, SubmitsTyped
    <2>5. SubmitsBacked'
        <3>1. CASE SubmitBegin(id)
            BY <2>3, <2>4, <3>1 DEF SubmitBegin, Backed, SubmitsBacked
        <3>2. CASE SubmitTrack(id)
            BY <2>3, <2>4, <3>2 DEF SubmitTrack, Backed, SubmitsBacked
        <3>3. CASE SubmitEnqueue(id)
            BY <2>3, <2>4, <3>3 DEF SubmitEnqueue, Backed, SubmitsBacked
        <3>4. CASE SubmitDedupe(id)
            BY <2>3, <2>4, <3>4 DEF SubmitDedupe, Backed, SubmitsBacked
        <3>. QED
            BY <1>2, <3>1, <3>2, <3>3, <3>4
    <2>6. \A i \in Id : tracked'[i] # "none" => Has(i)'
        <3>1. CASE SubmitBegin(id) \/ SubmitEnqueue(id)
            BY <2>3, <3>1 DEF SubmitBegin, SubmitEnqueue, memory, Backed
        <3>2. CASE SubmitTrack(id)
            BY <2>3, <3>2 DEF SubmitTrack, Backed, SubmitsBacked, Typed, MemoryTyped
        <3>3. CASE SubmitDedupe(id)
            BY <2>3, <2>4, <3>3 DEF SubmitDedupe, Backed, SubmitsBacked, Typed, MemoryTyped
        <3>. QED
            BY <1>2, <3>1, <3>2, <3>3
    <2>. QED
        BY <2>3, <2>5, <2>6 DEF Backed
<1>3. CASE SubmitInsert(id) \/ SubmitInsertFails(id)
    <2>1. /\ sub[id] = "insert"
          /\ rows' = rows \/ rows' = Inserted(rows, id)
          /\ UNCHANGED <<memory, reply>>
        BY <1>3 DEF SubmitInsert, SubmitInsertFails
    <2>2. /\ OneRowPerKey' /\ AckDurable'
          /\ \A i \in Id : Has(i) => Has(i)'
          /\ \A i \in Id : i # id => rows'[i] = rows[i]
          /\ rows' = rows \/ Has(id)'
        BY <1>1, <2>1, InsertBacks
    <2>3. CallersBacked' /\ \A i \in Id : tracked'[i] # "none" => Has(i)'
        BY <1>1, <2>1, <2>2, QueueAssumption
           DEF Backed, CallersBacked, Typed, CallersTyped, memory
    <2>4. SubmitsBacked'
        <3>1. CASE SubmitInsertFails(id)
            BY <2>1, <2>2, <3>1 DEF SubmitInsertFails, Has, Backed, SubmitsBacked, Typed, SubmitsTyped
        <3>2. CASE SubmitInsert(id) /\ Owners(rows, id) = {}
            <4>1. Has(id)'
                <5>1. rows' = [rows EXCEPT ![id] = NewJob]
                    BY <3>2 DEF SubmitInsert, Inserted
                <5>. QED
                    BY <5>1, NewJobType, NoRowAssumption DEF Has, Typed, TableTyped, Rows
            <4>. QED
                BY <2>1, <2>2, <3>2, <4>1 DEF SubmitInsert, Has, Backed, SubmitsBacked, Typed, SubmitsTyped
        <3>3. CASE SubmitInsert(id) /\ Owners(rows, id) # {}
            <4>1. PICK o \in Owners(rows, id) : dup' = [dup EXCEPT ![id] = <<o, rows[o]>>]
                BY <3>3 DEF SubmitInsert
            <4>2. o \in Id /\ Has(o)' /\ KeyOf[o] = KeyOf[id]
                BY <2>2 DEF Owners, Stored, Has
            <4>3. sub' = [sub EXCEPT ![id] = "dedupe"]
                BY <3>3 DEF SubmitInsert
            <4>. QED
                BY <2>1, <2>2, <4>1, <4>2, <4>3 DEF Has, Backed, SubmitsBacked, Typed, SubmitsTyped
        <3>. QED
            BY <1>3, <3>1, <3>2, <3>3
    <2>. QED
        BY <2>2, <2>3, <2>4 DEF Backed
<1>. QED
    BY <1>2, <1>3 DEF Submit

\* A worker writes the row of its job and nothing else of what is said here.
LEMMA WorkRows ==
    ASSUME Typed, NEW w \in Worker, Work(w)
    PROVE  /\ UNCHANGED <<tracked, submits, callers, world>>
           /\ \/ UNCHANGED <<rows, lost>>
              \/ wk[w] # "idle" /\ Persist(at[w], cp[w])
<1>1. UNCHANGED <<tracked, submits, callers, world>>
    BY DEF Work, Take, NoTool, Begin, BeginCanceled, PersistRunning, ExecuteEnds, FinishCanceled,
           FinishDone, FinishPermanent, FinishExhausted, Retry, PersistRetry, BackoffEnds,
           StoppedInBackoff, Requeue, PersistFinal, FinishFailed, Quiet, memory
<1>2. \/ UNCHANGED <<rows, lost>>
      \/ wk[w] # "idle" /\ Persist(at[w], cp[w])
    BY DEF Work, Take, NoTool, Begin, BeginCanceled, PersistRunning, ExecuteEnds, FinishCanceled,
           FinishDone, FinishPermanent, FinishExhausted, Retry, PersistRetry, BackoffEnds,
           StoppedInBackoff, Requeue, PersistFinal, FinishFailed, Quiet, WorkerStep
<1>. QED
    BY <1>1, <1>2

LEMMA WorkBacked == ASSUME Typed, Backed, NEW w \in Worker, Work(w) PROVE Backed'
<1>1. Kept /\ lost \subseteq lost'
    <2>1. CASE UNCHANGED <<rows, lost>>
        BY <2>1 DEF Kept, Has, Typed, TableTyped
    <2>2. CASE wk[w] # "idle" /\ Persist(at[w], cp[w])
        <3>1. at[w] \in Id /\ cp[w] \in Job
            BY <2>2 DEF Typed, WorkersTyped
        <3>2. /\ rows' = rows \/ rows' = Updated(rows, at[w], cp[w])
              /\ lost \subseteq lost'
            BY <2>2 DEF Persist
        <3>. QED
            BY <3>1, <3>2, UpdateKeeps DEF Typed
    <2>. QED
        BY <2>1, <2>2, WorkRows
<1>2. UNCHANGED <<tracked, submits, callers>> /\ UNCHANGED <<cl, target, acked>>
    BY WorkRows DEF callers
<1>3. OneRowPerKey' /\ SubmitsBacked' /\ CallersBacked' /\ AckDurable'
    BY <1>1, <1>2, KeptBacks DEF AckDurable, Has
<1>4. \A i \in Id : tracked'[i] # "none" => Has(i)'
    BY <1>1, <1>2, KeptBacks DEF Backed
<1>. QED
    BY <1>3, <1>4 DEF Backed

LEMMA CallBacked == ASSUME Typed, Backed, NEW c \in Caller, Call(c) PROVE Backed'
<1>1. UNCHANGED <<submits, world>>
    BY DEF Call, CancelPersist, AckPersist, AckStore, GetFill, CancelMark, AckMark, AckRead, GetMiss
<1>2. ASSUME NEW id \in Id, CancelMark(c, id) \/ AckMark(c, id) \/ AckRead(c, id) \/ GetMiss(c, id)
      PROVE  Backed'
    <2>1. UNCHANGED <<rows, lost, tracked, acked>> /\ Has(id)
        BY <1>2 DEF CancelMark, AckMark, AckRead, GetMiss, memory, TerminalUnacked, Stored, Has, Backed
    <2>2. \E to \in {"cancelPersist", "ackPersist", "ackStore", "getFill"} :
             cl' = [cl EXCEPT ![c] = to] /\ target' = [target EXCEPT ![c] = id]
        BY <1>2 DEF CancelMark, AckMark, AckRead, GetMiss, Carry
    <2>3. Kept
        BY <2>1 DEF Kept, Has, Typed, TableTyped
    <2>4. OneRowPerKey' /\ SubmitsBacked' /\ AckDurable' /\ \A i \in Id : Has(i)' <=> Has(i)
        BY <1>1, <2>1, <2>3, KeptBacks DEF AckDurable, Has
    <2>5. CallersBacked'
        BY <2>1, <2>2, <2>4 DEF Backed, CallersBacked, Typed, CallersTyped
    <2>. QED
        BY <2>1, <2>4, <2>5 DEF Backed
<1>3. CASE CancelPersist(c) \/ AckPersist(c) \/ AckStore(c) \/ GetFill(c)
    <2>1. PICK from \in {"cancelPersist", "ackPersist", "ackStore", "getFill"} : Answer(c, from)
        BY <1>3 DEF CancelPersist, AckPersist, AckStore, GetFill
    <2>2. /\ target[c] \in Id /\ carried[c] \in Job /\ Has(target[c])
          /\ cl' = [cl EXCEPT ![c] = "idle"] /\ target' = [target EXCEPT ![c] = NoId]
        BY <2>1 DEF Answer, Carry, Typed, CallersTyped, Backed, CallersBacked
    <2>3. /\ rows' = rows \/ rows' = Updated(rows, target[c], carried[c]) \/ rows' = AckedRow(rows, target[c])
          /\ lost \subseteq lost'
        BY <1>3 DEF CancelPersist, AckPersist, AckStore, GetFill, Persist
    <2>4. Kept
        BY <2>2, <2>3, UpdateKeeps DEF Typed
    <2>5. /\ OneRowPerKey' /\ SubmitsBacked' /\ \A i \in Id : Has(i)' <=> Has(i)
          /\ \A i \in acked \ lost' : Has(i)' /\ rows'[i].acked
        BY <1>1, <2>3, <2>4, KeptBacks
    <2>6. CallersBacked'
        BY <2>2, <2>5 DEF Backed, CallersBacked, Typed, CallersTyped
    <2>7. \A i \in Id : tracked'[i] # "none" => Has(i)'
        BY <1>3, <2>2, <2>5
           DEF CancelPersist, AckPersist, AckStore, GetFill, memory, Backed, Typed, MemoryTyped
    <2>8. AckDurable'
        <3>1. CASE acked' = acked
            BY <2>5, <3>1 DEF AckDurable, Has
        <3>2. CASE /\ acked' = acked \union {target[c]}
                   /\ rows' = AckedRow(rows, target[c]) \/ target[c] \in lost'
            <4>1. CASE target[c] \in lost'
                BY <2>5, <3>2, <4>1 DEF AckDurable, Has
            <4>2. CASE rows' = AckedRow(rows, target[c])
                <5>1. rows'[target[c]].acked
                    BY <2>2, <4>2 DEF AckedRow, Has, Typed, TableTyped, Rows, Job
                <5>. QED
                    BY <2>2, <2>5, <3>2, <5>1 DEF AckDurable, Has
            <4>. QED
                BY <3>2, <4>1, <4>2
        <3>. QED
            BY <1>3, <3>1, <3>2 DEF CancelPersist, AckPersist, AckStore, GetFill
    <2>. QED
        BY <2>5, <2>6, <2>7, <2>8 DEF Backed
<1>. QED
    BY <1>2, <1>3 DEF Call

LEMMA ProcessBacked == ASSUME Typed, Backed, Stop \/ Crash \/ Restart PROVE Backed'
<1>1. UNCHANGED <<rows, lost, reply, acked>>
    BY DEF Stop, Crash, Restart, submits, callers
<1>2. Kept
    BY <1>1 DEF Kept, Has, Typed, TableTyped
<1>3. OneRowPerKey' /\ AckDurable' /\ \A i \in Id : Has(i)' <=> Has(i)
    BY <1>1, <1>2, KeptBacks DEF AckDurable, Has
<1>4. SubmitsBacked'
    BY <1>1, <1>3 DEF Stop, Crash, Restart, submits, Backed, SubmitsBacked, Typed, SubmitsTyped
<1>5. CallersBacked'
    BY <1>3 DEF Stop, Crash, Restart, callers, Backed, CallersBacked, Typed, CallersTyped
<1>6. \A i \in Id : tracked'[i] # "none" => Has(i)'
    BY <1>3 DEF Stop, Crash, Restart, Incomplete, Stored, Has, Backed
<1>. QED
    BY <1>3, <1>4, <1>5, <1>6 DEF Backed

LEMMA BackedStep == ASSUME Typed, Backed, [Next]_vars PROVE Backed'
<1>1. UNCHANGED vars => Backed'
    BY DEF vars, memory, submits, workers, callers, world, Backed, OneRowPerKey, SubmitsBacked,
           CallersBacked, AckDurable, Has
<1>. QED
    BY <1>1, SubmitBacked, WorkBacked, CallBacked, ProcessBacked DEF Next

LEMMA BackedInvariant == Spec => []Backed
BY InitBacked, BackedStep, TypedInvariant, PTL DEF Spec

\* Two submits with one key are answered with one job, whenever they meet: each answer
\* is the id of a row with the key, and a key has one row.
THEOREM KeyHasOneJob == Spec => []OneJobPerKey
<1>1. Typed /\ Backed => OneJobPerKey
    <2> SUFFICES ASSUME Typed, Backed, NEW i \in Id, NEW j \in Id,
                        KeyOf[i] = KeyOf[j], KeyOf[i] # NoKey, reply[i] # NoId, reply[j] # NoId
                 PROVE  reply[i] = reply[j]
        BY DEF OneJobPerKey
    <2>1. reply[i] \in Stored(rows) /\ reply[j] \in Stored(rows)
        BY DEF Typed, SubmitsTyped, Backed, SubmitsBacked, Has, Stored
    <2>. QED
        BY <2>1 DEF Backed, SubmitsBacked, OneRowPerKey
<1>. QED
    BY <1>1, TypedInvariant, BackedInvariant, PTL

\* An acknowledgement that was answered is in the table and stays there, whatever a
\* worker, a cancel or a crash does afterwards.
THEOREM AckStays == Spec => []AckDurable
<1>1. Backed => AckDurable
    BY DEF Backed
<1>. QED
    BY <1>1, BackedInvariant, PTL

------------------------------------------------------------------------------
(* Places.  The line and the workers' hands are taken as the two sets of     *)
(* the ids they hold: a step moves an id from one to the other.              *)

Ids(s) == {s[n] : n \in DOMAIN s}

Once(s) == \A m, n \in DOMAIN s : s[m] = s[n] => m = n

OneWorker == \A v, w \in Worker : at[v] = at[w] /\ at[v] # NoId => v = w

Apart == \A w \in Worker : at[w] \notin Ids(line)

Placed(id) == id \in Ids(line) \/ \E w \in Worker : at[w] = id

\* A submit() that is under way has not let its job go yet.
NotYet == \A id \in Id : sub[id] \in {"idle", "insert", "track", "enqueue"} => ~Placed(id)

\* A desk that is down holds nothing, and no submit() is under way.
DownEmpty ==
    ~up => /\ line = <<>> /\ \A w \in Worker : at[w] = NoId
           /\ \A id \in Id : sub[id] \notin {"insert", "track", "enqueue"}

PlaceInv == Once(line) /\ OneWorker /\ Apart /\ NotYet /\ DownEmpty

\* A sequence of ids without repetitions and the operations of a queue.
LEMMA OnceAppend ==
    ASSUME NEW s \in Seq(Id), NEW x \in Id, Once(s), x \notin Ids(s)
    PROVE  Once(Append(s, x)) /\ Ids(Append(s, x)) = Ids(s) \union {x}
<1>1. Len(s) \in Nat /\ DOMAIN s = 1..Len(s) /\ DOMAIN Append(s, x) = 1..(Len(s) + 1)
    OBVIOUS
<1>2. \A i \in 1..Len(s) : Append(s, x)[i] = s[i] /\ s[i] # x
    BY <1>1 DEF Ids
<1>3. Append(s, x)[Len(s) + 1] = x
    OBVIOUS
<1>4. \A m \in 1..(Len(s) + 1) : m \in 1..Len(s) \/ m = Len(s) + 1
    BY <1>1
<1>5. Once(Append(s, x))
    BY <1>1, <1>2, <1>3, <1>4 DEF Once
<1>6. Ids(Append(s, x)) = Ids(s) \union {x}
    <2>1. Ids(Append(s, x)) \subseteq Ids(s) \union {x}
        BY <1>1, <1>2, <1>3, <1>4 DEF Ids
    <2>2. Ids(s) \subseteq Ids(Append(s, x))
        BY <1>1, <1>2 DEF Ids
    <2>3. x \in Ids(Append(s, x))
        BY <1>1, <1>3 DEF Ids
    <2>. QED
        BY <2>1, <2>2, <2>3
<1>. QED
    BY <1>5, <1>6

LEMMA OnceTail ==
    ASSUME NEW s \in Seq(Id), s # <<>>, Once(s)
    PROVE  /\ Head(s) \in Id /\ Head(s) \in Ids(s)
           /\ Once(Tail(s)) /\ Ids(Tail(s)) = Ids(s) \ {Head(s)}
<1>1. Len(s) \in Nat \ {0} /\ DOMAIN s = 1..Len(s) /\ Head(s) = s[1] /\ Head(s) \in Id
    OBVIOUS
<1>2. Tail(s) \in Seq(Id) /\ Len(Tail(s)) = Len(s) - 1
    OBVIOUS
<1>3. DOMAIN Tail(s) = 1..(Len(s) - 1)
    BY <1>2
<1>4. \A i \in 1..(Len(s) - 1) : Tail(s)[i] = s[i + 1] /\ i + 1 \in 1..Len(s) /\ i + 1 # 1
    BY <1>1, <1>2
<1>5. \A m, n \in 1..Len(s) : s[m] = s[n] => m = n
    BY <1>1 DEF Once
<1>6. \A m \in 1..Len(s) : m = 1 \/ (m - 1 \in 1..(Len(s) - 1) /\ Tail(s)[m - 1] = s[m])
    BY <1>1, <1>4
<1>7. Once(Tail(s))
    <2>1. ASSUME NEW m \in 1..(Len(s) - 1), NEW n \in 1..(Len(s) - 1), Tail(s)[m] = Tail(s)[n]
          PROVE  m = n
        <3>1. s[m + 1] = s[n + 1] /\ m + 1 \in 1..Len(s) /\ n + 1 \in 1..Len(s)
            BY <1>4, <2>1
        <3>2. m + 1 = n + 1
            BY <1>5, <3>1
        <3>. QED
            BY <1>1, <3>2
    <2>. QED
        BY <1>3, <2>1 DEF Once
<1>8. Head(s) \in Ids(s) /\ Head(s) \notin Ids(Tail(s))
    <2>1. 1 \in 1..Len(s)
        BY <1>1
    <2>2. \A i \in 1..(Len(s) - 1) : Tail(s)[i] # s[1]
        BY <1>4, <1>5, <2>1
    <2>. QED
        BY <1>1, <1>3, <2>1, <2>2 DEF Ids
<1>9. Ids(Tail(s)) = Ids(s) \ {Head(s)}
    <2>1. Ids(Tail(s)) \subseteq Ids(s)
        BY <1>1, <1>3, <1>4 DEF Ids
    <2>2. Ids(s) \ {Head(s)} \subseteq Ids(Tail(s))
        BY <1>1, <1>3, <1>6 DEF Ids
    <2>. QED
        BY <1>8, <2>1, <2>2
<1>. QED
    BY <1>1, <1>7, <1>8, <1>9

\* Resume() queues each of the jobs it has loaded once.
LEMMA OnceLoaded ==
    ASSUME NEW S \in SUBSET Id, NEW s \in [1..Cardinality(S) -> S],
           \A i \in S : \E n \in DOMAIN s : s[n] = i
    PROVE  Once(s) /\ Ids(s) = S
<1>1. Cardinality(S) \in Nat /\ IsFiniteSet(S)
    BY KeyAssumption, FS_Subset, FS_CardinalityType
<1>2. s \in Surjection(1..Cardinality(S), S)
    BY DEF Surjection
<1>3. /\ IsFiniteSet(1..Cardinality(S))
      /\ Cardinality(1..Cardinality(S)) = Cardinality(S)
    BY <1>1, FS_Interval
<1>4. s \in Injection(1..Cardinality(S), S)
    BY ONLY <1>2, <1>3, FS_SurjSameCardinalityImpliesInj
<1>. QED
    BY <1>4 DEF Injection, IsInjective, Once, Ids

LEMMA InitPlaceInv == Init => PlaceInv
<1>. SUFFICES ASSUME Init PROVE PlaceInv
    OBVIOUS
<1>1. line = <<>> /\ at = [w \in Worker |-> NoId] /\ up = TRUE
    BY DEF Init
<1>2. Ids(<<>>) = {} /\ Once(<<>>)
    BY DEF Ids, Once
<1>3. \A id \in Id : ~Placed(id)
    BY <1>1, <1>2, QueueAssumption DEF Placed
<1>. QED
    BY <1>1, <1>2, <1>3 DEF PlaceInv, OneWorker, Apart, NotYet, DownEmpty

\* enqueueReserved() is the moment a job gets its first place.
LEMMA SubmitPlaceInv == ASSUME Typed, PlaceInv, NEW id \in Id, Submit(id) PROVE PlaceInv'
<1>. USE DEF SubmitStep
<1>1. UNCHANGED <<at, up>> /\ up
    BY DEF Submit, SubmitBegin, SubmitInsert, SubmitInsertFails, SubmitTrack, SubmitEnqueue,
           SubmitDedupe, workers, world
<1>2. OneWorker' /\ DownEmpty'
    BY <1>1 DEF PlaceInv, OneWorker, DownEmpty
<1>3. /\ \A i \in Id : i # id => sub'[i] = sub[i]
      /\ sub'[id] \in {"insert", "track", "enqueue"}
         => sub[id] \in {"idle", "insert", "track"}
    BY DEF Submit, SubmitBegin, SubmitInsert, SubmitInsertFails, SubmitTrack, SubmitEnqueue,
           SubmitDedupe, Typed, SubmitsTyped
<1>4. CASE SubmitEnqueue(id)
    <2>1. /\ id \notin Ids(line) /\ \A w \in Worker : at[w] # id
          /\ sub'[id] = "done" /\ line' = Append(line, id)
        BY <1>4 DEF SubmitEnqueue, PlaceInv, NotYet, Placed, Typed, SubmitsTyped
    <2>2. Once(line') /\ Ids(line') = Ids(line) \union {id}
        BY <2>1, OnceAppend DEF PlaceInv, Typed, MemoryTyped
    <2>3. Apart'
        BY <1>1, <2>1, <2>2 DEF PlaceInv, Apart
    <2>4. NotYet'
        BY <1>1, <1>3, <2>1, <2>2 DEF PlaceInv, NotYet, Placed
    <2>. QED
        BY <1>2, <2>2, <2>3, <2>4 DEF PlaceInv
<1>5. CASE ~SubmitEnqueue(id)
    <2>1. line' = line
        BY <1>5 DEF Submit, SubmitBegin, SubmitInsert, SubmitInsertFails, SubmitTrack, SubmitDedupe,
                    memory
    <2>2. sub'[id] = "idle" => sub[id] = "idle"
        BY <1>5 DEF Submit, SubmitBegin, SubmitInsert, SubmitInsertFails, SubmitTrack, SubmitDedupe,
                    Typed, SubmitsTyped
    <2>3. NotYet'
        BY <1>1, <1>3, <2>1, <2>2 DEF PlaceInv, NotYet, Placed
    <2>. QED
        BY <1>1, <1>2, <2>1, <2>3 DEF PlaceInv, Apart
<1>. QED
    BY <1>4, <1>5

\* A worker takes a job off the line, puts its job back, lets go of it, or keeps it.
LEMMA WorkMoves ==
    ASSUME NEW w \in Worker, Work(w)
    PROVE  /\ up /\ UNCHANGED <<sub, up, crashes>>
           /\ \/ UNCHANGED <<line, at>>
              \/ Take(w)
              \/ Requeue(w)
              \/ line' = line /\ at' = [at EXCEPT ![w] = NoId]
<1>1. up /\ UNCHANGED <<sub, up, crashes>>
    BY WorkRows DEF submits, world, Work, Take, NoTool, Begin, BeginCanceled, PersistRunning, ExecuteEnds,
           FinishCanceled, FinishDone, FinishPermanent, FinishExhausted, Retry, PersistRetry,
           BackoffEnds, StoppedInBackoff, Requeue, PersistFinal, FinishFailed, Quiet, WorkerStep
<1>2. \/ UNCHANGED <<line, at>>
      \/ Take(w)
      \/ Requeue(w)
      \/ line' = line /\ at' = [at EXCEPT ![w] = NoId]
    BY DEF Work, NoTool, Begin, BeginCanceled, PersistRunning, ExecuteEnds, FinishCanceled,
           FinishDone, FinishPermanent, FinishExhausted, Retry, PersistRetry, BackoffEnds,
           StoppedInBackoff, PersistFinal, FinishFailed, Quiet, memory, Rest
<1>. QED
    BY <1>1, <1>2

LEMMA WorkPlaceInv == ASSUME Typed, PlaceInv, NEW w \in Worker, Work(w) PROVE PlaceInv'
<1>1. up /\ UNCHANGED <<sub, up>>
    BY WorkMoves
<1>2. DownEmpty'
    BY <1>1 DEF DownEmpty
<1>3. at \in [Worker -> Id \union {NoId}] /\ line \in Seq(Id)
    BY DEF Typed, WorkersTyped, MemoryTyped
<1>4. CASE UNCHANGED <<line, at>>
    BY <1>1, <1>2, <1>4 DEF PlaceInv, OneWorker, Apart, NotYet, Placed
<1>5. CASE Take(w)
    <2>1. /\ line # <<>> /\ line' = Tail(line)
          /\ at' = [at EXCEPT ![w] = Head(line)]
        BY <1>5 DEF Take
    <2>2. /\ Head(line) \in Id /\ Head(line) \in Ids(line)
          /\ Once(line') /\ Ids(line') = Ids(line) \ {Head(line)}
        BY <1>3, <2>1, OnceTail DEF PlaceInv
    <2>3. OneWorker' /\ Apart'
        BY <1>3, <2>1, <2>2 DEF PlaceInv, OneWorker, Apart
    <2>4. \A i \in Id : Placed(i)' => Placed(i)
        BY <1>3, <2>1, <2>2 DEF Placed
    <2>. QED
        BY <1>1, <1>2, <2>2, <2>3, <2>4 DEF PlaceInv, NotYet
<1>6. CASE Requeue(w)
    <2>1. /\ at[w] \in Id /\ line' = Append(line, at[w])
          /\ at' = [at EXCEPT ![w] = NoId]
        BY <1>6, OwnTyped DEF Requeue, Rest, WorkerStep
    <2>2. Once(line') /\ Ids(line') = Ids(line) \union {at[w]}
        BY <1>3, <2>1, OnceAppend DEF PlaceInv, Apart
    <2>3. NoId \notin Ids(line')
        BY <1>3, <2>1, <2>2, QueueAssumption DEF Ids
    <2>4. OneWorker' /\ Apart'
        BY <1>3, <2>1, <2>2, <2>3 DEF PlaceInv, OneWorker, Apart
    <2>5. \A i \in Id : Placed(i)' => Placed(i)
        BY <1>3, <2>1, <2>2, QueueAssumption DEF Placed
    <2>. QED
        BY <1>1, <1>2, <2>2, <2>4, <2>5 DEF PlaceInv, NotYet
<1>7. CASE line' = line /\ at' = [at EXCEPT ![w] = NoId]
    <2>1. NoId \notin Ids(line)
        BY <1>3, QueueAssumption DEF Ids
    <2>2. OneWorker' /\ Apart'
        BY <1>3, <1>7, <2>1 DEF PlaceInv, OneWorker, Apart
    <2>3. \A i \in Id : Placed(i)' => Placed(i)
        BY <1>3, <1>7, QueueAssumption DEF Placed
    <2>. QED
        BY <1>1, <1>2, <1>7, <2>2, <2>3 DEF PlaceInv, NotYet
<1>. QED
    BY <1>4, <1>5, <1>6, <1>7, WorkMoves

\* A crash empties every hand; a row that Resume() loads has no submit() under way.
LEMMA ProcessPlaceInv ==
    ASSUME Typed, Backed, PlaceInv, Stop \/ Crash \/ Restart PROVE PlaceInv'
<1>1. CASE Stop
    BY <1>1 DEF Stop, submits, workers, world, PlaceInv, OneWorker, Apart, NotYet, Placed, DownEmpty
<1>2. Ids(<<>>) = {} /\ Once(<<>>)
    BY DEF Ids, Once
<1>3. CASE Crash
    <2>1. line' = <<>> /\ \A w \in Worker : at'[w] = NoId
        BY <1>3 DEF Crash
    <2>2. \A id \in Id : sub'[id] \notin {"insert", "track", "enqueue"}
        BY <1>3 DEF Crash
    <2>3. \A id \in Id : ~Placed(id)'
        BY <1>2, <2>1, QueueAssumption DEF Placed
    <2>. QED
        BY <1>2, <2>1, <2>2, <2>3 DEF PlaceInv, OneWorker, Apart, NotYet, DownEmpty
<1>4. CASE Restart
    <2>1. up' /\ \A w \in Worker : at'[w] = NoId
        BY <1>4 DEF Restart, workers, PlaceInv, DownEmpty
    <2>2. PICK S \in {Incomplete(rows)} \union (IF StoreFails THEN {{}} ELSE {}) :
              line' \in {s \in [1..Cardinality(S) -> S] : \A i \in S : \E n \in DOMAIN s : s[n] = i}
        BY <1>4 DEF Restart
    <2>3. S \subseteq Id /\ \A i \in S : Has(i)
        BY <2>2 DEF Incomplete, Stored, Has
    <2>4. Once(line') /\ Ids(line') = S
        BY <2>2, <2>3, OnceLoaded
    <2>5. \A id \in Id : Placed(id)' => id \in S
        BY <2>1, <2>4, QueueAssumption DEF Placed
    <2>6. \A id \in Id : /\ sub'[id] = sub[id]
                         /\ sub[id] \notin {"insert", "track", "enqueue"}
                         /\ sub[id] = "idle" => ~Has(id)
        BY <1>4 DEF Restart, submits, PlaceInv, DownEmpty, Backed, SubmitsBacked
    <2>7. NotYet'
        BY <2>3, <2>5, <2>6 DEF NotYet
    <2>8. Apart' /\ OneWorker'
        BY <2>1, <2>3, <2>4, QueueAssumption DEF Apart, OneWorker
    <2>. QED
        BY <2>1, <2>4, <2>7, <2>8 DEF PlaceInv, DownEmpty
<1>. QED
    BY <1>1, <1>3, <1>4

LEMMA PlaceStep == ASSUME Typed, Backed, PlaceInv, [Next]_vars PROVE PlaceInv'
<1>1. ASSUME UNCHANGED <<line, at, sub, up>>, PlaceInv PROVE PlaceInv'
    BY <1>1 DEF PlaceInv, OneWorker, Apart, NotYet, Placed, DownEmpty
<1>2. ASSUME NEW c \in Caller, Call(c) PROVE UNCHANGED <<line, at, sub, up>>
    BY <1>2 DEF Call, CancelPersist, AckPersist, AckStore, GetFill, CancelMark, AckMark, AckRead,
                GetMiss, memory, submits, workers, world
<1>3. UNCHANGED vars => UNCHANGED <<line, at, sub, up>>
    BY DEF vars, memory, submits, workers, world
<1>. QED
    BY <1>1, <1>2, <1>3, SubmitPlaceInv, WorkPlaceInv, ProcessPlaceInv DEF Next

LEMMA PlaceInvariant == Spec => []PlaceInv
BY InitPlaceInv, PlaceStep, TypedInvariant, BackedInvariant, PTL DEF Spec

\* A job is in one place: no retry, no deduplicated submit, no resume and no crash
\* gives it a second, so no two workers ever run it in its one workspace.
THEOREM OnePlace == Spec => []OneExecution
<1>1. Typed /\ PlaceInv => OneExecution
    <2> SUFFICES ASSUME Typed, PlaceInv, NEW id \in Id
                 PROVE  /\ \A p, q \in Places(id) : p = q
                        /\ sub[id] \in {"insert", "track", "enqueue"} => Places(id) = {}
        BY DEF OneExecution
    <2>1. \A p \in Places(id) : \/ \E n \in DOMAIN line : line[n] = id /\ p = <<"line", n>>
                                \/ \E w \in Worker : at[w] = id /\ p = <<"worker", w>>
        BY DEF Places
    <2>2. \A m, n \in DOMAIN line : line[m] = id /\ line[n] = id => m = n
        BY DEF PlaceInv, Once
    <2>3. \A v, w \in Worker : at[v] = id /\ at[w] = id => v = w
        BY QueueAssumption DEF PlaceInv, OneWorker
    <2>4. \A n \in DOMAIN line, w \in Worker : line[n] = id => at[w] # id
        BY DEF PlaceInv, Apart, Ids
    <2>5. Places(id) # {} => Placed(id)
        BY <2>1 DEF Placed, Ids
    <2>6. \A p, q \in Places(id) : p = q
        BY <2>1, <2>2, <2>3, <2>4
    <2>. QED
        BY <2>5, <2>6 DEF PlaceInv, NotYet
<1>. QED
    BY <1>1, TypedInvariant, PlaceInvariant, PTL

------------------------------------------------------------------------------
(* Runs.  The attempts begun are compared with the count in the job, in the  *)
(* copy on its way to the store and in the row, each behind by what the next *)
(* step or the next crash adds.                                              *)

Cap == IF MaxRetries > 1 THEN MaxRetries ELSE 1

\* Where a job still has a run to come without another decision of process().
Waiting(id) == \/ id \in Ids(line)
               \/ \E w \in Worker : at[w] = id /\ wk[w] \in {"took", "retrying", "backoff", "requeue"}

Open(id) == Has(id) /\ rows[id].status \in {"queued", "running"}

RunsWithin(id) ==
    /\ execs[id] <= Cap + crashes
    /\ Waiting(id) \/ ~up => execs[id] < Cap + crashes
    /\ sub[id] \in {"idle", "insert", "track", "enqueue"} => execs[id] = 0

RunsCounted(id) ==
    /\ Placed(id) => execs[id] <= obj[id].own.attempt + crashes
    /\ \A w \in Worker : at[w] = id /\ wk[w] \in {"starting", "retrying", "finishing"}
                         => execs[id] <= cp[w].attempt + crashes
    /\ Open(id) => /\ execs[id] <= rows[id].attempt + crashes + 1
                   /\ \/ execs[id] <= rows[id].attempt + crashes
                      \/ \E w \in Worker : at[w] = id /\ wk[w] = "starting"

\* A Cancel() writes a row that is closed, however old the count in its copy.
CancelsClose == \A c \in Caller : cl[c] = "cancelPersist" => carried[c].status = "canceled"

RunInv == CancelsClose /\ \A id \in Id \ lost : RunsWithin(id) /\ RunsCounted(id)

Early(id) == sub[id] \in {"idle", "insert", "track", "enqueue"}

\* The numbers are numbers.
LEMMA Counts ==
    ASSUME Typed
    PROVE  /\ Cap \in Nat /\ Cap > 0 /\ MaxRetries <= Cap /\ crashes \in Nat
           /\ \A i \in Id : execs[i] \in Nat /\ obj[i].own.attempt \in Nat
           /\ \A i \in Id : Has(i) => rows[i].attempt \in Nat
           /\ \A w \in Worker : cp[w].attempt \in Nat
<1>1. Cap \in Nat /\ Cap > 0 /\ MaxRetries <= Cap
    BY QueueAssumption DEF Cap
<1>2. \A j \in Job : j.attempt \in Nat
    BY DEF Job
<1>3. \A i \in Id : execs[i] \in Nat /\ obj[i].own.attempt \in Nat
    BY <1>2 DEF Typed, WorkersTyped, MemoryTyped
<1>4. \A i \in Id : Has(i) => rows[i].attempt \in Nat
    BY <1>2 DEF Typed, TableTyped, Rows, Has
<1>5. \A w \in Worker : cp[w].attempt \in Nat
    BY <1>2 DEF Typed, WorkersTyped
<1>. QED
    BY <1>1, <1>3, <1>4, <1>5 DEF Typed, WorldTyped

\* A step that begins no run and does not crash keeps what is said of a job when every
\* count it writes is as high as the job's runs.
LEMMA RunsStay ==
    ASSUME Typed, NEW i \in Id, RunsWithin(i), RunsCounted(i),
           execs'[i] = execs[i], UNCHANGED <<crashes, up>>,
           Early(i)' => Early(i),
           Waiting(i)' => Waiting(i) \/ execs[i] < Cap + crashes,
           Placed(i)' => \/ Placed(i) /\ obj'[i].own.attempt = obj[i].own.attempt
                         \/ execs[i] <= obj'[i].own.attempt + crashes,
           \A v \in Worker : at'[v] = i /\ wk'[v] \in {"starting", "retrying", "finishing"}
                             => execs[i] <= cp'[v].attempt + crashes,
           Open(i)' => \/ rows'[i].attempt \in Nat /\ execs[i] <= rows'[i].attempt + crashes
                       \/ /\ Open(i) /\ rows'[i].attempt = rows[i].attempt
                          /\ \A v \in Worker : at[v] = i /\ wk[v] = "starting"
                                               => at'[v] = i /\ wk'[v] = "starting"
    PROVE  RunsWithin(i)' /\ RunsCounted(i)'
<1>1. RunsWithin(i)'
    BY DEF RunsWithin, Early, Cap
<1>2. Placed(i)' => execs'[i] <= obj'[i].own.attempt + crashes'
    BY DEF RunsCounted
<1>3. Open(i)' => /\ execs'[i] <= rows'[i].attempt + crashes' + 1
                  /\ \/ execs'[i] <= rows'[i].attempt + crashes'
                     \/ \E w \in Worker : at'[w] = i /\ wk'[w] = "starting"
    <2>1. CASE rows'[i].attempt \in Nat /\ execs[i] <= rows'[i].attempt + crashes
        <3>1. execs[i] \in Nat /\ crashes \in Nat
            BY Counts
        <3>. QED
            BY <2>1, <3>1
    <2>2. CASE /\ Open(i) /\ rows'[i].attempt = rows[i].attempt
               /\ \A v \in Worker : at[v] = i /\ wk[v] = "starting"
                                    => at'[v] = i /\ wk'[v] = "starting"
        BY <2>2 DEF RunsCounted
    <2>. QED
        BY <2>1, <2>2
<1>4. \A w \in Worker : at'[w] = i /\ wk'[w] \in {"starting", "retrying", "finishing"}
                        => execs'[i] <= cp'[w].attempt + crashes'
    OBVIOUS
<1>. QED
    BY <1>1, <1>2, <1>3, <1>4 DEF RunsCounted

LEMMA InitRunInv == Init => RunInv
<1>. SUFFICES ASSUME Init PROVE RunInv
    OBVIOUS
<1>1. Typed /\ PlaceInv /\ ~(\E id \in Id : Has(id))
    BY InitTyped, InitPlaceInv DEF Init, Has
<1>2. /\ crashes = 0 /\ up = TRUE /\ \A id \in Id : execs[id] = 0 /\ sub[id] = "idle"
      /\ cl = [c \in Caller |-> "idle"] /\ wk = [w \in Worker |-> "idle"]
    BY DEF Init
<1>3. CancelsClose
    BY <1>2 DEF CancelsClose
<1>4. ASSUME NEW id \in Id PROVE RunsWithin(id) /\ RunsCounted(id)
    <2>1. ~Placed(id) /\ ~Open(id)
        BY <1>1, <1>2 DEF PlaceInv, NotYet, Open
    <2>2. RunsWithin(id)
        BY <1>1, <1>2, Counts DEF RunsWithin
    <2>3. RunsCounted(id)
        BY <1>2, <2>1 DEF RunsCounted
    <2>. QED
        BY <2>2, <2>3
<1>. QED
    BY <1>3, <1>4 DEF RunInv

LEMMA SubmitRunInv == ASSUME Typed, Backed, RunInv, NEW id \in Id, Submit(id) PROVE RunInv'
<1>. USE DEF SubmitStep
<1>1. UNCHANGED <<wk, at, cp, execs, crashes, up, cl, carried, lost>>
    BY DEF Submit, SubmitBegin, SubmitInsert, SubmitInsertFails, SubmitTrack, SubmitEnqueue,
           SubmitDedupe, workers, world, callers
<1>2. CancelsClose'
    BY <1>1 DEF RunInv, CancelsClose
<1>3. /\ \A i \in Id : i # id => sub'[i] = sub[i]
      /\ Early(id)' => Early(id)
    BY DEF Early, Submit, SubmitBegin, SubmitInsert, SubmitInsertFails, SubmitTrack, SubmitEnqueue,
           SubmitDedupe, Typed, SubmitsTyped
<1>4. \/ line' = line
      \/ sub[id] = "enqueue" /\ line' = Append(line, id)
    BY DEF Submit, SubmitBegin, SubmitInsert, SubmitInsertFails, SubmitTrack, SubmitEnqueue,
           SubmitDedupe, memory
<1>5. Ids(line') \subseteq Ids(line) \union (IF sub[id] = "enqueue" THEN {id} ELSE {})
    <2>1. Len(line) \in Nat /\ DOMAIN line = 1..Len(line) /\ line \in Seq(Id)
        BY DEF Typed, MemoryTyped
    <2>2. \A n \in DOMAIN Append(line, id) : n \in DOMAIN line \/ Append(line, id)[n] = id
        BY <2>1
    <2>3. \A n \in DOMAIN line : Append(line, id)[n] = line[n]
        BY <2>1
    <2>. QED
        BY <1>4, <2>2, <2>3 DEF Ids
<1>6. \A i \in Id : obj'[i].own = obj[i].own
    <2>1. CASE SubmitDedupe(id)
        <3>1. dup[id][1] \in Id
            BY <2>1 DEF SubmitDedupe, Typed, SubmitsTyped
        <3>2. \/ obj' = obj
              \/ obj' = [obj EXCEPT ![dup[id][1]] = [obj[dup[id][1]] EXCEPT !.read = dup[id][2]]]
            BY <2>1 DEF SubmitDedupe
        <3>. QED
            BY <3>1, <3>2 DEF Typed, MemoryTyped
    <2>2. CASE ~SubmitDedupe(id)
        BY <2>2 DEF Submit, SubmitBegin, SubmitInsert, SubmitInsertFails, SubmitTrack, SubmitEnqueue,
                    memory
    <2>. QED
        BY <2>1, <2>2
<1>7. \A i \in Id : \/ rows'[i] = rows[i]
                    \/ i = id /\ sub[id] = "insert" /\ rows'[i] = NewJob
    <2>1. CASE SubmitInsert(id) \/ SubmitInsertFails(id)
        <3>1. sub[id] = "insert" /\ (rows' = rows \/ rows' = Inserted(rows, id)) /\ rows \in Rows
            BY <2>1 DEF SubmitInsert, SubmitInsertFails, Typed, TableTyped
        <3>2. rows' = rows \/ rows' = [rows EXCEPT ![id] = NewJob]
            BY <3>1 DEF Inserted
        <3>. QED
            BY <3>1, <3>2 DEF Rows
    <2>2. CASE ~(SubmitInsert(id) \/ SubmitInsertFails(id))
        BY <2>2 DEF Submit, SubmitBegin, SubmitTrack, SubmitEnqueue, SubmitDedupe
    <2>. QED
        BY <2>1, <2>2
<1>8. ASSUME NEW i \in Id \ lost PROVE RunsWithin(i)' /\ RunsCounted(i)'
    <2>1. RunsWithin(i) /\ RunsCounted(i)
        BY DEF RunInv
    <2>2. /\ Cap \in Nat /\ Cap > 0 /\ crashes \in Nat /\ execs[i] \in Nat
          /\ obj[i].own.attempt \in Nat
        BY Counts
    <2>3. Early(i) => execs[i] = 0
        BY <2>1 DEF RunsWithin, Early
    <2>4. Early(i)' => Early(i)
        BY <1>3 DEF Early
    <2>5. i \in Ids(line') => i \in Ids(line) \/ execs[i] = 0
        BY <1>5, <2>3 DEF Early
    <2>6. Waiting(i)' => Waiting(i) \/ execs[i] < Cap + crashes
        BY <1>1, <2>2, <2>5 DEF Waiting
    <2>7. Placed(i)' => \/ Placed(i) /\ obj'[i].own.attempt = obj[i].own.attempt
                        \/ execs[i] <= obj'[i].own.attempt + crashes
        BY <1>1, <1>6, <2>2, <2>5 DEF Placed
    <2>8. CASE rows'[i] = rows[i]
        BY <1>1, <2>1, <2>4, <2>6, <2>7, <2>8, RunsStay DEF Open, Has, RunsCounted
    <2>9. CASE i = id /\ sub[id] = "insert" /\ rows'[i] = NewJob
        <3>1. rows'[i].attempt \in Nat /\ execs[i] <= rows'[i].attempt + crashes
            BY <2>2, <2>3, <2>9 DEF Early, NewJob
        <3>. QED
            BY <1>1, <2>1, <2>4, <2>6, <2>7, <3>1, RunsStay DEF RunsCounted
    <2>. QED
        BY <1>7, <2>8, <2>9
<1>. QED
    BY <1>1, <1>2, <1>8 DEF RunInv

\* Begin() counts the attempt in the job and in its copy; its row is one behind.
LEMMA BeginRuns ==
    ASSUME Typed, PlaceInv, PlaceInv', NEW w \in Worker, Begin(w),
           NEW i \in Id, RunsWithin(i), RunsCounted(i)
    PROVE  RunsWithin(i)' /\ RunsCounted(i)'
<1>1. /\ up /\ wk[w] = "took" /\ wk' = [wk EXCEPT ![w] = "starting"]
      /\ UNCHANGED <<rows, line, at, sub, up, crashes>>
      /\ obj' = [obj EXCEPT ![at[w]].own = [Own(w) EXCEPT !.status = "running", !.attempt = @ + 1]]
      /\ cp' = [cp EXCEPT ![w] = [Own(w) EXCEPT !.status = "running", !.attempt = @ + 1]]
      /\ execs' = [execs EXCEPT ![at[w]] = @ + 1]
    BY DEF Begin, WorkerStep, Leave, Quiet, submits, world
<1>2. at[w] \in Id /\ Own(w) \in Job
    BY <1>1, OwnTyped
<1>3. /\ wk' \in [Worker -> {"idle", "took", "starting", "executing", "ended", "discard",
                             "retrying", "backoff", "requeue", "finishing"}]
      /\ wk'[w] = "starting" /\ \A v \in Worker : v # w => wk'[v] = wk[v] /\ cp'[v] = cp[v]
    BY <1>1 DEF Typed, WorkersTyped
<1>4. /\ Cap \in Nat /\ crashes \in Nat /\ execs[i] \in Nat /\ obj[i].own.attempt \in Nat
      /\ Has(i) => rows[i].attempt \in Nat
    BY Counts
<1>5. CASE i = at[w]
    <2>1. \A v \in Worker : at[v] = i => v = w
        BY <1>2, <1>5, QueueAssumption DEF PlaceInv, OneWorker
    <2>2. i \notin Ids(line) /\ Waiting(i) /\ Placed(i)
        BY <1>1, <1>5 DEF PlaceInv, Apart, Waiting, Placed
    <2>3. execs'[i] = execs[i] + 1
        BY <1>1, <1>2, <1>5 DEF Typed, WorkersTyped
    <2>4. obj'[i].own.attempt = obj[i].own.attempt + 1 /\ cp'[w].attempt = obj[i].own.attempt + 1
        BY <1>1, <1>2, <1>5 DEF Typed, MemoryTyped, WorkersTyped, Own, Job
    <2>5. execs[i] < Cap + crashes /\ execs[i] <= obj[i].own.attempt + crashes
        BY <2>2 DEF RunsWithin, RunsCounted
    <2>6. ~Waiting(i)' /\ ~Early(i)'
        BY <1>1, <1>3, <2>1, <2>2 DEF Waiting, Early, PlaceInv, NotYet
    <2>7. RunsWithin(i)'
        BY <1>1, <1>4, <2>3, <2>5, <2>6 DEF RunsWithin, Early, Cap
    <2>8. Open(i)' => Open(i) /\ execs[i] <= rows[i].attempt + crashes /\ rows[i].attempt \in Nat
        BY <1>1, <1>4, <2>1 DEF Open, Has, RunsCounted
    <2>9. RunsCounted(i)'
        <3>1. Placed(i)' => execs'[i] <= obj'[i].own.attempt + crashes'
            BY <1>1, <1>4, <2>3, <2>4, <2>5
        <3>2. \A v \in Worker : at'[v] = i => execs'[i] <= cp'[v].attempt + crashes'
            BY <1>1, <1>4, <2>1, <2>3, <2>4, <2>5
        <3>3. Open(i)' => execs'[i] <= rows'[i].attempt + crashes' + 1
            BY <1>1, <1>4, <2>3, <2>8
        <3>4. at'[w] = i /\ wk'[w] = "starting"
            BY <1>1, <1>3, <1>5
        <3>. QED
            BY <3>1, <3>2, <3>3, <3>4 DEF RunsCounted
    <2>. QED
        BY <2>7, <2>9
<1>6. CASE i # at[w]
    <2>1. execs'[i] = execs[i] /\ obj'[i] = obj[i]
        BY <1>1, <1>2, <1>6 DEF Typed, WorkersTyped, MemoryTyped
    <2>2. Waiting(i)' => Waiting(i)
        BY <1>1, <1>3 DEF Waiting
    <2>3. \A v \in Worker : at'[v] = i => wk'[v] = wk[v] /\ cp'[v] = cp[v]
        BY <1>1, <1>3, <1>6
    <2>4. Open(i)' => /\ Open(i) /\ rows'[i].attempt = rows[i].attempt
                      /\ \A v \in Worker : at[v] = i /\ wk[v] = "starting"
                                           => at'[v] = i /\ wk'[v] = "starting"
        BY <1>1, <2>3 DEF Open, Has
    <2>5. (Placed(i)' => Placed(i)) /\ (Early(i)' => Early(i))
        BY <1>1 DEF Placed, Early
    <2>6. \A v \in Worker : at'[v] = i /\ wk'[v] \in {"starting", "retrying", "finishing"}
                            => execs[i] <= cp'[v].attempt + crashes
        BY <1>1, <2>3 DEF RunsCounted
    <2>. QED
        BY <1>1, <2>1, <2>2, <2>4, <2>5, <2>6, RunsStay
<1>. QED
    BY <1>5, <1>6

\* The other critical sections of process(): what the worker leaves has the count it found,
\* and only a retry that the limit allows leaves a run to come.
LEMMA LeaveRuns ==
    ASSUME Typed, NEW w \in Worker, up,
           wk[w] \in {"took", "ended", "discard", "backoff", "requeue"},
           NEW to \in {"finishing", "retrying"}, wk' = [wk EXCEPT ![w] = to],
           to = "retrying" => Own(w).attempt < MaxRetries,
           NEW j \in Job, j.attempt = Own(w).attempt, Leave(w, j),
           UNCHANGED <<rows, line, at, sub, up, crashes, execs>>,
           NEW i \in Id, RunsWithin(i), RunsCounted(i)
    PROVE  RunsWithin(i)' /\ RunsCounted(i)'
<1>1. at[w] \in Id /\ Own(w) \in Job
    BY OwnTyped
<1>2. /\ wk'[w] = to
      /\ \A v \in Worker : v # w => wk'[v] = wk[v] /\ cp'[v] = cp[v]
      /\ cp'[w] = j
    BY DEF Leave, Typed, WorkersTyped
<1>3. obj'[i].own.attempt = obj[i].own.attempt
    <2>1. obj' = [obj EXCEPT ![at[w]] = [obj[at[w]] EXCEPT !.own = j]]
        BY DEF Leave
    <2>. QED
        BY <1>1, <2>1 DEF Typed, MemoryTyped, Own
<1>4. /\ Cap \in Nat /\ MaxRetries <= Cap /\ crashes \in Nat /\ execs[i] \in Nat
      /\ obj[i].own.attempt \in Nat /\ MaxRetries \in Nat
    BY Counts, QueueAssumption
<1>5. at[w] = i => execs[i] <= j.attempt + crashes /\ j.attempt = obj[i].own.attempt
    BY DEF RunsCounted, Placed, Own
<1>6. Waiting(i)' => Waiting(i) \/ execs[i] < Cap + crashes
    <2>1. CASE at[w] = i /\ to = "retrying"
        BY <1>4, <1>5, <2>1 DEF Own
    <2>2. CASE ~(at[w] = i /\ to = "retrying")
        BY <1>2, <2>2 DEF Waiting
    <2>. QED
        BY <2>1, <2>2
<1>7. \A v \in Worker : at'[v] = i /\ wk'[v] \in {"starting", "retrying", "finishing"}
                        => execs[i] <= cp'[v].attempt + crashes
    BY <1>2, <1>5 DEF RunsCounted
<1>8. Open(i)' => /\ Open(i) /\ rows'[i].attempt = rows[i].attempt
                  /\ \A v \in Worker : at[v] = i /\ wk[v] = "starting"
                                       => at'[v] = i /\ wk'[v] = "starting"
    BY <1>2 DEF Open, Has
<1>. QED
    BY <1>3, <1>6, <1>7, <1>8, RunsStay DEF Early, Placed

\* persist() writes a count that is as high as the runs, or the job is lost.
LEMMA PersistRuns ==
    ASSUME Typed, PlaceInv, NEW w \in Worker, up,
           wk[w] \in {"starting", "retrying", "finishing"}, Persist(at[w], cp[w]),
           \/ /\ wk[w] = "starting" /\ wk' = [wk EXCEPT ![w] = "executing"]
              /\ UNCHANGED <<at, cp>>
           \/ /\ wk[w] = "retrying" /\ wk' = [wk EXCEPT ![w] = "backoff"]
              /\ UNCHANGED <<at, cp>>
           \/ /\ wk[w] = "finishing" /\ wk' = [wk EXCEPT ![w] = "idle"]
              /\ Rest(w),
           UNCHANGED <<obj, line, sub, up, crashes, execs>>,
           NEW i \in Id, i \notin lost', RunsWithin(i), RunsCounted(i)
    PROVE  RunsWithin(i)' /\ RunsCounted(i)'
<1>1. at[w] \in Id /\ cp[w] \in Job
    BY OwnTyped DEF Typed, WorkersTyped
<1>2. /\ \A v \in Worker : v # w => wk'[v] = wk[v] /\ cp'[v] = cp[v] /\ at'[v] = at[v]
      /\ wk'[w] \in {"executing", "backoff", "idle"}
      /\ at'[w] = i => at[w] = i
      /\ wk'[w] = "backoff" => wk[w] = "retrying"
    BY QueueAssumption DEF Rest, Typed, WorkersTyped
<1>3. (Placed(i)' => Placed(i)) /\ (Waiting(i)' => Waiting(i))
    BY <1>2 DEF Placed, Waiting
<1>4. \A v \in Worker : at'[v] = i /\ wk'[v] \in {"starting", "retrying", "finishing"}
                        => execs[i] <= cp'[v].attempt + crashes
    BY <1>2 DEF RunsCounted
<1>5. Open(i)' => \/ rows'[i].attempt \in Nat /\ execs[i] <= rows'[i].attempt + crashes
                  \/ /\ Open(i) /\ rows'[i].attempt = rows[i].attempt
                     /\ \A v \in Worker : at[v] = i /\ wk[v] = "starting"
                                          => at'[v] = i /\ wk'[v] = "starting"
    <2>1. CASE i = at[w]
        <3>1. rows' = Updated(rows, i, cp[w])
            BY <2>1 DEF Persist, Typed, TableTyped
        <3>2. Has(i)' => rows'[i] = [cp[w] EXCEPT !.acked = rows[i].acked]
            BY <3>1 DEF Updated, Has
        <3>3. Has(i)' => rows'[i].attempt = cp[w].attempt /\ cp[w].attempt \in Nat
            BY <1>1, <3>2 DEF Job
        <3>. QED
            BY <2>1, <3>3 DEF Open, Has, RunsCounted
    <2>2. CASE i # at[w]
        <3>1. rows'[i] = rows[i]
            BY <2>2 DEF Persist, Updated, Typed, TableTyped, Rows
        <3>. QED
            BY <1>2, <2>2, <3>1 DEF Open, Has
    <2>. QED
        BY <2>1, <2>2
<1>. QED
    BY <1>3, <1>4, <1>5, RunsStay DEF Early

\* A worker takes a job off the line or puts it back: the run to come goes with it.
LEMMA MoveRuns ==
    ASSUME Typed, PlaceInv, NEW w \in Worker, Take(w) \/ Requeue(w),
           NEW i \in Id, RunsWithin(i), RunsCounted(i)
    PROVE  RunsWithin(i)' /\ RunsCounted(i)'
<1>1. /\ UNCHANGED <<rows, obj, sub, up, crashes, execs>>
      /\ \A v \in Worker : v # w => wk'[v] = wk[v] /\ cp'[v] = cp[v] /\ at'[v] = at[v]
      /\ wk[w] \in {"idle", "requeue"} /\ wk'[w] \in {"took", "idle"}
    BY DEF Take, Requeue, Rest, WorkerStep, submits, world, Typed, WorkersTyped
<1>2. (Placed(i)' => Placed(i)) /\ (Waiting(i)' => Waiting(i))
    <2>1. CASE Take(w)
        <3>1. /\ line # <<>> /\ line' = Tail(line) /\ at'[w] = Head(line)
            BY <2>1 DEF Take, Typed, WorkersTyped
        <3>2. Head(line) \in Ids(line) /\ Ids(line') \subseteq Ids(line)
            BY <3>1, OnceTail DEF PlaceInv, Typed, MemoryTyped
        <3>. QED
            BY <1>1, <3>1, <3>2 DEF Placed, Waiting
    <2>2. CASE Requeue(w)
        <3>1. /\ wk[w] = "requeue" /\ at[w] \in Id
              /\ line' = Append(line, at[w]) /\ at'[w] = NoId
            BY <2>2, OwnTyped DEF Requeue, Rest, WorkerStep, Typed, WorkersTyped
        <3>2. Ids(line') = Ids(line) \union {at[w]}
            BY <3>1, OnceAppend DEF PlaceInv, Apart, Typed, MemoryTyped
        <3>. QED
            BY <1>1, <3>1, <3>2, QueueAssumption DEF Placed, Waiting
    <2>. QED
        BY <2>1, <2>2
<1>3. \A v \in Worker : at'[v] = i /\ wk'[v] \in {"starting", "retrying", "finishing"}
                        => execs[i] <= cp'[v].attempt + crashes
    BY <1>1 DEF RunsCounted
<1>4. Open(i)' => /\ Open(i) /\ rows'[i].attempt = rows[i].attempt
                  /\ \A v \in Worker : at[v] = i /\ wk[v] = "starting"
                                       => at'[v] = i /\ wk'[v] = "starting"
    BY <1>1 DEF Open, Has
<1>. QED
    BY <1>1, <1>2, <1>3, <1>4, RunsStay DEF Early

\* A worker that only looks at the job and goes on.
LEMMA LookRuns ==
    ASSUME Typed, NEW w \in Worker, up,
           BeginCanceled(w) \/ ExecuteEnds(w) \/ BackoffEnds(w),
           NEW i \in Id, RunsWithin(i), RunsCounted(i)
    PROVE  RunsWithin(i)' /\ RunsCounted(i)'
<1>1. /\ UNCHANGED <<rows, obj, line, at, cp, sub, up, crashes, execs>>
      /\ wk[w] \in {"took", "executing", "backoff"}
      /\ \E to \in {"discard", "ended", "requeue"} :
            wk' = [wk EXCEPT ![w] = to] /\ (to = "requeue" => wk[w] = "backoff")
    BY DEF BeginCanceled, ExecuteEnds, BackoffEnds, WorkerStep, Quiet, submits, world
<1>2. /\ \A v \in Worker : v # w => wk'[v] = wk[v]
      /\ wk'[w] \in {"discard", "ended", "requeue"} /\ (wk'[w] = "requeue" => wk[w] = "backoff")
    BY <1>1 DEF Typed, WorkersTyped
<1>3. (Placed(i)' => Placed(i)) /\ (Waiting(i)' => Waiting(i))
    BY <1>1, <1>2 DEF Placed, Waiting
<1>4. \A v \in Worker : at'[v] = i /\ wk'[v] \in {"starting", "retrying", "finishing"}
                        => execs[i] <= cp'[v].attempt + crashes
    BY <1>1, <1>2 DEF RunsCounted
<1>5. Open(i)' => /\ Open(i) /\ rows'[i].attempt = rows[i].attempt
                  /\ \A v \in Worker : at[v] = i /\ wk[v] = "starting"
                                       => at'[v] = i /\ wk'[v] = "starting"
    BY <1>1, <1>2 DEF Open, Has
<1>. QED
    BY <1>1, <1>3, <1>4, <1>5, RunsStay DEF Early

LEMMA WorkRunInv ==
    ASSUME Typed, PlaceInv, PlaceInv', RunInv, NEW w \in Worker, Work(w) PROVE RunInv'
<1>1. up /\ UNCHANGED <<sub, up, crashes>>
    BY WorkMoves
<1>2. CancelsClose'
    BY WorkRows DEF callers, RunInv, CancelsClose
<1>3. lost \subseteq lost'
    BY WorkRows DEF Persist
<1>. SUFFICES ASSUME NEW i \in Id, i \notin lost' PROVE RunsWithin(i)' /\ RunsCounted(i)'
    BY <1>2 DEF RunInv
<1>4. RunsWithin(i) /\ RunsCounted(i)
    BY <1>3 DEF RunInv
<1>5. CASE Take(w) \/ Requeue(w)
    BY <1>4, <1>5, MoveRuns
<1>6. CASE Begin(w)
    BY <1>4, <1>6, BeginRuns
<1>7. CASE BeginCanceled(w) \/ ExecuteEnds(w) \/ BackoffEnds(w)
    BY <1>1, <1>4, <1>7, LookRuns
<1>8. CASE PersistRunning(w) \/ PersistRetry(w) \/ PersistFinal(w)
    <2>1. UNCHANGED <<obj, line, execs>> /\ Persist(at[w], cp[w])
        BY <1>8 DEF PersistRunning, PersistRetry, PersistFinal, memory
    <2>2. \/ /\ wk[w] = "starting" /\ wk' = [wk EXCEPT ![w] = "executing"]
             /\ UNCHANGED <<at, cp>>
          \/ /\ wk[w] = "retrying" /\ wk' = [wk EXCEPT ![w] = "backoff"]
             /\ UNCHANGED <<at, cp>>
          \/ /\ wk[w] = "finishing" /\ wk' = [wk EXCEPT ![w] = "idle"]
             /\ Rest(w)
        BY <1>8 DEF PersistRunning, PersistRetry, PersistFinal, WorkerStep
    <2>3. wk[w] \in {"starting", "retrying", "finishing"}
        BY <2>2
    <2>. QED
        BY <1>1, <1>4, <2>1, <2>2, <2>3, PersistRuns
<1>9. ASSUME wk[w] \in {"took", "ended", "discard", "backoff", "requeue"},
             NEW to \in {"finishing", "retrying"}, wk' = [wk EXCEPT ![w] = to],
             to = "retrying" => Own(w).attempt < MaxRetries,
             NEW j \in Job, j.attempt = Own(w).attempt, Leave(w, j), Quiet, UNCHANGED execs
      PROVE  RunsWithin(i)' /\ RunsCounted(i)'
    BY <1>1, <1>4, <1>9, LeaveRuns DEF Quiet
<1>10. ASSUME NEW j \in Job, NEW s \in JobStatus, NEW r \in Reason
       PROVE  /\ [j EXCEPT !.status = s, !.error = r].attempt = j.attempt
              /\ [j EXCEPT !.status = s].attempt = j.attempt
              /\ [j EXCEPT !.error = r].attempt = j.attempt
    BY DEF Job
<1>11. ASSUME NEW from \in {"took", "ended", "backoff", "requeue"}, NEW r \in Reason,
              FinishFailed(w, from, r)
       PROVE  RunsWithin(i)' /\ RunsCounted(i)'
    <2>1. Own(w) \in Job /\ "failed" \in JobStatus
        BY <1>11, OwnTyped DEF FinishFailed, WorkerStep, JobStatus
    <2>2. /\ [Own(w) EXCEPT !.status = "failed", !.error = r] \in Job
          /\ [Own(w) EXCEPT !.status = "failed", !.error = r].attempt = Own(w).attempt
        BY <1>10, <2>1, JobSet
    <2>. QED
        BY <1>9, <1>11, <2>2 DEF FinishFailed, WorkerStep
<1>12. CASE NoTool(w) \/ FinishPermanent(w) \/ FinishExhausted(w) \/ StoppedInBackoff(w)
    BY <1>11, <1>12 DEF NoTool, FinishPermanent, FinishExhausted, StoppedInBackoff, Reason
<1>13. CASE FinishDone(w) \/ FinishCanceled(w) \/ Retry(w)
    <2>1. Own(w) \in Job /\ {"done", "queued"} \subseteq JobStatus /\ {"operator", "retryable"} \subseteq Reason
        BY <1>13, OwnTyped DEF FinishDone, FinishCanceled, Retry, WorkerStep, JobStatus, Reason
    <2>2. CASE FinishDone(w)
        BY <1>9, <1>10, <2>1, <2>2, JobSet DEF FinishDone, WorkerStep
    <2>3. CASE FinishCanceled(w)
        BY <1>9, <1>10, <2>1, <2>3, JobSet DEF FinishCanceled, WorkerStep
    <2>4. CASE Retry(w)
        BY <1>9, <1>10, <2>1, <2>4, JobSet DEF Retry, WorkerStep
    <2>. QED
        BY <1>13, <2>2, <2>3, <2>4
<1>. QED
    BY <1>5, <1>6, <1>7, <1>8, <1>12, <1>13 DEF Work

\* A handler changes no count; the row a Cancel() writes is closed.
LEMMA CallRunInv == ASSUME Typed, RunInv, NEW c \in Caller, Call(c) PROVE RunInv'
<1>1. /\ UNCHANGED <<line, sub, wk, at, cp, execs, up, crashes>>
      /\ lost \subseteq lost'
    BY DEF Call, CancelPersist, AckPersist, AckStore, GetFill, CancelMark, AckMark, AckRead, GetMiss,
           Persist, memory, submits, workers, world
<1>2. CancelsClose'
    <2>1. ASSUME NEW to, NEW id, NEW j, Carry(c, to, id, j),
                 to = "cancelPersist" => j.status = "canceled"
          PROVE  CancelsClose'
        BY <2>1 DEF Carry, RunInv, CancelsClose, Typed, CallersTyped
    <2>2. ASSUME NEW id \in Id, CancelMark(c, id)
          PROVE  CancelsClose'
        <3>1. Tracked(id) \in Job
            BY <2>2 DEF CancelMark, Tracked, Typed, MemoryTyped
        <3>2. [Tracked(id) EXCEPT !.status = "canceled"].status = "canceled"
            BY <3>1 DEF Job
        <3>. QED
            BY <2>1, <2>2, <3>2 DEF CancelMark
    <2>3. CASE CancelPersist(c) \/ AckPersist(c) \/ AckStore(c) \/ GetFill(c)
        BY <2>1, <2>3 DEF CancelPersist, AckPersist, AckStore, GetFill, Answer
    <2>4. ASSUME NEW id \in Id, AckMark(c, id) \/ AckRead(c, id) \/ GetMiss(c, id)
          PROVE  CancelsClose'
        BY <2>1, <2>4 DEF AckMark, AckRead, GetMiss
    <2>. QED
        BY <2>2, <2>3, <2>4 DEF Call
<1>. SUFFICES ASSUME NEW i \in Id, i \notin lost' PROVE RunsWithin(i)' /\ RunsCounted(i)'
    BY <1>2 DEF RunInv
<1>3. RunsWithin(i) /\ RunsCounted(i)
    BY <1>1 DEF RunInv
<1>4. obj'[i].own.attempt = obj[i].own.attempt
    <2>1. ASSUME NEW id \in Id, CancelMark(c, id) \/ AckMark(c, id)
          PROVE  obj'[i].own.attempt = obj[i].own.attempt
        <3>1. PICK j \in Job : /\ obj' = [obj EXCEPT ![id][tracked[id]] = j]
                               /\ j.attempt = Tracked(id).attempt
            <4>1. tracked[id] \in {"own", "read"} /\ Tracked(id) \in Job
                BY <2>1 DEF CancelMark, AckMark, Tracked, Typed, MemoryTyped
            <4>2. /\ [Tracked(id) EXCEPT !.status = "canceled"].attempt = Tracked(id).attempt
                  /\ [Tracked(id) EXCEPT !.acked = TRUE].attempt = Tracked(id).attempt
                BY <4>1 DEF Job
            <4>3. "canceled" \in JobStatus /\ "none" \in Reason
                BY DEF JobStatus, Reason
            <4>. QED
                BY <2>1, <4>1, <4>2, <4>3, JobSet DEF CancelMark, AckMark
        <3>2. obj' = [obj EXCEPT ![id] = [obj[id] EXCEPT ![tracked[id]] = j]]
            BY <3>1
        <3>3. [obj[id] EXCEPT ![tracked[id]] = j].own.attempt = obj[id].own.attempt
            BY <3>1 DEF Tracked, Typed, MemoryTyped
        <3>. QED
            BY <3>2, <3>3 DEF Typed, MemoryTyped
    <2>2. CASE GetFill(c)
        <3>1. obj' = [obj EXCEPT ![target[c]] = [obj[target[c]] EXCEPT !.read = carried[c]]]
            BY <2>2 DEF GetFill
        <3>. QED
            BY <3>1 DEF Typed, MemoryTyped
    <2>3. ASSUME NEW id \in Id, AckRead(c, id) \/ GetMiss(c, id)
          PROVE  obj' = obj
        BY <2>3 DEF AckRead, GetMiss, memory
    <2>4. CASE CancelPersist(c) \/ AckPersist(c) \/ AckStore(c)
        BY <2>4 DEF CancelPersist, AckPersist, AckStore, memory
    <2>. QED
        BY <2>1, <2>2, <2>3, <2>4 DEF Call
<1>5. Open(i)' => Open(i) /\ rows'[i].attempt = rows[i].attempt
    <2>1. CASE CancelPersist(c)
        <3>1. carried[c] \in Job /\ carried[c].status = "canceled"
            BY <2>1 DEF CancelPersist, Answer, Typed, CallersTyped, RunInv, CancelsClose
        <3>2. [carried[c] EXCEPT !.acked = rows[i].acked].status = "canceled"
            BY <3>1 DEF Job
        <3>3. \/ rows'[i] = rows[i]
              \/ rows'[i] = [carried[c] EXCEPT !.acked = rows[i].acked]
            BY <2>1 DEF CancelPersist, Persist, Updated
        <3>. QED
            BY <3>2, <3>3 DEF Open, Has
    <2>2. CASE AckPersist(c) \/ AckStore(c)
        <3>1. \/ rows'[i] = rows[i]
              \/ rows[i] # NoRow /\ rows'[i] = [rows[i] EXCEPT !.acked = TRUE]
            BY <2>2 DEF AckPersist, AckStore, AckedRow
        <3>2. rows[i] # NoRow => /\ rows[i] \in Job
                                 /\ [rows[i] EXCEPT !.acked = TRUE].attempt = rows[i].attempt
                                 /\ [rows[i] EXCEPT !.acked = TRUE].status = rows[i].status
            BY DEF Typed, TableTyped, Rows, Job
        <3>. QED
            BY <3>1, <3>2 DEF Open, Has
    <2>3. CASE ~(CancelPersist(c) \/ AckPersist(c) \/ AckStore(c))
        <3>1. rows' = rows
            BY <2>3 DEF Call, GetFill, CancelMark, AckMark, AckRead, GetMiss
        <3>. QED
            BY <3>1 DEF Open, Has
    <2>. QED
        BY <2>1, <2>2, <2>3
<1>6. (Placed(i)' => Placed(i)) /\ (Waiting(i)' => Waiting(i)) /\ (Early(i)' => Early(i))
    BY <1>1 DEF Placed, Waiting, Early
<1>7. \A v \in Worker : at'[v] = i /\ wk'[v] \in {"starting", "retrying", "finishing"}
                        => execs[i] <= cp'[v].attempt + crashes
    BY <1>1, <1>3 DEF RunsCounted
<1>. QED
    BY <1>1, <1>3, <1>4, <1>5, <1>6, <1>7, RunsStay

\* A crash loses the attempt that no row counts yet, and is itself counted.
LEMMA CrashRunInv == ASSUME Typed, RunInv, Crash PROVE RunInv'
<1>1. /\ crashes' = crashes + 1 /\ line' = <<>> /\ UNCHANGED <<rows, execs, lost>>
      /\ \A w \in Worker : wk'[w] = "idle" /\ at'[w] = NoId
      /\ \A c \in Caller : cl'[c] = "idle"
      /\ \A id \in Id : sub'[id] = sub[id] \/ sub'[id] = "broken"
    BY DEF Crash
<1>2. CancelsClose'
    BY <1>1 DEF CancelsClose
<1>3. Ids(<<>>) = {}
    BY DEF Ids
<1>4. ASSUME NEW i \in Id \ lost PROVE RunsWithin(i)' /\ RunsCounted(i)'
    <2>1. RunsWithin(i) /\ RunsCounted(i)
        BY DEF RunInv
    <2>2. /\ Cap \in Nat /\ crashes \in Nat /\ execs[i] \in Nat
          /\ Has(i) => rows[i].attempt \in Nat
        BY Counts
    <2>3. ~Placed(i)' /\ ~\E w \in Worker : at'[w] = i
        BY <1>1, <1>3, QueueAssumption DEF Placed
    <2>4. RunsWithin(i)'
        BY <1>1, <2>1, <2>2 DEF RunsWithin, Cap
    <2>5. Open(i)' => /\ execs'[i] <= rows'[i].attempt + crashes'
                      /\ execs'[i] <= rows'[i].attempt + crashes' + 1
        BY <1>1, <2>1, <2>2 DEF RunsCounted, Open, Has
    <2>. QED
        BY <2>3, <2>4, <2>5 DEF RunsCounted
<1>. QED
    BY <1>1, <1>2, <1>4 DEF RunInv

\* What Resume() queues has the count of its row.
LEMMA RestartRunInv == ASSUME Typed, PlaceInv, RunInv, Restart PROVE RunInv'
<1>1. /\ ~up /\ up' /\ UNCHANGED <<rows, sub, wk, at, cp, execs, cl, carried, crashes, lost>>
      /\ \A w \in Worker : at[w] = NoId
    BY DEF Restart, submits, workers, callers, PlaceInv, DownEmpty
<1>2. CancelsClose'
    BY <1>1 DEF RunInv, CancelsClose
<1>3. PICK S \in {Incomplete(rows)} \union (IF StoreFails THEN {{}} ELSE {}) :
          /\ obj' = [i \in Id |-> IF i \in S
                                  THEN [Start EXCEPT !.own = [rows[i] EXCEPT !.status = "queued"]]
                                  ELSE Start]
          /\ line' \in {s \in [1..Cardinality(S) -> S] : \A i \in S : \E n \in DOMAIN s : s[n] = i}
    BY DEF Restart
<1>4. S \subseteq Id /\ \A i \in S : rows[i] \in Job /\ Open(i)
    BY <1>3 DEF Incomplete, Stored, Has, Open, Typed, TableTyped, Rows
<1>5. Ids(line') = S
    BY <1>3, <1>4, OnceLoaded
<1>6. ASSUME NEW i \in Id \ lost PROVE RunsWithin(i)' /\ RunsCounted(i)'
    <2>1. RunsWithin(i) /\ RunsCounted(i)
        BY DEF RunInv
    <2>2. RunsWithin(i)'
        BY <1>1, <2>1 DEF RunsWithin, Cap
    <2>3. ~\E w \in Worker : at[w] = i
        BY <1>1, QueueAssumption
    <2>4. Open(i) => execs[i] <= rows[i].attempt + crashes
        BY <2>1, <2>3 DEF RunsCounted
    <2>5. Placed(i)' => i \in S
        BY <1>1, <1>5, <2>3 DEF Placed
    <2>6. i \in S => obj'[i].own.attempt = rows[i].attempt
        <3>1. ASSUME i \in S PROVE [rows[i] EXCEPT !.status = "queued"].attempt = rows[i].attempt
            BY <1>4, <3>1 DEF Job
        <3>2. ASSUME i \in S PROVE obj'[i].own = [rows[i] EXCEPT !.status = "queued"]
            BY <1>3, <3>2 DEF Start
        <3>. QED
            BY <3>1, <3>2
    <2>7. Open(i)' => Open(i)
        BY <1>1 DEF Open, Has
    <2>8. Open(i)' => execs'[i] <= rows'[i].attempt + crashes' + 1
        BY <1>1, <2>1, <2>7 DEF RunsCounted
    <2>. QED
        BY <1>1, <1>4, <2>2, <2>3, <2>4, <2>5, <2>6, <2>7, <2>8 DEF RunsCounted
<1>. QED
    BY <1>1, <1>2, <1>6 DEF RunInv

LEMMA RunInvariant == Spec => []RunInv
<1>1. ASSUME RunInv, Typed, Stop \/ UNCHANGED vars PROVE RunInv'
    <2>1. UNCHANGED <<rows, obj, line, sub, wk, at, cp, execs, cl, carried, up, crashes, lost>>
        BY <1>1 DEF Stop, vars, memory, submits, workers, callers, world
    <2>. QED
        BY <1>1, <2>1 DEF RunInv, CancelsClose, RunsWithin, RunsCounted, Waiting, Placed, Open, Has, Cap
<1>2. Typed /\ Backed /\ PlaceInv /\ PlaceInv' /\ RunInv /\ [Next]_vars => RunInv'
    BY <1>1, SubmitRunInv, WorkRunInv, CallRunInv, CrashRunInv, RestartRunInv DEF Next
<1>. QED
    BY <1>2, InitRunInv, TypedInvariant, BackedInvariant, PlaceInvariant, PTL DEF Spec

\* Whatever the order of retries, cancels, crashes and restarts, a job is begun at most
\* MaxRetries times, or once, and once more for every crash: each attempt but the last is
\* counted in a row before it can be queued again.
THEOREM RunsBounded == Spec => []ExecutionBound
<1>1. RunInv => ExecutionBound
    BY DEF RunInv, RunsWithin, ExecutionBound, Cap
<1>. QED
    BY <1>1, RunInvariant, PTL
=============================================================================
