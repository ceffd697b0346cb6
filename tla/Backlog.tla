------------------------------- MODULE Backlog -------------------------------
(***************************************************************************)
(* The desk's admission backlog and hand-off to the workers                *)
(* (src/cmd/agent-desk/queue.go: reserve, release, enqueueReserved,        *)
(* requeue, signalWake, dispatch, Resume, Start, Stop, worker).            *)
(*                                                                         *)
(* A job travels  pending (a slice, under q.mu)  ->  the dispatcher's      *)
(* local variable  ->  ch (a buffered channel)  ->  a worker.  This module *)
(* models who holds each job and who waits for whom; what a worker does    *)
(* with a job, and what is written to the store, is modelled elsewhere.    *)
(* Every step of a goroutine that another goroutine can observe is an      *)
(* action: the test of q.stop, the critical section and the signal on      *)
(* q.wake of one call are three steps.                                     *)
(***************************************************************************)
EXTENDS Naturals, Sequences, FiniteSets

CONSTANTS Job,         \* every job the process ever holds
          Resumed,     \* the jobs LoadIncomplete returns at startup
          Worker,      \* the worker goroutines
          MaxPending,  \* maxPending
          ChanCap,     \* the capacity of ch
          MaxRetries,  \* MaxRetries of every job
          NoJob        \* nil

ASSUME JobAssumption ==
    /\ IsFiniteSet(Job)
    /\ Resumed \subseteq Job
    /\ NoJob \notin Job
\* NewQueue clamps workers to at least one; Start() launches that many goroutines.
ASSUME WorkerAssumption == IsFiniteSet(Worker) /\ Worker # {}
ASSUME BoundAssumption ==
    /\ MaxPending \in Nat \ {0}
    /\ ChanCap \in Nat \ {0}
    /\ MaxRetries \in Nat

VARIABLES pending,   \* q.pending
          reserved,  \* q.reserved
          wake,      \* a token is buffered in q.wake
          ch,        \* the jobs buffered in q.ch
          stopped,   \* q.stop is closed
          disp,      \* where dispatch() is
          hand,      \* dispatch()'s local job
          sub,       \* where each submit() is
          loading,   \* the jobs Resume() has still to requeue
          resume,    \* where Resume() is
          wk,        \* where each worker is
          job,       \* the job each worker holds
          attempt,   \* Attempt of each job
          finished   \* the jobs a worker has finished

callers == <<sub, loading, resume>>
workers == <<wk, job, attempt, finished>>
vars == <<pending, reserved, wake, ch, stopped, disp, hand, callers, workers>>

\* The jobs that enter through submit().
Fresh == Job \ Resumed

\* The elements of a sequence.
Elems(s) == {s[i] : i \in DOMAIN s}

TypeOK ==
    /\ pending \in Seq(Job)
    /\ reserved \in Nat
    /\ wake \in BOOLEAN
    /\ ch \in Seq(Job) /\ Len(ch) <= ChanCap
    /\ stopped \in BOOLEAN
    /\ disp \in {"scan", "park", "send", "exit"}
    /\ hand \in Job \union {NoJob}
    /\ sub \in [Fresh -> {"idle", "admit", "insert", "signal", "accepted", "refused"}]
    /\ loading \in Seq(Resumed)
    /\ resume \in {"check", "append", "signal", "return"}
    /\ wk \in [Worker -> {"idle", "took", "run", "backoff", "append", "signal", "exit"}]
    /\ job \in [Worker -> Job \union {NoJob}]
    /\ attempt \in [Job -> Nat]
    /\ finished \subseteq Job

\* Start() launches the goroutines before Resume() runs.  LoadIncomplete
\* returns the old jobs in the order of their creation, or fails; then main
\* only logs the failure and serves.
Init ==
    /\ pending = <<>> /\ reserved = 0 /\ wake = FALSE /\ ch = <<>>
    /\ stopped = FALSE
    /\ disp = "scan" /\ hand = NoJob
    /\ sub = [j \in Fresh |-> "idle"]
    /\ loading \in {s \in [1..Cardinality(Resumed) -> Resumed] : Elems(s) = Resumed}
                   \union {<<>>}
    /\ resume = "check"
    /\ wk = [w \in Worker |-> "idle"]
    /\ job = [w \in Worker |-> NoJob]
    /\ attempt \in {a \in [Job -> 0..MaxRetries] : \A j \in Fresh : a[j] = 0}
    /\ finished = {}

------------------------------------------------------------------------------
(* The submitters.  A handler runs only once Resume() has returned: main     *)
(* calls it before it listens.                                              *)

SubmitStep(j, from, to) == sub[j] = from /\ sub' = [sub EXCEPT ![j] = to]

\* reserve(): the test of q.stop, outside the lock.
ReserveCheck(j) ==
    /\ resume = "return"
    /\ SubmitStep(j, "idle", IF stopped THEN "refused" ELSE "admit")
    /\ UNCHANGED <<pending, reserved, wake, ch, stopped, disp, hand, loading, resume, workers>>

\* Fault: the cap forgets the slots that are promised.
ReserveUncounted(j) ==
    /\ IF Len(pending) >= MaxPending
       THEN SubmitStep(j, "admit", "refused") /\ UNCHANGED reserved
       ELSE SubmitStep(j, "admit", "insert") /\ reserved' = reserved + 1
    /\ UNCHANGED <<pending, wake, ch, stopped, disp, hand, loading, resume, workers>>

\* reserve(): the critical section.
Reserve(j) ==
    /\ IF Len(pending) + reserved >= MaxPending
       THEN SubmitStep(j, "admit", "refused") /\ UNCHANGED reserved
       ELSE SubmitStep(j, "admit", "insert") /\ reserved' = reserved + 1
    /\ UNCHANGED <<pending, wake, ch, stopped, disp, hand, loading, resume, workers>>

GiveBack == reserved' = IF reserved > 0 THEN reserved - 1 ELSE reserved

\* Fault: the error path keeps its slot.
ReleaseLeak(j) ==
    /\ SubmitStep(j, "insert", "refused")
    /\ UNCHANGED <<pending, reserved, wake, ch, stopped, disp, hand, loading, resume, workers>>

\* The store failed, or the idempotency key named a job that exists.
Release(j) ==
    /\ SubmitStep(j, "insert", "refused")
    /\ GiveBack
    /\ UNCHANGED <<pending, wake, ch, stopped, disp, hand, loading, resume, workers>>

EnqueueReserved(j) ==
    /\ SubmitStep(j, "insert", "signal")
    /\ GiveBack
    /\ pending' = Append(pending, j)
    /\ UNCHANGED <<wake, ch, stopped, disp, hand, loading, resume, workers>>

\* signalWake() at the end of enqueueReserved: a full buffer drops the token.
SubmitSignal(j) ==
    /\ SubmitStep(j, "signal", "accepted")
    /\ wake' = TRUE
    /\ UNCHANGED <<pending, reserved, ch, stopped, disp, hand, loading, resume, workers>>

------------------------------------------------------------------------------
(* Resume() on the main goroutine: requeue() for each loaded job.            *)

ResumeCheck ==
    /\ resume = "check"
    /\ resume' = IF loading = <<>> \/ stopped THEN "return" ELSE "append"
    /\ UNCHANGED <<pending, reserved, wake, ch, stopped, disp, hand, sub, loading, workers>>

ResumeAppend ==
    /\ resume = "append" /\ resume' = "signal"
    /\ pending' = Append(pending, Head(loading))
    /\ loading' = Tail(loading)
    /\ UNCHANGED <<reserved, wake, ch, stopped, disp, hand, sub, workers>>

ResumeSignal ==
    /\ resume = "signal" /\ resume' = "check"
    /\ wake' = TRUE
    /\ UNCHANGED <<pending, reserved, ch, stopped, disp, hand, sub, loading, workers>>

------------------------------------------------------------------------------
(* The dispatcher, the only sender on ch.                                    *)

\* Fault: the job handed off is not cut from the slice.
DispatchScanKeeps ==
    /\ disp = "scan"
    /\ IF pending = <<>>
       THEN disp' = "park" /\ UNCHANGED hand
       ELSE disp' = "send" /\ hand' = Head(pending)
    /\ UNCHANGED <<pending, reserved, wake, ch, stopped, callers, workers>>

DispatchScan ==
    /\ disp = "scan"
    /\ IF pending = <<>>
       THEN disp' = "park" /\ UNCHANGED <<pending, hand>>
       ELSE disp' = "send" /\ hand' = Head(pending) /\ pending' = Tail(pending)
    /\ UNCHANGED <<reserved, wake, ch, stopped, callers, workers>>

DispatchWake ==
    /\ disp = "park" /\ wake
    /\ disp' = "scan" /\ wake' = FALSE
    /\ UNCHANGED <<pending, reserved, ch, stopped, hand, callers, workers>>

\* Fault: the channel is used as if it never filled.
DispatchSendUnbounded ==
    /\ disp = "send"
    /\ ch' = Append(ch, hand)
    /\ disp' = "scan" /\ hand' = NoJob
    /\ UNCHANGED <<pending, reserved, wake, stopped, callers, workers>>

DispatchSend ==
    /\ disp = "send" /\ Len(ch) < ChanCap
    /\ ch' = Append(ch, hand)
    /\ disp' = "scan" /\ hand' = NoJob
    /\ UNCHANGED <<pending, reserved, wake, stopped, callers, workers>>

\* Fault: the send on ch has no escape through q.stop.
DispatchExitParked ==
    /\ disp = "park" /\ stopped
    /\ disp' = "exit"
    /\ UNCHANGED <<pending, reserved, wake, ch, stopped, hand, callers, workers>>

\* A job still in hand stays "queued" in the store; hand keeps it here so
\* that it is accounted for.
DispatchExit ==
    /\ disp \in {"park", "send"} /\ stopped
    /\ disp' = "exit"
    /\ UNCHANGED <<pending, reserved, wake, ch, stopped, hand, callers, workers>>

------------------------------------------------------------------------------
(* The workers.                                                              *)

WorkerStep(w, from, to) == wk[w] = from /\ wk' = [wk EXCEPT ![w] = to]

Receive(w) ==
    /\ WorkerStep(w, "idle", "took")
    /\ ch # <<>>
    /\ job' = [job EXCEPT ![w] = Head(ch)] /\ ch' = Tail(ch)
    /\ UNCHANGED <<pending, reserved, wake, stopped, disp, hand, callers, attempt, finished>>

\* The job is neither canceled nor of a tool that is gone: it is executed.
Execute(w) ==
    /\ WorkerStep(w, "took", "run")
    /\ attempt' = [attempt EXCEPT ![job[w]] = @ + 1]
    /\ UNCHANGED <<pending, reserved, wake, ch, stopped, disp, hand, callers, job, finished>>

\* finish() or finishCanceled(), then back to the loop of worker().
Finished(w, from) ==
    /\ WorkerStep(w, from, "idle")
    /\ job' = [job EXCEPT ![w] = NoJob]
    /\ finished' = finished \union {job[w]}
    /\ UNCHANGED <<pending, reserved, wake, ch, stopped, disp, hand, callers, attempt>>

\* process() drops a job that was canceled or has no tool, or ends an attempt.
Finish(w) == Finished(w, "took") \/ Finished(w, "run")

\* The attempt failed in a way that is worth a retry.
Retry(w) ==
    /\ WorkerStep(w, "run", "backoff")
    /\ attempt[job[w]] < MaxRetries
    /\ UNCHANGED <<pending, reserved, wake, ch, stopped, disp, hand, callers, job, attempt, finished>>

\* The timer fired, and requeue() finds q.stop open.
BackoffEnds(w) ==
    /\ WorkerStep(w, "backoff", "append")
    /\ ~stopped
    /\ UNCHANGED <<pending, reserved, wake, ch, stopped, disp, hand, callers, job, attempt, finished>>

\* The job was canceled during the backoff, or q.stop was closed: seen by the
\* select of the backoff or by requeue().
BackoffDrops(w) == Finished(w, "backoff")

\* Fault: a retry is dropped when the backlog is at its cap.
RequeueCapped(w) ==
    /\ WorkerStep(w, "append", "signal")
    /\ pending' = IF Len(pending) < MaxPending THEN Append(pending, job[w]) ELSE pending
    /\ job' = [job EXCEPT ![w] = NoJob]
    /\ UNCHANGED <<reserved, wake, ch, stopped, disp, hand, callers, attempt, finished>>

\* Fault: a retry goes to the head of the backlog.
RequeueFirst(w) ==
    /\ WorkerStep(w, "append", "signal")
    /\ pending' = <<job[w]>> \o pending
    /\ job' = [job EXCEPT ![w] = NoJob]
    /\ UNCHANGED <<reserved, wake, ch, stopped, disp, hand, callers, attempt, finished>>

\* Fault: the worker sends its retry on ch itself.
RequeueSends(w) ==
    /\ WorkerStep(w, "append", "signal")
    /\ Len(ch) < ChanCap /\ ch' = Append(ch, job[w])
    /\ job' = [job EXCEPT ![w] = NoJob]
    /\ UNCHANGED <<pending, reserved, wake, stopped, disp, hand, callers, attempt, finished>>

RequeueAppend(w) ==
    /\ WorkerStep(w, "append", "signal")
    /\ pending' = Append(pending, job[w])
    /\ job' = [job EXCEPT ![w] = NoJob]
    /\ UNCHANGED <<reserved, wake, ch, stopped, disp, hand, callers, attempt, finished>>

\* Fault: a retry does not wake the dispatcher.
RequeueSilent(w) ==
    /\ WorkerStep(w, "signal", "idle")
    /\ UNCHANGED <<pending, reserved, wake, ch, stopped, disp, hand, callers, job, attempt, finished>>

RequeueSignal(w) ==
    /\ WorkerStep(w, "signal", "idle")
    /\ wake' = TRUE
    /\ UNCHANGED <<pending, reserved, ch, stopped, disp, hand, callers, job, attempt, finished>>

WorkerExit(w) ==
    /\ WorkerStep(w, "idle", "exit")
    /\ stopped
    /\ UNCHANGED <<pending, reserved, wake, ch, stopped, disp, hand, callers, job, attempt, finished>>

------------------------------------------------------------------------------

\* Stop() closes q.stop and waits for the goroutines; see StopReturns.
Stop ==
    /\ ~stopped
    /\ stopped' = TRUE
    /\ UNCHANGED <<pending, reserved, wake, ch, disp, hand, callers, workers>>

AllExited == disp = "exit" /\ \A w \in Worker : wk[w] = "exit"

Submit(j) == \/ ReserveCheck(j) \/ Reserve(j) \/ Release(j)
             \/ EnqueueReserved(j) \/ SubmitSignal(j)
Resume == ResumeCheck \/ ResumeAppend \/ ResumeSignal
Dispatch == DispatchScan \/ DispatchWake \/ DispatchSend \/ DispatchExit
Work(w) == \/ Receive(w) \/ Execute(w) \/ Finish(w) \/ Retry(w) \/ BackoffEnds(w)
           \/ BackoffDrops(w) \/ RequeueAppend(w) \/ RequeueSignal(w) \/ WorkerExit(w)

Next == \/ \E j \in Fresh : Submit(j)
        \/ Resume
        \/ Dispatch
        \/ \E w \in Worker : Work(w)
        \/ Stop

Spec == Init /\ [][Next]_vars

\* The Go scheduler runs every goroutine that is not blocked.  A submit() that
\* was called goes on; that one is called, and that Stop() is, is not assumed.
\* Work(w) is fair as a whole: an attempt ends, by the tool's timeout.
Fairness ==
    /\ \A j \in Fresh : WF_vars(sub[j] # "idle" /\ Submit(j))
    /\ WF_vars(Resume)
    /\ WF_vars(Dispatch)
    /\ \A w \in Worker : WF_vars(Work(w))

FairSpec == Spec /\ Fairness
-----------------------------------------------------------------------------
(* Properties.                                                               *)

\* The jobs waiting for a worker, the next one first.
Line == ch \o (IF hand = NoJob THEN <<>> ELSE <<hand>>) \o pending

Busy == {job[w] : w \in Worker} \ {NoJob}

\* The submits that hold a slot while they write to the store.
SlotHolders == {j \in Fresh : sub[j] = "insert"}

\* Every slot that is counted belongs to a submit() that is at the store: none
\* leaks when the write fails or dedupes, none is given back twice (the guard
\* "reserved > 0" of release and enqueueReserved never hides one).
SlotsAccounted == reserved = Cardinality(SlotHolders)

\* maxPending bounds the jobs admitted and not yet handed off, the ones being
\* written included, however many submits run at once; retries and resumed
\* jobs, which bypass the cap, are not counted against it.
FreshPending == {j \in Fresh : attempt[j] = 0 /\ j \in Elems(pending)}
AdmissionCap == Cardinality(FreshPending) + reserved <= MaxPending

\* A job is held once: by Resume(), by one place of the line, by one worker, or
\* finished.  Two holders would be two executions of one attempt.
Distinct(s) == \A m, n \in DOMAIN s : s[m] = s[n] => m = n
OneHolder ==
    /\ Distinct(loading \o Line)
    /\ \A v, w \in Worker : job[v] = job[w] /\ job[v] # NoJob => v = w
    /\ Elems(loading \o Line) \intersect Busy = {}
    /\ finished \intersect (Elems(loading \o Line) \union Busy) = {}

\* The dispatcher never sleeps on a backlog that no one will tell it of: the
\* signal of a submit, a retry or a resume comes after the lock is released,
\* and a token dropped because one is buffered is no token lost.
Signalling == \/ \E j \in Fresh : sub[j] = "signal"
              \/ resume = "signal"
              \/ \E w \in Worker : wk[w] = "signal"
NoLostWakeup == disp = "park" /\ pending # <<>> => wake \/ Signalling

\* A job that was accepted or loaded is never dropped: each step leaves it in the
\* line, with a worker or finished, a stop in the middle of a hand-off included.
Tracked == Elems(loading \o Line) \union Busy \union finished
NothingDropped == [][Tracked \subseteq Tracked']_vars

\* Every job the desk holds is finished unless the queue is stopped: no retry
\* blocks a worker while ch is full, no job waits in the backlog for ever.
HeldJobFinishes == \A j \in Job : j \in Tracked ~> j \in finished \/ stopped

\* Stop() returns: once q.stop is closed the dispatcher and every worker exit,
\* whatever they were waiting for.
StopReturns == stopped ~> AllExited

\* The slice, the dispatcher and the channel together are one first-come
\* first-served line, which no more than MaxPending + ChanCap + 1 new jobs wait in.
Abstract == INSTANCE JobLine WITH
    New <- Fresh, Capacity <- MaxPending + ChanCap + 1,
    line <- Line, slots <- reserved, busy <- Busy, done <- finished,
    seen <- {j \in Fresh : attempt[j] > 0 \/ j \in Busy \union finished}
LineSpec == Abstract!LineSpec
=============================================================================
