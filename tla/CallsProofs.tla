------------------------------ MODULE CallsProofs ------------------------------
(***************************************************************************)
(* Theorems about Calls: what a client was told of a job stands, with a    *)
(* store that may fail, and the answer to a batch names its jobs, with a   *)
(* store that does not; for any jobs, batch, workers, callers and bounds.  *)
(*                                                                         *)
(* A step of Calls is a step of JobQueue, leaves its state alone, or is    *)
(* the second half of a wait's lookup, which puts a row in q.jobs as       *)
(* GetFill does.  So the invariants of JobQueue are taken over, and shown  *)
(* to survive that one step more.                                          *)
(***************************************************************************)
EXTENDS Calls, StoreProofs

------------------------------------------------------------------------------
(* The invariants of JobQueue under the steps of Calls.                      *)

\* A lookup puts j in q.jobs.
Fill(id, j) ==
    /\ up
    /\ tracked' = [tracked EXCEPT ![id] = "read"]
    /\ obj' = [obj EXCEPT ![id].read = j]
    /\ UNCHANGED <<rows, line, stopped, toolGone, submits, workers, callers, world, lost>>

LEMMA CallsSteps ==
    ASSUME [CallsNext]_allVars
    PROVE  [Next]_vars \/ \E i \in Id : WaitFill(i)
BY DEF CallsNext, allVars, Batch, BatchBegin, BatchNext, BatchAccepted, BatchRefused, Desk, CallsCrash,
       Wait, WaitBegin, WaitTold, WaitElapsed, WaitMiss, Next

Base == Typed /\ Backed /\ PlaceInv /\ OutcomeInv

LEMMA BaseNext == ASSUME Base, [Next]_vars PROVE Base'
<1>1. Typed' /\ Backed'
    BY TypedStep, BackedStep DEF Base
<1>2. PlaceInv'
    BY PlaceStep DEF Base
<1>3. OutcomeInv'
    BY <1>2, OutcomeStep DEF Base
<1>. QED
    BY <1>1, <1>2, <1>3 DEF Base

\* A row that is put in q.jobs is no worker's job, and moves none.
LEMMA FillObj ==
    ASSUME Typed, NEW id \in Id, NEW j \in Job, Fill(id, j)
    PROVE  /\ obj' \in [Id -> [own : Job, read : Job]]
           /\ \A i \in Id : obj'[i].own = obj[i].own
           /\ obj'[id].read = j
           /\ \A i \in Id : i # id => obj'[i] = obj[i] /\ tracked'[i] = tracked[i]
           /\ tracked'[id] = "read"
<1>1. obj \in [Id -> [own : Job, read : Job]] /\ tracked \in [Id -> {"none", "own", "read"}]
    BY DEF Typed, MemoryTyped
<1>2. [obj[id] EXCEPT !.read = j] \in [own : Job, read : Job]
    BY <1>1
<1>3. /\ [obj[id] EXCEPT !.read = j].own = obj[id].own
      /\ [obj[id] EXCEPT !.read = j].read = j
    BY <1>1
<1>4. obj' = [obj EXCEPT ![id] = [obj[id] EXCEPT !.read = j]]
    BY DEF Fill
<1>. QED
    BY <1>1, <1>2, <1>3, <1>4 DEF Fill

LEMMA BaseFill ==
    ASSUME Base, NEW id \in Id, NEW j \in Job, Has(id), Fill(id, j) PROVE Base'
<1>1. /\ tracked' \in [Id -> {"none", "own", "read"}]
      /\ UNCHANGED <<rows, line, stopped, toolGone, sub, dup, reply, wk, at, cp, execs, cl, target,
                     carried, canceled, acked, up, crashes, lost>>
    BY DEF Base, Typed, MemoryTyped, Fill, submits, workers, callers, world
<1>2. Typed'
    BY <1>1, FillObj DEF Base, Typed, TableTyped, MemoryTyped, SubmitsTyped, WorkersTyped,
                         CallersTyped, WorldTyped
<1>3. Backed'
    <2>1. \A i \in Id : tracked'[i] # "none" => Has(i)
        BY FillObj DEF Base, Backed
    <2>. QED
        BY <1>1, <2>1 DEF Base, Backed, OneRowPerKey, SubmitsBacked, CallersBacked, AckDurable, Has
<1>4. PlaceInv'
    BY <1>1 DEF Base, PlaceInv, OneWorker, Apart, NotYet, Placed, DownEmpty
<1>5. OutcomeInv'
    BY <1>1, FillObj DEF Base, OutcomeInv, Unfinished, Early
<1>. QED
    BY <1>2, <1>3, <1>4, <1>5 DEF Base

------------------------------------------------------------------------------
(* The answers.  A submit() answers once, an item of the batch with its own  *)
(* id, and who waits for a job has its id from an answer.                    *)

CallsTyped ==
    /\ batch \in {"idle", "running", "answered", "broken"} /\ jobs \in Seq(Id)
    /\ wt \in [Id -> {"idle", "asking", "fill", "answered"}]
    /\ row \in [Id -> Job]
    /\ told \in [Id -> JobStatus \union {NotTold}]

Replied == \A i \in Id : reply[i] # NoId <=> sub[i] = "done"

\* A job without a key is never found to be another's.
Keyless == \A i \in Id : KeyOf[i] = NoKey => sub[i] # "dedupe" /\ reply[i] \in {NoId, i}

WaitsKnown == \A i \in Id : /\ wt[i] # "idle" => reply[i] # NoId
                            /\ told[i] # NotTold => wt[i] = "answered"

\* The items are submitted in their order, up to the one that is refused.
BatchInOrder ==
    /\ Len(jobs) <= Len(Items)
    /\ \A n \in 1..Len(jobs) : jobs[n] = Items[n] /\ sub[Items[n]] = "done"
    /\ \A n \in 1..Len(Items) : n > Len(jobs) + 1 \/ batch = "idle" => sub[Items[n]] = "idle"
    /\ batch = "answered" => jobs = Items \/ sub[Next1] = "refused"

AnswersInv == CallsTyped /\ Replied /\ Keyless /\ WaitsKnown /\ BatchInOrder

LEMMA ItemsType ==
    /\ Len(Items) \in Nat
    /\ \A n \in 1..Len(Items) : Items[n] \in Id /\ Items[n] \in Range(Items) /\ KeyOf[Items[n]] = NoKey
    /\ \A m, n \in 1..Len(Items) : Items[m] = Items[n] => m = n
    /\ \A i \in Range(Items) : \E n \in 1..Len(Items) : i = Items[n]
<1>1. Items \in Seq(Id) /\ DOMAIN Items = 1..Len(Items)
    BY CallsAssumption
<1>. QED
    BY <1>1, CallsAssumption DEF Range, IsInjective

\* While an item is left, the next one has a place in the batch.
LEMMA NextItem ==
    ASSUME CallsTyped, BatchInOrder, jobs # Items
    PROVE  Len(jobs) \in Nat /\ Len(jobs) + 1 \in 1..Len(Items)
<1>1. Len(jobs) \in Nat /\ jobs \in Seq(Id) /\ Items \in Seq(Id)
    BY CallsAssumption DEF CallsTyped
<1>2. Len(jobs) # Len(Items)
    <2>. SUFFICES ASSUME Len(jobs) = Len(Items) PROVE jobs = Items
        OBVIOUS
    <2>. QED
        BY <1>1 DEF BatchInOrder
<1>. QED
    BY <1>1, <1>2, ItemsType DEF BatchInOrder

\* A submit() leaves the others alone, and its own answer once it has given it.
LEMMA SubmitAnswers ==
    ASSUME Typed, Replied, Keyless, NEW id \in Id, Submit(id)
    PROVE  /\ Replied' /\ Keyless'
           /\ \A i \in Id : /\ i # id => sub'[i] = sub[i]
                            /\ sub[i] \in {"done", "refused"} => sub'[i] = sub[i]
                            /\ reply[i] # NoId => reply'[i] = reply[i]
<1>. USE DEF SubmitStep
<1>1. /\ sub \in [Id -> {"idle", "insert", "track", "enqueue", "dedupe", "done", "refused", "broken"}]
      /\ reply \in [Id -> Id \union {NoId}] /\ NoId \notin Id
    BY QueueAssumption DEF Typed, SubmitsTyped
<1>2. CASE SubmitBegin(id) \/ SubmitInsertFails(id) \/ SubmitTrack(id)
    <2>1. reply' = reply /\ sub[id] \in {"idle", "insert", "track"}
        BY <1>2 DEF SubmitBegin, SubmitInsertFails, SubmitTrack
    <2>2. /\ \A i \in Id : i # id => sub'[i] = sub[i]
          /\ sub'[id] \in {"insert", "refused", "enqueue"}
        BY <1>1, <1>2 DEF SubmitBegin, SubmitInsertFails, SubmitTrack
    <2>. QED
        BY <2>1, <2>2 DEF Replied, Keyless
<1>3. CASE SubmitInsert(id)
    <2>1. /\ reply' = reply /\ sub[id] = "insert"
          /\ \A i \in Id : i # id => sub'[i] = sub[i]
          /\ sub'[id] \in {"track", "dedupe"}
          /\ sub'[id] = "dedupe" => Owners(rows, id) # {}
        BY <1>1, <1>3 DEF SubmitInsert
    <2>2. sub'[id] = "dedupe" => KeyOf[id] # NoKey
        BY <2>1 DEF Owners
    <2>. QED
        BY <2>1, <2>2 DEF Replied, Keyless
<1>4. CASE SubmitEnqueue(id) \/ SubmitDedupe(id)
    <2>1. PICK k \in Id : /\ reply' = [reply EXCEPT ![id] = k]
                          /\ sub[id] = "dedupe" \/ k = id
        <3>1. SubmitDedupe(id) => dup[id][1] \in Id
            BY DEF SubmitDedupe, Typed, SubmitsTyped
        <3>. QED
            BY <1>4, <3>1 DEF SubmitEnqueue, SubmitDedupe
    <2>2. sub[id] \in {"enqueue", "dedupe"} /\ sub' = [sub EXCEPT ![id] = "done"]
        BY <1>4 DEF SubmitEnqueue, SubmitDedupe
    <2>3. reply[id] = NoId
        BY <2>2 DEF Replied
    <2>. QED
        BY <1>1, <2>1, <2>2, <2>3 DEF Replied, Keyless
<1>. QED
    BY <1>2, <1>3, <1>4 DEF Submit

\* No other step answers a submit(), and a crash breaks off those that have not.
LEMMA OthersAnswer ==
    ASSUME Typed, [Next]_vars \/ \E i \in Id : WaitFill(i), ~\E id \in Id : Submit(id)
    PROVE  reply' = reply /\ (sub' = sub \/ Crash)
<1>1. ASSUME NEW w \in Worker, Work(w) PROVE UNCHANGED submits
    BY <1>1, WorkRows
<1>2. ASSUME NEW c \in Caller, Call(c) PROVE UNCHANGED submits
    BY <1>2 DEF Call, CancelPersist, AckPersist, AckStore, GetFill, CancelMark, AckMark, AckRead, GetMiss
<1>3. CASE Stop \/ Restart \/ UNCHANGED vars \/ \E i \in Id : WaitFill(i)
    BY <1>3 DEF Stop, Restart, vars, WaitFill, submits
<1>4. CASE Crash
    BY <1>4 DEF Crash
<1>. QED
    BY <1>1, <1>2, <1>3, <1>4 DEF Next, submits

LEMMA AnswersStay ==
    ASSUME Typed, Replied, Keyless, [Next]_vars \/ \E i \in Id : WaitFill(i)
    PROVE  /\ Replied' /\ Keyless'
           /\ \A i \in Id : /\ sub[i] \in {"done", "refused"} => sub'[i] = sub[i]
                            /\ reply[i] # NoId => reply'[i] = reply[i]
<1>1. CASE \E id \in Id : Submit(id)
    BY <1>1, SubmitAnswers
<1>2. CASE ~\E id \in Id : Submit(id)
    <2>1. reply' = reply /\ (sub' = sub \/ Crash)
        BY <1>2, OthersAnswer
    <2>2. \A i \in Id : \/ sub'[i] = sub[i]
                        \/ sub'[i] = "broken" /\ sub[i] \in {"insert", "track", "enqueue", "dedupe"}
        BY <2>1 DEF Crash
    <2>. QED
        BY <2>1, <2>2 DEF Replied, Keyless
<1>. QED
    BY <1>1, <1>2

\* What a wait puts in q.jobs is the row of a job that was answered.
LEMMA WaitFills ==
    ASSUME Base, AnswersInv, NEW i \in Id, WaitFill(i)
    PROVE  reply[i] \in Id /\ row[i] \in Job /\ Has(reply[i]) /\ Fill(reply[i], row[i])
<1>1. wt[i] = "fill" /\ reply[i] # NoId /\ Fill(reply[i], row[i])
    BY DEF WaitFill, WaitStep, Fill, AnswersInv, WaitsKnown
<1>2. reply[i] \in Id /\ row[i] \in Job /\ Has(reply[i])
    BY <1>1 DEF AnswersInv, CallsTyped, Base, Typed, SubmitsTyped, Backed, SubmitsBacked
<1>. QED
    BY <1>1, <1>2

LEMMA BaseStep == ASSUME Base, AnswersInv, [CallsNext]_allVars PROVE Base'
<1>1. CASE [Next]_vars
    BY <1>1, BaseNext
<1>2. ASSUME NEW i \in Id, WaitFill(i) PROVE Base'
    BY <1>2, WaitFills, BaseFill
<1>. QED
    BY <1>1, <1>2, CallsSteps

\* Who asks for a job has been answered with it.
LEMMA AsksReplied == ASSUME Typed, AnswersInv, NEW i \in Id, Asks(i) PROVE reply[i] # NoId
<1>1. CASE i \in Range(Items)
    <2>1. PICK n \in DOMAIN jobs : i = jobs[n]
        BY <1>1 DEF Asks, Range
    <2>2. n \in 1..Len(jobs)
        BY <2>1 DEF AnswersInv, CallsTyped
    <2>. QED
        BY <2>1, <2>2 DEF AnswersInv, BatchInOrder, Replied
<1>2. CASE i \notin Range(Items)
    BY <1>2 DEF Asks
<1>. QED
    BY <1>1, <1>2

\* A wait asks, is told or asks again; its client has been told when it is over.
LEMMA WaitStays ==
    ASSUME Base, AnswersInv, NEW i \in Id, Wait(i)
    PROVE  CallsTyped' /\ WaitsKnown'
<1>. DEFINE Places4 == {"idle", "asking", "fill", "answered"}
<1>1. /\ UNCHANGED <<batch, jobs, reply>>
      /\ \E to \in Places4 : wt' = [wt EXCEPT ![i] = to]
    BY DEF Wait, WaitBegin, WaitTold, WaitElapsed, WaitMiss, WaitFill, WaitStep, vars, submits
<1>2. reply[i] \in Id
    <2>1. reply[i] # NoId
        BY AsksReplied DEF Wait, WaitBegin, WaitTold, WaitElapsed, WaitMiss, WaitFill, WaitStep,
                           AnswersInv, WaitsKnown, Base
    <2>. QED
        BY <2>1 DEF Base, Typed, SubmitsTyped
<1>3. told' = told \/ \E st \in JobStatus : told' = [told EXCEPT ![i] = st] /\ wt'[i] = "answered"
    <2>1. CASE WaitTold(i)
        <3>1. Tracked(reply[i]) \in Job
            BY <1>2, <2>1 DEF WaitTold, Tracked, Base, Typed, MemoryTyped
        <3>. QED
            BY <2>1, <3>1 DEF WaitTold, WaitStep, Job, AnswersInv, CallsTyped
    <2>2. CASE WaitFill(i)
        <3>1. row[i].status \in JobStatus
            BY DEF AnswersInv, CallsTyped, Job
        <3>. QED
            BY <2>2, <3>1 DEF WaitFill, WaitStep, AnswersInv, CallsTyped
    <2>. QED
        BY <2>1, <2>2 DEF Wait, WaitBegin, WaitElapsed, WaitMiss
<1>4. row' \in [Id -> Job]
    <2>1. \/ row' = row \/ row' = [row EXCEPT ![i] = NewJob]
          \/ Has(reply[i]) /\ row' = [row EXCEPT ![i] = rows[reply[i]]]
        BY DEF Wait, WaitBegin, WaitTold, WaitElapsed, WaitMiss, WaitFill, Stored, Has
    <2>2. Has(reply[i]) => rows[reply[i]] \in Job
        BY <1>2 DEF Has, Base, Typed, TableTyped, Rows
    <2>. QED
        BY <2>1, <2>2, NewJobType DEF AnswersInv, CallsTyped
<1>5. wt[i] # "answered"
    BY DEF Wait, WaitBegin, WaitTold, WaitElapsed, WaitMiss, WaitFill, WaitStep
<1>6. CallsTyped'
    BY <1>1, <1>3, <1>4 DEF AnswersInv, CallsTyped
<1>7. WaitsKnown'
    <2>1. \A k \in Id : k # i => wt'[k] = wt[k] /\ told'[k] = told[k]
        BY <1>1, <1>3 DEF AnswersInv, CallsTyped
    <2>2. told'[i] # NotTold => wt'[i] = "answered"
        BY <1>3, <1>5 DEF AnswersInv, WaitsKnown
    <2>. QED
        BY <1>1, <1>2, <2>1, <2>2, QueueAssumption DEF AnswersInv, WaitsKnown
<1>. QED
    BY <1>6, <1>7

\* The batch goes on with the next item when the one before it is answered.
LEMMA BatchStays ==
    ASSUME Typed, AnswersInv, Batch PROVE CallsTyped' /\ BatchInOrder'
<1>1. UNCHANGED <<sub, wt, row, told>>
    BY DEF Batch, BatchBegin, BatchNext, BatchAccepted, BatchRefused, vars, submits
<1>2. CASE BatchBegin \/ BatchAccepted \/ BatchRefused
    BY <1>1, <1>2 DEF BatchBegin, BatchAccepted, BatchRefused, AnswersInv, CallsTyped, BatchInOrder, Next1
<1>3. CASE BatchNext
    <2>1. /\ Len(jobs) \in Nat /\ Len(jobs) + 1 \in 1..Len(Items) /\ Next1 \in Id
          /\ jobs \in Seq(Id) /\ batch' = "running" /\ sub[Next1] = "done"
        BY <1>3, NextItem, ItemsType DEF BatchNext, AnswersInv, CallsTyped, Next1
    <2>2. reply[Next1] = Next1
        BY <2>1, ItemsType DEF AnswersInv, Replied, Keyless, Next1
    <2>3. jobs' = Append(jobs, Next1) /\ batch' = batch
        BY <1>3, <2>2 DEF BatchNext
    <2>4. /\ jobs' \in Seq(Id) /\ Len(jobs') = Len(jobs) + 1
          /\ jobs'[Len(jobs) + 1] = Next1
          /\ \A n \in 1..Len(jobs) : jobs'[n] = jobs[n]
        BY <2>1, <2>3
    <2>5. \A n \in 1..Len(jobs') : jobs'[n] = Items[n] /\ sub[Items[n]] = "done"
        <3>. SUFFICES ASSUME NEW n \in 1..Len(jobs') PROVE jobs'[n] = Items[n] /\ sub[Items[n]] = "done"
            OBVIOUS
        <3>1. n \in 1..Len(jobs) \/ n = Len(jobs) + 1
            BY <2>1, <2>4
        <3>. QED
            BY <2>1, <2>4, <3>1 DEF AnswersInv, BatchInOrder, Next1
    <2>6. \A n \in 1..Len(Items) : n > Len(jobs') + 1 => sub[Items[n]] = "idle"
        <3>. SUFFICES ASSUME NEW n \in 1..Len(Items), n > Len(jobs') + 1 PROVE sub[Items[n]] = "idle"
            OBVIOUS
        <3>1. n > Len(jobs) + 1
            BY <2>1, <2>4, ItemsType
        <3>. QED
            BY <3>1 DEF AnswersInv, BatchInOrder
    <2>7. CallsTyped'
        BY <1>1, <2>3, <2>4 DEF AnswersInv, CallsTyped
    <2>8. Len(jobs') <= Len(Items) /\ batch' = "running"
        BY <2>1, <2>4, ItemsType
    <2>. QED
        BY <1>1, <2>5, <2>6, <2>7, <2>8 DEF BatchInOrder
<1>. QED
    BY <1>2, <1>3 DEF Batch

\* An item leaves "idle" in its turn, and an answer to it stays.
LEMMA OrderStays ==
    ASSUME Typed, AnswersInv, UNCHANGED jobs,
           batch' = batch \/ (batch = "running" /\ batch' = "broken"),
           \A i \in Id : sub[i] \in {"done", "refused"} => sub'[i] = sub[i],
           \A i \in Range(Items) : sub[i] = "idle" /\ sub'[i] # "idle"
                                   => batch = "running" /\ jobs # Items /\ i = Next1
    PROVE  BatchInOrder'
<1>1. jobs # Items => Len(jobs) \in Nat /\ Len(jobs) + 1 \in 1..Len(Items)
    BY NextItem DEF AnswersInv
<1>2. Len(jobs) \in Nat
    BY DEF AnswersInv, CallsTyped
<1>3. \A n \in 1..Len(jobs) : n \in 1..Len(Items)
    BY <1>2, ItemsType DEF AnswersInv, BatchInOrder
<1>4. \A n \in 1..Len(jobs) : jobs[n] = Items[n] /\ sub'[Items[n]] = "done"
    BY <1>3, ItemsType DEF AnswersInv, BatchInOrder
<1>5. ASSUME NEW n \in 1..Len(Items), n > Len(jobs) + 1 \/ batch' = "idle"
      PROVE  sub'[Items[n]] = "idle"
    <2>1. /\ n > Len(jobs) + 1 \/ batch = "idle"
          /\ sub[Items[n]] = "idle" /\ Items[n] \in Range(Items)
        BY <1>5, ItemsType DEF AnswersInv, BatchInOrder
    <2>2. batch = "running" /\ jobs # Items => Items[n] # Next1
        <3>. SUFFICES ASSUME batch = "running", jobs # Items, Items[n] = Next1 PROVE FALSE
            OBVIOUS
        <3>1. n = Len(jobs) + 1
            BY <1>1, ItemsType DEF Next1
        <3>. QED
            BY <1>2, <2>1, <3>1
    <2>. QED
        BY <2>1, <2>2
<1>6. batch' = "answered" => jobs = Items \/ sub'[Next1] = "refused"
    BY <1>1, ItemsType DEF AnswersInv, BatchInOrder, Next1
<1>7. Len(jobs) <= Len(Items)
    BY DEF AnswersInv, BatchInOrder
<1>. QED
    BY <1>4, <1>5, <1>6, <1>7 DEF BatchInOrder, Next1

LEMMA AnswersStep == ASSUME Base, AnswersInv, [CallsNext]_allVars PROVE AnswersInv'
<1>1. [Next]_vars \/ \E i \in Id : WaitFill(i)
    BY CallsSteps
<1>2. /\ Replied' /\ Keyless'
      /\ \A i \in Id : /\ sub[i] \in {"done", "refused"} => sub'[i] = sub[i]
                       /\ reply[i] # NoId => reply'[i] = reply[i]
    BY <1>1, AnswersStay DEF Base, AnswersInv
<1>3. ASSUME UNCHANGED <<batch, jobs>>, UNCHANGED sub PROVE BatchInOrder'
    BY <1>3 DEF AnswersInv, BatchInOrder, Next1
<1>4. CASE Batch
    <2>1. UNCHANGED <<wt, told, reply>>
        BY <1>4 DEF Batch, BatchBegin, BatchNext, BatchAccepted, BatchRefused, vars, submits
    <2>. QED
        BY <1>2, <1>4, <2>1, BatchStays DEF Base, AnswersInv, WaitsKnown
<1>5. CASE \E i \in Id : Wait(i)
    <2>1. UNCHANGED <<batch, jobs, sub>>
        BY <1>5 DEF Wait, WaitBegin, WaitTold, WaitElapsed, WaitMiss, WaitFill, vars, submits
    <2>. QED
        BY <1>2, <1>3, <1>5, <2>1, WaitStays DEF AnswersInv
<1>6. ASSUME UNCHANGED calls PROVE CallsTyped' /\ WaitsKnown'
    BY <1>2, <1>6 DEF calls, AnswersInv, CallsTyped, WaitsKnown
<1>7. CASE Desk
    BY <1>2, <1>6, <1>7, OrderStays DEF Desk, calls, Base, AnswersInv
<1>8. CASE ((Stop \/ Restart) /\ UNCHANGED calls) \/ UNCHANGED allVars
    <2>1. UNCHANGED calls /\ sub' = sub
        BY <1>8 DEF Stop, Restart, allVars, vars, submits, calls
    <2>. QED
        BY <1>2, <1>3, <1>6, <2>1 DEF calls, AnswersInv
<1>9. CASE CallsCrash
    <2>1. /\ reply' = reply /\ UNCHANGED jobs
          /\ batch' = IF batch = "running" THEN "broken" ELSE batch
          /\ \A i \in Id : sub[i] = "idle" => sub'[i] = "idle"
        BY <1>9 DEF CallsCrash, Crash
    <2>2. CallsTyped'
        BY <1>9, <2>1, NewJobType DEF CallsCrash, AnswersInv, CallsTyped
    <2>3. WaitsKnown'
        BY <1>9, <2>1 DEF CallsCrash, AnswersInv, WaitsKnown
    <2>4. BatchInOrder'
        <3>1. \A i \in Range(Items) : i \in Id
            BY ItemsType
        <3>. QED
            BY <1>2, <2>1, <3>1, OrderStays DEF Base
    <2>. QED
        BY <1>2, <2>2, <2>3, <2>4 DEF AnswersInv
<1>. QED
    BY <1>4, <1>5, <1>7, <1>8, <1>9 DEF CallsNext

LEMMA InitAnswers == CallsInit => Base /\ AnswersInv
<1>. SUFFICES ASSUME CallsInit PROVE Base /\ AnswersInv
    OBVIOUS
<1>1. Init
    BY DEF CallsInit
<1>2. Base
    BY <1>1, InitTyped, InitBacked, InitPlaceInv, InitOutcomeInv DEF Base
<1>3. CallsTyped
    BY NewJobType DEF CallsInit, CallsTyped
<1>4. Replied /\ Keyless /\ WaitsKnown
    BY <1>1 DEF CallsInit, Init, Replied, Keyless, WaitsKnown
<1>5. BatchInOrder
    <2>1. jobs = <<>> /\ batch = "idle" /\ Len(jobs) = 0
        BY DEF CallsInit
    <2>. QED
        BY <1>1, <2>1, ItemsType DEF Init, BatchInOrder
<1>. QED
    BY <1>2, <1>3, <1>4, <1>5 DEF AnswersInv

LEMMA AnswersInvariant == CallsSpec => [](Base /\ AnswersInv)
BY InitAnswers, BaseStep, AnswersStep, PTL DEF CallsSpec

------------------------------------------------------------------------------
(* The answer to a batch.                                                    *)

\* What is run, or waits to be, has a row.
RunsHave == \A i \in Id : execs[i] > 0 \/ Placed(i) => Has(i)

LEMMA RunsHaveStep ==
    ASSUME Typed, Backed, PlaceInv, RunsHave, [Next]_vars \/ \E i \in Id : WaitFill(i)
    PROVE  RunsHave'
<1>1. ASSUME NEW id \in Id, Submit(id) PROVE RunsHave'
    <2>1. execs' = execs /\ (rows' = rows \/ rows' = Inserted(rows, id))
        BY <1>1 DEF Submit, SubmitBegin, SubmitInsert, SubmitInsertFails, SubmitTrack, SubmitEnqueue,
                    SubmitDedupe, workers
    <2>2. \A i \in Id : Has(i) => Has(i)'
        BY <2>1, NewJobType, NoRowAssumption DEF Inserted, Has, Typed, TableTyped, Rows
    <2>3. \A i \in Id : Placed(i)' => Placed(i) \/ sub[i] = "enqueue"
        BY <1>1, SubmitPlaces
    <2>. QED
        BY <2>1, <2>2, <2>3 DEF RunsHave, Backed, SubmitsBacked
<1>2. ASSUME NEW w \in Worker, Work(w) PROVE RunsHave'
    <2>1. \A i \in Id : (Has(i)' <=> Has(i)) /\ (Placed(i)' => Placed(i))
        BY <1>2, RowsStay, WorkPlaces
    <2>2. CASE execs' = execs
        BY <2>1, <2>2 DEF RunsHave
    <2>3. CASE Begin(w)
        <3>1. at[w] \in Id /\ execs' = [execs EXCEPT ![at[w]] = @ + 1]
            BY <2>3, OwnTyped DEF Begin, WorkerStep
        <3>2. Has(at[w])
            BY <3>1 DEF RunsHave, Placed
        <3>. QED
            BY <2>1, <3>1, <3>2 DEF RunsHave, Typed, WorkersTyped
    <2>. QED
        BY <1>2, <2>2, <2>3
           DEF Work, Take, NoTool, BeginCanceled, PersistRunning, ExecuteEnds, FinishCanceled,
               FinishDone, FinishPermanent, FinishExhausted, Retry, PersistRetry, BackoffEnds,
               StoppedInBackoff, Requeue, PersistFinal, FinishFailed
<1>3. ASSUME NEW c \in Caller, Call(c) PROVE RunsHave'
    <2>1. UNCHANGED <<line, at, execs>>
        BY <1>3 DEF Call, CancelPersist, AckPersist, AckStore, GetFill, CancelMark, AckMark, AckRead,
                    GetMiss, memory, workers
    <2>2. \A i \in Id : Has(i)' <=> Has(i)
        BY <1>3, RowsStay
    <2>. QED
        BY <2>1, <2>2 DEF RunsHave, Placed
<1>4. CASE Crash
    <2>1. line' = <<>> /\ rows' = rows /\ execs' = execs /\ \A w \in Worker : at'[w] = NoId
        BY <1>4 DEF Crash
    <2>2. \A i \in Id : ~Placed(i)'
        BY <2>1, QueueAssumption DEF Placed, Ids
    <2>. QED
        BY <2>1, <2>2 DEF RunsHave, Has
<1>5. CASE Restart
    <2>1. PICK S \in {Incomplete(rows)} \union (IF StoreFails THEN {{}} ELSE {}) :
              line' \in {s \in [1..Cardinality(S) -> S] : \A i \in S : \E n \in DOMAIN s : s[n] = i}
        BY <1>5 DEF Restart
    <2>2. S \subseteq Stored(rows)
        BY <2>1 DEF Incomplete
    <2>3. Ids(line') = S
        BY <2>1, <2>2, OnceLoaded DEF Stored
    <2>4. UNCHANGED <<rows, execs, at>>
        BY <1>5 DEF Restart, workers
    <2>. QED
        BY <2>2, <2>3, <2>4 DEF RunsHave, Placed, Has, Stored
<1>6. CASE Stop \/ UNCHANGED vars \/ \E i \in Id : WaitFill(i)
    BY <1>6 DEF Stop, vars, memory, WaitFill, workers, RunsHave, Placed, Has
<1>. QED
    BY <1>1, <1>2, <1>3, <1>4, <1>5, <1>6 DEF Next

\* With a store that does not fail, the answer to a batch, whether every item was accepted or
\* one was refused, names the jobs that were made of it, as GET /batches/{id} finds them for
\* ever after; and what it does not name is never run.  An item it does not name has not
\* been submitted, or was refused before its row was written.
THEOREM BatchAnswered == ASSUME ~StoreFails PROVE CallsSpec => []BatchAnswerNames
<1>. DEFINE Inv == RunsHave /\ RefusedLeavesNoJob
<1>1. CallsInit => Inv
    <2>. SUFFICES ASSUME CallsInit PROVE Inv
        OBVIOUS
    <2>1. /\ line = <<>> /\ (\A w \in Worker : at[w] = NoId)
          /\ \A i \in Id : execs[i] = 0 /\ sub[i] = "idle"
        BY DEF CallsInit, Init
    <2>2. \A i \in Id : ~Placed(i)
        BY <2>1, QueueAssumption DEF Placed, Ids
    <2>. QED
        BY <2>1, <2>2 DEF RunsHave, RefusedLeavesNoJob
<1>2. ASSUME Base, Inv, [CallsNext]_allVars PROVE Inv'
    <2>1. [Next]_vars \/ \E i \in Id : WaitFill(i)
        BY <1>2, CallsSteps
    <2>2. RunsHave'
        BY <1>2, <2>1, RunsHaveStep DEF Base
    <2>3. ASSUME NEW i \in Id, WaitFill(i) PROVE RefusedLeavesNoJob'
        BY <1>2, <2>3 DEF WaitFill, submits, RefusedLeavesNoJob
    <2>. QED
        BY <1>2, <2>1, <2>2, <2>3, RefusedStep DEF Base
<1>3. ASSUME Base, AnswersInv, Inv PROVE BatchAnswerNames
    <2>. SUFFICES ASSUME batch = "answered"
                  PROVE  /\ ListByBatch = Range(jobs)
                         /\ \A i \in Range(Items) \ Range(jobs) : execs[i] = 0
        BY DEF BatchAnswerNames
    <2>1. jobs \in Seq(Id) /\ Len(jobs) \in Nat /\ DOMAIN jobs = 1..Len(jobs)
        BY <1>3 DEF AnswersInv, CallsTyped
    <2>2. \A n \in 1..Len(jobs) : n \in 1..Len(Items) /\ jobs[n] = Items[n]
        BY <1>3, <2>1, ItemsType DEF AnswersInv, BatchInOrder
    <2>3. \A i \in Range(jobs) : i \in Range(Items) /\ Has(i)
        <3>. SUFFICES ASSUME NEW n \in 1..Len(jobs) PROVE jobs[n] \in Range(Items) /\ Has(jobs[n])
            BY <2>1 DEF Range
        <3>1. Items[n] \in Id /\ Items[n] \in Range(Items) /\ KeyOf[Items[n]] = NoKey
            BY <2>2, ItemsType
        <3>2. reply[Items[n]] = Items[n]
            BY <1>3, <3>1 DEF AnswersInv, BatchInOrder, Replied, Keyless
        <3>3. Has(Items[n])
            BY <1>3, <3>1, <3>2, QueueAssumption DEF Base, Backed, SubmitsBacked
        <3>. QED
            BY <2>2, <3>1, <3>3
    <2>4. \A i \in Range(Items) \ Range(jobs) : ~Has(i)
        <3>. SUFFICES ASSUME NEW n \in 1..Len(Items), Items[n] \notin Range(jobs) PROVE ~Has(Items[n])
            BY ItemsType
        <3>1. n \notin 1..Len(jobs)
            BY <2>1, <2>2 DEF Range
        <3>2. Items[n] \in Id /\ Len(Items) \in Nat
            BY ItemsType
        <3>3. CASE n > Len(jobs) + 1
            BY <1>3, <3>2, <3>3 DEF AnswersInv, BatchInOrder, Base, Backed, SubmitsBacked
        <3>4. CASE n = Len(jobs) + 1
            <4>1. jobs # Items
                BY <2>1, <3>4
            <4>. QED
                BY <1>3, <3>2, <3>4, <4>1
                   DEF AnswersInv, BatchInOrder, Next1, RefusedLeavesNoJob, Has
        <3>. QED
            BY <2>1, <3>1, <3>2, <3>3, <3>4
    <2>5. \A i \in Range(Items) \ Range(jobs) : execs[i] = 0
        <3>1. Range(Items) \subseteq Id
            BY ItemsType
        <3>. QED
            BY <1>3, <2>4, <3>1 DEF RunsHave, Base, Typed, WorkersTyped
    <2>6. ListByBatch = Range(jobs)
        BY <2>3, <2>4 DEF ListByBatch, Has
    <2>. QED
        BY <2>5, <2>6
<1>. HIDE DEF Inv
<1>. QED
    BY <1>1, <1>2, <1>3, AnswersInvariant, PTL DEF CallsSpec

------------------------------------------------------------------------------
(* What a client was told.  The worker's job is the truth about a job while  *)
(* q.jobs has it, and the row is otherwise; whatever a lookup read agrees    *)
(* with the row about whether there is an outcome and which, even when       *)
(* writes are lost.                                                          *)

Agrees(id, j) == j.status \in Outcome \/ rows[id].status \in Outcome => j.status = rows[id].status

\* A job that memory can no longer have a worker's value of, and a copy of its row.
Free(id, j) == tracked[id] # "own" /\ sub[id] # "track" /\ Agrees(id, j)

PlacedOwn == up => \A id \in Id : Placed(id) \/ sub[id] = "enqueue" => tracked[id] = "own"

OutcomeLate == \A id \in Id : Has(id) /\ rows[id].status \in Outcome => ~Early(id)

CancelsHeld ==
    \A c \in Caller : cl[c] = "cancelPersist"
        => /\ carried[c].status = "canceled"
           /\ tracked[target[c]] # "none"
           /\ tracked[target[c]] = "own" \/ rows[target[c]].status \notin Outcome

FillsAgree == \A c \in Caller : cl[c] = "getFill" => Free(target[c], carried[c])

CopiesAgree == \A id \in Id : tracked[id] = "read" => Agrees(id, obj[id].read)

DupsAgree == \A id \in Id : dup[id] # <<>> /\ tracked[dup[id][1]] # "own"
                            => Agrees(dup[id][1], dup[id][2])

DownGone == ~up => DownIdle /\ \A id \in Id : tracked[id] = "none"

CopyInv == /\ PlacedOwn /\ OutcomeLate /\ CancelsHeld /\ FillsAgree /\ CopiesAgree /\ DupsAgree
           /\ RepliesTracked /\ FreshRows /\ DownGone

\* What a submit() does to the table and to q.jobs.
LEMMA SubmitLeaves ==
    ASSUME Typed, Backed, NEW id \in Id, Submit(id)
    PROVE  /\ up /\ up' /\ UNCHANGED <<cl, target, carried>>
           /\ \A i \in Id : /\ Has(i) => rows'[i] = rows[i]
                            /\ ~Has(i) => rows'[i] = NoRow \/ rows'[i] = NewJob
                            /\ tracked[i] = "own" => tracked'[i] = "own"
                            /\ tracked[i] # "none" => tracked'[i] # "none"
                            /\ tracked'[i] = "own" => tracked[i] = "own" \/ (SubmitTrack(id) /\ i = id)
                            /\ sub'[i] = "track" => \/ sub[i] = "track"
                                                    \/ ~Has(i) /\ rows'[i] = NewJob
                            /\ sub'[i] = "enqueue" => sub[i] = "enqueue" \/ tracked'[i] = "own"
                            /\ Early(i)' => Early(i)
<1>. USE DEF SubmitStep
<1>1. up /\ up' /\ UNCHANGED <<cl, target, carried>>
    BY DEF Submit, SubmitBegin, SubmitInsert, SubmitInsertFails, SubmitTrack, SubmitEnqueue,
           SubmitDedupe, world, callers
<1>2. /\ tracked \in [Id -> {"none", "own", "read"}] /\ rows \in Rows
      /\ sub \in [Id -> {"idle", "insert", "track", "enqueue", "dedupe", "done", "refused", "broken"}]
    BY DEF Typed, MemoryTyped, TableTyped, SubmitsTyped
<1>3. CASE SubmitInsert(id) \/ SubmitInsertFails(id)
    <2>1. UNCHANGED tracked /\ sub[id] = "insert" /\ ~Has(id)
        BY <1>3 DEF SubmitInsert, SubmitInsertFails, memory, Backed, SubmitsBacked
    <2>2. \A i \in Id : i # id => sub'[i] = sub[i]
        BY <1>2, <1>3 DEF SubmitInsert, SubmitInsertFails
    <2>3. rows' = rows \/ rows' = [rows EXCEPT ![id] = NewJob]
        BY <1>3 DEF SubmitInsert, SubmitInsertFails, Inserted
    <2>4. sub'[id] = "track" => rows'[id] = NewJob
        BY <1>2, <1>3 DEF SubmitInsert, SubmitInsertFails, Inserted, Rows
    <2>5. sub'[id] \in {"track", "dedupe", "refused"}
        BY <1>2, <1>3 DEF SubmitInsert, SubmitInsertFails
    <2>. QED
        BY <1>1, <1>2, <2>1, <2>2, <2>3, <2>4, <2>5 DEF Has, Rows, Early
<1>4. CASE SubmitBegin(id) \/ SubmitTrack(id) \/ SubmitEnqueue(id)
    <2>1. /\ rows' = rows
          /\ \/ tracked' = tracked
             \/ SubmitTrack(id) /\ tracked' = [tracked EXCEPT ![id] = "own"]
        BY <1>4 DEF SubmitBegin, SubmitTrack, SubmitEnqueue, memory
    <2>2. /\ \A i \in Id : i # id => sub'[i] = sub[i]
          /\ sub'[id] \in {"insert", "refused", "enqueue", "done"}
          /\ sub[id] \in {"idle", "track", "enqueue"}
          /\ sub'[id] = "enqueue" => SubmitTrack(id)
        BY <1>2, <1>4 DEF SubmitBegin, SubmitTrack, SubmitEnqueue
    <2>3. SubmitTrack(id) => tracked'[id] = "own"
        BY <1>2 DEF SubmitTrack
    <2>. QED
        BY <1>1, <1>2, <2>1, <2>2, <2>3 DEF Has, Early
<1>5. CASE SubmitDedupe(id)
    <2>1. rows' = rows /\ sub' = [sub EXCEPT ![id] = "done"] /\ sub[id] = "dedupe"
        BY <1>5 DEF SubmitDedupe
    <2>2. dup[id][1] \in Id
        BY <2>1 DEF Typed, SubmitsTyped
    <2>3. \/ tracked' = tracked
          \/ tracked[dup[id][1]] = "none" /\ tracked' = [tracked EXCEPT ![dup[id][1]] = "read"]
        BY <1>5 DEF SubmitDedupe
    <2>. QED
        BY <1>1, <1>2, <2>1, <2>2, <2>3 DEF Has, Early
<1>. QED
    BY <1>3, <1>4, <1>5 DEF Submit

\* What a handler does to them: it writes no status but "canceled", in the row that its
\* cancel names, and q.jobs gets an entry only from a lookup.
LEMMA CallLeaves ==
    ASSUME Typed, Backed, CancelsHeld, NEW c \in Caller, Call(c)
    PROVE  /\ up /\ up' /\ UNCHANGED <<sub, dup, reply, line, at>>
           /\ \A i \in Id : /\ Has(i)' <=> Has(i)
                            /\ Has(i) => \/ rows'[i].status = rows[i].status
                                         \/ /\ cl[c] = "cancelPersist" /\ target[c] = i
                                            /\ rows'[i].status = "canceled"
           /\ \/ tracked' = tracked /\ ~GetFill(c)
              \/ /\ GetFill(c) /\ cl[c] = "getFill" /\ target[c] \in Id
                 /\ tracked' = [tracked EXCEPT ![target[c]] = "read"]
           /\ \A d \in Caller : d # c => /\ cl'[d] = cl[d] /\ target'[d] = target[d]
                                         /\ carried'[d] = carried[d]
<1>1. up /\ up' /\ UNCHANGED <<sub, dup, reply, line, at>>
    <2>1. up
        BY DEF Call, CancelPersist, AckPersist, AckStore, GetFill, CancelMark, AckMark, AckRead,
               GetMiss, Answer, Request
    <2>2. UNCHANGED <<sub, dup, reply, line, at, up>>
        BY DEF Call, CancelPersist, AckPersist, AckStore, GetFill, CancelMark, AckMark, AckRead,
               GetMiss, memory, submits, workers, world
    <2>. QED
        BY <2>1, <2>2
<1>2. \A i \in Id : Has(i)' <=> Has(i)
    BY RowsStay
<1>3. ASSUME NEW i \in Id, Has(i)
      PROVE  \/ rows'[i].status = rows[i].status
             \/ cl[c] = "cancelPersist" /\ target[c] = i /\ rows'[i].status = "canceled"
    <2>1. CASE CancelPersist(c)
        <3>1. cl[c] = "cancelPersist" /\ carried[c].status = "canceled" /\ carried[c] \in Job
            BY <2>1 DEF CancelPersist, Answer, CancelsHeld, Typed, CallersTyped
        <3>2. [carried[c] EXCEPT !.acked = rows[i].acked].status = "canceled"
            BY <3>1 DEF Job
        <3>3. \/ rows' = rows
              \/ rows'[i] = IF i = target[c] THEN [carried[c] EXCEPT !.acked = rows[i].acked]
                            ELSE rows[i]
            BY <1>3, <2>1 DEF CancelPersist, Persist, Updated, Has
        <3>. QED
            BY <3>1, <3>2, <3>3
    <2>2. CASE AckPersist(c) \/ AckStore(c)
        <3>1. \/ rows'[i] = rows[i]
              \/ rows[i] # NoRow /\ rows'[i] = [rows[i] EXCEPT !.acked = TRUE]
            BY <2>2 DEF AckPersist, AckStore, AckedRow
        <3>2. rows[i] # NoRow => [rows[i] EXCEPT !.acked = TRUE].status = rows[i].status
            BY DEF Typed, TableTyped, Rows, Job
        <3>. QED
            BY <3>1, <3>2
    <2>3. CASE ~(CancelPersist(c) \/ AckPersist(c) \/ AckStore(c))
        BY <2>3 DEF Call, GetFill, CancelMark, AckMark, AckRead, GetMiss
    <2>. QED
        BY <2>1, <2>2, <2>3
<1>4. \/ tracked' = tracked /\ ~GetFill(c)
      \/ /\ GetFill(c) /\ cl[c] = "getFill" /\ target[c] \in Id
         /\ tracked' = [tracked EXCEPT ![target[c]] = "read"]
    BY QueueAssumption
       DEF Call, CancelPersist, AckPersist, AckStore, GetFill, CancelMark, AckMark, AckRead,
           GetMiss, memory, Answer, Typed, CallersTyped
<1>5. \A d \in Caller : d # c => cl'[d] = cl[d] /\ target'[d] = target[d] /\ carried'[d] = carried[d]
    BY DEF Call, CancelPersist, AckPersist, AckStore, GetFill, CancelMark, AckMark, AckRead, GetMiss,
           Answer, Carry, Typed, CallersTyped
<1>. QED
    BY <1>1, <1>2, <1>3, <1>4, <1>5

\* What is free stays free, with its copy, until the desk crashes: no submit() takes the
\* entry back, and no worker or cancel gives the row an outcome or takes one from it.
LEMMA FreeStays ==
    ASSUME Base, CopyInv, up, NEW i \in Id, NEW j, Has(i), Free(i, j),
           \/ \E id \in Id : Submit(id)
           \/ \E w \in Worker : Work(w)
           \/ \E c \in Caller : Call(c)
           \/ \E id \in Id : tracked[id] # "own" /\ \E k \in Job : Fill(id, k)
           \/ Stop \/ UNCHANGED vars
    PROVE  Free(i, j)'
<1>1. ASSUME NEW id \in Id, Submit(id) PROVE Free(i, j)'
    <2>1. rows'[i] = rows[i] /\ sub'[i] # "track"
        BY <1>1, SubmitLeaves DEF Base, Free
    <2>2. tracked'[i] # "own"
        BY <1>1, SubmitLeaves DEF Base, Free, SubmitTrack, SubmitStep
    <2>. QED
        BY <2>1, <2>2 DEF Free, Agrees
<1>2. ASSUME NEW w \in Worker, Work(w) PROVE Free(i, j)'
    <2>1. UNCHANGED <<tracked, sub>>
        BY <1>2, WorkRows DEF Base, submits
    <2>2. ~Placed(i)
        BY DEF CopyInv, PlacedOwn, Free
    <2>3. rows'[i] = rows[i]
        BY <1>2, <2>2, WorkPlaces DEF Base
    <2>. QED
        BY <2>1, <2>3 DEF Free, Agrees
<1>3. ASSUME NEW c \in Caller, Call(c) PROVE Free(i, j)'
    <2>1. sub' = sub /\ tracked'[i] # "own"
        BY <1>3, CallLeaves DEF Base, CopyInv, Free, Typed, MemoryTyped
    <2>2. \/ rows'[i].status = rows[i].status
          \/ rows[i].status \notin Outcome /\ rows'[i].status = "canceled"
        BY <1>3, CallLeaves DEF Base, CopyInv, CancelsHeld, Free
    <2>. QED
        BY <2>1, <2>2 DEF Free, Agrees, Outcome
<1>4. ASSUME NEW id \in Id, tracked[id] # "own", NEW k \in Job, Fill(id, k) PROVE Free(i, j)'
    BY <1>4 DEF Base, Typed, MemoryTyped, Fill, submits, Free, Agrees
<1>5. CASE Stop \/ UNCHANGED vars
    BY <1>5 DEF Stop, vars, memory, submits, Free, Agrees
<1>. QED
    BY <1>1, <1>2, <1>3, <1>4, <1>5

\* A row that is read while its id is not in q.jobs is free, when the reader has the id from
\* an answer or from the inbox.
LEMMA MissedIsFree ==
    ASSUME CopyInv, NEW id \in Id, tracked[id] = "none", Known(id)
    PROVE  Free(id, rows[id])
<1>1. sub[id] # "track"
    BY DEF CopyInv, RepliesTracked, FreshRows, Known
<1>. QED
    BY <1>1 DEF Free, Agrees

LEMMA SubmitCopies == ASSUME Base, CopyInv, NEW id \in Id, Submit(id) PROVE CopyInv'
<1>. USE DEF SubmitStep
<1>1. /\ up /\ up' /\ UNCHANGED <<cl, target, carried>>
      /\ \A i \in Id : /\ Has(i) => rows'[i] = rows[i]
                       /\ ~Has(i) => rows'[i] = NoRow \/ rows'[i] = NewJob
                       /\ tracked[i] = "own" => tracked'[i] = "own"
                       /\ tracked[i] # "none" => tracked'[i] # "none"
                       /\ tracked'[i] = "own" => tracked[i] = "own" \/ (SubmitTrack(id) /\ i = id)
                       /\ sub'[i] = "track" => sub[i] = "track" \/ (~Has(i) /\ rows'[i] = NewJob)
                       /\ sub'[i] = "enqueue" => sub[i] = "enqueue" \/ tracked'[i] = "own"
                       /\ Early(i)' => Early(i)
    BY SubmitLeaves DEF Base
<1>2. ASSUME NEW i \in Id, NEW j, Has(i), Free(i, j) PROVE Free(i, j)'
    BY <1>1, <1>2, FreeStays
<1>3. NewJob.status \notin Terminal /\ NewJob.status \notin Outcome
    BY DEF NewJob, Terminal, Outcome
<1>4. PlacedOwn'
    BY <1>1, SubmitPlaces DEF Base, CopyInv, PlacedOwn
<1>5. OutcomeLate'
    BY <1>1, <1>3 DEF CopyInv, OutcomeLate, Has
<1>6. CancelsHeld'
    <2>1. \A c \in Caller : cl[c] = "cancelPersist" => target[c] \in Id /\ Has(target[c])
        BY QueueAssumption DEF Base, Typed, CallersTyped, Backed, CallersBacked
    <2>. QED
        BY <1>1, <2>1 DEF CopyInv, CancelsHeld
<1>7. FillsAgree'
    <2>1. \A c \in Caller : cl[c] = "getFill" => target[c] \in Id /\ Has(target[c])
        BY QueueAssumption DEF Base, Typed, CallersTyped, Backed, CallersBacked
    <2>. QED
        BY <1>1, <1>2, <2>1 DEF CopyInv, FillsAgree, Free, Agrees
<1>8. CopiesAgree'
    <2>1. ASSUME NEW i \in Id, tracked'[i] = "read" PROVE Agrees(i, obj[i].read)'
        <3>1. CASE SubmitDedupe(id) /\ i = dup[id][1] /\ tracked[i] = "none"
            <4>1. dup[id] # <<>> /\ dup[id][2] \in Job /\ Has(i)
                BY <3>1 DEF SubmitDedupe, Base, Typed, SubmitsTyped, Backed, SubmitsBacked
            <4>2. obj' = [obj EXCEPT ![i] = [obj[i] EXCEPT !.read = dup[id][2]]]
                BY <3>1 DEF SubmitDedupe
            <4>3. [obj[i] EXCEPT !.read = dup[id][2]].read = dup[id][2]
                BY DEF Base, Typed, MemoryTyped
            <4>4. obj'[i].read = dup[id][2]
                BY <4>2, <4>3 DEF Base, Typed, MemoryTyped
            <4>5. Agrees(i, dup[id][2])
                BY <3>1, <4>1 DEF CopyInv, DupsAgree
            <4>. QED
                BY <1>1, <4>1, <4>4, <4>5 DEF Agrees
        <3>2. CASE ~(SubmitDedupe(id) /\ i = dup[id][1] /\ tracked[i] = "none")
            <4>1. obj'[i] = obj[i] /\ tracked[i] = "read"
                <5>1. CASE SubmitDedupe(id)
                    BY <2>1, <3>2, <5>1 DEF SubmitDedupe, Base, Typed, MemoryTyped, SubmitsTyped
                <5>2. CASE ~SubmitDedupe(id)
                    BY <2>1, <5>2 DEF Submit, SubmitBegin, SubmitInsert, SubmitInsertFails, SubmitTrack,
                                      SubmitEnqueue, memory, Base, Typed, MemoryTyped
                <5>. QED
                    BY <5>1, <5>2
            <4>2. Agrees(i, obj[i].read) /\ Has(i)
                BY <4>1 DEF CopyInv, CopiesAgree, Base, Backed
            <4>. QED
                BY <1>1, <4>1, <4>2 DEF Agrees
        <3>. QED
            BY <3>1, <3>2
    <2>. QED
        BY <2>1 DEF CopiesAgree, Agrees
<1>9. DupsAgree'
    <2>1. ASSUME NEW i \in Id, dup'[i] # <<>>, tracked'[dup'[i][1]] # "own"
          PROVE  Agrees(dup[i][1], dup[i][2])'
        <3>1. CASE dup'[i] = dup[i]
            <4>1. dup[i][1] \in Id /\ Has(dup[i][1])
                BY <2>1, <3>1 DEF Base, Typed, SubmitsTyped, Backed, SubmitsBacked
            <4>2. Agrees(dup[i][1], dup[i][2])
                BY <1>1, <2>1, <3>1, <4>1 DEF CopyInv, DupsAgree
            <4>. QED
                BY <1>1, <3>1, <4>1, <4>2 DEF Agrees
        <3>2. CASE dup'[i] # dup[i]
            <4>1. SubmitInsert(id) /\ Owners(rows, id) # {} /\ i = id
                BY <2>1, <3>2 DEF Submit, SubmitBegin, SubmitInsert, SubmitInsertFails, SubmitTrack,
                                  SubmitEnqueue, SubmitDedupe, Base, Typed, SubmitsTyped
            <4>2. PICK o \in Owners(rows, id) : dup' = [dup EXCEPT ![id] = <<o, rows[o]>>]
                BY <4>1 DEF SubmitInsert
            <4>3. dup'[i] = <<o, rows[o]>> /\ rows' = rows
                BY <4>1, <4>2 DEF SubmitInsert, Inserted, Base, Typed, SubmitsTyped
            <4>. QED
                BY <4>3 DEF Agrees
        <3>. QED
            BY <3>1, <3>2
    <2>. QED
        BY <2>1 DEF DupsAgree, Agrees
<1>10. RepliesTracked'
    <2>1. ASSUME NEW i \in Id, NEW k \in Id, reply'[i] = k, sub'[k] = "track"
          PROVE  tracked'[k] # "none"
        <3>1. CASE reply'[i] = reply[i]
            <4>1. Has(k)
                BY <2>1, <3>1, QueueAssumption DEF Base, Backed, SubmitsBacked
            <4>. QED
                BY <1>1, <2>1, <3>1, <4>1 DEF CopyInv, RepliesTracked
        <3>2. CASE reply'[i] # reply[i]
            <4>1. i = id /\ (SubmitEnqueue(id) \/ SubmitDedupe(id)) /\ sub'[id] = "done"
                BY <3>2 DEF Submit, SubmitBegin, SubmitInsert, SubmitInsertFails, SubmitTrack,
                            SubmitEnqueue, SubmitDedupe, Base, Typed, SubmitsTyped
            <4>2. SubmitDedupe(id) /\ k = dup[id][1]
                BY <2>1, <4>1 DEF SubmitEnqueue, SubmitDedupe, Base, Typed, SubmitsTyped
            <4>3. tracked'[k] # "none"
                BY <4>2 DEF SubmitDedupe, Base, Typed, MemoryTyped
            <4>. QED
                BY <4>3
        <3>. QED
            BY <3>1, <3>2
    <2>. QED
        BY <2>1 DEF RepliesTracked
<1>11. FreshRows'
    <2>1. ASSUME NEW i \in Id, sub'[i] = "track", tracked'[i] = "none"
          PROVE  rows'[i].status \notin Terminal
        <3>1. tracked[i] = "none"
            BY <1>1, <2>1
        <3>2. sub[i] = "track" => Has(i)
            BY DEF Base, Backed, SubmitsBacked
        <3>. QED
            BY <1>1, <1>3, <2>1, <3>1, <3>2 DEF CopyInv, FreshRows
    <2>. QED
        BY <2>1 DEF FreshRows
<1>. QED
    BY <1>1, <1>4, <1>5, <1>6, <1>7, <1>8, <1>9, <1>10, <1>11 DEF CopyInv, DownGone

LEMMA WorkCopies == ASSUME Base, CopyInv, NEW w \in Worker, Work(w) PROVE CopyInv'
<1>1. /\ up /\ up' /\ UNCHANGED <<tracked, sub, dup, reply, cl, target, carried>>
    BY WorkMoves, WorkRows DEF Base, submits, callers
<1>2. \A i \in Id : /\ Placed(i)' => Placed(i)
                    /\ rows'[i] = rows[i] \/ Placed(i)
                    /\ Has(i)' <=> Has(i)
                    /\ obj'[i].read = obj[i].read
    BY WorkPlaces, RowsStay, WorkKeepsRead DEF Base
<1>3. \A i \in Id : Placed(i) => tracked[i] = "own" /\ ~Early(i)
    BY <1>1 DEF CopyInv, PlacedOwn, Base, PlaceInv, NotYet, Early
<1>4. \A i \in Id : tracked[i] # "own" \/ Early(i) => rows'[i] = rows[i]
    BY <1>2, <1>3
<1>5. PlacedOwn' /\ OutcomeLate' /\ RepliesTracked' /\ FreshRows' /\ DownGone'
    BY <1>1, <1>2, <1>3, <1>4
       DEF CopyInv, PlacedOwn, OutcomeLate, RepliesTracked, FreshRows, DownGone, Early
<1>6. \A c \in Caller : cl[c] # "idle" => target[c] \in Id
    BY QueueAssumption DEF Base, Typed, CallersTyped
<1>7. CancelsHeld' /\ FillsAgree'
    BY <1>1, <1>4, <1>6 DEF CopyInv, CancelsHeld, FillsAgree, Free, Agrees
<1>8. CopiesAgree'
    BY <1>1, <1>2, <1>4 DEF CopyInv, CopiesAgree, Agrees
<1>9. DupsAgree'
    <2>1. \A i \in Id : dup[i] # <<>> => dup[i][1] \in Id
        BY DEF Base, Typed, SubmitsTyped
    <2>. QED
        BY <1>1, <1>4, <2>1 DEF CopyInv, DupsAgree, Agrees
<1>. QED
    BY <1>5, <1>7, <1>8, <1>9 DEF CopyInv

\* What a handler leaves in the copy that a lookup read: the status it had, or "canceled"
\* over one that is no outcome.
LEMMA CallReads ==
    ASSUME Typed, NEW c \in Caller, Call(c), ~GetFill(c), NEW i \in Id, tracked[i] = "read"
    PROVE  \/ obj'[i].read.status = obj[i].read.status
           \/ obj[i].read.status \notin Outcome /\ obj'[i].read.status = "canceled"
<1>1. obj \in [Id -> [own : Job, read : Job]] /\ tracked \in [Id -> {"none", "own", "read"}]
    BY DEF Typed, MemoryTyped
<1>2. CASE UNCHANGED obj
    BY <1>2
<1>3. ASSUME NEW id \in Id, NEW j, obj' = [obj EXCEPT ![id][tracked[id]] = j],
             id = i => \/ j.status = obj[i].read.status
                       \/ obj[i].read.status \notin Outcome /\ j.status = "canceled"
      PROVE  \/ obj'[i].read.status = obj[i].read.status
             \/ obj[i].read.status \notin Outcome /\ obj'[i].read.status = "canceled"
    <2>1. CASE id = i
        <3>1. obj' = [obj EXCEPT ![i] = [obj[i] EXCEPT !.read = j]]
            BY <1>3, <2>1
        <3>2. [obj[i] EXCEPT !.read = j].read = j
            BY <1>1
        <3>. QED
            BY <1>1, <1>3, <2>1, <3>1, <3>2
    <2>2. CASE id # i
        BY <1>1, <1>3, <2>2
    <2>. QED
        BY <2>1, <2>2
<1>4. ASSUME NEW id \in Id, CancelMark(c, id) \/ AckMark(c, id)
      PROVE  \/ obj'[i].read.status = obj[i].read.status
             \/ obj[i].read.status \notin Outcome /\ obj'[i].read.status = "canceled"
    <2>1. id = i => Tracked(id) = obj[i].read /\ Tracked(id) \in Job
        BY <1>1 DEF Tracked
    <2>2. CASE CancelMark(c, id)
        <3>1. /\ obj' = [obj EXCEPT ![id][tracked[id]] = [Tracked(id) EXCEPT !.status = "canceled"]]
              /\ Tracked(id).status \notin Terminal
            BY <2>2 DEF CancelMark
        <3>2. id = i => /\ [Tracked(id) EXCEPT !.status = "canceled"].status = "canceled"
                        /\ obj[i].read.status \notin Outcome
            BY <2>1, <3>1 DEF Job, Terminal, Outcome
        <3>. QED
            BY <1>3, <3>1, <3>2
    <2>3. CASE AckMark(c, id)
        <3>1. obj' = [obj EXCEPT ![id][tracked[id]] = [Tracked(id) EXCEPT !.acked = TRUE]]
            BY <2>3 DEF AckMark
        <3>2. id = i => [Tracked(id) EXCEPT !.acked = TRUE].status = obj[i].read.status
            BY <2>1 DEF Job
        <3>. QED
            BY <1>3, <3>1, <3>2
    <2>. QED
        BY <1>4, <2>2, <2>3
<1>. QED
    BY <1>2, <1>4 DEF Call, CancelPersist, AckPersist, AckStore, AckRead, GetMiss, memory

LEMMA CallCopyInv == ASSUME Base, CopyInv, NEW c \in Caller, Call(c) PROVE CopyInv'
<1>1. /\ up /\ up' /\ UNCHANGED <<sub, dup, reply, line, at>>
      /\ \A i \in Id : /\ Has(i)' <=> Has(i)
                       /\ Has(i) => \/ rows'[i].status = rows[i].status
                                    \/ /\ cl[c] = "cancelPersist" /\ target[c] = i
                                       /\ rows'[i].status = "canceled"
      /\ \A d \in Caller : d # c => /\ cl'[d] = cl[d] /\ target'[d] = target[d]
                                    /\ carried'[d] = carried[d]
    BY CallLeaves DEF Base, CopyInv
<1>2. \/ tracked' = tracked /\ ~GetFill(c)
      \/ /\ GetFill(c) /\ cl[c] = "getFill" /\ target[c] \in Id /\ Free(target[c], carried[c])
         /\ tracked' = [tracked EXCEPT ![target[c]] = "read"]
    BY CallLeaves DEF Base, CopyInv, FillsAgree
<1>3. \A i \in Id : /\ tracked[i] = "own" <=> tracked'[i] = "own"
                    /\ tracked[i] # "none" => tracked'[i] # "none"
    BY <1>2 DEF Base, Typed, MemoryTyped, Free
<1>4. ASSUME NEW i \in Id, NEW j, Has(i), Free(i, j) PROVE Free(i, j)'
    BY <1>1, <1>4, FreeStays
<1>5. PlacedOwn'
    BY <1>1, <1>3 DEF CopyInv, PlacedOwn, Placed
<1>6. OutcomeLate'
    <2>1. "canceled" \notin Outcome
        BY DEF Outcome
    <2>. QED
        BY <1>1, <2>1 DEF CopyInv, OutcomeLate, Early
<1>7. CancelsHeld'
    <2>1. ASSUME NEW d \in Caller, d # c, cl'[d] = "cancelPersist"
          PROVE  /\ carried'[d].status = "canceled" /\ tracked'[target'[d]] # "none"
                 /\ tracked'[target'[d]] = "own" \/ rows'[target'[d]].status \notin Outcome
        <3>1. /\ cl[d] = "cancelPersist" /\ target'[d] = target[d] /\ carried'[d] = carried[d]
              /\ target[d] \in Id /\ Has(target[d])
            BY <1>1, <2>1, QueueAssumption DEF Base, Typed, CallersTyped, Backed, CallersBacked
        <3>. QED
            BY <1>1, <1>3, <3>1 DEF CopyInv, CancelsHeld, Outcome
    <2>2. ASSUME cl'[c] = "cancelPersist"
          PROVE  /\ carried'[c].status = "canceled" /\ tracked'[target'[c]] # "none"
                 /\ tracked'[target'[c]] = "own" \/ rows'[target'[c]].status \notin Outcome
        <3>1. PICK id \in Id : CancelMark(c, id)
            BY <2>2 DEF Call, CancelPersist, AckPersist, AckStore, GetFill, AckMark, AckRead,
                        GetMiss, Answer, Carry, Base, Typed, CallersTyped
        <3>2. /\ tracked[id] # "none" /\ Tracked(id).status \notin Terminal
              /\ target'[c] = id /\ UNCHANGED <<tracked, rows>>
              /\ carried'[c] = [Tracked(id) EXCEPT !.status = "canceled"]
            BY <3>1 DEF CancelMark, Carry, Base, Typed, CallersTyped
        <3>3. tracked[id] \in {"own", "read"} /\ Tracked(id) \in Job
            BY <3>2 DEF Tracked, Base, Typed, MemoryTyped
        <3>4. carried'[c].status = "canceled"
            BY <3>2, <3>3 DEF Job
        <3>5. tracked[id] = "read" => rows[id].status \notin Outcome
            BY <3>2 DEF CopyInv, CopiesAgree, Agrees, Tracked, Terminal, Outcome
        <3>. QED
            BY <3>2, <3>3, <3>4, <3>5
    <2>. QED
        BY <2>1, <2>2 DEF CancelsHeld
<1>8. FillsAgree'
    <2>1. ASSUME NEW d \in Caller, d # c, cl'[d] = "getFill" PROVE Free(target[d], carried[d])'
        <3>1. /\ cl[d] = "getFill" /\ target'[d] = target[d] /\ carried'[d] = carried[d]
              /\ target[d] \in Id /\ Has(target[d])
            BY <1>1, <2>1, QueueAssumption DEF Base, Typed, CallersTyped, Backed, CallersBacked
        <3>2. Free(target[d], carried[d])
            BY <3>1 DEF CopyInv, FillsAgree
        <3>. QED
            BY <1>4, <3>1, <3>2 DEF Free, Agrees
    <2>2. ASSUME cl'[c] = "getFill" PROVE Free(target[c], carried[c])'
        <3>1. PICK id \in Id : GetMiss(c, id)
            BY <2>2 DEF Call, CancelPersist, AckPersist, AckStore, GetFill, CancelMark, AckMark,
                        AckRead, Answer, Carry, Base, Typed, CallersTyped
        <3>2. /\ tracked[id] = "none" /\ Known(id) /\ UNCHANGED <<rows, tracked, sub>>
              /\ target'[c] = id /\ carried'[c] = rows[id]
            BY <3>1 DEF GetMiss, Request, Carry, memory, submits, Base, Typed, CallersTyped
        <3>. QED
            BY <3>2, MissedIsFree DEF Free, Agrees
    <2>. QED
        BY <2>1, <2>2 DEF FillsAgree, Free, Agrees
<1>9. ASSUME NEW i \in Id, NEW j, Has(i), tracked[i] # "own", Agrees(i, j) PROVE Agrees(i, j)'
    <2>1. \/ rows'[i].status = rows[i].status
          \/ rows[i].status \notin Outcome /\ rows'[i].status = "canceled"
        BY <1>1, <1>9 DEF CopyInv, CancelsHeld
    <2>. QED
        BY <1>9, <2>1 DEF Agrees, Outcome
<1>10. CopiesAgree'
    <2>1. ASSUME NEW i \in Id, tracked'[i] = "read" PROVE Agrees(i, obj[i].read)'
        <3>1. CASE GetFill(c) /\ i = target[c]
            <4>1. Free(i, carried[c]) /\ rows' = rows
                BY <1>2, <3>1 DEF GetFill
            <4>2. obj' = [obj EXCEPT ![i] = [obj[i] EXCEPT !.read = carried[c]]]
                BY <3>1 DEF GetFill
            <4>3. [obj[i] EXCEPT !.read = carried[c]].read = carried[c]
                BY DEF Base, Typed, MemoryTyped
            <4>4. obj'[i].read = carried[c]
                BY <4>2, <4>3 DEF Base, Typed, MemoryTyped
            <4>. QED
                BY <4>1, <4>4 DEF Free, Agrees
        <3>2. CASE GetFill(c) /\ i # target[c]
            <4>1. obj'[i] = obj[i] /\ tracked[i] = "read" /\ rows' = rows
                BY <1>2, <2>1, <3>2 DEF GetFill, Base, Typed, MemoryTyped
            <4>. QED
                BY <4>1 DEF CopyInv, CopiesAgree, Agrees
        <3>3. CASE ~GetFill(c)
            <4>1. tracked[i] = "read" /\ Has(i)
                BY <1>2, <2>1, <3>3 DEF Base, Backed
            <4>2. Agrees(i, obj[i].read)
                BY <4>1 DEF CopyInv, CopiesAgree
            <4>3. \/ rows'[i].status = rows[i].status
                  \/ rows[i].status \notin Outcome /\ rows'[i].status = "canceled"
                BY <1>1, <4>1 DEF CopyInv, CancelsHeld
            <4>4. \/ obj'[i].read.status = obj[i].read.status
                  \/ obj[i].read.status \notin Outcome /\ obj'[i].read.status = "canceled"
                BY <3>3, <4>1, CallReads DEF Base
            <4>. QED
                BY <4>2, <4>3, <4>4 DEF Agrees, Outcome
        <3>. QED
            BY <3>1, <3>2, <3>3
    <2>. QED
        BY <2>1 DEF CopiesAgree, Agrees
<1>11. DupsAgree'
    <2>1. ASSUME NEW i \in Id, dup'[i] # <<>>, tracked'[dup'[i][1]] # "own"
          PROVE  Agrees(dup[i][1], dup[i][2])'
        <3>1. dup'[i] = dup[i] /\ dup[i][1] \in Id /\ Has(dup[i][1])
            BY <1>1, <2>1 DEF Base, Typed, SubmitsTyped, Backed, SubmitsBacked
        <3>2. tracked[dup[i][1]] # "own" /\ Agrees(dup[i][1], dup[i][2])
            BY <1>3, <2>1, <3>1 DEF CopyInv, DupsAgree
        <3>. QED
            BY <1>9, <3>1, <3>2 DEF Agrees
    <2>. QED
        BY <2>1 DEF DupsAgree, Agrees
<1>12. RepliesTracked'
    BY <1>1, <1>3 DEF CopyInv, RepliesTracked
<1>13. FreshRows'
    <2>1. ASSUME NEW i \in Id, sub'[i] = "track", tracked'[i] = "none"
          PROVE  rows'[i].status \notin Terminal
        <3>1. sub[i] = "track" /\ tracked[i] = "none" /\ Has(i)
            BY <1>1, <1>3, <2>1 DEF Base, Backed, SubmitsBacked
        <3>2. ~(cl[c] = "cancelPersist" /\ target[c] = i)
            BY <3>1 DEF CopyInv, CancelsHeld
        <3>. QED
            BY <1>1, <3>1, <3>2 DEF CopyInv, FreshRows
    <2>. QED
        BY <2>1 DEF FreshRows
<1>. QED
    BY <1>1, <1>5, <1>6, <1>7, <1>8, <1>10, <1>11, <1>12, <1>13 DEF CopyInv, DownGone

\* Only some of the state is a matter of the copies.
LEMMA CopiesHold ==
    ASSUME CopyInv,
           UNCHANGED <<rows, tracked, obj, line, at, sub, dup, reply, cl, target, carried, up>>
    PROVE  CopyInv'
<1>1. PlacedOwn' /\ OutcomeLate' /\ RepliesTracked' /\ FreshRows'
    BY DEF CopyInv, PlacedOwn, Placed, OutcomeLate, Early, Has, RepliesTracked, FreshRows
<1>2. CancelsHeld' /\ FillsAgree'
    BY DEF CopyInv, CancelsHeld, FillsAgree, Free, Agrees
<1>3. CopiesAgree' /\ DupsAgree'
    BY DEF CopyInv, CopiesAgree, DupsAgree, Agrees
<1>4. DownGone'
    BY DEF CopyInv, DownGone, DownIdle
<1>. QED
    BY <1>1, <1>2, <1>3, <1>4 DEF CopyInv

\* A crash leaves no copy behind, and Resume() puts in q.jobs what it queues.
LEMMA ProcessCopies == ASSUME Base, CopyInv, Stop \/ Crash \/ Restart PROVE CopyInv'
<1>1. CASE Stop
    <2>1. /\ UNCHANGED <<rows, tracked, obj, line, at, sub, dup, reply, cl, target, carried>>
          /\ up /\ up'
        BY <1>1 DEF Stop, submits, workers, callers, world
    <2>. QED
        BY <2>1, CopiesHold
<1>2. CASE Crash
    <2>1. /\ ~up' /\ rows' = rows
          /\ \A i \in Id : /\ tracked'[i] = "none" /\ dup'[i] = <<>>
                           /\ sub'[i] \notin {"track", "enqueue"}
                           /\ sub'[i] \in {"insert", "track", "enqueue", "idle"} => sub'[i] = sub[i]
          /\ \A c \in Caller : cl'[c] = "idle" /\ target'[c] = NoId
        BY <1>2 DEF Crash
    <2>2. /\ PlacedOwn' /\ CancelsHeld' /\ FillsAgree' /\ CopiesAgree' /\ DupsAgree'
          /\ RepliesTracked' /\ FreshRows'
        BY <2>1 DEF PlacedOwn, CancelsHeld, FillsAgree, CopiesAgree, DupsAgree, RepliesTracked, FreshRows
    <2>3. OutcomeLate'
        BY <2>1 DEF CopyInv, OutcomeLate, Early, Has
    <2>4. DownGone'
        BY <2>1 DEF DownGone, DownIdle
    <2>. QED
        BY <2>2, <2>3, <2>4 DEF CopyInv
<1>3. CASE Restart
    <2>1. /\ up' /\ ~up /\ UNCHANGED <<rows, sub, dup, reply, at, cl, target, carried>>
        BY <1>3 DEF Restart, submits, workers, callers
    <2>2. /\ \A w \in Worker : at[w] = NoId
          /\ \A i \in Id : sub[i] \notin {"insert", "track", "enqueue"} /\ dup[i] = <<>>
          /\ \A c \in Caller : cl[c] = "idle"
        BY <2>1 DEF Base, PlaceInv, DownEmpty, CopyInv, DownGone, DownIdle
    <2>3. PICK S \in {Incomplete(rows)} \union (IF StoreFails THEN {{}} ELSE {}) :
              /\ tracked' = [i \in Id |-> IF i \in S THEN "own" ELSE "none"]
              /\ line' \in {s \in [1..Cardinality(S) -> S] : \A i \in S : \E n \in DOMAIN s : s[n] = i}
        BY <1>3 DEF Restart
    <2>4. S \subseteq Id
        BY <2>3 DEF Incomplete, Stored
    <2>5. Ids(line') = S
        BY <2>3, <2>4, OnceLoaded
    <2>6. \A i \in Id : Placed(i)' => tracked'[i] = "own"
        BY <2>1, <2>2, <2>3, <2>5, QueueAssumption DEF Placed
    <2>7. OutcomeLate'
        BY <2>1 DEF CopyInv, OutcomeLate, Early, Has
    <2>. QED
        BY <2>1, <2>2, <2>3, <2>6, <2>7
           DEF CopyInv, PlacedOwn, CancelsHeld, FillsAgree, CopiesAgree, DupsAgree, RepliesTracked,
               FreshRows, DownGone
<1>. QED
    BY <1>1, <1>2, <1>3

\* Nor does a wait's lookup disturb the copies.
LEMMA FillCopies ==
    ASSUME Base, CopyInv, NEW id \in Id, NEW j \in Job, Has(id), Free(id, j), Fill(id, j)
    PROVE  CopyInv'
<1>1. /\ up /\ up' /\ UNCHANGED <<rows, sub, dup, reply, line, at, cl, target, carried>>
      /\ tracked' = [tracked EXCEPT ![id] = "read"]
    BY DEF Fill, submits, workers, callers, world
<1>2. \A i \in Id : /\ tracked[i] = "own" <=> tracked'[i] = "own"
                    /\ tracked[i] # "none" => tracked'[i] # "none"
    BY <1>1 DEF Base, Typed, MemoryTyped, Free
<1>3. PlacedOwn' /\ OutcomeLate' /\ RepliesTracked' /\ FreshRows' /\ DownGone'
    BY <1>1, <1>2 DEF CopyInv, PlacedOwn, OutcomeLate, RepliesTracked, FreshRows, DownGone, Placed,
                      Early, Has
<1>4. \A c \in Caller : cl[c] # "idle" => target[c] \in Id
    BY QueueAssumption DEF Base, Typed, CallersTyped
<1>5. CancelsHeld' /\ FillsAgree'
    BY <1>1, <1>2, <1>4 DEF CopyInv, CancelsHeld, FillsAgree, Free, Agrees
<1>6. CopiesAgree'
    <2>1. ASSUME NEW i \in Id, tracked'[i] = "read" PROVE Agrees(i, obj[i].read)'
        <3>1. CASE i = id
            BY <1>1, <3>1, FillObj DEF Base, Free, Agrees
        <3>2. CASE i # id
            BY <1>1, <2>1, <3>2, FillObj DEF Base, CopyInv, CopiesAgree, Agrees
        <3>. QED
            BY <3>1, <3>2
    <2>. QED
        BY <2>1 DEF CopiesAgree, Agrees
<1>7. DupsAgree'
    <2>1. \A i \in Id : dup[i] # <<>> => dup[i][1] \in Id
        BY DEF Base, Typed, SubmitsTyped
    <2>. QED
        BY <1>1, <1>2, <2>1 DEF CopyInv, DupsAgree, Agrees
<1>. QED
    BY <1>3, <1>5, <1>6, <1>7 DEF CopyInv

LEMMA InitCopies == Init => CopyInv
<1>. SUFFICES ASSUME Init PROVE CopyInv
    OBVIOUS
<1>1. /\ up /\ line = <<>> /\ (\A w \in Worker : at[w] = NoId) /\ (\A c \in Caller : cl[c] = "idle")
      /\ \A i \in Id : /\ rows[i] = NoRow /\ tracked[i] = "none" /\ dup[i] = <<>>
                       /\ sub[i] = "idle"
    BY DEF Init
<1>2. \A i \in Id : ~Placed(i) /\ ~Has(i)
    BY <1>1, QueueAssumption DEF Placed, Ids, Has
<1>. QED
    BY <1>1, <1>2
       DEF CopyInv, PlacedOwn, OutcomeLate, CancelsHeld, FillsAgree, CopiesAgree, DupsAgree,
           RepliesTracked, FreshRows, DownGone

\* A job whose outcome is st for whoever asks while the desk runs, and from the table.
Final(id, st) ==
    ~Early(id) /\ IF tracked[id] = "own" THEN obj[id].own.status = st ELSE rows[id].status = st

WaitsAgree == \A i \in Id : wt[i] = "fill" => up /\ Free(reply[i], row[i])

ToldFinal == \A i \in Id : told[i] \in Outcome => Final(reply[i], told[i])

\* A step of JobQueue that is no crash.
NoCrash == \/ \E id \in Id : Submit(id)
           \/ \E w \in Worker : Work(w)
           \/ \E c \in Caller : Call(c)
           \/ Stop \/ Restart \/ UNCHANGED vars

\* An outcome stays as it is, but for a crash before it is in the table.
LEMMA FinalStays ==
    ASSUME Base, CopyInv, NEW id \in Id, NEW st \in Outcome, Has(id), Final(id, st),
           NoCrash \/ \E k \in Id, j \in Job : tracked[k] # "own" /\ Fill(k, j)
    PROVE  Final(id, st)'
<1>1. ASSUME Next, tracked[id] = "own", up' PROVE obj'[id].own.status = st
    BY <1>1, OutcomeFixed DEF Final, Base
<1>2. ASSUME NEW i \in Id, Submit(i) PROVE Final(id, st)'
    <2>1. /\ rows'[id] = rows[id] /\ ~Early(id)' /\ obj'[id].own = obj[id].own
          /\ tracked[id] = "own" => tracked'[id] = "own"
          /\ tracked'[id] = "own" => tracked[id] = "own" \/ (SubmitTrack(i) /\ i = id)
        BY <1>2, SubmitLeaves, SubmitOwn DEF Base, Final
    <2>2. ~(SubmitTrack(i) /\ i = id)
        BY DEF SubmitTrack, SubmitStep, Final, Early
    <2>. QED
        BY <2>1, <2>2 DEF Final
<1>3. ASSUME NEW w \in Worker, Work(w) PROVE Final(id, st)'
    <2>1. up' /\ UNCHANGED <<tracked, sub>>
        BY <1>3, WorkRows, WorkMoves DEF Base, submits
    <2>2. tracked[id] # "own" => rows'[id] = rows[id]
        BY <1>3, WorkPlaces, WorkMoves DEF Base, CopyInv, PlacedOwn
    <2>. QED
        BY <1>1, <1>3, <2>1, <2>2 DEF Final, Early, Next
<1>4. ASSUME NEW c \in Caller, Call(c) PROVE Final(id, st)'
    <2>1. /\ up' /\ sub' = sub
          /\ \/ rows'[id].status = rows[id].status
             \/ cl[c] = "cancelPersist" /\ target[c] = id
          /\ \/ tracked' = tracked
             \/ /\ cl[c] = "getFill" /\ target[c] \in Id
                /\ tracked' = [tracked EXCEPT ![target[c]] = "read"]
        BY <1>4, CallLeaves DEF Base, CopyInv
    <2>2. tracked'[id] = "own" <=> tracked[id] = "own"
        BY <2>1 DEF CopyInv, FillsAgree, Free, Base, Typed, MemoryTyped
    <2>3. tracked[id] # "own" => rows'[id].status = rows[id].status
        BY <2>1 DEF CopyInv, CancelsHeld, Final
    <2>. QED
        BY <1>1, <1>4, <2>1, <2>2, <2>3 DEF Final, Early, Next
<1>5. CASE Restart
    <2>1. UNCHANGED <<rows, sub>> /\ tracked[id] = "none"
        BY <1>5 DEF Restart, submits, CopyInv, DownGone
    <2>2. PICK S \in {Incomplete(rows)} \union (IF StoreFails THEN {{}} ELSE {}) :
              tracked' = [i \in Id |-> IF i \in S THEN "own" ELSE "none"]
        BY <1>5 DEF Restart
    <2>3. id \notin S
        BY <2>1, <2>2 DEF Incomplete, Final, Outcome
    <2>. QED
        BY <2>1, <2>2, <2>3 DEF Final, Early
<1>6. CASE Stop \/ UNCHANGED vars
    BY <1>6 DEF Stop, vars, memory, submits, Final, Early
<1>7. ASSUME NEW k \in Id, NEW j \in Job, tracked[k] # "own", Fill(k, j) PROVE Final(id, st)'
    <2>1. UNCHANGED <<rows, sub>>
        BY <1>7 DEF Fill, submits
    <2>2. /\ obj'[id].own = obj[id].own
          /\ tracked'[id] = "own" <=> tracked[id] = "own"
        BY <1>7, FillObj DEF Base
    <2>. QED
        BY <2>1, <2>2 DEF Final, Early
<1>. QED
    BY <1>2, <1>3, <1>4, <1>5, <1>6, <1>7 DEF NoCrash

\* What a step of Calls is, if not a crash.
LEMMA NoCrashSteps ==
    ASSUME Base, AnswersInv, WaitsAgree, [CallsNext]_allVars, ~CallsCrash
    PROVE  NoCrash \/ \E k \in Id, j \in Job : tracked[k] # "own" /\ Fill(k, j)
<1>1. ASSUME NEW i \in Id, WaitFill(i)
      PROVE  \E k \in Id, j \in Job : tracked[k] # "own" /\ Fill(k, j)
    BY <1>1, WaitFills DEF WaitsAgree, WaitFill, WaitStep, Free
<1>. QED
    BY <1>1 DEF NoCrash, CallsNext, allVars, Batch, BatchBegin, BatchNext, BatchAccepted, BatchRefused,
                Desk, Wait, WaitBegin, WaitTold, WaitElapsed, WaitMiss

LEMMA CopyStep == ASSUME Base, AnswersInv, CopyInv, WaitsAgree, [CallsNext]_allVars PROVE CopyInv'
<1>1. ASSUME NEW i \in Id, WaitFill(i) PROVE CopyInv'
    <2>1. Free(reply[i], row[i])
        BY <1>1 DEF WaitsAgree, WaitFill, WaitStep
    <2>. QED
        BY <1>1, <2>1, WaitFills, FillCopies
<1>2. CASE UNCHANGED vars
    BY <1>2, CopiesHold DEF vars, memory, submits, workers, callers, world
<1>. QED
    BY <1>1, <1>2, CallsSteps, SubmitCopies, WorkCopies, CallCopyInv, ProcessCopies DEF Next

\* A wait that has read a row finds it true when it comes to put it in q.jobs.
LEMMA WaitsStep == ASSUME Base, AnswersInv, CopyInv, WaitsAgree, [CallsNext]_allVars PROVE WaitsAgree'
<1>1. CASE CallsCrash
    <2>1. ASSUME NEW i \in Id, wt'[i] = "fill" PROVE FALSE
        <3>1. wt[i] = "fill" /\ reply[i] # NoId /\ rows[reply[i]].status = told[i]
            BY <1>1, <2>1 DEF CallsCrash
        <3>2. told[i] = NotTold
            BY <3>1 DEF AnswersInv, WaitsKnown
        <3>3. reply[i] \in Id /\ Has(reply[i])
            BY <3>1 DEF Base, Typed, SubmitsTyped, Backed, SubmitsBacked
        <3>4. rows[reply[i]].status \in JobStatus
            BY <3>3 DEF Base, Typed, TableTyped, Rows, Has, Job
        <3>. QED
            BY <3>1, <3>2, <3>4 DEF NotTold, JobStatus
    <2>. QED
        BY <2>1 DEF WaitsAgree
<1>2. CASE ~CallsCrash
    <2>1. ASSUME NEW k \in Id, wt'[k] = "fill", wt[k] = "fill"
          PROVE  up' /\ Free(reply[k], row[k])'
        <3>1. up /\ Free(reply[k], row[k]) /\ row[k] \in Job /\ reply[k] \in Id /\ Has(reply[k])
            BY <2>1 DEF WaitsAgree, AnswersInv, CallsTyped, WaitsKnown, Base, Typed, SubmitsTyped,
                        Backed, SubmitsBacked
        <3>2. NoCrash \/ \E i \in Id, j \in Job : tracked[i] # "own" /\ Fill(i, j)
            BY <1>2, NoCrashSteps
        <3>3. up'
            BY <3>1, <3>2, SubmitLeaves, WorkMoves, CallLeaves
               DEF NoCrash, Base, CopyInv, Stop, Restart, Fill, vars, world
        <3>4. reply'[k] = reply[k]
            BY <3>1, AnswersStay, CallsSteps, QueueAssumption DEF Base, AnswersInv
        <3>5. row'[k] = row[k]
            <4>1. ASSUME NEW i \in Id, Wait(i) PROVE row'[k] = row[k]
                <5>1. i # k
                    BY <2>1, <4>1 DEF Wait, WaitBegin, WaitTold, WaitElapsed, WaitMiss, WaitFill,
                                      WaitStep, AnswersInv, CallsTyped
                <5>. QED
                    BY <4>1, <5>1 DEF Wait, WaitBegin, WaitTold, WaitElapsed, WaitMiss, WaitFill,
                                      AnswersInv, CallsTyped
            <4>. QED
                BY <1>2, <4>1 DEF CallsNext, Batch, BatchBegin, BatchNext, BatchAccepted, BatchRefused,
                                  Desk, calls, allVars
        <3>6. /\ tracked'[reply[k]] # "own" /\ sub'[reply[k]] # "track"
              /\ \/ row[k].status \notin Outcome /\ rows'[reply[k]].status \notin Outcome
                 \/ row[k].status = rows'[reply[k]].status
            <4>1. ~Restart
                BY <3>1 DEF Restart
            <4>. QED
                BY <3>1, <3>2, <4>1, FreeStays DEF NoCrash, Free, Agrees
        <3>. QED
            BY <3>3, <3>4, <3>5, <3>6 DEF Free, Agrees
    <2>2. ASSUME NEW k \in Id, wt'[k] = "fill", wt[k] # "fill"
          PROVE  up' /\ Free(reply[k], row[k])'
        <3>1. WaitMiss(k)
            BY <1>2, <2>2 DEF CallsNext, Batch, BatchBegin, BatchNext, BatchAccepted, BatchRefused,
                              Desk, calls, allVars, Wait, WaitBegin, WaitTold, WaitElapsed, WaitMiss,
                              WaitFill, WaitStep, AnswersInv, CallsTyped
        <3>2. /\ up /\ tracked[reply[k]] = "none" /\ wt[k] = "asking" /\ row'[k] = rows[reply[k]]
              /\ UNCHANGED <<up, tracked, sub, rows, reply>>
            BY <3>1 DEF WaitMiss, WaitStep, vars, memory, submits, world, AnswersInv, CallsTyped
        <3>3. reply[k] \in Id /\ Known(reply[k])
            BY <3>2 DEF AnswersInv, WaitsKnown, Base, Typed, SubmitsTyped, Known
        <3>4. Free(reply[k], rows[reply[k]])
            BY <3>2, <3>3, MissedIsFree
        <3>. QED
            BY <3>2, <3>4 DEF Free, Agrees
    <2>. QED
        BY <2>1, <2>2 DEF WaitsAgree, Free, Agrees
<1>. QED
    BY <1>1, <1>2

\* What is told of a job is final when it is told.
LEMMA ToldStep ==
    ASSUME Base, AnswersInv, CopyInv, WaitsAgree, ToldFinal, [CallsNext]_allVars
    PROVE  ToldFinal'
<1>1. CASE CallsCrash
    <2>1. ASSUME NEW i \in Id, told'[i] \in Outcome PROVE Final(reply[i], told[i])'
        <3>1. reply[i] # NoId /\ rows[reply[i]].status = told[i] /\ told'[i] = told[i]
            BY <1>1, <2>1 DEF CallsCrash, Outcome, NotTold
        <3>2. reply[i] \in Id /\ Has(reply[i])
            BY <3>1 DEF Base, Typed, SubmitsTyped, Backed, SubmitsBacked
        <3>3. ~Early(reply[i])
            BY <2>1, <3>1, <3>2 DEF CopyInv, OutcomeLate
        <3>4. /\ UNCHANGED <<rows, reply>> /\ tracked'[reply[i]] = "none"
              /\ sub'[reply[i]] \in {"broken", sub[reply[i]]}
            BY <1>1, <3>2 DEF CallsCrash, Crash
        <3>. QED
            BY <3>1, <3>3, <3>4 DEF Final, Early
    <2>. QED
        BY <2>1 DEF ToldFinal, Final, Early
<1>2. CASE ~CallsCrash
    <2>1. ASSUME NEW i \in Id, told'[i] \in Outcome, told'[i] = told[i]
          PROVE  Final(reply[i], told[i])'
        <3>1. reply[i] \in Id /\ Has(reply[i]) /\ Final(reply[i], told[i])
            <4>1. told[i] \in Outcome /\ told[i] # NotTold
                BY <2>1 DEF Outcome, NotTold
            <4>2. reply[i] # NoId
                BY <4>1 DEF AnswersInv, WaitsKnown
            <4>. QED
                BY <4>1, <4>2 DEF ToldFinal, Base, Typed, SubmitsTyped, Backed, SubmitsBacked
        <3>2. NoCrash \/ \E k \in Id, j \in Job : tracked[k] # "own" /\ Fill(k, j)
            BY <1>2, NoCrashSteps
        <3>3. /\ sub'[reply[i]] \notin {"idle", "insert", "track", "enqueue"}
              /\ IF tracked'[reply[i]] = "own" THEN obj'[reply[i]].own.status = told[i]
                 ELSE rows'[reply[i]].status = told[i]
            BY <2>1, <3>1, <3>2, FinalStays DEF Final, Early
        <3>4. reply'[i] = reply[i]
            BY <3>1, AnswersStay, CallsSteps, QueueAssumption DEF Base, AnswersInv
        <3>. QED
            BY <2>1, <3>3, <3>4 DEF Final, Early
    <2>2. ASSUME NEW i \in Id, told'[i] \in Outcome, told'[i] # told[i]
          PROVE  Final(reply[i], told[i])'
        <3>1. WaitTold(i) \/ WaitFill(i)
            BY <1>2, <2>2 DEF CallsNext, Batch, BatchBegin, BatchNext, BatchAccepted, BatchRefused,
                              Desk, calls, allVars, Wait, WaitBegin, WaitTold, WaitElapsed, WaitMiss,
                              WaitFill, AnswersInv, CallsTyped
        <3>2. wt[i] # "idle" /\ reply[i] \in Id /\ Has(reply[i])
            BY <3>1 DEF WaitTold, WaitFill, WaitStep, AnswersInv, WaitsKnown, Base, Typed,
                        SubmitsTyped, Backed, SubmitsBacked
        <3>3. CASE WaitTold(i)
            <4>1. /\ UNCHANGED <<tracked, obj, rows, sub, reply>> /\ tracked[reply[i]] \in {"own", "read"}
                  /\ told'[i] = Tracked(reply[i]).status
                BY <3>2, <3>3 DEF WaitTold, vars, memory, submits, AnswersInv, CallsTyped, Base, Typed,
                                  MemoryTyped
            <4>2. CASE tracked[reply[i]] = "own"
                BY <2>2, <3>2, <4>1, <4>2 DEF Tracked, Base, OutcomeInv, Unfinished, Final, Early
            <4>3. CASE tracked[reply[i]] = "read"
                <5>1. Agrees(reply[i], Tracked(reply[i]))
                    BY <3>2, <4>3 DEF CopyInv, CopiesAgree, Tracked
                <5>2. rows[reply[i]].status = told'[i]
                    BY <2>2, <4>1, <5>1 DEF Agrees
                <5>3. ~Early(reply[i])
                    BY <2>2, <3>2, <5>2 DEF CopyInv, OutcomeLate
                <5>. QED
                    BY <4>1, <4>3, <5>2, <5>3 DEF Final, Early
            <4>. QED
                BY <4>1, <4>2, <4>3
        <3>4. CASE WaitFill(i)
            <4>1. /\ UNCHANGED <<rows, sub, reply>> /\ tracked'[reply[i]] = "read"
                  /\ told'[i] = row[i].status
                BY <2>2, <3>2, <3>4 DEF WaitFill, submits, AnswersInv, CallsTyped, Base, Typed,
                                        MemoryTyped
            <4>2. Agrees(reply[i], row[i])
                BY <3>4 DEF WaitsAgree, WaitFill, WaitStep, Free
            <4>3. rows[reply[i]].status = told'[i]
                BY <2>2, <4>1, <4>2 DEF Agrees
            <4>4. ~Early(reply[i])
                BY <2>2, <3>2, <4>3 DEF CopyInv, OutcomeLate
            <4>. QED
                BY <4>1, <4>3, <4>4 DEF Final, Early
        <3>. QED
            BY <3>1, <3>3, <3>4
    <2>. QED
        BY <2>1, <2>2 DEF ToldFinal, Final, Early
<1>. QED
    BY <1>1, <1>2

LEMMA ToldInvariant == CallsSpec => [](CopyInv /\ WaitsAgree /\ ToldFinal)
<1>1. CallsInit => CopyInv /\ WaitsAgree /\ ToldFinal
    BY InitCopies DEF CallsInit, WaitsAgree, ToldFinal, NotTold, Outcome
<1>. QED
    BY <1>1, AnswersInvariant, CopyStep, WaitsStep, ToldStep, PTL DEF CallsSpec

\* What the client of a wait was told of a job that is done or has failed is what any other
\* client is told, as long as the desk runs, by whichever of the ways to look a job up; and a
\* crash leaves it so when the table had it.  It holds whatever writes the store loses: a copy
\* that a lookup read agrees with the row about the outcome, and while a worker's value is in
\* q.jobs no lookup replaces it.
THEOREM ToldHolds == CallsSpec => []ToldStands
<1>1. Base /\ AnswersInv /\ CopyInv /\ ToldFinal => ToldStands
    <2>. SUFFICES ASSUME Base, AnswersInv, CopyInv, ToldFinal, NEW i \in Id, told[i] \in Outcome
                  PROVE  IF tracked[reply[i]] = "none" THEN rows[reply[i]].status = told[i]
                         ELSE Tracked(reply[i]).status = told[i]
        BY DEF ToldStands, Outcome
    <2>1. reply[i] \in Id /\ Final(reply[i], told[i]) /\ tracked[reply[i]] \in {"none", "own", "read"}
        BY DEF ToldFinal, AnswersInv, WaitsKnown, Outcome, NotTold, Base, Typed, SubmitsTyped, MemoryTyped
    <2>2. tracked[reply[i]] = "read" => obj[reply[i]].read.status = told[i]
        BY <2>1 DEF CopyInv, CopiesAgree, Agrees, Final
    <2>. QED
        BY <2>1, <2>2 DEF Final, Tracked
<1>. QED
    BY <1>1, AnswersInvariant, ToldInvariant, PTL
=============================================================================
