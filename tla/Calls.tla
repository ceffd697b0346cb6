-------------------------------- MODULE Calls --------------------------------
(***************************************************************************)
(* The requests that last (main.go): a batch, whose handler calls          *)
(* SubmitBatch(); the wait for one job, of a direct tool, of ?wait= and of *)
(* GET /jobs/{id}/wait, all in WaitForTerminal(); and the inbox, with a    *)
(* client that acknowledges what WaitForAnyTerminal() lists.  They run on  *)
(* the desk of JobQueue, and a crash ends them all.                        *)
(*                                                                         *)
(* The deadline of a wait may come at any time, and the client of a wait   *)
(* asks again until it is told an outcome.                                 *)
(***************************************************************************)
EXTENDS JobQueue, SequencesExt

CONSTANTS Items \* the jobs of the batch, in order; the others are submitted alone

\* SubmitBatch() submits every item with an empty key.
ASSUME CallsAssumption ==
    /\ Items \in Seq(Id) /\ IsInjective(Items)
    /\ \A i \in Range(Items) : KeyOf[i] = NoKey

VARIABLES
    batch, \* where the handler of the batch is: "idle", "running", "answered", "broken"
    jobs,  \* the jobs SubmitBatch() has collected, which the answer names
    wt,    \* the wait for the job of each submit(): "idle", "asking", "fill", "answered"
    row,   \* the row a wait read that did not find its job in memory
    told   \* the outcome its client was told, or NotTold

calls == <<batch, jobs, wt, row, told>>
allVars == <<vars, calls>>

NotTold == "not told"

CallsInit ==
    /\ Init
    /\ batch = "idle" /\ jobs = <<>>
    /\ wt = [i \in Id |-> "idle"] /\ row = [i \in Id |-> NewJob]
    /\ told = [i \in Id |-> NotTold]

------------------------------------------------------------------------------
(* handleCreateBatch() and SubmitBatch().                                    *)

Next1 == Items[Len(jobs) + 1]

BatchBegin ==
    /\ up /\ batch = "idle" /\ batch' = "running"
    /\ UNCHANGED <<vars, jobs, wt, row, told>>

\* submit() of an item has returned a job.
BatchNext ==
    /\ up /\ batch = "running" /\ jobs # Items
    /\ sub[Next1] = "done"
    /\ jobs' = Append(jobs, reply[Next1])
    /\ UNCHANGED <<vars, batch, wt, row, told>>

BatchAccepted ==
    /\ up /\ batch = "running" /\ jobs = Items
    /\ batch' = "answered"
    /\ UNCHANGED <<vars, jobs, wt, row, told>>

\* Fault: a batch that failed names no jobs.
BatchRefusedSilent ==
    /\ up /\ batch = "running" /\ jobs # Items
    /\ sub[Next1] = "refused"
    /\ batch' = "answered" /\ jobs' = <<>>
    /\ UNCHANGED <<vars, wt, row, told>>

\* submit() of an item has failed: the answer is an error, with the jobs so far.
BatchRefused ==
    /\ up /\ batch = "running" /\ jobs # Items
    /\ sub[Next1] = "refused"
    /\ batch' = "answered"
    /\ UNCHANGED <<vars, jobs, wt, row, told>>

\* What GET /batches/{id} finds of it.
ListByBatch == {i \in Range(Items) : rows[i] # NoRow}

Batch == BatchBegin \/ BatchNext \/ BatchAccepted \/ BatchRefused

------------------------------------------------------------------------------
(* WaitForTerminal().                                                        *)

WaitStep(i, from, to) == up /\ wt[i] = from /\ wt' = [wt EXCEPT ![i] = to]

\* The client knows the job from the answer to its submit or its batch.
Asks(i) == IF i \in Range(Items) THEN batch = "answered" /\ i \in Range(jobs) ELSE reply[i] # NoId

WaitBegin(i) ==
    /\ WaitStep(i, "idle", "asking")
    /\ Asks(i)
    /\ UNCHANGED <<vars, batch, jobs, row, told>>

\* Get() finds the job in memory; it is asked before the deadline is looked at.
WaitTold(i) ==
    LET id == reply[i] IN
    /\ WaitStep(i, "asking", "answered")
    /\ tracked[id] # "none" /\ Tracked(id).status \in Terminal
    /\ told' = [told EXCEPT ![i] = Tracked(id).status]
    /\ UNCHANGED <<vars, batch, jobs, row>>

\* The deadline has passed, or the client has gone: 202, and it asks again.
WaitElapsed(i) ==
    LET id == reply[i] IN
    /\ WaitStep(i, "asking", "idle")
    /\ tracked[id] # "none" /\ Tracked(id).status \notin Terminal
    /\ UNCHANGED <<vars, batch, jobs, row, told>>

\* Get() of a job that is not in q.jobs, in two steps like GetMiss and GetFill.
WaitMiss(i) ==
    LET id == reply[i] IN
    /\ WaitStep(i, "asking", "fill")
    /\ tracked[id] = "none" /\ id \in Stored(rows)
    /\ row' = [row EXCEPT ![i] = rows[id]]
    /\ UNCHANGED <<vars, batch, jobs, told>>

WaitFill(i) ==
    LET id == reply[i] IN
    /\ WaitStep(i, "fill", IF row[i].status \in Terminal THEN "answered" ELSE "asking")
    /\ tracked' = [tracked EXCEPT ![id] = "read"]
    /\ obj' = [obj EXCEPT ![id].read = row[i]]
    /\ told' = IF row[i].status \in Terminal THEN [told EXCEPT ![i] = row[i].status] ELSE told
    /\ row' = [row EXCEPT ![i] = NewJob]
    /\ UNCHANGED <<rows, line, stopped, toolGone, submits, workers, callers, world, lost, batch, jobs>>

Wait(i) == WaitBegin(i) \/ WaitTold(i) \/ WaitElapsed(i) \/ WaitMiss(i) \/ WaitFill(i)

------------------------------------------------------------------------------
(* The desk below.                                                           *)

\* An item is submitted when its turn has come.
Desk ==
    /\ (\E id \in Id : Submit(id)) \/ (\E w \in Worker : Work(w)) \/ (\E c \in Caller : Call(c))
    /\ \A i \in Range(Items) : sub[i] = "idle" /\ sub'[i] # "idle"
                               => batch = "running" /\ jobs # Items /\ i = Next1
    /\ UNCHANGED calls

\* The requests break off; a client that was told something remembers it, but an
\* outcome that was not in the table yet is void.
CallsCrash ==
    /\ Crash
    /\ batch' = IF batch = "running" THEN "broken" ELSE batch
    /\ wt' = [i \in Id |-> IF reply[i] # NoId /\ rows[reply[i]].status = told[i] THEN wt[i] ELSE "idle"]
    /\ told' = [i \in Id |-> IF reply[i] # NoId /\ rows[reply[i]].status = told[i] THEN told[i] ELSE NotTold]
    /\ row' = [i \in Id |-> NewJob]
    /\ UNCHANGED jobs

CallsNext == \/ Batch \/ Desk \/ CallsCrash
             \/ (Stop \/ Restart) /\ UNCHANGED calls
             \/ \E i \in Id : Wait(i)

\* What GET /jobs and wait-any list, most recent first and at most so many; the client
\* acknowledges what it is shown.
ListTerminalUnacked == TerminalUnacked(rows)
InboxAck(c) == /\ \E id \in ListTerminalUnacked : AckMark(c, id) \/ AckRead(c, id)
               /\ UNCHANGED calls

\* The fairness of JobQueue, of the handlers, and of two clients: the one that waits
\* asks again, the one of the inbox acknowledges.
CallsFairness ==
    /\ \A id \in Id : WF_allVars(sub[id] # "idle" /\ Submit(id) /\ UNCHANGED calls)
    /\ \A w \in Worker : WF_allVars(Work(w) /\ UNCHANGED calls)
    /\ \A c \in Caller : /\ WF_allVars(cl[c] # "idle" /\ Call(c) /\ UNCHANGED calls)
                         /\ WF_allVars(InboxAck(c))
    /\ WF_allVars(Restart /\ UNCHANGED calls)
    /\ WF_allVars(batch # "idle" /\ Batch)
    /\ \A i \in Id : WF_allVars(Wait(i))

CallsSpec == CallsInit /\ [][CallsNext]_allVars /\ CallsFairness

------------------------------------------------------------------------------
(* Properties the code has.                                                  *)

\* The answer to a batch, accepted or failed half way, names the jobs that were made of
\* it, each of them and no other, as GET /batches/{id} does later, whatever happens to the
\* jobs; and no other item is ever run.
BatchAnswerNames ==
    batch = "answered" => /\ ListByBatch = Range(jobs)
                          /\ \A i \in Range(Items) \ Range(jobs) : execs[i] = 0

\* What a client was told of a job is what any other is told, as long as the desk runs;
\* and when the table had it, after a crash too.
ToldStands ==
    \A i \in Id : LET id == reply[i] IN
        up /\ told[i] \in {"done", "failed"}
        => IF tracked[id] = "none" THEN rows[id].status = told[i] ELSE Tracked(id).status = told[i]

\* A client that goes on waiting is told an outcome, whatever deadlines pass and wherever
\* the desk crashes.
WaitIsAnswered == \A i \in Id : Asks(i) ~> told[i] # NotTold

\* The inbox empties, when its client acknowledges what is in it, and stays so: no later
\* write of a worker or a caller puts a job in it again.
InboxDrains == \A id \in Id : id \in ListTerminalUnacked ~> [](id \notin ListTerminalUnacked)
=============================================================================
