------------------------------- MODULE JobLine -------------------------------
(***************************************************************************)
(* What the backlog promises, without its machinery: one line of jobs,     *)
(* served first come first served, that holds a bounded number of new      *)
(* jobs; a job belongs to the line or to one worker until it is finished.  *)
(* Backlog implements this specification (Backlog!LineSpec), and JobQueue  *)
(* uses it in place of the slice, the dispatcher and the channel.          *)
(***************************************************************************)
EXTENDS Naturals, Sequences, FiniteSets

CONSTANTS Job,      \* every job
          New,      \* the jobs that need a free place: they come from submit()
          Capacity, \* the places for new jobs
          Worker    \* the workers

VARIABLES line,   \* the jobs no worker has taken, in the order of service
          slots,  \* the places that are promised to a submit()
          busy,   \* the jobs a worker holds
          seen,   \* the new jobs that a worker has taken at least once
          done    \* the jobs that are finished

lineVars == <<line, slots, busy, seen, done>>

InLine == {line[i] : i \in DOMAIN line}

\* The new jobs that no worker has seen yet: the retried ones take no place.
Waiting == (New \intersect InLine) \ seen

Known == InLine \union busy \union done

LineInit == line = <<>> /\ slots = 0 /\ busy = {} /\ seen = {} /\ done = {}

Promise ==
    /\ Cardinality(Waiting) + slots < Capacity
    /\ slots' = slots + 1
    /\ UNCHANGED <<line, busy, seen, done>>

Withdraw ==
    /\ slots > 0 /\ slots' = slots - 1
    /\ UNCHANGED <<line, busy, seen, done>>

Accept(j) ==
    /\ j \in New \ Known
    /\ slots > 0 /\ slots' = slots - 1
    /\ line' = Append(line, j)
    /\ UNCHANGED <<busy, seen, done>>

\* A job of an earlier process: it needs no place.
Reload(j) ==
    /\ j \in Job \ (New \union Known)
    /\ line' = Append(line, j)
    /\ UNCHANGED <<slots, busy, seen, done>>

Take ==
    /\ line # <<>> /\ Cardinality(busy) < Cardinality(Worker)
    /\ line' = Tail(line)
    /\ busy' = busy \union {Head(line)}
    /\ seen' = seen \union (New \intersect {Head(line)})
    /\ UNCHANGED <<slots, done>>

Complete(j) ==
    /\ j \in busy /\ busy' = busy \ {j}
    /\ done' = done \union {j}
    /\ UNCHANGED <<line, slots, seen>>

\* A job to be retried goes to the end of the line, over the capacity if need be.
Rejoin(j) ==
    /\ j \in busy /\ busy' = busy \ {j}
    /\ line' = Append(line, j)
    /\ UNCHANGED <<slots, seen, done>>

LineNext ==
    \/ Promise \/ Withdraw \/ Take
    \/ \E j \in Job : Accept(j) \/ Reload(j) \/ Complete(j) \/ Rejoin(j)

LineSpec == LineInit /\ [][LineNext]_lineVars
=============================================================================
