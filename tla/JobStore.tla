------------------------------- MODULE JobStore ------------------------------
(***************************************************************************)
(* The jobs table behind the JobStore interface                            *)
(* (src/cmd/agent-desk/store.go, store_sqlite.go): what each statement     *)
(* does to the rows.  The store serialises its statements - SQLite's pool  *)
(* has one connection - so one call is one step of the modules that use    *)
(* it.  Of a job's columns the model keeps those the properties tell       *)
(* apart: status, attempt, error (why the last attempt ended) and acked.   *)
(***************************************************************************)
EXTENDS Naturals, Sequences, FiniteSets

CONSTANTS Id,     \* the job ids; newJobID never returns one twice
          Key,    \* the pairs (tool, idempotency_key)
          NoKey,  \* no idempotency_key was given
          KeyOf,  \* the key each job is submitted with
          NoRow   \* no row has this id

ASSUME KeyAssumption ==
    IsFiniteSet(Id) /\ NoKey \notin Key /\ KeyOf \in [Id -> Key \union {NoKey}]

JobStatus == {"queued", "running", "done", "failed", "canceled"}

\* isTerminal()
Terminal == {"done", "failed", "canceled"}

\* Error is empty, or tells why the job failed: for good (contract, integrity,
\* enforcement, no such tool), in a way a retry may cure, or by the operator.
Reason == {"none", "permanent", "retryable", "operator"}

Job == [status : JobStatus, attempt : Nat, error : Reason, acked : BOOLEAN]

ASSUME NoRowAssumption == NoRow \notin Job

Rows == [Id -> Job \union {NoRow}]

Stored(rows) == {i \in Id : rows[i] # NoRow}

NewJob == [status |-> "queued", attempt |-> 0, error |-> "none", acked |-> FALSE]

\* Fault: the unique index does not exist.
OwnersUnindexed(rows, id) == {}

\* The rows that hold the key of id: the partial unique index is on keys only.
Owners(rows, id) == {o \in Stored(rows) : KeyOf[o] = KeyOf[id] /\ KeyOf[id] # NoKey}

\* Insert(), the statement that writes: ON CONFLICT DO NOTHING.
Inserted(rows, id) ==
    IF Owners(rows, id) = {} THEN [rows EXCEPT ![id] = NewJob] ELSE rows

\* Fault: Update writes the whole job.
UpdatedWhole(rows, id, cp) ==
    [i \in Id |-> IF i = id /\ rows[i] # NoRow THEN cp ELSE rows[i]]

\* Update(): every lifecycle column, and never acked.
Updated(rows, id, cp) ==
    [i \in Id |-> IF i = id /\ rows[i] # NoRow
                  THEN [cp EXCEPT !.acked = rows[i].acked] ELSE rows[i]]

\* Ack(): the flag and nothing else, whatever the status.
AckedRow(rows, id) ==
    [i \in Id |-> IF i = id /\ rows[i] # NoRow
                  THEN [rows[i] EXCEPT !.acked = TRUE] ELSE rows[i]]

\* Fault: only the jobs that no worker had begun are loaded.
IncompleteQueued(rows) == {i \in Stored(rows) : rows[i].status = "queued"}

\* Fault: every job that was not acknowledged is loaded, whatever its status.
IncompleteUnacked(rows) == {i \in Stored(rows) : ~rows[i].acked}

\* LoadIncomplete(), the set; the order is by a text timestamp and left open.
Incomplete(rows) == {i \in Stored(rows) : rows[i].status \in {"queued", "running"}}

\* ListTerminalUnacked(): the inbox.
TerminalUnacked(rows) ==
    {i \in Stored(rows) : rows[i].status \in Terminal /\ ~rows[i].acked}
=============================================================================
