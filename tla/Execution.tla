------------------------------ MODULE Execution ------------------------------
(***************************************************************************)
(* What the desk enforces on a run of a tool, and what it says of it:      *)
(* the start of the desk with its probes and -strict (main.go), Execute()  *)
(* on several workers (executor.go, integrity.go), the workspace that the  *)
(* attempts of a job share, and GET / and GET /jobs/{id}/out/{file}.       *)
(*                                                                         *)
(* The facts of the machine are the box the desk is started on.  Of a      *)
(* file in out/ only what Execute() tells apart is kept, and which attempt *)
(* wrote it.  The order of the jobs is that of JobQueue and is left open.  *)
(***************************************************************************)
EXTENDS Naturals, Sequences, FiniteSets

CONSTANTS Job, Worker,
          MaxRetries, \* MaxRetries of the tool
          Out,        \* sandbox.out of the tool: its declared files, in order
          Scratch,    \* the other names it may write in out/
          Boxes,      \* the machines and the ways to start the desk on them
          MayGo,      \* the programs that may be uninstalled while it runs
          MaxCrashes  \* bound: the crashes of the desk

Programs == {"bwrap", "systemd-run"}

\* exposed: listensBeyondLoopback() and no auth.  filter: the seccomp program
\* assembles, and bwrap applies it.  scope: there is a user D-Bus session.
Box == [strict : BOOLEAN, root : BOOLEAN, exposed : BOOLEAN, pinned : BOOLEAN,
        filter : BOOLEAN, scope : BOOLEAN, programs : SUBSET Programs]

Declared == {Out[i] : i \in DOMAIN Out}
File == Declared \union Scratch

\* NewQueue() makes one worker where it is told of fewer.
ASSUME ExecutionAssumption ==
    /\ MaxRetries \in Nat /\ MaxCrashes \in Nat
    /\ Boxes \subseteq Box /\ MayGo \subseteq Programs
    /\ IsFiniteSet(Worker) /\ Worker # {}
    /\ Out \in Seq(Declared) /\ Scratch \intersect Declared = {}

VARIABLES
    \* the machine
    box, installed,
    script,    \* "vetted", or "changed" since the tool was pinned
    out,       \* the files in the out/ of each job
    survivors, \* the jobs of which a process runs that no desk waits for
    \* the desk: the flags of Desk, the tool in d.tools, the workers
    phase, sandboxOK, seccompOK, limitsOK, loaded,
    wk, at, att,
    job,       \* the jobs, which the store keeps across a crash
    \* history
    crashes,
    uncapped   \* the runs without caps that a strict desk began since its start

machine == <<box, installed, script>>
flags   == <<phase, sandboxOK, seccompOK, limitsOK, loaded>>
history == <<crashes, uncapped>>
vars == <<machine, out, survivors, flags, wk, at, att, job, history>>

\* What is at a name in out/, or the result of a job: a link, or the regular file that
\* the n-th attempt wrote.
None == [kind |-> "none", by |-> 0]
Link == [kind |-> "link", by |-> 0]
Data(n) == [kind |-> "file", by |-> n]
Attempts == (IF MaxRetries > 1 THEN MaxRetries ELSE 1) + MaxCrashes
Content == {None, Link} \union {Data(n) : n \in 1..Attempts}

NoJob == "no job"
Fresh == [status |-> "none", attempt |-> 0, result |-> None]
NoRun == [boxed |-> FALSE, filtered |-> FALSE, capped |-> FALSE, piped |-> TRUE, entry |-> "vetted",
          script |-> "vetted"]

TypeOK ==
    /\ box \in Boxes /\ installed \subseteq Programs /\ script \in {"vetted", "changed"}
    /\ out \in [Job -> [File -> Content]] /\ survivors \subseteq Job
    /\ phase \in {"off", "refused", "serving"}
    /\ <<sandboxOK, seccompOK, limitsOK, loaded>> \in BOOLEAN \X BOOLEAN \X BOOLEAN \X BOOLEAN
    /\ wk \in [Worker -> {"idle", "entered", "admitted", "running"}]
    /\ at \in [Worker -> Job \union {NoJob}]
    /\ att \in [Worker -> [boxed : BOOLEAN, filtered : BOOLEAN, capped : BOOLEAN, piped : BOOLEAN,
                           entry : {"vetted", "changed"}, script : {"vetted", "changed"}]]
    /\ job \in [Job -> [status : {"none", "queued", "running", "done", "failed", "canceled"},
                        attempt : 0..Attempts, result : Content]]
    /\ crashes \in Nat /\ uncapped \in Nat

Init ==
    /\ box \in Boxes /\ installed = box.programs /\ script = "vetted"
    /\ out = [j \in Job |-> [f \in File |-> None]] /\ survivors = {}
    /\ phase = "off" /\ sandboxOK = FALSE /\ seccompOK = FALSE /\ limitsOK = FALSE /\ loaded = FALSE
    /\ wk = [w \in Worker |-> "idle"] /\ at = [w \in Worker |-> NoJob]
    /\ att = [w \in Worker |-> NoRun]
    /\ job = [j \in Job |-> Fresh]
    /\ crashes = 0 /\ uncapped = 0

------------------------------------------------------------------------------
(* The start of the desk.                                                    *)

HasBwrap == "bwrap" \in installed
CanScopeJobs == box.scope /\ "systemd-run" \in installed
ProbeSeccomp == HasBwrap /\ box.filter

\* verifyIntegrity() of the tool: its run script, and its interpreter in the same way.
VerifyIntegrity == box.pinned => script = "vetted"

\* Fault: the filter is not on the list.
RefusesNoFilter ==
    box.strict /\ (~HasBwrap \/ ~CanScopeJobs \/ box.root \/ box.exposed)

\* What -strict will not start without.
StrictRefuses ==
    box.strict /\ (~HasBwrap \/ ~ProbeSeccomp \/ ~CanScopeJobs \/ box.root \/ box.exposed)

Incomplete(j) == job[j].status \in {"queued", "running"}

\* main(), up to and with Resume().
Startup ==
    /\ phase = "off"
    /\ loaded' = VerifyIntegrity
    /\ sandboxOK' = HasBwrap /\ limitsOK' = CanScopeJobs /\ seccompOK' = ProbeSeccomp
    /\ phase' = IF StrictRefuses THEN "refused" ELSE "serving"
    /\ job' = [j \in Job |-> IF phase' = "serving" /\ Incomplete(j)
                             THEN [job[j] EXCEPT !.status = "queued"] ELSE job[j]]
    /\ uncapped' = 0
    /\ UNCHANGED <<machine, out, survivors, wk, at, att, crashes>>

\* What a client may ask for: a job of a tool that is loaded, and to cancel one.
Submit(j) ==
    /\ phase = "serving" /\ loaded /\ job[j].status = "none"
    /\ job' = [job EXCEPT ![j].status = "queued"]
    /\ UNCHANGED <<machine, out, survivors, flags, wk, at, att, history>>

Cancel(j) ==
    /\ phase = "serving" /\ Incomplete(j)
    /\ job' = [job EXCEPT ![j].status = "canceled"]
    /\ UNCHANGED <<machine, out, survivors, flags, wk, at, att, history>>

------------------------------------------------------------------------------
(* process() and Execute().                                                  *)

WorkerStep(w, from, to) == wk[w] = from /\ wk' = [wk EXCEPT ![w] = to]

\* Fault: one attempt more.
OutcomeOnceMore(j, o) ==
    CASE job[j].status = "canceled" -> "canceled"
      [] job[j].status # "canceled" /\ o = "done" -> "done"
      [] job[j].status # "canceled" /\ o = "retry" /\ job[j].attempt <= MaxRetries -> "queued"
      [] OTHER -> "failed"

\* What process() makes of the outcome of Execute(): of a job that was canceled
\* nothing, and a violation of the contract, of integrity or of enforcement is final.
Outcome(j, o) ==
    CASE job[j].status = "canceled" -> "canceled"
      [] job[j].status # "canceled" /\ o = "done" -> "done"
      [] job[j].status # "canceled" /\ o = "retry" /\ job[j].attempt < MaxRetries -> "queued"
      [] OTHER -> "failed"

End(w, from, o, result) ==
    LET j == at[w] IN
    /\ WorkerStep(w, from, "idle")
    /\ at' = [at EXCEPT ![w] = NoJob] /\ att' = [att EXCEPT ![w] = NoRun]
    /\ job' = [job EXCEPT ![j].status = Outcome(j, o),
                          ![j].result = IF Outcome(j, o) = "done" THEN result ELSE @]

\* Execute() returns the error before a process is started.
Reject(w, from, o) ==
    End(w, from, o, None) /\ UNCHANGED <<machine, out, survivors, flags, history>>

\* process() takes the job; a restarted desk may not have its tool.
Begin(w, j) ==
    /\ phase = "serving" /\ job[j].status = "queued"
    /\ \A v \in Worker : at[v] # j
    /\ IF loaded
       THEN /\ WorkerStep(w, "idle", "entered")
            /\ at' = [at EXCEPT ![w] = j]
            /\ att' = [att EXCEPT ![w].entry = script]
            /\ job' = [job EXCEPT ![j].status = "running", ![j].attempt = @ + 1]
       ELSE wk[w] = "idle" /\ job' = [job EXCEPT ![j].status = "failed"] /\ UNCHANGED <<wk, at, att>>
    /\ UNCHANGED <<machine, out, survivors, flags, history>>

\* Fault: the flag alone decides, and the pin is left to the loading of the tool.
AdmitUnverified(w) ==
    /\ box.strict => limitsOK
    /\ WorkerStep(w, "entered", "admitted")
    /\ UNCHANGED <<machine, out, survivors, flags, at, att, job, history>>

\* Fault: the flag is left to the start of the desk.
AdmitUnlimited(w) ==
    /\ VerifyIntegrity
    /\ WorkerStep(w, "entered", "admitted")
    /\ UNCHANGED <<machine, out, survivors, flags, at, att, job, history>>

\* The head of Execute(): the caps under -strict, the pins, and the workspace with
\* the input in it, which can fail and can be found to lead outside.
NoCaps(w) == box.strict /\ ~limitsOK /\ Reject(w, "entered", "enforcement")
Unvetted(w) == (box.strict => limitsOK) /\ ~VerifyIntegrity /\ Reject(w, "entered", "integrity")
NoWorkspace(w) == \E o \in {"retry", "contract"} :
    (box.strict => limitsOK) /\ VerifyIntegrity /\ Reject(w, "entered", o)
Admit(w) ==
    /\ box.strict => limitsOK
    /\ VerifyIntegrity
    /\ WorkerStep(w, "entered", "admitted")
    /\ UNCHANGED <<machine, out, survivors, flags, at, att, job, history>>

\* The run as it is put together: bwrap if it is there, the filter on a pipe in it,
\* the scope around it, by the flag as it is now.  Without bwrap there is no scope.
Run(w, pipe) == [boxed    |-> HasBwrap,
                 filtered |-> HasBwrap /\ seccompOK /\ pipe,
                 capped   |-> HasBwrap /\ limitsOK /\ "systemd-run" \in installed,
                 piped    |-> pipe,
                 entry    |-> att[w].entry,
                 script   |-> script]

\* What -strict does not run: no sandbox, or no pipe for the filter.
RunRefused(pipe) == box.strict /\ (~HasBwrap \/ (seccompOK /\ ~pipe))

LaunchRefused(w) == \E pipe \in BOOLEAN : RunRefused(pipe) /\ Reject(w, "admitted", "enforcement")

\* A command is not started when its context is already canceled.
LaunchCanceled(w) ==
    wk[w] = "admitted" /\ job[at[w]].status = "canceled" /\ Reject(w, "admitted", "retry")

\* cmd.Run() starts the process.
Launch(w) ==
    /\ WorkerStep(w, "admitted", "running")
    /\ job[at[w]].status # "canceled"
    /\ \E pipe \in BOOLEAN :
         /\ ~RunRefused(pipe)
         /\ att' = [att EXCEPT ![w] = Run(w, pipe)]
         /\ uncapped' = IF box.strict /\ ~Run(w, pipe).capped THEN uncapped + 1 ELSE uncapped
    /\ UNCHANGED <<machine, out, survivors, flags, at, job, crashes>>

\* What a process of the job may have made of out/: nothing empties it, and every
\* attempt finds what the earlier ones left.
Writes(j) == {c \in [File -> Content] :
                \A f \in File : \/ c[f] = out[j][f]
                                \/ f \in Declared /\ c[f] \in {None, Link, Data(job[j].attempt)}
                                \/ f \in Scratch /\ c[f] \in {None, Data(1)}}

\* Only a process outside the sandbox can outlive the one the desk waits for: in it
\* all end with the first (--unshare-pid, --die-with-parent).
Outlives(w) == {{}} \union (IF att[w].boxed THEN {} ELSE {{at[w]}})

\* The process is gone, with what it wrote.
Gone(w) ==
    /\ wk[w] = "running"
    /\ \E c \in Writes(at[w]) : out' = [out EXCEPT ![at[w]] = c]
    /\ \E s \in Outlives(w) : survivors' = survivors \union s
    /\ UNCHANGED <<machine, phase, sandboxOK, seccompOK, loaded, history>>

\* auditOutDir(): nothing but regular files with declared names, and directories.
AuditOutDir(c) == \A f \in File : c[f] # None => f \in Declared /\ c[f] # Link

\* The result: the first declared file that is there, or stdout if none is declared.
Present(c) == {i \in DOMAIN Out : c[Out[i]] # None}
First(c) == c[Out[CHOOSE i \in Present(c) : \A k \in Present(c) : i <= k]]
Result(w) == LET c == out'[at[w]] IN
             IF Out = <<>> THEN Data(job[at[w]].attempt) ELSE IF Present(c) = {} THEN None ELSE First(c)

\* Exit code 0 before the deadline: the audit, the result, and whether it is small
\* enough, JSON and of the schema.
Succeeds(w) ==
    /\ Gone(w) /\ job[at[w]].status # "canceled"
    /\ \/ AuditOutDir(out'[at[w]]) /\ Result(w).kind = "file" /\ End(w, "running", "done", Result(w))
       \/ End(w, "running", "contract", None)
    /\ UNCHANGED limitsOK

\* Another exit code.  "Failed to connect to bus" on stderr, from systemd-run or
\* from the tool, ends the capping of jobs for the life of the process.
Fails(w) ==
    /\ Gone(w) /\ job[at[w]].status # "canceled"
    /\ End(w, "running", "retry", None)
    /\ limitsOK' \in IF att[w].capped THEN {limitsOK, FALSE} ELSE {limitsOK}

\* The context ended, by the deadline or by a cancel, and the process was killed.
Killed(w) ==
    /\ Gone(w)
    /\ End(w, "running", "retry", None)
    /\ UNCHANGED limitsOK

Work(w) == \/ NoCaps(w) \/ Unvetted(w) \/ NoWorkspace(w) \/ Admit(w) \/ LaunchRefused(w)
           \/ LaunchCanceled(w) \/ Launch(w) \/ Succeeds(w) \/ Fails(w) \/ Killed(w)

------------------------------------------------------------------------------
(* The machine.                                                              *)

SurvivorWrites(j) ==
    /\ j \in survivors
    /\ \E c \in Writes(j) : out' = [out EXCEPT ![j] = c]
    /\ UNCHANGED <<machine, survivors, flags, wk, at, att, job, history>>

Uninstall(p) ==
    /\ p \in MayGo \intersect installed
    /\ installed' = installed \ {p}
    /\ UNCHANGED <<box, script, out, survivors, flags, wk, at, att, job, history>>

EditScript ==
    /\ box.pinned /\ script = "vetted" /\ script' = "changed"
    /\ UNCHANGED <<box, installed, out, survivors, flags, wk, at, att, job, history>>

\* Fault: a tool is not tied to the life of the desk.
SurvivorsOfAll == {at[w] : w \in {v \in Worker : wk[v] = "running"}}

\* Who may live on when the desk dies: Pdeathsig kills the process that was started.
SurvivorsOfCrash == {at[w] : w \in {v \in Worker : wk[v] = "running" /\ ~att[v].boxed}}

Crash ==
    /\ phase = "serving" /\ crashes < MaxCrashes
    /\ crashes' = crashes + 1 /\ phase' = "off"
    /\ survivors' = survivors \union SurvivorsOfCrash
    /\ wk' = [w \in Worker |-> "idle"] /\ at' = [w \in Worker |-> NoJob]
    /\ att' = [w \in Worker |-> NoRun]
    /\ UNCHANGED <<machine, out, sandboxOK, seccompOK, limitsOK, loaded, job, uncapped>>

Next == \/ Startup \/ Crash \/ EditScript
        \/ \E j \in Job : Submit(j) \/ Cancel(j) \/ SurvivorWrites(j)
        \/ \E w \in Worker, j \in Job : Begin(w, j)
        \/ \E w \in Worker : Work(w)
        \/ \E p \in Programs : Uninstall(p)

Spec == Init /\ [][Next]_vars

------------------------------------------------------------------------------
(* What the desk tells.                                                      *)

\* Fault: the caps are not part of it.
DegradedSandbox == ~sandboxOK \/ box.root \/ (sandboxOK /\ ~seccompOK)

\* "degraded" of enforcement(), for GET /.
Degraded == ~sandboxOK \/ ~limitsOK \/ box.root \/ (sandboxOK /\ ~seccompOK)

\* handleGetOutFile(): a declared name and a regular file, or an error.
Served(j, f) == IF f \in Declared /\ out[j][f].kind = "file"
                THEN out[j][f] ELSE None

------------------------------------------------------------------------------
(* Properties the code has.                                                  *)

Running(w) == wk[w] = "running"

\* A strict desk runs a tool in the sandbox, with the syscall filter, and not as root
\* or for the whole network: the list main() goes through at the start and the tests
\* Execute() makes for each run leave no gap between them, also when bwrap goes away
\* under the desk or a pipe cannot be opened.
StrictIsolated ==
    \A w \in Worker : box.strict /\ Running(w)
                      => att[w].boxed /\ att[w].filtered /\ ~box.root /\ ~box.exposed

\* A strict desk tests the flag of the caps at the head of Execute() and reads it
\* again where it puts the run together.  The flag can fall between the two, but
\* stays down: the runs that slip through are fewer than the workers, in the whole
\* life of the desk.  So it is while systemd-run stays installed; once it is gone no
\* run is capped any more, and nothing tests that again.
StrictUncappedBound == "systemd-run" \in installed => uncapped < Cardinality(Worker)

\* When GET / does not say "degraded", every tool that runs, whatever it was begun
\* under, runs in the sandbox, capped and filtered, but for what the flags do not
\* follow: a program uninstalled under the desk, and a pipe that failed.  bwrap gone
\* means that a desk without -strict runs tools outside the sandbox.
StatusCovers ==
    phase = "serving" /\ ~Degraded =>
    \A w \in Worker : Running(w) =>
       /\ att[w].boxed \/ ("bwrap" \notin installed /\ ~box.strict)
       /\ att[w].boxed => /\ att[w].capped \/ "systemd-run" \notin installed
                          /\ att[w].filtered \/ (~att[w].piped /\ ~box.strict)

\* A pinned script that was changed before an attempt began is not run by it, though
\* the desk has run it for hours and the job was tried before; a change during the
\* attempt is not seen.
PinnedRunsVetted ==
    \A w \in Worker : box.pinned /\ Running(w) /\ att[w].script = "changed" => att[w].entry = "vetted"

\* The result a done job is answered with stays what the client can read in out/,
\* where there is nothing else: no process of an earlier attempt, or of a desk that
\* crashed, writes there any more.
AnswerStands ==
    \A j \in Job : (job[j].status = "done" /\ Out # <<>> /\ (box.strict \/ HasBwrap))
                   => /\ \A f \in Scratch : out[j][f] = None
                      /\ \E i \in DOMAIN Out : /\ Served(j, Out[i]) = job[j].result
                                               /\ \A k \in 1..(i - 1) : Served(j, Out[k]) = None

------------------------------------------------------------------------------
(* What the comments say of the program.                                     *)

\* main(), of -strict: "a job will fail rather than run with degraded enforcement".
StrictNeverUncapped == \A w \in Worker : box.strict /\ Running(w) => att[w].capped

\* enforcement(): "whether each guarantee the desk advertises is actually in force right
\* now", so that "a monitoring probe can watch one boolean".
StatusInForce ==
    phase = "serving" /\ ~Degraded => \A w \in Worker : Running(w) => att[w].boxed /\ att[w].capped
=============================================================================
