---------------------------- MODULE ExecutionProofs ----------------------------
(***************************************************************************)
(* Theorems about Execution, for any jobs, workers, boxes and bounds: what *)
(* a strict desk isolates, what its status covers and what a pin keeps     *)
(* out; that an answer stands; and how many runs slip through without      *)
(* caps.  The first three follow from one invariant, Enforced, which says  *)
(* what of the machine and of the flags a run that goes on still agrees    *)
(* with; Kept says of the jobs who may still write their files, on top of  *)
(* it, and Slipped counts the workers past the test of the flag.           *)
(***************************************************************************)
EXTENDS Execution, FiniteSetTheorems, TLAPS

Attempt == [boxed : BOOLEAN, filtered : BOOLEAN, capped : BOOLEAN, piped : BOOLEAN,
            entry : {"vetted", "changed"}, script : {"vetted", "changed"}]

\* The part of TypeOK that the proofs need.
PlacesOK ==
    /\ installed \subseteq Programs
    /\ wk \in [Worker -> {"idle", "entered", "admitted", "running"}]
    /\ att \in [Worker -> Attempt]
    /\ script \in {"vetted", "changed"}

\* A strict desk that serves has passed its list, and the filter's flag never changes
\* while it runs; a worker is busy only while the desk serves.
ServingOK ==
    /\ phase = "serving" /\ box.strict => seccompOK /\ ~box.root /\ ~box.exposed
    /\ \A w \in Worker : wk[w] # "idle" => phase = "serving"

\* What a run was given, and what is on the box and up among the flags now: programs
\* only go and the flag of the caps only falls, so the run has no less.
RunOK(w) ==
    Running(w) => /\ box.strict => att[w].boxed /\ att[w].filtered
                  /\ "bwrap" \in installed => att[w].boxed
                  /\ att[w].boxed /\ seccompOK /\ att[w].piped => att[w].filtered
                  /\ att[w].boxed /\ "systemd-run" \in installed /\ limitsOK => att[w].capped

\* The script only changes from vetted, and an attempt is admitted while it is vetted.
PinOK(w) ==
    box.pinned => /\ wk[w] # "idle" /\ script = "vetted" => att[w].entry = "vetted"
                  /\ wk[w] \in {"admitted", "running"} => att[w].entry = "vetted"

Enforced == PlacesOK /\ ServingOK /\ \A w \in Worker : RunOK(w) /\ PinOK(w)

\* The desk that is not started yet enforces nothing and runs nothing.
LEMMA EnforcedInit == Init => Enforced
PROOF
<1> SUFFICES ASSUME Init PROVE Enforced OBVIOUS
<1>1. installed \subseteq Programs
  BY ExecutionAssumption DEF Init, Box
<1>2. PlacesOK BY <1>1 DEF Init, PlacesOK, NoRun, Attempt
<1>3. ServingOK BY DEF Init, ServingOK
<1>4. \A w \in Worker : RunOK(w) /\ PinOK(w) BY DEF Init, RunOK, PinOK, Running, NoRun
<1> QED BY <1>2, <1>3, <1>4 DEF Enforced

\* An attempt that ends leaves its worker idle and the others as they are; the
\* programs, the script and the filter's flag are not its business, and the flag of
\* the caps it can only clear (executor.go:420).
LEMMA EndKeeps ==
    ASSUME Enforced, NEW w \in Worker,
           wk' = [wk EXCEPT ![w] = "idle"], att' = [att EXCEPT ![w] = NoRun],
           UNCHANGED <<machine, phase, seccompOK>>, limitsOK' => limitsOK
    PROVE  Enforced'
PROOF
<1> USE DEF Enforced
<1>1. PlacesOK' BY DEF PlacesOK, machine, NoRun, Attempt
<1>2. ServingOK' BY DEF ServingOK, PlacesOK, machine
<1>3. ASSUME NEW v \in Worker PROVE RunOK(v)' /\ PinOK(v)'
  <2>1. CASE v = w BY <2>1 DEF RunOK, PinOK, Running, PlacesOK, NoRun
  <2>2. CASE v # w
    <3>1. wk'[v] = wk[v] /\ att'[v] = att[v] BY <2>2 DEF PlacesOK
    <3>2. installed' = installed /\ box' = box /\ script' = script BY DEF machine
    <3> QED BY <1>3, <3>1, <3>2 DEF RunOK, PinOK, Running
  <2> QED BY <2>1, <2>2
<1> QED BY <1>1, <1>2, <1>3

\* A worker that goes on to "admitted" has found the script vetted.
LEMMA AdmitKeeps == ASSUME Enforced, NEW w \in Worker, Admit(w) PROVE Enforced'
PROOF
<1> USE DEF Enforced, Admit, WorkerStep, machine, flags
<1>1. PlacesOK' BY DEF PlacesOK
<1>2. ServingOK' BY DEF ServingOK, PlacesOK
<1>3. ASSUME NEW v \in Worker PROVE RunOK(v)' /\ PinOK(v)'
  <2>1. CASE v = w BY <2>1 DEF RunOK, PinOK, Running, PlacesOK, VerifyIntegrity
  <2>2. CASE v # w BY <1>3, <2>2 DEF RunOK, PinOK, Running, PlacesOK
  <2> QED BY <2>1, <2>2
<1> QED BY <1>1, <1>2, <1>3

\* A run is given what the box has and the flags say when it is put together.
LEMMA LaunchKeeps == ASSUME Enforced, NEW w \in Worker, Launch(w) PROVE Enforced'
PROOF
<1> USE DEF Enforced
<1>1. PICK pipe \in BOOLEAN : ~RunRefused(pipe) /\ att' = [att EXCEPT ![w] = Run(w, pipe)]
  BY DEF Launch
<1>2. /\ wk[w] = "admitted" /\ wk' = [wk EXCEPT ![w] = "running"]
      /\ UNCHANGED <<box, installed, script, phase, seccompOK, limitsOK>>
  BY DEF Launch, WorkerStep, machine, flags
<1>3. att[w] \in Attempt /\ script \in {"vetted", "changed"} BY DEF PlacesOK
<1>4. Run(w, pipe) \in Attempt
  BY <1>3 DEF Run, Attempt, HasBwrap
<1>5. PlacesOK' BY <1>1, <1>2, <1>4 DEF PlacesOK
<1>6. ServingOK' BY <1>2 DEF ServingOK, PlacesOK
<1>7. ASSUME NEW v \in Worker PROVE RunOK(v)' /\ PinOK(v)'
  <2>1. CASE v = w
    <3>1. att'[v] = Run(w, pipe) /\ wk'[v] = "running" BY <1>1, <1>2, <2>1 DEF PlacesOK
    <3>2. box.strict => seccompOK BY <1>2 DEF ServingOK
    <3>3. RunOK(v)'
      <4>1. /\ att'[v].boxed = HasBwrap /\ att'[v].piped = pipe
            /\ att'[v].filtered = (HasBwrap /\ seccompOK /\ pipe)
            /\ att'[v].capped = (HasBwrap /\ limitsOK /\ "systemd-run" \in installed)
        BY <3>1 DEF Run
      <4>2. box'.strict => HasBwrap /\ seccompOK /\ pipe BY <1>1, <1>2, <3>2 DEF RunRefused
      <4>3. installed' = installed BY <1>2
      <4>4. "bwrap" \in installed' => HasBwrap BY <1>2 DEF HasBwrap
      <4>5. seccompOK' = seccompOK /\ limitsOK' = limitsOK BY <1>2
      <4> QED BY <4>1, <4>2, <4>3, <4>4, <4>5 DEF RunOK
    <3>4. PinOK(v)' BY <1>2, <2>1, <3>1 DEF PinOK, Run
    <3> QED BY <3>3, <3>4
  <2>2. CASE v # w
    <3>1. wk'[v] = wk[v] /\ att'[v] = att[v] BY <1>1, <1>2, <2>2 DEF PlacesOK
    <3> QED BY <1>2, <1>7, <3>1 DEF RunOK, PinOK, Running
  <2> QED BY <2>1, <2>2
<1> QED BY <1>5, <1>6, <1>7

\* process() notes the script it begins with.
LEMMA BeginKeeps == ASSUME Enforced, NEW w \in Worker, NEW j \in Job, Begin(w, j) PROVE Enforced'
PROOF
<1> USE DEF Enforced
<1>1. UNCHANGED <<box, installed, script, phase, seccompOK, limitsOK>> /\ phase = "serving"
  BY DEF Begin, machine, flags
<1>2. CASE loaded
  <2>1. wk[w] = "idle" /\ wk' = [wk EXCEPT ![w] = "entered"] /\ att' = [att EXCEPT ![w].entry = script]
    BY <1>2 DEF Begin, WorkerStep
  <2>2. PlacesOK' BY <1>1, <2>1 DEF PlacesOK, Attempt
  <2>3. ServingOK' BY <1>1, <2>1 DEF ServingOK, PlacesOK
  <2>4. ASSUME NEW v \in Worker PROVE RunOK(v)' /\ PinOK(v)'
    <3>1. CASE v = w
      <4>1. wk'[v] = "entered" /\ att'[v].entry = script BY <2>1, <3>1 DEF PlacesOK, Attempt
      <4> QED BY <1>1, <4>1 DEF RunOK, PinOK, Running
    <3>2. CASE v # w
      <4>1. wk'[v] = wk[v] /\ att'[v] = att[v] BY <2>1, <3>2 DEF PlacesOK
      <4> QED BY <1>1, <2>4, <4>1 DEF RunOK, PinOK, Running
    <3> QED BY <3>1, <3>2
  <2> QED BY <2>2, <2>3, <2>4
<1>3. CASE ~loaded
  <2>1. UNCHANGED <<wk, att>> BY <1>3 DEF Begin
  <2> QED BY <1>1, <2>1 DEF PlacesOK, ServingOK, RunOK, PinOK, Running
<1> QED BY <1>2, <1>3

\* Nothing runs when the desk starts, and a strict desk serves only when the list of
\* main() is empty.
LEMMA StartupKeeps == ASSUME Enforced, Startup PROVE Enforced'
PROOF
<1> USE DEF Enforced, Startup, machine
<1>1. \A w \in Worker : wk'[w] = "idle" BY DEF ServingOK
<1>2. PlacesOK' BY DEF PlacesOK
<1>3. ServingOK' BY <1>1 DEF ServingOK, StrictRefuses
<1>4. \A w \in Worker : RunOK(w)' /\ PinOK(w)' BY <1>1 DEF RunOK, PinOK, Running
<1> QED BY <1>2, <1>3, <1>4

\* A crash ends every run the desk waits for.
LEMMA CrashKeeps == ASSUME Enforced, Crash PROVE Enforced'
PROOF
<1> USE DEF Enforced, Crash, machine
<1>1. \A w \in Worker : wk'[w] = "idle" OBVIOUS
<1>2. PlacesOK' BY DEF PlacesOK, NoRun, Attempt
<1>3. ServingOK' BY <1>1 DEF ServingOK
<1>4. \A w \in Worker : RunOK(w)' /\ PinOK(w)' BY <1>1 DEF RunOK, PinOK, Running
<1> QED BY <1>2, <1>3, <1>4

\* Programs only go, and a script that was changed does not change back.
LEMMA MachineKeeps ==
    ASSUME Enforced,
           installed' \subseteq installed, script' = script \/ script' = "changed",
           UNCHANGED <<box, phase, seccompOK, limitsOK, wk, att>>
    PROVE  Enforced'
PROOF
<1> USE DEF Enforced
<1>1. PlacesOK' BY DEF PlacesOK
<1>2. ServingOK' BY DEF ServingOK
<1>3. ASSUME NEW v \in Worker PROVE RunOK(v)' /\ PinOK(v)'
  <2>1. installed' = Programs => installed = Programs BY DEF PlacesOK
  <2> QED BY <1>3, <2>1 DEF RunOK, PinOK, Running
<1> QED BY <1>1, <1>2, <1>3

\* Every way an attempt ends is one of EndKeeps.
LEMMA WorkKeeps == ASSUME Enforced, NEW w \in Worker, Work(w) PROVE Enforced'
PROOF
<1>1. ASSUME NEW from, NEW o, NEW r, End(w, from, o, r)
      PROVE  wk' = [wk EXCEPT ![w] = "idle"] /\ att' = [att EXCEPT ![w] = NoRun]
  BY <1>1 DEF End, WorkerStep
<1>2. ASSUME NEW from, NEW o, Reject(w, from, o) PROVE Enforced'
  <2>1. wk' = [wk EXCEPT ![w] = "idle"] /\ att' = [att EXCEPT ![w] = NoRun]
    BY <1>1, <1>2 DEF Reject
  <2>2. UNCHANGED <<machine, phase, seccompOK>> /\ limitsOK' = limitsOK
    BY <1>2 DEF Reject, flags
  <2> QED BY <2>1, <2>2, EndKeeps
<1>3. ASSUME Gone(w), NEW o, NEW r, End(w, "running", o, r), limitsOK' => limitsOK PROVE Enforced'
  <2>1. wk' = [wk EXCEPT ![w] = "idle"] /\ att' = [att EXCEPT ![w] = NoRun]
    BY <1>1, <1>3
  <2>2. UNCHANGED <<machine, phase, seccompOK>> BY <1>3 DEF Gone
  <2> QED BY <1>3, <2>1, <2>2, EndKeeps
<1>4. CASE NoCaps(w) BY <1>2, <1>4 DEF NoCaps
<1>5. CASE Unvetted(w) BY <1>2, <1>5 DEF Unvetted
<1>6. CASE NoWorkspace(w) BY <1>2, <1>6 DEF NoWorkspace
<1>7. CASE Admit(w) BY <1>7, AdmitKeeps
<1>8. CASE LaunchRefused(w) BY <1>2, <1>8 DEF LaunchRefused
<1>9. CASE LaunchCanceled(w) BY <1>2, <1>9 DEF LaunchCanceled
<1>10. CASE Launch(w) BY <1>10, LaunchKeeps
<1>11. CASE Succeeds(w) BY <1>3, <1>11 DEF Succeeds
<1>12. CASE Fails(w)
  <2>1. Gone(w) /\ End(w, "running", "retry", None) BY <1>12 DEF Fails
  <2>2. limitsOK' = limitsOK \/ limitsOK' = FALSE BY <1>12 DEF Fails
  <2>3. limitsOK' => limitsOK BY <2>2
  <2> QED BY <1>3, <2>1, <2>3
<1>13. CASE Killed(w) BY <1>3, <1>13 DEF Killed
<1> QED BY <1>4, <1>5, <1>6, <1>7, <1>8, <1>9, <1>10, <1>11, <1>12, <1>13 DEF Work

LEMMA EnforcedNext == Enforced /\ [Next]_vars => Enforced'
PROOF
<1> SUFFICES ASSUME Enforced, [Next]_vars PROVE Enforced' OBVIOUS
<1>1. CASE Startup BY <1>1, StartupKeeps
<1>2. CASE Crash BY <1>2, CrashKeeps
<1>3. CASE EditScript BY <1>3, MachineKeeps DEF EditScript, flags
<1>4. ASSUME NEW j \in Job, Submit(j) PROVE Enforced'
  BY <1>4, MachineKeeps DEF Submit, machine, flags
<1>5. ASSUME NEW j \in Job, Cancel(j) PROVE Enforced'
  BY <1>5, MachineKeeps DEF Cancel, machine, flags
<1>6. ASSUME NEW j \in Job, SurvivorWrites(j) PROVE Enforced'
  BY <1>6, MachineKeeps DEF SurvivorWrites, machine, flags
<1>7. ASSUME NEW w \in Worker, NEW j \in Job, Begin(w, j) PROVE Enforced' BY <1>7, BeginKeeps
<1>8. ASSUME NEW w \in Worker, Work(w) PROVE Enforced' BY <1>8, WorkKeeps
<1>9. ASSUME NEW p \in Programs, Uninstall(p) PROVE Enforced'
  BY <1>9, MachineKeeps DEF Uninstall, flags
<1>10. CASE UNCHANGED vars BY <1>10, MachineKeeps DEF vars, machine, flags
<1> QED BY <1>1, <1>2, <1>3, <1>4, <1>5, <1>6, <1>7, <1>8, <1>9, <1>10 DEF Next

LEMMA EnforcedAlways == Spec => []Enforced
PROOF
<1> QED BY EnforcedInit, EnforcedNext, PTL DEF Spec

\* Under -strict every tool runs in the sandbox, under the filter, and on a desk that is
\* neither root's nor open to the network without auth (main.go:338-370 and the tests of
\* Execute() at executor.go:331-345), whatever is uninstalled and whichever pipes fail.
THEOREM StrictKept == Spec => []StrictIsolated
PROOF
<1>1. Enforced => StrictIsolated
  BY DEF Enforced, ServingOK, RunOK, StrictIsolated, Running
<1> QED BY <1>1, EnforcedAlways, PTL

\* A status that is not "degraded" (main.go:92-156) is true of every tool that runs, but
\* for a program that was uninstalled since the start and a pipe that failed.
THEOREM StatusTrue == Spec => []StatusCovers
PROOF
<1>1. ASSUME Enforced PROVE StatusCovers
  <2> SUFFICES ASSUME ~Degraded, NEW w \in Worker, Running(w)
               PROVE  /\ att[w].boxed \/ ("bwrap" \notin installed /\ ~box.strict)
                      /\ att[w].boxed => /\ att[w].capped \/ "systemd-run" \notin installed
                                         /\ att[w].filtered \/ (~att[w].piped /\ ~box.strict)
    BY DEF StatusCovers
  <2>1. sandboxOK /\ limitsOK /\ seccompOK BY DEF Degraded
  <2> QED BY <1>1, <2>1 DEF Enforced, RunOK
<1> QED BY <1>1, EnforcedAlways, PTL

\* A pinned tool whose script was changed before an attempt is not run by it
\* (verifyIntegrity() at executor.go:241-247).
THEOREM PinsKept == Spec => []PinnedRunsVetted
PROOF
<1>1. Enforced => PinnedRunsVetted
  BY DEF Enforced, PinOK, PinnedRunsVetted, Running
<1> QED BY <1>1, EnforcedAlways, PTL
------------------------------------------------------------------------------
(* The jobs and their files.                                                 *)

Busy(w) == wk[w] # "idle"

\* A busy worker has a job of its own, which has begun and is not over, though it may
\* be canceled.
HeldOK ==
    /\ \A w \in Worker : Busy(w) => /\ at[w] \in Job
                                   /\ job[at[w]].status \in {"running", "canceled"}
                                   /\ job[at[w]].attempt >= 1
    /\ \A v, w \in Worker : Busy(v) /\ Busy(w) /\ at[v] = at[w] => v = w

\* The attempts of a job: those the retries allow, and one for each crash.  A job that
\* waits has one left, and so has one that a desk which does not serve left running.
Allowed == IF MaxRetries > 1 THEN MaxRetries ELSE 1
AttemptsOK(j) ==
    /\ job[j].attempt <= Allowed + crashes
    /\ job[j].status = "none" => job[j].attempt = 0
    /\ job[j].status = "queued" \/ (job[j].status = "running" /\ phase # "serving")
       => job[j].attempt < Allowed + crashes

\* Where every run was in the sandbox, none outlives its desk.
NoSurvivors == box.strict \/ HasBwrap => survivors = {}

Kept == /\ TypeOK /\ crashes <= MaxCrashes
        /\ HeldOK /\ (\A j \in Job : AttemptsOK(j)) /\ NoSurvivors /\ AnswerStands

\* What a client finds in c, the files of a job that is done with the result r.
Readable(c, r) ==
    /\ \A f \in Scratch : c[f] = None
    /\ \E i \in DOMAIN Out : /\ c[Out[i]] = r /\ r.kind = "file"
                             /\ \A k \in 1..(i - 1) : c[Out[k]].kind # "file"

\* A set of numbers that is not empty has a least one.
LEMMA LeastOf == ASSUME NEW S, S \subseteq Nat, S # {} PROVE \E i \in S : \A k \in S : i <= k
PROOF
<1> DEFINE Less == {ss \in Nat \X Nat : ss[1] < ss[2]}
<1>1. IsWellFoundedOn(Less, Nat) BY NatLessThanWellFounded DEF OpToRel
<1> HIDE DEF Less
<1>2. PICK i \in S : \A k \in S : ~(<<k, i>> \in Less) BY <1>1, WFMin
<1>3. ASSUME NEW k \in S PROVE i <= k
  <2>1. k \in Nat /\ i \in Nat OBVIOUS
  <2>2. <<k, i>> \notin Less BY <1>2
  <2>3. k < i => <<k, i>> \in Less BY <2>1 DEF Less
  <2> QED BY <2>1, <2>2, <2>3
<1> QED BY <1>3

\* Among the declared files that are there one is first, and it is what First() takes.
LEMMA FirstIsThere ==
    ASSUME NEW c \in [File -> Content], Present(c) # {}
    PROVE  \E i \in DOMAIN Out : /\ First(c) = c[Out[i]] /\ c[Out[i]] # None
                                /\ \A k \in 1..(i - 1) : c[Out[k]] = None
PROOF
<1>1. DOMAIN Out = 1..Len(Out) /\ Len(Out) \in Nat BY ExecutionAssumption
<1>2. Present(c) \subseteq Nat BY <1>1 DEF Present
<1> DEFINE least == CHOOSE n \in Present(c) : \A k \in Present(c) : n <= k
<1>3. least \in Present(c) /\ \A k \in Present(c) : least <= k BY <1>2, LeastOf
<1>4. First(c) = c[Out[least]] BY DEF First
<1>5. least \in DOMAIN Out /\ c[Out[least]] # None BY <1>3 DEF Present
<1>6. ASSUME NEW k \in 1..(least - 1) PROVE c[Out[k]] = None
  <2>1. k \in DOMAIN Out /\ k < least BY <1>1, <1>5
  <2>2. k \notin Present(c) BY <1>2, <1>3, <2>1
  <2> QED BY <2>1, <2>2 DEF Present
<1> QED BY <1>4, <1>5, <1>6

\* What process() makes of an outcome.
LEMMA OutcomeIs ==
    ASSUME NEW j \in Job, NEW o
    PROVE  /\ Outcome(j, o) \in {"done", "failed", "queued", "canceled"}
           /\ Outcome(j, o) = "done" => o = "done"
           /\ Outcome(j, o) = "queued" => job[j].attempt < MaxRetries
PROOF
<1> QED BY DEF Outcome

\* The desk that is not started yet has no jobs and no files.
LEMMA KeptInit == Init => Kept
PROOF
<1> SUFFICES ASSUME Init PROVE Kept OBVIOUS
<1> USE ExecutionAssumption DEF Init
<1>1. Attempts \in Nat /\ Allowed \in Nat /\ Allowed >= 1 BY DEF Attempts, Allowed
<1>2. None \in Content BY DEF Content
<1>3. TypeOK
  <2>1. job \in [Job -> [status : {"none", "queued", "running", "done", "failed", "canceled"},
                         attempt : 0..Attempts, result : Content]]
    BY <1>1, <1>2 DEF Fresh
  <2>2. att \in [Worker -> Attempt] BY DEF NoRun, Attempt
  <2>3. out \in [Job -> [File -> Content]] BY <1>2
  <2>4. installed \subseteq Programs BY DEF Box
  <2> QED BY <2>1, <2>2, <2>3, <2>4 DEF TypeOK, Attempt
<1>4. HeldOK BY DEF HeldOK, Busy
<1>5. \A j \in Job : AttemptsOK(j) BY <1>1 DEF AttemptsOK, Fresh
<1>6. NoSurvivors /\ AnswerStands BY DEF NoSurvivors, AnswerStands, Fresh
<1> QED BY <1>3, <1>4, <1>5, <1>6 DEF Kept

\* An attempt that ends with the files c: its job is over or waits with an attempt left,
\* its worker has no job, and the other jobs and their files are as they were.
LEMMA EndKept ==
    ASSUME Kept, NEW w \in Worker, Busy(w), NEW from, NEW o, NEW r \in Content,
           End(w, from, o, r),
           NEW c \in [File -> Content], out' = [out EXCEPT ![at[w]] = c],
           o = "done" /\ Out # <<>> => Readable(c, r),
           survivors' \subseteq Job, (box.strict \/ HasBwrap) => survivors' = {},
           UNCHANGED <<machine, phase, sandboxOK, seccompOK, loaded, history>>,
           limitsOK' \in BOOLEAN
    PROVE  Kept'
PROOF
<1> DEFINE j == at[w]
           n == [job[j] EXCEPT !.status = Outcome(j, o),
                               !.result = IF Outcome(j, o) = "done" THEN r ELSE @]
<1> USE DEF Kept
<1>1. j \in Job /\ job[j].status \in {"running", "canceled"} /\ job[j].attempt >= 1
  BY DEF HeldOK
<1>2. /\ wk' = [wk EXCEPT ![w] = "idle"] /\ at' = [at EXCEPT ![w] = NoJob]
      /\ att' = [att EXCEPT ![w] = NoRun] /\ job' = [job EXCEPT ![j] = n]
  BY DEF End, WorkerStep, TypeOK
<1>3. Outcome(j, o) \in {"done", "failed", "queued", "canceled"} BY <1>1, OutcomeIs
<1>4. n \in [status : {"none", "queued", "running", "done", "failed", "canceled"},
             attempt : 0..Attempts, result : Content]
  <2>1. job[j] \in [status : {"none", "queued", "running", "done", "failed", "canceled"},
                    attempt : 0..Attempts, result : Content]
    BY <1>1 DEF TypeOK
  <2>2. (IF Outcome(j, o) = "done" THEN r ELSE job[j].result) \in Content BY <2>1
  <2> QED BY <1>3, <2>1, <2>2
<1>5. n.status = Outcome(j, o) /\ n.attempt = job[j].attempt /\ (n.status = "done" => n.result = r)
  BY <1>1 DEF TypeOK
<1>6. TypeOK'
  <2>1. att' \in [Worker -> Attempt] BY <1>2 DEF TypeOK, NoRun, Attempt
  <2> QED BY <1>1, <1>2, <1>4, <2>1 DEF TypeOK, machine, history, Attempt
<1>7. HeldOK'
  <2>1. ASSUME NEW v \in Worker, Busy(v)' PROVE v # w /\ at'[v] = at[v] /\ Busy(v) /\ at[v] # j
    BY <1>2, <2>1 DEF Busy, TypeOK, HeldOK
  <2>2. \A v \in Worker : Busy(v)' => job'[at'[v]] = job[at[v]] /\ at[v] \in Job
    BY <1>2, <2>1 DEF TypeOK, HeldOK
  <2> QED BY <2>1, <2>2 DEF HeldOK
<1>8. ASSUME NEW i \in Job PROVE AttemptsOK(i)'
  <2>1. UNCHANGED <<crashes, phase>> BY DEF history
  <2>2. Allowed \in Nat /\ MaxRetries <= Allowed /\ crashes \in Nat BY ExecutionAssumption DEF Allowed, TypeOK
  <2>3. CASE i = j
    <3>1. job'[i] = n BY <1>1, <1>2, <2>3 DEF TypeOK
    <3>2. n.status = "queued" => n.attempt < MaxRetries BY <1>1, <1>5, OutcomeIs
    <3>3. MaxRetries \in Nat /\ n.attempt \in Nat
      <4>1. Attempts \in Nat BY ExecutionAssumption DEF Attempts
      <4>2. job[j].attempt \in 0..Attempts BY <1>1 DEF TypeOK
      <4> QED BY <1>5, <4>1, <4>2, ExecutionAssumption
    <3>4. n.attempt <= Allowed + crashes BY <1>1, <1>5 DEF AttemptsOK
    <3>5. n.status # "none" /\ n.status # "running" BY <1>3, <1>5
    <3> QED BY <2>1, <2>2, <3>1, <3>2, <3>3, <3>4, <3>5 DEF AttemptsOK
  <2>4. CASE i # j
    <3>1. job'[i] = job[i] BY <1>2, <2>4 DEF TypeOK
    <3>2. AttemptsOK(i) OBVIOUS
    <3> QED BY <2>1, <3>1, <3>2 DEF AttemptsOK
  <2> QED BY <2>3, <2>4
<1>9. NoSurvivors' BY DEF NoSurvivors, machine, HasBwrap
<1>10. ASSUME NEW i \in Job, job'[i].status = "done", Out # <<>>, (box.strict \/ HasBwrap)'
       PROVE  /\ \A f \in Scratch : out'[i][f] = None
              /\ \E k \in DOMAIN Out : /\ Served(i, Out[k])' = job'[i].result
                                       /\ \A m \in 1..(k - 1) : Served(i, Out[m])' = None
  <2>1. CASE i = j
    <3>1. job'[i] = n /\ out'[i] = c BY <1>1, <1>2, <2>1 DEF TypeOK
    <3>2. o = "done" /\ n.result = r BY <1>1, <1>5, <1>10, <3>1, OutcomeIs
    <3>3. Readable(out'[i], job'[i].result) BY <1>10, <3>1, <3>2
    <3>4. PICK k \in DOMAIN Out : /\ out'[i][Out[k]] = job'[i].result /\ job'[i].result.kind = "file"
                                  /\ \A m \in 1..(k - 1) : out'[i][Out[m]].kind # "file"
      BY <3>3 DEF Readable
    <3>5. Served(i, Out[k])' = job'[i].result BY <3>4 DEF Served, Declared
    <3>6. \A m \in 1..(k - 1) : Served(i, Out[m])' = None BY <3>4 DEF Served
    <3> QED BY <3>3, <3>5, <3>6 DEF Readable
  <2>2. CASE i # j
    <3>1. job'[i] = job[i] /\ out'[i] = out[i] BY <1>2, <2>2 DEF TypeOK
    <3>2. box.strict \/ HasBwrap BY <1>10 DEF machine, HasBwrap
    <3> QED BY <1>10, <3>1, <3>2 DEF AnswerStands, Served
  <2> QED BY <2>1, <2>2
<1>11. AnswerStands' BY <1>10 DEF AnswerStands
<1> QED BY <1>6, <1>7, <1>8, <1>9, <1>11 DEF history

\* An attempt that ends before a process is started leaves the files as they are.
LEMMA RejectKept ==
    ASSUME Kept, NEW w \in Worker, NEW from, from # "idle", NEW o, o # "done", Reject(w, from, o)
    PROVE  Kept'
PROOF
<1>1. Busy(w) /\ End(w, from, o, None) BY DEF Reject, End, WorkerStep, Busy
<1>2. at[w] \in Job BY <1>1 DEF Kept, HeldOK
<1>3. out[at[w]] \in [File -> Content] /\ survivors \subseteq Job /\ limitsOK \in BOOLEAN
  BY <1>2 DEF Kept, TypeOK
<1>4. /\ out' = [out EXCEPT ![at[w]] = out[at[w]]]
      /\ survivors' = survivors /\ limitsOK' = limitsOK
      /\ UNCHANGED <<machine, phase, sandboxOK, seccompOK, loaded, history>>
  BY DEF Reject, flags, Kept, TypeOK
<1>5. (box.strict \/ HasBwrap) => survivors' = {} BY <1>4 DEF Kept, NoSurvivors
<1>6. None \in Content BY DEF Content
<1> QED BY <1>1, <1>3, <1>4, <1>5, <1>6, EndKept

\* A process that is gone has left nothing alive behind it where it ran in the sandbox.
LEMMA GoneLeaves ==
    ASSUME Kept, Enforced, NEW w \in Worker, Gone(w)
    PROVE  /\ Busy(w) /\ at[w] \in Job
           /\ \E c \in [File -> Content] : out' = [out EXCEPT ![at[w]] = c]
           /\ survivors' \subseteq Job /\ (box.strict \/ HasBwrap => survivors' = {})
           /\ UNCHANGED <<machine, phase, sandboxOK, seccompOK, loaded, history>>
PROOF
<1>1. Running(w) /\ Busy(w) BY DEF Gone, Running, Busy
<1>2. at[w] \in Job BY <1>1 DEF Kept, HeldOK
<1>3. PICK s \in Outlives(w) : survivors' = survivors \union s BY DEF Gone
<1>4. s \subseteq Job BY <1>2 DEF Outlives
<1>5. box.strict \/ HasBwrap => att[w].boxed BY <1>1 DEF Enforced, RunOK, HasBwrap
<1>6. box.strict \/ HasBwrap => s = {} BY <1>5 DEF Outlives
<1>7. survivors \subseteq Job /\ (box.strict \/ HasBwrap => survivors = {})
  BY DEF Kept, TypeOK, NoSurvivors
<1> QED BY <1>1, <1>2, <1>3, <1>4, <1>6, <1>7 DEF Gone, Writes

\* What the audit lets through, with a result in it, is what the client reads later.
LEMMA AuditedReadable ==
    ASSUME NEW w \in Worker, NEW c \in [File -> Content], out'[at[w]] = c,
           AuditOutDir(c), Result(w).kind = "file", Out # <<>>
    PROVE  Result(w) \in Content /\ Readable(c, Result(w))
PROOF
<1>1. Present(c) # {} /\ Result(w) = First(c) BY DEF Result, None
<1>2. PICK i \in DOMAIN Out : /\ First(c) = c[Out[i]] /\ c[Out[i]] # None
                              /\ \A k \in 1..(i - 1) : c[Out[k]] = None
  BY <1>1, FirstIsThere
<1>3. Out[i] \in File BY DEF File, Declared
<1>4. \A k \in 1..(i - 1) : c[Out[k]].kind # "file" BY <1>2 DEF None
<1>5. ASSUME NEW f \in Scratch PROVE c[f] = None
  <2>1. f \in File /\ f \notin Declared BY ExecutionAssumption DEF File
  <2> QED BY <2>1 DEF AuditOutDir
<1> QED BY <1>1, <1>2, <1>3, <1>4, <1>5 DEF Readable

LEMMA SucceedsKept == ASSUME Kept, Enforced, NEW w \in Worker, Succeeds(w) PROVE Kept'
PROOF
<1>1. Gone(w) /\ limitsOK' \in BOOLEAN BY DEF Succeeds, Kept, TypeOK
<1>2. PICK c \in [File -> Content] : out' = [out EXCEPT ![at[w]] = c] BY <1>1, GoneLeaves
<1>3. Busy(w) /\ at[w] \in Job BY <1>1, GoneLeaves
<1>4. out'[at[w]] = c BY <1>2, <1>3 DEF Kept, TypeOK
<1>5. CASE End(w, "running", "contract", None)
  <2>1. None \in Content BY DEF Content
  <2>2. "contract" = "done" /\ Out # <<>> => Readable(c, None) OBVIOUS
  <2> QED BY <1>1, <1>2, <1>3, <1>5, <2>1, <2>2, GoneLeaves, EndKept
<1>6. CASE AuditOutDir(out'[at[w]]) /\ Result(w).kind = "file" /\ End(w, "running", "done", Result(w))
  <2>1. Out # <<>> => Result(w) \in Content /\ Readable(c, Result(w))
    BY <1>4, <1>6, AuditedReadable
  <2>2. Out = <<>> => Result(w) \in Content
    <3>1. job[at[w]].attempt >= 1 /\ job[at[w]].attempt \in 0..Attempts
      BY <1>3 DEF Kept, HeldOK, TypeOK
    <3>2. Attempts \in Nat BY ExecutionAssumption DEF Attempts
    <3> QED BY <3>1, <3>2 DEF Result, Content
  <2>3. Result(w) \in Content BY <2>1, <2>2
  <2> HIDE DEF Result
  <2> QED BY <1>1, <1>2, <1>3, <1>6, <2>1, <2>3, GoneLeaves, EndKept
<1> QED BY <1>5, <1>6 DEF Succeeds

\* A run that failed or was killed has no result.
LEMMA NoResultKept ==
    ASSUME Kept, Enforced, NEW w \in Worker, Gone(w), End(w, "running", "retry", None),
           limitsOK' \in BOOLEAN
    PROVE  Kept'
PROOF
<1>1. PICK c \in [File -> Content] : out' = [out EXCEPT ![at[w]] = c] BY GoneLeaves
<1>2. None \in Content BY DEF Content
<1>3. "retry" = "done" /\ Out # <<>> => Readable(c, None) OBVIOUS
<1> QED BY <1>1, <1>2, <1>3, GoneLeaves, EndKept

\* A step that touches no job and no file, and makes no worker busy.
LEMMA QuietKept ==
    ASSUME Kept, TypeOK', UNCHANGED <<box, out, survivors, at, job, phase, crashes>>,
           installed' \subseteq installed, \A w \in Worker : Busy(w)' => Busy(w)
    PROVE  Kept'
PROOF
<1>1. HeldOK' BY DEF Kept, HeldOK
<1>2. \A j \in Job : AttemptsOK(j)' BY DEF Kept, AttemptsOK
<1>3. NoSurvivors' BY DEF Kept, NoSurvivors, HasBwrap
<1>4. AnswerStands' BY DEF Kept, AnswerStands, Served, HasBwrap
<1> QED BY <1>1, <1>2, <1>3, <1>4 DEF Kept

LEMMA AdmitKept == ASSUME Kept, NEW w \in Worker, Admit(w) PROVE Kept'
PROOF
<1> USE DEF Admit, WorkerStep, machine, flags, history
<1>1. TypeOK' BY DEF Kept, TypeOK
<1>2. \A v \in Worker : Busy(v)' => Busy(v) BY DEF Kept, TypeOK, Busy
<1> QED BY <1>1, <1>2, QuietKept

LEMMA LaunchKept == ASSUME Kept, NEW w \in Worker, Launch(w) PROVE Kept'
PROOF
<1> USE DEF WorkerStep, machine, flags
<1>1. PICK pipe \in BOOLEAN :
         /\ att' = [att EXCEPT ![w] = Run(w, pipe)]
         /\ uncapped' = IF box.strict /\ ~Run(w, pipe).capped THEN uncapped + 1 ELSE uncapped
  BY DEF Launch
<1>2. Run(w, pipe) \in Attempt
  <2>1. att[w] \in Attempt /\ script \in {"vetted", "changed"} BY DEF Kept, TypeOK, Attempt
  <2> QED BY <2>1 DEF Run, Attempt, HasBwrap
<1>3. att' \in [Worker -> Attempt] BY <1>1, <1>2 DEF Kept, TypeOK, Attempt
<1>4. uncapped' \in Nat BY <1>1 DEF Kept, TypeOK
<1>5. TypeOK' BY <1>3, <1>4 DEF Kept, TypeOK, Launch, Attempt
<1>6. \A v \in Worker : Busy(v)' => Busy(v) BY DEF Kept, TypeOK, Busy, Launch
<1>7. UNCHANGED <<box, installed, out, survivors, at, job, phase, crashes>> BY DEF Launch
<1> QED BY <1>5, <1>6, <1>7, QuietKept

LEMMA WorkKept == ASSUME Kept, Enforced, NEW w \in Worker, Work(w) PROVE Kept'
PROOF
<1>1. CASE NoCaps(w) BY <1>1, RejectKept DEF NoCaps
<1>2. CASE Unvetted(w) BY <1>2, RejectKept DEF Unvetted
<1>3. CASE NoWorkspace(w) BY <1>3, RejectKept DEF NoWorkspace
<1>4. CASE Admit(w) BY <1>4, AdmitKept
<1>5. CASE LaunchRefused(w) BY <1>5, RejectKept DEF LaunchRefused
<1>6. CASE LaunchCanceled(w) BY <1>6, RejectKept DEF LaunchCanceled
<1>7. CASE Launch(w) BY <1>7, LaunchKept
<1>8. CASE Succeeds(w) BY <1>8, SucceedsKept
<1>9. CASE Fails(w)
  <2>1. limitsOK' \in BOOLEAN BY <1>9 DEF Fails, Kept, TypeOK
  <2> QED BY <1>9, <2>1, NoResultKept DEF Fails
<1>10. CASE Killed(w)
  <2>1. limitsOK' \in BOOLEAN BY <1>10 DEF Killed, Kept, TypeOK
  <2> QED BY <1>10, <2>1, NoResultKept DEF Killed
<1> QED BY <1>1, <1>2, <1>3, <1>4, <1>5, <1>6, <1>7, <1>8, <1>9, <1>10 DEF Work

JobRecord == [status : {"none", "queued", "running", "done", "failed", "canceled"},
              attempt : 0..Attempts, result : Content]

\* A job that nobody is at and that is not over, of which only the status changes: the
\* done jobs keep theirs, and a status that waits is one an attempt is left for.
LEMMA StatusKept ==
    ASSUME Kept, NEW j \in Job, NEW s \in {"none", "queued", "running", "failed", "canceled"},
           job' = [job EXCEPT ![j].status = s], job[j].status # "done",
           (\E w \in Worker : Busy(w) /\ at[w] = j) => s = "canceled",
           s # "none", s \in {"queued", "running"} => job[j].attempt < Allowed + crashes,
           UNCHANGED <<machine, out, survivors, flags, wk, at, att, history>>
    PROVE  Kept'
PROOF
<1> USE DEF Kept
<1>1. job[j] \in JobRecord /\ job' = [job EXCEPT ![j] = [job[j] EXCEPT !.status = s]]
  BY DEF TypeOK, JobRecord
<1>2. [job[j] EXCEPT !.status = s] \in JobRecord BY <1>1 DEF JobRecord
<1>3. TypeOK'
  <2>1. job' \in [Job -> JobRecord] BY <1>1, <1>2 DEF TypeOK, JobRecord
  <2> QED BY <2>1 DEF TypeOK, machine, flags, history, JobRecord
<1>4. job'[j].status = s /\ job'[j].attempt = job[j].attempt BY <1>1 DEF TypeOK, JobRecord
<1>5. \A i \in Job \ {j} : job'[i] = job[i] BY <1>1 DEF TypeOK
<1>6. HeldOK'
  <2>1. ASSUME NEW w \in Worker, Busy(w)'
        PROVE  /\ at'[w] \in Job /\ job'[at'[w]].status \in {"running", "canceled"}
               /\ job'[at'[w]].attempt >= 1
    <3>1. Busy(w) /\ at'[w] = at[w] /\ at[w] \in Job BY <2>1 DEF Busy, HeldOK
    <3>2. CASE at[w] = j BY <1>4, <3>1, <3>2 DEF HeldOK
    <3>3. CASE at[w] # j BY <1>5, <3>1, <3>3 DEF HeldOK
    <3> QED BY <3>2, <3>3
  <2> QED BY <2>1 DEF HeldOK, Busy
<1>7. ASSUME NEW i \in Job PROVE AttemptsOK(i)'
  <2>1. AttemptsOK(i) OBVIOUS
  <2>2. UNCHANGED <<phase, crashes>> BY DEF flags, history
  <2>3. CASE i = j BY <1>4, <2>1, <2>2, <2>3 DEF AttemptsOK
  <2>4. CASE i # j BY <1>5, <2>1, <2>2, <2>4 DEF AttemptsOK
  <2> QED BY <2>3, <2>4
<1>8. NoSurvivors' BY DEF NoSurvivors, HasBwrap, machine
<1>9. AnswerStands'
  <2>1. s # "done" OBVIOUS
  <2>2. \A i \in Job : job'[i].status = "done" => job'[i] = job[i] BY <1>4, <1>5, <2>1
  <2> QED BY <2>2 DEF AnswerStands, Served, HasBwrap, machine
<1> QED BY <1>3, <1>6, <1>7, <1>8, <1>9 DEF history

LEMMA SubmitKept == ASSUME Kept, NEW j \in Job, Submit(j) PROVE Kept'
PROOF
<1>1. job[j].attempt < Allowed + crashes
  <2>1. job[j].attempt = 0 BY DEF Submit, Kept, AttemptsOK
  <2>2. crashes \in Nat BY DEF Kept, TypeOK
  <2> QED BY <2>1, <2>2, ExecutionAssumption DEF Allowed
<1>2. ~\E w \in Worker : Busy(w) /\ at[w] = j BY DEF Submit, Kept, HeldOK
<1>3. job' = [job EXCEPT ![j].status = "queued"] /\ job[j].status # "done"
  BY DEF Submit
<1> QED BY <1>1, <1>2, <1>3, StatusKept DEF Submit

LEMMA CancelKept == ASSUME Kept, NEW j \in Job, Cancel(j) PROVE Kept'
PROOF
<1>1. job' = [job EXCEPT ![j].status = "canceled"] /\ job[j].status # "done"
  BY DEF Cancel, Incomplete
<1>2. "canceled" # "queued" /\ "canceled" # "running" OBVIOUS
<1> QED BY <1>1, <1>2, StatusKept DEF Cancel

\* A worker that begins takes a job that no other is at, and counts the attempt.
LEMMA BeginKept == ASSUME Kept, NEW w \in Worker, NEW j \in Job, Begin(w, j) PROVE Kept'
PROOF
<1>1. job[j].status = "queued" /\ \A v \in Worker : at[v] # j BY DEF Begin
<1>2. CASE ~loaded
  <2>1. job' = [job EXCEPT ![j].status = "failed"] /\ UNCHANGED <<wk, at, att>> BY <1>2 DEF Begin
  <2>2. UNCHANGED <<machine, out, survivors, flags, history>> BY DEF Begin
  <2>3. "failed" # "queued" /\ "failed" # "running" OBVIOUS
  <2> QED BY <1>1, <2>1, <2>2, <2>3, StatusKept
<1>3. CASE loaded
  <2> USE DEF Kept
  <2> DEFINE n == [job[j] EXCEPT !.status = "running", !.attempt = @ + 1]
  <2>1. /\ wk[w] = "idle" /\ wk' = [wk EXCEPT ![w] = "entered"] /\ at' = [at EXCEPT ![w] = j]
        /\ att' = [att EXCEPT ![w].entry = script]
    BY <1>3 DEF Begin, WorkerStep
  <2>2. UNCHANGED <<machine, out, survivors, flags, history>> /\ phase = "serving" BY DEF Begin
  <2>3. job[j] \in JobRecord /\ job' = [job EXCEPT ![j] = n] BY <1>3 DEF Begin, TypeOK, JobRecord
  <2>4. /\ job[j].attempt \in Nat /\ crashes \in Nat /\ Allowed \in Nat /\ MaxCrashes \in Nat
        /\ Attempts = Allowed + MaxCrashes /\ crashes <= MaxCrashes
    <3>1. Attempts \in Nat BY ExecutionAssumption DEF Attempts
    <3> QED BY <2>3, <3>1, ExecutionAssumption DEF JobRecord, TypeOK, Allowed, Attempts
  <2>5. job[j].attempt < Allowed + crashes BY <1>1 DEF AttemptsOK
  <2>6. n \in JobRecord /\ n.status = "running" /\ n.attempt = job[j].attempt + 1
    <3>1. job[j].attempt + 1 \in 0..Attempts BY <2>4, <2>5
    <3>2. n.status = "running" /\ n.attempt = job[j].attempt + 1 BY <2>3 DEF JobRecord
    <3>3. [job[j] EXCEPT !.status = "running"] \in JobRecord BY <2>3 DEF JobRecord
    <3>4. n = [[job[j] EXCEPT !.status = "running"] EXCEPT !.attempt = job[j].attempt + 1]
      BY <2>3 DEF JobRecord
    <3>5. n \in JobRecord BY <3>1, <3>3, <3>4 DEF JobRecord
    <3> QED BY <3>2, <3>5
  <2> HIDE DEF n
  <2>7. TypeOK'
    <3>1. job' \in [Job -> JobRecord] BY <2>3, <2>6 DEF TypeOK, JobRecord
    <3>2. att' \in [Worker -> Attempt] BY <2>1 DEF TypeOK, Attempt
    <3>3. wk' \in [Worker -> {"idle", "entered", "admitted", "running"}]
          /\ at' \in [Worker -> Job \union {NoJob}]
      BY <2>1 DEF TypeOK
    <3> QED BY <2>2, <3>1, <3>2, <3>3 DEF TypeOK, JobRecord, Attempt, machine, flags, history
  <2>8. job'[j] = n /\ \A i \in Job \ {j} : job'[i] = job[i] BY <2>3 DEF TypeOK
  <2>9. HeldOK'
    <3>1. ASSUME NEW v \in Worker, v # w, Busy(v)'
          PROVE  Busy(v) /\ at'[v] = at[v] /\ at[v] \in Job \ {j}
      BY <1>1, <2>1, <3>1 DEF Busy, TypeOK, HeldOK
    <3>2. at'[w] = j BY <2>1 DEF TypeOK
    <3>3. ASSUME NEW v \in Worker, Busy(v)'
          PROVE  /\ at'[v] \in Job /\ job'[at'[v]].status \in {"running", "canceled"}
                 /\ job'[at'[v]].attempt >= 1
      <4>1. CASE v = w BY <2>4, <2>6, <2>8, <3>2, <4>1
      <4>2. CASE v # w BY <2>8, <3>1, <3>3, <4>2 DEF HeldOK
      <4> QED BY <4>1, <4>2
    <3> QED BY <3>1, <3>2, <3>3 DEF HeldOK
  <2>10. ASSUME NEW i \in Job PROVE AttemptsOK(i)'
    <3>1. AttemptsOK(i) OBVIOUS
    <3>2. UNCHANGED <<phase, crashes>> BY <2>2 DEF flags, history
    <3>3. CASE i = j BY <2>2, <2>4, <2>5, <2>6, <2>8, <3>2, <3>3 DEF AttemptsOK, flags
    <3>4. CASE i # j BY <2>8, <3>1, <3>2, <3>4 DEF AttemptsOK
    <3> QED BY <3>3, <3>4
  <2>11. NoSurvivors' BY <2>2 DEF NoSurvivors, HasBwrap, machine
  <2>12. AnswerStands'
    <3>1. \A i \in Job : job'[i].status = "done" => job'[i] = job[i] BY <2>6, <2>8
    <3> QED BY <2>2, <3>1 DEF AnswerStands, Served, HasBwrap, machine
  <2> QED BY <2>2, <2>7, <2>9, <2>10, <2>11, <2>12 DEF history
<1> QED BY <1>2, <1>3

\* A process that no desk waits for writes only where runs were not all in the sandbox.
LEMMA SurvivorKept == ASSUME Kept, NEW j \in Job, SurvivorWrites(j) PROVE Kept'
PROOF
<1> USE DEF SurvivorWrites, machine, flags, history
<1>1. PICK c \in [File -> Content] : out' = [out EXCEPT ![j] = c] BY DEF Writes
<1>2. TypeOK' BY <1>1 DEF Kept, TypeOK
<1>3. HeldOK' BY DEF Kept, HeldOK, Busy
<1>4. \A i \in Job : AttemptsOK(i)' BY DEF Kept, AttemptsOK
<1>5. NoSurvivors' BY DEF Kept, NoSurvivors, HasBwrap
<1>6. ~(box.strict \/ HasBwrap) BY DEF Kept, NoSurvivors
<1>7. AnswerStands' BY <1>6 DEF AnswerStands, HasBwrap
<1> QED BY <1>2, <1>3, <1>4, <1>5, <1>7 DEF Kept

\* Resume() queues every job that is not over; each has an attempt left.
LEMMA StartupKept == ASSUME Kept, Enforced, Startup PROVE Kept'
PROOF
<1> USE DEF Kept
<1>1. /\ phase = "off" /\ phase' \in {"refused", "serving"}
      /\ UNCHANGED <<box, installed, script, out, survivors, wk, at, att, crashes>>
  BY DEF Startup, machine
<1>2. \A w \in Worker : ~Busy(w) /\ ~Busy(w)' BY <1>1 DEF Enforced, ServingOK, Busy
<1>3. job' = [j \in Job |-> IF phase' = "serving" /\ Incomplete(j)
                            THEN [job[j] EXCEPT !.status = "queued"] ELSE job[j]]
  BY DEF Startup
<1>4. ASSUME NEW j \in Job
      PROVE  /\ job'[j] \in JobRecord /\ job'[j].attempt = job[j].attempt
             /\ job'[j].status = job[j].status \/ (Incomplete(j) /\ job'[j].status = "queued")
             /\ job'[j].status = "done" => job'[j] = job[j]
  <2>1. job[j] \in JobRecord BY DEF TypeOK, JobRecord
  <2>2. CASE phase' = "serving" /\ Incomplete(j)
    <3>1. job'[j] = [job[j] EXCEPT !.status = "queued"] BY <1>3, <2>2
    <3> QED BY <2>1, <2>2, <3>1 DEF JobRecord
  <2>3. CASE ~(phase' = "serving" /\ Incomplete(j))
    <3>1. job'[j] = job[j] BY <1>3, <2>3
    <3> QED BY <2>1, <3>1
  <2> QED BY <2>2, <2>3
<1>5. TypeOK'
  <2>1. job' \in [Job -> JobRecord] BY <1>3, <1>4
  <2>2. <<sandboxOK, seccompOK, limitsOK, loaded>>' \in BOOLEAN \X BOOLEAN \X BOOLEAN \X BOOLEAN
    <3>1. HasBwrap \in BOOLEAN /\ ProbeSeccomp \in BOOLEAN BY SMT DEF HasBwrap, ProbeSeccomp
    <3>2. CanScopeJobs \in BOOLEAN /\ VerifyIntegrity \in BOOLEAN
      BY Zenon DEF CanScopeJobs, VerifyIntegrity
    <3>3. /\ sandboxOK' = HasBwrap /\ seccompOK' = ProbeSeccomp
          /\ limitsOK' = CanScopeJobs /\ loaded' = VerifyIntegrity
      BY DEF Startup
    <3> QED BY <3>1, <3>2, <3>3, Zenon
  <2>3. uncapped' \in Nat BY DEF Startup
  <2> QED BY <1>1, <2>1, <2>2, <2>3 DEF TypeOK, JobRecord
<1>6. HeldOK' BY <1>2 DEF HeldOK
<1>7. ASSUME NEW j \in Job PROVE AttemptsOK(j)'
  <2>1. AttemptsOK(j) OBVIOUS
  <2> QED BY <1>1, <1>4, <2>1 DEF AttemptsOK, Incomplete
<1>8. NoSurvivors' BY <1>1 DEF NoSurvivors, HasBwrap
<1>9. AnswerStands' BY <1>1, <1>4 DEF AnswerStands, Served, HasBwrap
<1> QED BY <1>1, <1>5, <1>6, <1>7, <1>8, <1>9

\* A crash leaves alive no process that ran in the sandbox, and allows one attempt more.
LEMMA CrashKept == ASSUME Kept, Enforced, Crash PROVE Kept'
PROOF
<1> USE DEF Kept
<1>1. /\ phase = "serving" /\ phase' = "off" /\ crashes' = crashes + 1 /\ crashes < MaxCrashes
      /\ wk' = [w \in Worker |-> "idle"] /\ at' = [w \in Worker |-> NoJob]
      /\ att' = [w \in Worker |-> NoRun] /\ survivors' = survivors \union SurvivorsOfCrash
      /\ UNCHANGED <<box, installed, script, out, sandboxOK, seccompOK, limitsOK, loaded, job, uncapped>>
  BY DEF Crash, machine
<1>2. SurvivorsOfCrash \subseteq Job BY DEF SurvivorsOfCrash, HeldOK, Busy
<1>3. crashes \in Nat /\ MaxCrashes \in Nat BY ExecutionAssumption DEF TypeOK
<1>4. TypeOK'
  <2>1. att' \in [Worker -> Attempt] BY <1>1 DEF NoRun, Attempt
  <2>2. survivors' \subseteq Job BY <1>1, <1>2 DEF TypeOK
  <2> QED BY <1>1, <1>3, <2>1, <2>2 DEF TypeOK, Attempt
<1>5. HeldOK' BY <1>1 DEF HeldOK, Busy
<1>6. ASSUME NEW j \in Job PROVE AttemptsOK(j)'
  <2>1. AttemptsOK(j) OBVIOUS
  <2>2. Allowed \in Nat /\ job[j].attempt \in Nat
    <3>1. Attempts \in Nat /\ job[j].attempt \in 0..Attempts
      BY ExecutionAssumption DEF TypeOK, Attempts
    <3> QED BY <3>1, ExecutionAssumption DEF Allowed
  <2> QED BY <1>1, <1>3, <2>1, <2>2 DEF AttemptsOK
<1>7. NoSurvivors'
  <2>1. ASSUME box.strict \/ HasBwrap PROVE SurvivorsOfCrash = {}
    BY <2>1 DEF Enforced, RunOK, Running, HasBwrap, SurvivorsOfCrash
  <2> QED BY <1>1, <2>1 DEF NoSurvivors, HasBwrap
<1>8. AnswerStands' BY <1>1 DEF AnswerStands, Served, HasBwrap
<1> QED BY <1>1, <1>3, <1>4, <1>5, <1>6, <1>7, <1>8

LEMMA KeptNext == Kept /\ Enforced /\ [Next]_vars => Kept'
PROOF
<1> SUFFICES ASSUME Kept, Enforced, [Next]_vars PROVE Kept' OBVIOUS
<1>1. CASE Startup BY <1>1, StartupKept
<1>2. CASE Crash BY <1>2, CrashKept
<1>3. CASE EditScript
  <2>1. TypeOK' BY <1>3 DEF EditScript, Kept, TypeOK, flags, history
  <2> QED BY <1>3, <2>1, QuietKept DEF EditScript, flags, history, Busy
<1>4. ASSUME NEW j \in Job, Submit(j) PROVE Kept' BY <1>4, SubmitKept
<1>5. ASSUME NEW j \in Job, Cancel(j) PROVE Kept' BY <1>5, CancelKept
<1>6. ASSUME NEW j \in Job, SurvivorWrites(j) PROVE Kept' BY <1>6, SurvivorKept
<1>7. ASSUME NEW w \in Worker, NEW j \in Job, Begin(w, j) PROVE Kept' BY <1>7, BeginKept
<1>8. ASSUME NEW w \in Worker, Work(w) PROVE Kept' BY <1>8, WorkKept
<1>9. ASSUME NEW p \in Programs, Uninstall(p) PROVE Kept'
  <2>1. TypeOK' BY <1>9 DEF Uninstall, Kept, TypeOK, flags, history
  <2> QED BY <1>9, <2>1, QuietKept DEF Uninstall, flags, history, Busy
<1>10. CASE UNCHANGED vars
  <2>1. TypeOK' BY <1>10 DEF vars, machine, Kept, TypeOK, flags, history
  <2> QED BY <1>10, <2>1, QuietKept DEF vars, machine, flags, history, Busy
<1> QED BY <1>1, <1>2, <1>3, <1>4, <1>5, <1>6, <1>7, <1>8, <1>9, <1>10 DEF Next

LEMMA KeptAlways == Spec => []Kept
PROOF
<1> QED BY KeptInit, KeptNext, EnforcedAlways, PTL DEF Spec

\* Every variable of the desk and of the machine keeps its type; of the jobs, no attempt
\* is counted beyond the retries (queue.go:461) and one for each crash.
THEOREM ExecutionTypes == Spec => []TypeOK
PROOF
<1>1. Kept => TypeOK BY DEF Kept
<1> QED BY <1>1, KeptAlways, PTL

\* The result a done job is answered with stays what out/ serves (main.go:944):
\* the next attempt of a job begins when the last is gone, auditOutDir()
\* (executor.go:511) lets nothing else through, and no sandboxed process lives on.
THEOREM AnswerKept == Spec => []AnswerStands
PROOF
<1>1. Kept => AnswerStands BY DEF Kept
<1> QED BY <1>1, KeptAlways, PTL

------------------------------------------------------------------------------
(* The runs that slip through without caps.                                  *)

\* The workers between the test of the flag and the start of a process.
Past == {w \in Worker : wk[w] = "admitted"}

\* A strict desk has let no run slip through while the flag is up; when it is down, those
\* that did and those that may yet are not all the workers: one saw the flag fall.
Slipped ==
    /\ ~box.strict => uncapped = 0
    /\ box.strict /\ "systemd-run" \in installed =>
         IF limitsOK THEN uncapped = 0 ELSE uncapped + Cardinality(Past) < Cardinality(Worker)

\* What there is to know of sets of workers; W is Past before or after a step.
LEMMA WorkersCounted ==
    ASSUME NEW W, W \subseteq Worker
    PROVE  /\ IsFiniteSet(W) /\ Cardinality(W) \in Nat
           /\ Cardinality(Worker) \in Nat /\ Cardinality(Worker) > 0
           /\ \A V \in SUBSET W : Cardinality(V) \in Nat /\ Cardinality(V) <= Cardinality(W)
           /\ \A w \in W : Cardinality(W \ {w}) = Cardinality(W) - 1
PROOF
<1>1. IsFiniteSet(Worker) /\ Worker # {} BY ExecutionAssumption
<1>2. IsFiniteSet(W) BY <1>1, FS_Subset
<1>3. Cardinality(W) \in Nat /\ Cardinality(Worker) \in Nat BY <1>1, <1>2, FS_CardinalityType
<1>4. Cardinality(Worker) > 0 BY <1>1, <1>3, FS_EmptySet
<1>5. \A V \in SUBSET W : Cardinality(V) \in Nat /\ Cardinality(V) <= Cardinality(W)
  BY <1>2, FS_Subset, FS_CardinalityType
<1>6. \A w \in W : Cardinality(W \ {w}) = Cardinality(W) - 1 BY <1>2, FS_RemoveElement
<1> QED BY <1>2, <1>3, <1>4, <1>5, <1>6

\* A step that starts no process, leaves the flag and takes no worker past its test.
LEMMA SlippedStays ==
    ASSUME Slipped, uncapped \in Nat, UNCHANGED <<box, uncapped, limitsOK>>,
           installed' \subseteq installed, Past' \subseteq Past
    PROVE  Slipped'
PROOF
<1>1. Past \subseteq Worker BY DEF Past
<1>2. /\ Cardinality(Past) \in Nat /\ Cardinality(Worker) \in Nat
      /\ Cardinality(Past') \in Nat /\ Cardinality(Past') <= Cardinality(Past)
  BY <1>1, WorkersCounted
<1> QED BY <1>2 DEF Slipped

\* An attempt that ends takes no worker past the test.
LEMMA EndPast ==
    ASSUME TypeOK, NEW w \in Worker, NEW from, NEW o, NEW r, End(w, from, o, r)
    PROVE  Past' \subseteq Past \ {w}
PROOF
<1> QED BY DEF End, WorkerStep, TypeOK, Past

LEMMA SlippedWork == ASSUME Slipped, Kept, NEW w \in Worker, Work(w) PROVE Slipped'
PROOF
<1>1. TypeOK /\ uncapped \in Nat BY DEF Kept, TypeOK
<1>2. ASSUME NEW from, NEW o, Reject(w, from, o) PROVE Slipped'
  <2>1. Past' \subseteq Past BY <1>1, <1>2, EndPast DEF Reject
  <2> QED BY <1>1, <1>2, <2>1, SlippedStays DEF Reject, machine, flags, history
<1>3. ASSUME Gone(w), NEW o, NEW r, End(w, "running", o, r), limitsOK' = limitsOK PROVE Slipped'
  <2>1. Past' \subseteq Past BY <1>1, <1>3, EndPast
  <2> QED BY <1>1, <1>3, <2>1, SlippedStays DEF Gone, machine, history
<1>4. CASE NoCaps(w) BY <1>2, <1>4 DEF NoCaps
<1>5. CASE Unvetted(w) BY <1>2, <1>5 DEF Unvetted
<1>6. CASE NoWorkspace(w) BY <1>2, <1>6 DEF NoWorkspace
<1>7. CASE LaunchRefused(w) BY <1>2, <1>7 DEF LaunchRefused
<1>8. CASE LaunchCanceled(w) BY <1>2, <1>8 DEF LaunchCanceled
<1>9. CASE Succeeds(w) BY <1>3, <1>9 DEF Succeeds
<1>10. CASE Killed(w) BY <1>3, <1>10 DEF Killed
<1>11. CASE Admit(w)
  <2>1. UNCHANGED <<box, installed, uncapped, limitsOK>> /\ (box.strict => limitsOK)
    BY <1>11 DEF Admit, machine, flags, history
  <2> QED BY <2>1 DEF Slipped
<1>12. CASE Launch(w)
  <2>1. PICK pipe \in BOOLEAN :
          /\ ~RunRefused(pipe)
          /\ uncapped' = IF box.strict /\ ~Run(w, pipe).capped THEN uncapped + 1 ELSE uncapped
    BY <1>12 DEF Launch
  <2>2. UNCHANGED <<box, installed, limitsOK>> BY <1>12 DEF Launch, machine, flags
  <2>3. w \in Past /\ Past' = Past \ {w}
    BY <1>1, <1>12 DEF Launch, WorkerStep, TypeOK, Past
  <2>4. box.strict /\ "systemd-run" \in installed /\ limitsOK => Run(w, pipe).capped
    BY <2>1 DEF RunRefused, Run
  <2>5. Past \subseteq Worker BY DEF Past
  <2>6. Cardinality(Past') = Cardinality(Past) - 1 /\ Cardinality(Past) \in Nat /\ Cardinality(Worker) \in Nat
    BY <2>3, <2>5, WorkersCounted
  <2>7. uncapped' \in {uncapped, uncapped + 1} /\ (Run(w, pipe).capped \/ ~box.strict => uncapped' = uncapped)
    BY <2>1
  <2> QED BY <1>1, <2>2, <2>4, <2>6, <2>7 DEF Slipped
<1>13. CASE Fails(w)
  <2>1. Gone(w) /\ End(w, "running", "retry", None) /\ limitsOK' \in {limitsOK, FALSE}
    BY <1>13 DEF Fails
  <2>2. CASE limitsOK' = limitsOK BY <1>3, <2>1, <2>2
  <2>3. CASE limitsOK = TRUE /\ limitsOK' = FALSE
    <3>1. Past' \subseteq Worker \ {w} BY <1>1, <2>1, EndPast DEF Past
    <3>2. /\ Cardinality(Worker \ {w}) = Cardinality(Worker) - 1
          /\ Cardinality(Past') <= Cardinality(Worker \ {w})
          /\ Cardinality(Past') \in Nat /\ Cardinality(Worker) \in Nat
      BY <3>1, WorkersCounted
    <3>3. UNCHANGED <<box, installed, uncapped>> BY <2>1 DEF Gone, machine, history
    <3> QED BY <2>3, <3>2, <3>3 DEF Slipped
  <2>4. limitsOK \in BOOLEAN BY DEF Kept, TypeOK
  <2> QED BY <2>1, <2>2, <2>3, <2>4
<1> QED BY <1>4, <1>5, <1>6, <1>7, <1>8, <1>9, <1>10, <1>11, <1>12, <1>13 DEF Work

LEMMA SlippedNext == Slipped /\ Kept /\ Enforced /\ [Next]_vars => Slipped'
PROOF
<1> SUFFICES ASSUME Slipped, Kept, Enforced, [Next]_vars PROVE Slipped' OBVIOUS
<1>1. uncapped \in Nat BY DEF Kept, TypeOK
<1>2. CASE Startup
  <2>1. Past' = {} BY <1>2 DEF Startup, Past, Enforced, ServingOK
  <2>2. Cardinality({}) = 0 /\ Cardinality(Worker) > 0 /\ Cardinality(Worker) \in Nat
    BY FS_EmptySet, WorkersCounted
  <2> QED BY <1>2, <2>1, <2>2 DEF Slipped, Startup
<1>3. CASE Crash
  <2>1. Past' \subseteq Past BY <1>3 DEF Crash, Past
  <2> QED BY <1>1, <1>3, <2>1, SlippedStays DEF Crash, machine
<1>4. CASE EditScript BY <1>1, <1>4, SlippedStays DEF EditScript, flags, history, Past
<1>5. ASSUME NEW j \in Job, Submit(j) PROVE Slipped'
  BY <1>1, <1>5, SlippedStays DEF Submit, machine, flags, history, Past
<1>6. ASSUME NEW j \in Job, Cancel(j) PROVE Slipped'
  BY <1>1, <1>6, SlippedStays DEF Cancel, machine, flags, history, Past
<1>7. ASSUME NEW j \in Job, SurvivorWrites(j) PROVE Slipped'
  BY <1>1, <1>7, SlippedStays DEF SurvivorWrites, machine, flags, history, Past
<1>8. ASSUME NEW w \in Worker, NEW j \in Job, Begin(w, j) PROVE Slipped'
  <2>1. Past' \subseteq Past BY <1>8 DEF Begin, WorkerStep, Past, Kept, TypeOK
  <2> QED BY <1>1, <1>8, <2>1, SlippedStays DEF Begin, machine, flags, history
<1>9. ASSUME NEW w \in Worker, Work(w) PROVE Slipped' BY <1>9, SlippedWork
<1>10. ASSUME NEW p \in Programs, Uninstall(p) PROVE Slipped'
  BY <1>1, <1>10, SlippedStays DEF Uninstall, flags, history, Past
<1>11. CASE UNCHANGED vars BY <1>1, <1>11, SlippedStays DEF vars, machine, flags, history, Past
<1> QED BY <1>2, <1>3, <1>4, <1>5, <1>6, <1>7, <1>8, <1>9, <1>10, <1>11 DEF Next

\* Under -strict the flag of the caps is tested at the head of Execute() and read again
\* where the run is put together (executor.go:348); however the failures of systemd-run
\* fall between the two, fewer runs than there are workers begin without caps.
THEOREM UncappedBounded == Spec => []StrictUncappedBound
PROOF
<1>1. Init => Slipped
  <2> SUFFICES ASSUME Init PROVE Slipped OBVIOUS
  <2>1. Past = {} BY DEF Init, Past
  <2>2. Cardinality({}) = 0 /\ Cardinality(Worker) > 0 /\ Cardinality(Worker) \in Nat
    BY FS_EmptySet, WorkersCounted
  <2> QED BY <2>1, <2>2 DEF Init, Slipped
<1>2. Slipped /\ Kept => StrictUncappedBound
  <2> SUFFICES ASSUME Slipped, Kept, "systemd-run" \in installed
               PROVE  uncapped < Cardinality(Worker)
    BY DEF StrictUncappedBound
  <2>1. Past \subseteq Worker BY DEF Past
  <2>2. Cardinality(Past) \in Nat /\ Cardinality(Worker) \in Nat /\ Cardinality(Worker) > 0
    BY <2>1, WorkersCounted
  <2>3. uncapped \in Nat BY DEF Kept, TypeOK
  <2> QED BY <2>2, <2>3 DEF Slipped
<1> QED BY <1>1, <1>2, SlippedNext, KeptAlways, EnforcedAlways, PTL DEF Spec
=============================================================================
