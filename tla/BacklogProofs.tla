---------------------------- MODULE BacklogProofs ----------------------------
(***************************************************************************)
(* Theorems about Backlog for every number of jobs and workers, every cap, *)
(* every channel capacity and every retry limit.                           *)
(***************************************************************************)
EXTENDS Backlog, FiniteSetTheorems, SequenceTheorems, TLAPS

\* TypeOK is not inductive by itself: that a send on ch sends a job, and that a
\* worker at work holds one, follows from where the goroutines are.
Holding == {"took", "run", "backoff", "append"}
PlacesOK ==
    /\ disp = "send" => hand \in Job
    /\ \A w \in Worker : wk[w] \in Holding => job[w] \in Job
    /\ resume = "append" => loading # <<>>
TypeInv == TypeOK /\ PlacesOK

USE JobAssumption, BoundAssumption DEF JobAssumption, BoundAssumption

\* The jobs of an earlier process are finitely many.
LEMMA ResumedFinite == IsFiniteSet(Resumed) /\ Cardinality(Resumed) \in Nat
<1>1. Resumed \subseteq Job /\ IsFiniteSet(Job)
    OBVIOUS
<1>2. IsFiniteSet(Resumed)
    BY ONLY <1>1, FS_Subset
<1>. QED
    BY <1>2, FS_CardinalityType

\* The initial states are typed.
LEMMA InitTypeInv == Init => TypeInv
<1> SUFFICES ASSUME Init PROVE TypeInv
    OBVIOUS
<1>1. loading \in Seq(Resumed)
    <2>1. IsFiniteSet(Resumed) /\ Cardinality(Resumed) \in Nat
        BY ResumedFinite
    <2>2. CASE loading = <<>>
        BY <2>2
    <2>3. CASE loading \in [1..Cardinality(Resumed) -> Resumed]
        BY <2>1, <2>3, SeqDef
    <2>4. loading = <<>> \/ loading \in [1..Cardinality(Resumed) -> Resumed]
        BY DEF Init
    <2>. QED
        BY <2>2, <2>3, <2>4
<1>2. attempt \in [Job -> Nat]
    <2>1. attempt \in [Job -> 0..MaxRetries]
        BY DEF Init
    <2>2. 0..MaxRetries \subseteq Nat
        OBVIOUS
    <2>. QED
        BY <2>1, <2>2
<1>3. /\ pending = <<>> /\ reserved = 0 /\ wake = FALSE /\ ch = <<>> /\ stopped = FALSE
      /\ disp = "scan" /\ hand = NoJob /\ resume = "check" /\ finished = {}
      /\ sub = [j \in Fresh |-> "idle"]
      /\ wk = [w \in Worker |-> "idle"] /\ job = [w \in Worker |-> NoJob]
    BY DEF Init
<1>4. pending \in Seq(Job) /\ ch \in Seq(Job) /\ Len(ch) <= ChanCap
    BY <1>3
<1>5. /\ sub \in [Fresh -> {"idle", "admit", "insert", "signal", "accepted", "refused"}]
      /\ wk \in [Worker -> {"idle", "took", "run", "backoff", "append", "signal", "exit"}]
      /\ job \in [Worker -> Job \union {NoJob}]
    BY <1>3
<1>6. TypeOK
    BY <1>1, <1>2, <1>3, <1>4, <1>5 DEF TypeOK
<1>7. PlacesOK
    BY <1>3 DEF PlacesOK, Holding
<1>. QED
    BY <1>6, <1>7 DEF TypeInv

\* Every step keeps the types: one lemma per goroutine.
LEMMA SubmitTypeInv ==
    ASSUME TypeInv, NEW j \in Fresh, Submit(j) PROVE TypeInv'
<1>. USE DEF TypeInv, TypeOK, PlacesOK, Holding, SubmitStep, workers
<1>1. j \in Job
    BY DEF Fresh
<1>2. CASE ReserveCheck(j)
    BY <1>2 DEF ReserveCheck
<1>3. CASE Reserve(j)
    <2>1. sub' \in [Fresh -> {"idle", "admit", "insert", "signal", "accepted", "refused"}]
        BY <1>3 DEF Reserve
    <2>2. reserved' \in Nat
        BY <1>3 DEF Reserve
    <2>. QED
        BY <1>3, <2>1, <2>2 DEF Reserve
<1>4. CASE Release(j)
    BY <1>4 DEF Release, GiveBack
<1>5. CASE EnqueueReserved(j)
    BY <1>1, <1>5 DEF EnqueueReserved, GiveBack
<1>6. CASE SubmitSignal(j)
    BY <1>6 DEF SubmitSignal
<1>. QED
    BY <1>2, <1>3, <1>4, <1>5, <1>6 DEF Submit

LEMMA ResumeTypeInv ==
    ASSUME TypeInv, Resume PROVE TypeInv'
<1>. USE DEF TypeInv, TypeOK, PlacesOK, Holding, workers
<1>1. CASE ResumeCheck
    BY <1>1 DEF ResumeCheck
<1>2. CASE ResumeAppend
    <2>1. Head(loading) \in Job /\ Tail(loading) \in Seq(Resumed)
        BY <1>2, HeadTailProperties DEF ResumeAppend
    <2>. QED
        BY <1>2, <2>1 DEF ResumeAppend
<1>3. CASE ResumeSignal
    BY <1>3 DEF ResumeSignal
<1>. QED
    BY <1>1, <1>2, <1>3 DEF Resume

LEMMA DispatchTypeInv ==
    ASSUME TypeInv, Dispatch PROVE TypeInv'
<1>. USE DEF TypeInv, TypeOK, PlacesOK, Holding, callers, workers
<1>1. CASE DispatchScan
    <2>1. pending # <<>> => Head(pending) \in Job /\ Tail(pending) \in Seq(Job)
        BY HeadTailProperties
    <2>. QED
        BY <1>1, <2>1 DEF DispatchScan
<1>2. CASE DispatchWake
    BY <1>2 DEF DispatchWake
<1>3. CASE DispatchSend
    BY <1>3 DEF DispatchSend
<1>4. CASE DispatchExit
    BY <1>4 DEF DispatchExit
<1>. QED
    BY <1>1, <1>2, <1>3, <1>4 DEF Dispatch

LEMMA WorkTypeInv ==
    ASSUME TypeInv, NEW w \in Worker, Work(w) PROVE TypeInv'
<1>. USE DEF TypeInv, TypeOK, PlacesOK, Holding, callers, WorkerStep
<1>1. CASE Receive(w)
    <2>1. Head(ch) \in Job /\ Tail(ch) \in Seq(Job) /\ Len(Tail(ch)) <= ChanCap
        BY <1>1, HeadTailProperties, LenProperties DEF Receive
    <2>. QED
        BY <1>1, <2>1 DEF Receive
<1>2. CASE Execute(w)
    BY <1>2 DEF Execute
<1>3. ASSUME NEW from \in {"took", "run", "backoff"}, Finished(w, from)
      PROVE  TypeInv'
    BY <1>3 DEF Finished
<1>4. CASE Retry(w)
    BY <1>4 DEF Retry
<1>5. CASE BackoffEnds(w)
    BY <1>5 DEF BackoffEnds
<1>6. CASE RequeueAppend(w)
    BY <1>6 DEF RequeueAppend
<1>7. CASE RequeueSignal(w)
    BY <1>7 DEF RequeueSignal
<1>8. CASE WorkerExit(w)
    BY <1>8 DEF WorkerExit
<1>. QED
    BY <1>1, <1>2, <1>3, <1>4, <1>5, <1>6, <1>7, <1>8 DEF Work, Finish, BackoffDrops

LEMMA NextTypeInv ==
    ASSUME TypeInv, [Next]_vars PROVE TypeInv'
<1>1. CASE Stop
    BY <1>1 DEF Stop, TypeInv, TypeOK, PlacesOK, callers, workers
<1>2. CASE UNCHANGED vars
    BY <1>2 DEF vars, TypeInv, TypeOK, PlacesOK, callers, workers
<1>. QED
    BY <1>1, <1>2, SubmitTypeInv, ResumeTypeInv, DispatchTypeInv, WorkTypeInv DEF Next

\* The strengthening of TypeOK that the other proofs rest on.
THEOREM TypeInvariant == Spec => []TypeInv
    BY InitTypeInv, NextTypeInv, PTL DEF Spec

\* Every variable keeps its type; in particular ch never holds more than its
\* capacity and a nil job is never sent on it.
THEOREM TypeCorrect == Spec => []TypeOK
    BY TypeInvariant, PTL DEF TypeInv

------------------------------------------------------------------------------
(* Sequences and their elements.                                             *)

LEMMA ElemsAppend ==
    ASSUME NEW s \in Seq(Job), NEW x \in Job
    PROVE  Elems(Append(s, x)) = Elems(s) \union {x}
<1>1. DOMAIN s = 1..Len(s) /\ DOMAIN Append(s, x) = 1..(Len(s) + 1) /\ Len(s) \in Nat
    OBVIOUS
<1>2. \A i \in 1..Len(s) : Append(s, x)[i] = s[i]
    OBVIOUS
<1>3. Append(s, x)[Len(s) + 1] = x
    OBVIOUS
<1>4. 1..(Len(s) + 1) = (1..Len(s)) \union {Len(s) + 1}
    BY <1>1
<1>. QED
    BY <1>1, <1>2, <1>3, <1>4 DEF Elems

LEMMA ElemsTail ==
    ASSUME NEW s \in Seq(Job), s # <<>>
    PROVE  /\ Elems(Tail(s)) \subseteq Elems(s)
           /\ Head(s) \in Elems(s)
<1>1. DOMAIN s = 1..Len(s) /\ Len(s) \in Nat \ {0}
    OBVIOUS
<1>2. Tail(s) \in Seq(Job) /\ Len(Tail(s)) = Len(s) - 1
    BY HeadTailProperties
<1>3. DOMAIN Tail(s) = 1..(Len(s) - 1)
    BY <1>2
<1>4. \A i \in 1..(Len(s) - 1) : Tail(s)[i] = s[i + 1] /\ i + 1 \in 1..Len(s)
    BY <1>1, <1>2, HeadTailProperties
<1>5. Head(s) = s[1] /\ 1 \in 1..Len(s)
    BY <1>1
<1>. QED
    BY <1>1, <1>3, <1>4, <1>5 DEF Elems

\* A sequence has no more elements than positions.
LEMMA ElemsBound ==
    ASSUME NEW s \in Seq(Job)
    PROVE  IsFiniteSet(Elems(s)) /\ Cardinality(Elems(s)) <= Len(s)
<1>1. Len(s) \in Nat /\ DOMAIN s = 1..Len(s)
    OBVIOUS
<1>2. s \in Surjection(1..Len(s), Elems(s))
    BY <1>1 DEF Surjection, Elems
<1>3. IsFiniteSet(1..Len(s)) /\ Cardinality(1..Len(s)) = Len(s)
    BY <1>1, FS_Interval
<1>. QED
    BY <1>2, <1>3, FS_Surjection

------------------------------------------------------------------------------
(* The cap.  A retry is in the backlog too, and is not counted against the   *)
(* cap: that it has been started once is what keeps the two apart.           *)

StartedOK ==
    \A w \in Worker : wk[w] \in {"run", "backoff", "append"} => attempt[job[w]] > 0
CapInv == SlotsAccounted /\ AdmissionCap /\ StartedOK

LEMMA FreshFinite ==
    ASSUME TypeOK
    PROVE  /\ IsFiniteSet(SlotHolders) /\ Cardinality(SlotHolders) \in Nat
           /\ IsFiniteSet(FreshPending) /\ Cardinality(FreshPending) \in Nat
           /\ Cardinality(FreshPending) <= Len(pending)
<1>1. IsFiniteSet(Job)
    OBVIOUS
<1>2. SlotHolders \in SUBSET Job /\ FreshPending \in SUBSET Job
    BY DEF SlotHolders, FreshPending, Fresh
<1>3. IsFiniteSet(SlotHolders) /\ IsFiniteSet(FreshPending)
    BY ONLY <1>1, <1>2, FS_Subset
<1>4. Cardinality(SlotHolders) \in Nat /\ Cardinality(FreshPending) \in Nat
    BY ONLY <1>3, FS_CardinalityType
<1>5. FreshPending \in SUBSET Elems(pending)
    BY DEF FreshPending
<1>6. pending \in Seq(Job) /\ Len(pending) \in Nat
    BY DEF TypeOK
<1>7. IsFiniteSet(Elems(pending)) /\ Cardinality(Elems(pending)) <= Len(pending)
    BY <1>6, ElemsBound
<1>8. Cardinality(FreshPending) <= Cardinality(Elems(pending))
    BY ONLY <1>5, <1>7, FS_Subset
<1>9. Cardinality(Elems(pending)) \in Nat
    BY ONLY <1>7, FS_CardinalityType
<1>. QED
    BY ONLY <1>3, <1>4, <1>6, <1>7, <1>8, <1>9

\* What a step that admits no job leaves of the cap.
LEMMA NothingAdmitted ==
    ASSUME TypeOK, AdmissionCap, SlotsAccounted,
           FreshPending' \subseteq FreshPending, reserved' = reserved,
           SlotHolders' = SlotHolders
    PROVE  AdmissionCap' /\ SlotsAccounted'
<1>1. Cardinality(FreshPending') <= Cardinality(FreshPending)
    <2>1. FreshPending' \in SUBSET FreshPending
        OBVIOUS
    <2>. QED
        BY ONLY <2>1, FreshFinite, FS_Subset, TypeOK
<1>2. Cardinality(FreshPending) \in Nat /\ IsFiniteSet(FreshPending)
    BY FreshFinite
<1>3. Cardinality(FreshPending') \in Nat
    <2>1. FreshPending' \in SUBSET FreshPending
        OBVIOUS
    <2>2. IsFiniteSet(FreshPending')
        BY ONLY <2>1, <1>2, FS_Subset
    <2>. QED
        BY ONLY <2>2, FS_CardinalityType
<1>4. reserved \in Nat
    BY DEF TypeOK
<1>5. Cardinality(FreshPending') + reserved <= MaxPending
    BY <1>1, <1>2, <1>3, <1>4 DEF AdmissionCap
<1>. QED
    BY <1>5 DEF AdmissionCap, SlotsAccounted

LEMMA SubmitCapInv ==
    ASSUME TypeInv, CapInv, NEW j \in Fresh, Submit(j) PROVE CapInv'
<1>. USE DEF SubmitStep
<1>1. TypeOK /\ reserved \in Nat /\ MaxPending \in Nat /\ j \in Job /\ pending \in Seq(Job)
    BY DEF TypeInv, TypeOK, Fresh
<1>2. IsFiniteSet(SlotHolders) /\ IsFiniteSet(FreshPending)
      /\ Cardinality(SlotHolders) \in Nat /\ Cardinality(FreshPending) \in Nat
      /\ Cardinality(FreshPending) <= Len(pending)
    BY <1>1, FreshFinite
<1>3. sub \in [Fresh -> {"idle", "admit", "insert", "signal", "accepted", "refused"}]
    BY DEF TypeInv, TypeOK
<1>4. StartedOK'
    BY DEF CapInv, StartedOK, Submit, ReserveCheck, Reserve, Release, EnqueueReserved,
           SubmitSignal, workers
<1>5. ASSUME pending' = pending, attempt' = attempt PROVE FreshPending' = FreshPending
    BY <1>5 DEF FreshPending
<1>6. CASE ReserveCheck(j)
    <2>1. SlotHolders' = SlotHolders
        BY <1>3, <1>6 DEF ReserveCheck, SlotHolders
    <2>. QED
        BY <1>1, <1>4, <1>5, <1>6, <2>1, NothingAdmitted DEF ReserveCheck, CapInv, workers
<1>7. CASE Reserve(j)
    <2>1. CASE Len(pending) + reserved >= MaxPending
        <3>1. SlotHolders' = SlotHolders
            BY <1>3, <1>7, <2>1 DEF Reserve, SlotHolders
        <3>. QED
            BY <1>1, <1>4, <1>5, <1>7, <2>1, <3>1, NothingAdmitted DEF Reserve, CapInv, workers
    <2>2. CASE ~(Len(pending) + reserved >= MaxPending)
        <3>1. SlotHolders' = SlotHolders \union {j} /\ j \notin SlotHolders
            BY <1>3, <1>7, <2>2 DEF Reserve, SlotHolders
        <3>2. Cardinality(SlotHolders') = Cardinality(SlotHolders) + 1
            BY ONLY <1>2, <3>1, FS_AddElement
        <3>3. reserved' = reserved + 1 /\ FreshPending' = FreshPending
            BY <1>5, <1>7, <2>2 DEF Reserve, workers
        <3>4. Len(pending) \in Nat
            BY <1>1
        <3>5. Cardinality(FreshPending') + reserved' <= MaxPending
            BY <1>1, <1>2, <2>2, <3>3, <3>4
        <3>. QED
            BY <1>4, <3>2, <3>3, <3>5 DEF CapInv, SlotsAccounted, AdmissionCap
    <2>. QED
        BY <2>1, <2>2
<1>8. ASSUME sub[j] = "insert", sub'[j] # "insert", GiveBack,
             \A i \in Fresh \ {j} : sub'[i] = sub[i]
      PROVE  SlotsAccounted' /\ reserved' = reserved - 1 /\ reserved > 0
    <2>1. SlotHolders' = SlotHolders \ {j} /\ j \in SlotHolders
        BY <1>8 DEF SlotHolders
    <2>2. Cardinality(SlotHolders') = Cardinality(SlotHolders) - 1
        BY ONLY <1>2, <2>1, FS_RemoveElement
    <2>3. SlotHolders' \in SUBSET SlotHolders
        BY <2>1
    <2>4. IsFiniteSet(SlotHolders')
        BY ONLY <1>2, <2>3, FS_Subset
    <2>5. Cardinality(SlotHolders') \in Nat
        BY ONLY <2>4, FS_CardinalityType
    <2>. QED
        BY <1>1, <1>2, <1>8, <2>2, <2>5 DEF GiveBack, CapInv, SlotsAccounted
<1>9. CASE Release(j)
    <2>1. SlotsAccounted' /\ reserved' = reserved - 1 /\ reserved > 0
        BY <1>3, <1>8, <1>9 DEF Release
    <2>2. FreshPending' = FreshPending
        BY <1>5, <1>9 DEF Release, workers
    <2>. QED
        BY <1>1, <1>2, <1>4, <2>1, <2>2 DEF CapInv, AdmissionCap
<1>10. CASE EnqueueReserved(j)
    <2>1. SlotsAccounted' /\ reserved' = reserved - 1 /\ reserved > 0
        BY <1>3, <1>8, <1>10 DEF EnqueueReserved
    <2>2. Elems(pending') = Elems(pending) \union {j} /\ attempt' = attempt
        BY <1>1, <1>10, ElemsAppend DEF EnqueueReserved, workers
    <2>3. FreshPending' \in SUBSET (FreshPending \union {j})
        BY <2>2 DEF FreshPending
    <2>4. IsFiniteSet(FreshPending \union {j})
          /\ Cardinality(FreshPending \union {j}) \in Nat
          /\ Cardinality(FreshPending \union {j}) <= Cardinality(FreshPending) + 1
        <3>1. IsFiniteSet(FreshPending \union {j})
              /\ Cardinality(FreshPending \union {j})
                 = IF j \in FreshPending THEN Cardinality(FreshPending)
                                         ELSE Cardinality(FreshPending) + 1
            BY ONLY <1>2, FS_AddElement
        <3>. QED
            BY ONLY <1>2, <3>1, FS_CardinalityType
    <2>5. IsFiniteSet(FreshPending')
          /\ Cardinality(FreshPending') <= Cardinality(FreshPending \union {j})
        BY ONLY <2>3, <2>4, FS_Subset
    <2>6. Cardinality(FreshPending') \in Nat
        BY ONLY <2>5, FS_CardinalityType
    <2>7. Cardinality(FreshPending') + reserved' <= MaxPending
        BY <1>1, <1>2, <2>1, <2>4, <2>5, <2>6 DEF CapInv, AdmissionCap
    <2>. QED
        BY <1>4, <2>1, <2>7 DEF CapInv, AdmissionCap
<1>11. CASE SubmitSignal(j)
    <2>1. SlotHolders' = SlotHolders
        BY <1>3, <1>11 DEF SubmitSignal, SlotHolders
    <2>. QED
        BY <1>1, <1>4, <1>5, <1>11, <2>1, NothingAdmitted DEF SubmitSignal, CapInv, workers
<1>. QED
    BY <1>6, <1>7, <1>9, <1>10, <1>11 DEF Submit

LEMMA ResumeCapInv ==
    ASSUME TypeInv, CapInv, Resume PROVE CapInv'
<1>1. TypeOK
    BY DEF TypeInv
<1>2. StartedOK' /\ reserved' = reserved /\ sub' = sub /\ attempt' = attempt
    BY DEF CapInv, StartedOK, Resume, ResumeCheck, ResumeAppend, ResumeSignal, workers
<1>3. SlotHolders' = SlotHolders
    BY <1>2 DEF SlotHolders
<1>4. CASE pending' = pending
    <2>1. FreshPending' = FreshPending
        BY <1>2, <1>4 DEF FreshPending
    <2>. QED
        BY <1>1, <1>2, <1>3, <2>1, NothingAdmitted DEF CapInv
<1>5. CASE ResumeAppend
    <2>1. pending \in Seq(Job) /\ loading \in Seq(Resumed) /\ loading # <<>>
        BY <1>5 DEF TypeInv, TypeOK, PlacesOK, ResumeAppend
    <2>2. Head(loading) \in Resumed
        BY ONLY <2>1, HeadTailProperties
    <2>3. Elems(pending') = Elems(pending) \union {Head(loading)}
        BY <1>5, <2>1, <2>2, ElemsAppend DEF ResumeAppend
    <2>4. FreshPending' = FreshPending
        BY <1>2, <2>2, <2>3 DEF FreshPending, Fresh
    <2>. QED
        BY <1>1, <1>2, <1>3, <2>4, NothingAdmitted DEF CapInv
<1>. QED
    BY <1>4, <1>5 DEF Resume, ResumeCheck, ResumeSignal

LEMMA DispatchCapInv ==
    ASSUME TypeInv, CapInv, Dispatch PROVE CapInv'
<1>1. TypeOK /\ pending \in Seq(Job)
    BY DEF TypeInv, TypeOK
<1>2. StartedOK' /\ reserved' = reserved /\ sub' = sub /\ attempt' = attempt
    BY DEF CapInv, StartedOK, Dispatch, DispatchScan, DispatchWake, DispatchSend,
           DispatchExit, callers, workers
<1>3. pending' = pending \/ (pending # <<>> /\ pending' = Tail(pending))
    BY DEF Dispatch, DispatchScan, DispatchWake, DispatchSend, DispatchExit
<1>4. FreshPending' \subseteq FreshPending
    BY <1>1, <1>2, <1>3, ElemsTail DEF FreshPending
<1>5. SlotHolders' = SlotHolders
    BY <1>2 DEF SlotHolders
<1>. QED
    BY <1>1, <1>2, <1>4, <1>5, NothingAdmitted DEF CapInv

LEMMA WorkCapInv ==
    ASSUME TypeInv, CapInv, NEW w \in Worker, Work(w) PROVE CapInv'
<1>. USE DEF WorkerStep
<1>1. TypeOK /\ pending \in Seq(Job) /\ attempt \in [Job -> Nat]
      /\ (wk[w] \in Holding => job[w] \in Job)
      /\ (\A v \in Worker : wk[v] \in Holding => job[v] \in Job)
    BY DEF TypeInv, TypeOK, PlacesOK
<1>2. /\ wk \in [Worker -> {"idle", "took", "run", "backoff", "append", "signal", "exit"}]
      /\ job \in [Worker -> Job \union {NoJob}]
    BY DEF TypeInv, TypeOK
<1>3. StartedOK
    BY DEF CapInv
<1>4. reserved' = reserved /\ SlotHolders' = SlotHolders
    BY DEF Work, Receive, Execute, Finish, Finished, Retry, BackoffEnds, BackoffDrops,
           RequeueAppend, RequeueSignal, WorkerExit, callers, SlotHolders
<1>5. ASSUME FreshPending' \subseteq FreshPending, StartedOK' PROVE CapInv'
    BY <1>1, <1>4, <1>5, NothingAdmitted DEF CapInv
<1>6. ASSUME pending' = pending, attempt' = attempt PROVE FreshPending' \subseteq FreshPending
    BY <1>6 DEF FreshPending
<1>7. CASE Receive(w)
    BY <1>2, <1>3, <1>5, <1>6, <1>7 DEF Receive, StartedOK
<1>8. CASE Execute(w)
    <2>1. job[w] \in Job /\ attempt' = [attempt EXCEPT ![job[w]] = @ + 1]
          /\ pending' = pending /\ job' = job
        BY <1>1, <1>8 DEF Execute, Holding
    <2>2. \A i \in Job : attempt'[i] = attempt[i] \/ (i = job[w] /\ attempt'[i] > 0)
        BY <1>1, <2>1
    <2>3. FreshPending' \subseteq FreshPending
        BY <2>1, <2>2 DEF FreshPending, Fresh
    <2>4. StartedOK'
        <3> SUFFICES ASSUME NEW v \in Worker, wk'[v] \in {"run", "backoff", "append"}
                     PROVE  attempt'[job'[v]] > 0
            BY DEF StartedOK
        <3>3. CASE v = w
            BY <1>1, <2>1, <3>3
        <3>4. CASE v # w
            <4>1. wk[v] \in {"run", "backoff", "append"} /\ job[v] \in Job
                BY <1>1, <1>2, <1>8, <3>4 DEF Execute, Holding
            <4>2. attempt[job[v]] > 0
                BY <1>3, <4>1 DEF StartedOK
            <4>. QED
                BY <2>1, <2>2, <4>1, <4>2
        <3>. QED
            BY <3>3, <3>4
    <2>. QED
        BY <1>5, <2>3, <2>4
<1>9. ASSUME NEW from \in {"took", "run", "backoff"}, Finished(w, from) PROVE CapInv'
    BY <1>2, <1>3, <1>5, <1>6, <1>9 DEF Finished, StartedOK
<1>10. CASE Retry(w)
    BY <1>2, <1>3, <1>5, <1>6, <1>10 DEF Retry, StartedOK
<1>11. CASE BackoffEnds(w)
    BY <1>2, <1>3, <1>5, <1>6, <1>11 DEF BackoffEnds, StartedOK
<1>12. CASE RequeueAppend(w)
    <2>1. job[w] \in Job /\ attempt[job[w]] > 0 /\ attempt' = attempt
        BY <1>1, <1>3, <1>12 DEF RequeueAppend, StartedOK, Holding
    <2>2. Elems(pending') = Elems(pending) \union {job[w]}
        BY <1>1, <1>12, <2>1, ElemsAppend DEF RequeueAppend
    <2>3. FreshPending' \subseteq FreshPending
        BY <1>1, <2>1, <2>2 DEF FreshPending
    <2>4. StartedOK'
        BY <1>2, <1>3, <1>12 DEF RequeueAppend, StartedOK
    <2>. QED
        BY <1>5, <2>3, <2>4
<1>13. CASE RequeueSignal(w)
    BY <1>2, <1>3, <1>5, <1>6, <1>13 DEF RequeueSignal, StartedOK
<1>14. CASE WorkerExit(w)
    BY <1>2, <1>3, <1>5, <1>6, <1>14 DEF WorkerExit, StartedOK
<1>. QED
    BY <1>7, <1>8, <1>9, <1>10, <1>11, <1>12, <1>13, <1>14 DEF Work, Finish, BackoffDrops

LEMMA CapInvariant == Spec => []CapInv
<1>1. Init => CapInv
    <2>1. ASSUME Init PROVE CapInv
        <3>1. /\ pending = <<>> /\ reserved = 0
              /\ sub = [j \in Fresh |-> "idle"] /\ wk = [w \in Worker |-> "idle"]
            BY <2>1 DEF Init
        <3>2. SlotHolders = {} /\ FreshPending = {}
            BY <3>1 DEF SlotHolders, FreshPending, Elems
        <3>3. Cardinality({}) = 0
            BY FS_EmptySet
        <3>. QED
            BY <3>1, <3>2, <3>3 DEF CapInv, SlotsAccounted, AdmissionCap, StartedOK
    <2>. QED
        BY <2>1
<1>2. TypeInv /\ CapInv /\ [Next]_vars => CapInv'
    <2>1. ASSUME TypeInv, CapInv, Stop \/ UNCHANGED vars PROVE CapInv'
        <3>1. UNCHANGED <<pending, reserved, sub, wk, job, attempt>>
            BY <2>1 DEF Stop, vars, callers, workers
        <3>. QED
            BY <2>1, <3>1 DEF CapInv, SlotsAccounted, AdmissionCap, StartedOK, SlotHolders,
                              FreshPending
    <2>. QED
        BY <2>1, SubmitCapInv, ResumeCapInv, DispatchCapInv, WorkCapInv DEF Next
<1>. QED
    BY <1>1, <1>2, TypeInvariant, PTL DEF Spec

\* The cap of the backlog is never overshot, however many handlers are between
\* reserve() and their enqueue or release at once.
THEOREM CapHolds == Spec => []AdmissionCap
<1>1. CapInv => AdmissionCap
    BY DEF CapInv
<1>. QED
    BY <1>1, CapInvariant, PTL

\* No slot leaks: the counter is the number of submits between reserve() and their
\* enqueue or release, those the store refused or deduplicated included.
THEOREM SlotsKept == Spec => []SlotsAccounted
<1>1. CapInv => SlotsAccounted
    BY DEF CapInv
<1>. QED
    BY <1>1, CapInvariant, PTL

------------------------------------------------------------------------------
(* The wake-up.  The invariant is inductive: whoever appends to the backlog  *)
(* is at its signal when it leaves the lock, and a signal leaves a token.    *)

\* The dispatcher never sleeps on a backlog that nobody will tell it of.
THEOREM WakeupKept == Spec => []NoLostWakeup
<1>1. Init => NoLostWakeup
    BY DEF Init, NoLostWakeup
<1>2. TypeInv /\ NoLostWakeup /\ [Next]_vars => NoLostWakeup'
    <2> SUFFICES ASSUME TypeInv, NoLostWakeup, [Next]_vars PROVE NoLostWakeup'
        OBVIOUS
    <2>. USE DEF NoLostWakeup, Signalling
    <2>1. /\ sub \in [Fresh -> {"idle", "admit", "insert", "signal", "accepted", "refused"}]
          /\ wk \in [Worker -> {"idle", "took", "run", "backoff", "append", "signal", "exit"}]
        BY DEF TypeInv, TypeOK
    <2>2. ASSUME NEW j \in Fresh, Submit(j) PROVE NoLostWakeup'
        BY <2>1, <2>2 DEF Submit, ReserveCheck, Reserve, Release, EnqueueReserved,
                          SubmitSignal, SubmitStep, workers
    <2>3. CASE Resume
        BY <2>3 DEF Resume, ResumeCheck, ResumeAppend, ResumeSignal, workers
    <2>4. CASE Dispatch
        BY <2>4 DEF Dispatch, DispatchScan, DispatchWake, DispatchSend, DispatchExit,
                    callers, workers
    <2>5. ASSUME NEW w \in Worker, Work(w) PROVE NoLostWakeup'
        BY <2>1, <2>5 DEF Work, Receive, Execute, Finish, Finished, Retry, BackoffEnds,
                          BackoffDrops, RequeueAppend, RequeueSignal, WorkerExit,
                          WorkerStep, callers
    <2>6. CASE Stop \/ UNCHANGED vars
        BY <2>6 DEF Stop, vars, callers, workers
    <2>. QED
        BY <2>2, <2>3, <2>4, <2>5, <2>6 DEF Next
<1>. QED
    BY <1>1, <1>2, TypeInvariant, PTL DEF Spec


------------------------------------------------------------------------------
(* A job is held once, and never dropped.  The properties speak of one long  *)
(* sequence.  The proof splits it into its parts, loading, ch, the           *)
(* dispatcher's hand and pending, and reasons about their sets of elements:  *)
(* an operation on a channel or a slice moves one job from one set to        *)
(* another.                                                                  *)

\* A sequence without repetitions and the operations of a queue.
LEMMA DistinctAppend ==
    ASSUME NEW s \in Seq(Job), NEW x \in Job, Distinct(s), x \notin Elems(s)
    PROVE  Distinct(Append(s, x))
<1>1. Len(s) \in Nat /\ DOMAIN s = 1..Len(s) /\ DOMAIN Append(s, x) = 1..(Len(s) + 1)
    OBVIOUS
<1>2. \A i \in 1..Len(s) : Append(s, x)[i] = s[i] /\ s[i] # x
    BY <1>1 DEF Elems
<1>3. Append(s, x)[Len(s) + 1] = x
    OBVIOUS
<1>4. \A m, n \in 1..Len(s) : s[m] = s[n] => m = n
    BY <1>1 DEF Distinct
<1>5. \A m \in 1..(Len(s) + 1) : m \in 1..Len(s) \/ m = Len(s) + 1
    BY <1>1
<1>6. ASSUME NEW m \in 1..(Len(s) + 1), NEW n \in 1..(Len(s) + 1),
             Append(s, x)[m] = Append(s, x)[n]
      PROVE  m = n
    BY <1>2, <1>3, <1>4, <1>5, <1>6
<1>. QED
    BY <1>1, <1>6 DEF Distinct

\* Taking the head leaves the other elements.
LEMMA DistinctTail ==
    ASSUME NEW s \in Seq(Job), s # <<>>, Distinct(s)
    PROVE  /\ Head(s) \in Job /\ Tail(s) \in Seq(Job)
           /\ Head(s) \in Elems(s)
           /\ Elems(Tail(s)) = Elems(s) \ {Head(s)}
           /\ Distinct(Tail(s))
<1>1. Len(s) \in Nat \ {0} /\ DOMAIN s = 1..Len(s) /\ Head(s) = s[1] /\ Head(s) \in Job
    OBVIOUS
<1>2. Tail(s) \in Seq(Job) /\ Len(Tail(s)) = Len(s) - 1
    BY HeadTailProperties
<1>3. DOMAIN Tail(s) = 1..(Len(s) - 1)
    BY <1>2
<1>4. \A i \in 1..(Len(s) - 1) : Tail(s)[i] = s[i + 1] /\ i + 1 \in 1..Len(s)
    BY <1>1, <1>2, HeadTailProperties
<1>5. \A m, n \in 1..Len(s) : s[m] = s[n] => m = n
    BY <1>1 DEF Distinct
<1>6. \A m \in 1..Len(s) : m = 1 \/ (m - 1 \in 1..(Len(s) - 1) /\ Tail(s)[m - 1] = s[m])
    BY <1>1, <1>4
<1>7. Elems(Tail(s)) \subseteq Elems(s)
    BY <1>1, <1>3, <1>4 DEF Elems
<1>8. Head(s) \notin Elems(Tail(s))
    <2>1. \A i \in 1..(Len(s) - 1) : Tail(s)[i] # s[1]
        BY <1>1, <1>4, <1>5
    <2>. QED
        BY <1>1, <1>3, <2>1 DEF Elems
<1>9. Elems(s) \ {Head(s)} \subseteq Elems(Tail(s))
    <2>. SUFFICES ASSUME NEW m \in 1..Len(s), s[m] # Head(s) PROVE s[m] \in Elems(Tail(s))
        BY <1>1 DEF Elems
    <2>1. m - 1 \in DOMAIN Tail(s) /\ Tail(s)[m - 1] = s[m]
        BY <1>1, <1>3, <1>6
    <2>. QED
        BY <2>1 DEF Elems
<1>10. Head(s) \in Elems(s)
    BY <1>1 DEF Elems
<1>11. Distinct(Tail(s))
    <2>1. ASSUME NEW m \in 1..(Len(s) - 1), NEW n \in 1..(Len(s) - 1), Tail(s)[m] = Tail(s)[n]
          PROVE  m = n
        <3>1. s[m + 1] = s[n + 1] /\ m + 1 \in 1..Len(s) /\ n + 1 \in 1..Len(s)
            BY <1>4, <2>1
        <3>2. m + 1 = n + 1
            BY <1>5, <3>1
        <3>. QED
            BY <1>1, <3>2
    <2>. QED
        BY <1>3, <2>1 DEF Distinct
<1>. QED
    BY <1>1, <1>2, <1>7, <1>8, <1>9, <1>10, <1>11

\* A concatenation has the elements of both, and repeats none if they share none.
LEMMA ConcatParts ==
    ASSUME NEW s \in Seq(Job), NEW t \in Seq(Job)
    PROVE  /\ s \o t \in Seq(Job)
           /\ Elems(s \o t) = Elems(s) \union Elems(t)
           /\ Distinct(s) /\ Distinct(t) /\ Elems(s) \intersect Elems(t) = {} => Distinct(s \o t)
<1>1. /\ Len(s) \in Nat /\ DOMAIN s = 1..Len(s)
      /\ Len(t) \in Nat /\ DOMAIN t = 1..Len(t)
    OBVIOUS
<1>2. s \o t \in Seq(Job) /\ DOMAIN (s \o t) = 1..(Len(s) + Len(t))
    BY <1>1, ConcatProperties
<1>3. \A i \in 1..Len(s) : i \in 1..(Len(s) + Len(t)) /\ (s \o t)[i] = s[i]
    BY <1>1, ConcatProperties
<1>4. \A i \in 1..Len(t) : Len(s) + i \in 1..(Len(s) + Len(t)) /\ (s \o t)[Len(s) + i] = t[i]
    BY <1>1, ConcatProperties
<1>5. \A i \in 1..(Len(s) + Len(t)) :
         \/ i \in 1..Len(s)
         \/ i - Len(s) \in 1..Len(t) /\ (s \o t)[i] = t[i - Len(s)]
    BY <1>1, ConcatProperties
<1>6. Elems(s \o t) \subseteq Elems(s) \union Elems(t)
    BY <1>1, <1>2, <1>3, <1>5 DEF Elems
<1>7. Elems(s) \union Elems(t) \subseteq Elems(s \o t)
    BY <1>1, <1>2, <1>3, <1>4 DEF Elems
<1>8. ASSUME Distinct(s), Distinct(t), Elems(s) \intersect Elems(t) = {}
      PROVE  Distinct(s \o t)
    <2>1. \A m, n \in 1..Len(s) : s[m] = s[n] => m = n
        BY <1>1, <1>8 DEF Distinct
    <2>2. \A m, n \in 1..Len(t) : t[m] = t[n] => m = n
        BY <1>1, <1>8 DEF Distinct
    <2>3. \A m \in 1..Len(s), n \in 1..Len(t) : s[m] # t[n]
        BY <1>1, <1>8 DEF Elems
    <2>4. ASSUME NEW m \in 1..(Len(s) + Len(t)), NEW n \in 1..(Len(s) + Len(t)),
                 (s \o t)[m] = (s \o t)[n]
          PROVE  m = n
        <3>1. CASE m \in 1..Len(s) /\ n \in 1..Len(s)
            BY <1>3, <2>1, <2>4, <3>1
        <3>2. CASE m \in 1..Len(s) /\ n \notin 1..Len(s)
            BY <1>3, <1>5, <2>3, <2>4, <3>2
        <3>3. CASE m \notin 1..Len(s) /\ n \in 1..Len(s)
            BY <1>3, <1>5, <2>3, <2>4, <3>3
        <3>4. CASE m \notin 1..Len(s) /\ n \notin 1..Len(s)
            <4>1. m - Len(s) = n - Len(s)
                BY <1>5, <2>2, <2>4, <3>4
            <4>. QED
                BY <1>1, <4>1
        <3>. QED
            BY <3>1, <3>2, <3>3, <3>4
    <2>. QED
        BY <1>2, <2>4 DEF Distinct
<1>. QED
    BY <1>2, <1>6, <1>7, <1>8
------------------------------------------------------------------------------
(* The inductive invariant.                                                  *)

Hand == {hand} \ {NoJob}

\* The jobs that wait, wherever they wait.
Queued == Elems(loading) \union Elems(ch) \union Hand \union Elems(pending)

PartsDistinct == Distinct(loading) /\ Distinct(ch) /\ Distinct(pending)

PartsDisjoint ==
    /\ Elems(loading) \intersect (Elems(ch) \union Hand \union Elems(pending)) = {}
    /\ Elems(ch) \intersect (Hand \union Elems(pending)) = {}
    /\ Hand \intersect Elems(pending) = {}

OneWorker == \A v, w \in Worker : job[v] = job[w] /\ job[v] # NoJob => v = w

Apart ==
    /\ Queued \intersect Busy = {}
    /\ finished \intersect (Queued \union Busy) = {}

\* A job is nowhere before its submit() puts it on the backlog.
NotYet ==
    \A j \in Fresh : sub[j] \in {"idle", "admit", "insert", "refused"}
                     => j \notin Queued \union Busy \union finished

\* A goroutine that is about to take a job holds none.
EmptyHanded ==
    /\ disp \in {"scan", "park"} => hand = NoJob
    /\ \A w \in Worker : wk[w] \in {"idle", "signal", "exit"} => job[w] = NoJob

HolderInv == PartsDistinct /\ PartsDisjoint /\ OneWorker /\ Apart /\ NotYet /\ EmptyHanded

\* The parts are sequences of jobs.
LEMMA PartTypes ==
    ASSUME TypeInv
    PROVE  /\ loading \in Seq(Job) /\ ch \in Seq(Job) /\ pending \in Seq(Job)
           /\ hand \in Job \union {NoJob}
<1>1. loading \in Seq(Resumed)
    BY DEF TypeInv, TypeOK
<1>2. Len(loading) \in Nat /\ loading \in [1..Len(loading) -> Resumed]
    BY ONLY <1>1, LenProperties
<1>3. Resumed \subseteq Job
    BY JobAssumption DEF JobAssumption
<1>4. loading \in [1..Len(loading) -> Job]
    BY ONLY <1>2, <1>3
<1>5. loading \in Seq(Job)
    BY ONLY <1>2, <1>4, SeqDef
<1>. QED
    BY <1>5 DEF TypeInv, TypeOK

\* The parts make up the line the properties speak of.
LEMMA LineParts ==
    ASSUME TypeInv
    PROVE  /\ Elems(loading \o Line) = Queued
           /\ PartsDistinct /\ PartsDisjoint => Distinct(loading \o Line)
<1>. DEFINE h == IF hand = NoJob THEN <<>> ELSE <<hand>>
<1>1. /\ loading \in Seq(Job) /\ ch \in Seq(Job) /\ pending \in Seq(Job)
      /\ hand \in Job \union {NoJob}
    BY PartTypes
<1>2. h \in Seq(Job) /\ Elems(h) = Hand /\ Distinct(h)
    <2>1. CASE hand = NoJob
        BY <2>1 DEF Elems, Hand, Distinct
    <2>2. CASE hand # NoJob
        <3>1. h = <<hand>> /\ hand \in Job /\ Hand = {hand}
            BY <1>1, <2>2 DEF Hand
        <3>2. DOMAIN <<hand>> = {1} /\ <<hand>>[1] = hand
            OBVIOUS
        <3>. QED
            BY <3>1, <3>2 DEF Elems, Distinct
    <2>. QED
        BY <2>1, <2>2
<1>3. Line = (ch \o h) \o pending
    BY DEF Line
<1>. HIDE DEF h
<1>4. /\ ch \o h \in Seq(Job)
      /\ Elems(ch \o h) = Elems(ch) \union Hand
      /\ PartsDistinct /\ PartsDisjoint => Distinct(ch \o h)
    BY <1>1, <1>2, ConcatParts DEF PartsDistinct, PartsDisjoint
<1>5. /\ Line \in Seq(Job)
      /\ Elems(Line) = Elems(ch) \union Hand \union Elems(pending)
      /\ PartsDistinct /\ PartsDisjoint => Distinct(Line)
    BY <1>1, <1>3, <1>4, ConcatParts DEF PartsDistinct, PartsDisjoint
<1>6. /\ Elems(loading \o Line) = Elems(loading) \union Elems(Line)
      /\ Distinct(loading) /\ Distinct(Line) /\ Elems(loading) \intersect Elems(Line) = {}
         => Distinct(loading \o Line)
    BY ONLY <1>1, <1>5, ConcatParts
<1>7. Elems(loading \o Line) = Queued
    BY <1>5, <1>6 DEF Queued
<1>8. ASSUME PartsDistinct, PartsDisjoint PROVE Distinct(loading \o Line)
    BY <1>5, <1>6, <1>8 DEF PartsDistinct, PartsDisjoint
<1>. QED
    BY <1>7, <1>8

\* LoadIncomplete lists each row once.
LEMMA InitHolderInv == Init => HolderInv
<1> SUFFICES ASSUME Init PROVE HolderInv
    OBVIOUS
<1>1. /\ pending = <<>> /\ ch = <<>> /\ hand = NoJob /\ finished = {}
      /\ job = [w \in Worker |-> NoJob]
    BY DEF Init
<1>2. Elems(<<>>) = {} /\ Distinct(<<>>)
    BY DEF Elems, Distinct
<1>3. Hand = {} /\ Busy = {}
    BY <1>1 DEF Hand, Busy
<1>4. Distinct(loading) /\ Elems(loading) \subseteq Resumed
    <2>1. CASE loading = <<>>
        BY <1>2, <2>1
    <2>2. CASE loading \in [1..Cardinality(Resumed) -> Resumed] /\ Elems(loading) = Resumed
        <3>1. IsFiniteSet(Resumed) /\ Cardinality(Resumed) \in Nat
            BY ResumedFinite
        <3>2. loading \in Surjection(1..Cardinality(Resumed), Resumed)
            BY <2>2 DEF Surjection, Elems
        <3>3. /\ IsFiniteSet(1..Cardinality(Resumed))
              /\ Cardinality(1..Cardinality(Resumed)) = Cardinality(Resumed)
            BY <3>1, FS_Interval
        <3>4. loading \in Injection(1..Cardinality(Resumed), Resumed)
            BY ONLY <3>1, <3>2, <3>3, FS_Surjection
        <3>5. Distinct(loading)
            BY <2>2, <3>4 DEF Injection, IsInjective, Distinct
        <3>. QED
            BY <2>2, <3>5
    <2>. QED
        BY <2>1, <2>2 DEF Init
<1>5. PartsDistinct /\ PartsDisjoint /\ OneWorker /\ Apart
    BY <1>1, <1>2, <1>3, <1>4 DEF PartsDistinct, PartsDisjoint, OneWorker, Apart
<1>6. NotYet
    BY <1>1, <1>2, <1>3, <1>4 DEF NotYet, Queued, Fresh
<1>7. EmptyHanded
    BY <1>1 DEF EmptyHanded
<1>. QED
    BY <1>5, <1>6, <1>7 DEF HolderInv

\* A worker takes a job, and lets go of one.
LEMMA BusyTakes ==
    ASSUME TypeInv, OneWorker, NEW w \in Worker, NEW x \in Job,
           job[w] = NoJob, x \notin Busy, job' = [job EXCEPT ![w] = x]
    PROVE  Busy' = Busy \union {x} /\ OneWorker'
<1>1. job \in [Worker -> Job \union {NoJob}] /\ x # NoJob
    BY JobAssumption DEF JobAssumption, TypeInv, TypeOK
<1>2. job'[w] = x /\ \A v \in Worker \ {w} : job'[v] = job[v]
    BY <1>1
<1>3. \A v \in Worker \ {w} : job[v] # x
    BY <1>1 DEF Busy
<1>4. OneWorker'
    BY <1>1, <1>2, <1>3 DEF OneWorker
<1>. QED
    BY <1>1, <1>2, <1>4 DEF Busy

LEMMA BusyDrops ==
    ASSUME TypeInv, OneWorker, NEW w \in Worker, job[w] \in Job,
           job' = [job EXCEPT ![w] = NoJob]
    PROVE  Busy' = Busy \ {job[w]} /\ job[w] \in Busy /\ OneWorker'
<1>1. job \in [Worker -> Job \union {NoJob}] /\ job[w] # NoJob
    BY JobAssumption DEF JobAssumption, TypeInv, TypeOK
<1>2. job'[w] = NoJob /\ \A v \in Worker \ {w} : job'[v] = job[v]
    BY <1>1
<1>3. \A v \in Worker \ {w} : job[v] # job[w]
    BY <1>1 DEF OneWorker
<1>4. OneWorker'
    BY <1>1, <1>2 DEF OneWorker
<1>. QED
    BY <1>1, <1>2, <1>3, <1>4 DEF Busy

\* Every step keeps the invariant: one lemma per goroutine, one case per move of
\* a job between two of its parts.
LEMMA SubmitHolderInv ==
    ASSUME TypeInv, HolderInv, NEW j \in Fresh, Submit(j) PROVE HolderInv'
<1>. USE DEF SubmitStep
<1>1. /\ UNCHANGED <<loading, ch, hand, disp, wk, job, finished>>
      /\ sub' \in [Fresh -> {"idle", "admit", "insert", "signal", "accepted", "refused"}]
      /\ \A i \in Fresh \ {j} : sub'[i] = sub[i]
    BY DEF TypeInv, TypeOK, Submit, ReserveCheck, Reserve, Release, EnqueueReserved,
           SubmitSignal, workers
<1>2. Hand' = Hand /\ Busy' = Busy /\ Elems(ch)' = Elems(ch) /\ Elems(loading)' = Elems(loading)
    BY <1>1 DEF Hand, Busy
<1>3. OneWorker' /\ EmptyHanded' /\ Distinct(loading)' /\ Distinct(ch)'
    BY <1>1 DEF HolderInv, OneWorker, EmptyHanded, PartsDistinct
<1>4. CASE EnqueueReserved(j)
    <2>1. j \in Job /\ pending \in Seq(Job) /\ j \notin Queued \union Busy \union finished
        BY <1>4, PartTypes DEF EnqueueReserved, HolderInv, NotYet, Fresh
    <2>2. j \notin Elems(pending) /\ Distinct(pending)
        BY <2>1 DEF Queued, HolderInv, PartsDistinct
    <2>3. Elems(pending)' = Elems(pending) \union {j} /\ Distinct(pending)'
        BY <1>4, <2>1, <2>2, ElemsAppend, DistinctAppend DEF EnqueueReserved
    <2>4. Queued' = Queued \union {j}
        BY <1>2, <2>3 DEF Queued
    <2>5. PartsDistinct' /\ PartsDisjoint' /\ Apart'
        BY <1>1, <1>2, <1>3, <2>1, <2>3, <2>4
           DEF HolderInv, PartsDistinct, PartsDisjoint, Apart, Queued
    <2>6. NotYet'
        <3>1. sub'[j] = "signal"
            BY <1>4 DEF EnqueueReserved, TypeInv, TypeOK
        <3>. QED
            BY <1>1, <1>2, <2>4, <3>1 DEF HolderInv, NotYet
    <2>. QED
        BY <1>3, <2>5, <2>6 DEF HolderInv
<1>5. CASE ~EnqueueReserved(j)
    <2>1. pending' = pending
        BY <1>5 DEF Submit, ReserveCheck, Reserve, Release, SubmitSignal
    <2>2. Queued' = Queued
        BY <1>2, <2>1 DEF Queued
    <2>3. PartsDistinct' /\ PartsDisjoint' /\ Apart'
        BY <1>1, <1>2, <2>1, <2>2 DEF HolderInv, PartsDistinct, PartsDisjoint, Apart
    <2>4. /\ sub[j] \in {"idle", "admit", "insert", "signal"}
          /\ sub[j] = "signal" => sub'[j] = "accepted"
        BY <1>5 DEF Submit, ReserveCheck, Reserve, Release, SubmitSignal, TypeInv, TypeOK
    <2>5. NotYet'
        BY <1>1, <1>2, <2>2, <2>4 DEF HolderInv, NotYet
    <2>. QED
        BY <1>3, <2>3, <2>5 DEF HolderInv
<1>. QED
    BY <1>4, <1>5

LEMMA ResumeHolderInv ==
    ASSUME TypeInv, HolderInv, Resume PROVE HolderInv'
<1>1. UNCHANGED <<ch, hand, disp, sub, wk, job, finished>>
    BY DEF Resume, ResumeCheck, ResumeAppend, ResumeSignal, workers
<1>2. Hand' = Hand /\ Busy' = Busy /\ Elems(ch)' = Elems(ch)
    BY <1>1 DEF Hand, Busy
<1>3. OneWorker' /\ EmptyHanded' /\ Distinct(ch)'
    BY <1>1 DEF HolderInv, OneWorker, EmptyHanded, PartsDistinct
<1>4. CASE ResumeAppend
    <2>. DEFINE x == Head(loading)
    <2>1. loading \in Seq(Job) /\ pending \in Seq(Job) /\ loading # <<>>
        BY <1>4, PartTypes DEF ResumeAppend, TypeInv, PlacesOK
    <2>2. Distinct(loading) /\ Distinct(pending)
        BY DEF HolderInv, PartsDistinct
    <2>3. /\ x \in Job /\ x \in Elems(loading)
          /\ Elems(loading)' = Elems(loading) \ {x} /\ Distinct(loading)'
        BY <1>4, <2>1, <2>2, DistinctTail DEF ResumeAppend
    <2>4. x \notin Elems(pending)
        BY <2>3 DEF HolderInv, PartsDisjoint
    <2>. HIDE DEF x
    <2>5. Elems(pending)' = Elems(pending) \union {x} /\ Distinct(pending)'
        BY <1>4, <2>1, <2>2, <2>3, <2>4, ElemsAppend, DistinctAppend DEF ResumeAppend, x
    <2>6. Queued' = Queued
        BY <1>2, <2>3, <2>5 DEF Queued
    <2>7. PartsDistinct' /\ PartsDisjoint' /\ Apart' /\ NotYet'
        BY <1>1, <1>2, <1>3, <2>3, <2>4, <2>5, <2>6
           DEF HolderInv, PartsDistinct, PartsDisjoint, Apart, NotYet
    <2>. QED
        BY <1>3, <2>7 DEF HolderInv
<1>5. CASE ResumeCheck \/ ResumeSignal
    <2>1. loading' = loading /\ pending' = pending
        BY <1>5 DEF ResumeCheck, ResumeSignal
    <2>2. Queued' = Queued
        BY <1>2, <2>1 DEF Queued
    <2>. QED
        BY <1>1, <1>2, <1>3, <2>1, <2>2
           DEF HolderInv, PartsDistinct, PartsDisjoint, Apart, NotYet
<1>. QED
    BY <1>4, <1>5 DEF Resume

LEMMA DispatchHolderInv ==
    ASSUME TypeInv, HolderInv, Dispatch PROVE HolderInv'
<1>1. UNCHANGED <<loading, sub, wk, job, finished>>
    BY DEF Dispatch, DispatchScan, DispatchWake, DispatchSend, DispatchExit, callers, workers
<1>2. Busy' = Busy /\ Elems(loading)' = Elems(loading) /\ Distinct(loading)' /\ OneWorker'
    BY <1>1 DEF Busy, HolderInv, PartsDistinct, OneWorker
<1>3. ch \in Seq(Job) /\ pending \in Seq(Job) /\ Distinct(ch) /\ Distinct(pending)
    BY PartTypes DEF HolderInv, PartsDistinct
<1>4. CASE DispatchScan /\ pending # <<>>
    <2>. DEFINE x == Head(pending)
    <2>1. /\ x \in Job /\ x \in Elems(pending) /\ x # NoJob
          /\ Elems(pending)' = Elems(pending) \ {x} /\ Distinct(pending)'
        BY <1>3, <1>4, DistinctTail, JobAssumption DEF DispatchScan, JobAssumption
    <2>2. Hand = {} /\ Hand' = {x} /\ ch' = ch /\ disp' = "send"
        BY <1>4, <2>1 DEF DispatchScan, HolderInv, EmptyHanded, Hand
    <2>. HIDE DEF x
    <2>3. Queued' = Queued
        BY <1>2, <2>1, <2>2 DEF Queued
    <2>4. PartsDistinct' /\ PartsDisjoint' /\ Apart' /\ NotYet' /\ EmptyHanded'
        BY <1>1, <1>2, <2>1, <2>2, <2>3
           DEF HolderInv, PartsDistinct, PartsDisjoint, Apart, NotYet, EmptyHanded
    <2>. QED
        BY <1>2, <2>4 DEF HolderInv
<1>5. CASE DispatchSend
    <2>1. hand \in Job /\ hand # NoJob /\ Hand = {hand} /\ hand \notin Elems(ch)
        BY <1>5, JobAssumption
           DEF DispatchSend, TypeInv, PlacesOK, JobAssumption, Hand, HolderInv, PartsDisjoint
    <2>2. Elems(ch)' = Elems(ch) \union {hand} /\ Distinct(ch)' /\ Hand' = {} /\ pending' = pending
        BY <1>3, <1>5, <2>1, ElemsAppend, DistinctAppend DEF DispatchSend, Hand
    <2>3. Queued' = Queued
        BY <1>2, <2>1, <2>2 DEF Queued
    <2>4. hand' = NoJob
        BY <1>5 DEF DispatchSend
    <2>5. PartsDistinct' /\ PartsDisjoint' /\ Apart' /\ NotYet' /\ EmptyHanded'
        BY <1>1, <1>2, <2>1, <2>2, <2>3, <2>4
           DEF HolderInv, PartsDistinct, PartsDisjoint, Apart, NotYet, EmptyHanded
    <2>. QED
        BY <1>2, <2>5 DEF HolderInv
<1>6. CASE DispatchWake \/ DispatchExit \/ (DispatchScan /\ pending = <<>>)
    <2>1. UNCHANGED <<ch, hand, pending>>
        BY <1>6 DEF DispatchWake, DispatchExit, DispatchScan
    <2>2. Queued' = Queued /\ Hand' = Hand
        BY <1>2, <2>1 DEF Queued, Hand
    <2>3. EmptyHanded'
        BY <1>1, <1>6, <2>1 DEF DispatchWake, DispatchExit, DispatchScan, HolderInv, EmptyHanded
    <2>. QED
        BY <1>1, <1>2, <2>1, <2>2, <2>3
           DEF HolderInv, PartsDistinct, PartsDisjoint, Apart, NotYet
<1>. QED
    BY <1>4, <1>5, <1>6 DEF Dispatch

LEMMA WorkHolderInv ==
    ASSUME TypeInv, HolderInv, NEW w \in Worker, Work(w) PROVE HolderInv'
<1>. USE DEF WorkerStep
<1>1. UNCHANGED <<loading, hand, disp, sub>>
    BY DEF Work, Receive, Execute, Finish, Finished, Retry, BackoffEnds, BackoffDrops,
           RequeueAppend, RequeueSignal, WorkerExit, callers
<1>2. Hand' = Hand /\ Elems(loading)' = Elems(loading) /\ Distinct(loading)'
    BY <1>1 DEF Hand, HolderInv, PartsDistinct
<1>3. /\ ch \in Seq(Job) /\ pending \in Seq(Job) /\ Distinct(ch) /\ Distinct(pending)
      /\ OneWorker
    BY PartTypes DEF HolderInv, PartsDistinct
<1>4. /\ wk \in [Worker -> {"idle", "took", "run", "backoff", "append", "signal", "exit"}]
      /\ job \in [Worker -> Job \union {NoJob}]
      /\ (wk[w] \in Holding => job[w] \in Job)
    BY DEF TypeInv, TypeOK, PlacesOK
<1>5. CASE Receive(w)
    <2>. DEFINE x == Head(ch)
    <2>1. /\ x \in Job /\ x \in Elems(ch)
          /\ Elems(ch)' = Elems(ch) \ {x} /\ Distinct(ch)'
        BY <1>3, <1>5, DistinctTail DEF Receive
    <2>2. x \notin Busy /\ job[w] = NoJob
        BY <1>5, <2>1 DEF Receive, HolderInv, Apart, Queued, EmptyHanded
    <2>3. Busy' = Busy \union {x} /\ OneWorker'
        BY <1>3, <1>5, <2>1, <2>2, BusyTakes DEF Receive
    <2>4. pending' = pending /\ finished' = finished
        BY <1>5 DEF Receive
    <2>5. EmptyHanded'
        BY <1>1, <1>4, <1>5 DEF Receive, HolderInv, EmptyHanded
    <2>. HIDE DEF x
    <2>6. Queued' = Queued \ {x} /\ x \in Queued
        BY <1>2, <2>1, <2>4 DEF Queued, HolderInv, PartsDisjoint
    <2>7. PartsDistinct' /\ PartsDisjoint' /\ Apart' /\ NotYet'
        BY <1>1, <1>2, <2>1, <2>3, <2>4, <2>6
           DEF HolderInv, PartsDistinct, PartsDisjoint, Apart, NotYet
    <2>. QED
        BY <2>3, <2>5, <2>7 DEF HolderInv
<1>6. ASSUME NEW from \in {"took", "run", "backoff"}, Finished(w, from) PROVE HolderInv'
    <2>1. job[w] \in Job /\ UNCHANGED <<ch, pending>> /\ finished' = finished \union {job[w]}
        BY <1>4, <1>6 DEF Finished, Holding
    <2>2. Busy' = Busy \ {job[w]} /\ job[w] \in Busy /\ OneWorker'
        BY <1>3, <1>6, <2>1, BusyDrops DEF Finished
    <2>3. EmptyHanded'
        BY <1>1, <1>4, <1>6 DEF Finished, HolderInv, EmptyHanded
    <2>4. Queued' = Queued
        BY <1>2, <2>1 DEF Queued
    <2>5. PartsDistinct' /\ PartsDisjoint' /\ Apart' /\ NotYet'
        BY <1>1, <1>2, <2>1, <2>2, <2>4
           DEF HolderInv, PartsDistinct, PartsDisjoint, Apart, NotYet
    <2>. QED
        BY <2>2, <2>3, <2>5 DEF HolderInv
<1>7. CASE RequeueAppend(w)
    <2>1. job[w] \in Job /\ UNCHANGED <<ch, finished>>
        BY <1>4, <1>7 DEF RequeueAppend, Holding
    <2>2. Busy' = Busy \ {job[w]} /\ job[w] \in Busy /\ OneWorker'
        BY <1>3, <1>7, <2>1, BusyDrops DEF RequeueAppend
    <2>3. job[w] \notin Queued /\ job[w] \notin Elems(pending)
        BY <2>2 DEF HolderInv, Apart, Queued
    <2>4. Elems(pending)' = Elems(pending) \union {job[w]} /\ Distinct(pending)'
        BY <1>3, <1>7, <2>1, <2>3, ElemsAppend, DistinctAppend DEF RequeueAppend
    <2>5. EmptyHanded'
        BY <1>1, <1>4, <1>7 DEF RequeueAppend, HolderInv, EmptyHanded
    <2>6. Queued' = Queued \union {job[w]}
        BY <1>2, <2>1, <2>4 DEF Queued
    <2>7. PartsDistinct' /\ PartsDisjoint'
        BY <1>2, <2>1, <2>3, <2>4 DEF HolderInv, PartsDistinct, PartsDisjoint, Queued
    <2>8. Apart' /\ NotYet'
        BY <1>1, <2>1, <2>2, <2>6 DEF HolderInv, Apart, NotYet
    <2>. QED
        BY <2>2, <2>5, <2>7, <2>8 DEF HolderInv
<1>8. CASE Execute(w) \/ Retry(w) \/ BackoffEnds(w) \/ RequeueSignal(w) \/ WorkerExit(w)
    <2>1. UNCHANGED <<ch, pending, job, finished>>
        BY <1>8 DEF Execute, Retry, BackoffEnds, RequeueSignal, WorkerExit
    <2>2. Queued' = Queued /\ Busy' = Busy
        BY <1>2, <2>1 DEF Queued, Busy
    <2>3. EmptyHanded'
        BY <1>1, <1>4, <1>8, <2>1
           DEF Execute, Retry, BackoffEnds, RequeueSignal, WorkerExit, HolderInv, EmptyHanded
    <2>. QED
        BY <1>1, <1>2, <1>3, <2>1, <2>2, <2>3
           DEF HolderInv, PartsDistinct, PartsDisjoint, OneWorker, Apart, NotYet
<1>. QED
    BY <1>5, <1>6, <1>7, <1>8 DEF Work, Finish, BackoffDrops

LEMMA NextHolderInv ==
    ASSUME TypeInv, HolderInv, [Next]_vars PROVE HolderInv'
<1>1. CASE Stop \/ UNCHANGED vars
    <2>1. UNCHANGED <<pending, ch, hand, disp, sub, loading, wk, job, finished>>
        BY <1>1 DEF Stop, vars, callers, workers
    <2>2. Queued' = Queued /\ Busy' = Busy /\ Hand' = Hand
        BY <2>1 DEF Queued, Busy, Hand
    <2>. QED
        BY <2>1, <2>2
           DEF HolderInv, PartsDistinct, PartsDisjoint, OneWorker, Apart, NotYet, EmptyHanded
<1>. QED
    BY <1>1, SubmitHolderInv, ResumeHolderInv, DispatchHolderInv, WorkHolderInv DEF Next

\* The strengthening of OneHolder that is inductive, at every program point of the
\* submitters, the dispatcher and the workers.
THEOREM HolderInvariant == Spec => []HolderInv
    BY InitHolderInv, NextHolderInv, TypeInvariant, PTL DEF Spec

\* A job is in one place at a time, whatever the order of the hand-offs, retries
\* and a stop: two workers never hold one job.
THEOREM HeldOnce == Spec => []OneHolder
<1>1. TypeInv /\ HolderInv => OneHolder
    BY LineParts DEF HolderInv, OneWorker, Apart, OneHolder
<1>. QED
    BY <1>1, TypeInvariant, HolderInvariant, PTL

------------------------------------------------------------------------------
(* Nothing is dropped.  Each step of a goroutine takes a job out of one set  *)
(* only to put it in another; a hand that is overwritten is an empty one.    *)

LEMMA SubmitKeeps ==
    ASSUME TypeInv, NEW j \in Fresh, Submit(j)
    PROVE  Queued \subseteq Queued' /\ Busy' = Busy /\ finished' = finished
<1>1. UNCHANGED <<loading, ch, hand, job, finished>>
    BY DEF Submit, ReserveCheck, Reserve, Release, EnqueueReserved, SubmitSignal, workers
<1>2. Elems(pending) \subseteq Elems(pending)'
    <2>1. CASE EnqueueReserved(j)
        <3>1. j \in Job /\ pending \in Seq(Job)
            BY PartTypes DEF Fresh
        <3>. QED
            BY <2>1, <3>1, ElemsAppend DEF EnqueueReserved
    <2>2. CASE ~EnqueueReserved(j)
        BY <2>2 DEF Submit, ReserveCheck, Reserve, Release, SubmitSignal
    <2>. QED
        BY <2>1, <2>2
<1>. QED
    BY <1>1, <1>2 DEF Queued, Hand, Busy

LEMMA ResumeKeeps ==
    ASSUME TypeInv, HolderInv, Resume
    PROVE  Queued \subseteq Queued' /\ Busy' = Busy /\ finished' = finished
<1>1. UNCHANGED <<ch, hand, job, finished>>
    BY DEF Resume, ResumeCheck, ResumeAppend, ResumeSignal, workers
<1>2. Elems(loading) \union Elems(pending) \subseteq Elems(loading)' \union Elems(pending)'
    <2>1. CASE ResumeAppend
        <3>1. loading \in Seq(Job) /\ pending \in Seq(Job) /\ loading # <<>> /\ Distinct(loading)
            BY <2>1, PartTypes DEF ResumeAppend, TypeInv, PlacesOK, HolderInv, PartsDistinct
        <3>2. Head(loading) \in Job /\ Elems(Tail(loading)) = Elems(loading) \ {Head(loading)}
            BY <3>1, DistinctTail
        <3>3. Elems(Append(pending, Head(loading))) = Elems(pending) \union {Head(loading)}
            BY <3>1, <3>2, ElemsAppend
        <3>. QED
            BY <2>1, <3>2, <3>3 DEF ResumeAppend
    <2>2. CASE ResumeCheck \/ ResumeSignal
        BY <2>2 DEF ResumeCheck, ResumeSignal
    <2>. QED
        BY <2>1, <2>2 DEF Resume
<1>. QED
    BY <1>1, <1>2 DEF Queued, Hand, Busy

LEMMA DispatchKeeps ==
    ASSUME TypeInv, HolderInv, Dispatch
    PROVE  Queued \subseteq Queued' /\ Busy' = Busy /\ finished' = finished
<1>1. UNCHANGED <<loading, job, finished>>
    BY DEF Dispatch, DispatchScan, DispatchWake, DispatchSend, DispatchExit, callers, workers
<1>2. /\ ch \in Seq(Job) /\ pending \in Seq(Job) /\ Distinct(pending)
      /\ hand \in Job \union {NoJob}
    BY PartTypes DEF HolderInv, PartsDistinct
<1>3. Elems(ch) \union Hand \union Elems(pending)
      \subseteq Elems(ch)' \union Hand' \union Elems(pending)'
    <2>1. CASE DispatchScan /\ pending # <<>>
        <3>1. Head(pending) \in Job /\ Elems(Tail(pending)) = Elems(pending) \ {Head(pending)}
            BY <1>2, <2>1, DistinctTail
        <3>2. Hand = {} /\ Hand' = {Head(pending)} /\ ch' = ch /\ pending' = Tail(pending)
            BY <2>1, <3>1, JobAssumption DEF DispatchScan, HolderInv, EmptyHanded, Hand, JobAssumption
        <3>. QED
            BY <3>1, <3>2
    <2>2. CASE DispatchSend
        <3>1. hand \in Job /\ pending' = pending /\ ch' = Append(ch, hand)
            BY <2>2 DEF DispatchSend, TypeInv, PlacesOK
        <3>2. Elems(ch)' = Elems(ch) \union {hand}
            BY <1>2, <3>1, ElemsAppend
        <3>. QED
            BY <3>1, <3>2 DEF Hand
    <2>3. CASE DispatchWake \/ DispatchExit \/ (DispatchScan /\ pending = <<>>)
        BY <2>3 DEF DispatchWake, DispatchExit, DispatchScan, Hand
    <2>. QED
        BY <2>1, <2>2, <2>3 DEF Dispatch
<1>. QED
    BY <1>1, <1>3 DEF Queued, Busy

LEMMA WorkKeeps ==
    ASSUME TypeInv, HolderInv, NEW w \in Worker, Work(w)
    PROVE  Queued \union Busy \union finished \subseteq Queued' \union Busy' \union finished'
<1>. USE DEF WorkerStep
<1>1. UNCHANGED <<loading, hand>>
    BY DEF Work, Receive, Execute, Finish, Finished, Retry, BackoffEnds, BackoffDrops,
           RequeueAppend, RequeueSignal, WorkerExit, callers
<1>2. /\ ch \in Seq(Job) /\ pending \in Seq(Job) /\ Distinct(ch) /\ OneWorker
      /\ (wk[w] \in Holding => job[w] \in Job)
    BY PartTypes DEF HolderInv, PartsDistinct, TypeInv, PlacesOK
<1>3. CASE Receive(w)
    <2>1. /\ Head(ch) \in Job /\ Head(ch) \in Elems(ch)
          /\ Elems(Tail(ch)) = Elems(ch) \ {Head(ch)}
        BY <1>2, <1>3, DistinctTail DEF Receive
    <2>2. job[w] = NoJob /\ Head(ch) \notin Busy
        BY <1>3, <2>1 DEF Receive, HolderInv, EmptyHanded, Apart, Queued
    <2>3. Busy' = Busy \union {Head(ch)}
        BY <1>2, <1>3, <2>1, <2>2, BusyTakes DEF Receive
    <2>4. UNCHANGED <<pending, finished>> /\ ch' = Tail(ch)
        BY <1>3 DEF Receive
    <2>. QED
        BY <1>1, <2>1, <2>3, <2>4 DEF Queued, Hand
<1>4. ASSUME NEW from \in {"took", "run", "backoff"}, Finished(w, from)
      PROVE  Queued' = Queued /\ Busy \union finished \subseteq Busy' \union finished'
    <2>1. job[w] \in Job /\ UNCHANGED <<ch, pending>> /\ finished' = finished \union {job[w]}
        BY <1>2, <1>4 DEF Finished, Holding
    <2>2. Busy' = Busy \ {job[w]}
        BY <1>2, <1>4, <2>1, BusyDrops DEF Finished
    <2>. QED
        BY <1>1, <2>1, <2>2 DEF Queued, Hand
<1>5. CASE RequeueAppend(w)
    <2>1. job[w] \in Job /\ UNCHANGED <<ch, finished>> /\ pending' = Append(pending, job[w])
        BY <1>2, <1>5 DEF RequeueAppend, Holding
    <2>2. Busy' = Busy \ {job[w]}
        BY <1>2, <1>5, <2>1, BusyDrops DEF RequeueAppend
    <2>3. Elems(pending)' = Elems(pending) \union {job[w]}
        BY <1>2, <2>1, ElemsAppend
    <2>. QED
        BY <1>1, <2>1, <2>2, <2>3 DEF Queued, Hand
<1>6. CASE Execute(w) \/ Retry(w) \/ BackoffEnds(w) \/ RequeueSignal(w) \/ WorkerExit(w)
    <2>1. UNCHANGED <<ch, pending, job, finished>>
        BY <1>6 DEF Execute, Retry, BackoffEnds, RequeueSignal, WorkerExit
    <2>. QED
        BY <1>1, <2>1 DEF Queued, Hand, Busy
<1>. QED
    BY <1>3, <1>4, <1>5, <1>6 DEF Work, Finish, BackoffDrops

\* A job that was accepted or loaded stays in the line, with a worker or finished:
\* no hand-off loses it, a stop in the middle of one included.
THEOREM NoJobDropped == Spec => NothingDropped
<1>1. TypeInv => Tracked = Queued \union Busy \union finished
    BY LineParts DEF Tracked
<1>2. (TypeInv => Tracked = Queued \union Busy \union finished)'
    BY <1>1, PTL
<1>3. ASSUME TypeInv, TypeInv', HolderInv, [Next]_vars PROVE Tracked \subseteq Tracked'
    <2>1. CASE Stop \/ UNCHANGED vars
        BY <2>1 DEF Stop, vars, callers, workers, Tracked, Line, Busy
    <2>2. CASE Next /\ ~Stop
        <3>1. Queued \union Busy \union finished \subseteq Queued' \union Busy' \union finished'
            BY <1>3, <2>2, SubmitKeeps, ResumeKeeps, DispatchKeeps, WorkKeeps DEF Next
        <3>. QED
            BY <1>1, <1>2, <1>3, <3>1
    <2>. QED
        BY <1>3, <2>1, <2>2
<1>4. TypeInv /\ TypeInv' /\ HolderInv /\ [Next]_vars => [Tracked \subseteq Tracked']_vars
    BY <1>3
<1>. QED
    BY <1>4, TypeInvariant, HolderInvariant, PTL DEF Spec, NothingDropped

------------------------------------------------------------------------------
(* Backlog implements JobLine: the slice, the dispatcher's hand and the     *)
(* channel are one first-come first-served line of bounded length.  Each    *)
(* step of a goroutine is a step of the line or leaves it as it is.         *)

LEMMA AppendRight ==
    ASSUME NEW s \in Seq(Job), NEW t \in Seq(Job), NEW x \in Job
    PROVE  s \o Append(t, x) = Append(s \o t, x)
<1>1. <<x>> \in Seq(Job) /\ s \o t \in Seq(Job)
    BY ConcatProperties
<1>2. Append(t, x) = t \o <<x>> /\ Append(s \o t, x) = (s \o t) \o <<x>>
    BY <1>1, AppendIsConcat
<1>3. (s \o t) \o <<x>> = s \o (t \o <<x>>)
    BY <1>1, ConcatAssociative
<1>. QED
    BY <1>2, <1>3

LEMMA Cons ==
    ASSUME NEW x \in Job, NEW s \in Seq(Job)
    PROVE  /\ <<x>> \o s \in Seq(Job) /\ <<x>> \o s # <<>>
           /\ Head(<<x>> \o s) = x /\ Tail(<<x>> \o s) = s
<1>. DEFINE c == <<x>> \o s
<1>1. <<x>> \in Seq(Job) /\ Len(<<x>>) = 1 /\ <<x>>[1] = x /\ Len(s) \in Nat
    OBVIOUS
<1>2. /\ c \in Seq(Job) /\ Len(c) = 1 + Len(s)
      /\ \A i \in 1 .. 1 + Len(s) : c[i] = IF i <= 1 THEN <<x>>[i] ELSE s[i - 1]
    BY <1>1, ConcatProperties
<1>. HIDE DEF c
<1>3. c # <<>> /\ Head(c) = c[1] /\ c[1] = x
    BY <1>1, <1>2
<1>4. /\ Tail(c) \in Seq(Job) /\ Len(Tail(c)) = Len(s)
      /\ \A i \in 1..Len(s) : Tail(c)[i] = s[i]
    <2>1. /\ Tail(c) \in Seq(Job) /\ Len(Tail(c)) = Len(c) - 1
          /\ \A i \in 1..Len(Tail(c)) : Tail(c)[i] = c[i + 1]
        BY <1>2, <1>3, HeadTailProperties
    <2>. QED
        BY <1>1, <1>2, <2>1
<1>5. Tail(c) = s
    BY <1>4, LenProperties
<1>. QED
    BY <1>2, <1>3, <1>5 DEF c

LEMMA Uncons ==
    ASSUME NEW s \in Seq(Job), s # <<>>
    PROVE  Head(s) \in Job /\ Tail(s) \in Seq(Job) /\ s = <<Head(s)>> \o Tail(s)
<1>. DEFINE c == <<Head(s)>> \o Tail(s)
<1>1. /\ Head(s) \in Job /\ Tail(s) \in Seq(Job) /\ Len(Tail(s)) = Len(s) - 1
      /\ \A i \in 1 .. Len(Tail(s)) : Tail(s)[i] = s[i + 1]
    BY HeadTailProperties
<1>2. <<Head(s)>> \in Seq(Job) /\ Len(<<Head(s)>>) = 1 /\ <<Head(s)>>[1] = s[1] /\ Len(s) \in Nat
    BY <1>1
<1>3. /\ c \in Seq(Job) /\ Len(c) = 1 + (Len(s) - 1)
      /\ \A i \in 1 .. 1 + (Len(s) - 1) :
            c[i] = IF i <= 1 THEN <<Head(s)>>[i] ELSE Tail(s)[i - 1]
    BY <1>1, <1>2, ConcatProperties
<1>. HIDE DEF c
<1>4. Len(c) = Len(s) /\ \A i \in 1..Len(s) : c[i] = s[i]
    BY <1>1, <1>2, <1>3
<1>5. c = s
    BY <1>3, <1>4, LenProperties
<1>. QED
    BY <1>1, <1>5 DEF c

\* Who takes the head of the first part takes the head of the whole.
LEMMA HeadOfConcat ==
    ASSUME NEW s \in Seq(Job), NEW t \in Seq(Job), s # <<>>
    PROVE  s \o t # <<>> /\ Head(s \o t) = Head(s) /\ Tail(s \o t) = Tail(s) \o t
<1>1. Head(s) \in Job /\ Tail(s) \in Seq(Job) /\ s = <<Head(s)>> \o Tail(s)
    BY Uncons
<1>2. <<Head(s)>> \in Seq(Job) /\ Tail(s) \o t \in Seq(Job)
    BY <1>1, ConcatProperties
<1>3. s \o t = <<Head(s)>> \o (Tail(s) \o t)
    BY <1>1, <1>2, ConcatAssociative
<1>. QED
    BY <1>1, <1>2, <1>3, Cons

------------------------------------------------------------------------------
(* The line.                                                                 *)

InHand == IF hand = NoJob THEN <<>> ELSE <<hand>>

Seen == {j \in Fresh : attempt[j] > 0 \/ j \in Busy \union finished}

LEMMA LineTyped ==
    ASSUME TypeInv
    PROVE  /\ ch \in Seq(Job) /\ InHand \in Seq(Job) /\ pending \in Seq(Job)
           /\ Line = (ch \o InHand) \o pending /\ Line \in Seq(Job) /\ ch \o InHand \in Seq(Job)
           /\ Elems(Line) = Elems(ch) \union Hand \union Elems(pending)
           /\ Len(Line) <= ChanCap + 1 + Len(pending)
<1>1. ch \in Seq(Job) /\ pending \in Seq(Job) /\ hand \in Job \union {NoJob}
    BY PartTypes
<1>2. InHand \in Seq(Job) /\ Elems(InHand) = Hand /\ Len(InHand) <= 1 /\ Len(InHand) \in Nat
    <2>1. CASE hand = NoJob
        <3>1. InHand = <<>> /\ Hand = {}
            BY <2>1 DEF InHand, Hand
        <3>2. <<>> \in Seq(Job) /\ Len(<<>>) = 0 /\ DOMAIN <<>> = {}
            OBVIOUS
        <3>. QED
            BY <3>1, <3>2 DEF Elems
    <2>2. CASE hand # NoJob
        <3>1. InHand = <<hand>> /\ hand \in Job /\ Hand = {hand}
            BY <1>1, <2>2 DEF InHand, Hand
        <3>2. DOMAIN <<hand>> = {1} /\ <<hand>>[1] = hand /\ Len(<<hand>>) = 1
            OBVIOUS
        <3>3. <<hand>> \in Seq(Job)
            BY <3>1
        <3>4. Elems(<<hand>>) = {hand}
            BY <3>2 DEF Elems
        <3>. QED
            BY <3>1, <3>2, <3>3, <3>4
    <2>. QED
        BY <2>1, <2>2
<1>3. Line = (ch \o InHand) \o pending
    BY DEF Line, InHand
<1>4. ch \o InHand \in Seq(Job) /\ Elems(ch \o InHand) = Elems(ch) \union Hand
    BY <1>1, <1>2, ConcatParts
<1>5. Line \in Seq(Job) /\ Elems(Line) = Elems(ch) \union Hand \union Elems(pending)
    BY <1>1, <1>3, <1>4, ConcatParts
<1>6. Len(ch \o InHand) = Len(ch) + Len(InHand)
    BY ONLY <1>1, <1>2, ConcatProperties
<1>7. Len(Line) = Len(ch \o InHand) + Len(pending)
    BY ONLY <1>1, <1>3, <1>4, ConcatProperties
<1>8. Len(ch) \in Nat /\ Len(pending) \in Nat /\ Len(ch) <= ChanCap
    BY <1>1 DEF TypeInv, TypeOK
<1>9. Len(Line) <= ChanCap + 1 + Len(pending)
    BY ONLY <1>2, <1>6, <1>7, <1>8, BoundAssumption DEF BoundAssumption
<1>. QED
    BY <1>1, <1>2, <1>3, <1>4, <1>5, <1>9

\* What the line takes for itself, in the terms of the backlog.
LEMMA Mapped ==
    /\ Abstract!lineVars = <<Line, reserved, Busy, Seen, finished>>
    /\ Abstract!InLine = Elems(Line)
    /\ Abstract!Known = Elems(Line) \union Busy \union finished
    /\ Abstract!Waiting = (Fresh \intersect Elems(Line)) \ Seen
BY DEF Abstract!lineVars, Abstract!InLine, Abstract!Known, Abstract!Waiting, Elems, Seen

\* JobLine counts as Backlog does.
LEMMA SameCardinality == ASSUME NEW S PROVE Abstract!Cardinality(S) = Cardinality(S)
BY Zenon DEF Abstract!Cardinality, Cardinality

LEMMA InitInLine == Init => Abstract!LineInit
<1>. SUFFICES ASSUME Init PROVE Abstract!LineInit
    OBVIOUS
<1>1. /\ ch = <<>> /\ hand = NoJob /\ pending = <<>> /\ reserved = 0 /\ finished = {}
      /\ job = [w \in Worker |-> NoJob]
    BY DEF Init
<1>2. Line = <<>>
    BY <1>1 DEF Line
<1>3. Busy = {}
    BY <1>1 DEF Busy
<1>4. Seen = {}
    <2>1. \A j \in Fresh : attempt[j] = 0
        BY DEF Init
    <2>. QED
        BY <1>1, <1>3, <2>1 DEF Seen
<1>. QED
    BY <1>1, <1>2, <1>3, <1>4 DEF Abstract!LineInit, Seen

\* A step that moves no job.
LEMMA Still ==
    ASSUME UNCHANGED <<Line, reserved, job, attempt, finished>>
    PROVE  UNCHANGED Abstract!lineVars
<1>1. Busy' = Busy
    BY DEF Busy
<1>2. Seen' = Seen
    BY <1>1 DEF Seen
<1>. QED
    BY <1>1, <1>2 DEF Abstract!lineVars, Seen

------------------------------------------------------------------------------
(* The submitters and Resume().                                              *)

\* The jobs in the line that no worker has seen are not more than the line is long.
LEMMA WaitingBound ==
    ASSUME TypeInv
    PROVE  /\ Cardinality(Abstract!Waiting) \in Nat
           /\ Cardinality(Abstract!Waiting) <= ChanCap + 1 + Len(pending)
<1>1. Line \in Seq(Job) /\ Len(Line) <= ChanCap + 1 + Len(pending) /\ Len(Line) \in Nat
    BY LineTyped
<1>2. IsFiniteSet(Elems(Line)) /\ Cardinality(Elems(Line)) <= Len(Line)
    BY <1>1, ElemsBound
<1>3. Abstract!Waiting \in SUBSET Elems(Line)
    BY Mapped
<1>4. /\ IsFiniteSet(Abstract!Waiting)
      /\ Cardinality(Abstract!Waiting) <= Cardinality(Elems(Line))
    BY ONLY <1>2, <1>3, FS_Subset
<1>5. Cardinality(Abstract!Waiting) \in Nat /\ Cardinality(Elems(Line)) \in Nat
    BY ONLY <1>2, <1>4, FS_CardinalityType
<1>6. Len(pending) \in Nat /\ ChanCap \in Nat
    BY BoundAssumption DEF BoundAssumption, TypeInv, TypeOK
<1>. QED
    BY ONLY <1>1, <1>2, <1>4, <1>5, <1>6

\* reserve() promises a place that the line has; enqueueReserved() gives it to a job the
\* line has not heard of.
LEMMA SubmitInLine ==
    ASSUME TypeInv, HolderInv, CapInv, NEW j \in Fresh, Submit(j)
    PROVE  Abstract!LineNext \/ UNCHANGED Abstract!lineVars
<1>. USE DEF SubmitStep
<1>1. UNCHANGED <<ch, hand, job, attempt, finished>>
    BY DEF Submit, ReserveCheck, Reserve, Release, EnqueueReserved, SubmitSignal, workers
<1>2. UNCHANGED <<Busy, Seen>>
    BY <1>1 DEF Busy, Seen
<1>3. reserved \in Nat /\ j \in Job /\ pending \in Seq(Job) /\ Len(pending) \in Nat
    BY DEF TypeInv, TypeOK, Fresh
<1>4. sub[j] = "insert" => reserved > 0
    <2>1. ASSUME sub[j] = "insert" PROVE reserved > 0
        <3>1. j \in SlotHolders /\ IsFiniteSet(SlotHolders)
            BY <2>1, FreshFinite DEF SlotHolders, TypeInv
        <3>2. Cardinality(SlotHolders) # 0
            BY ONLY <3>1, FS_EmptySet
        <3>. QED
            BY <1>3, <3>2 DEF CapInv, SlotsAccounted
    <2>. QED
        BY <2>1
<1>5. CASE Reserve(j) /\ reserved' # reserved
    <2>1. Len(pending) + reserved < MaxPending /\ reserved' = reserved + 1 /\ pending' = pending
        BY <1>3, <1>5, BoundAssumption DEF Reserve, BoundAssumption
    <2>2. Cardinality(Abstract!Waiting) + reserved < MaxPending + ChanCap + 1
        BY <1>3, <2>1, WaitingBound, BoundAssumption DEF BoundAssumption
    <2>3. Line' = Line
        BY <1>1, <2>1 DEF Line
    <2>4. UNCHANGED <<Line, Busy, Seen, finished>>
        BY <1>1, <1>2, <2>3
    <2>5. Abstract!Cardinality(Abstract!Waiting) + reserved < MaxPending + ChanCap + 1
        BY <2>2, SameCardinality
    <2>6. Abstract!Promise
        BY <2>1, <2>4, <2>5 DEF Abstract!Promise, Seen
    <2>. QED
        BY <2>6 DEF Abstract!LineNext
<1>6. CASE Release(j)
    <2>1. reserved > 0 /\ reserved' = reserved - 1 /\ pending' = pending
        BY <1>4, <1>6 DEF Release, GiveBack
    <2>2. Line' = Line
        BY <1>1, <2>1 DEF Line
    <2>3. Abstract!Withdraw
        BY <1>1, <1>2, <2>1, <2>2 DEF Abstract!Withdraw, Seen
    <2>. QED
        BY <2>3 DEF Abstract!LineNext
<1>7. CASE EnqueueReserved(j)
    <2>1. reserved > 0 /\ reserved' = reserved - 1 /\ pending' = Append(pending, j)
        BY <1>4, <1>7 DEF EnqueueReserved, GiveBack
    <2>2. InHand' = InHand /\ Line' = (ch' \o InHand') \o pending'
        BY <1>1 DEF InHand, Line
    <2>3. Line' = Append(Line, j)
        BY <1>1, <1>3, <2>1, <2>2, LineTyped, AppendRight
    <2>4. j \notin Queued \union Busy \union finished
        BY <1>7 DEF EnqueueReserved, HolderInv, NotYet
    <2>5. j \notin Abstract!Known
        BY <2>4, LineTyped, Mapped DEF Queued
    <2>6. Abstract!Accept(j)
        BY <1>1, <1>2, <2>1, <2>3, <2>5 DEF Abstract!Accept, Seen
    <2>. QED
        BY <1>3, <2>6 DEF Abstract!LineNext
<1>8. CASE ReserveCheck(j) \/ SubmitSignal(j) \/ (Reserve(j) /\ reserved' = reserved)
    <2>1. UNCHANGED <<reserved, pending>>
        BY <1>8 DEF ReserveCheck, SubmitSignal, Reserve
    <2>2. Line' = Line
        BY <1>1, <2>1 DEF Line
    <2>. QED
        BY <1>1, <2>1, <2>2, Still
<1>. QED
    BY <1>5, <1>6, <1>7, <1>8 DEF Submit

LEMMA ResumeInLine ==
    ASSUME TypeInv, HolderInv, Resume
    PROVE  Abstract!LineNext \/ UNCHANGED Abstract!lineVars
<1>1. UNCHANGED <<reserved, ch, hand, job, attempt, finished>>
    BY DEF Resume, ResumeCheck, ResumeAppend, ResumeSignal, workers
<1>2. UNCHANGED <<Busy, Seen>>
    BY <1>1 DEF Busy, Seen
<1>3. CASE ResumeAppend
    <2>. DEFINE j == Head(loading)
    <2>1. loading \in Seq(Resumed) /\ loading # <<>> /\ pending' = Append(pending, j)
        BY <1>3 DEF ResumeAppend, TypeInv, PlacesOK, TypeOK
    <2>2. j \in Resumed
        BY ONLY <2>1, HeadTailProperties
    <2>3. j \in Elems(loading)
        <3>1. loading \in Seq(Job) /\ Distinct(loading)
            BY PartTypes DEF HolderInv, PartsDistinct
        <3>. QED
            BY <2>1, <3>1, DistinctTail
    <2>. HIDE DEF j
    <2>4. j \in Job /\ j \notin Fresh
        BY <2>2, JobAssumption DEF JobAssumption, Fresh
    <2>5. j \notin Elems(ch) \union Hand \union Elems(pending) \union Busy \union finished
        BY <2>3 DEF HolderInv, PartsDisjoint, Apart, Queued
    <2>6. j \notin Abstract!Known
        BY <2>5, LineTyped, Mapped
    <2>7. InHand' = InHand /\ Line' = (ch' \o InHand') \o pending'
        BY <1>1 DEF InHand, Line
    <2>8. Line' = Append(Line, j)
        <3>1. Line' = (ch \o InHand) \o Append(pending, j)
            BY <1>1, <2>1, <2>7
        <3>. QED
            BY <2>4, <3>1, LineTyped, AppendRight
    <2>9. Abstract!Reload(j)
        BY <1>1, <1>2, <2>4, <2>6, <2>8 DEF Abstract!Reload, Seen
    <2>. QED
        BY <2>4, <2>9 DEF Abstract!LineNext
<1>4. CASE ResumeCheck \/ ResumeSignal
    <2>1. Line' = Line
        BY <1>1, <1>4 DEF ResumeCheck, ResumeSignal, Line
    <2>. QED
        BY <1>1, <2>1, Still
<1>. QED
    BY <1>3, <1>4 DEF Resume

------------------------------------------------------------------------------
(* The dispatcher and the workers.                                           *)

\* The dispatcher moves jobs within the line.
LEMMA DispatchInLine == ASSUME TypeInv, HolderInv, Dispatch PROVE UNCHANGED Abstract!lineVars
<1>1. UNCHANGED <<reserved, job, attempt, finished>>
    BY DEF Dispatch, DispatchScan, DispatchWake, DispatchSend, DispatchExit, callers, workers
<1>2. /\ ch \in Seq(Job) /\ pending \in Seq(Job) /\ InHand \in Seq(Job)
      /\ Line = (ch \o InHand) \o pending /\ Line' = (ch' \o InHand') \o pending'
    <2>1. Line' = (ch' \o InHand') \o pending'
        BY DEF Line, InHand
    <2>. QED
        BY <2>1, LineTyped
<1>3. ASSUME NEW s \in Seq(Job) PROVE s \o <<>> = s
    BY <1>3, ConcatEmptySeq
<1>4. CASE DispatchScan /\ pending # <<>>
    <2>. DEFINE x == Head(pending)
    <2>1. x \in Job /\ Tail(pending) \in Seq(Job) /\ pending = <<x>> \o Tail(pending)
        BY <1>2, <1>4, Uncons
    <2>2. /\ hand = NoJob /\ hand' = x /\ x # NoJob
          /\ ch' = ch /\ pending' = Tail(pending)
        BY <1>4, <2>1, JobAssumption DEF DispatchScan, HolderInv, EmptyHanded, JobAssumption
    <2>3. InHand = <<>> /\ InHand' = <<x>>
        BY <2>2 DEF InHand
    <2>. HIDE DEF x
    <2>4. <<x>> \in Seq(Job)
        BY <2>1
    <2>5. (ch \o <<x>>) \o Tail(pending) = ch \o (<<x>> \o Tail(pending))
        BY <1>2, <2>1, <2>4, ConcatAssociative
    <2>6. Line = ch \o pending /\ Line' = (ch \o <<x>>) \o Tail(pending)
        BY <1>2, <1>3, <2>2, <2>3
    <2>7. Line' = Line
        BY <2>1, <2>5, <2>6
    <2>. QED
        BY <1>1, <2>7, Still
<1>5. CASE DispatchSend
    <2>1. /\ hand \in Job /\ hand # NoJob /\ hand' = NoJob /\ pending' = pending
          /\ ch' = Append(ch, hand)
        BY <1>5, JobAssumption DEF DispatchSend, TypeInv, PlacesOK, JobAssumption
    <2>2. InHand = <<hand>> /\ InHand' = <<>>
        BY <2>1 DEF InHand
    <2>3. ch' = ch \o InHand /\ ch' \in Seq(Job)
        BY <1>2, <2>1, <2>2, AppendIsConcat, AppendProperties
    <2>4. ch' \o <<>> = ch'
        BY <1>3, <2>3
    <2>5. Line' = Line
        BY <1>2, <2>1, <2>2, <2>3, <2>4
    <2>. QED
        BY <1>1, <2>5, Still
<1>6. CASE DispatchWake \/ DispatchExit \/ (DispatchScan /\ pending = <<>>)
    <2>1. Line' = Line
        BY <1>6 DEF DispatchWake, DispatchExit, DispatchScan, Line
    <2>. QED
        BY <1>1, <2>1, Still
<1>. QED
    BY <1>4, <1>5, <1>6 DEF Dispatch

\* While a worker holds no job, not every worker holds one.
LEMMA BusyBound ==
    ASSUME NEW w \in Worker, job[w] = NoJob
    PROVE  Cardinality(Busy) < Cardinality(Worker)
<1>. DEFINE V == Worker \ {w}
            T == {job[v] : v \in V}
            f == [v \in V |-> job[v]]
<1>1. IsFiniteSet(Worker)
    BY WorkerAssumption DEF WorkerAssumption
<1>2. Cardinality(Worker) \in Nat
    BY ONLY <1>1, FS_CardinalityType
<1>3. IsFiniteSet(V) /\ Cardinality(V) = Cardinality(Worker) - 1
    BY <1>1, FS_RemoveElement
<1>4. f \in Surjection(V, T)
    BY DEF Surjection
<1>5. Busy \in SUBSET T
    BY DEF Busy
<1>. HIDE DEF V, T, f
<1>6. IsFiniteSet(T) /\ Cardinality(T) <= Cardinality(V)
    BY <1>3, <1>4, FS_Surjection
<1>7. IsFiniteSet(Busy) /\ Cardinality(Busy) <= Cardinality(T)
    BY ONLY <1>5, <1>6, FS_Subset
<1>8. Cardinality(Busy) \in Nat /\ Cardinality(T) \in Nat
    BY ONLY <1>6, <1>7, FS_CardinalityType
<1>. QED
    BY ONLY <1>2, <1>3, <1>6, <1>7, <1>8

\* A worker takes the first of the line, keeps its job, finishes it, or sends it to the end.
LEMMA WorkInLine ==
    ASSUME TypeInv, HolderInv, CapInv, NEW w \in Worker, Work(w)
    PROVE  Abstract!LineNext \/ UNCHANGED Abstract!lineVars
<1>. USE DEF WorkerStep
<1>1. UNCHANGED <<reserved, hand, InHand>>
    BY DEF Work, Receive, Execute, Finish, Finished, Retry, BackoffEnds, BackoffDrops,
           RequeueAppend, RequeueSignal, WorkerExit, callers, InHand
<1>2. /\ ch \in Seq(Job) /\ pending \in Seq(Job) /\ InHand \in Seq(Job)
      /\ ch \o InHand \in Seq(Job)
      /\ Line = (ch \o InHand) \o pending /\ Line' = (ch' \o InHand') \o pending'
    <2>1. Line' = (ch' \o InHand') \o pending'
        BY DEF Line, InHand
    <2>. QED
        BY <2>1, LineTyped
<1>3. OneWorker /\ (wk[w] \in Holding => job[w] \in Job)
    BY DEF HolderInv, TypeInv, PlacesOK
<1>4. CASE Receive(w)
    <2>. DEFINE x == Head(ch)
    <2>1. /\ ch # <<>> /\ ch' = Tail(ch) /\ job' = [job EXCEPT ![w] = x]
          /\ UNCHANGED <<pending, attempt, finished>> /\ job[w] = NoJob
        BY <1>4 DEF Receive, HolderInv, EmptyHanded
    <2>2. x \in Job /\ x \in Elems(ch)
        BY <1>2, <2>1, DistinctTail DEF HolderInv, PartsDistinct
    <2>. HIDE DEF x
    <2>3. x \notin Busy /\ x \notin finished
        BY <2>2 DEF HolderInv, Apart, Queued
    <2>4. Busy' = Busy \union {x}
        BY <1>3, <2>1, <2>2, <2>3, BusyTakes
    <2>5. /\ ch \o InHand # <<>> /\ Head(ch \o InHand) = x
          /\ Tail(ch \o InHand) = Tail(ch) \o InHand
        BY <1>2, <2>1, HeadOfConcat DEF x
    <2>6. Line # <<>> /\ Head(Line) = x /\ Tail(Line) = Tail(ch \o InHand) \o pending
        BY <1>2, <2>5, HeadOfConcat
    <2>7. Line' = Tail(Line)
        BY <1>1, <1>2, <2>1, <2>5, <2>6
    <2>8. Seen' = Seen \union (Fresh \intersect {x})
        BY <2>1, <2>4 DEF Seen
    <2>9. Abstract!Cardinality(Busy) < Abstract!Cardinality(Worker)
        BY <2>1, BusyBound, SameCardinality
    <2>10. Abstract!Take
        BY <1>1, <2>1, <2>4, <2>6, <2>7, <2>8, <2>9 DEF Abstract!Take, Seen
    <2>. QED
        BY <2>10 DEF Abstract!LineNext
<1>5. CASE Execute(w)
    <2>1. UNCHANGED <<ch, pending, job, finished>> /\ attempt' = [attempt EXCEPT ![job[w]] = @ + 1]
        BY <1>5 DEF Execute
    <2>2. job[w] \in Job /\ job[w] \in Busy
        BY <1>3, <1>5, JobAssumption DEF Execute, Holding, Busy, JobAssumption
    <2>3. Busy' = Busy /\ Line' = Line
        BY <1>1, <2>1 DEF Busy, Line
    <2>4. \A j \in Job : j # job[w] => attempt'[j] = attempt[j]
        BY <2>1, <2>2 DEF TypeInv, TypeOK
    <2>5. Seen' = Seen
        BY <2>1, <2>2, <2>3, <2>4 DEF Seen, Fresh
    <2>. QED
        BY <1>1, <2>1, <2>3, <2>5 DEF Abstract!lineVars, Seen
<1>6. ASSUME NEW from \in {"took", "run", "backoff"}, Finished(w, from)
      PROVE  Abstract!LineNext
    <2>1. /\ job[w] \in Job /\ finished' = finished \union {job[w]}
          /\ UNCHANGED <<ch, pending, attempt>> /\ job' = [job EXCEPT ![w] = NoJob]
        BY <1>3, <1>6 DEF Finished, Holding
    <2>2. Busy' = Busy \ {job[w]} /\ job[w] \in Busy
        BY <1>3, <2>1, BusyDrops
    <2>3. Line' = Line
        BY <1>1, <2>1 DEF Line
    <2>4. Seen' = Seen
        BY <2>1, <2>2 DEF Seen
    <2>5. Abstract!Complete(job[w])
        BY <1>1, <2>1, <2>2, <2>3, <2>4 DEF Abstract!Complete, Seen
    <2>. QED
        BY <2>1, <2>5 DEF Abstract!LineNext
<1>7. CASE RequeueAppend(w)
    <2>1. /\ job[w] \in Job /\ wk[w] = "append" /\ pending' = Append(pending, job[w])
          /\ UNCHANGED <<ch, attempt, finished>> /\ job' = [job EXCEPT ![w] = NoJob]
        BY <1>3, <1>7 DEF RequeueAppend, Holding
    <2>2. Busy' = Busy \ {job[w]} /\ job[w] \in Busy
        BY <1>3, <2>1, BusyDrops
    <2>3. Line' = Append(Line, job[w])
        <3>1. Line' = (ch \o InHand) \o Append(pending, job[w])
            BY <1>1, <1>2, <2>1
        <3>. QED
            BY <1>2, <2>1, <3>1, AppendRight
    <2>4. attempt[job[w]] > 0
        BY <2>1 DEF CapInv, StartedOK
    <2>5. Seen' = Seen
        BY <2>1, <2>2, <2>4 DEF Seen
    <2>6. Abstract!Rejoin(job[w])
        BY <1>1, <2>1, <2>2, <2>3, <2>5 DEF Abstract!Rejoin, Seen
    <2>. QED
        BY <2>1, <2>6 DEF Abstract!LineNext
<1>8. CASE Retry(w) \/ BackoffEnds(w) \/ RequeueSignal(w) \/ WorkerExit(w)
    <2>1. UNCHANGED <<ch, pending, job, attempt, finished>>
        BY <1>8 DEF Retry, BackoffEnds, RequeueSignal, WorkerExit
    <2>2. Line' = Line
        BY <1>1, <2>1 DEF Line
    <2>. QED
        BY <1>1, <2>1, <2>2, Still
<1>. QED
    BY <1>4, <1>5, <1>6, <1>7, <1>8 DEF Work, Finish, BackoffDrops

\* The slice, the dispatcher's hand and the channel serve first come first served, hold
\* no more than the promised number of new jobs, and give a job to one worker at a time:
\* the refinement that JobQueue relies on when it keeps one line in place of all three.
THEOREM ServesInLine == Spec => LineSpec
<1>1. Stop \/ UNCHANGED vars => UNCHANGED Abstract!lineVars
    <2>. SUFFICES ASSUME Stop \/ UNCHANGED vars PROVE UNCHANGED Abstract!lineVars
        OBVIOUS
    <2>1. UNCHANGED <<ch, hand, pending, reserved, job, attempt, finished>>
        BY DEF Stop, vars, workers
    <2>2. Line' = Line
        BY <2>1 DEF Line
    <2>. QED
        BY <2>1, <2>2, Still
<1>2. ASSUME TypeInv, HolderInv, CapInv, [Next]_vars
      PROVE  Abstract!LineNext \/ UNCHANGED Abstract!lineVars
    BY <1>1, <1>2, SubmitInLine, ResumeInLine, DispatchInLine, WorkInLine DEF Next
<1>3. TypeInv /\ HolderInv /\ CapInv /\ [Next]_vars => [Abstract!LineNext]_(Abstract!lineVars)
    BY <1>2
<1>. QED
    BY <1>3, InitInLine, TypeInvariant, HolderInvariant, CapInvariant, PTL
       DEF Spec, LineSpec, Abstract!LineSpec
=============================================================================
