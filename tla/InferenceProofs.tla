---------------------------- MODULE InferenceProofs ----------------------------
(***************************************************************************)
(* Proofs about Inference for every number of requests and threads.        *)
(***************************************************************************)
EXTENDS Inference, FiniteSetTheorems, TLAPS

IInv == TypeOK /\ ModelInv

\* The loop has one holder, so beside a request that holds it no other generates.
LEMMA OneHolder ==
  ASSUME IInv, NEW r \in Requests, at[r] \in {"holding", "generating"}
  PROVE  /\ running = r
         /\ \A q \in Requests : q # r => at[q] \notin {"holding", "generating"}
  BY NoneAssumption DEF IInv, ModelInv, HolderAgrees

\* Nobody generates while the loop is free, and so the count is zero.
LEMMA FreeLoopIsQuiet ==
  ASSUME IInv, LoopFree
  PROVE  active = 0 /\ \A r \in Requests : at[r] \notin {"holding", "generating"}
  BY NoneAssumption DEF IInv, ModelInv, HolderAgrees, CountAgrees, LoopFree

LEMMA InitModel == Init => IInv
<1> SUFFICES ASSUME Init PROVE IInv
  OBVIOUS
<1>1. TypeOK
  <2>1. loaded \in BOOLEAN
    BY Zenon DEF Init
  <2>. QED  BY <2>1 DEF Init, TypeOK, Places, Jobs
<1>2. HolderAgrees /\ TaskAgrees
  BY NoneAssumption DEF Init, HolderAgrees, TaskAgrees
<1>3. CountAgrees /\ InUseIsLoaded
  BY DEF Init, CountAgrees, InUseIsLoaded
<1>4. LoadIsNeeded /\ LoadedIsStamped
  BY DEF Init, LoadIsNeeded, LoadedIsStamped
<1>. QED  BY <1>1, <1>2, <1>3, <1>4 DEF IInv, ModelInv

\* The steps of the event loop between two awaits.
LEMMA TurnKeepsModel ==
  ASSUME IInv, NEW r \in Requests, Arrive(r) \/ Turn(r)
  PROVE  IInv'
<1> USE NoneAssumption DEF IInv, TypeOK, ModelInv, Places, Jobs
<1>1. CASE Arrive(r)
  BY <1>1 DEF Arrive, HolderAgrees, CountAgrees, TaskAgrees, LoadIsNeeded, InUseIsLoaded,
              LoadedIsStamped, modelVars, idleVars
<1>2. CASE Ensure(r) /\ loaded
  BY <1>2 DEF Ensure, HolderAgrees, CountAgrees, TaskAgrees, LoadIsNeeded, InUseIsLoaded,
              LoadedIsStamped, LoopFree, modelVars, idleVars
<1>3. CASE Ensure(r) /\ ~loaded
  BY <1>3 DEF Ensure, NeedsTask, HolderAgrees, CountAgrees, TaskAgrees, LoadIsNeeded,
              InUseIsLoaded, LoadedIsStamped, LoopFree, modelVars, idleVars
<1>4. CASE TimeOut(r)
  BY <1>4 DEF TimeOut, HolderAgrees, CountAgrees, TaskAgrees, LoadIsNeeded, InUseIsLoaded,
              LoadedIsStamped, LoopFree, modelVars, idleVars
<1>5. CASE Resume(r)
  BY <1>5 DEF Resume, HolderAgrees, CountAgrees, TaskAgrees, LoadIsNeeded, InUseIsLoaded,
              LoadedIsStamped, LoopFree, modelVars, idleVars
<1>. QED  BY <1>1, <1>2, <1>3, <1>4, <1>5 DEF Turn

\* The request that holds the loop: the only steps that count.
LEMMA HolderKeepsModel ==
  ASSUME IInv, Holder
  PROVE  IInv'
<1>1. PICK r \in Requests : Begin(r) \/ Leave(r) \/ Generated(r)
  BY DEF Holder
<1>2. at[r] \in {"holding", "generating"}
  BY <1>1 DEF Begin, Leave, Generated
<1>3. running = r /\ \A q \in Requests : q # r => at[q] \notin {"holding", "generating"}
  BY <1>2, OneHolder
<1> USE NoneAssumption, <1>3 DEF IInv, TypeOK, ModelInv, Places
<1>4. CASE Leave(r)
  BY <1>4 DEF Leave, HolderAgrees, CountAgrees, TaskAgrees, LoadIsNeeded, InUseIsLoaded,
              LoadedIsStamped, modelVars, idleVars
<1>5. CASE Begin(r)
  BY <1>5 DEF Begin, HolderAgrees, CountAgrees, TaskAgrees, LoadIsNeeded, InUseIsLoaded,
              LoadedIsStamped, idleVars
<1>6. CASE Generated(r)
  BY <1>6 DEF Generated, HolderAgrees, CountAgrees, TaskAgrees, LoadIsNeeded, InUseIsLoaded,
              LoadedIsStamped, idleVars
<1>. QED  BY <1>1, <1>4, <1>5, <1>6

\* The threads: a load finds and leaves one model, an unload takes none that is in use.
LEMMA ThreadKeepsModel ==
  ASSUME IInv, NEW t \in Threads,
         StartLoading(t) \/ LoadFails(t) \/ LoadSucceeds(t) \/ Unload(t) \/ AdminUnload(t)
  PROVE  IInv'
<1> USE NoneAssumption DEF IInv, TypeOK, ModelInv, Jobs, Becomes, HolderAgrees, CountAgrees,
                           TaskAgrees, LoadIsNeeded, InUseIsLoaded, LoadedIsStamped
<1>1. CASE StartLoading(t)
  BY <1>1 DEF StartLoading, idleVars
<1>2. CASE LoadFails(t)
  BY <1>2 DEF LoadFails, modelVars, idleVars
<1>3. CASE LoadSucceeds(t)
  BY <1>3 DEF LoadSucceeds, idleVars
<1>4. CASE Raise(t)
  BY <1>4 DEF Raise, modelVars, idleVars
<1>5. CASE TakeModel(t)
  <2>1. loaded' \in BOOLEAN
    BY <1>5, Zenon DEF TakeModel
  <2>2. TypeOK'
    BY <1>5, <2>1 DEF TakeModel, idleVars
  <2>3. \A r \in Requests : at[r] # "generating"
    BY <1>5 DEF TakeModel, MayUnload
  <2>4. ~loaded'
    BY <1>5, Zenon DEF TakeModel
  <2>5. ModelInv'
    BY <1>5, <2>3, <2>4 DEF TakeModel, idleVars
  <2>. QED  BY <2>2, <2>5
<1>6. CASE FreeMemory(t)
  BY <1>6 DEF FreeMemory, modelVars, idleVars
<1>7. CASE AdminUnload(t)
  BY <1>7 DEF AdminUnload, modelVars, idleVars
<1>. QED  BY <1>1, <1>2, <1>3, <1>4, <1>5, <1>6, <1>7 DEF Unload

\* The idle loop, the end of the load task and time.
LEMMA LoopKeepsModel ==
  ASSUME IInv, TaskDone \/ IdleTurn \/ IdleTimesOut \/ Age
  PROVE  IInv'
<1> USE NoneAssumption DEF IInv, TypeOK, ModelInv, Jobs, Places, Becomes, HolderAgrees, CountAgrees,
                           TaskAgrees, LoadIsNeeded, InUseIsLoaded, LoadedIsStamped
<1>1. CASE TaskDone
  BY <1>1 DEF TaskDone, LoopFree, modelVars, idleVars
<1>2. CASE IdleReturns
  BY <1>2 DEF IdleReturns, modelVars
<1>3. CASE \E t \in Threads : IdleCheck(t)
  BY <1>3 DEF IdleCheck, modelVars
<1>4. CASE IdleTimesOut
  BY <1>4 DEF IdleTimesOut, modelVars
<1>5. CASE Age
  BY <1>5 DEF Age, idleVars
<1>. QED  BY <1>1, <1>2, <1>3, <1>4, <1>5 DEF IdleTurn

THEOREM ModelInvariant == Spec => []IInv
<1>1. ASSUME IInv, [Next]_vars
      PROVE  IInv'
  <2>1. CASE UNCHANGED vars
    BY <1>1, <2>1 DEF vars, IInv, TypeOK, ModelInv, HolderAgrees, CountAgrees, TaskAgrees,
                      LoadIsNeeded, InUseIsLoaded, LoadedIsStamped
  <2>. QED  BY <1>1, <2>1, TurnKeepsModel, HolderKeepsModel, ThreadKeepsModel, LoopKeepsModel
            DEF Next
<1>. QED  BY <1>1, InitModel, PTL DEF Spec

\* Every variable keeps its type; the count stays between zero and one.
THEOREM TypeCorrect == Spec => []TypeOK
  BY ModelInvariant, PTL DEF IInv

\* No unload takes the model from under a generation.
THEOREM NeverTakenInUse == Spec => []InUseIsLoaded
  BY ModelInvariant, PTL DEF IInv, ModelInv

\* One thread loads at a time, and never over a loaded model.
THEOREM LoadedByOne == Spec => []LoadsOnce
<1>1. IInv => LoadsOnce
  <2> SUFFICES ASSUME IInv PROVE LoadsOnce
    OBVIOUS
  <2> DEFINE L == {t \in Threads : thread[t] \in {"load", "loading"}}
  <2>1. L \subseteq {task}
    BY DEF IInv, ModelInv, TaskAgrees
  <2>2. IsFiniteSet({task}) /\ Cardinality({task}) = 1
    BY FS_Singleton
  <2>3. Cardinality(L) <= 1
    BY <2>1, <2>2, FS_Subset
  <2>. QED  BY <2>3 DEF LoadsOnce, IInv, ModelInv, LoadIsNeeded
<1>. QED  BY <1>1, ModelInvariant, PTL

\* A loaded model always carries the time of a use.
THEOREM AlwaysStamped == Spec => []LoadedIsStamped
  BY ModelInvariant, PTL DEF IInv, ModelInv
=============================================================================
