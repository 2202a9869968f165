------------------------------- MODULE Inference -------------------------------
(***************************************************************************)
(* The life of the model in the inference service: requests load it on     *)
(* demand, an administrator or the idle loop unloads it.                   *)
(*                                                                         *)
(* Coroutines share one event loop and give it up only at an await; a      *)
(* generation has none, so it holds the loop to its end.  from_pretrained  *)
(* and unload_model run in worker threads beside it.  A section under      *)
(* model_lock is one step.                                                 *)
(***************************************************************************)
EXTENDS Integers, FiniteSets

CONSTANTS
  Requests,  \* clients of /v1/chat/completions and /admin/model/load
  Threads,   \* bound: threads of asyncio.to_thread in use at a time
  None       \* no request, no thread

ASSUME NoneAssumption == None \notin Requests \cup Threads

VARIABLES
  loaded,    \* model and tokenizer are not None
  used,      \* last_used_at: 0, within MODEL_IDLE_SECONDS, or longer ago
  active,    \* active_requests
  at,        \* where each request is
  running,   \* the request that holds the event loop, at a lock or generating
  thread,    \* what each thread does
  task,      \* the thread of load_task while it is not done
  idleLoop,  \* where idle_unloader is
  awaited    \* the thread idle_unloader waits for

modelVars == <<loaded, used>>
idleVars  == <<idleLoop, awaited>>
vars == <<loaded, used, active, at, running, thread, task, idleLoop, awaited>>

Places == {"idle", "arrived", "waiting", "woken", "holding", "generating"}
Jobs   == {"free", "load", "loading", "loaded", "failed", "unload", "freeing", "unloaded", "raised"}

LoopFree == running = None
-----------------------------------------------------------------------------
Init ==
  /\ loaded = FALSE /\ used = "never"
  /\ active = 0
  /\ at = [r \in Requests |-> "idle"]
  /\ running = None
  /\ thread = [t \in Threads |-> "free"]
  /\ task = None
  /\ idleLoop = "sleeping" /\ awaited = None
-----------------------------------------------------------------------------
(***************************************************************************)
(* Requests.                                                               *)
(***************************************************************************)

Arrive(r) ==
  /\ at[r] = "idle"
  /\ at' = [at EXCEPT ![r] = "arrived"]
  /\ UNCHANGED <<modelVars, active, running, thread, task, idleVars>>

\* Mutant: every request that finds no model starts to load it.
NeedsTaskAlways == TRUE
NeedsTask == task = None

\* ensure_model_loaded up to its await: a request that finds the model goes on without one.
Ensure(r) ==
  /\ LoopFree
  /\ at[r] = "arrived"
  /\ IF loaded
       THEN at' = [at EXCEPT ![r] = "holding"] /\ running' = r /\ UNCHANGED <<thread, task>>
       ELSE /\ at' = [at EXCEPT ![r] = "waiting"]
            /\ running' = None
            /\ IF NeedsTask
                 THEN \E t \in Threads : /\ thread[t] = "free"
                                         /\ thread' = [thread EXCEPT ![t] = "load"]
                                         /\ task' = t
                 ELSE UNCHANGED <<thread, task>>
  /\ UNCHANGED <<modelVars, active, idleVars>>

\* Mutant: a request waits for the model as long as it takes.
TimeOutNever(r) == FALSE /\ UNCHANGED vars

\* MODEL_LOAD_TIMEOUT; the shielded load goes on.
TimeOut(r) ==
  /\ LoopFree
  /\ at[r] = "waiting"
  /\ at' = [at EXCEPT ![r] = "idle"]
  /\ UNCHANGED <<modelVars, active, running, thread, task, idleVars>>

\* The task is done: its waiters can go on, or answer MODEL_LOAD_FAILED.
TaskDone ==
  /\ LoopFree
  /\ task # None /\ thread[task] \in {"loaded", "failed"}
  /\ LET next == IF thread[task] = "loaded" THEN "woken" ELSE "idle" IN
       at' = [r \in Requests |-> IF at[r] = "waiting" THEN next ELSE at[r]]
  /\ thread' = [thread EXCEPT ![task] = "free"]
  /\ task' = None
  /\ UNCHANGED <<modelVars, active, running, idleVars>>

Resume(r) ==
  /\ LoopFree
  /\ at[r] = "woken"
  /\ at' = [at EXCEPT ![r] = "holding"]
  /\ running' = r
  /\ UNCHANGED <<modelVars, active, thread, task, idleVars>>

\* /admin/model/load, an unknown model or a stream ends here.
Leave(r) ==
  /\ at[r] = "holding"
  /\ at' = [at EXCEPT ![r] = "idle"]
  /\ running' = None
  /\ UNCHANGED <<modelVars, active, thread, task, idleVars>>

\* The request is counted under the lock, or answers MODEL_UNAVAILABLE.
Begin(r) ==
  /\ at[r] = "holding"
  /\ IF loaded
       THEN /\ at' = [at EXCEPT ![r] = "generating"]
            /\ active' = active + 1
            /\ used' = "fresh"
            /\ UNCHANGED running
       ELSE /\ at' = [at EXCEPT ![r] = "idle"]
            /\ running' = None
            /\ UNCHANGED <<active, used>>
  /\ UNCHANGED <<loaded, thread, task, idleVars>>

\* Mutant: an invalid prompt or answer leaves before the request is counted off.
GeneratedUncounted(r) ==
  /\ at[r] = "generating"
  /\ at' = [at EXCEPT ![r] = "idle"]
  /\ running' = None
  /\ active' \in {active, active - 1}
  /\ used' = "fresh"
  /\ UNCHANGED <<loaded, thread, task, idleVars>>

\* The answer, or any error of the prompt, the generation and the response format.
Generated(r) ==
  /\ at[r] = "generating"
  /\ at' = [at EXCEPT ![r] = "idle"]
  /\ running' = None
  /\ active' = active - 1
  /\ used' = "fresh"
  /\ UNCHANGED <<loaded, thread, task, idleVars>>
-----------------------------------------------------------------------------
(***************************************************************************)
(* Threads.                                                                *)
(***************************************************************************)
Becomes(t, job) == thread' = [thread EXCEPT ![t] = job]

\* load_model looks again under the lock.
StartLoading(t) ==
  /\ thread[t] = "load"
  /\ Becomes(t, IF loaded THEN "loaded" ELSE "loading")
  /\ used' = IF loaded THEN "fresh" ELSE used
  /\ UNCHANGED <<loaded, active, at, running, task, idleVars>>

LoadFails(t) ==
  /\ thread[t] = "loading"
  /\ Becomes(t, "failed")
  /\ UNCHANGED <<modelVars, active, at, running, task, idleVars>>

\* Mutant: the load does not count as a use.
LoadSucceedsUnstamped(t) ==
  /\ thread[t] = "loading"
  /\ Becomes(t, "loaded")
  /\ loaded' = TRUE
  /\ UNCHANGED <<used, active, at, running, task, idleVars>>

LoadSucceeds(t) ==
  /\ thread[t] = "loading"
  /\ Becomes(t, "loaded")
  /\ loaded' = TRUE /\ used' = "fresh"
  /\ UNCHANGED <<active, at, running, task, idleVars>>

\* Mutant: unload_model relies on the check its caller made.
MayUnloadAlways == TRUE
MayUnload == active = 0

\* An exception reaches only a coroutine that still waits for the thread.
Raise(t) ==
  /\ thread[t] = "unload"
  /\ ~MayUnload
  /\ Becomes(t, IF awaited = t THEN "raised" ELSE "free")
  /\ UNCHANGED <<modelVars, active, at, running, task, idleVars>>

TakeModel(t) ==
  /\ thread[t] = "unload"
  /\ MayUnload
  /\ loaded' = FALSE /\ used' = "never"
  /\ Becomes(t, "freeing")
  /\ UNCHANGED <<active, at, running, task, idleVars>>

\* gc.collect and empty_cache.
FreeMemory(t) ==
  /\ thread[t] = "freeing"
  /\ Becomes(t, IF awaited = t THEN "unloaded" ELSE "free")
  /\ UNCHANGED <<modelVars, active, at, running, task, idleVars>>
-----------------------------------------------------------------------------
(***************************************************************************)
(* The administrator, the idle loop and time.                              *)
(***************************************************************************)

\* Nothing depends on the answer, so nothing waits for the thread here.
AdminUnload(t) ==
  /\ LoopFree
  /\ active = 0 /\ task = None
  /\ thread[t] = "free"
  /\ Becomes(t, "unload")
  /\ UNCHANGED <<modelVars, active, at, running, task, idleVars>>

IdleCheck(t) ==
  /\ LoopFree
  /\ idleLoop = "sleeping"
  /\ loaded /\ active = 0 /\ used = "old"
  /\ thread[t] = "free"
  /\ Becomes(t, "unload")
  /\ idleLoop' = "awaiting" /\ awaited' = t
  /\ UNCHANGED <<modelVars, active, at, running, task>>

\* Only a timeout is caught: MODEL_IN_USE ends the loop.
IdleReturns ==
  /\ LoopFree
  /\ idleLoop = "awaiting" /\ thread[awaited] \in {"unloaded", "raised"}
  /\ idleLoop' = IF thread[awaited] = "unloaded" THEN "sleeping" ELSE "dead"
  /\ Becomes(awaited, "free")
  /\ awaited' = None
  /\ UNCHANGED <<modelVars, active, at, running, task>>

IdleTimesOut ==
  /\ LoopFree
  /\ idleLoop = "awaiting" /\ thread[awaited] \in {"unload", "freeing"}
  /\ idleLoop' = "sleeping" /\ awaited' = None
  /\ UNCHANGED <<modelVars, active, at, running, thread, task>>

\* MODEL_IDLE_SECONDS pass without a use.
Age ==
  /\ used = "fresh"
  /\ used' = "old"
  /\ UNCHANGED <<loaded, active, at, running, thread, task, idleVars>>
-----------------------------------------------------------------------------
Turn(r)   == Ensure(r) \/ TimeOut(r) \/ Resume(r)
Holder    == \E r \in Requests : Begin(r) \/ Leave(r) \/ Generated(r)
Unload(t) == Raise(t) \/ TakeModel(t) \/ FreeMemory(t)
IdleTurn  == IdleReturns \/ \E t \in Threads : IdleCheck(t)

Next ==
  \/ \E r \in Requests : Arrive(r) \/ Turn(r)
  \/ Holder
  \/ \E t \in Threads : \/ StartLoading(t) \/ LoadFails(t) \/ LoadSucceeds(t) \/ Unload(t)
                        \/ AdminUnload(t)
  \/ TaskDone
  \/ IdleTurn
  \/ IdleTimesOut
  \/ Age

Spec == Init /\ [][Next]_vars

\* The event loop runs ready coroutines in turn, which is strong fairness for each; a generation and
\* an unload end.  A load may hang.
Fairness ==
  /\ \A r \in Requests : SF_vars(Turn(r))
  /\ \A t \in Threads : WF_vars(Unload(t))
  /\ SF_vars(IdleTurn)
  /\ WF_vars(Holder)
FairSpec == Spec /\ Fairness
-----------------------------------------------------------------------------
(***************************************************************************)
(* Properties.                                                             *)
(***************************************************************************)

\* Every variable has its type; the count never falls below zero nor beyond the one request that
\* can generate.
TypeOK ==
  /\ loaded \in BOOLEAN
  /\ used \in {"never", "fresh", "old"}
  /\ active \in 0 .. 1
  /\ at \in [Requests -> Places]
  /\ running \in Requests \cup {None}
  /\ thread \in [Threads -> Jobs]
  /\ task \in Threads \cup {None}
  /\ idleLoop \in {"sleeping", "awaiting", "dead"}
  /\ awaited \in Threads \cup {None}

\* The model a request generates with is not taken away, although both unloaders look at the count
\* before their thread gets the lock.
InUseIsLoaded == \A r \in Requests : at[r] = "generating" => loaded

\* However many requests find no model, it is loaded by one thread, and never over a loaded one.
LoadsOnce ==
  /\ Cardinality({t \in Threads : thread[t] \in {"load", "loading"}}) <= 1
  /\ \A t \in Threads : thread[t] = "loading" => ~loaded

\* A loaded model carries the time of a use, whatever unload ran beside the load; without it the idle
\* loop would pass over the model for ever.
LoadedIsStamped == loaded => used # "never"

\* Who holds the event loop, what the count counts and which thread load_task is: what the three
\* invariants above rest on.
HolderAgrees == \A r \in Requests : at[r] \in {"holding", "generating"} <=> running = r
CountAgrees  == active = (IF \E r \in Requests : at[r] = "generating" THEN 1 ELSE 0)
TaskAgrees   == \A t \in Threads : thread[t] \in {"load", "loading", "loaded", "failed"} <=> task = t
LoadIsNeeded == \A t \in Threads : thread[t] \in {"load", "loading"} => ~loaded
ModelInv == /\ HolderAgrees /\ CountAgrees /\ TaskAgrees /\ LoadIsNeeded
            /\ InUseIsLoaded /\ LoadedIsStamped

\* Every request is answered, also when a load hangs or the model is unloaded under way.
RequestsEnd == \A r \in Requests : at[r] # "idle" ~> at[r] = "idle"

\* An idle model is unloaded or used again, as long as the idle loop lives.
IdleReleasedOtherwise == used = "old" ~> (~loaded \/ used = "fresh" \/ idleLoop = "dead")

\* An idle model is unloaded or used again, whatever came before (manual demo: after the idle interval the
\* model returns to unloaded).  The code does not do so: a request that began between the idle loop's
\* look and its thread ends the loop for good.
IdleReleased == used = "old" ~> (~loaded \/ used = "fresh")
=============================================================================
