------------------------------- MODULE ScanRuns -------------------------------
(***************************************************************************)
(* Discovery runs: the schedules and requests that queue scan operations,  *)
(* the worker that traverses the enabled sources, and the requests that    *)
(* pause, resume or cancel a run while it is under way.                    *)
(*                                                                         *)
(* A scan operation makes at most one run, which keeps its operation when  *)
(* it is resumed, so a run has the name of its scan operation.  Handlers   *)
(* run only while the worker is idle or waits for a page; what can fall    *)
(* between two statements of the worker is a crash.                        *)
(***************************************************************************)
EXTENDS Naturals, FiniteSets

CONSTANTS
  Searches,    \* ids of searches rows
  Scans,       \* ids of scan operations, and of their runs
  Controls,    \* ids of pause_run, resume_run and cancel_run operations
  None,        \* no operation, no search
  MaxSources,  \* bound on the enabled sources
  MaxCrashes,  \* bound on the crashes of the process
  MaxStops     \* bound on the orderly stops of the process

ASSUME NoneAssumption   == None \notin Searches \cup Scans \cup Controls
ASSUME BoundsAssumption == MaxSources \in Nat /\ MaxCrashes \in Nat /\ MaxStops \in Nat
ASSUME KindsAssumption  == Scans \cap Controls = {}

VARIABLES
  schedule,   \* schedule_definitions and schedule_cursors
  operation,  \* operations
  run,        \* scan_runs, with the artifact exports/<run>/base.json
  worker,     \* the operation in hand and where the worker is in it
  process,    \* up, stopping or down
  crashes,    \* crashes so far
  stops       \* orderly stops so far

procVars == <<process, crashes, stops>>
vars == <<schedule, operation, run, worker, process, crashes, stops>>

Kinds        == {"scan", "pause_run", "resume_run", "cancel_run"}
WorkStates   == {"absent", "queued", "running", "succeeded", "failed"}
Terminal     == {"completed", "partial", "failed", "cancelled"}
RunStates    == {"absent", "running", "paused"} \cup Terminal
OperationRow == [kind   : Kinds,
                 target : Searches \cup Scans \cup {None},
                 state  : WorkStates]
RunRow       == [state : RunStates, pause : BOOLEAN, cancel : BOOLEAN, exported : BOOLEAN]
Places       == {"idle", "ticked", "claimed", "empty", "top", "page", "after", "final", "export",
                 "returned", "threw"}
WorkerRow    == [op    : Scans \cup Controls \cup {None},
                 run   : Scans \cup {None},
                 tick  : Searches \cup {None},  \* the search whose cursor was just advanced
                 at    : Places,
                 left  : 0 .. MaxSources,       \* sources not finished yet
                 ok    : BOOLEAN,               \* a source succeeded
                 bad   : BOOLEAN]               \* a source failed
Idle      == [op |-> None, run |-> None, tick |-> None, at |-> "idle", left |-> 0,
              ok |-> FALSE, bad |-> FALSE]
AbsentRun == [state |-> "absent", pause |-> FALSE, cancel |-> FALSE, exported |-> FALSE]
AbsentOperation == [kind |-> "scan", target |-> None, state |-> "absent"]

\* Handlers run at the worker's awaits.
Serving  == process # "down" /\ worker.at \in {"idle", "page"}
At(at)   == process # "down" /\ worker.at = at
Stopping == process = "stopping"
Queue(o, kind, target) ==
  operation' = [operation EXCEPT ![o] = [kind |-> kind, target |-> target, state |-> "queued"]]
-----------------------------------------------------------------------------
Init ==
  /\ schedule = [q \in Searches |-> "off"]
  /\ operation = [o \in Scans \cup Controls |-> AbsentOperation]
  /\ run = [s \in Scans |-> AbsentRun]
  /\ worker = Idle
  /\ process = "up" /\ crashes = 0 /\ stops = 0
-----------------------------------------------------------------------------
(***************************************************************************)
(* Requests.                                                               *)
(***************************************************************************)

\* Creating or changing a schedule starts a fresh interval.
SetSchedule(q, s) ==
  /\ Serving
  /\ s \in {"off", "waiting"}
  /\ schedule' = [schedule EXCEPT ![q] = s]
  /\ UNCHANGED <<operation, run, worker, procVars>>

\* The operation is in the way only while it is queued or running.
ActiveScan(q) == \E s \in Scans : operation[s].target = q /\ operation[s].state \in {"queued", "running"}

StartScan(s, q) ==
  /\ Serving
  /\ operation[s].state = "absent"
  /\ ~ActiveScan(q)
  /\ Queue(s, "scan", q)
  /\ UNCHANGED <<schedule, run, worker, procVars>>

\* controlRun: the If-Match revision is the row's, so the request answers the current row.
Control(c, s, kind) ==
  /\ Serving
  /\ operation[c].state = "absent"
  /\ run[s].state \notin Terminal \cup {"absent"}
  /\ kind = "resume_run" => run[s].state = "paused"
  /\ run' = [run EXCEPT ![s] =
       CASE kind = "pause_run"  -> [@ EXCEPT !.pause = TRUE]
         [] kind = "cancel_run" -> [@ EXCEPT !.cancel = TRUE]
         [] kind = "resume_run" -> [@ EXCEPT !.pause = FALSE, !.state = "running"]]
  /\ Queue(c, kind, s)
  /\ UNCHANGED <<schedule, worker, procVars>>

PauseRun(c, s)  == Control(c, s, "pause_run")
ResumeRun(c, s) == Control(c, s, "resume_run")
CancelRun(c, s) == Control(c, s, "cancel_run")
-----------------------------------------------------------------------------
(***************************************************************************)
(* The poll: schedules first, then one operation.                          *)
(***************************************************************************)

\* observeSchedule: the cursor moves past every missed boundary in a transaction of its own.
Tick(q) ==
  /\ process = "up" /\ worker.at = "idle"
  /\ schedule[q] = "due"
  /\ \E s \in Scans : operation[s].state = "absent"   \* bound
  /\ schedule' = [schedule EXCEPT ![q] = "waiting"]
  /\ worker' = [Idle EXCEPT !.tick = q, !.at = "ticked"]
  /\ UNCHANGED <<operation, run, procVars>>

\* The scan operation of the tick, whether or not another one is active.
EnqueueTick(s) ==
  /\ At("ticked")
  /\ operation[s].state = "absent"
  /\ Queue(s, "scan", worker.tick)
  /\ worker' = Idle
  /\ UNCHANGED <<schedule, run, procVars>>

ClaimOperation(o) ==
  /\ process = "up" /\ worker.at = "idle"
  /\ operation[o].state = "queued"
  /\ operation' = [operation EXCEPT ![o].state = "running"]
  /\ worker' = [Idle EXCEPT !.op = o, !.at = "claimed"]
  /\ UNCHANGED <<schedule, run, procVars>>

\* Discovery of run s begins, or begins again, with the n sources that are enabled now.
Discover(s, n) ==
  /\ run' = [run EXCEPT ![s].state = "running"]
  /\ worker' = [worker EXCEPT !.run = s, !.left = n, !.at = IF n = 0 THEN "empty" ELSE "top"]

StartDiscovery(n) ==
  /\ At("claimed")
  /\ operation[worker.op].kind = "scan"
  /\ Discover(worker.op, n)
  /\ UNCHANGED <<schedule, operation, procVars>>

Done(at) == worker' = [worker EXCEPT !.at = at]

\* Mutant: the control operation does not look whether the run has ended.
ApplyControlToEnded(n) ==
  /\ At("claimed")
  /\ operation[worker.op].kind # "scan"
  /\ LET s == operation[worker.op].target IN
       CASE run[s].cancel -> run' = [run EXCEPT ![s].state = "cancelled"] /\ Done("returned")
         [] ~run[s].cancel /\ run[s].pause ->
              run' = [run EXCEPT ![s].state = "paused"] /\ Done("returned")
         [] ~run[s].cancel /\ ~run[s].pause ->
              IF operation[worker.op].kind = "resume_run" /\ run[s].state \notin Terminal
                THEN Discover(s, n) ELSE run' = run /\ Done("returned")
  /\ UNCHANGED <<schedule, operation, procVars>>

\* Mutant: a pause request is looked at before a cancellation.
ApplyControlPauseFirst(n) ==
  /\ At("claimed")
  /\ operation[worker.op].kind # "scan"
  /\ LET s == operation[worker.op].target IN
       IF run[s].state \in Terminal THEN run' = run /\ Done("returned")
       ELSE CASE run[s].pause -> run' = [run EXCEPT ![s].state = "paused"] /\ Done("returned")
              [] ~run[s].pause /\ run[s].cancel ->
                   run' = [run EXCEPT ![s].state = "cancelled"] /\ Done("returned")
              [] ~run[s].cancel /\ ~run[s].pause ->
                   IF operation[worker.op].kind = "resume_run" THEN Discover(s, n)
                                                               ELSE run' = run /\ Done("returned")
  /\ UNCHANGED <<schedule, operation, procVars>>

\* The flags decide, whatever request queued the operation.
ApplyControl(n) ==
  /\ At("claimed")
  /\ operation[worker.op].kind # "scan"
  /\ LET s == operation[worker.op].target IN
       IF run[s].state \in Terminal THEN run' = run /\ Done("returned")
       ELSE CASE run[s].cancel -> run' = [run EXCEPT ![s].state = "cancelled"] /\ Done("returned")
              [] ~run[s].cancel /\ run[s].pause ->
                   run' = [run EXCEPT ![s].state = "paused"] /\ Done("returned")
              [] ~run[s].cancel /\ ~run[s].pause ->
                   IF operation[worker.op].kind = "resume_run" THEN Discover(s, n)
                                                               ELSE run' = run /\ Done("returned")
  /\ UNCHANGED <<schedule, operation, procVars>>

RefuseEmpty ==
  /\ At("empty")
  /\ run' = [run EXCEPT ![worker.run].state = "failed"]
  /\ Done("threw")
  /\ UNCHANGED <<schedule, operation, procVars>>
-----------------------------------------------------------------------------
(***************************************************************************)
(* discover.                                                               *)
(***************************************************************************)

PausedByStop(row) == [row EXCEPT !.state = "paused", !.pause = TRUE]
Paused(row)       == [row EXCEPT !.state = "paused"]
Cancelled(row)    == [row EXCEPT !.state = "cancelled"]

\* Before a source: the shutdown, then the requests.
BeforeSource ==
  /\ At("top")
  /\ LET r == run[worker.run]
         leave(row) == run' = [run EXCEPT ![worker.run] = row] /\ Done("returned") IN
       IF Stopping      THEN leave(PausedByStop(r))
       ELSE IF r.cancel THEN leave(Cancelled(r))
       ELSE IF r.pause  THEN leave(Paused(r))
       ELSE run' = run /\ Done("page")
  /\ UNCHANGED <<schedule, operation, procVars>>

\* The page of one source, the only await of discover; a busy browser or a login form fails it.
PageEnds(good) ==
  /\ At("page")
  /\ worker' = [worker EXCEPT !.at = "after", !.ok = @ \/ good, !.bad = @ \/ ~good]
  /\ UNCHANGED <<schedule, operation, run, procVars>>

\* Mutant: a cancellation is not looked at after the last page.
AfterSourceUncancelled ==
  /\ At("after")
  /\ LET r == run[worker.run]
         leave(row) == run' = [run EXCEPT ![worker.run] = row] /\ Done("returned") IN
       IF r.pause       THEN leave(Paused(r))
       ELSE IF Stopping THEN leave(PausedByStop(r))
       ELSE /\ run' = run
            /\ worker' = [worker EXCEPT !.left = @ - 1, !.at = IF worker.left = 1 THEN "final" ELSE "top"]
  /\ UNCHANGED <<schedule, operation, procVars>>

\* After a source: the requests, then the shutdown.
AfterSource ==
  /\ At("after")
  /\ LET r == run[worker.run]
         leave(row) == run' = [run EXCEPT ![worker.run] = row] /\ Done("returned") IN
       IF r.cancel      THEN leave(Cancelled(r))
       ELSE IF r.pause  THEN leave(Paused(r))
       ELSE IF Stopping THEN leave(PausedByStop(r))
       ELSE /\ run' = run
            /\ worker' = [worker EXCEPT !.left = @ - 1, !.at = IF worker.left = 1 THEN "final" ELSE "top"]
  /\ UNCHANGED <<schedule, operation, procVars>>

\* A source that succeeds leaves at least one listing, so the count of listings decides nothing more.
Verdict == IF ~worker.ok THEN "failed" ELSE IF worker.bad THEN "partial" ELSE "completed"

FinishRun ==
  /\ At("final")
  /\ run' = [run EXCEPT ![worker.run].state = Verdict]
  /\ Done("export")
  /\ UNCHANGED <<schedule, operation, procVars>>

\* Mutant: an export that cannot be written leaves the verdict.
WriteExportSilently(written) ==
  /\ At("export")
  /\ run' = [run EXCEPT ![worker.run].exported = written]
  /\ Done(IF written /\ run[worker.run].state # "failed" THEN "returned" ELSE "threw")
  /\ UNCHANGED <<schedule, operation, procVars>>

WriteExport(written) ==
  /\ At("export")
  /\ run' = [run EXCEPT ![worker.run] = IF written THEN [@ EXCEPT !.exported = TRUE]
                                                   ELSE [@ EXCEPT !.state = "failed"]]
  /\ Done(IF written /\ run[worker.run].state # "failed" THEN "returned" ELSE "threw")
  /\ UNCHANGED <<schedule, operation, procVars>>

FinishOperation ==
  /\ process # "down" /\ worker.at \in {"returned", "threw"}
  /\ operation' = [operation EXCEPT ![worker.op].state =
                     IF worker.at = "returned" THEN "succeeded" ELSE "failed"]
  /\ worker' = Idle
  /\ UNCHANGED <<schedule, run, procVars>>
-----------------------------------------------------------------------------
(***************************************************************************)
(* The process and the clock.                                              *)
(***************************************************************************)

BecomeDue(q) ==
  /\ schedule[q] = "waiting"
  /\ schedule' = [schedule EXCEPT ![q] = "due"]
  /\ UNCHANGED <<operation, run, worker, procVars>>

\* The stop signal comes at an await, like a request.
Stop ==
  /\ process = "up" /\ Serving /\ stops < MaxStops
  /\ process' = "stopping" /\ stops' = stops + 1
  /\ UNCHANGED <<schedule, operation, run, worker, crashes>>

\* state.stop awaits the operation in hand.
Exit ==
  /\ Stopping /\ worker.at = "idle"
  /\ process' = "down"
  /\ UNCHANGED <<schedule, operation, run, worker, crashes, stops>>

Crash ==
  /\ process # "down" /\ crashes < MaxCrashes
  /\ process' = "down" /\ crashes' = crashes + 1
  /\ worker' = Idle
  /\ UNCHANGED <<schedule, operation, run, stops>>

\* Mutant: only the operations that were running are failed.
RestartRunsKept ==
  /\ process = "down"
  /\ process' = "up"
  /\ operation' = [o \in Scans \cup Controls |->
       IF operation[o].state = "running" THEN [operation[o] EXCEPT !.state = "failed"] ELSE operation[o]]
  /\ UNCHANGED <<schedule, run, worker, crashes, stops>>

Restart ==
  /\ process = "down"
  /\ process' = "up"
  /\ operation' = [o \in Scans \cup Controls |->
       IF operation[o].state = "running" THEN [operation[o] EXCEPT !.state = "failed"] ELSE operation[o]]
  /\ run' = [s \in Scans |->
       IF run[s].state = "running" THEN [run[s] EXCEPT !.state = "failed"] ELSE run[s]]
  /\ UNCHANGED <<schedule, worker, crashes, stops>>
-----------------------------------------------------------------------------
Worker ==
  \/ \E q \in Searches : Tick(q)
  \/ \E s \in Scans : EnqueueTick(s)
  \/ \E o \in Scans \cup Controls : ClaimOperation(o)
  \/ \E n \in 0 .. MaxSources : StartDiscovery(n) \/ ApplyControl(n)
  \/ RefuseEmpty
  \/ BeforeSource
  \/ \E good \in BOOLEAN : PageEnds(good)
  \/ AfterSource
  \/ FinishRun
  \/ \E written \in BOOLEAN : WriteExport(written)
  \/ FinishOperation

Next ==
  \/ \E q \in Searches, s \in {"off", "waiting"} : SetSchedule(q, s)
  \/ \E s \in Scans, q \in Searches : StartScan(s, q)
  \/ \E c \in Controls, s \in Scans : PauseRun(c, s) \/ ResumeRun(c, s) \/ CancelRun(c, s)
  \/ Worker
  \/ \E q \in Searches : BecomeDue(q)
  \/ Stop \/ Exit \/ Crash \/ Restart

Spec == Init /\ [][Next]_vars

\* The poll re-arms itself and every page call has a time limit; a stopped or crashed process is
\* started again, as compose.yml asks; nobody has to send requests.
Fairness == WF_vars(Worker) /\ WF_vars(Exit) /\ WF_vars(Restart)
FairSpec == Spec /\ Fairness
-----------------------------------------------------------------------------
(***************************************************************************)
(* Properties.                                                             *)
(***************************************************************************)

\* Every variable holds a value of its table or of its protocol position.
TypeOK ==
  /\ schedule \in [Searches -> {"off", "waiting", "due"}]
  /\ operation \in [Scans \cup Controls -> OperationRow]
  /\ run \in [Scans -> RunRow]
  /\ worker \in WorkerRow
  /\ process \in {"up", "stopping", "down"}
  /\ crashes \in Nat
  /\ stops \in Nat

Drives(o, s) ==
  /\ operation[o].state \in {"queued", "running"}
  /\ o = s \/ (operation[o].kind = "resume_run" /\ operation[o].target = s)

\* A run shown as running has an operation that is doing it or will: no order of pause, resume and
\* cancel requests, stops, crashes and restarts leaves it running with nobody at work.
RunningIsDriven ==
  process # "down" => \A s \in Scans : run[s].state = "running" =>
    \E o \in Scans \cup Controls : Drives(o, s)

\* A run whose cancellation was accepted never reports a result, however late in the run the request
\* came.
CancelWins ==
  \A s \in Scans : run[s].cancel => run[s].state \notin {"completed", "partial"}

\* A paused run runs again only when the user resumes it: resume operations left in the queue from
\* earlier requests do not start it.  A run that ended stays as it ended, also when requests accepted
\* before are handled after; only an export that cannot be written turns its verdict into a failure.
RunMovesAsAsked ==
  [][\A s \in Scans : run'[s].state # run[s].state =>
       /\ run[s].state = "paused" /\ run'[s].state = "running" => run[s].pause /\ ~run'[s].pause
       /\ run[s].state \in Terminal =>
            worker.at = "export" /\ worker.run = s /\ run'[s].state = "failed"]_vars

\* A result is shown only with its base export behind it, unless a crash fell between the two.
Failed(s) == \E o \in Scans \cup Controls :
  /\ operation[o].state \in {"running", "failed"}
  /\ o = s \/ (operation[o].kind = "resume_run" /\ operation[o].target = s)
ResultIsExported ==
  \A s \in Scans :
    run[s].state \in {"completed", "partial"} /\ ~run[s].exported =>
      Failed(s) /\ (worker.run = s \/ crashes > 0)

\* An accepted cancellation ends the run, wherever the run was and whatever stopped the process.  A
\* crash with the cancellation in hand leaves the run paused with its request set, but not beyond the
\* user's reach: the next request to the run, of whatever kind, ends it.
CancelLost(s) ==
  /\ run[s].state = "paused"
  /\ \E c \in Controls : operation[c] = [kind |-> "cancel_run", target |-> s, state |-> "failed"]
  /\ \A c \in Controls : operation[c].target = s => operation[c].state \notin {"queued", "running"}
CancelSettles == \A s \in Scans : run[s].cancel ~> (run[s].state \in Terminal \/ CancelLost(s))

\* What the uniqueness rules of the persistence document say: one active run per search, paused runs
\* included.
ActiveFor(s, q) ==
  /\ operation[s].target = q
  /\ operation[s].state \in {"queued", "running"} \/ run[s].state \in {"running", "paused"}
OneActiveRun ==
  \A q \in Searches, s, t \in Scans : ActiveFor(s, q) /\ ActiveFor(t, q) => s = t

\* What the export transaction of the discovery document says: a failure before the file exists leaves
\* work that writes it.  The code does not: a crash between the verdict and the file leaves neither.
ExportRecovered ==
  \A s \in Scans :
    run[s].state \in {"completed", "partial"} ~> run[s].exported \/ run[s].state = "failed"
=============================================================================
