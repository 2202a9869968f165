---------------------------- MODULE ScanRunsProofs ----------------------------
(***************************************************************************)
(* Proofs about ScanRuns for any number of searches, scans, requests,      *)
(* sources, crashes and stops.  The inductive invariant relates the place  *)
(* of the worker to the operation in its hand and to the run it drives.    *)
(***************************************************************************)
EXTENDS ScanRuns, TLAPS

Traversing == {"empty", "top", "page", "after", "final"}
Results    == {"completed", "partial"}

\* An operation belongs to the run it was made for, and one that runs is in the worker's hand.
ForRun(o, s) == o = s \/ (operation[o].kind = "resume_run" /\ operation[o].target = s)
OperationsAgree ==
  \A o \in Scans \cup Controls :
    /\ operation[o].state # "absent" => (o \in Scans <=> operation[o].kind = "scan")
    /\ operation[o].state # "absent" /\ o \in Controls =>
         operation[o].target \in Scans /\ run[operation[o].target].state # "absent"
    /\ o \in Scans /\ operation[o].state \in {"absent", "queued"} => run[o].state = "absent"
    /\ process # "down" /\ operation[o].state = "running" => worker.op = o

\* The place of the worker tells what is in its hand and how the run stands.
WorkerAgrees ==
  /\ process = "down" => worker.at = "idle"
  /\ worker.at = "idle" => worker = Idle
  /\ worker.at = "ticked" => worker.op = None /\ worker.run = None
  /\ worker.at \notin {"idle", "ticked"} =>
       worker.op \in Scans \cup Controls /\ operation[worker.op].state = "running"
  /\ worker.at = "claimed" => worker.run = None
  /\ worker.at = "claimed" /\ worker.op \in Scans => run[worker.op].state = "absent"
  /\ worker.at \in Traversing \cup {"export"} => worker.run \in Scans /\ ForRun(worker.op, worker.run)
  /\ worker.at \in Traversing => run[worker.run].state = "running"
  /\ worker.at \in {"top", "page", "after"} => worker.left > 0
  /\ worker.at = "final" => ~run[worker.run].cancel
  /\ worker.at = "export" => run[worker.run].state \in Results \cup {"failed"}

\* A paused run has its flag up, so that only the user's resumption can clear it.
FlagsAgree == \A s \in Scans : run[s].state = "paused" => run[s].pause

\* Who is at work for a running run: the traversal, or a resumption on its way to it.
OnItsWay(o, s) ==
  /\ operation[o].kind = "resume_run" /\ operation[o].target = s
  /\ operation[o].state = "queued" \/ (worker.op = o /\ worker.at = "claimed")
RunningAgrees ==
  process # "down" => \A s \in Scans : run[s].state = "running" =>
    \/ worker.run = s /\ worker.at \in Traversing
    \/ \E o \in Controls : OnItsWay(o, s)

\* What stands behind a result whose export is missing.
CutOff(o, s) ==
  /\ ForRun(o, s)
  /\ operation[o].state = "failed" \/ (process = "down" /\ operation[o].state = "running")
ExportsAgree ==
  \A s \in Scans : run[s].state \in Results /\ ~run[s].exported =>
    \/ worker.run = s /\ worker.at = "export"
    \/ crashes > 0 /\ \E o \in Scans \cup Controls : CutOff(o, s)

IInv ==
  /\ TypeOK
  /\ OperationsAgree
  /\ WorkerAgrees
  /\ FlagsAgree
  /\ RunningAgrees
  /\ CancelWins
  /\ ExportsAgree

\* What RunMovesAsAsked says of one step.
MoveAsAsked ==
  \A s \in Scans : run'[s].state # run[s].state =>
    /\ run[s].state = "paused" /\ run'[s].state = "running" => run[s].pause /\ ~run'[s].pause
    /\ run[s].state \in Terminal =>
         worker.at = "export" /\ worker.run = s /\ run'[s].state = "failed"

LEMMA InitInv == Init => IInv
<1> SUFFICES ASSUME Init PROVE IInv
  OBVIOUS
<1>1. TypeOK
  BY BoundsAssumption
     DEF Init, TypeOK, AbsentOperation, AbsentRun, Idle, OperationRow, RunRow, WorkerRow, Kinds,
         WorkStates, RunStates, Places
<1>2. OperationsAgree /\ FlagsAgree /\ RunningAgrees /\ CancelWins /\ ExportsAgree
  BY DEF Init, OperationsAgree, FlagsAgree, RunningAgrees, CancelWins, ExportsAgree, Results,
         AbsentOperation, AbsentRun
<1>3. WorkerAgrees
  BY DEF Init, WorkerAgrees, Idle, Traversing
<1>. QED  BY <1>1, <1>2, <1>3 DEF IInv

-----------------------------------------------------------------------------
(***************************************************************************)
(* The parts of a step: one row of the runs, the place of the worker.      *)
(***************************************************************************)

LEMMA RowEffect ==
  ASSUME TypeOK, NEW s \in Scans, NEW row \in RunRow, run' = [run EXCEPT ![s] = row]
  PROVE  /\ run' \in [Scans -> RunRow]
         /\ run'[s] = row
         /\ \A t \in Scans : t # s => run'[t] = run[t]
BY DEF TypeOK

LEMMA RowFields ==
  ASSUME NEW r \in RunRow, NEW v \in RunStates
  PROVE  LET row == [r EXCEPT !.state = v] IN
         /\ row \in RunRow
         /\ row.state = v
         /\ row.pause = r.pause /\ row.cancel = r.cancel /\ row.exported = r.exported
BY DEF RunRow

\* The state of one run changes and nothing else of it.
LEMMA StateEffect ==
  ASSUME TypeOK, NEW s \in Scans, NEW v \in RunStates, run' = [run EXCEPT ![s].state = v]
  PROVE  /\ run' \in [Scans -> RunRow]
         /\ run'[s].state = v
         /\ run'[s].pause = run[s].pause
         /\ run'[s].cancel = run[s].cancel
         /\ run'[s].exported = run[s].exported
         /\ \A t \in Scans : t # s => run'[t] = run[t]
<1> DEFINE row == [run[s] EXCEPT !.state = v]
<1>1. run[s] \in RunRow
  BY DEF TypeOK
<1>2. /\ row \in RunRow /\ row.state = v
      /\ row.pause = run[s].pause /\ row.cancel = run[s].cancel /\ row.exported = run[s].exported
  BY <1>1, RowFields
<1>3. run' = [run EXCEPT ![s] = row]
  OBVIOUS
<1> HIDE DEF row
<1>. QED  BY <1>2, <1>3, RowEffect

LEMMA DoneEffect ==
  ASSUME TypeOK, NEW at \in Places, Done(at)
  PROVE  /\ worker' \in WorkerRow
         /\ worker'.at = at
         /\ worker'.op = worker.op /\ worker'.run = worker.run /\ worker'.left = worker.left
BY DEF TypeOK, Done, WorkerRow

-----------------------------------------------------------------------------
(***************************************************************************)
(* Each kind of step keeps the invariant and moves the runs as asked.      *)
(***************************************************************************)

\* Schedules change, the clock ticks, a stop is asked for.
LEMMA QuietKeepsInv ==
  ASSUME IInv, UNCHANGED <<operation, run, worker, crashes>>,
         schedule' \in [Searches -> {"off", "waiting", "due"}],
         process' \in {"up", "stopping", "down"},
         stops' \in Nat,
         process' = "down" <=> process = "down"
  PROVE  IInv' /\ MoveAsAsked
<1>1. TypeOK'
  BY DEF IInv, TypeOK
<1>2. OperationsAgree' /\ FlagsAgree' /\ RunningAgrees' /\ CancelWins' /\ ExportsAgree'
  BY DEF IInv, OperationsAgree, FlagsAgree, RunningAgrees, OnItsWay, CancelWins, ExportsAgree, CutOff,
         ForRun
<1>3. WorkerAgrees'
  BY DEF IInv, WorkerAgrees, ForRun
<1>4. MoveAsAsked
  BY DEF MoveAsAsked
<1>. QED  BY <1>1, <1>2, <1>3, <1>4 DEF IInv

\* A scan is queued by a request or, with the tick in hand, by the poll.
LEMMA QueueScanKeepsInv ==
  ASSUME IInv, NEW s \in Scans, NEW q \in Searches \cup {None},
         operation[s].state = "absent", Queue(s, "scan", q),
         worker' = worker \/ (worker.at = "ticked" /\ worker' = Idle),
         UNCHANGED <<schedule, run, process, crashes, stops>>
  PROVE  IInv' /\ MoveAsAsked
<1>1. /\ operation'[s] = [kind |-> "scan", target |-> q, state |-> "queued"]
      /\ \A o \in Scans \cup Controls : o # s => operation'[o] = operation[o]
  BY DEF Queue, IInv, TypeOK
<1>2. worker.at = "ticked" => worker.op = None /\ worker.run = None
  BY DEF IInv, WorkerAgrees
<1>3. /\ worker'.op = worker.op /\ worker'.run = worker.run
      /\ worker' = worker \/ (worker.at = "ticked" /\ worker'.at = "idle")
      /\ worker' = worker \/ (worker.at = "ticked" /\ worker' = Idle)
  BY <1>2 DEF Idle
<1>4. Idle \in WorkerRow
  BY BoundsAssumption DEF Idle, WorkerRow, Places
<1>5. TypeOK'
  <2>1. [kind |-> "scan", target |-> q, state |-> "queued"] \in OperationRow
    BY DEF OperationRow, Kinds, WorkStates
  <2>2. operation' \in [Scans \cup Controls -> OperationRow]
    BY <2>1 DEF IInv, TypeOK, Queue
  <2>. QED  BY <2>2, <1>3, <1>4 DEF IInv, TypeOK
<1>6. OperationsAgree'
  BY <1>1, <1>3, KindsAssumption DEF IInv, OperationsAgree
<1>7. WorkerAgrees'
  BY <1>1, <1>3 DEF IInv, WorkerAgrees, ForRun, Traversing
<1>8. FlagsAgree' /\ CancelWins'
  BY DEF IInv, FlagsAgree, CancelWins
<1>9. RunningAgrees'
  BY <1>1, <1>3, KindsAssumption DEF IInv, RunningAgrees, OnItsWay, Traversing
<1>10. ExportsAgree'
  BY <1>1, <1>3 DEF IInv, ExportsAgree, CutOff, ForRun
<1>11. MoveAsAsked
  BY DEF MoveAsAsked
<1>. QED  BY <1>5, <1>6, <1>7, <1>8, <1>9, <1>10, <1>11 DEF IInv

\* A request puts up or takes down a flag of a run that has not ended.
LEMMA ControlKeepsInv ==
  ASSUME IInv, NEW c \in Controls, NEW s \in Scans,
         NEW kind \in {"pause_run", "resume_run", "cancel_run"}, Control(c, s, kind)
  PROVE  IInv' /\ MoveAsAsked
<1>1. /\ operation'[c] = [kind |-> kind, target |-> s, state |-> "queued"]
      /\ \A o \in Scans \cup Controls : o # c => operation'[o] = operation[o]
      /\ operation[c].state = "absent"
  BY DEF Control, Queue, IInv, TypeOK
<1>2. /\ worker' = worker /\ process' = process /\ crashes' = crashes
      /\ worker.at \in {"idle", "page"}
      /\ process # "down"
  BY DEF Control, Serving, procVars
<1>3. /\ run[s].state \in {"running", "paused"}
      /\ kind = "resume_run" => run[s].state = "paused"
  BY DEF Control, IInv, TypeOK, RunRow, RunStates
<1> DEFINE row == CASE kind = "pause_run"  -> [run[s] EXCEPT !.pause = TRUE]
                    [] kind = "cancel_run" -> [run[s] EXCEPT !.cancel = TRUE]
                    [] kind = "resume_run" -> [run[s] EXCEPT !.pause = FALSE, !.state = "running"]
<1>4. /\ row \in RunRow
      /\ row.exported = run[s].exported
      /\ kind # "resume_run" => row.state = run[s].state /\ (run[s].pause => row.pause)
      /\ kind = "resume_run" => row.state = "running" /\ ~row.pause
  <2>1. run[s] \in RunRow
    BY DEF IInv, TypeOK
  <2>2. CASE kind = "pause_run"
    <3>1. row = [run[s] EXCEPT !.pause = TRUE]
      BY <2>2
    <3> HIDE DEF row
    <3>. QED  BY <2>1, <2>2, <3>1 DEF RunRow
  <2>3. CASE kind = "cancel_run"
    <3>1. row = [run[s] EXCEPT !.cancel = TRUE]
      BY <2>3
    <3> HIDE DEF row
    <3>. QED  BY <2>1, <2>3, <3>1 DEF RunRow
  <2>4. CASE kind = "resume_run"
    <3>1. row = [run[s] EXCEPT !.pause = FALSE, !.state = "running"]
      BY <2>4
    <3> HIDE DEF row
    <3>. QED  BY <2>1, <2>4, <3>1 DEF RunRow, RunStates
  <2> HIDE DEF row
  <2>. QED  BY <2>2, <2>3, <2>4
<1>5. run' = [run EXCEPT ![s] = row]
  BY DEF Control
<1> HIDE DEF row
<1>6. /\ run' \in [Scans -> RunRow]
      /\ run'[s] = row
      /\ \A t \in Scans : t # s => run'[t] = run[t]
  BY <1>4, <1>5, RowEffect DEF IInv
<1>7. TypeOK'
  <2>1. [kind |-> kind, target |-> s, state |-> "queued"] \in OperationRow
    BY DEF OperationRow, Kinds, WorkStates
  <2>2. operation' \in [Scans \cup Controls -> OperationRow]
    BY <2>1 DEF IInv, TypeOK, Control, Queue
  <2>. QED  BY <2>2, <1>6 DEF IInv, TypeOK, Control, procVars
<1>8. run'[s].state \in {"running", "paused"}
  BY <1>3, <1>4, <1>6
<1>9. OperationsAgree'
  BY <1>1, <1>2, <1>3, <1>6, <1>8, KindsAssumption DEF IInv, OperationsAgree
<1>10. WorkerAgrees'
  BY <1>1, <1>2, <1>3, <1>4, <1>6 DEF IInv, WorkerAgrees, ForRun, Traversing, Idle
<1>11. FlagsAgree' /\ CancelWins'
  BY <1>3, <1>4, <1>6, <1>8 DEF IInv, FlagsAgree, CancelWins
<1>12. RunningAgrees'
  BY <1>1, <1>2, <1>3, <1>4, <1>6 DEF IInv, RunningAgrees, OnItsWay
<1>13. ExportsAgree'
  BY <1>1, <1>2, <1>6, <1>8 DEF IInv, ExportsAgree, CutOff, ForRun, Results
<1>14. MoveAsAsked
  BY <1>3, <1>4, <1>6 DEF IInv, FlagsAgree, MoveAsAsked, Terminal
<1>. QED  BY <1>7, <1>9, <1>10, <1>11, <1>12, <1>13, <1>14 DEF IInv

LEMMA TickKeepsInv ==
  ASSUME IInv, NEW q \in Searches, Tick(q)
  PROVE  IInv' /\ MoveAsAsked
<1>1. worker = Idle /\ process = "up"
  BY DEF IInv, WorkerAgrees, Tick
<1>2. /\ worker' \in WorkerRow
      /\ worker'.op = None /\ worker'.run = None /\ worker'.at = "ticked"
  <2>1. worker' = [op |-> None, run |-> None, tick |-> q, at |-> "ticked", left |-> 0,
                   ok |-> FALSE, bad |-> FALSE]
    BY DEF Tick, Idle
  <2>. QED  BY <2>1, BoundsAssumption DEF WorkerRow, Places
<1>3. worker.op = None /\ worker.run = None /\ worker.at = "idle"
  BY <1>1 DEF Idle
<1>4. UNCHANGED <<operation, run, process, crashes, stops>>
  BY DEF Tick, procVars
<1>5. TypeOK'
  BY <1>2, <1>4 DEF IInv, TypeOK, Tick
<1>6. OperationsAgree' /\ FlagsAgree' /\ CancelWins'
  BY <1>2, <1>3, <1>4 DEF IInv, OperationsAgree, FlagsAgree, CancelWins
<1>7. WorkerAgrees'
  BY <1>1, <1>2, <1>4 DEF WorkerAgrees, Traversing
<1>8. RunningAgrees' /\ ExportsAgree'
  BY <1>2, <1>3, <1>4 DEF IInv, RunningAgrees, OnItsWay, ExportsAgree, CutOff, ForRun, Traversing
<1>9. MoveAsAsked
  BY <1>4 DEF MoveAsAsked
<1>. QED  BY <1>5, <1>6, <1>7, <1>8, <1>9 DEF IInv

LEMMA ClaimKeepsInv ==
  ASSUME IInv, NEW o \in Scans \cup Controls, ClaimOperation(o)
  PROVE  IInv' /\ MoveAsAsked
<1>1. /\ worker = Idle /\ process = "up" /\ operation[o].state = "queued"
      /\ UNCHANGED <<schedule, run, process, crashes, stops>>
  BY DEF IInv, WorkerAgrees, ClaimOperation, procVars
<1>2. /\ worker' \in WorkerRow
      /\ worker'.op = o /\ worker'.run = None /\ worker'.at = "claimed"
  <2>1. worker' = [op |-> o, run |-> None, tick |-> None, at |-> "claimed", left |-> 0,
                   ok |-> FALSE, bad |-> FALSE]
    BY DEF ClaimOperation, Idle
  <2>. QED  BY <2>1, BoundsAssumption DEF WorkerRow, Places
<1>3. worker.op = None /\ worker.run = None /\ worker.at = "idle"
  BY <1>1 DEF Idle
<1>4. /\ operation' \in [Scans \cup Controls -> OperationRow]
      /\ operation'[o].state = "running"
      /\ operation'[o].kind = operation[o].kind /\ operation'[o].target = operation[o].target
      /\ \A p \in Scans \cup Controls : p # o => operation'[p] = operation[p]
  BY DEF ClaimOperation, IInv, TypeOK, OperationRow, WorkStates
<1>5. TypeOK'
  BY <1>1, <1>2, <1>4 DEF IInv, TypeOK
<1>6. OperationsAgree'
  BY <1>1, <1>2, <1>3, <1>4, NoneAssumption DEF IInv, OperationsAgree
<1>7. FlagsAgree' /\ CancelWins'
  BY <1>1 DEF IInv, FlagsAgree, CancelWins
<1>8. WorkerAgrees'
  BY <1>1, <1>2, <1>4 DEF IInv, OperationsAgree, WorkerAgrees, Traversing
<1>9. RunningAgrees'
  BY <1>1, <1>2, <1>3, <1>4 DEF IInv, RunningAgrees, OnItsWay, Traversing
<1>10. ExportsAgree'
  BY <1>1, <1>2, <1>3, <1>4 DEF IInv, ExportsAgree, CutOff, ForRun
<1>11. MoveAsAsked
  BY <1>1 DEF MoveAsAsked
<1>. QED  BY <1>5, <1>6, <1>7, <1>8, <1>9, <1>10, <1>11 DEF IInv

\* The traversal of a run begins, or begins again.
LEMMA DiscoverKeepsInv ==
  ASSUME IInv, NEW s \in Scans, NEW n \in 0 .. MaxSources,
         At("claimed"), Discover(s, n),
         \/ worker.op = s
         \/ /\ worker.op \in Controls /\ ForRun(worker.op, s)
            /\ run[s].state \notin Terminal /\ ~run[s].pause,
         UNCHANGED <<schedule, operation, process, crashes, stops>>
  PROVE  IInv' /\ MoveAsAsked
<1>1. /\ worker.at = "claimed" /\ process # "down"
      /\ worker.op \in Scans \cup Controls /\ operation[worker.op].state = "running"
      /\ ForRun(worker.op, s)
  BY DEF At, IInv, WorkerAgrees, ForRun
<1>2. /\ run' \in [Scans -> RunRow]
      /\ run'[s].state = "running"
      /\ \A t \in Scans : t # s => run'[t] = run[t]
  BY StateEffect DEF IInv, Discover, RunStates
<1>3. /\ worker' \in WorkerRow
      /\ worker'.op = worker.op /\ worker'.run = s /\ worker'.left = n
      /\ worker'.at = IF n = 0 THEN "empty" ELSE "top"
  BY DEF IInv, TypeOK, Discover, WorkerRow, Places
<1>4. worker'.at \in Traversing /\ worker'.at \notin {"page", "after", "final", "export", "claimed"}
  BY <1>3 DEF Traversing
<1>5. \/ worker.op = s /\ run[s].state = "absent"
      \/ /\ worker.op \in Controls /\ run[s].state \notin Terminal \cup {"absent"} /\ ~run[s].pause
         /\ operation[s].state \notin {"absent", "queued"}
  BY <1>1, KindsAssumption DEF IInv, OperationsAgree, WorkerAgrees, ForRun
<1>6. TypeOK'
  BY <1>2, <1>3 DEF IInv, TypeOK
<1>7. OperationsAgree'
  BY <1>1, <1>2, <1>3, <1>5 DEF IInv, OperationsAgree
<1>8. WorkerAgrees'
  BY <1>1, <1>2, <1>3, <1>4 DEF WorkerAgrees, ForRun, Traversing
<1>9. FlagsAgree' /\ CancelWins'
  BY <1>2 DEF IInv, FlagsAgree, CancelWins
<1>10. RunningAgrees'
  <2> SUFFICES ASSUME NEW t \in Scans, run'[t].state = "running", t # s
               PROVE  \E o \in Controls : OnItsWay(o, t)'
    BY <1>3, <1>4 DEF RunningAgrees
  <2>1. worker.run = None
    BY <1>1 DEF IInv, WorkerAgrees
  <2>2. PICK o \in Controls : OnItsWay(o, t)
    BY <1>1, <1>2, <2>1, NoneAssumption DEF IInv, RunningAgrees
  <2>3. worker.op # o
    BY <1>1, <2>2, KindsAssumption DEF OnItsWay, ForRun
  <2>. QED  BY <2>2, <2>3 DEF OnItsWay
<1>11. ExportsAgree'
  BY <1>1, <1>2 DEF IInv, ExportsAgree, CutOff, ForRun, Results
<1>12. MoveAsAsked
  BY <1>2, <1>5 DEF IInv, FlagsAgree, MoveAsAsked, Terminal
<1>. QED  BY <1>6, <1>7, <1>8, <1>9, <1>10, <1>11, <1>12 DEF IInv

\* What a control operation finds in the worker's hand.
LEMMA ControlInHand ==
  ASSUME IInv, At("claimed"), operation[worker.op].kind # "scan"
  PROVE  /\ worker.op \in Controls /\ operation[worker.op].state = "running"
         /\ operation[worker.op].target \in Scans
         /\ run[operation[worker.op].target].state # "absent"
BY DEF At, IInv, WorkerAgrees, OperationsAgree

\* A control operation that starts nothing: the run has ended, or stops here, or goes on elsewhere.
Settles(s, kind) ==
  \/ run' = run /\ (run[s].state \in Terminal \/ kind # "resume_run")
  \/ run[s].state \notin Terminal /\ run' = [run EXCEPT ![s].state = "cancelled"]
  \/ run[s].state \notin Terminal /\ run[s].pause /\ run' = [run EXCEPT ![s].state = "paused"]

Settled(s, kind) ==
  /\ run' \in [Scans -> RunRow]
  /\ \A t \in Scans : t # s => run'[t] = run[t]
  /\ run'[s].pause = run[s].pause /\ run'[s].cancel = run[s].cancel
  /\ run'[s].exported = run[s].exported
  /\ \/ /\ run'[s].state = run[s].state
        /\ run[s].state \in Terminal \/ kind # "resume_run"
     \/ run[s].state \notin Terminal /\ run'[s].state = "cancelled"
     \/ run[s].state \notin Terminal /\ run'[s].state = "paused" /\ run[s].pause

LEMMA SettledRow ==
  ASSUME TypeOK, NEW s \in Scans, NEW kind
  PROVE  Settles(s, kind) => Settled(s, kind)
<1>1. CASE run' = run /\ (run[s].state \in Terminal \/ kind # "resume_run")
  BY <1>1 DEF Settled, TypeOK
<1>2. "cancelled" \in RunStates /\ "paused" \in RunStates
  BY DEF RunStates, Terminal
<1>3. CASE run[s].state \notin Terminal /\ run' = [run EXCEPT ![s].state = "cancelled"]
  BY <1>2, <1>3, StateEffect DEF Settled
<1>4. CASE run[s].state \notin Terminal /\ run[s].pause /\ run' = [run EXCEPT ![s].state = "paused"]
  BY <1>2, <1>4, StateEffect DEF Settled
<1>. QED  BY <1>1, <1>3, <1>4 DEF Settles

LEMMA SettleKeepsInv ==
  ASSUME IInv, At("claimed"), operation[worker.op].kind # "scan",
         NEW s, s = operation[worker.op].target,
         Settles(s, operation[worker.op].kind),
         Done("returned"),
         UNCHANGED <<schedule, operation, process, crashes, stops>>
  PROVE  IInv' /\ MoveAsAsked
<1>0. PICK kind : kind = operation[worker.op].kind
  OBVIOUS
<1>1. /\ worker.op \in Controls /\ operation[worker.op].state = "running"
      /\ s \in Scans /\ run[s].state # "absent"
      /\ worker.at = "claimed" /\ process # "down"
  BY ControlInHand DEF At
<1>2. /\ worker' \in WorkerRow
      /\ worker'.at = "returned" /\ worker'.op = worker.op /\ worker'.run = worker.run
  BY DoneEffect DEF IInv, Places
<1>3. Settled(s, kind)
  BY <1>0, <1>1, SettledRow DEF IInv
<1>4. TypeOK'
  BY <1>2, <1>3 DEF IInv, TypeOK, Settled
<1>5. OperationsAgree'
  <2>1. \A t \in Scans : run'[t].state = "absent" <=> run[t].state = "absent"
    BY <1>1, <1>3 DEF Settled
  <2>. QED  BY <1>1, <1>2, <2>1 DEF IInv, OperationsAgree
<1>6. WorkerAgrees'
  BY <1>1, <1>2 DEF WorkerAgrees, Traversing
<1>7. FlagsAgree'
  BY <1>1, <1>3 DEF IInv, FlagsAgree, Settled
<1>8. CancelWins'
  BY <1>1, <1>3 DEF IInv, CancelWins, Terminal, Settled
<1>9. RunningAgrees'
  <2> SUFFICES ASSUME NEW t \in Scans, run'[t].state = "running"
               PROVE  \E o \in Controls : OnItsWay(o, t)'
    BY DEF RunningAgrees
  <2>1. run[t].state = "running" /\ (t = s => kind # "resume_run")
    BY <1>3 DEF Settled, Terminal
  <2>2. PICK o \in Controls : OnItsWay(o, t)
    BY <1>1, <2>1, NoneAssumption DEF IInv, RunningAgrees, WorkerAgrees
  <2>3. worker.op # o
    BY <1>0, <1>1, <2>1, <2>2 DEF OnItsWay
  <2>. QED  BY <2>2, <2>3 DEF OnItsWay
<1>10. ExportsAgree'
  <2> SUFFICES ASSUME NEW t \in Scans, run'[t].state \in Results, ~run'[t].exported
               PROVE  crashes > 0 /\ \E o \in Scans \cup Controls : CutOff(o, t)'
    BY DEF ExportsAgree
  <2>1. run[t].state \in Results /\ ~run[t].exported
    BY <1>3 DEF Settled, Results
  <2>2. crashes > 0 /\ \E o \in Scans \cup Controls : CutOff(o, t)
    BY <1>1, <2>1 DEF IInv, ExportsAgree
  <2>. QED  BY <2>2 DEF CutOff, ForRun
<1>11. MoveAsAsked
  BY <1>1, <1>3 DEF MoveAsAsked, Settled, Terminal
<1>. QED  BY <1>4, <1>5, <1>6, <1>7, <1>8, <1>9, <1>10, <1>11 DEF IInv

\* The traversal leaves its run, which a request or a stop has ended or paused.
LEMMA LeaveKeepsInv ==
  ASSUME IInv, process # "down", worker.at \in {"empty", "top", "after"},
         NEW row \in RunRow, NEW at \in {"returned", "threw"},
         row.state \in {"cancelled", "paused", "failed"},
         row.state = "paused" => row.pause,
         row.cancel = run[worker.run].cancel,
         run' = [run EXCEPT ![worker.run] = row], Done(at),
         UNCHANGED <<schedule, operation, process, crashes, stops>>
  PROVE  IInv' /\ MoveAsAsked
<1> DEFINE s == worker.run
<1>1. /\ s \in Scans /\ run[s].state = "running" /\ ForRun(worker.op, s)
      /\ worker.op \in Scans \cup Controls /\ operation[worker.op].state = "running"
  BY DEF IInv, WorkerAgrees, Traversing
<1>2. /\ worker' \in WorkerRow
      /\ worker'.at = at /\ worker'.op = worker.op /\ worker'.run = worker.run
  BY DoneEffect DEF IInv, Places
<1>3. /\ run' \in [Scans -> RunRow]
      /\ run'[s] = row
      /\ \A t \in Scans : t # s => run'[t] = run[t]
  BY <1>1, RowEffect DEF IInv
<1>4. TypeOK'
  BY <1>2, <1>3 DEF IInv, TypeOK
<1>5. OperationsAgree'
  BY <1>1, <1>2, <1>3 DEF IInv, OperationsAgree
<1>6. WorkerAgrees'
  BY <1>1, <1>2, <1>3 DEF WorkerAgrees, Traversing
<1>7. FlagsAgree' /\ CancelWins'
  BY <1>1, <1>3 DEF IInv, FlagsAgree, CancelWins
<1>8. RunningAgrees'
  BY <1>1, <1>2, <1>3 DEF IInv, RunningAgrees, OnItsWay
<1>9. ExportsAgree'
  BY <1>1, <1>2, <1>3 DEF IInv, ExportsAgree, CutOff, ForRun, Results
<1>10. MoveAsAsked
  BY <1>1, <1>3 DEF MoveAsAsked, Terminal
<1>. QED  BY <1>4, <1>5, <1>6, <1>7, <1>8, <1>9, <1>10 DEF IInv

\* The traversal goes on with its run.
LEMMA AdvanceKeepsInv ==
  ASSUME IInv, process # "down", worker.at \in {"top", "page", "after"},
         worker' \in WorkerRow, worker'.op = worker.op, worker'.run = worker.run,
         worker'.at \in {"top", "page", "after", "final"},
         worker'.at # "final" => worker'.left > 0,
         worker'.at = "final" => ~run[worker.run].cancel,
         UNCHANGED <<schedule, operation, run, process, crashes, stops>>
  PROVE  IInv' /\ MoveAsAsked
<1>1. /\ worker.run \in Scans /\ run[worker.run].state = "running" /\ ForRun(worker.op, worker.run)
      /\ worker.op \in Scans \cup Controls /\ operation[worker.op].state = "running"
  BY DEF IInv, WorkerAgrees, Traversing
<1>2. TypeOK'
  BY DEF IInv, TypeOK
<1>3. OperationsAgree' /\ FlagsAgree' /\ CancelWins'
  BY DEF IInv, OperationsAgree, FlagsAgree, CancelWins
<1>4. WorkerAgrees'
  BY <1>1 DEF WorkerAgrees, ForRun, Traversing
<1>5. RunningAgrees' /\ ExportsAgree'
  BY DEF IInv, RunningAgrees, OnItsWay, ExportsAgree, CutOff, ForRun, Traversing
<1>6. MoveAsAsked
  BY DEF MoveAsAsked
<1>. QED  BY <1>2, <1>3, <1>4, <1>5, <1>6 DEF IInv

LEMMA FinishRunKeepsInv ==
  ASSUME IInv, FinishRun
  PROVE  IInv' /\ MoveAsAsked
<1> DEFINE s == worker.run
<1>1. /\ s \in Scans /\ run[s].state = "running" /\ ~run[s].cancel /\ ForRun(worker.op, s)
      /\ worker.op \in Scans \cup Controls /\ operation[worker.op].state = "running"
      /\ worker.at = "final" /\ process # "down"
  BY DEF IInv, WorkerAgrees, Traversing, FinishRun, At
<1>2. /\ worker' \in WorkerRow
      /\ worker'.at = "export" /\ worker'.op = worker.op /\ worker'.run = worker.run
  BY DoneEffect DEF IInv, Places, FinishRun
<1>3. UNCHANGED <<schedule, operation, process, crashes, stops>>
  BY DEF FinishRun, procVars
<1>4. /\ run' \in [Scans -> RunRow]
      /\ run'[s].state \in Results \cup {"failed"}
      /\ run'[s].cancel = run[s].cancel
      /\ \A t \in Scans : t # s => run'[t] = run[t]
  <2>1. Verdict \in Results \cup {"failed"} /\ Verdict \in RunStates
    BY DEF Verdict, Results, RunStates, Terminal
  <2>. QED  BY <1>1, <2>1, StateEffect DEF FinishRun, IInv
<1>5. run'[s].state \notin {"running", "paused", "absent"}
  BY <1>4 DEF Results
<1>6. TypeOK'
  BY <1>2, <1>3, <1>4 DEF IInv, TypeOK
<1>7. OperationsAgree'
  BY <1>1, <1>2, <1>3, <1>4, <1>5 DEF IInv, OperationsAgree
<1>8. WorkerAgrees'
  BY <1>1, <1>2, <1>3, <1>4 DEF WorkerAgrees, ForRun, Traversing
<1>9. FlagsAgree' /\ CancelWins'
  BY <1>1, <1>4, <1>5 DEF IInv, FlagsAgree, CancelWins
<1>10. RunningAgrees'
  BY <1>1, <1>2, <1>3, <1>4, <1>5 DEF IInv, RunningAgrees, OnItsWay
<1>11. ExportsAgree'
  BY <1>1, <1>2, <1>3, <1>4 DEF IInv, ExportsAgree, CutOff, ForRun
<1>12. MoveAsAsked
  BY <1>1, <1>4 DEF MoveAsAsked, Terminal
<1>. QED  BY <1>6, <1>7, <1>8, <1>9, <1>10, <1>11, <1>12 DEF IInv

LEMMA WriteExportKeepsInv ==
  ASSUME IInv, NEW written \in BOOLEAN, WriteExport(written)
  PROVE  IInv' /\ MoveAsAsked
<1> DEFINE s == worker.run
<1>1. /\ s \in Scans /\ run[s].state \in Results \cup {"failed"} /\ ForRun(worker.op, s)
      /\ worker.op \in Scans \cup Controls /\ operation[worker.op].state = "running"
      /\ worker.at = "export" /\ process # "down"
  BY DEF IInv, WorkerAgrees, WriteExport, At
<1>2. /\ worker' \in WorkerRow
      /\ worker'.at \in {"returned", "threw"} /\ worker'.op = worker.op /\ worker'.run = worker.run
  BY DoneEffect DEF IInv, Places, WriteExport
<1>3. UNCHANGED <<schedule, operation, process, crashes, stops>>
  BY DEF WriteExport, procVars
<1>4. /\ run' \in [Scans -> RunRow]
      /\ \/ run'[s].state = "failed"
         \/ run'[s].state = run[s].state /\ run'[s].exported
      /\ run'[s].cancel = run[s].cancel
      /\ \A t \in Scans : t # s => run'[t] = run[t]
  <2>1. run[s] \in RunRow
    BY <1>1 DEF IInv, TypeOK
  <2>2. CASE written
    <3>1. run' = [run EXCEPT ![s] = [run[s] EXCEPT !.exported = TRUE]]
      BY <2>2 DEF WriteExport
    <3>2. LET row == [run[s] EXCEPT !.exported = TRUE] IN
          /\ row \in RunRow
          /\ row.state = run[s].state /\ row.exported /\ row.cancel = run[s].cancel
      BY <2>1 DEF RunRow
    <3>. QED  BY <1>1, <3>1, <3>2, RowEffect DEF IInv
  <2>3. CASE ~written
    BY <1>1, <2>3, StateEffect DEF WriteExport, IInv, RunStates, Terminal
  <2>. QED  BY <2>2, <2>3
<1>5. run'[s].state \notin {"running", "paused", "absent"}
  BY <1>1, <1>4 DEF Results
<1>6. TypeOK'
  BY <1>2, <1>3, <1>4 DEF IInv, TypeOK
<1>7. OperationsAgree'
  BY <1>1, <1>2, <1>3, <1>4, <1>5 DEF IInv, OperationsAgree, Results
<1>8. WorkerAgrees'
  BY <1>1, <1>2, <1>3 DEF WorkerAgrees, Traversing
<1>9. FlagsAgree' /\ CancelWins'
  BY <1>1, <1>4, <1>5 DEF IInv, FlagsAgree, CancelWins
<1>10. RunningAgrees'
  BY <1>1, <1>2, <1>3, <1>4, <1>5 DEF IInv, RunningAgrees, OnItsWay, Traversing
<1>11. ExportsAgree'
  BY <1>1, <1>2, <1>3, <1>4 DEF IInv, ExportsAgree, CutOff, ForRun, Results
<1>12. MoveAsAsked
  BY <1>1, <1>4 DEF MoveAsAsked, Results
<1>. QED  BY <1>6, <1>7, <1>8, <1>9, <1>10, <1>11, <1>12 DEF IInv

LEMMA FinishOperationKeepsInv ==
  ASSUME IInv, FinishOperation
  PROVE  IInv' /\ MoveAsAsked
<1>1. /\ worker.op \in Scans \cup Controls /\ operation[worker.op].state = "running"
      /\ worker.at \in {"returned", "threw"} /\ process # "down"
      /\ worker' = Idle
      /\ UNCHANGED <<schedule, run, process, crashes, stops>>
  BY DEF IInv, WorkerAgrees, FinishOperation, procVars
<1>2. Idle \in WorkerRow /\ Idle.at = "idle" /\ Idle.op = None /\ Idle.run = None
  BY BoundsAssumption DEF Idle, WorkerRow, Places
<1>3. /\ operation' \in [Scans \cup Controls -> OperationRow]
      /\ operation'[worker.op].state \in {"succeeded", "failed"}
      /\ operation'[worker.op].kind = operation[worker.op].kind
      /\ operation'[worker.op].target = operation[worker.op].target
      /\ \A o \in Scans \cup Controls : o # worker.op => operation'[o] = operation[o]
  BY <1>1 DEF FinishOperation, IInv, TypeOK, OperationRow, WorkStates
<1>4. TypeOK'
  BY <1>1, <1>2, <1>3 DEF IInv, TypeOK
<1>5. OperationsAgree'
  BY <1>1, <1>2, <1>3 DEF IInv, OperationsAgree
<1>6. WorkerAgrees' /\ FlagsAgree' /\ CancelWins'
  BY <1>1, <1>2 DEF IInv, WorkerAgrees, FlagsAgree, CancelWins, Traversing
<1>7. RunningAgrees'
  BY <1>1, <1>2, <1>3 DEF IInv, RunningAgrees, OnItsWay, Traversing
<1>8. ExportsAgree'
  BY <1>1, <1>2, <1>3 DEF IInv, ExportsAgree, CutOff, ForRun
<1>9. MoveAsAsked
  BY <1>1 DEF MoveAsAsked
<1>. QED  BY <1>4, <1>5, <1>6, <1>7, <1>8, <1>9 DEF IInv

LEMMA DeathKeepsInv ==
  ASSUME IInv, Exit \/ Crash
  PROVE  IInv' /\ MoveAsAsked
<1>1. /\ UNCHANGED <<schedule, operation, run>>
      /\ process # "down" /\ process' = "down"
      /\ worker' = Idle
      /\ worker = Idle \/ crashes' > 0
      /\ crashes' \in Nat /\ crashes' >= crashes /\ stops' \in Nat
  BY DEF Exit, Crash, Stopping, IInv, TypeOK, WorkerAgrees
<1>2. Idle \in WorkerRow /\ Idle.at = "idle" /\ Idle.op = None /\ Idle.run = None
  BY BoundsAssumption DEF Idle, WorkerRow, Places
<1>3. TypeOK'
  BY <1>1, <1>2 DEF IInv, TypeOK
<1>4. OperationsAgree' /\ FlagsAgree' /\ CancelWins' /\ RunningAgrees'
  BY <1>1 DEF IInv, OperationsAgree, FlagsAgree, CancelWins, RunningAgrees
<1>5. WorkerAgrees'
  BY <1>1, <1>2 DEF WorkerAgrees, Traversing
<1>6. ExportsAgree'
  <2> SUFFICES ASSUME NEW s \in Scans, run[s].state \in Results, ~run[s].exported
               PROVE  crashes' > 0 /\ \E o \in Scans \cup Controls : CutOff(o, s)'
    BY <1>1 DEF ExportsAgree
  <2>1. CASE worker.run = s /\ worker.at = "export"
    <3>1. /\ worker.op \in Scans \cup Controls /\ operation[worker.op].state = "running"
          /\ ForRun(worker.op, s)
      BY <2>1 DEF IInv, WorkerAgrees
    <3>2. crashes' > 0
      BY <1>1, <1>2, <2>1
    <3>. QED  BY <1>1, <3>1, <3>2 DEF CutOff, ForRun
  <2>2. CASE crashes > 0 /\ \E o \in Scans \cup Controls : CutOff(o, s)
    <3>1. crashes' > 0
      BY <1>1, <2>2 DEF IInv, TypeOK
    <3>. QED  BY <1>1, <2>2, <3>1 DEF CutOff, ForRun
  <2>. QED  BY <2>1, <2>2 DEF IInv, ExportsAgree
<1>7. MoveAsAsked
  BY <1>1 DEF MoveAsAsked
<1>. QED  BY <1>3, <1>4, <1>5, <1>6, <1>7 DEF IInv

LEMMA RestartKeepsInv ==
  ASSUME IInv, Restart
  PROVE  IInv' /\ MoveAsAsked
<1>1. /\ worker = Idle /\ worker' = Idle /\ process = "down" /\ process' = "up"
      /\ UNCHANGED <<schedule, crashes, stops>>
  BY DEF IInv, WorkerAgrees, Restart
<1>2. Idle.at = "idle" /\ Idle.op = None /\ Idle.run = None
  BY DEF Idle
<1>3. /\ operation' \in [Scans \cup Controls -> OperationRow]
      /\ \A o \in Scans \cup Controls :
           /\ operation'[o].state = IF operation[o].state = "running" THEN "failed" ELSE operation[o].state
           /\ operation'[o].kind = operation[o].kind /\ operation'[o].target = operation[o].target
  BY DEF Restart, IInv, TypeOK, OperationRow, WorkStates
<1>4. \A s \in Scans : LET row == IF run[s].state = "running" THEN [run[s] EXCEPT !.state = "failed"]
                                                              ELSE run[s] IN
        /\ row \in RunRow
        /\ row.state = IF run[s].state = "running" THEN "failed" ELSE run[s].state
        /\ row.pause = run[s].pause /\ row.cancel = run[s].cancel /\ row.exported = run[s].exported
  <2> SUFFICES ASSUME NEW s \in Scans
               PROVE  LET row == IF run[s].state = "running" THEN [run[s] EXCEPT !.state = "failed"]
                                                             ELSE run[s] IN
        /\ row \in RunRow
        /\ row.state = IF run[s].state = "running" THEN "failed" ELSE run[s].state
        /\ row.pause = run[s].pause /\ row.cancel = run[s].cancel /\ row.exported = run[s].exported
    OBVIOUS
  <2>1. run[s] \in RunRow /\ "failed" \in RunStates
    BY DEF IInv, TypeOK, RunStates, Terminal
  <2>. QED  BY <2>1, RowFields
<1>5. /\ run' \in [Scans -> RunRow]
      /\ \A s \in Scans :
           /\ run'[s].state = IF run[s].state = "running" THEN "failed" ELSE run[s].state
           /\ run'[s].pause = run[s].pause /\ run'[s].cancel = run[s].cancel
           /\ run'[s].exported = run[s].exported
  BY <1>4 DEF Restart
<1>6. TypeOK'
  BY <1>1, <1>3, <1>5 DEF IInv, TypeOK
<1>7. OperationsAgree'
  BY <1>3, <1>5 DEF IInv, OperationsAgree
<1>8. WorkerAgrees'
  BY <1>1, <1>2 DEF WorkerAgrees, Traversing
<1>9. FlagsAgree' /\ CancelWins' /\ RunningAgrees'
  BY <1>5 DEF IInv, FlagsAgree, CancelWins, RunningAgrees
<1>10. ExportsAgree'
  BY <1>1, <1>2, <1>3, <1>5 DEF IInv, ExportsAgree, CutOff, ForRun, Results
<1>11. MoveAsAsked
  BY <1>5 DEF MoveAsAsked, Terminal
<1>. QED  BY <1>6, <1>7, <1>8, <1>9, <1>10, <1>11 DEF IInv

-----------------------------------------------------------------------------
(***************************************************************************)
(* The steps of the traversal and of the control operations are among the  *)
(* kinds above.                                                            *)
(***************************************************************************)

LEMMA StartDiscoveryKeepsInv ==
  ASSUME IInv, NEW n \in 0 .. MaxSources, StartDiscovery(n)
  PROVE  IInv' /\ MoveAsAsked
<1>1. worker.op \in Scans
  BY DEF StartDiscovery, At, IInv, WorkerAgrees, OperationsAgree
<1>. QED  BY <1>1, DiscoverKeepsInv DEF StartDiscovery, procVars

LEMMA ApplyControlKeepsInv ==
  ASSUME IInv, NEW n \in 0 .. MaxSources, ApplyControl(n)
  PROVE  IInv' /\ MoveAsAsked
<1> DEFINE s == operation[worker.op].target
<1>1. /\ At("claimed") /\ operation[worker.op].kind # "scan"
      /\ UNCHANGED <<schedule, operation, process, crashes, stops>>
  BY DEF ApplyControl, procVars
<1>2. /\ worker.op \in Controls
      /\ s \in Scans
  BY <1>1, ControlInHand
<1>3. run[s].pause \in BOOLEAN /\ run[s].cancel \in BOOLEAN
  BY <1>2 DEF IInv, TypeOK, RunRow
<1>4. CASE run[s].state \in Terminal
  <2>1. run' = run /\ Done("returned")
    BY <1>4 DEF ApplyControl
  <2>. QED  BY <1>1, <1>4, <2>1, SettleKeepsInv DEF Settles
<1>5. CASE run[s].state \notin Terminal /\ run[s].cancel
  <2>1. run' = [run EXCEPT ![s].state = "cancelled"] /\ Done("returned")
    BY <1>5 DEF ApplyControl
  <2>. QED  BY <1>1, <1>5, <2>1, SettleKeepsInv DEF Settles
<1>6. CASE run[s].state \notin Terminal /\ ~run[s].cancel /\ run[s].pause
  <2>1. run' = [run EXCEPT ![s].state = "paused"] /\ Done("returned")
    BY <1>6 DEF ApplyControl
  <2>. QED  BY <1>1, <1>6, <2>1, SettleKeepsInv DEF Settles
<1>7. CASE run[s].state \notin Terminal /\ ~run[s].cancel /\ ~run[s].pause
  <2>1. IF operation[worker.op].kind = "resume_run" THEN Discover(s, n)
                                                    ELSE run' = run /\ Done("returned")
    BY <1>7 DEF ApplyControl
  <2>2. CASE operation[worker.op].kind = "resume_run"
    BY <1>1, <1>2, <1>7, <2>1, <2>2, DiscoverKeepsInv DEF ForRun
  <2>3. CASE operation[worker.op].kind # "resume_run"
    BY <1>1, <2>1, <2>3, SettleKeepsInv DEF Settles
  <2>. QED  BY <2>2, <2>3
<1>. QED  BY <1>3, <1>4, <1>5, <1>6, <1>7

\* The rows a traversal leaves behind.
LEMMA LeavingRows ==
  ASSUME NEW r \in RunRow
  PROVE  /\ PausedByStop(r) \in RunRow /\ PausedByStop(r).state = "paused"
         /\ PausedByStop(r).pause /\ PausedByStop(r).cancel = r.cancel
         /\ Paused(r) \in RunRow /\ Paused(r).state = "paused"
         /\ Paused(r).pause = r.pause /\ Paused(r).cancel = r.cancel
         /\ Cancelled(r) \in RunRow /\ Cancelled(r).state = "cancelled" /\ Cancelled(r).cancel = r.cancel
<1>1. "paused" \in RunStates /\ "cancelled" \in RunStates
  BY DEF RunStates, Terminal
<1>2. Paused(r) \in RunRow /\ Cancelled(r) \in RunRow
  BY <1>1, RowFields DEF Paused, Cancelled
<1>3. PausedByStop(r) \in RunRow /\ PausedByStop(r).state = "paused"
      /\ PausedByStop(r).pause /\ PausedByStop(r).cancel = r.cancel
  BY <1>1 DEF PausedByStop, RunRow
<1>. QED  BY <1>1, <1>2, <1>3, RowFields DEF Paused, Cancelled

LEMMA RefuseEmptyKeepsInv ==
  ASSUME IInv, RefuseEmpty
  PROVE  IInv' /\ MoveAsAsked
<1> DEFINE row == [run[worker.run] EXCEPT !.state = "failed"]
<1>1. /\ worker.at = "empty" /\ process # "down" /\ worker.run \in Scans
      /\ Done("threw") /\ UNCHANGED <<schedule, operation, process, crashes, stops>>
      /\ run' = [run EXCEPT ![worker.run] = row]
  BY DEF RefuseEmpty, At, procVars, IInv, WorkerAgrees, Traversing
<1>2. run[worker.run] \in RunRow /\ "failed" \in RunStates
  BY <1>1 DEF IInv, TypeOK, RunStates, Terminal
<1>3. row \in RunRow /\ row.state = "failed" /\ row.cancel = run[worker.run].cancel
  BY <1>2, RowFields
<1> HIDE DEF row
<1>. QED  BY <1>1, <1>3, LeaveKeepsInv

LEMMA BeforeSourceKeepsInv ==
  ASSUME IInv, BeforeSource
  PROVE  IInv' /\ MoveAsAsked
<1> DEFINE r == run[worker.run]
<1>1. /\ worker.at = "top" /\ process # "down" /\ worker.run \in Scans
      /\ UNCHANGED <<schedule, operation, process, crashes, stops>>
  BY DEF BeforeSource, At, procVars, IInv, WorkerAgrees, Traversing
<1>2. r \in RunRow
  BY <1>1 DEF IInv, TypeOK
<1>3. CASE Stopping
  <2>1. run' = [run EXCEPT ![worker.run] = PausedByStop(r)] /\ Done("returned")
    BY <1>3 DEF BeforeSource
  <2>. QED  BY <1>1, <1>2, <2>1, LeavingRows, LeaveKeepsInv
<1>4. CASE ~Stopping /\ r.cancel
  <2>1. run' = [run EXCEPT ![worker.run] = Cancelled(r)] /\ Done("returned")
    BY <1>4 DEF BeforeSource
  <2>. QED  BY <1>1, <1>2, <2>1, LeavingRows, LeaveKeepsInv
<1>5. CASE ~Stopping /\ ~r.cancel /\ r.pause
  <2>1. run' = [run EXCEPT ![worker.run] = Paused(r)] /\ Done("returned")
    BY <1>5 DEF BeforeSource
  <2>. QED  BY <1>1, <1>2, <1>5, <2>1, LeavingRows, LeaveKeepsInv
<1>6. CASE ~Stopping /\ ~r.cancel /\ ~r.pause
  <2>1. run' = run /\ Done("page")
    BY <1>6 DEF BeforeSource
  <2>2. worker.left > 0
    BY <1>1 DEF IInv, WorkerAgrees
  <2>3. /\ worker' \in WorkerRow /\ worker'.op = worker.op /\ worker'.run = worker.run
        /\ worker'.at = "page" /\ worker'.left = worker.left
    BY <2>1, DoneEffect DEF IInv, Places
  <2>. QED  BY <1>1, <2>1, <2>2, <2>3, AdvanceKeepsInv
<1>. QED  BY <1>3, <1>4, <1>5, <1>6

LEMMA PageEndsKeepsInv ==
  ASSUME IInv, NEW good \in BOOLEAN, PageEnds(good)
  PROVE  IInv' /\ MoveAsAsked
<1>1. /\ worker.at = "page" /\ process # "down" /\ worker.left > 0
      /\ UNCHANGED <<schedule, operation, run, process, crashes, stops>>
  BY DEF PageEnds, At, procVars, IInv, WorkerAgrees
<1>2. /\ worker' \in WorkerRow /\ worker'.op = worker.op /\ worker'.run = worker.run
      /\ worker'.at = "after" /\ worker'.left = worker.left
  <2>1. worker \in WorkerRow /\ worker.ok \in BOOLEAN /\ worker.bad \in BOOLEAN
    BY DEF IInv, TypeOK, WorkerRow
  <2>2. (worker.ok \/ good) \in BOOLEAN /\ (worker.bad \/ ~good) \in BOOLEAN
    OBVIOUS
  <2>3. worker' = [worker EXCEPT !.at = "after", !.ok = (worker.ok \/ good), !.bad = (worker.bad \/ ~good)]
    BY DEF PageEnds
  <2>. QED  BY <2>1, <2>2, <2>3 DEF WorkerRow, Places
<1>. QED  BY <1>1, <1>2, AdvanceKeepsInv

LEMMA AfterSourceKeepsInv ==
  ASSUME IInv, AfterSource
  PROVE  IInv' /\ MoveAsAsked
<1> DEFINE r == run[worker.run]
<1>1. /\ worker.at = "after" /\ process # "down" /\ worker.run \in Scans
      /\ UNCHANGED <<schedule, operation, process, crashes, stops>>
  BY DEF AfterSource, At, procVars, IInv, WorkerAgrees, Traversing
<1>2. r \in RunRow
  BY <1>1 DEF IInv, TypeOK
<1>3. CASE r.cancel
  <2>1. run' = [run EXCEPT ![worker.run] = Cancelled(r)] /\ Done("returned")
    BY <1>3 DEF AfterSource
  <2>. QED  BY <1>1, <1>2, <2>1, LeavingRows, LeaveKeepsInv
<1>4. CASE ~r.cancel /\ r.pause
  <2>1. run' = [run EXCEPT ![worker.run] = Paused(r)] /\ Done("returned")
    BY <1>4 DEF AfterSource
  <2>. QED  BY <1>1, <1>2, <1>4, <2>1, LeavingRows, LeaveKeepsInv
<1>5. CASE ~r.cancel /\ ~r.pause /\ Stopping
  <2>1. run' = [run EXCEPT ![worker.run] = PausedByStop(r)] /\ Done("returned")
    BY <1>5 DEF AfterSource
  <2>. QED  BY <1>1, <1>2, <2>1, LeavingRows, LeaveKeepsInv
<1>6. CASE ~r.cancel /\ ~r.pause /\ ~Stopping
  <2>1. /\ run' = run
        /\ worker' = [worker EXCEPT !.left = @ - 1, !.at = IF worker.left = 1 THEN "final" ELSE "top"]
    BY <1>6 DEF AfterSource
  <2>2. worker.left > 0 /\ worker.left \in 0 .. MaxSources
    BY <1>1 DEF IInv, WorkerAgrees, TypeOK, WorkerRow
  <2>3. /\ worker' \in WorkerRow /\ worker'.op = worker.op /\ worker'.run = worker.run
        /\ worker'.at = IF worker.left = 1 THEN "final" ELSE "top"
        /\ worker'.left = worker.left - 1
    <3>1. worker.left - 1 \in 0 .. MaxSources
      BY <2>2, BoundsAssumption
    <3>2. worker \in WorkerRow
      BY DEF IInv, TypeOK
    <3>. QED  BY <2>1, <3>1, <3>2 DEF WorkerRow, Places
  <2>4. worker'.at # "final" => worker'.left > 0
    BY <2>2, <2>3, BoundsAssumption
  <2>. QED  BY <1>1, <1>6, <2>1, <2>3, <2>4, AdvanceKeepsInv
<1>. QED  BY <1>3, <1>4, <1>5, <1>6

LEMMA NextKeepsInv == IInv /\ [Next]_vars => IInv' /\ MoveAsAsked
<1> SUFFICES ASSUME IInv, [Next]_vars
             PROVE  IInv' /\ MoveAsAsked
  OBVIOUS
<1>1. ASSUME NEW q \in Searches, NEW v \in {"off", "waiting"}, SetSchedule(q, v)
      PROVE  IInv' /\ MoveAsAsked
  BY <1>1, QuietKeepsInv DEF SetSchedule, procVars, IInv, TypeOK
<1>2. ASSUME NEW s \in Scans, NEW q \in Searches, StartScan(s, q)
      PROVE  IInv' /\ MoveAsAsked
  BY <1>2, QueueScanKeepsInv DEF StartScan, procVars
<1>3. ASSUME NEW c \in Controls, NEW s \in Scans, PauseRun(c, s) \/ ResumeRun(c, s) \/ CancelRun(c, s)
      PROVE  IInv' /\ MoveAsAsked
  BY <1>3, ControlKeepsInv DEF PauseRun, ResumeRun, CancelRun
<1>4. ASSUME NEW s \in Scans, EnqueueTick(s)
      PROVE  IInv' /\ MoveAsAsked
  <2>1. worker.tick \in Searches \cup {None}
    BY DEF IInv, TypeOK, WorkerRow
  <2>. QED  BY <1>4, <2>1, QueueScanKeepsInv DEF EnqueueTick, At, procVars
<1>5. ASSUME NEW q \in Searches, BecomeDue(q)
      PROVE  IInv' /\ MoveAsAsked
  BY <1>5, QuietKeepsInv DEF BecomeDue, procVars, IInv, TypeOK
<1>6. CASE Stop
  BY <1>6, QuietKeepsInv DEF Stop, IInv, TypeOK
<1>7. CASE UNCHANGED vars
  BY <1>7, QuietKeepsInv DEF vars, IInv, TypeOK
<1>8. CASE Worker
  BY <1>4, <1>8, TickKeepsInv, ClaimKeepsInv, StartDiscoveryKeepsInv, ApplyControlKeepsInv,
     RefuseEmptyKeepsInv, BeforeSourceKeepsInv, PageEndsKeepsInv, AfterSourceKeepsInv,
     FinishRunKeepsInv, WriteExportKeepsInv, FinishOperationKeepsInv
     DEF Worker
<1>. QED  BY <1>1, <1>2, <1>3, <1>5, <1>6, <1>7, <1>8, DeathKeepsInv, RestartKeepsInv DEF Next

LEMMA Invariant == Spec => []IInv
<1>1. IInv /\ [Next]_vars => IInv'
  BY NextKeepsInv
<1>. QED  BY <1>1, InitInv, PTL DEF Spec

-----------------------------------------------------------------------------
\* Every variable keeps its type; the bounds on sources need where the worker is.
THEOREM TypeCorrect == Spec => []TypeOK
<1>1. IInv => TypeOK
  BY DEF IInv
<1>. QED  BY <1>1, Invariant, PTL

\* A running run always has somebody at work for it: the traversal in the worker's hand, or a
\* resumption that was queued with the very request that called the run running.
THEOREM NeverAbandoned == Spec => []RunningIsDriven
<1>1. IInv => RunningIsDriven
  <2> SUFFICES ASSUME IInv, process # "down", NEW s \in Scans, run[s].state = "running"
               PROVE  \E o \in Scans \cup Controls : Drives(o, s)
    BY DEF RunningIsDriven
  <2>1. CASE worker.run = s /\ worker.at \in Traversing
    BY <2>1 DEF IInv, WorkerAgrees, ForRun, Drives, Traversing
  <2>2. CASE \E o \in Controls : OnItsWay(o, s)
    BY <2>2 DEF IInv, WorkerAgrees, OnItsWay, Drives
  <2>. QED  BY <2>1, <2>2 DEF IInv, RunningAgrees
<1>. QED  BY <1>1, Invariant, PTL

\* An accepted cancellation and a result exclude each other: the last look at the flag and the
\* verdict have no await between them.
THEOREM CancelledHasNoResult == Spec => []CancelWins
<1>1. IInv => CancelWins
  BY DEF IInv
<1>. QED  BY <1>1, Invariant, PTL

\* A result without its export is in the worker's hand, or an operation of its run was cut off.
THEOREM ResultsAreExported == Spec => []ResultIsExported
<1>1. IInv => ResultIsExported
  <2> SUFFICES ASSUME IInv, NEW s \in Scans, run[s].state \in Results, ~run[s].exported
               PROVE  Failed(s) /\ (worker.run = s \/ crashes > 0)
    BY DEF ResultIsExported, Results
  <2>1. CASE worker.run = s /\ worker.at = "export"
    BY <2>1 DEF IInv, WorkerAgrees, ForRun, Failed
  <2>2. CASE crashes > 0 /\ \E o \in Scans \cup Controls : CutOff(o, s)
    BY <2>2 DEF CutOff, ForRun, Failed
  <2>. QED  BY <2>1, <2>2 DEF IInv, ExportsAgree
<1>. QED  BY <1>1, Invariant, PTL

\* Only the user's resumption takes a run out of its pause, and no operation handled late moves a
\* run that has ended, but for an export that cannot be written.
THEOREM OnlyAsAsked == Spec => RunMovesAsAsked
<1>1. IInv /\ [Next]_vars => MoveAsAsked
  BY NextKeepsInv
<1>2. IInv /\ [Next]_vars => [MoveAsAsked]_vars
  BY <1>1
<1>3. RunMovesAsAsked <=> [][MoveAsAsked]_vars
  BY PTL DEF RunMovesAsAsked, MoveAsAsked
<1>. QED  BY <1>2, <1>3, Invariant, PTL DEF Spec
===============================================================================
