------------------------- MODULE BrowserSessionsProofs -------------------------
(***************************************************************************)
(* Proofs about BrowserSessions for every number of sources and browsers.  *)
(***************************************************************************)
EXTENDS BrowserSessions, FiniteSetTheorems, TLAPS

\* The map leads from a source to a session of that source.
EntryOfSource ==
  \A src \in Sources : entry[src] # None =>
    session[entry[src]].source = src /\ session[entry[src]].context # "absent"

\* A Session object that no call has made yet has no timer, and no shutdown waits for it; the others
\* name their source.
Placed(s) ==
  IF session[s].context = "absent" THEN ~session[s].timer /\ s \notin snapshot
                                   ELSE session[s].source \in Sources

\* Until createSession returns, nobody has the page, nobody closes it, and the object is busy.
NotOpenYet(s) ==
  session[s].context \in {"absent", "launching", "loading", "failing"} =>
    /\ using[s] = {}
    /\ session[s].closing = "no"
    /\ session[s].context # "absent" => session[s].busy

\* The flag busy covers every use of the page.
UseIsBusy(s) ==
  /\ using[s] # {} => session[s].busy
  /\ \A use, other \in using[s] : use = other

\* A context that is being closed is not in use.
ClosingIsUnused(s) == probe # "late" /\ session[s].closing # "no" => using[s] = {}

\* A user's session that is being closed stays busy, so that its page is not handed out any more;
\* only closeBrowserSessions closes one that is not, behind the flag that refuses new work.
ClosingIsBusy(s) ==
  probe # "late" /\ session[s].owner = "user" /\ session[s].closing # "no" /\ ~session[s].busy
    => stop \in {"closing", "stopped"}
WorkRefused == stop # "running" /\ probe # "late" => shuttingDown

\* A frame leaves the timer alone, so the timer is armed while it is drawn.
FrameKeepsTimer(s) ==
  /\ stop \in {"running", "draining"} /\ \E src \in Sources : entry[src] = s
  /\ session[s].owner = "user" /\ session[s].context = "open" /\ "frame" \in using[s]
  => session[s].timer

SessionInv(s) ==
  /\ Placed(s) /\ NotOpenYet(s) /\ UseIsBusy(s)
  /\ ClosingIsUnused(s) /\ ClosingIsBusy(s) /\ FrameKeepsTimer(s)

\* The inductive invariant, next to TypeOK.
Safe == EntryOfSource /\ WorkRefused /\ IdleTimerArmed /\ \A s \in Sessions : SessionInv(s)
-----------------------------------------------------------------------------
\* The helpers yield rows.
LEMMA RowTypes ==
  ASSUME NEW row \in SessionRow
  PROVE  /\ SaveAndClose(row) \in SessionRow
         /\ Touch(row) \in SessionRow
         /\ [SaveAndClose(row) EXCEPT !.busy = TRUE, !.timer = FALSE, !.release = TRUE] \in SessionRow
BY DEF SaveAndClose, Touch, SessionRow, Closing

\* One field at a time, or the context with its timer.
LEMMA RowEdits ==
  ASSUME NEW row \in SessionRow
  PROVE  /\ \A c \in Contexts : /\ [row EXCEPT !.context = c] \in SessionRow
                               /\ [row EXCEPT !.context = c, !.timer = FALSE] \in SessionRow
         /\ \A b \in BOOLEAN : /\ [row EXCEPT !.busy = b] \in SessionRow
                              /\ [row EXCEPT !.timer = b] \in SessionRow
         /\ \A k \in Closing : [row EXCEPT !.closing = k] \in SessionRow
<1>1. ASSUME NEW c \in Contexts
      PROVE  /\ [row EXCEPT !.context = c] \in SessionRow
             /\ [row EXCEPT !.context = c, !.timer = FALSE] \in SessionRow
  BY DEF SessionRow
<1>2. ASSUME NEW b \in BOOLEAN
      PROVE  [row EXCEPT !.busy = b] \in SessionRow /\ [row EXCEPT !.timer = b] \in SessionRow
  BY DEF SessionRow
<1>3. ASSUME NEW k \in Closing PROVE [row EXCEPT !.closing = k] \in SessionRow
  BY DEF SessionRow
<1>. QED  BY <1>1, <1>2, <1>3

\* Deleting an entry leaves a map.
LEMMA FreedTypes ==
  ASSUME TypeOK, NEW s \in Sessions
  PROVE  /\ Freed(s) \in [Sources -> Sessions \cup {None}]
         /\ FreedIfOwn(s) \in [Sources -> Sessions \cup {None}]
BY DEF TypeOK, Freed, FreedIfOwn

\* Every variable keeps its type.
THEOREM TypeCorrect == Spec => []TypeOK
<1>1. Init => TypeOK
  <2>1. Absent \in SessionRow
    BY DEF Absent, SessionRow, Contexts, Closing
  <2>. QED  BY <2>1 DEF Init, TypeOK
<1>2. ASSUME TypeOK, [Next]_vars
      PROVE  TypeOK'
  <2> USE <1>2
  <2>1. ASSUME NEW s \in Sessions, NEW src \in Sources, NEW owner \in {"user", "agent"},
               Reserve(s, src, owner)
        PROVE  TypeOK'
    BY <2>1 DEF Reserve, TypeOK, SessionRow, Absent, Contexts, Closing, runtimeVars
  <2>2. ASSUME NEW s \in Sessions, Launch(s)
        PROVE  TypeOK'
    BY <2>2 DEF Launch, TypeOK, SessionRow, Contexts, runtimeVars
  <2>3. ASSUME NEW s \in Sessions, LaunchFails(s)
        PROVE  TypeOK'
    <3>1. session[s] \in SessionRow /\ "closed" \in Contexts
      BY DEF TypeOK, Contexts
    <3>2. session' \in [Sessions -> SessionRow]
      BY <2>3, <3>1, RowEdits DEF LaunchFails, TypeOK
    <3>. QED  BY <2>3, <3>2, FreedTypes DEF LaunchFails, TypeOK, runtimeVars
  <2>4. ASSUME NEW s \in Sessions, LoadFails(s)
        PROVE  TypeOK'
    BY <2>4 DEF LoadFails, TypeOK, SessionRow, Contexts, runtimeVars
  <2>5. ASSUME NEW s \in Sessions, FailureCloses(s)
        PROVE  TypeOK'
    <3>1. session[s] \in SessionRow /\ "closed" \in Contexts
      BY DEF TypeOK, Contexts
    <3>2. session' \in [Sessions -> SessionRow]
      BY <2>5, <3>1, RowEdits DEF FailureCloses, TypeOK
    <3>. QED  BY <2>5, <3>2, FreedTypes DEF FailureCloses, TypeOK, runtimeVars
  <2>6. ASSUME NEW s \in Sessions, Ready(s)
        PROVE  TypeOK'
    <3>1. [session[s] EXCEPT !.context = "open"] \in SessionRow
      BY DEF TypeOK, SessionRow, Contexts
    <3>2. session' \in [Sessions -> SessionRow]
      BY <2>6, <3>1, RowTypes DEF Ready, TypeOK
    <3>. QED  BY <2>6, <3>2 DEF Ready, TypeOK, Uses, runtimeVars
  <2>7. ASSUME NEW s \in Sessions, NEW use \in Uses, UserPageDone(s, use)
        PROVE  TypeOK'
    <3>1. [session[s] EXCEPT !.busy = FALSE] \in SessionRow
      BY DEF TypeOK, SessionRow
    <3>2. session' \in [Sessions -> SessionRow]
      BY <2>7, <3>1, RowTypes DEF UserPageDone, TypeOK
    <3>. QED  BY <2>7, <3>2 DEF UserPageDone, TypeOK, runtimeVars
  <2>8. ASSUME NEW s \in Sessions, AgentPageDone(s)
        PROVE  TypeOK'
    <3>1. SaveAndClose(session[s]) \in SessionRow
      BY RowTypes DEF TypeOK
    <3>2. [SaveAndClose(session[s]) EXCEPT !.release = TRUE] \in SessionRow
      BY <3>1 DEF SessionRow
    <3>. QED  BY <2>8, <3>2 DEF AgentPageDone, TypeOK, runtimeVars
  <2>9. ASSUME NEW s \in Sessions, SaveEnds(s)
        PROVE  TypeOK'
    BY <2>9 DEF SaveEnds, TypeOK, SessionRow, Closing, runtimeVars
  <2>10. ASSUME NEW s \in Sessions, ContextCloses(s)
        PROVE  TypeOK'
    <3>1. [session[s] EXCEPT !.context = "closed", !.timer = FALSE] \in SessionRow
      BY RowEdits DEF TypeOK, Contexts
    <3>2. session' \in [Sessions -> SessionRow]
      BY <2>10, <3>1 DEF ContextCloses, TypeOK
    <3>. QED  BY <2>10, <3>2, FreedTypes DEF ContextCloses, TypeOK, runtimeVars
  <2>11. ASSUME NEW s \in Sessions, CloseEnds(s)
        PROVE  TypeOK'
    <3>1. session[s] \in SessionRow /\ "done" \in Closing
      BY DEF TypeOK, Closing
    <3>2. session' \in [Sessions -> SessionRow]
      BY <2>11, <3>1, RowEdits DEF CloseEnds, TypeOK
    <3>. QED  BY <2>11, <3>2, FreedTypes DEF CloseEnds, TypeOK, runtimeVars
  <2>12. ASSUME NEW s \in Sessions, BrowserDies(s)
        PROVE  TypeOK'
    <3>1. [session[s] EXCEPT !.context = "closed", !.timer = FALSE] \in SessionRow
      BY RowEdits DEF TypeOK, Contexts
    <3>2. session' \in [Sessions -> SessionRow]
      BY <2>12, <3>1 DEF BrowserDies, TypeOK
    <3>. QED  BY <2>12, <3>2, FreedTypes DEF BrowserDies, TypeOK, runtimeVars
  <2>13. ASSUME NEW s \in Sessions, TimerFires(s)
        PROVE  TypeOK'
    <3>1. [session EXCEPT ![s].timer = FALSE] \in [Sessions -> SessionRow]
      BY RowEdits DEF TypeOK
    <3>2. \A t \in Sessions : ClosedBy(t) \in SessionRow
      BY RowTypes DEF TypeOK, ClosedBy
    <3>. QED  BY <2>13, <3>1, <3>2 DEF TimerFires, TypeOK, runtimeVars
  <2>14. ASSUME NEW s \in Sessions, Join(s)
        PROVE  TypeOK'
    BY <2>14, RowTypes DEF Join, TypeOK, runtimeVars
  <2>15. ASSUME NEW src \in Sources, OpenAgain(src)
        PROVE  TypeOK'
    <3>1. entry[src] \in Sessions
      BY <2>15 DEF OpenAgain, TypeOK
    <3>. QED  BY <2>15, <3>1, RowTypes DEF OpenAgain, TypeOK, runtimeVars
  <2>16. ASSUME NEW src \in Sources, Finish(src)
        PROVE  TypeOK'
    <3>1. entry[src] \in Sessions
      BY <2>16 DEF Finish, TypeOK
    <3>2. ClosedBy(entry[src]) \in SessionRow
      BY <3>1, RowTypes DEF TypeOK, ClosedBy
    <3>. QED  BY <2>16, <3>1, <3>2 DEF Finish, TypeOK, runtimeVars
  <2>17. ASSUME NEW src \in Sources, NEW use \in {"action", "frame"}, UsePage(src, use)
        PROVE  TypeOK'
    <3>1. entry[src] \in Sessions
      BY <2>17 DEF UsePage, TypeOK
    <3>2. session' \in [Sessions -> SessionRow]
      BY <2>17, <3>1, RowTypes, RowEdits DEF UsePage, TypeOK
    <3>. QED  BY <2>17, <3>1, <3>2 DEF UsePage, TypeOK, Uses, runtimeVars
  <2>18. ASSUME ProbeAnswers
        PROVE  TypeOK'
    BY <2>18 DEF ProbeAnswers, TypeOK
  <2>19. ASSUME Stop
        PROVE  TypeOK'
    BY <2>19 DEF Stop, TypeOK
  <2>20. ASSUME CloseBrowserSessions
        PROVE  TypeOK'
    <3>1. \A s \in Sessions : [session[s] EXCEPT !.timer = FALSE] \in SessionRow
      BY DEF TypeOK, SessionRow
    <3>2. session' \in [Sessions -> SessionRow]
      BY <2>20, <3>1, RowTypes DEF CloseBrowserSessions, TypeOK
    <3>3. Live \subseteq Sessions
      BY DEF Live, TypeOK
    <3>. QED  BY <2>20, <3>2, <3>3 DEF CloseBrowserSessions, TypeOK
  <2>21. ASSUME Stopped
        PROVE  TypeOK'
    BY <2>21 DEF Stopped, TypeOK
  <2>. QED
    BY <2>1, <2>2, <2>3, <2>4, <2>5, <2>6, <2>7, <2>8, <2>9, <2>10, <2>11, <2>12,
       <2>13, <2>14, <2>15, <2>16, <2>17, <2>18, <2>19, <2>20, <2>21
       DEF Next, Continue, vars, runtimeVars, TypeOK
<1>. QED  BY <1>1, <1>2, PTL DEF Spec
-----------------------------------------------------------------------------
\* What closing a session or letting its idle timer go does to one row: the timer of a user's
\* session that the map leads to never goes without the session being closed.
ClosedOrUntimed(r) ==
  \/ session'[r] = session[r]
  \/ MayClose(r) /\ (\E src \in Sources : entry[src] = r) /\ session'[r] = ClosedBy(r)
  \/ /\ ~session[r].busy
     /\ session[r].owner = "user" => \A src \in Sources : entry[src] # r
     /\ session'[r] = [session[r] EXCEPT !.timer = FALSE]

\* The idle timer of a session finds the session of its source and closes it, or goes.
LEMMA TimerUntimes ==
  ASSUME TypeOK, Safe, NEW s \in Sessions, TimerFires(s), NEW r \in Sessions
  PROVE  ClosedOrUntimed(r)
<1> DEFINE t == entry[session[s].source]
<1>1. CASE session[s].busy
  BY <1>1 DEF TimerFires, ClosedOrUntimed
<1>2. CASE ~session[s].busy /\ t # None /\ MayClose(t) /\ r = t
  <2>1. ClosedBy(t) = session'[t]
    BY <1>2 DEF TimerFires, TypeOK
  <2>2. session[s].source \in Sources
    BY <1>2 DEF TimerFires, Safe, SessionInv, Placed
  <2>. QED  BY <1>2, <2>1, <2>2 DEF ClosedOrUntimed
<1>3. CASE ~session[s].busy /\ r = s /\ ~(t = s /\ MayClose(s))
  <2>1. session'[s] = [session[s] EXCEPT !.timer = FALSE]
    BY <1>3 DEF TimerFires, TypeOK
  <2>2. \A src \in Sources : entry[src] = s => t = s
    BY NoneAssumption DEF Safe, EntryOfSource
  <2>. QED  BY <1>3, <2>1, <2>2 DEF ClosedOrUntimed, MayClose
<1>4. CASE ~session[s].busy /\ r # s /\ ~(t # None /\ MayClose(t) /\ r = t)
  BY <1>4 DEF TimerFires, ClosedOrUntimed, TypeOK
<1>. QED  BY <1>1, <1>2, <1>3, <1>4, NoneAssumption

\* closeSession on the user's request.
LEMMA FinishCloses ==
  ASSUME TypeOK, NEW src \in Sources, Finish(src), NEW r \in Sessions
  PROVE  ClosedOrUntimed(r)
BY DEF Finish, ClosedOrUntimed, TypeOK

\* What the invariant needs to know of such a step.
RowKept(r) ==
  /\ session'[r].source = session[r].source /\ session'[r].context = session[r].context
  /\ session'[r].owner = session[r].owner
  /\ session[r].busy => session'[r] = session[r]
  /\ ~session'[r].busy => session'[r].closing = session[r].closing
  /\ session'[r].closing = session[r].closing \/ ~session[r].busy
  /\ session'[r].closing = session[r].closing \/ session[r].context # "absent"
  /\ session'[r].timer => session[r].timer
  /\ \/ session'[r].timer = session[r].timer
     \/ session'[r].busy
     \/ session[r].owner = "user" => \A src \in Sources : entry[src] # r

\* closeSession and the timers keep the invariant.
LEMMA ClosingKeepsSafe ==
  ASSUME TypeOK, TypeOK', Safe, UNCHANGED <<entry, using, runtimeVars>>,
         \A r \in Sessions : ClosedOrUntimed(r)
  PROVE  Safe'
<1> USE DEF runtimeVars
<1>1. \A r \in Sessions : RowKept(r)
  <2> SUFFICES ASSUME NEW r \in Sessions
               PROVE  RowKept(r)
    OBVIOUS
  <2>1. session[r] \in SessionRow
    BY DEF TypeOK
  <2>2. CASE session'[r] = session[r]
    BY <2>2 DEF RowKept
  <2>3. CASE MayClose(r) /\ (\E src \in Sources : entry[src] = r) /\ session'[r] = ClosedBy(r)
    <3>1. session[r].context # "absent"
      BY <2>3, NoneAssumption DEF Safe, EntryOfSource
    <3>2. SaveAndClose(session[r]) \in SessionRow /\ SaveAndClose(session[r]).source = session[r].source
          /\ SaveAndClose(session[r]).owner = session[r].owner
          /\ SaveAndClose(session[r]).context = session[r].context
      BY <2>1 DEF SaveAndClose, SessionRow, Closing
    <3>3. /\ session'[r].source = session[r].source /\ session'[r].context = session[r].context
          /\ session'[r].owner = session[r].owner
          /\ session'[r].busy /\ ~session'[r].timer
      BY <2>3, <3>2 DEF ClosedBy, SessionRow
    <3>. QED  BY <2>1, <2>3, <3>1, <3>3 DEF RowKept, MayClose
  <2>4. CASE /\ ~session[r].busy
             /\ session[r].owner = "user" => \A src \in Sources : entry[src] # r
             /\ session'[r] = [session[r] EXCEPT !.timer = FALSE]
    BY <2>1, <2>4 DEF RowKept, SessionRow
  <2>. QED  BY <2>2, <2>3, <2>4 DEF ClosedOrUntimed
<1>2. EntryOfSource' /\ WorkRefused'
  BY <1>1, NoneAssumption DEF RowKept, Safe, EntryOfSource, WorkRefused, TypeOK
<1>3. IdleTimerArmed'
  BY <1>1, NoneAssumption DEF RowKept, Safe, IdleTimerArmed, TypeOK
<1>4. \A r \in Sessions : NotOpenYet(r)' /\ UseIsBusy(r)'
  BY <1>1 DEF RowKept, Safe, SessionInv, NotOpenYet, UseIsBusy, TypeOK, SessionRow
<1>5. \A r \in Sessions : Placed(r)'
  BY <1>1 DEF RowKept, Safe, SessionInv, Placed, TypeOK, SessionRow
<1>6. \A r \in Sessions : ClosingIsUnused(r)' /\ ClosingIsBusy(r)'
  BY <1>1 DEF RowKept, Safe, SessionInv, UseIsBusy, ClosingIsUnused, ClosingIsBusy
<1>7. \A r \in Sessions : FrameKeepsTimer(r)'
  BY <1>1 DEF RowKept, Safe, SessionInv, UseIsBusy, FrameKeepsTimer
<1>. QED  BY <1>2, <1>3, <1>4, <1>5, <1>6, <1>7 DEF Safe, SessionInv

\* Every step of the five parts: one step per action, one below it per group of conjuncts.
LEMMA NextKeepsSafe ==
  TypeOK /\ TypeOK' /\ Safe /\ [Next]_vars => Safe'
<1> SUFFICES ASSUME TypeOK, TypeOK', Safe, [Next]_vars
             PROVE  Safe'
  OBVIOUS
<1>1. ASSUME NEW s \in Sessions, NEW src \in Sources, NEW owner \in {"user", "agent"},
             Reserve(s, src, owner)
      PROVE  Safe'
  <2> USE NoneAssumption DEF TypeOK
  <2>1. EntryOfSource' /\ WorkRefused'
    BY <1>1 DEF Reserve, Absent, runtimeVars, SessionRow, Safe, SessionInv, EntryOfSource,
       WorkRefused
  <2>2. IdleTimerArmed'
    BY <1>1 DEF Reserve, Absent, runtimeVars, SessionRow, Safe, SessionInv, IdleTimerArmed,
       EntryOfSource, FrameKeepsTimer, NotOpenYet, UseIsBusy
  <2>3. \A t \in Sessions : Placed(t)' /\ NotOpenYet(t)' /\ UseIsBusy(t)'
    BY <1>1 DEF Reserve, Absent, runtimeVars, SessionRow, Safe, SessionInv, Placed, NotOpenYet,
       UseIsBusy, ClosingIsUnused
  <2>4. \A t \in Sessions : ClosingIsUnused(t)' /\ ClosingIsBusy(t)'
    BY <1>1 DEF Reserve, Absent, runtimeVars, SessionRow, Safe, SessionInv, ClosingIsUnused,
       ClosingIsBusy, NotOpenYet, UseIsBusy, WorkRefused
  <2>5. \A t \in Sessions : FrameKeepsTimer(t)'
    BY <1>1 DEF Reserve, Absent, runtimeVars, SessionRow, Safe, SessionInv, FrameKeepsTimer,
       EntryOfSource, NotOpenYet, IdleTimerArmed
  <2>. QED  BY <2>1, <2>2, <2>3, <2>4, <2>5 DEF Safe, SessionInv
<1>2. ASSUME NEW s \in Sessions, Launch(s)
      PROVE  Safe'
  <2> USE NoneAssumption DEF TypeOK
  <2>1. EntryOfSource' /\ WorkRefused'
    BY <1>2 DEF Launch, runtimeVars, SessionRow, Safe, SessionInv, EntryOfSource, WorkRefused
  <2>2. IdleTimerArmed'
    BY <1>2 DEF Launch, runtimeVars, SessionRow, Safe, SessionInv, IdleTimerArmed, EntryOfSource,
       FrameKeepsTimer, NotOpenYet, UseIsBusy
  <2>3. \A t \in Sessions : Placed(t)' /\ NotOpenYet(t)' /\ UseIsBusy(t)'
    BY <1>2 DEF Launch, runtimeVars, SessionRow, Safe, SessionInv, Placed, NotOpenYet, UseIsBusy,
       ClosingIsUnused
  <2>4. \A t \in Sessions : ClosingIsUnused(t)' /\ ClosingIsBusy(t)'
    BY <1>2 DEF Launch, runtimeVars, SessionRow, Safe, SessionInv, ClosingIsUnused, ClosingIsBusy,
       NotOpenYet, UseIsBusy, WorkRefused
  <2>5. \A t \in Sessions : FrameKeepsTimer(t)'
    BY <1>2 DEF Launch, runtimeVars, SessionRow, Safe, SessionInv, FrameKeepsTimer, EntryOfSource,
       NotOpenYet, IdleTimerArmed
  <2>. QED  BY <2>1, <2>2, <2>3, <2>4, <2>5 DEF Safe, SessionInv
<1>3. ASSUME NEW s \in Sessions, LaunchFails(s)
      PROVE  Safe'
  <2> USE NoneAssumption DEF TypeOK
  <2>1. EntryOfSource' /\ WorkRefused'
    BY <1>3 DEF LaunchFails, Freed, runtimeVars, SessionRow, Safe, SessionInv, EntryOfSource,
       WorkRefused
  <2>2. IdleTimerArmed'
    BY <1>3 DEF LaunchFails, Freed, runtimeVars, SessionRow, Safe, SessionInv, IdleTimerArmed,
       EntryOfSource, FrameKeepsTimer, NotOpenYet, UseIsBusy
  <2>3. \A t \in Sessions : Placed(t)' /\ NotOpenYet(t)' /\ UseIsBusy(t)'
    BY <1>3 DEF LaunchFails, Freed, runtimeVars, SessionRow, Safe, SessionInv, Placed, NotOpenYet,
       UseIsBusy, ClosingIsUnused
  <2>4. \A t \in Sessions : ClosingIsUnused(t)' /\ ClosingIsBusy(t)'
    BY <1>3 DEF LaunchFails, Freed, runtimeVars, SessionRow, Safe, SessionInv, ClosingIsUnused,
       ClosingIsBusy, NotOpenYet, UseIsBusy, WorkRefused
  <2>5. \A t \in Sessions : FrameKeepsTimer(t)'
    BY <1>3 DEF LaunchFails, Freed, runtimeVars, SessionRow, Safe, SessionInv, FrameKeepsTimer,
       EntryOfSource, NotOpenYet, IdleTimerArmed
  <2>. QED  BY <2>1, <2>2, <2>3, <2>4, <2>5 DEF Safe, SessionInv
<1>4. ASSUME NEW s \in Sessions, LoadFails(s)
      PROVE  Safe'
  <2> USE NoneAssumption DEF TypeOK
  <2>1. EntryOfSource' /\ WorkRefused'
    BY <1>4 DEF LoadFails, runtimeVars, SessionRow, Safe, SessionInv, EntryOfSource, WorkRefused
  <2>2. IdleTimerArmed'
    BY <1>4 DEF LoadFails, runtimeVars, SessionRow, Safe, SessionInv, IdleTimerArmed,
       EntryOfSource, FrameKeepsTimer, NotOpenYet, UseIsBusy
  <2>3. \A t \in Sessions : Placed(t)' /\ NotOpenYet(t)' /\ UseIsBusy(t)'
    BY <1>4 DEF LoadFails, runtimeVars, SessionRow, Safe, SessionInv, Placed, NotOpenYet,
       UseIsBusy, ClosingIsUnused
  <2>4. \A t \in Sessions : ClosingIsUnused(t)' /\ ClosingIsBusy(t)'
    BY <1>4 DEF LoadFails, runtimeVars, SessionRow, Safe, SessionInv, ClosingIsUnused,
       ClosingIsBusy, NotOpenYet, UseIsBusy, WorkRefused
  <2>5. \A t \in Sessions : FrameKeepsTimer(t)'
    BY <1>4 DEF LoadFails, runtimeVars, SessionRow, Safe, SessionInv, FrameKeepsTimer,
       EntryOfSource, NotOpenYet, IdleTimerArmed
  <2>. QED  BY <2>1, <2>2, <2>3, <2>4, <2>5 DEF Safe, SessionInv
<1>5. ASSUME NEW s \in Sessions, FailureCloses(s)
      PROVE  Safe'
  <2> USE NoneAssumption DEF TypeOK
  <2>1. EntryOfSource' /\ WorkRefused'
    BY <1>5 DEF FailureCloses, Freed, runtimeVars, SessionRow, Safe, SessionInv, EntryOfSource,
       WorkRefused
  <2>2. IdleTimerArmed'
    BY <1>5 DEF FailureCloses, Freed, runtimeVars, SessionRow, Safe, SessionInv, IdleTimerArmed,
       EntryOfSource, FrameKeepsTimer, NotOpenYet, UseIsBusy
  <2>3. \A t \in Sessions : Placed(t)' /\ NotOpenYet(t)' /\ UseIsBusy(t)'
    BY <1>5 DEF FailureCloses, Freed, runtimeVars, SessionRow, Safe, SessionInv, Placed,
       NotOpenYet, UseIsBusy, ClosingIsUnused
  <2>4. \A t \in Sessions : ClosingIsUnused(t)' /\ ClosingIsBusy(t)'
    BY <1>5 DEF FailureCloses, Freed, runtimeVars, SessionRow, Safe, SessionInv, ClosingIsUnused,
       ClosingIsBusy, NotOpenYet, UseIsBusy, WorkRefused
  <2>5. \A t \in Sessions : FrameKeepsTimer(t)'
    BY <1>5 DEF FailureCloses, Freed, runtimeVars, SessionRow, Safe, SessionInv, FrameKeepsTimer,
       EntryOfSource, NotOpenYet, IdleTimerArmed
  <2>. QED  BY <2>1, <2>2, <2>3, <2>4, <2>5 DEF Safe, SessionInv
<1>6. ASSUME NEW s \in Sessions, Ready(s)
      PROVE  Safe'
  <2> USE NoneAssumption DEF TypeOK
  <2>1. EntryOfSource' /\ WorkRefused'
    BY <1>6 DEF Ready, Touch, runtimeVars, SessionRow, Safe, SessionInv, EntryOfSource,
       WorkRefused
  <2>2. IdleTimerArmed'
    BY <1>6 DEF Ready, Touch, runtimeVars, SessionRow, Safe, SessionInv, IdleTimerArmed,
       EntryOfSource, FrameKeepsTimer, NotOpenYet, UseIsBusy
  <2>3. \A t \in Sessions : Placed(t)' /\ NotOpenYet(t)' /\ UseIsBusy(t)'
    BY <1>6 DEF Ready, Touch, runtimeVars, SessionRow, Safe, SessionInv, Placed, NotOpenYet,
       UseIsBusy, ClosingIsUnused
  <2>4. \A t \in Sessions : ClosingIsUnused(t)' /\ ClosingIsBusy(t)'
    BY <1>6 DEF Ready, Touch, runtimeVars, SessionRow, Safe, SessionInv, ClosingIsUnused,
       ClosingIsBusy, NotOpenYet, UseIsBusy, WorkRefused
  <2>5. \A t \in Sessions : FrameKeepsTimer(t)'
    BY <1>6 DEF Ready, Touch, runtimeVars, SessionRow, Safe, SessionInv, FrameKeepsTimer,
       EntryOfSource, NotOpenYet, IdleTimerArmed
  <2>. QED  BY <2>1, <2>2, <2>3, <2>4, <2>5 DEF Safe, SessionInv
<1>7. ASSUME NEW s \in Sessions, NEW use \in Uses, UserPageDone(s, use)
      PROVE  Safe'
  <2> USE NoneAssumption DEF TypeOK
  <2>1. EntryOfSource' /\ WorkRefused'
    BY <1>7 DEF UserPageDone, Touch, runtimeVars, SessionRow, Safe, SessionInv, EntryOfSource,
       WorkRefused
  <2>2. IdleTimerArmed'
    BY <1>7 DEF UserPageDone, Touch, runtimeVars, SessionRow, Safe, SessionInv, IdleTimerArmed,
       EntryOfSource, FrameKeepsTimer, NotOpenYet, UseIsBusy
  <2>3. \A t \in Sessions : Placed(t)' /\ NotOpenYet(t)' /\ UseIsBusy(t)'
    BY <1>7 DEF UserPageDone, Touch, runtimeVars, SessionRow, Safe, SessionInv, Placed,
       NotOpenYet, UseIsBusy, ClosingIsUnused
  <2>4. \A t \in Sessions : ClosingIsUnused(t)' /\ ClosingIsBusy(t)'
    BY <1>7 DEF UserPageDone, Touch, runtimeVars, SessionRow, Safe, SessionInv, ClosingIsUnused,
       ClosingIsBusy, NotOpenYet, UseIsBusy, WorkRefused
  <2>5. \A t \in Sessions : FrameKeepsTimer(t)'
    BY <1>7 DEF UserPageDone, Touch, runtimeVars, SessionRow, Safe, SessionInv, FrameKeepsTimer,
       EntryOfSource, NotOpenYet, IdleTimerArmed
  <2>. QED  BY <2>1, <2>2, <2>3, <2>4, <2>5 DEF Safe, SessionInv
<1>8. ASSUME NEW s \in Sessions, AgentPageDone(s)
      PROVE  Safe'
  <2> USE NoneAssumption DEF TypeOK
  <2>1. EntryOfSource' /\ WorkRefused'
    BY <1>8 DEF AgentPageDone, SaveAndClose, runtimeVars, SessionRow, Safe, SessionInv,
       EntryOfSource, WorkRefused
  <2>2. IdleTimerArmed'
    BY <1>8 DEF AgentPageDone, SaveAndClose, runtimeVars, SessionRow, Safe, SessionInv,
       IdleTimerArmed, EntryOfSource, FrameKeepsTimer, NotOpenYet, UseIsBusy
  <2>3. \A t \in Sessions : Placed(t)' /\ NotOpenYet(t)' /\ UseIsBusy(t)'
    BY <1>8 DEF AgentPageDone, SaveAndClose, runtimeVars, SessionRow, Safe, SessionInv, Placed,
       NotOpenYet, UseIsBusy, ClosingIsUnused
  <2>4. \A t \in Sessions : ClosingIsUnused(t)' /\ ClosingIsBusy(t)'
    BY <1>8 DEF AgentPageDone, SaveAndClose, runtimeVars, SessionRow, Safe, SessionInv,
       ClosingIsUnused, ClosingIsBusy, NotOpenYet, UseIsBusy, WorkRefused
  <2>5. \A t \in Sessions : FrameKeepsTimer(t)'
    BY <1>8 DEF AgentPageDone, SaveAndClose, runtimeVars, SessionRow, Safe, SessionInv,
       FrameKeepsTimer, EntryOfSource, NotOpenYet, IdleTimerArmed
  <2>. QED  BY <2>1, <2>2, <2>3, <2>4, <2>5 DEF Safe, SessionInv
<1>9. ASSUME NEW s \in Sessions, SaveEnds(s)
      PROVE  Safe'
  <2> USE NoneAssumption DEF TypeOK
  <2>1. EntryOfSource' /\ WorkRefused'
    BY <1>9 DEF SaveEnds, runtimeVars, SessionRow, Safe, SessionInv, EntryOfSource, WorkRefused
  <2>2. IdleTimerArmed'
    BY <1>9 DEF SaveEnds, runtimeVars, SessionRow, Safe, SessionInv, IdleTimerArmed,
       EntryOfSource, FrameKeepsTimer, NotOpenYet, UseIsBusy
  <2>3. \A t \in Sessions : Placed(t)' /\ NotOpenYet(t)' /\ UseIsBusy(t)'
    BY <1>9 DEF SaveEnds, runtimeVars, SessionRow, Safe, SessionInv, Placed, NotOpenYet,
       UseIsBusy, ClosingIsUnused
  <2>4. \A t \in Sessions : ClosingIsUnused(t)' /\ ClosingIsBusy(t)'
    BY <1>9 DEF SaveEnds, runtimeVars, SessionRow, Safe, SessionInv, ClosingIsUnused,
       ClosingIsBusy, NotOpenYet, UseIsBusy, WorkRefused
  <2>5. \A t \in Sessions : FrameKeepsTimer(t)'
    BY <1>9 DEF SaveEnds, runtimeVars, SessionRow, Safe, SessionInv, FrameKeepsTimer,
       EntryOfSource, NotOpenYet, IdleTimerArmed
  <2>. QED  BY <2>1, <2>2, <2>3, <2>4, <2>5 DEF Safe, SessionInv
<1>10. ASSUME NEW s \in Sessions, ContextCloses(s)
      PROVE  Safe'
  <2> USE NoneAssumption DEF TypeOK
  <2>1. EntryOfSource' /\ WorkRefused'
    BY <1>10, SMTT(30) DEF ContextCloses, FreedIfOwn, Freed, runtimeVars, SessionRow, Safe, SessionInv,
       EntryOfSource, WorkRefused
  <2>2. IdleTimerArmed'
    BY <1>10, SMTT(30) DEF ContextCloses, FreedIfOwn, Freed, runtimeVars, SessionRow, Safe, SessionInv,
       IdleTimerArmed, EntryOfSource, FrameKeepsTimer, NotOpenYet, UseIsBusy
  <2>3. \A t \in Sessions : Placed(t)' /\ NotOpenYet(t)' /\ UseIsBusy(t)'
    BY <1>10 DEF ContextCloses, FreedIfOwn, Freed, runtimeVars, SessionRow, Safe, SessionInv,
       Placed, NotOpenYet, UseIsBusy, ClosingIsUnused
  <2>4. \A t \in Sessions : ClosingIsUnused(t)' /\ ClosingIsBusy(t)'
    BY <1>10 DEF ContextCloses, FreedIfOwn, Freed, runtimeVars, SessionRow, Safe, SessionInv,
       ClosingIsUnused, ClosingIsBusy, NotOpenYet, UseIsBusy, WorkRefused
  <2>5. \A t \in Sessions : FrameKeepsTimer(t)'
    BY <1>10 DEF ContextCloses, FreedIfOwn, Freed, runtimeVars, SessionRow, Safe, SessionInv,
       FrameKeepsTimer, EntryOfSource, NotOpenYet, IdleTimerArmed
  <2>. QED  BY <2>1, <2>2, <2>3, <2>4, <2>5 DEF Safe, SessionInv
<1>11. ASSUME NEW s \in Sessions, CloseEnds(s)
      PROVE  Safe'
  <2> USE NoneAssumption DEF TypeOK
  <2>1. EntryOfSource' /\ WorkRefused'
    BY <1>11 DEF CloseEnds, Freed, runtimeVars, SessionRow, Safe, SessionInv, EntryOfSource,
       WorkRefused
  <2>2. IdleTimerArmed'
    BY <1>11 DEF CloseEnds, Freed, runtimeVars, SessionRow, Safe, SessionInv, IdleTimerArmed,
       EntryOfSource, FrameKeepsTimer, NotOpenYet, UseIsBusy
  <2>3. \A t \in Sessions : Placed(t)' /\ NotOpenYet(t)' /\ UseIsBusy(t)'
    BY <1>11 DEF CloseEnds, Freed, runtimeVars, SessionRow, Safe, SessionInv, Placed, NotOpenYet,
       UseIsBusy, ClosingIsUnused
  <2>4. \A t \in Sessions : ClosingIsUnused(t)' /\ ClosingIsBusy(t)'
    BY <1>11 DEF CloseEnds, Freed, runtimeVars, SessionRow, Safe, SessionInv, ClosingIsUnused,
       ClosingIsBusy, NotOpenYet, UseIsBusy, WorkRefused
  <2>5. \A t \in Sessions : FrameKeepsTimer(t)'
    BY <1>11 DEF CloseEnds, Freed, runtimeVars, SessionRow, Safe, SessionInv, FrameKeepsTimer,
       EntryOfSource, NotOpenYet, IdleTimerArmed
  <2>. QED  BY <2>1, <2>2, <2>3, <2>4, <2>5 DEF Safe, SessionInv
<1>12. ASSUME NEW s \in Sessions, BrowserDies(s)
      PROVE  Safe'
  <2> USE NoneAssumption DEF TypeOK
  <2>1. EntryOfSource' /\ WorkRefused'
    BY <1>12, SMTT(30) DEF BrowserDies, FreedIfOwn, Freed, runtimeVars, SessionRow, Safe, SessionInv,
       EntryOfSource, WorkRefused
  <2>2. IdleTimerArmed'
    BY <1>12, SMTT(30) DEF BrowserDies, FreedIfOwn, Freed, runtimeVars, SessionRow, Safe, SessionInv,
       IdleTimerArmed, EntryOfSource, FrameKeepsTimer, NotOpenYet, UseIsBusy
  <2>3. \A t \in Sessions : Placed(t)' /\ NotOpenYet(t)' /\ UseIsBusy(t)'
    BY <1>12 DEF BrowserDies, FreedIfOwn, Freed, runtimeVars, SessionRow, Safe, SessionInv,
       Placed, NotOpenYet, UseIsBusy, ClosingIsUnused
  <2>4. \A t \in Sessions : ClosingIsUnused(t)' /\ ClosingIsBusy(t)'
    BY <1>12 DEF BrowserDies, FreedIfOwn, Freed, runtimeVars, SessionRow, Safe, SessionInv,
       ClosingIsUnused, ClosingIsBusy, NotOpenYet, UseIsBusy, WorkRefused
  <2>5. \A t \in Sessions : FrameKeepsTimer(t)'
    BY <1>12 DEF BrowserDies, FreedIfOwn, Freed, runtimeVars, SessionRow, Safe, SessionInv,
       FrameKeepsTimer, EntryOfSource, NotOpenYet, IdleTimerArmed
  <2>. QED  BY <2>1, <2>2, <2>3, <2>4, <2>5 DEF Safe, SessionInv
<1>13. ASSUME NEW s \in Sessions, TimerFires(s)
      PROVE  Safe'
  BY <1>13, TimerUntimes, ClosingKeepsSafe DEF TimerFires, runtimeVars
<1>14. ASSUME NEW s \in Sessions, Join(s)
      PROVE  Safe'
  <2> USE NoneAssumption DEF TypeOK
  <2>1. EntryOfSource' /\ WorkRefused'
    BY <1>14 DEF Join, Joinable, SaveAndClose, runtimeVars, SessionRow, Safe, SessionInv,
       EntryOfSource, WorkRefused
  <2>2. IdleTimerArmed'
    BY <1>14 DEF Join, Joinable, SaveAndClose, runtimeVars, SessionRow, Safe, SessionInv,
       IdleTimerArmed, EntryOfSource, FrameKeepsTimer, NotOpenYet, UseIsBusy
  <2>3. \A t \in Sessions : Placed(t)' /\ NotOpenYet(t)' /\ UseIsBusy(t)'
    <3>1. \A t \in Sessions :
            /\ session'[t].context = session[t].context /\ session'[t].busy = session[t].busy
            /\ session'[t].source = session[t].source
      BY <1>14 DEF Join, SaveAndClose, SessionRow
    <3>2. \A t \in Sessions : session'[t].timer => session[t].timer
      BY <1>14 DEF Join, SaveAndClose, SessionRow
    <3>3. \A t \in Sessions : session'[t].closing # session[t].closing =>
            session[t].closing = "no" /\ ~session[t].busy /\ session[t].context # "absent"
      BY <1>14 DEF Join, Joinable, SaveAndClose, SessionRow, Safe, SessionInv, Placed
    <3>4. using' = using
      BY <1>14 DEF Join, runtimeVars
    <3>5. \A t \in Sessions : Placed(t)'
      BY <1>14, <3>1, <3>2 DEF Join, runtimeVars, Safe, SessionInv, Placed
    <3>6. \A t \in Sessions : UseIsBusy(t)'
      BY <3>1, <3>4 DEF Safe, SessionInv, UseIsBusy
    <3>7. \A t \in Sessions : NotOpenYet(t)'
      BY <3>1, <3>3, <3>4 DEF Safe, SessionInv, NotOpenYet
    <3>. QED  BY <3>5, <3>6, <3>7
  <2>4. \A t \in Sessions : ClosingIsUnused(t)' /\ ClosingIsBusy(t)'
    BY <1>14 DEF Join, Joinable, SaveAndClose, runtimeVars, SessionRow, Safe, SessionInv,
       ClosingIsUnused, ClosingIsBusy, NotOpenYet, UseIsBusy, WorkRefused
  <2>5. \A t \in Sessions : FrameKeepsTimer(t)'
    BY <1>14 DEF Join, Joinable, SaveAndClose, runtimeVars, SessionRow, Safe, SessionInv,
       FrameKeepsTimer, EntryOfSource, NotOpenYet, IdleTimerArmed
  <2>. QED  BY <2>1, <2>2, <2>3, <2>4, <2>5 DEF Safe, SessionInv
<1>15. ASSUME NEW src \in Sources, OpenAgain(src)
      PROVE  Safe'
  <2> USE NoneAssumption DEF TypeOK
  <2>1. EntryOfSource' /\ WorkRefused'
    BY <1>15 DEF OpenAgain, Touch, runtimeVars, SessionRow, Safe, SessionInv, EntryOfSource,
       WorkRefused
  <2>2. IdleTimerArmed'
    BY <1>15 DEF OpenAgain, Touch, runtimeVars, SessionRow, Safe, SessionInv, IdleTimerArmed,
       EntryOfSource, FrameKeepsTimer, NotOpenYet, UseIsBusy
  <2>3. \A t \in Sessions : Placed(t)' /\ NotOpenYet(t)' /\ UseIsBusy(t)'
    BY <1>15 DEF OpenAgain, Touch, runtimeVars, EntryOfSource, SessionRow, Safe, SessionInv,
       Placed, NotOpenYet, UseIsBusy, ClosingIsUnused
  <2>4. \A t \in Sessions : ClosingIsUnused(t)' /\ ClosingIsBusy(t)'
    BY <1>15 DEF OpenAgain, Touch, runtimeVars, SessionRow, Safe, SessionInv, ClosingIsUnused,
       ClosingIsBusy, NotOpenYet, UseIsBusy, WorkRefused
  <2>5. \A t \in Sessions : FrameKeepsTimer(t)'
    BY <1>15 DEF OpenAgain, Touch, runtimeVars, SessionRow, Safe, SessionInv, FrameKeepsTimer,
       EntryOfSource, NotOpenYet, IdleTimerArmed
  <2>. QED  BY <2>1, <2>2, <2>3, <2>4, <2>5 DEF Safe, SessionInv
<1>16. ASSUME NEW src \in Sources, Finish(src)
      PROVE  Safe'
  BY <1>16, FinishCloses, ClosingKeepsSafe DEF Finish, runtimeVars
<1>17. ASSUME NEW src \in Sources, NEW use \in {"action", "frame"}, UsePage(src, use)
      PROVE  Safe'
  <2> USE NoneAssumption DEF TypeOK
  <2>1. EntryOfSource' /\ WorkRefused'
    BY <1>17 DEF UsePage, runtimeVars, SessionRow, Safe, SessionInv, EntryOfSource, WorkRefused
  <2>2. IdleTimerArmed'
    BY <1>17 DEF UsePage, runtimeVars, SessionRow, Safe, SessionInv, IdleTimerArmed,
       EntryOfSource, FrameKeepsTimer, NotOpenYet, UseIsBusy
  <2>3. \A t \in Sessions : Placed(t)' /\ NotOpenYet(t)' /\ UseIsBusy(t)'
    BY <1>17 DEF UsePage, runtimeVars, SessionRow, Safe, SessionInv, Placed, NotOpenYet,
       UseIsBusy, ClosingIsUnused
  <2>4. \A t \in Sessions : ClosingIsUnused(t)' /\ ClosingIsBusy(t)'
    BY <1>17 DEF UsePage, runtimeVars, SessionRow, Safe, SessionInv, ClosingIsUnused,
       ClosingIsBusy, NotOpenYet, UseIsBusy, WorkRefused
  <2>5. \A t \in Sessions : FrameKeepsTimer(t)'
    BY <1>17 DEF UsePage, runtimeVars, SessionRow, Safe, SessionInv, FrameKeepsTimer,
       EntryOfSource, NotOpenYet, IdleTimerArmed
  <2>. QED  BY <2>1, <2>2, <2>3, <2>4, <2>5 DEF Safe, SessionInv
<1>18. ASSUME ProbeAnswers
      PROVE  Safe'
  <2> USE NoneAssumption DEF TypeOK
  <2>1. EntryOfSource' /\ WorkRefused'
    BY <1>18 DEF ProbeAnswers, SessionRow, Safe, SessionInv, EntryOfSource, WorkRefused
  <2>2. IdleTimerArmed'
    BY <1>18 DEF ProbeAnswers, SessionRow, Safe, SessionInv, IdleTimerArmed, EntryOfSource,
       FrameKeepsTimer, NotOpenYet, UseIsBusy
  <2>3. \A t \in Sessions : Placed(t)' /\ NotOpenYet(t)' /\ UseIsBusy(t)'
    BY <1>18 DEF ProbeAnswers, SessionRow, Safe, SessionInv, Placed, NotOpenYet, UseIsBusy,
       ClosingIsUnused
  <2>4. \A t \in Sessions : ClosingIsUnused(t)' /\ ClosingIsBusy(t)'
    BY <1>18 DEF ProbeAnswers, SessionRow, Safe, SessionInv, ClosingIsUnused, ClosingIsBusy,
       NotOpenYet, UseIsBusy, WorkRefused
  <2>5. \A t \in Sessions : FrameKeepsTimer(t)'
    BY <1>18 DEF ProbeAnswers, SessionRow, Safe, SessionInv, FrameKeepsTimer, EntryOfSource,
       NotOpenYet, IdleTimerArmed
  <2>. QED  BY <2>1, <2>2, <2>3, <2>4, <2>5 DEF Safe, SessionInv
<1>19. ASSUME Stop
      PROVE  Safe'
  <2> USE NoneAssumption DEF TypeOK
  <2>1. EntryOfSource' /\ WorkRefused'
    BY <1>19 DEF Stop, SessionRow, Safe, SessionInv, EntryOfSource, WorkRefused
  <2>2. IdleTimerArmed'
    BY <1>19 DEF Stop, SessionRow, Safe, SessionInv, IdleTimerArmed, EntryOfSource,
       FrameKeepsTimer, NotOpenYet, UseIsBusy
  <2>3. \A t \in Sessions : Placed(t)' /\ NotOpenYet(t)' /\ UseIsBusy(t)'
    BY <1>19 DEF Stop, SessionRow, Safe, SessionInv, Placed, NotOpenYet, UseIsBusy,
       ClosingIsUnused
  <2>4. \A t \in Sessions : ClosingIsUnused(t)' /\ ClosingIsBusy(t)'
    BY <1>19 DEF Stop, SessionRow, Safe, SessionInv, ClosingIsUnused, ClosingIsBusy, NotOpenYet,
       UseIsBusy, WorkRefused
  <2>5. \A t \in Sessions : FrameKeepsTimer(t)'
    BY <1>19 DEF Stop, SessionRow, Safe, SessionInv, FrameKeepsTimer, EntryOfSource, NotOpenYet,
       IdleTimerArmed
  <2>. QED  BY <2>1, <2>2, <2>3, <2>4, <2>5 DEF Safe, SessionInv
<1>20. ASSUME CloseBrowserSessions
      PROVE  Safe'
  <2> USE NoneAssumption DEF TypeOK
  <2>1. EntryOfSource' /\ WorkRefused'
    BY <1>20, SMTT(30) DEF CloseBrowserSessions, Live, Joinable, SaveAndClose, SessionRow, Safe, SessionInv,
       EntryOfSource, WorkRefused
  <2>2. IdleTimerArmed'
    BY <1>20 DEF CloseBrowserSessions, Live, Joinable, SaveAndClose, SessionRow, Safe, SessionInv,
       IdleTimerArmed, EntryOfSource, FrameKeepsTimer, NotOpenYet, UseIsBusy
  <2>3. \A t \in Sessions : Placed(t)' /\ NotOpenYet(t)' /\ UseIsBusy(t)'
    <3>0. ASSUME NEW t \in Sessions
          PROVE  \/ session'[t] = session[t]
                 \/ session'[t] = [session[t] EXCEPT !.timer = FALSE]
                 \/ /\ t \in Live /\ ~session[t].busy /\ session[t].closing = "no"
                    /\ session'[t] = [session[t] EXCEPT !.timer = FALSE, !.closing = "saving"]
      <4>1. session[t] \in SessionRow
        OBVIOUS
      <4>2. CASE t \in Live /\ Joinable(t) /\ session[t].closing = "no"
        BY <1>20, <4>1, <4>2 DEF CloseBrowserSessions, Joinable, SaveAndClose, SessionRow
      <4>3. CASE ~(t \in Live /\ Joinable(t) /\ session[t].closing = "no")
        BY <1>20, <4>1, <4>3 DEF CloseBrowserSessions, SaveAndClose, SessionRow
      <4>. QED  BY <4>2, <4>3
    <3>1. \A t \in Sessions :
            /\ session'[t].context = session[t].context /\ session'[t].busy = session[t].busy
            /\ session'[t].source = session[t].source
      <4> SUFFICES ASSUME NEW t \in Sessions
                   PROVE  /\ session'[t].context = session[t].context
                          /\ session'[t].busy = session[t].busy
                          /\ session'[t].source = session[t].source
        OBVIOUS
      <4>1. session[t] \in SessionRow
        OBVIOUS
      <4>2. CASE session'[t] = session[t]
        BY <4>2
      <4>3. CASE session'[t] = [session[t] EXCEPT !.timer = FALSE]
        BY <4>1, <4>3 DEF SessionRow
      <4>4. CASE session'[t] = [session[t] EXCEPT !.timer = FALSE, !.closing = "saving"]
        BY <4>1, <4>4 DEF SessionRow
      <4>. QED  BY <3>0, <4>2, <4>3, <4>4
    <3>2. \A t \in Sessions : session'[t].timer => session[t].timer
      BY <3>0 DEF SessionRow
    <3>3. \A t \in Sessions : session'[t].closing # session[t].closing =>
            session[t].closing = "no" /\ ~session[t].busy /\ session[t].context # "absent"
      <4> SUFFICES ASSUME NEW t \in Sessions, session'[t].closing # session[t].closing
                   PROVE  session[t].closing = "no" /\ ~session[t].busy /\ session[t].context # "absent"
        OBVIOUS
      <4>1. session[t] \in SessionRow
        OBVIOUS
      <4>2. t \in Live /\ ~session[t].busy /\ session[t].closing = "no"
        BY <3>0, <4>1 DEF SessionRow
      <4>. QED  BY <4>2 DEF Live, Safe, EntryOfSource
    <3>4. using' = using
      BY <1>20 DEF CloseBrowserSessions, runtimeVars
    <3>5. \A t \in Sessions : Placed(t)'
      BY <1>20, <3>1, <3>2 DEF CloseBrowserSessions, Safe, SessionInv, Placed, Live, EntryOfSource
    <3>6. \A t \in Sessions : UseIsBusy(t)'
      BY <3>1, <3>4 DEF Safe, SessionInv, UseIsBusy
    <3>7. \A t \in Sessions : NotOpenYet(t)'
      BY <3>1, <3>3, <3>4 DEF Safe, SessionInv, NotOpenYet
    <3>. QED  BY <3>5, <3>6, <3>7
  <2>4. \A t \in Sessions : ClosingIsUnused(t)' /\ ClosingIsBusy(t)'
    BY <1>20 DEF CloseBrowserSessions, Live, Joinable, SaveAndClose, SessionRow, Safe, SessionInv,
       ClosingIsUnused, ClosingIsBusy, NotOpenYet, UseIsBusy, WorkRefused
  <2>5. \A t \in Sessions : FrameKeepsTimer(t)'
    BY <1>20 DEF CloseBrowserSessions, Live, Joinable, SaveAndClose, SessionRow, Safe, SessionInv,
       FrameKeepsTimer, EntryOfSource, NotOpenYet, IdleTimerArmed
  <2>. QED  BY <2>1, <2>2, <2>3, <2>4, <2>5 DEF Safe, SessionInv
<1>21. ASSUME Stopped
      PROVE  Safe'
  <2> USE NoneAssumption DEF TypeOK
  <2>1. EntryOfSource' /\ WorkRefused'
    BY <1>21 DEF Stopped, SessionRow, Safe, SessionInv, EntryOfSource, WorkRefused
  <2>2. IdleTimerArmed'
    BY <1>21 DEF Stopped, SessionRow, Safe, SessionInv, IdleTimerArmed, EntryOfSource,
       FrameKeepsTimer, NotOpenYet, UseIsBusy
  <2>3. \A t \in Sessions : Placed(t)' /\ NotOpenYet(t)' /\ UseIsBusy(t)'
    BY <1>21 DEF Stopped, SessionRow, Safe, SessionInv, Placed, NotOpenYet, UseIsBusy,
       ClosingIsUnused
  <2>4. \A t \in Sessions : ClosingIsUnused(t)' /\ ClosingIsBusy(t)'
    BY <1>21 DEF Stopped, SessionRow, Safe, SessionInv, ClosingIsUnused, ClosingIsBusy,
       NotOpenYet, UseIsBusy, WorkRefused
  <2>5. \A t \in Sessions : FrameKeepsTimer(t)'
    BY <1>21 DEF Stopped, SessionRow, Safe, SessionInv, FrameKeepsTimer, EntryOfSource,
       NotOpenYet, IdleTimerArmed
  <2>. QED  BY <2>1, <2>2, <2>3, <2>4, <2>5 DEF Safe, SessionInv
<1>22. CASE UNCHANGED vars
  BY <1>22 DEF vars, runtimeVars, Safe, EntryOfSource, WorkRefused, IdleTimerArmed, SessionInv, Placed,
             NotOpenYet, UseIsBusy, ClosingIsUnused, ClosingIsBusy, FrameKeepsTimer
<1>. QED
  BY <1>1, <1>2, <1>3, <1>4, <1>5, <1>6, <1>7, <1>8, <1>9, <1>10, <1>11, <1>12, <1>13, <1>14,
     <1>15, <1>16, <1>17, <1>18, <1>19, <1>20, <1>21, <1>22
     DEF Next, Continue

LEMMA InitSafe == Init => Safe
BY DEF Init, Safe, EntryOfSource, WorkRefused, IdleTimerArmed, SessionInv, Placed, NotOpenYet,
       UseIsBusy, ClosingIsUnused, ClosingIsBusy, FrameKeepsTimer, Absent

LEMMA AlwaysSafe == Spec => []Safe
BY InitSafe, NextKeepsSafe, TypeCorrect, PTL DEF Spec
-----------------------------------------------------------------------------
\* A page is handed to one function at a time, and no caller closes a context in use, however the
\* user, the viewer, the agent, the timers and a shutdown interleave at their awaits.
THEOREM OneUserOfAPage == Spec => []PageUsedByOne
<1>1. Safe => PageUsedByOne
  <2> SUFFICES ASSUME Safe, NEW s \in Sessions
               PROVE  /\ Cardinality(using[s]) <= 1
                      /\ probe # "late" /\ session[s].closing # "no" => using[s] = {}
    BY DEF PageUsedByOne
  <2>1. CASE using[s] = {}
    BY <2>1, FS_EmptySet
  <2>2. CASE using[s] # {}
    <3>1. PICK use \in using[s] : TRUE
      BY <2>2
    <3>2. using[s] = {use}
      BY <3>1 DEF Safe, SessionInv, UseIsBusy
    <3>3. Cardinality(using[s]) = 1
      BY <3>2, FS_Singleton
    <3>. QED  BY <2>2, <3>3 DEF Safe, SessionInv, ClosingIsUnused
  <2>. QED  BY <2>1, <2>2
<1>. QED  BY <1>1, AlwaysSafe, PTL

\* Whatever is drawn, done or interrupted, a free session of the user keeps its idle timer.
THEOREM TimerNeverLost == Spec => []IdleTimerArmed
BY AlwaysSafe, PTL DEF Safe

\* The promise session.closing keeps still or goes to its next stage.
NextClosing(s) ==
  \/ session'[s].closing = session[s].closing
  \/ session[s].closing = "no" /\ session'[s].closing = "saving"
  \/ session[s].closing = "saving" /\ session'[s].closing = "closing"
  \/ session[s].closing = "closing" /\ session'[s].closing = "done"

LEMMA ClosingMoves ==
  ASSUME TypeOK, NEW s \in Sessions, ClosedOrUntimed(s)
  PROVE  NextClosing(s)
<1>1. session[s] \in SessionRow
  BY DEF TypeOK
<1>2. CASE session'[s] = session[s]
  BY <1>2 DEF NextClosing
<1>3. CASE session'[s] = ClosedBy(s)
  BY <1>1, <1>3 DEF SessionRow, NextClosing, ClosedBy, SaveAndClose
<1>4. CASE session'[s] = [session[s] EXCEPT !.timer = FALSE]
  BY <1>1, <1>4 DEF SessionRow, NextClosing
<1>. QED  BY <1>2, <1>3, <1>4 DEF ClosedOrUntimed

\* The close of a session never starts again: saving, closing, done.
THEOREM ClosedOnce == Spec => ClosesOnce
<1> DEFINE Step == \A s \in Sessions : Rank[session[s].closing] <= Rank[session'[s].closing]
<1>1. TypeOK /\ Safe /\ [Next]_vars => Step
  <2> SUFFICES ASSUME TypeOK, Safe, [Next]_vars, NEW s \in Sessions
               PROVE  Rank[session[s].closing] <= Rank[session'[s].closing]
    OBVIOUS
  <2>1. session[s].closing \in Closing
    BY DEF TypeOK, SessionRow
  <2>2. NextClosing(s)
    <3> USE DEF TypeOK, SessionRow
    <3>1. ASSUME NEW t \in Sessions, NEW src \in Sources, NEW owner \in {"user", "agent"},
                 Reserve(t, src, owner)
          PROVE  session'[s].closing = session[s].closing
      BY <3>1 DEF Reserve, Absent, Safe, SessionInv, NotOpenYet
    <3>2. ASSUME NEW t \in Sessions, Continue(t)
          PROVE  NextClosing(s)
      <4>1. CASE Launch(t) \/ LaunchFails(t) \/ LoadFails(t) \/ FailureCloses(t)
        BY <4>1 DEF NextClosing, Launch, LaunchFails, LoadFails, FailureCloses
      <4>2. CASE Ready(t)
        BY <4>2 DEF NextClosing, Ready, Touch
      <4>3. ASSUME NEW use \in Uses, UserPageDone(t, use)
            PROVE  NextClosing(s)
        BY <4>3 DEF NextClosing, UserPageDone, Touch
      <4>4. CASE AgentPageDone(t)
        BY <4>4 DEF NextClosing, AgentPageDone, SaveAndClose
      <4>5. CASE SaveEnds(t)
        BY <4>5 DEF NextClosing, SaveEnds
      <4>6. CASE ContextCloses(t)
        BY <4>6 DEF NextClosing, ContextCloses
      <4>7. CASE CloseEnds(t)
        BY <4>7 DEF NextClosing, CloseEnds
      <4>. QED  BY <3>2, <4>1, <4>2, <4>3, <4>4, <4>5, <4>6, <4>7 DEF Continue
    <3>3. ASSUME NEW t \in Sessions, BrowserDies(t) \/ Join(t)
          PROVE  NextClosing(s)
      BY <3>3 DEF NextClosing, BrowserDies, Join, SaveAndClose
    <3>4. ASSUME NEW t \in Sessions, TimerFires(t)
          PROVE  NextClosing(s)
      BY <3>4, TimerUntimes, ClosingMoves
    <3>5. ASSUME NEW src \in Sources, Finish(src)
          PROVE  NextClosing(s)
      BY <3>5, FinishCloses, ClosingMoves
    <3>6. ASSUME NEW src \in Sources, OpenAgain(src)
          PROVE  NextClosing(s)
      BY <3>6 DEF NextClosing, OpenAgain, Touch
    <3>7. ASSUME NEW src \in Sources, NEW use \in {"action", "frame"}, UsePage(src, use)
          PROVE  NextClosing(s)
      BY <3>7 DEF NextClosing, UsePage
    <3>8. CASE CloseBrowserSessions
      BY <3>8 DEF NextClosing, CloseBrowserSessions, SaveAndClose
    <3>9. CASE ProbeAnswers \/ Stop \/ Stopped \/ UNCHANGED vars
      BY <3>9 DEF NextClosing, ProbeAnswers, Stop, Stopped, vars
    <3>. QED  BY <3>1, <3>2, <3>3, <3>4, <3>5, <3>6, <3>7, <3>8, <3>9 DEF Next, NextClosing
  <2>. QED  BY <2>1, <2>2 DEF Rank, Closing, NextClosing
<1>2. ClosesOnce <=> [][Step]_vars
  BY PTL DEF ClosesOnce
<1> HIDE DEF Step
<1>. QED  BY <1>1, <1>2, AlwaysSafe, TypeCorrect, PTL DEF Spec
===============================================================================
