---------------------------- MODULE BrowserSessions ----------------------------
(***************************************************************************)
(* The persistent browser of each source: one Chromium profile, reserved   *)
(* by a user or by the scanning agent through the map `sessions`.          *)
(*                                                                         *)
(* The functions of browser-sessions.ts run in one JavaScript thread and   *)
(* overlap at their awaits.  A session is one Session object, made by one  *)
(* call of createSession; a step is the code between two awaits.  The map  *)
(* is keyed by source, so several session objects of one source can be     *)
(* alive at once: the older ones in closures that have not finished.       *)
(***************************************************************************)
EXTENDS Naturals, FiniteSets

CONSTANTS
  Sources,   \* ids of source_configurations rows
  Sessions,  \* Session objects: bound on the browsers opened in a behaviour
  None       \* no session under a key of the map

ASSUME NoneAssumption == None \notin Sources \cup Sessions

VARIABLES
  entry,         \* the map sessions
  session,       \* the Session objects
  using,         \* page functions running on a session's page
  shuttingDown,  \* the flag that refuses new work
  stop,          \* progress of state.stop of the runtime
  snapshot,      \* sessions that closeBrowserSessions waits for
  probe          \* the start-up probe that calls resumeBrowserSessions

runtimeVars == <<shuttingDown, stop, snapshot, probe>>
vars == <<entry, session, using, shuttingDown, stop, snapshot, probe>>

\* A context is loading until createSession returns, failing while its catch block closes it.
Contexts   == {"absent", "launching", "loading", "open", "failing", "closed"}
\* Progress of the promise session.closing.
Closing    == {"no", "saving", "closing", "done"}
Uses       == {"goto", "action", "frame", "work"}
SessionRow == [source  : Sources \cup {None},
               owner   : {"user", "agent"},
               busy    : BOOLEAN,
               context : Contexts,
               timer   : BOOLEAN,      \* the idle timer is armed
               closing : Closing,
               release : BOOLEAN]      \* a caller deletes the map entry when closing is done
Absent == [source |-> None, owner |-> "user", busy |-> FALSE, context |-> "absent",
           timer |-> FALSE, closing |-> "no", release |-> FALSE]

Freed(s) == [entry EXCEPT ![session[s].source] = None]
\* The listener of 'close' deletes the entry only when it is its own session's.
FreedIfOwn(s) == IF entry[session[s].source] = s THEN Freed(s) ELSE entry

\* Mutant: the promise of an earlier call is not reused.
SaveAndCloseAgain(row) == [row EXCEPT !.closing = "saving"]
\* saveAndClose starts once; later callers wait for the same promise.
SaveAndClose(row) == IF row.closing = "no" THEN [row EXCEPT !.closing = "saving"] ELSE row

\* touch: only a user's session has a timer.
Touch(row) == [row EXCEPT !.timer = (row.owner = "user")]

\* The withSourcePage call of the worker, which runs one operation at a time.
AgentActive(s) ==
  /\ session[s].owner = "agent"
  /\ \/ session[s].context \in {"launching", "loading", "failing"}
     \/ using[s] # {}
     \/ session[s].release /\ session[s].closing # "done"
-----------------------------------------------------------------------------
Init ==
  /\ entry = [src \in Sources |-> None]
  /\ session = [s \in Sessions |-> Absent]
  /\ using = [s \in Sessions |-> {}]
  /\ shuttingDown = FALSE
  /\ stop = "running"
  /\ snapshot = {}
  /\ probe = "pending"
-----------------------------------------------------------------------------
(***************************************************************************)
(* createSession.                                                          *)
(***************************************************************************)

\* The worker stops taking sources in the instant that state.stop is called.
Reserve(s, src, owner) ==
  /\ ~shuttingDown
  /\ entry[src] = None
  /\ session[s].context = "absent"
  /\ owner = "agent" => stop = "running" /\ ~ \E t \in Sessions : AgentActive(t)
  /\ entry' = [entry EXCEPT ![src] = s]
  /\ session' = [session EXCEPT ![s] = [Absent EXCEPT !.source = src, !.owner = owner,
                                                      !.busy = TRUE, !.context = "launching"]]
  /\ UNCHANGED <<using, runtimeVars>>

Launch(s) ==
  /\ session[s].context = "launching"
  /\ session' = [session EXCEPT ![s].context = "loading"]
  /\ UNCHANGED <<entry, using, runtimeVars>>

\* Mutant: the catch block keeps the reservation.
LaunchFailsReserved(s) ==
  /\ session[s].context = "launching"
  /\ session' = [session EXCEPT ![s].context = "closed"]
  /\ UNCHANGED <<entry, using, runtimeVars>>

\* Egress validation or the launch throws: no context to close.  The object stays busy.
LaunchFails(s) ==
  /\ session[s].context = "launching"
  /\ session' = [session EXCEPT ![s].context = "closed"]
  /\ entry' = Freed(s)
  /\ UNCHANGED <<using, runtimeVars>>

\* The saved cookies are invalid, or Chromium dies before its listeners are registered.
LoadFails(s) ==
  /\ session[s].context = "loading"
  /\ session' = [session EXCEPT ![s].context = "failing"]
  /\ UNCHANGED <<entry, using, runtimeVars>>

FailureCloses(s) ==
  /\ session[s].context = "failing"
  /\ session' = [session EXCEPT ![s].context = "closed"]
  /\ entry' = Freed(s)
  /\ UNCHANGED <<using, runtimeVars>>

\* createSession returns: nothing that calls this module runs before its caller continues with
\* page.goto or with the agent's function.
Ready(s) ==
  /\ session[s].context = "loading"
  /\ session' = [session EXCEPT ![s] = Touch([session[s] EXCEPT !.context = "open"])]
  /\ using' = [using EXCEPT ![s] = {IF session[s].owner = "user" THEN "goto" ELSE "work"}]
  /\ UNCHANGED <<entry, runtimeVars>>
-----------------------------------------------------------------------------
(***************************************************************************)
(* The page and its users.                                                 *)
(***************************************************************************)

OpenAgain(src) ==
  /\ ~shuttingDown
  /\ entry[src] # None
  /\ LET s == entry[src] IN
       /\ session[s].owner = "user" /\ ~session[s].busy
       /\ session' = [session EXCEPT ![s] = Touch(@)]
  /\ UNCHANGED <<entry, using, runtimeVars>>

\* Mutant: the page is handed out without asking whether it is busy.
UsePageOfBusy(src, use) ==
  /\ ~shuttingDown
  /\ entry[src] # None
  /\ LET s == entry[src] IN
       /\ session[s].owner = "user" /\ session[s].context = "open"
       /\ session' = [session EXCEPT ![s].busy = TRUE]
       /\ using' = [using EXCEPT ![s] = @ \cup {use}]
  /\ UNCHANGED <<entry, runtimeVars>>

\* withUserPage: an action of the user, or a frame of the viewer (activity = false).
UsePage(src, use) ==
  /\ ~shuttingDown
  /\ entry[src] # None
  /\ LET s == entry[src] IN
       /\ session[s].owner = "user" /\ session[s].context = "open" /\ ~session[s].busy
       /\ session' = [session EXCEPT ![s].busy = TRUE]
       /\ using' = [using EXCEPT ![s] = @ \cup {use}]
  /\ UNCHANGED <<entry, runtimeVars>>

\* The finally blocks of openUserSession and withUserPage; a frame does not count as activity.
UserPageDone(s, use) ==
  /\ use \in using[s] /\ use # "work"
  /\ using' = [using EXCEPT ![s] = @ \ {use}]
  /\ LET row == [session[s] EXCEPT !.busy = FALSE] IN
       session' = [session EXCEPT ![s] = IF use = "frame" THEN row ELSE Touch(row)]
  /\ UNCHANGED <<entry, runtimeVars>>

\* The outer finally block of withSourcePage.
AgentPageDone(s) ==
  /\ "work" \in using[s]
  /\ using' = [using EXCEPT ![s] = {}]
  /\ session' = [session EXCEPT ![s] = [SaveAndClose(session[s]) EXCEPT !.release = TRUE]]
  /\ UNCHANGED <<entry, runtimeVars>>

\* Chromium dies: Playwright emits 'close'.  The page functions fail later.
BrowserDies(s) ==
  /\ session[s].context = "open"
  /\ session' = [session EXCEPT ![s].context = "closed", ![s].timer = FALSE]
  /\ entry' = FreedIfOwn(s)
  /\ UNCHANGED <<using, runtimeVars>>
-----------------------------------------------------------------------------
(***************************************************************************)
(* Closing.                                                                *)
(***************************************************************************)

MayClose(s) == session[s].owner = "user" /\ ~session[s].busy

\* closeSession up to its await.
ClosedBy(s) == [SaveAndClose(session[s]) EXCEPT !.busy = TRUE, !.timer = FALSE, !.release = TRUE]

\* The user saves and releases the browser.
Finish(src) ==
  /\ entry[src] # None /\ MayClose(entry[src])
  /\ session' = [session EXCEPT ![entry[src]] = ClosedBy(entry[src])]
  /\ UNCHANGED <<entry, using, runtimeVars>>

\* Mutant: a timer that finds the page busy is not armed again.
TimerFiresOnce(s) ==
  /\ session[s].timer
  /\ LET t == entry[session[s].source] IN
       session' = IF ~session[s].busy /\ t # None /\ MayClose(t)
                    THEN [session EXCEPT ![s].timer = FALSE, ![t] = ClosedBy(t)]
                    ELSE [session EXCEPT ![s].timer = FALSE]
  /\ UNCHANGED <<entry, using, runtimeVars>>

\* The idle timer of a session closes whatever session its source has now, or is armed again.
TimerFires(s) ==
  /\ session[s].timer
  /\ LET t == entry[session[s].source] IN
       session' = IF session[s].busy THEN session
                  ELSE IF t # None /\ MayClose(t)
                    THEN [session EXCEPT ![s].timer = FALSE, ![t] = ClosedBy(t)]
                    ELSE [session EXCEPT ![s].timer = FALSE]
  /\ UNCHANGED <<entry, using, runtimeVars>>

\* The cookies are written and renamed, or that fails; the context is closed either way.
SaveEnds(s) ==
  /\ session[s].closing = "saving"
  /\ session' = [session EXCEPT ![s].closing = "closing"]
  /\ UNCHANGED <<entry, using, runtimeVars>>

\* context.close() takes effect: 'close' is emitted before the promise of close() resolves.
ContextCloses(s) ==
  /\ session[s].closing = "closing" /\ session[s].context = "open"
  /\ session' = [session EXCEPT ![s].context = "closed", ![s].timer = FALSE]
  /\ entry' = FreedIfOwn(s)
  /\ UNCHANGED <<using, runtimeVars>>

\* The promise resolves; closeSession and withSourcePage delete the entry of the source.
CloseEnds(s) ==
  /\ session[s].closing = "closing" /\ session[s].context = "closed"
  /\ session' = [session EXCEPT ![s].closing = "done"]
  /\ entry' = IF session[s].release THEN Freed(s) ELSE entry
  /\ UNCHANGED <<using, runtimeVars>>
-----------------------------------------------------------------------------
(***************************************************************************)
(* The runtime: the probe, and state.stop with closeBrowserSessions.       *)
(***************************************************************************)

ProbeAnswers ==
  /\ probe = "pending"
  /\ probe' = IF stop = "running" THEN "answered" ELSE "late"
  /\ shuttingDown' = FALSE
  /\ UNCHANGED <<entry, session, using, stop, snapshot>>

Stop ==
  /\ stop = "running"
  /\ stop' = "draining"
  /\ shuttingDown' = TRUE
  /\ UNCHANGED <<entry, session, using, snapshot, probe>>

\* Mutant: the loop waits for a busy session although it is being closed.
JoinableWhenIdle(s) == ~session[s].busy
\* The negation of the loop condition of closeBrowserSessions.
Joinable(s) == ~(session[s].busy /\ session[s].closing = "no")

Live == {entry[src] : src \in Sources} \ {None}

\* The worker's last operation has ended: closeBrowserSessions up to its first await.
CloseBrowserSessions ==
  /\ stop = "draining"
  /\ ~ \E s \in Sessions : AgentActive(s)
  /\ stop' = "closing"
  /\ shuttingDown' = TRUE
  /\ snapshot' = Live
  /\ session' = [s \in Sessions |->
       LET row == IF s \in Live THEN [session[s] EXCEPT !.timer = FALSE] ELSE session[s] IN
         IF s \in Live /\ Joinable(s) THEN SaveAndClose(row) ELSE row]
  /\ UNCHANGED <<entry, using, probe>>

\* The ten-millisecond poll of the loop.
Join(s) ==
  /\ stop = "closing"
  /\ s \in snapshot /\ Joinable(s) /\ session[s].closing = "no"
  /\ session' = [session EXCEPT ![s] = SaveAndClose(@)]
  /\ UNCHANGED <<entry, using, runtimeVars>>

Stopped ==
  /\ stop = "closing"
  /\ \A s \in snapshot : Joinable(s) /\ session[s].closing = "done"
  /\ stop' = "stopped"
  /\ entry' = [src \in Sources |-> None]
  /\ UNCHANGED <<session, using, shuttingDown, snapshot, probe>>
-----------------------------------------------------------------------------
\* The continuations of a session's own promises.
Continue(s) == \/ Launch(s) \/ LaunchFails(s) \/ LoadFails(s) \/ FailureCloses(s) \/ Ready(s)
               \/ \E use \in Uses : UserPageDone(s, use)
               \/ AgentPageDone(s)
               \/ SaveEnds(s) \/ ContextCloses(s) \/ CloseEnds(s)

Next ==
  \/ \E s \in Sessions, src \in Sources, owner \in {"user", "agent"} : Reserve(s, src, owner)
  \/ \E s \in Sessions : Continue(s) \/ BrowserDies(s) \/ TimerFires(s) \/ Join(s)
  \/ \E src \in Sources : OpenAgain(src) \/ Finish(src)
  \/ \E src \in Sources, use \in {"action", "frame"} : UsePage(src, use)
  \/ ProbeAnswers \/ Stop \/ CloseBrowserSessions \/ Stopped

Spec == Init /\ [][Next]_vars

\* Launches, page calls and closes have time limits, so a session's promises settle; the poll of the
\* shutdown and the runtime's own continuations run.  Users, timers and signals need not act.
Fairness == /\ \A s \in Sessions : WF_vars(Continue(s)) /\ WF_vars(Join(s))
            /\ WF_vars(CloseBrowserSessions)
            /\ WF_vars(Stopped)
FairSpec == Spec /\ Fairness
-----------------------------------------------------------------------------
(***************************************************************************)
(* Properties.                                                             *)
(***************************************************************************)

\* Every variable holds a value of its kind.
TypeOK ==
  /\ entry \in [Sources -> Sessions \cup {None}]
  /\ session \in [Sessions -> SessionRow]
  /\ using \in [Sessions -> SUBSET Uses]
  /\ shuttingDown \in BOOLEAN
  /\ stop \in {"running", "draining", "closing", "stopped"}
  /\ snapshot \subseteq Sessions
  /\ probe \in {"pending", "answered", "late"}

\* The flag busy hands a page to one function at a time: the goto of an open, an action of the user
\* or a frame of the viewer never overlap.  No caller saves or closes a context while one of them
\* runs, neither the user, the idle timer nor a shutdown, unless the start-up probe re-admitted
\* users during the shutdown.
PageUsedByOne ==
  \A s \in Sessions :
    /\ Cardinality(using[s]) <= 1
    /\ probe # "late" /\ session[s].closing # "no" => using[s] = {}

\* An open user session that nobody uses has its idle timer armed, so it cannot keep the agent out
\* of its source for ever: frames do not renew the timer and must not lose it either.
IdleTimerArmed ==
  stop \in {"running", "draining"} =>
    \A src \in Sources : entry[src] # None =>
      LET row == session[entry[src]] IN
        row.owner = "user" /\ row.context = "open" /\ ~row.busy => row.timer

\* A context is saved and closed once, however the user, the timer and a shutdown race for it.
Rank == [no |-> 0, saving |-> 1, closing |-> 2, done |-> 3]
ClosesOnce ==
  [][\A s \in Sessions : Rank[session[s].closing] <= Rank[session'[s].closing]]_vars

\* The agent never keeps a source: its session leaves the map whatever fails on the way.
AgentLeaves ==
  \A s \in Sessions, src \in Sources :
    entry[src] = s /\ session[s].owner = "agent" ~> entry[src] # s

\* A shutdown ends, unless a session it waits for failed to open or the probe re-admitted users.
Abandoned(s) == session[s].context = "closed" /\ session[s].busy /\ session[s].closing = "no"
ShutdownEndsOtherwise ==
  stop = "draining" ~> \/ stop = "stopped" \/ probe = "late"
                       \/ \E s \in snapshot : Abandoned(s) /\ using[s] = {}

\* What the comment on the reservation says: a Chromium profile is not opened twice.
HoldsProfile(s) == session[s].context \in {"launching", "loading", "open", "failing"}
ExclusiveProfile ==
  probe # "late" =>
    \A s, t \in Sessions :
      HoldsProfile(s) /\ HoldsProfile(t) /\ session[s].source = session[t].source => s = t

\* A shutdown ends, whatever the sessions it waits for do, as long as the probe re-admits nobody.  The
\* code does not promise it: a session whose launch failed stays busy without a promise of its end.
ShutdownEnds == stop = "draining" ~> stop = "stopped" \/ probe = "late"

\* From the stop signal on nobody opens a browser (tests: a shutdown blocks new browser work until it is
\* resumed).  The start-up probe resumes it when it answers late.
NoBrowserAfterStop ==
  [][stop # "running" =>
       \A s \in Sessions : session[s].context = "absent" => session'[s].context = "absent"]_vars
=============================================================================
