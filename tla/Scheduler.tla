----------------------------- MODULE Scheduler -----------------------------
(***************************************************************************)
(* The schedules of the searches and the poll that turns them into scan    *)
(* operations.  A definition says how often a search is scanned; a cursor  *)
(* holds the next boundary.  The poll and the handlers each commit several *)
(* transactions without an await in between: what can fall between two of  *)
(* them is the death of the process or a failed statement.  A poll then    *)
(* works on an operation while requests are served, and arms the timer of  *)
(* the next poll however it ends.                                          *)
(*                                                                         *)
(* Time is a number: a tick of the model is a minute, the unit in which    *)
(* the API gives intervals.  The wall clock is assumed not to go back.     *)
(***************************************************************************)
EXTENDS Naturals, Sequences

CONSTANTS
  Searches,    \* ids of searches
  Intervals,   \* the intervals a schedule can have
  Never,       \* no time
  Nobody,      \* no search
  MaxTime,     \* bound on the clock
  MaxCrashes   \* bound on the crashes of the process

VARIABLES
  definition,  \* schedule_definitions
  cursor,      \* schedule_cursors
  hand,        \* the handler or the poll that is running
  poller,      \* the poll waits for its timer, runs, or is neither
  up,          \* the process is running
  now,         \* the wall clock
  crashes,     \* crashes so far
  scans,       \* history: when the scans of the current cadence were queued, in order
  lost,        \* history: when the cursor advanced and its scan was not queued
  since,       \* history: when the current cadence was set, Never if its edit was cut short
  edited,      \* history: when the schedule was last edited, cut short or not
  looked       \* history: when the poll was done with the search last, under this cadence

rows    == <<definition, cursor>>
procs   == <<hand, poller, up, now, crashes>>
history == <<scans, lost, since, edited, looked>>
vars    == <<rows, procs, history>>

ASSUME IntervalsAssumption == Intervals \subseteq Nat \ {0}
ASSUME NeverAssumption     == Never \notin Nat
ASSUME NobodyAssumption    == Nobody \notin Searches
ASSUME BoundsAssumption    == MaxTime \in Nat /\ MaxCrashes \in Nat

Times       == Nat \cup {Never}
Definition  == [every : Intervals \cup {Never}, enabled : BOOLEAN]
Cursor      == [next : Times, last : Times]
Hand        == [at   : {"idle", "edit", "poll", "insert"},
                time : Nat,                     \* new Date(), read once when the work began
                rest : SUBSET Searches,         \* definitions the poll has yet to observe
                of   : Searches \cup {Nobody}]  \* the search being edited or due

Undefined   == [every |-> Never, enabled |-> FALSE]
NoCursor    == [next |-> Never, last |-> Never]
Free        == [at |-> "idle", time |-> 0, rest |-> {}, of |-> Nobody]
Defined     == {q \in Searches : definition[q] # Undefined}

Serving == up /\ hand.at = "idle"
-----------------------------------------------------------------------------
\* Mutant: the grid starts again at every observation.
NextDueAtAfterNow(time, interval, boundary) ==
  IF boundary > time THEN boundary ELSE time + interval
\* Mutant: a missed boundary is followed by the next one, past or not.
NextDueAtAfterByOne(time, interval, boundary) ==
  IF boundary > time THEN boundary ELSE boundary + interval

\* The first boundary of the grid strictly after a time.
NextDueAtAfter(time, interval, boundary) ==
  IF boundary > time THEN boundary
                     ELSE boundary + ((time - boundary) \div interval + 1) * interval

Due(q, next, time) == definition[q].enabled /\ next <= time
-----------------------------------------------------------------------------
Init ==
  /\ definition = [q \in Searches |-> Undefined]
  /\ cursor = [q \in Searches |-> NoCursor]
  /\ hand = Free
  /\ poller = "armed"
  /\ up = TRUE
  /\ now = 0
  /\ crashes = 0
  /\ scans = [q \in Searches |-> <<>>]
  /\ lost = [q \in Searches |-> {}]
  /\ since = [q \in Searches |-> Never]
  /\ edited = [q \in Searches |-> Never]
  /\ looked = [q \in Searches |-> Never]

\* The first commit of a POST, or of a PATCH of an existing schedule that names the interval or
\* the switch and keeps the other.  No cadence is whole before the second commit.
SetSchedule(q, every, enabled) ==
  /\ Serving
  /\ definition' = [definition EXCEPT ![q] = [every |-> every, enabled |-> enabled]]
  /\ hand' = [at |-> "edit", time |-> now, rest |-> {}, of |-> q]
  /\ scans' = [scans EXCEPT ![q] = <<>>]
  /\ lost' = [lost EXCEPT ![q] = {}]
  /\ since' = [since EXCEPT ![q] = Never]
  /\ edited' = [edited EXCEPT ![q] = now]
  /\ looked' = [looked EXCEPT ![q] = Never]
  /\ UNCHANGED <<cursor, poller, up, now, crashes>>

\* The second commit: a fresh interval from the time of the edit.
SetScheduleCursor ==
  /\ up /\ hand.at = "edit"
  /\ LET q == hand.of IN
       /\ cursor' = [cursor EXCEPT ![q] =
                       [next |-> hand.time + definition[q].every, last |-> Never]]
       /\ since' = [since EXCEPT ![q] = hand.time]
  /\ hand' = Free
  /\ UNCHANGED <<definition, poller, up, now, crashes, scans, lost, edited, looked>>
-----------------------------------------------------------------------------
(***************************************************************************)
(* The poll: the definitions are read at once, then each cursor is         *)
(* observed in one transaction and the scan of a due one inserted in       *)
(* another.  The order of the searches is that of their ids; any is taken. *)
(* What the poll then does with the operation it claims belongs to other   *)
(* modules: here it takes some time and ends, well or badly.               *)
(***************************************************************************)

TickSchedules ==
  /\ Serving /\ poller = "armed"
  /\ poller' = "running"
  /\ hand' = [at |-> "poll", time |-> now, rest |-> Defined, of |-> Nobody]
  /\ UNCHANGED <<rows, up, now, crashes, history>>

\* A missing cursor is inserted one interval ahead and then observed like the others.
Boundary(q) == IF cursor[q] = NoCursor THEN hand.time + definition[q].every ELSE cursor[q].next

ObserveDue(q) ==
  /\ up /\ hand.at = "poll" /\ q \in hand.rest
  /\ Due(q, Boundary(q), hand.time)
  /\ cursor' = [cursor EXCEPT ![q] =
                  [next |-> NextDueAtAfter(hand.time, definition[q].every, Boundary(q)),
                   last |-> hand.time]]
  /\ hand' = [hand EXCEPT !.at = "insert", !.rest = @ \ {q}, !.of = q]
  /\ UNCHANGED <<definition, poller, up, now, crashes, history>>

ObserveNotDue(q) ==
  /\ up /\ hand.at = "poll" /\ q \in hand.rest
  /\ ~Due(q, Boundary(q), hand.time)
  /\ cursor' = [cursor EXCEPT ![q].next = Boundary(q)]
  /\ hand' = [hand EXCEPT !.rest = @ \ {q}]
  /\ looked' = [looked EXCEPT ![q] = IF definition[q].enabled THEN hand.time ELSE @]
  /\ UNCHANGED <<definition, poller, up, now, crashes, scans, lost, since, edited>>

\* The scan operation of a due search, created at the time of the poll.
InsertScan ==
  /\ up /\ hand.at = "insert"
  /\ scans' = [scans EXCEPT ![hand.of] = Append(@, hand.time)]
  /\ looked' = [looked EXCEPT ![hand.of] = hand.time]
  /\ hand' = [hand EXCEPT !.at = "poll", !.of = Nobody]
  /\ UNCHANGED <<rows, poller, up, now, crashes, lost, since, edited>>

EndTick ==
  /\ up /\ hand.at = "poll" /\ hand.rest = {}
  /\ hand' = Free
  /\ UNCHANGED <<rows, poller, up, now, crashes, history>>

\* The operation of the poll ends or fails, or there was none: the timer is armed again.
PollEnds ==
  /\ Serving /\ poller = "running"
  /\ poller' = "armed"
  /\ UNCHANGED <<rows, hand, up, now, crashes, history>>

\* The work in hand ends between two commits.
CutShort ==
  /\ hand' = Free
  /\ lost' = IF hand.at = "insert" THEN [lost EXCEPT ![hand.of] = @ \cup {hand.time}] ELSE lost
  /\ UNCHANGED <<rows, scans, since, edited, looked>>

\* Mutant: a poll whose schedules fail arms no timer.
StatementStopsPoll ==
  /\ up /\ hand.at # "idle"
  /\ CutShort
  /\ poller' = IF hand.at = "edit" THEN poller ELSE "none"
  /\ UNCHANGED <<up, now, crashes>>

\* A statement fails: the handler answers 500; of the poll the rest is skipped and the timer armed.
StatementFails ==
  /\ up /\ hand.at # "idle"
  /\ CutShort
  /\ poller' = IF hand.at = "edit" THEN poller ELSE "armed"
  /\ UNCHANGED <<up, now, crashes>>

Crash ==
  /\ up /\ crashes < MaxCrashes
  /\ CutShort
  /\ poller' = "none"
  /\ up' = FALSE
  /\ crashes' = crashes + 1
  /\ UNCHANGED now

Restart ==
  /\ ~up
  /\ up' = TRUE
  /\ poller' = "armed"
  /\ UNCHANGED <<rows, hand, now, crashes, history>>

Later ==
  /\ now < MaxTime
  /\ now' = now + 1
  /\ UNCHANGED <<rows, hand, poller, up, crashes, history>>

Next ==
  \/ \E q \in Searches, every \in Intervals, enabled \in BOOLEAN : SetSchedule(q, every, enabled)
  \/ SetScheduleCursor
  \/ TickSchedules
  \/ \E q \in Searches : ObserveDue(q) \/ ObserveNotDue(q)
  \/ InsertScan
  \/ EndTick
  \/ PollEnds
  \/ StatementFails
  \/ Crash
  \/ Restart
  \/ Later

Spec == Init /\ [][Next]_vars

\* The event loop takes timers and finished operations between requests, a handler and a poll run to
\* their end, an observation that is tried again and again succeeds in the end, and the process is
\* restarted.
Fairness ==
  /\ WF_vars(Restart)
  /\ WF_vars(SetScheduleCursor \/ InsertScan \/ EndTick)
  /\ SF_vars(TickSchedules)
  /\ SF_vars(PollEnds)
  /\ \A q \in Searches : SF_vars(ObserveDue(q) \/ ObserveNotDue(q))

FairSpec == Spec /\ Fairness
-----------------------------------------------------------------------------
(***************************************************************************)
(* Properties.                                                             *)
(***************************************************************************)

TypeOK ==
  /\ definition \in [Searches -> Definition]
  /\ cursor \in [Searches -> Cursor]
  /\ hand \in Hand
  /\ poller \in {"armed", "running", "none"}
  /\ up \in BOOLEAN
  /\ now \in Nat
  /\ crashes \in Nat
  /\ scans \in [Searches -> Seq(Nat)]
  /\ lost \in [Searches -> SUBSET Nat]
  /\ since \in [Searches -> Times]
  /\ edited \in [Searches -> Times]
  /\ looked \in [Searches -> Times]

\* Searches whose definition and cursor come from one edit.
Whole == {q \in Searches : since[q] # Never}

\* The interval of the cadence, counted from its edit, in which a time falls.
Slot(q, time) == (time - since[q]) \div definition[q].every

\* An interval of a cadence gets one scan at most and the first none: a service that was down or
\* slow catches up with a single scan, a poll is never answered twice, and an edit starts a fresh
\* interval.
OneScanPerInterval ==
  \A q \in Whole : \A i, j \in DOMAIN scans[q] :
    /\ Slot(q, scans[q][i]) > 0
    /\ Slot(q, scans[q][i]) = Slot(q, scans[q][j]) => i = j

\* An interval after the first in which the poll looked at an enabled search has its scan, unless a
\* crash or a failed statement came between the cursor and the operation: the grid does not drift
\* with late polls, and no interval is passed over.
EachIntervalScanned ==
  \A q \in Whole : looked[q] # Never /\ Slot(q, looked[q]) > 0 =>
    \E time \in {scans[q][i] : i \in DOMAIN scans[q]} \cup lost[q] :
      Slot(q, time) = Slot(q, looked[q])

\* An interval after the first in which the poll looked at an enabled search has its scan, whatever
\* was cut short (architecture: no timer held in memory is the source of truth).  The code does not
\* hold it: the cursor is advanced in one commit and the scan inserted in the next.
EveryIntervalScanned ==
  \A q \in Whole : looked[q] # Never /\ Slot(q, looked[q]) > 0 =>
    \E i \in DOMAIN scans[q] : Slot(q, scans[q][i]) = Slot(q, looked[q])

\* No edit of a schedule is followed by a scan within its interval, an edit that was cut short
\* included (matching rules: enabling sets the next boundary and starts no immediate run).  The code
\* does not hold it: between the definition and the cursor the new schedule meets the old boundary.
EditStartsFreshInterval ==
  \A q \in Searches : \A i \in DOMAIN scans[q] : scans[q][i] >= edited[q] + definition[q].every

\* An enabled search with no boundary, or one that has passed.
Overdue(q) == definition[q].enabled /\ (cursor[q] = NoCursor \/ cursor[q].next <= now)

\* A boundary that passes is observed, or the schedule edited: polls that fail, die, or work on an
\* operation while requests come in are followed by a further poll.
DueIsObserved == \A q \in Searches : Overdue(q) ~> ~Overdue(q)
=============================================================================
