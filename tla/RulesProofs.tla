----------------------------- MODULE RulesProofs -----------------------------
(***************************************************************************)
(* Proofs about the two rules of unattended discovery, which Scheduler and *)
(* Matching state: when a search is scanned, for any number of searches,   *)
(* polls, edits, failures and crashes, and what an assessment can say.     *)
(***************************************************************************)
EXTENDS Scheduler, Matching, TLAPS

\* The times of the scans of a cadence, queued or lost.
Scanned(q) == {scans[q][i] : i \in DOMAIN scans[q]}
Served(q)  == Scanned(q) \cup lost[q]

Looking == hand.at \in {"poll", "insert"}
Pending(q) == hand.at = "insert" /\ hand.of = q

\* A schedule that exists has an interval, a cursor that exists a boundary.
RowsFilled ==
  /\ \A q \in Searches : definition[q] = Undefined \/ definition[q].every \in Intervals
  /\ \A q \in Searches : cursor[q] = NoCursor \/ cursor[q].next \in Nat

\* The work in hand knows its search, and an edit has cleared what it knew of the last cadence.
HandKnows ==
  /\ hand.time <= now
  /\ Looking => hand.rest \subseteq Defined
  /\ hand.at \in {"edit", "insert"} => hand.of \in Searches
  /\ hand.at = "edit" =>
       /\ definition[hand.of].every \in Intervals
       /\ since[hand.of] = Never /\ looked[hand.of] = Never
       /\ scans[hand.of] = <<>> /\ lost[hand.of] = {}

\* Nothing happened after the time the poll read, nor before the cadence was set.
TimesOrdered(q) ==
  /\ \A time \in Served(q) : time <= now /\ (Looking => time <= hand.time)
  /\ since[q] # Never =>
       /\ since[q] <= now /\ (Looking => since[q] <= hand.time)
       /\ \A time \in Served(q) : since[q] <= time

\* The interval the cursor of a cadence points to.
NextSlot(q) == Slot(q, cursor[q].next)

\* The cursor stands on the grid, ahead of every scan; the interval before it is served, or its scan
\* is in the poll's hand.
OnGrid(q) ==
  /\ definition[q].every \in Intervals
  /\ NextSlot(q) \in Nat \ {0}
  /\ cursor[q].next = since[q] + NextSlot(q) * definition[q].every
  /\ \A time \in Scanned(q) : Slot(q, time) < NextSlot(q)
  /\ Pending(q) => /\ Slot(q, hand.time) + 1 = NextSlot(q)
                   /\ Slot(q, hand.time) > 0
                   /\ \A time \in Scanned(q) : Slot(q, time) < Slot(q, hand.time)
  /\ ~Pending(q) /\ NextSlot(q) > 1 => \E time \in Served(q) : Slot(q, time) + 1 = NextSlot(q)

\* The two properties, for one search.
OneScan(q) ==
  \A i, j \in DOMAIN scans[q] :
    /\ Slot(q, scans[q][i]) > 0
    /\ Slot(q, scans[q][i]) = Slot(q, scans[q][j]) => i = j
EachScanned(q) ==
  looked[q] # Never /\ Slot(q, looked[q]) > 0 =>
    \E time \in Served(q) : Slot(q, time) = Slot(q, looked[q])

\* The inductive invariant, next to the types.
CadenceOf(q) ==
  /\ TimesOrdered(q)
  /\ since[q] # Never => OnGrid(q) /\ OneScan(q) /\ EachScanned(q)
Cadence == \A q \in Searches : CadenceOf(q)
-----------------------------------------------------------------------------
(***************************************************************************)
(* Intervals and boundaries: the arithmetic of the grid.                   *)
(***************************************************************************)

\* In which interval a time falls, counted from the boundaries around it.
LEMMA DivLess ==
  ASSUME NEW n \in Nat, NEW e \in Nat \ {0}, NEW k \in Nat
  PROVE  n \div e \in Nat /\ (n \div e < k <=> n < k * e)
OBVIOUS

LEMMA DivUnique ==
  ASSUME NEW n \in Nat, NEW e \in Nat \ {0}, NEW k \in Nat, k * e <= n, n < (k + 1) * e
  PROVE  n \div e = k
OBVIOUS

\* The next boundary lies ahead of the time asked about.
LEMMA NextDueAhead ==
  ASSUME NEW time \in Nat, NEW e \in Nat \ {0}, NEW boundary \in Nat
  PROVE  /\ NextDueAtAfter(time, e, boundary) \in Nat
         /\ NextDueAtAfter(time, e, boundary) > time
<1>1. CASE boundary > time
  BY <1>1 DEF NextDueAtAfter
<1>2. CASE ~(boundary > time)
  <2> DEFINE n == time - boundary
  <2>1. n \in Nat
    BY <1>2
  <2>2. n \div e \in Nat /\ n < (n \div e + 1) * e
    <3> HIDE DEF n
    <3>. QED  BY <2>1, DivLess
  <2>3. NextDueAtAfter(time, e, boundary) = boundary + (n \div e + 1) * e
    BY <1>2 DEF NextDueAtAfter
  <2>4. (n \div e + 1) * e \in Nat
    BY <2>2
  <2>. QED  BY <1>2, <2>2, <2>3, <2>4
<1>. QED  BY <1>1, <1>2

\* From a boundary that has passed, it is the end of the interval the time falls in: the grid keeps
\* its origin however late the time is.
LEMMA NextDueKeepsGrid ==
  ASSUME NEW time \in Nat, NEW e \in Nat \ {0}, NEW s \in Nat, NEW k \in Nat,
         NEW boundary \in Nat, boundary = s + k * e, boundary <= time
  PROVE  LET j == (time - s) \div e IN
           /\ j \in Nat /\ k <= j
           /\ NextDueAtAfter(time, e, boundary) = s + (j + 1) * e
<1> DEFINE n == time - (s + k * e)
           j == n \div e
<1>1. k * e \in Nat /\ n \in Nat /\ time - s \in Nat /\ time - s = n + k * e
  OBVIOUS
<1>2. j \in Nat /\ j * e <= n /\ n < (j + 1) * e
  <2> HIDE DEF n
  <2>. QED  BY <1>1, DivLess
<1>3. (k + j) * e <= time - s /\ time - s < (k + j + 1) * e
  <2> HIDE DEF n, j
  <2>1. (k + j) * e = k * e + j * e /\ (k + j + 1) * e = k * e + (j + 1) * e
    BY <1>2
  <2>2. j * e \in Nat /\ (j + 1) * e \in Nat
    BY <1>2
  <2>. QED  BY <1>1, <1>2, <2>1, <2>2
<1>4. (time - s) \div e = k + j
  <2> HIDE DEF n, j
  <2>. QED  BY <1>1, <1>2, <1>3, DivUnique
<1>5. NextDueAtAfter(time, e, s + k * e) = (s + k * e) + (j + 1) * e
  <2>1. CASE s + k * e > time
    BY <2>1, <1>1
  <2>2. CASE ~(s + k * e > time)
    BY <2>2 DEF NextDueAtAfter
  <2>. QED  BY <2>1, <2>2
<1>6. (s + k * e) + (j + 1) * e = s + (k + j + 1) * e
  <2> HIDE DEF n, j
  <2>. QED  BY <1>2
<1>. QED  BY <1>2, <1>4, <1>5, <1>6
-----------------------------------------------------------------------------
(***************************************************************************)
(* Types.  An interval or a boundary that is not set yet is Never, so the  *)
(* arithmetic of the poll is typed only where RowsFilled and HandKnows say *)
(* that it is applied to numbers.                                          *)
(***************************************************************************)
Typed == TypeOK /\ RowsFilled /\ HandKnows

\* The boundary a poll observes is a number, and its next one lies ahead.
LEMMA BoundaryTyped ==
  ASSUME Typed, NEW q \in hand.rest, hand.at = "poll"
  PROVE  /\ q \in Searches /\ definition[q].every \in Intervals
         /\ hand.time \in Nat
         /\ Boundary(q) \in Nat
         /\ NextDueAtAfter(hand.time, definition[q].every, Boundary(q)) \in Nat
         /\ cursor[q] \in Cursor
<1>1. hand.time \in Nat /\ hand.rest \subseteq Defined
  BY DEF Typed, TypeOK, Hand, HandKnows, Looking
<1>2. q \in Searches /\ definition[q].every \in Intervals
  BY <1>1 DEF Defined, Typed, RowsFilled
<1>3. definition[q].every \in Nat \ {0}
  BY <1>2, IntervalsAssumption
<1>4. Boundary(q) \in Nat
  BY <1>1, <1>2, <1>3 DEF Boundary, Typed, RowsFilled
<1>. QED  BY <1>1, <1>2, <1>3, <1>4, NextDueAhead DEF Typed, TypeOK

LEMMA InitTyped == Init => Typed
<1> SUFFICES ASSUME Init PROVE Typed
  OBVIOUS
<1>1. TypeOK
  BY DEF Init, TypeOK, Definition, Cursor, Times, Undefined, NoCursor, Hand, Free
<1>2. RowsFilled
  BY DEF Init, RowsFilled
<1>3. HandKnows
  BY DEF Init, HandKnows, Free, Looking
<1>. QED  BY <1>1, <1>2, <1>3 DEF Typed

LEMMA NextKeepsTyped == Typed /\ [Next]_vars => Typed'
<1> SUFFICES ASSUME Typed, [Next]_vars
             PROVE  Typed'
  OBVIOUS
<1> USE IntervalsAssumption DEF Typed
<1>0. hand \in Hand /\ hand.time \in Nat /\ now \in Nat
  BY DEF TypeOK, Hand
<1>1. ASSUME NEW q \in Searches, NEW every \in Intervals, NEW enabled \in BOOLEAN,
             SetSchedule(q, every, enabled)
      PROVE  Typed'
  <2>1. TypeOK'
    BY <1>1 DEF SetSchedule, TypeOK, Definition, Times, Hand
  <2>2. RowsFilled' /\ HandKnows'
    BY <1>1 DEF SetSchedule, TypeOK, RowsFilled, HandKnows, Looking
  <2>. QED  BY <2>1, <2>2
<1>2. CASE SetScheduleCursor
  <2>1. /\ hand.of \in Searches /\ definition[hand.of].every \in Nat
        /\ hand.time + definition[hand.of].every \in Nat
    <3>1. hand.of \in Searches /\ definition[hand.of].every \in Intervals
      BY <1>2 DEF SetScheduleCursor, HandKnows
    <3>2. definition[hand.of].every \in Nat
      BY <3>1
    <3>3. hand.time + definition[hand.of].every \in Nat
      <4> HIDE DEF Typed
      <4>. QED  BY <1>0, <3>2
    <3>. QED  BY <3>1, <3>2, <3>3
  <2>2. TypeOK'
    BY <1>2, <2>1 DEF SetScheduleCursor, TypeOK, Cursor, Times, Hand, Free
  <2>3. RowsFilled' /\ HandKnows'
    BY <1>2, <2>1 DEF SetScheduleCursor, TypeOK, RowsFilled, HandKnows, Looking, Free
  <2>. QED  BY <2>2, <2>3
<1>3. CASE TickSchedules
  <2>1. TypeOK'
    BY <1>3, NobodyAssumption DEF TickSchedules, TypeOK, Hand, Defined, rows, history
  <2>2. RowsFilled' /\ HandKnows'
    BY <1>3 DEF TickSchedules, TypeOK, RowsFilled, HandKnows, Looking, Defined, rows, history
  <2>. QED  BY <2>1, <2>2
<1>4. ASSUME NEW q \in Searches, ObserveDue(q)
      PROVE  Typed'
  <2>1. cursor'[q].next \in Nat /\ cursor' \in [Searches -> Cursor]
    BY <1>4, BoundaryTyped DEF ObserveDue, TypeOK, Cursor, Times, Hand
  <2>2. TypeOK'
    BY <1>4, <2>1 DEF ObserveDue, TypeOK, Hand, history
  <2>3. RowsFilled'
    BY <1>4, <2>1 DEF ObserveDue, TypeOK, RowsFilled
  <2>4. HandKnows'
    BY <1>0, <1>4 DEF ObserveDue, HandKnows, Looking, Defined, Hand, history
  <2>. QED  BY <2>2, <2>3, <2>4
<1>5. ASSUME NEW q \in Searches, ObserveNotDue(q)
      PROVE  Typed'
  <2>1. cursor'[q].next \in Nat /\ cursor' \in [Searches -> Cursor]
    BY <1>5, BoundaryTyped DEF ObserveNotDue, TypeOK, Cursor, Times
  <2>2. TypeOK'
    BY <1>5, <2>1 DEF ObserveNotDue, TypeOK, Hand, Times
  <2>3. RowsFilled'
    BY <1>5, <2>1 DEF ObserveNotDue, TypeOK, RowsFilled
  <2>4. HandKnows'
    BY <1>0, <1>5 DEF ObserveNotDue, HandKnows, Looking, Defined, Hand
  <2>. QED  BY <2>2, <2>3, <2>4
<1>6. CASE InsertScan
  <2>1. hand.of \in Searches
    BY <1>6 DEF InsertScan, HandKnows
  <2>2. TypeOK'
    <3>1. Append(scans[hand.of], hand.time) \in Seq(Nat)
      BY <1>0, <2>1 DEF TypeOK
    <3>2. scans' \in [Searches -> Seq(Nat)]
      BY <1>6, <3>1 DEF InsertScan, TypeOK
    <3>3. hand' \in Hand
      BY <1>0, <1>6 DEF InsertScan, Hand
    <3>4. looked' \in [Searches -> Times]
      BY <1>0, <1>6 DEF InsertScan, TypeOK, Times
    <3>. QED  BY <1>6, <3>2, <3>3, <3>4 DEF InsertScan, TypeOK, rows
  <2>3. RowsFilled'
    BY <1>6 DEF InsertScan, RowsFilled, rows
  <2>4. HandKnows'
    BY <1>0, <1>6 DEF InsertScan, HandKnows, Looking, Defined, Hand, rows
  <2>. QED  BY <2>2, <2>3, <2>4
<1>7. CASE EndTick \/ PollEnds \/ Restart \/ Later
  <2>1. hand' \in Hand /\ now' \in Nat
    BY <1>0, <1>7 DEF EndTick, PollEnds, Restart, Later, Hand, Free
  <2>2. RowsFilled' /\ HandKnows'
    BY <1>0, <1>7 DEF EndTick, PollEnds, Restart, Later, RowsFilled, HandKnows, Looking, Free, Defined, rows,
                      history
  <2>3. TypeOK'
    BY <1>7, <2>1 DEF EndTick, PollEnds, Restart, Later, TypeOK, rows, history
  <2>. QED  BY <2>2, <2>3
<1>8. CASE StatementFails \/ Crash
  <2>1. CutShort /\ now' = now
    BY <1>8 DEF StatementFails, Crash
  <2>5. up' \in BOOLEAN /\ crashes' \in Nat
    <3>1. CASE StatementFails
      BY <3>1 DEF StatementFails, TypeOK
    <3>2. CASE Crash
      <4>1. up' = FALSE
        BY <3>2 DEF Crash
      <4>2. crashes' = crashes + 1 /\ crashes \in Nat
        BY <3>2 DEF Crash, TypeOK
      <4>3. crashes' \in Nat
        BY <4>2
      <4>. QED  BY <4>1, <4>3
    <3>. QED  BY <1>8, <3>1, <3>2
  <2>2. lost' \in [Searches -> SUBSET Nat]
    BY <1>0, <2>1 DEF CutShort, TypeOK
  <2>6. poller' \in {"armed", "running", "none"}
    BY <1>8 DEF StatementFails, Crash, TypeOK
  <2>3. TypeOK'
    BY <2>1, <2>2, <2>5, <2>6 DEF CutShort, TypeOK, Hand, Free, rows
  <2>4. RowsFilled' /\ HandKnows'
    BY <1>0, <2>1 DEF CutShort, RowsFilled, HandKnows, Looking, Free, rows
  <2>. QED  BY <2>3, <2>4
<1>9. CASE UNCHANGED vars
  BY <1>9 DEF vars, rows, procs, history, TypeOK, RowsFilled, HandKnows, Looking, Defined
<1>. QED  BY <1>1, <1>2, <1>3, <1>4, <1>5, <1>6, <1>7, <1>8, <1>9 DEF Next

LEMMA AlwaysTyped == Spec => []Typed
BY InitTyped, NextKeepsTyped, PTL DEF Spec
-----------------------------------------------------------------------------
(***************************************************************************)
(* The cadence.  Only these facts about intervals are used below.          *)
(***************************************************************************)

LEMMA SlotTyped ==
  ASSUME NEW q \in Searches, since[q] \in Nat, definition[q].every \in Nat \ {0},
         NEW time \in Nat, since[q] <= time
  PROVE  /\ Slot(q, time) \in Nat
         /\ \A k \in Nat : Slot(q, time) < k <=> time < since[q] + k * definition[q].every
<1> DEFINE n == time - since[q]
           e == definition[q].every
<1>1. n \in Nat /\ e \in Nat \ {0} /\ time = since[q] + n
  OBVIOUS
<1>2. Slot(q, time) = n \div e
  BY DEF Slot
<1> HIDE DEF n, e
<1>3. n \div e \in Nat
  BY <1>1, DivLess
<1>4. ASSUME NEW k \in Nat
      PROVE  n \div e < k <=> time < since[q] + k * e
  <2>1. n \div e < k <=> n < k * e
    BY <1>1, DivLess
  <2>2. k * e \in Nat
    BY <1>1
  <2>. QED  BY <1>1, <2>1, <2>2
<1>. QED  BY <1>2, <1>3, <1>4 DEF e

LEMMA SlotMonotone ==
  ASSUME NEW q \in Searches, since[q] \in Nat, definition[q].every \in Nat \ {0},
         NEW time \in Nat, NEW later \in Nat, since[q] <= time, time <= later
  PROVE  Slot(q, time) <= Slot(q, later)
<1> DEFINE e == definition[q].every
           k == Slot(q, later) + 1
<1>0. since[q] <= later
  OBVIOUS
<1>1. Slot(q, time) \in Nat /\ k \in Nat /\ Slot(q, later) \in Nat
  BY <1>0, SlotTyped
<1>2. later < since[q] + k * e
  <2>1. \A j \in Nat : Slot(q, later) < j <=> later < since[q] + j * e
    BY <1>0, SlotTyped
  <2>2. Slot(q, later) < k
    BY <1>1
  <2> HIDE DEF k, e
  <2>. QED  BY <1>1, <2>1, <2>2
<1>3. k * e \in Nat
  BY <1>1
<1>4. time < since[q] + k * e
  <2> HIDE DEF k, e
  <2>. QED  BY <1>2, <1>3
<1>5. Slot(q, time) < k
  BY <1>1, <1>4, SlotTyped
<1>. QED  BY <1>1, <1>5

\* A boundary begins its interval.
LEMMA SlotOfBoundary ==
  ASSUME NEW q \in Searches, since[q] \in Nat, definition[q].every \in Nat \ {0}, NEW k \in Nat
  PROVE  Slot(q, since[q] + k * definition[q].every) = k
<1> DEFINE e == definition[q].every
           n == k * e
<1>1. n \in Nat /\ since[q] + n - since[q] = n /\ n < (k + 1) * e
  OBVIOUS
<1>2. n \div e = k
  BY <1>1, DivUnique
<1>. QED  BY <1>1, <1>2 DEF Slot

\* What a typed state says of the times of a cadence.
LEMMA TimesTyped ==
  ASSUME Typed, NEW q \in Searches
  PROVE  /\ hand.time \in Nat /\ now \in Nat /\ hand.time <= now
         /\ Served(q) \subseteq Nat /\ Scanned(q) \subseteq Served(q)
         /\ since[q] # Never => since[q] \in Nat
         /\ looked[q] # Never => looked[q] \in Nat
         /\ definition[q].every \in Intervals => definition[q].every \in Nat \ {0}
<1>1. scans[q] \in Seq(Nat) /\ lost[q] \subseteq Nat
  BY DEF Typed, TypeOK
<1>2. Scanned(q) \subseteq Nat
  BY <1>1 DEF Scanned
<1>. QED  BY <1>1, <1>2, IntervalsAssumption DEF Typed, TypeOK, Hand, HandKnows, Times, Served

\* A step that leaves the cadence of a search alone: the rows and the history of the search, and
\* whether its scan is in hand; time may pass and the poll may read the clock.
LEMMA CadenceFrame ==
  ASSUME Typed, Typed', NEW q \in Searches, CadenceOf(q),
         definition'[q] = definition[q], cursor'[q].next = cursor[q].next,
         scans'[q] = scans[q], lost'[q] = lost[q], since'[q] = since[q], looked'[q] = looked[q],
         now <= now',
         Pending(q)' <=> Pending(q), Pending(q) => hand'.time = hand.time,
         Looking' => (Looking /\ hand'.time = hand.time) \/ hand'.time = now
  PROVE  CadenceOf(q)'
<1>1. \A time : Slot(q, time)' = Slot(q, time)
  BY DEF Slot
<1>2. Scanned(q)' = Scanned(q) /\ Served(q)' = Served(q) /\ NextSlot(q)' = NextSlot(q)
  BY DEF Scanned, Served, NextSlot, Slot
<1>3. TimesOrdered(q)'
  <2>1. TimesOrdered(q) /\ Served(q) \subseteq Nat /\ (since[q] # Never => since[q] \in Nat)
    BY TimesTyped DEF CadenceOf
  <2>2. now \in Nat /\ now' \in Nat /\ hand.time \in Nat
    BY TimesTyped DEF Typed, TypeOK
  <2>3. \A time \in Nat : time <= now => time <= now'
    BY <2>2
  <2>4. \A time \in Nat : time <= now /\ (Looking => time <= hand.time)
                            => (Looking' => time <= hand'.time)
    BY <2>2
  <2>. QED  BY <1>2, <2>1, <2>3, <2>4 DEF TimesOrdered
<1>4. since[q] # Never => OnGrid(q)'
  BY <1>1, <1>2 DEF CadenceOf, OnGrid
<1>5. since[q] # Never => OneScan(q)' /\ EachScanned(q)'
  BY <1>1, <1>2 DEF CadenceOf, OneScan, EachScanned
<1>. QED  BY <1>3, <1>4, <1>5 DEF CadenceOf
-----------------------------------------------------------------------------
(***************************************************************************)
(* The steps that change a cadence, each for the search it is about.       *)
(***************************************************************************)

\* An edit forgets the last cadence.
LEMMA EditForgets ==
  ASSUME NEW q \in Searches, Typed, NEW every \in Intervals, NEW enabled \in BOOLEAN,
         SetSchedule(q, every, enabled)
  PROVE  CadenceOf(q)'
<1>1. scans'[q] = <<>> /\ lost'[q] = {} /\ since'[q] = Never
  BY DEF SetSchedule, Typed, TypeOK
<1>2. Served(q)' = {}
  BY <1>1 DEF Served, Scanned
<1>. QED  BY <1>1, <1>2 DEF CadenceOf, TimesOrdered

\* The cursor of a new cadence stands one interval after its edit.
LEMMA EditStartsGrid ==
  ASSUME NEW q \in Searches, Typed, SetScheduleCursor, q = hand.of
  PROVE  CadenceOf(q)'
<1> DEFINE e == definition[q].every
<1>1. /\ e \in Intervals /\ e \in Nat \ {0} /\ hand.time \in Nat /\ now \in Nat
      /\ hand.time <= now
      /\ looked[q] = Never /\ scans[q] = <<>> /\ lost[q] = {}
  BY TimesTyped DEF SetScheduleCursor, Typed, HandKnows
<1>2. /\ definition' = definition /\ now' = now /\ hand' = Free
      /\ since'[q] = hand.time /\ cursor'[q].next = hand.time + e
      /\ looked'[q] = Never /\ scans'[q] = <<>> /\ lost'[q] = {}
  BY <1>1 DEF SetScheduleCursor, Typed, TypeOK
<1>3. Served(q)' = {} /\ Scanned(q)' = {}
  BY <1>2 DEF Served, Scanned
<1>4. ~Looking' /\ ~Pending(q)'
  BY <1>2 DEF Looking, Pending, Free
<1>5. NextSlot(q)' = 1
  <2>1. NextSlot(q)' = (hand.time + e - hand.time) \div e
    <3>1. NextSlot(q)' = (cursor'[q].next - since'[q]) \div definition'[q].every
      BY DEF NextSlot, Slot
    <3>2. cursor'[q].next = hand.time + e /\ since'[q] = hand.time
      BY <1>2
    <3>3. definition'[q].every = e
      BY <1>2
    <3>4. cursor'[q].next - since'[q] = hand.time + e - hand.time
      BY <1>1, <3>2
    <3> HIDE DEF e
    <3>. QED  BY <3>1, <3>3, <3>4
  <2> HIDE DEF e
  <2>2. hand.time + e - hand.time = e /\ 1 * e <= e /\ e < (1 + 1) * e
    BY <1>1
  <2>3. e \div e = 1
    BY <1>1, <2>2, DivUnique
  <2>. QED  BY <2>1, <2>2, <2>3
<1>6. TimesOrdered(q)'
  BY <1>1, <1>2, <1>3, <1>4 DEF TimesOrdered
<1>7. OnGrid(q)'
  <2>1. hand.time + 1 * e = hand.time + e
    BY <1>1
  <2>. QED  BY <1>1, <1>2, <1>3, <1>4, <1>5, <2>1 DEF OnGrid
<1>8. OneScan(q)' /\ EachScanned(q)'
  BY <1>2 DEF OneScan, EachScanned
<1>. QED  BY <1>6, <1>7, <1>8 DEF CadenceOf

\* A due cursor moves to the end of the interval the poll falls in.
LEMMA PollMovesOnGrid ==
  ASSUME NEW q \in Searches, Typed, Typed', CadenceOf(q), ObserveDue(q)
  PROVE  CadenceOf(q)'
<1> DEFINE e == definition[q].every
           k == Slot(q, hand.time)
<1>1. /\ definition' = definition /\ since' = since /\ scans' = scans /\ lost' = lost
      /\ looked' = looked /\ now' = now
      /\ hand.at = "poll" /\ hand'.at = "insert" /\ hand'.of = q /\ hand'.time = hand.time
      /\ Boundary(q) <= hand.time
      /\ cursor'[q].next = NextDueAtAfter(hand.time, e, Boundary(q))
  BY DEF ObserveDue, history, Due, Typed, TypeOK, Hand
<1>2. /\ Looking /\ Looking' /\ ~Pending(q) /\ Pending(q)'
      /\ \A time : Slot(q, time)' = Slot(q, time)
      /\ Scanned(q)' = Scanned(q) /\ Served(q)' = Served(q)
  BY <1>1 DEF Looking, Pending, Slot, Scanned, Served
<1>3. TimesOrdered(q)'
  BY <1>1, <1>2 DEF CadenceOf, TimesOrdered
<1>4. ASSUME since[q] # Never
      PROVE  OnGrid(q)' /\ OneScan(q)' /\ EachScanned(q)'
  <2>1. /\ since[q] \in Nat /\ hand.time \in Nat /\ e \in Nat \ {0} /\ e \in Intervals
        /\ since[q] <= hand.time
        /\ NextSlot(q) \in Nat /\ cursor[q].next = since[q] + NextSlot(q) * e
    BY <1>2, <1>4, TimesTyped DEF CadenceOf, OnGrid, TimesOrdered
  <2>2. cursor[q].next \in Nat
    BY <2>1
  <2>3. Boundary(q) = since[q] + NextSlot(q) * e
    BY <2>1, <2>2, NeverAssumption DEF Boundary, NoCursor
  <2>4. k \in Nat /\ NextSlot(q) <= k /\ cursor'[q].next = since[q] + (k + 1) * e
    <3>1. since[q] + NextSlot(q) * e <= hand.time
      BY <1>1, <2>3
    <3>2. k \in Nat /\ NextSlot(q) <= k
      <4>1. k \in Nat /\ (k < NextSlot(q) <=> hand.time < since[q] + NextSlot(q) * e)
        BY <2>1, SlotTyped
      <4>2. cursor[q].next <= hand.time
        BY <2>1, <3>1
      <4>3. ~(hand.time < cursor[q].next)
        BY <2>1, <2>2, <4>2
      <4>4. ~(k < NextSlot(q))
        BY <2>1, <4>1, <4>3
      <4>. QED  BY <2>1, <4>1, <4>4
    <3>3. cursor'[q].next = since[q] + (k + 1) * e
      <4> DEFINE d == NextSlot(q)
                 b == Boundary(q)
                 s == since[q]
                 t == hand.time
      <4>1. /\ t \in Nat /\ s \in Nat /\ d \in Nat /\ e \in Nat \ {0} /\ b \in Nat
            /\ b = s + d * e /\ b <= t
            /\ cursor'[q].next = NextDueAtAfter(t, e, b)
        BY <1>1, <2>1, <2>2, <2>3, <3>1
      <4>2. k = (t - s) \div e
        BY DEF Slot
      <4> HIDE DEF e, k, d, s, t, b
      <4>3. NextDueAtAfter(t, e, b) = s + ((t - s) \div e + 1) * e
        BY <4>1, NextDueKeepsGrid
      <4>4. cursor'[q].next = s + (k + 1) * e
        BY <4>1, <4>2, <4>3
      <4>. QED  BY <4>4 DEF s
    <3>. QED  BY <3>2, <3>3
  <2>5. NextSlot(q)' = k + 1
    <3>1. NextSlot(q)' = Slot(q, since[q] + (k + 1) * e)
      BY <1>2, <2>4 DEF NextSlot, Slot
    <3>2. k + 1 \in Nat
      BY <2>4
    <3>. QED  BY <2>1, <3>1, <3>2, SlotOfBoundary
  <2>6. \A time \in Scanned(q) : Slot(q, time) \in Nat /\ Slot(q, time) < NextSlot(q)
    BY <1>2, <1>4, <2>1, TimesTyped, SlotTyped DEF CadenceOf, OnGrid, TimesOrdered
  <2>7. \A time \in Scanned(q) : Slot(q, time) < k /\ Slot(q, time) < k + 1
    BY <2>1, <2>4, <2>6
  <2>8. k > 0 /\ k + 1 \in Nat \ {0} /\ NextSlot(q) > 0
    BY <1>4, <2>1, <2>4 DEF CadenceOf, OnGrid
  <2>9. OnGrid(q)'
    BY <1>1, <1>2, <2>1, <2>4, <2>5, <2>7, <2>8 DEF OnGrid
  <2>10. OneScan(q)' /\ EachScanned(q)'
    BY <1>1, <1>2, <1>4 DEF CadenceOf, OneScan, EachScanned
  <2>. QED  BY <2>9, <2>10
<1>. QED  BY <1>1, <1>3, <1>4 DEF CadenceOf

\* A poll that finds an enabled search not due stands in the interval that is served last.
LEMMA PollFindsServed ==
  ASSUME NEW q \in Searches, Typed, Typed', CadenceOf(q), ObserveNotDue(q)
  PROVE  CadenceOf(q)'
<1>1. /\ definition' = definition /\ since' = since /\ scans' = scans /\ lost' = lost
      /\ now' = now /\ hand.at = "poll" /\ hand'.at = "poll" /\ hand'.time = hand.time
      /\ cursor'[q].next = Boundary(q)
      /\ looked'[q] = IF definition[q].enabled THEN hand.time ELSE looked[q]
      /\ definition[q].enabled => ~(Boundary(q) <= hand.time)
  BY DEF ObserveNotDue, Due, Typed, TypeOK, Hand
<1>2. /\ Looking /\ Looking' /\ ~Pending(q) /\ ~Pending(q)'
      /\ \A time : Slot(q, time)' = Slot(q, time)
      /\ Scanned(q)' = Scanned(q) /\ Served(q)' = Served(q)
  BY <1>1 DEF Looking, Pending, Slot, Scanned, Served
<1>3. TimesOrdered(q)'
  BY <1>1, <1>2 DEF CadenceOf, TimesOrdered
<1>4. ASSUME since[q] # Never
      PROVE  OnGrid(q)' /\ OneScan(q)' /\ EachScanned(q)'
  <2> DEFINE e == definition[q].every
             k == Slot(q, hand.time)
  <2>1. /\ since[q] \in Nat /\ hand.time \in Nat /\ e \in Nat \ {0}
        /\ since[q] <= hand.time
        /\ NextSlot(q) \in Nat /\ cursor[q].next = since[q] + NextSlot(q) * e
    BY <1>2, <1>4, TimesTyped DEF CadenceOf, OnGrid, TimesOrdered
  <2>2. cursor[q].next \in Nat
    BY <2>1
  <2>3. Boundary(q) = cursor[q].next
    BY <2>2, NeverAssumption DEF Boundary, NoCursor
  <2>4. NextSlot(q)' = NextSlot(q)
    BY <1>1, <1>2, <2>3 DEF NextSlot, Slot
  <2>5. OnGrid(q)'
    BY <1>1, <1>2, <1>4, <2>3, <2>4 DEF CadenceOf, OnGrid
  <2>6. OneScan(q)'
    BY <1>1, <1>2, <1>4 DEF CadenceOf, OneScan
  <2>7. CASE ~definition[q].enabled
    BY <1>1, <1>2, <1>4, <2>5, <2>6, <2>7 DEF CadenceOf, EachScanned
  <2>8. CASE definition[q].enabled /\ k > 0
    <3>1. hand.time < since[q] + NextSlot(q) * e
      BY <1>1, <2>1, <2>2, <2>3, <2>8
    <3>2. k \in Nat /\ k < NextSlot(q)
      BY <2>1, <3>1, SlotTyped
    <3>3. NextSlot(q) > 1
      BY <2>1, <2>8, <3>2
    <3>4. PICK time \in Served(q) : Slot(q, time) + 1 = NextSlot(q)
      BY <1>2, <1>4, <3>3 DEF CadenceOf, OnGrid
    <3>5. time \in Nat /\ since[q] <= time /\ time <= hand.time
      BY <1>2, <1>4, <3>4, TimesTyped DEF CadenceOf, TimesOrdered
    <3>6. Slot(q, time) \in Nat /\ Slot(q, time) <= k
      BY <2>1, <3>5, SlotTyped, SlotMonotone
    <3>7. Slot(q, time) = k
      <4> HIDE DEF k
      <4>. QED  BY <2>1, <3>2, <3>4, <3>6
    <3>. QED  BY <1>1, <1>2, <2>5, <2>6, <2>8, <3>4, <3>7 DEF EachScanned
  <2>9. CASE definition[q].enabled /\ ~(k > 0)
    BY <1>1, <1>2, <2>5, <2>6, <2>9 DEF EachScanned
  <2>. QED  BY <2>7, <2>8, <2>9
<1>. QED  BY <1>1, <1>3, <1>4 DEF CadenceOf

\* The scan in hand is queued: the first one of its interval.
LEMMA ScanServes ==
  ASSUME NEW q \in Searches, Typed, Typed', CadenceOf(q), InsertScan, q = hand.of
  PROVE  CadenceOf(q)'
<1> DEFINE e == definition[q].every
           k == Slot(q, hand.time)
           L == Len(scans[q])
<1>1. /\ definition' = definition /\ cursor' = cursor /\ since' = since /\ lost' = lost
      /\ now' = now /\ hand.at = "insert" /\ hand'.at = "poll" /\ hand'.time = hand.time
      /\ scans'[q] = Append(scans[q], hand.time) /\ looked'[q] = hand.time
  BY DEF InsertScan, rows, Typed, TypeOK, Hand
<1>2. /\ hand.time \in Nat /\ now \in Nat /\ hand.time <= now
      /\ scans[q] \in Seq(Nat) /\ L \in Nat /\ DOMAIN scans[q] = 1..L
      /\ DOMAIN scans'[q] = 1..(L + 1) /\ scans'[q][L + 1] = hand.time
      /\ \A i \in 1..L : scans'[q][i] = scans[q][i]
  BY <1>1, TimesTyped DEF Typed, TypeOK
<1>3. /\ Looking /\ Looking' /\ Pending(q) /\ ~Pending(q)' /\ NextSlot(q)' = NextSlot(q)
      /\ \A time : Slot(q, time)' = Slot(q, time)
  BY <1>1 DEF Looking, Pending, Slot, NextSlot
<1>4. Scanned(q)' = Scanned(q) \cup {hand.time} /\ Served(q)' = Served(q) \cup {hand.time}
  <2>1. ASSUME NEW time
        PROVE  time \in Scanned(q)' <=> time \in Scanned(q) \/ time = hand.time
    <3>1. time \in Scanned(q)' <=> \E i \in 1..(L + 1) : time = scans'[q][i]
      BY <1>2 DEF Scanned
    <3>2. time \in Scanned(q) <=> \E i \in 1..L : time = scans[q][i]
      BY <1>2 DEF Scanned
    <3>3. \A i : i \in 1..(L + 1) <=> i \in 1..L \/ i = L + 1
      BY <1>2
    <3> HIDE DEF L
    <3>. QED  BY <1>2, <3>1, <3>2, <3>3
  <2>. QED  BY <1>1, <2>1 DEF Served
<1>5. TimesOrdered(q)'
  BY <1>1, <1>2, <1>3, <1>4 DEF CadenceOf, TimesOrdered
<1>6. ASSUME since[q] # Never
      PROVE  OnGrid(q)' /\ OneScan(q)' /\ EachScanned(q)'
  <2>1. /\ k + 1 = NextSlot(q) /\ k > 0 /\ NextSlot(q) \in Nat /\ k \in Nat
        /\ \A time \in Scanned(q) : Slot(q, time) < k
    <3>1. since[q] \in Nat /\ e \in Nat \ {0} /\ since[q] <= hand.time
      BY <1>3, <1>6, TimesTyped DEF CadenceOf, OnGrid, TimesOrdered
    <3>2. k \in Nat
      BY <1>2, <3>1, SlotTyped
    <3>. QED  BY <1>3, <1>6, <3>2 DEF CadenceOf, OnGrid
  <2>2. \A time \in Scanned(q)' : Slot(q, time) < NextSlot(q)
    BY <1>4, <1>6, <2>1 DEF CadenceOf, OnGrid
  <2>3. OnGrid(q)'
    BY <1>1, <1>3, <1>4, <1>6, <2>1, <2>2 DEF CadenceOf, OnGrid
  <2>4. EachScanned(q)'
    BY <1>1, <1>3, <1>4 DEF EachScanned
  <2>5. OneScan(q)'
    <3>1. \A i \in 1..L : scans[q][i] \in Scanned(q)
      BY <1>2 DEF Scanned
    <3>2. \A i \in 1..L : /\ Slot(q, scans'[q][i]) = Slot(q, scans[q][i])
                          /\ Slot(q, scans'[q][i]) > 0 /\ Slot(q, scans'[q][i]) # k
      <4>1. SUFFICES ASSUME NEW i \in 1..L
                     PROVE  Slot(q, scans[q][i]) > 0 /\ Slot(q, scans[q][i]) # k
        BY <1>2
      <4>2. Slot(q, scans[q][i]) > 0
        BY <1>2, <1>6 DEF CadenceOf, OneScan
      <4>3. Slot(q, scans[q][i]) < k
        BY <2>1, <3>1
      <4> HIDE DEF k
      <4>. QED  BY <2>1, <4>2, <4>3
    <3>3. Slot(q, scans'[q][L + 1]) = k
      BY <1>2
    <3>4. \A i, j \in 1..L : Slot(q, scans[q][i]) = Slot(q, scans[q][j]) => i = j
      <4>1. OneScan(q)
        BY <1>6 DEF CadenceOf
      <4>2. DOMAIN scans[q] = 1..L
        BY <1>2
      <4> HIDE DEF L
      <4>. QED  BY <4>1, <4>2, Zenon DEF OneScan
    <3>5. \A i : i \in 1..(L + 1) <=> i \in 1..L \/ i = L + 1
      BY <1>2
    <3> HIDE DEF L, k
    <3>6. \A i \in 1..(L + 1) : Slot(q, scans'[q][i]) > 0
      BY <2>1, <3>2, <3>3, <3>5
    <3>7. \A i, j \in 1..(L + 1) :
            Slot(q, scans'[q][i]) = Slot(q, scans'[q][j]) => i = j
      BY <3>2, <3>3, <3>4, <3>5
    <3>. QED  BY <1>2, <1>3, <3>6, <3>7 DEF OneScan
  <2>. QED  BY <2>3, <2>4, <2>5
<1>. QED  BY <1>1, <1>5, <1>6 DEF CadenceOf

\* The scan in hand is lost: the history says so.
LEMMA LossServes ==
  ASSUME NEW q \in Searches, Typed, Typed', CadenceOf(q), CutShort, now' = now,
         UNCHANGED definition, hand.at = "insert", q = hand.of
  PROVE  CadenceOf(q)'
<1> DEFINE k == Slot(q, hand.time)
<1>1. /\ cursor' = cursor /\ since' = since /\ scans' = scans /\ looked' = looked
      /\ hand' = Free /\ lost'[q] = lost[q] \cup {hand.time}
  BY DEF CutShort, rows, Typed, TypeOK
<1>2. hand.time \in Nat /\ now \in Nat /\ hand.time <= now
  BY TimesTyped
<1>3. /\ Looking /\ ~Looking' /\ Pending(q) /\ ~Pending(q)' /\ NextSlot(q)' = NextSlot(q)
      /\ \A time : Slot(q, time)' = Slot(q, time)
      /\ Scanned(q)' = Scanned(q) /\ Served(q)' = Served(q) \cup {hand.time}
  BY <1>1 DEF Looking, Pending, Slot, NextSlot, Scanned, Served, Free
<1>4. TimesOrdered(q)'
  BY <1>1, <1>2, <1>3 DEF CadenceOf, TimesOrdered
<1>5. ASSUME since[q] # Never
      PROVE  OnGrid(q)' /\ OneScan(q)' /\ EachScanned(q)'
  <2>1. k + 1 = NextSlot(q)
    BY <1>3, <1>5 DEF CadenceOf, OnGrid
  <2>2. OnGrid(q)'
    BY <1>1, <1>3, <1>5, <2>1 DEF CadenceOf, OnGrid
  <2>3. OneScan(q)' /\ EachScanned(q)'
    BY <1>1, <1>3, <1>5 DEF CadenceOf, OneScan, EachScanned
  <2>. QED  BY <2>2, <2>3
<1>. QED  BY <1>1, <1>4, <1>5 DEF CadenceOf
-----------------------------------------------------------------------------
(***************************************************************************)
(* The theorems about schedules.                                           *)
(***************************************************************************)

LEMMA InitCadence == Init => Cadence
<1> SUFFICES ASSUME Init, NEW q \in Searches PROVE CadenceOf(q)
  BY DEF Cadence
<1>1. scans[q] = <<>> /\ lost[q] = {} /\ since[q] = Never
  BY DEF Init
<1>2. Served(q) = {}
  BY <1>1 DEF Served, Scanned
<1>. QED  BY <1>1, <1>2 DEF CadenceOf, TimesOrdered

LEMMA NextKeepsCadence == Typed /\ Typed' /\ Cadence /\ [Next]_vars => Cadence'
<1> SUFFICES ASSUME Typed, Typed', Cadence, [Next]_vars, NEW r \in Searches
             PROVE  CadenceOf(r)'
  BY DEF Cadence
<1>0. CadenceOf(r) /\ now \in Nat /\ now <= now
  BY TimesTyped DEF Cadence
<1>1. ASSUME NEW q \in Searches, NEW every \in Intervals, NEW enabled \in BOOLEAN,
             SetSchedule(q, every, enabled)
      PROVE  CadenceOf(r)'
  <2>1. CASE r = q
    BY <1>1, <2>1, EditForgets
  <2>2. CASE r # q
    <3>1. /\ definition'[r] = definition[r] /\ cursor' = cursor /\ scans'[r] = scans[r]
          /\ lost'[r] = lost[r] /\ since'[r] = since[r] /\ looked'[r] = looked[r]
          /\ now' = now /\ ~Looking' /\ ~Pending(r) /\ ~Pending(r)'
      BY <1>1, <2>2 DEF SetSchedule, Serving, Typed, TypeOK, Looking, Pending
    <3>. QED  BY <1>0, <3>1, CadenceFrame
  <2>. QED  BY <2>1, <2>2
<1>2. CASE SetScheduleCursor
  <2>1. CASE r = hand.of
    BY <1>2, <2>1, EditStartsGrid
  <2>2. CASE r # hand.of
    <3>1. /\ definition' = definition /\ cursor'[r] = cursor[r] /\ scans' = scans
          /\ lost' = lost /\ since'[r] = since[r] /\ looked' = looked
          /\ now' = now /\ ~Looking' /\ ~Pending(r) /\ ~Pending(r)'
      BY <1>2, <2>2 DEF SetScheduleCursor, Typed, TypeOK, Looking, Pending, Free
    <3>. QED  BY <1>0, <3>1, CadenceFrame
  <2>. QED  BY <2>1, <2>2
<1>3. CASE TickSchedules
  <2>1. /\ definition' = definition /\ cursor' = cursor /\ scans' = scans
        /\ lost' = lost /\ since' = since /\ looked' = looked
        /\ now' = now /\ hand'.time = now /\ ~Pending(r) /\ ~Pending(r)'
    BY <1>3 DEF TickSchedules, Serving, Pending, rows, history
  <2>. QED  BY <1>0, <2>1, CadenceFrame
<1>4. ASSUME NEW q \in Searches, ObserveDue(q)
      PROVE  CadenceOf(r)'
  <2>1. CASE r = q
    BY <1>0, <1>4, <2>1, PollMovesOnGrid
  <2>2. CASE r # q
    <3>1. /\ definition' = definition /\ cursor'[r] = cursor[r] /\ scans' = scans
          /\ lost' = lost /\ since' = since /\ looked' = looked
          /\ now' = now /\ Looking /\ hand'.time = hand.time /\ ~Pending(r) /\ ~Pending(r)'
      BY <1>4, <2>2 DEF ObserveDue, Typed, TypeOK, Hand, Looking, Pending, history
    <3>. QED  BY <1>0, <3>1, CadenceFrame
  <2>. QED  BY <2>1, <2>2
<1>5. ASSUME NEW q \in Searches, ObserveNotDue(q)
      PROVE  CadenceOf(r)'
  <2>1. CASE r = q
    BY <1>0, <1>5, <2>1, PollFindsServed
  <2>2. CASE r # q
    <3>1. /\ definition' = definition /\ cursor'[r] = cursor[r] /\ scans' = scans
          /\ lost' = lost /\ since' = since /\ looked'[r] = looked[r]
          /\ now' = now /\ Looking /\ hand'.time = hand.time /\ ~Pending(r) /\ ~Pending(r)'
      BY <1>5, <2>2 DEF ObserveNotDue, Typed, TypeOK, Hand, Looking, Pending
    <3>. QED  BY <1>0, <3>1, CadenceFrame
  <2>. QED  BY <2>1, <2>2
<1>6. CASE InsertScan
  <2>1. CASE r = hand.of
    BY <1>0, <1>6, <2>1, ScanServes
  <2>2. CASE r # hand.of
    <3>1. /\ definition' = definition /\ cursor' = cursor /\ scans'[r] = scans[r]
          /\ lost' = lost /\ since' = since /\ looked'[r] = looked[r]
          /\ now' = now /\ Looking /\ hand'.time = hand.time /\ ~Pending(r) /\ ~Pending(r)'
      BY <1>6, <2>2 DEF InsertScan, Typed, TypeOK, Hand, Looking, Pending, rows
    <3>. QED  BY <1>0, <3>1, CadenceFrame
  <2>. QED  BY <2>1, <2>2
<1>7. CASE EndTick
  <2>1. /\ definition' = definition /\ cursor' = cursor /\ scans' = scans
        /\ lost' = lost /\ since' = since /\ looked' = looked
        /\ now' = now /\ ~Looking' /\ ~Pending(r) /\ ~Pending(r)'
    BY <1>7 DEF EndTick, Free, Looking, Pending, rows, history
  <2>. QED  BY <1>0, <2>1, CadenceFrame
<1>8. CASE StatementFails \/ Crash
  <2>1. CutShort /\ now' = now /\ definition' = definition /\ ~Looking' /\ ~Pending(r)'
    BY <1>8 DEF StatementFails, Crash, CutShort, rows, Free, Looking, Pending
  <2>2. CASE Pending(r)
    BY <1>0, <2>1, <2>2, LossServes DEF Pending
  <2>3. CASE ~Pending(r)
    <3>1. /\ cursor' = cursor /\ scans' = scans /\ lost'[r] = lost[r]
          /\ since' = since /\ looked' = looked
      BY <2>1, <2>3 DEF CutShort, rows, Pending, Typed, TypeOK
    <3>. QED  BY <1>0, <2>1, <2>3, <3>1, CadenceFrame
  <2>. QED  BY <2>2, <2>3
<1>9. CASE PollEnds \/ Restart \/ Later \/ UNCHANGED vars
  <2>1. /\ definition' = definition /\ cursor' = cursor /\ scans' = scans
        /\ lost' = lost /\ since' = since /\ looked' = looked
        /\ hand' = hand /\ now <= now'
    BY <1>0, <1>9 DEF PollEnds, Restart, Later, vars, rows, procs, history
  <2>2. (Looking' <=> Looking) /\ (Pending(r)' <=> Pending(r))
    BY <2>1 DEF Looking, Pending
  <2>. QED  BY <1>0, <2>1, <2>2, CadenceFrame
<1>. QED  BY <1>1, <1>2, <1>3, <1>4, <1>5, <1>6, <1>7, <1>8, <1>9 DEF Next

LEMMA AlwaysCadence == Spec => []Cadence
BY InitCadence, NextKeepsCadence, AlwaysTyped, PTL DEF Spec

\* The rows and the history of every schedule keep their types: no boundary is computed from one
\* that is not set (scheduler.ts, observeDue and nextDueAtAfter).
THEOREM SchedulesTyped == Spec => []TypeOK
<1>1. Typed => TypeOK
  BY DEF Typed
<1>. QED  BY <1>1, AlwaysTyped, PTL

\* Whatever the intervals, the edits, the late polls, the failed statements and the crashes: no
\* interval of a cadence has two scans, and its first has none (scheduler.ts, observeDue).
THEOREM ScannedOnce == Spec => []OneScanPerInterval
<1>1. Cadence => OneScanPerInterval
  BY DEF Cadence, CadenceOf, OneScan, OneScanPerInterval, Whole
<1>. QED  BY <1>1, AlwaysCadence, PTL

\* The poll passes over no interval it looks at: the scan of it is queued, or was lost between the
\* two commits that make it.
THEOREM NoIntervalPassedOver == Spec => []EachIntervalScanned
<1>1. Cadence => EachIntervalScanned
  BY DEF Cadence, CadenceOf, EachScanned, EachIntervalScanned, Whole, Served, Scanned
<1>. QED  BY <1>1, AlwaysCadence, PTL
-----------------------------------------------------------------------------
(***************************************************************************)
(* What an assessment can say, for every list of criteria, vacancy and     *)
(* answer of the model.                                                    *)
(***************************************************************************)

\* The outcomes of code and of an accepted answer are outcomes.
LEMMA EvaluationTyped ==
  ASSUME NEW criteria \in Seq(Criterion), NEW job \in JobFacts
  PROVE  Deterministic(criteria, job) \in [DOMAIN criteria -> Outcomes]
BY DEF Deterministic, EvaluateCriterion, Outcomes

LEMMA AlignedTyped ==
  ASSUME NEW criteria \in Seq(Criterion), NEW results \in Seq(CriterionResult),
         CompleteCoverage(criteria, results)
  PROVE  Aligned(criteria, results) \in [DOMAIN criteria -> Outcomes]
<1> SUFFICES ASSUME NEW n \in DOMAIN criteria
             PROVE  results[CHOOSE k \in DOMAIN results :
                              results[k].criterionId = criteria[n].id].outcome \in Outcomes
  BY DEF Aligned
<1>1. \E k \in DOMAIN results : results[k].criterionId = criteria[n].id
  BY DEF CompleteCoverage
<1> QED
  BY <1>1 DEF CompleteCoverage

\* A merge says what code said wherever code said anything.
LEMMA MergeKeepsKnown ==
  ASSUME NEW known, NEW said, NEW n \in DOMAIN known, known[n] # "unknown"
  PROVE  Merged(known, said)[n] = known[n]
BY DEF Merged

LEMMA MergeTyped ==
  ASSUME NEW D, NEW known \in [D -> Outcomes], NEW said \in [D -> Outcomes]
  PROVE  Merged(known, said) \in [D -> Outcomes]
BY DEF Merged, Outcomes

\* A decision names the outcomes of the required criteria: a match has them all passed, a reject has
\* one failed.
LEMMA DecisionMeans ==
  ASSUME NEW criteria \in Seq(Criterion), NEW outcomes \in [DOMAIN criteria -> Outcomes]
  PROVE  /\ DecideMatch(criteria, outcomes) \in Decisions
         /\ DecideMatch(criteria, outcomes) = "reject"
              <=> \E n \in DOMAIN criteria :
                    criteria[n].strength = "required" /\ outcomes[n] = "fail"
         /\ DecideMatch(criteria, outcomes) = "match"
              <=> \A n \in DOMAIN criteria :
                    criteria[n].strength = "required" => outcomes[n] = "pass"
BY DEF DecideMatch, RequiredWith, Decisions, Outcomes

\* The model only settles what code left open: whatever it answers, a result accepted with its help
\* has every outcome code knew, and the decision follows from the outcomes reported with it
\* (matching.ts, orchestrateMatching: "The model cannot overturn a known fact").
THEOREM ModelOnlySettlesUnknowns ==
  ASSUME NEW criteria \in Seq(Criterion), NEW job \in JobFacts, NEW adapter \in Adapter,
         OrchestrateMatching(criteria, job, adapter) # Invalid
  PROVE  LET result == OrchestrateMatching(criteria, job, adapter)
             known  == Deterministic(criteria, job) IN
         /\ result.outcomes \in [DOMAIN criteria -> Outcomes]
         /\ \A n \in DOMAIN criteria : known[n] # "unknown" => result.outcomes[n] = known[n]
         /\ result.decision = DecideMatch(criteria, result.outcomes)
<1> DEFINE known == Deterministic(criteria, job)
           said  == Aligned(criteria, adapter.results)
<1>1. known \in [DOMAIN criteria -> Outcomes]
  BY EvaluationTyped
<1>2. CASE OrchestrateMatching(criteria, job, adapter) = Assessed(criteria, known, FALSE)
  BY <1>1, <1>2 DEF Assessed
<1>3. CASE /\ CompleteCoverage(criteria, adapter.results)
           /\ OrchestrateMatching(criteria, job, adapter)
                = Assessed(criteria, Merged(known, said), TRUE)
  <2>1. said \in [DOMAIN criteria -> Outcomes]
    BY <1>3, AlignedTyped DEF Adapter
  <2>2. Merged(known, said) \in [DOMAIN criteria -> Outcomes]
    BY <1>1, <2>1, MergeTyped
  <2>3. ASSUME NEW n \in DOMAIN criteria, known[n] # "unknown"
        PROVE  Merged(known, said)[n] = known[n]
    BY <1>1, <2>3, MergeKeepsKnown
  <2> HIDE DEF known, said
  <2> QED
    BY <1>3, <2>2, <2>3 DEF Assessed, known, said
<1> QED
  BY <1>2, <1>3 DEF OrchestrateMatching

\* A vacancy that code alone rejects or matches is never decided otherwise by a model: its answer is
\* accepted with the same decision or thrown away with an error.
THEOREM CodeDecidesFirst ==
  ASSUME NEW criteria \in Seq(Criterion), NEW job \in JobFacts,
         NEW alone \in Adapter, NEW adapter \in Adapter,
         alone.answers = "nothing",
         OrchestrateMatching(criteria, job, alone).decision \in {"match", "reject"},
         OrchestrateMatching(criteria, job, adapter) # Invalid
  PROVE  OrchestrateMatching(criteria, job, adapter).decision
           = OrchestrateMatching(criteria, job, alone).decision
<1> DEFINE known  == Deterministic(criteria, job)
           result == OrchestrateMatching(criteria, job, adapter)
<1>1. known \in [DOMAIN criteria -> Outcomes]
  BY EvaluationTyped
<1>2. /\ result.outcomes \in [DOMAIN criteria -> Outcomes]
      /\ \A n \in DOMAIN criteria : known[n] # "unknown" => result.outcomes[n] = known[n]
      /\ result.decision = DecideMatch(criteria, result.outcomes)
  BY ModelOnlySettlesUnknowns
<1>3. OrchestrateMatching(criteria, job, alone) = Assessed(criteria, known, FALSE)
  BY DEF OrchestrateMatching, Invalid
<1>4. OrchestrateMatching(criteria, job, alone).decision = DecideMatch(criteria, known)
  BY <1>3 DEF Assessed
<1> HIDE DEF known, result
<1>5. CASE DecideMatch(criteria, known) = "match"
  <2>1. \A n \in DOMAIN criteria : criteria[n].strength = "required" => known[n] = "pass"
    BY <1>1, <1>5, DecisionMeans
  <2>2. \A n \in DOMAIN criteria : criteria[n].strength = "required" => result.outcomes[n] = "pass"
    BY <1>2, <2>1
  <2>3. result.decision = "match"
    BY <1>2, <2>2, DecisionMeans
  <2> QED
    BY <1>4, <1>5, <2>3 DEF result
<1>6. CASE DecideMatch(criteria, known) = "reject"
  <2>1. PICK n \in DOMAIN criteria : criteria[n].strength = "required" /\ known[n] = "fail"
    BY <1>1, <1>6, DecisionMeans
  <2>2. result.outcomes[n] = "fail"
    BY <1>2, <2>1
  <2>3. result.decision = "reject"
    BY <1>2, <2>1, <2>2, DecisionMeans
  <2> QED
    BY <1>4, <1>6, <2>3 DEF result
<1> QED
  BY <1>4, <1>5, <1>6
=============================================================================
