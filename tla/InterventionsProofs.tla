------------------------ MODULE InterventionsProofs ------------------------
(***************************************************************************)
(* Proofs about Interventions for any number of tasks, sessions, tokens    *)
(* and screens, any life of a ticket and any bounds.                       *)
(***************************************************************************)
EXTENDS Interventions, TLAPS

\* A ticket carries the browser generation of its task.
GenerationKept ==
  \A t \in Tokens : tickets[t] # None =>
    LET b == tickets[t].binding IN tasks[b.task] # None /\ b.generation = tasks[b.task].generation

TicketInv == ControlAfterSuspension /\ GenerationKept /\ OneUsableTicket
IInv == TypeOK /\ RevisionTellsState /\ TicketInv

LEMMA InitInv == Init => IInv
<1> SUFFICES ASSUME Init PROVE IInv
  OBVIOUS
<1>1. TypeOK
  BY BoundAssumption DEF Init, TypeOK
<1>2. RevisionTellsState
  BY DEF Init, RevisionTellsState, Registered
<1>3. TicketInv
  BY DEF Init, TicketInv, ControlAfterSuspension, GenerationKept, OneUsableTicket, Ledger!OneUsable,
         Ledger!Usable, Ledger!Issued
<1>. QED  BY <1>1, <1>2, <1>3 DEF IInv

LEMMA RevisedRow ==
  ASSUME NEW row \in Task, NEW s \in States
  PROVE  /\ Revised(row, s) \in Task
         /\ Revised(row, s).state = s
         /\ Revised(row, s).revision = row.revision + 1
         /\ Revised(row, s).generation = row.generation
         /\ Revised(row, s).resolution = row.resolution
<1>1. [row EXCEPT !.state = s] \in Task
  BY DEF Task
<1>2. row.revision + 1 \in Nat /\ row.revision = [row EXCEPT !.state = s].revision
  BY DEF Task
<1>3. [[row EXCEPT !.state = s] EXCEPT !.revision = row.revision + 1] \in Task
  BY <1>1, <1>2 DEF Task
<1>4. Revised(row, s) = [[row EXCEPT !.state = s] EXCEPT !.revision = row.revision + 1]
  BY <1>2 DEF Revised
<1>. QED  BY <1>1, <1>2, <1>3, <1>4 DEF Task

\* A move of the table keeps the row well formed, in step with its revision,
\* and does not take an acknowledged suspension back.
LEMMA MoveKeepsRow ==
  ASSUME IInv, NEW i \in Tasks, NEW event, Transition(i, event), event # "resolve"
  PROVE  /\ tasks' \in [Tasks -> Task \cup {None}]
         /\ RevisionTellsState'
         /\ \A j \in Tasks : tasks[j] # None =>
              /\ tasks'[j] # None
              /\ tasks'[j].generation = tasks[j].generation
              /\ tasks[j].state \notin {"open", "takeover_requested"}
                   => tasks'[j].state \notin {"open", "takeover_requested"}
<1>1. PICK s \in States : /\ <<event, tasks[i].state, s>> \in Moves
                          /\ tasks' = [tasks EXCEPT ![i] = Revised(@, s)]
  BY DEF Transition
<1>2. tasks \in [Tasks -> Task \cup {None}] /\ tasks[i] \in Task /\ tasks[i] # None
  BY DEF IInv, TypeOK, Transition, Registered
<1>3. /\ Revised(tasks[i], s) \in Task
      /\ Revised(tasks[i], s).state = s
      /\ Revised(tasks[i], s).revision = tasks[i].revision + 1
      /\ Revised(tasks[i], s).generation = tasks[i].generation
      /\ Revised(tasks[i], s).resolution = tasks[i].resolution
  BY <1>2, RevisedRow
<1>4. /\ tasks[i].state \notin Ended
      /\ s # "resolved"
      /\ s \notin {"open"}
      /\ s = "takeover_requested" => tasks[i].state = "open"
      /\ s = "suspended" => tasks[i].state = "takeover_requested"
      /\ s = "human_active" => tasks[i].state = "suspended"
      /\ s = "resolving" => tasks[i].state = "human_active"
  BY <1>1 DEF Moves, Ended, States
<1>5. tasks'[i] = Revised(tasks[i], s) /\ \A j \in Tasks : j # i => tasks'[j] = tasks[j]
  BY <1>1, <1>2
<1>6. tasks' \in [Tasks -> Task \cup {None}]
  BY <1>1, <1>2, <1>3
<1>7. tasks'[i] # None
  BY <1>3, <1>5, NoneAssumption
<1>8. RevisionTellsState'
  <2> SUFFICES ASSUME NEW j \in Tasks, tasks'[j] # None
               PROVE  /\ tasks'[j].revision \in Stage(tasks'[j].state)
                      /\ tasks'[j].resolution # None <=> tasks'[j].state = "resolved"
    BY DEF RevisionTellsState, Registered
  <2>1. CASE j # i
    BY <2>1, <1>5 DEF IInv, RevisionTellsState, Registered
  <2>2. CASE j = i
    <3>1. /\ tasks[i].revision \in Stage(tasks[i].state)
          /\ tasks[i].resolution = None
      BY <1>2, <1>4 DEF IInv, RevisionTellsState, Registered, Ended
    <3>2. tasks[i].state \in States /\ tasks[i].revision \in Nat
      BY <1>2 DEF Task
    <3>3. tasks[i].revision + 1 \in Stage(s)
      <4>1. tasks[i].state \in {"open", "takeover_requested", "suspended", "human_active", "resolving"}
        BY <3>2, <1>4 DEF States
      <4>2. s \in {"takeover_requested", "suspended", "human_active", "resolving", "cancelled", "expired"}
        BY <1>4 DEF States, Ended
      <4>3. tasks[i].revision \in 1..5
        BY <4>1, <3>1 DEF Stage
      <4>4. CASE s \in {"cancelled", "expired"}
        BY <4>4, <4>3 DEF Stage
      <4>5. CASE s \in {"takeover_requested", "suspended", "human_active", "resolving"}
        BY <4>5, <1>4, <3>1 DEF Stage
      <4>. QED  BY <4>2, <4>4, <4>5
    <3>. QED  BY <2>2, <1>3, <1>4, <1>5, <3>1, <3>3
  <2>. QED  BY <2>1, <2>2
<1>9. ASSUME NEW j \in Tasks, tasks[j] # None
      PROVE  /\ tasks'[j] # None
             /\ tasks'[j].generation = tasks[j].generation
             /\ tasks[j].state \notin {"open", "takeover_requested"}
                  => tasks'[j].state \notin {"open", "takeover_requested"}
  <2>1. CASE j = i
    BY <2>1, <1>3, <1>4, <1>5, <1>7
  <2>2. CASE j # i
    BY <2>2, <1>5, <1>9
  <2>. QED  BY <2>1, <2>2
<1>. QED  BY <1>6, <1>8, <1>9

\* Both parts of TicketInv speak of tickets, rows and the clock only.
LEMMA TicketsUntouched ==
  ASSUME IInv, UNCHANGED <<tickets, now>>,
         \A j \in Tasks : tasks[j] # None =>
           /\ tasks'[j] # None
           /\ tasks'[j].generation = tasks[j].generation
           /\ tasks[j].state \notin {"open", "takeover_requested"}
                => tasks'[j].state \notin {"open", "takeover_requested"}
  PROVE  TicketInv'
<1>1. ControlAfterSuspension'
  <2> SUFFICES ASSUME NEW t \in Tokens, tickets[t] # None
               PROVE  LET row == tasks'[tickets[t].binding.task] IN
                      row # None /\ row.state \notin {"open", "takeover_requested"}
    BY DEF ControlAfterSuspension
  <2>1. tickets[t].binding.task \in Tasks
    BY DEF IInv, TypeOK, Ticket, Bindings
  <2>. QED  BY <2>1 DEF IInv, TicketInv, ControlAfterSuspension
<1>2. OneUsableTicket'
  BY DEF IInv, TicketInv, OneUsableTicket, Ledger!OneUsable, Ledger!Usable, Ledger!Issued
<1>3. GenerationKept'
  <2> SUFFICES ASSUME NEW t \in Tokens, tickets[t] # None
               PROVE  LET b == tickets[t].binding IN
                      tasks'[b.task] # None /\ b.generation = tasks'[b.task].generation
    BY DEF GenerationKept
  <2>1. tickets[t].binding.task \in Tasks
    BY DEF IInv, TypeOK, Ticket, Bindings
  <2>. QED  BY <2>1 DEF IInv, TicketInv, GenerationKept
<1>. QED  BY <1>1, <1>2, <1>3 DEF TicketInv

LEMMA MoveKeepsInv ==
  ASSUME IInv, NEW i \in Tasks, NEW event, Transition(i, event), event # "resolve",
         UNCHANGED <<tickets, browser, seen, waiting, now>>
  PROVE  IInv'
<1>1. TypeOK'
  BY MoveKeepsRow DEF IInv, TypeOK
<1>2. TicketInv'
  BY MoveKeepsRow, TicketsUntouched
<1>. QED  BY <1>1, <1>2, MoveKeepsRow DEF IInv

LEMMA RegisterKeepsInv ==
  ASSUME IInv, NEW i \in Tasks, RegisterIntervention(i)
  PROVE  IInv'
<1> DEFINE row == [state |-> "open", generation |-> browser[i], revision |-> 1, resolution |-> None]
<1>1. row \in Task /\ row # None
  BY NoneAssumption DEF IInv, TypeOK, Task, States
<1>2. /\ tasks'[i] = row /\ tasks[i] = None
      /\ \A j \in Tasks : j # i => tasks'[j] = tasks[j]
  BY DEF IInv, TypeOK, RegisterIntervention, Opened, Registered
<1>3. TypeOK'
  BY <1>1 DEF IInv, TypeOK, RegisterIntervention, Opened
<1>4. RevisionTellsState'
  BY <1>1, <1>2 DEF IInv, RevisionTellsState, Registered, Stage
<1>5. TicketInv'
  BY <1>1, <1>2, TicketsUntouched DEF RegisterIntervention, Opened
<1>. QED  BY <1>3, <1>4, <1>5 DEF IInv

LEMMA ResolveKeepsInv ==
  ASSUME IInv, NEW c \in Clients, NEW r \in Resolutions, ResolveIntervention(c, r)
  PROVE  IInv'
<1> DEFINE i == waiting[c].task
           row == [Revised(tasks[i], "resolved") EXCEPT !.resolution = r]
<1>1. i \in Tasks /\ tasks[i].state = "resolving"
  BY DEF IInv, TypeOK, ResolveIntervention, CanResolve, Screen
<1>2. tasks[i] # None
  BY DEF ResolveIntervention, CanResolve, Current, Registered
<1>3. tasks[i] \in Task /\ tasks[i].revision = 5
  BY <1>1, <1>2 DEF IInv, TypeOK, RevisionTellsState, Registered, Stage
<1>4. /\ Revised(tasks[i], "resolved") \in Task
      /\ Revised(tasks[i], "resolved").state = "resolved"
      /\ Revised(tasks[i], "resolved").revision = 6
      /\ Revised(tasks[i], "resolved").generation = tasks[i].generation
  BY <1>3, RevisedRow DEF States, Ended
<1>5. /\ row \in Task /\ row.state = "resolved" /\ row.revision = 6 /\ row.resolution = r
      /\ row.generation = tasks[i].generation
  BY <1>4 DEF Task
<1>6. row # None /\ r # None
  BY <1>5, NoneAssumption
<1>7. tasks'[i] = row /\ \A j \in Tasks : j # i => tasks'[j] = tasks[j]
  BY <1>1 DEF IInv, TypeOK, ResolveIntervention
<1>8. TypeOK'
  BY <1>5, <1>1 DEF IInv, TypeOK, ResolveIntervention
<1>9. RevisionTellsState'
  <2> DEFINE Told(t) == /\ t.revision \in Stage(t.state)
                        /\ t.resolution # None <=> t.state = "resolved"
  <2>1. Told(row)
    BY <1>5, <1>6 DEF Stage
  <2>2. \A j \in Tasks : tasks[j] # None => Told(tasks[j])
    BY DEF IInv, RevisionTellsState, Registered
  <2>. HIDE DEF Told, row
  <2>3. \A j \in Tasks : tasks'[j] # None => Told(tasks'[j])
    BY <1>7, <2>1, <2>2
  <2>. QED  BY <2>3 DEF RevisionTellsState, Registered, Told
<1>10. TicketInv'
  BY <1>5, <1>6, <1>7, TicketsUntouched DEF ResolveIntervention
<1>. QED  BY <1>8, <1>9, <1>10 DEF IInv

LEMMA IssueKeepsInv ==
  ASSUME IInv, NEW i \in Tasks, NEW s \in Sessions, NEW t \in Tokens, IssueViewTicket(i, s, t)
  PROVE  IInv'
<1> DEFINE b == [session |-> s, task |-> i, generation |-> tasks[i].generation]
           row == [binding |-> b, expires |-> now + TTL, consumed |-> None, revoked |-> None]
<1>1. tasks[i] \in Task /\ tasks[i] # None /\ tasks[i].state = "suspended"
  BY DEF IInv, TypeOK, IssueViewTicket, Registered, TicketStates
<1>2. b \in Bindings
  BY <1>1 DEF Bindings, Task
<1>3. row \in Ticket
  BY <1>2, TTLAssumption DEF Ticket, Moment, IInv, TypeOK
<1>4. /\ tickets'[t] = row /\ row # None
      /\ \A u \in Tokens : u # t => tickets'[u] = tickets[u]
  BY <1>3, NoneAssumption DEF IInv, TypeOK, IssueViewTicket
<1>5. TypeOK'
  BY <1>3 DEF IInv, TypeOK, IssueViewTicket
<1>6. RevisionTellsState'
  BY DEF IInv, RevisionTellsState, Registered, IssueViewTicket
<1>7. ControlAfterSuspension'
  BY <1>1, <1>4 DEF IInv, TicketInv, ControlAfterSuspension, IssueViewTicket
<1>8. OneUsableTicket'
  <2>1. \A u \in Tokens : Usable(u) => tickets[u].binding # b
    BY DEF IssueViewTicket
  <2>2. \A u \in Tokens : u # t => (Ledger!Usable(u)' <=> Usable(u))
    BY <1>4 DEF Ledger!Usable, Ledger!Issued, Usable, IssueViewTicket
  <2> SUFFICES ASSUME NEW u \in Tokens, NEW v \in Tokens, Ledger!Usable(u)', Ledger!Usable(v)',
                      tickets'[u].binding = tickets'[v].binding
               PROVE  u = v
    BY DEF OneUsableTicket, Ledger!OneUsable
  <2>3. CASE u = t /\ v # t
    BY <2>1, <2>2, <2>3, <1>4
  <2>4. CASE u # t /\ v = t
    BY <2>1, <2>2, <2>4, <1>4
  <2>5. CASE u # t /\ v # t
    BY <2>2, <2>5, <1>4 DEF IInv, TicketInv, OneUsableTicket, Ledger!OneUsable, Ledger!Usable,
                           Ledger!Issued, Usable
  <2>. QED  BY <2>3, <2>4, <2>5
<1>9. GenerationKept'
  BY <1>1, <1>4 DEF IInv, TicketInv, GenerationKept, IssueViewTicket
<1>. QED  BY <1>5, <1>6, <1>7, <1>8, <1>9 DEF IInv, TicketInv

LEMMA ConsumeKeepsInv ==
  ASSUME IInv, NEW t \in Tokens, NEW s \in Sessions, NEW i \in Tasks, ConsumeViewTicket(t, s, i)
  PROVE  IInv'
<1> DEFINE row == [tickets[t] EXCEPT !.consumed = now]
<1>1. tickets[t] \in Ticket
  BY DEF IInv, TypeOK, ConsumeViewTicket, Usable
<1>2. row \in Ticket /\ row.binding = tickets[t].binding /\ row.consumed = now
  BY <1>1 DEF Ticket, Moment, IInv, TypeOK
<1>3. /\ tickets'[t] = row
      /\ \A u \in Tokens : u # t => tickets'[u] = tickets[u]
  BY DEF IInv, TypeOK, ConsumeViewTicket
<1>4. now # None /\ row # None
  BY <1>2, NoneAssumption DEF IInv, TypeOK
<1>5. TypeOK'
  BY <1>2 DEF IInv, TypeOK, ConsumeViewTicket
<1>6. RevisionTellsState'
  BY DEF IInv, RevisionTellsState, Registered, ConsumeViewTicket
<1>7. ControlAfterSuspension'
  BY <1>2, <1>3 DEF IInv, TicketInv, ControlAfterSuspension, ConsumeViewTicket, Usable
<1>8. OneUsableTicket'
  <2>1. \A u \in Tokens : Ledger!Usable(u)' => u # t /\ Ledger!Usable(u)
    BY <1>2, <1>3, <1>4 DEF Ledger!Usable, Ledger!Issued, ConsumeViewTicket
  <2>. QED  BY <2>1, <1>3 DEF IInv, TicketInv, OneUsableTicket, Ledger!OneUsable
<1>9. GenerationKept'
  BY <1>2, <1>3 DEF IInv, TicketInv, GenerationKept, ConsumeViewTicket, Usable
<1>. QED  BY <1>5, <1>6, <1>7, <1>8, <1>9 DEF IInv, TicketInv

LEMMA TickKeepsInv ==
  ASSUME IInv, Tick
  PROVE  IInv'
<1>1. TypeOK' /\ RevisionTellsState'
  BY DEF IInv, TypeOK, RevisionTellsState, Registered, Tick
<1>2. ControlAfterSuspension' /\ GenerationKept'
  BY DEF IInv, TicketInv, ControlAfterSuspension, GenerationKept, Tick
<1>3. OneUsableTicket'
  <2>1. \A u \in Tokens : tickets[u] # None => tickets[u].expires \in Nat
    BY DEF IInv, TypeOK, Ticket
  <2>2. \A u \in Tokens : Ledger!Usable(u)' => Ledger!Usable(u)
    BY <2>1 DEF IInv, TypeOK, Ledger!Usable, Ledger!Issued, Tick
  <2>. QED  BY <2>2 DEF IInv, TicketInv, OneUsableTicket, Ledger!OneUsable, Tick
<1>. QED  BY <1>1, <1>2, <1>3 DEF IInv, TicketInv

\* Steps that touch neither a task nor a ticket.
LEMMA OthersKeepInv ==
  ASSUME IInv, UNCHANGED <<tasks, tickets, now>>, TypeOK'
  PROVE  IInv'
<1>1. RevisionTellsState'
  BY DEF IInv, RevisionTellsState, Registered
<1>2. TicketInv'
  BY TicketsUntouched
<1>. QED  BY <1>1, <1>2 DEF IInv

LEMMA NextKeepsInv == IInv /\ [Next]_vars => IInv'
<1> SUFFICES ASSUME IInv, [Next]_vars PROVE IInv'
  OBVIOUS
<1> USE DEF ByBridge, ByClient
<1>1. ASSUME NEW i \in Tasks, RegisterIntervention(i) PROVE IInv'
  BY <1>1, RegisterKeepsInv
<1>2. ASSUME NEW i \in Tasks, AcknowledgeSuspension(i) PROVE IInv'
  BY <1>2, MoveKeepsInv DEF AcknowledgeSuspension
<1>3. ASSUME NEW i \in Tasks, BridgeMoves(i) PROVE IInv'
  <2>1. PICK event \in {"begin_human_control", "begin_resolution", "cancel", "expire"} : Transition(i, event)
    BY <1>3 DEF BridgeMoves
  <2>. QED  BY <1>3, <2>1, MoveKeepsInv DEF BridgeMoves
<1>4. ASSUME NEW i \in Tasks, Reopen(i) PROVE IInv'
  <2>1. TypeOK'
    BY <1>4, BoundAssumption DEF IInv, TypeOK, Reopen
  <2>. QED  BY <1>4, <2>1, OthersKeepInv DEF Reopen
<1>5. ASSUME NEW i \in Tasks, NEW t \in Tokens, NEW s \in Sessions, ConsumeViewTicket(t, s, i) PROVE IInv'
  BY <1>5, ConsumeKeepsInv
<1>6. ASSUME NEW c \in Clients, NEW i \in Tasks, GetIntervention(c, i) PROVE IInv'
  <2>1. tasks[i] \in Task
    BY <1>6 DEF IInv, TypeOK, GetIntervention, Registered
  <2>2. [task |-> i, revision |-> tasks[i].revision] \in Screen
    BY <2>1 DEF Task, Screen
  <2>3. TypeOK'
    BY <1>6, <2>2 DEF IInv, TypeOK, GetIntervention
  <2>. QED  BY <1>6, <2>3, OthersKeepInv DEF GetIntervention
<1>7. ASSUME NEW c \in Clients, RequestTakeover(c) PROVE IInv'
  <2>1. seen[c].task \in Tasks
    BY <1>7 DEF IInv, TypeOK, Screen, RequestTakeover, Current
  <2>. QED  BY <1>7, <2>1, MoveKeepsInv DEF RequestTakeover
<1>8. ASSUME NEW c \in Clients, PostResolve(c) PROVE IInv'
  <2>1. TypeOK'
    BY <1>8 DEF IInv, TypeOK, PostResolve
  <2>. QED  BY <1>8, <2>1, OthersKeepInv DEF PostResolve
<1>9. ASSUME NEW c \in Clients, NEW r \in Resolutions, ResolveIntervention(c, r) PROVE IInv'
  BY <1>9, ResolveKeepsInv
<1>10. ASSUME NEW c \in Clients, RefuseResolve(c) PROVE IInv'
  <2>1. TypeOK'
    BY <1>10 DEF IInv, TypeOK, RefuseResolve
  <2>. QED  BY <1>10, <2>1, OthersKeepInv DEF RefuseResolve
<1>11. ASSUME NEW i \in Tasks, NEW s \in Sessions, NEW t \in Tokens, IssueViewTicket(i, s, t) PROVE IInv'
  BY <1>11, IssueKeepsInv
<1>12. CASE Tick
  BY <1>12, TickKeepsInv
<1>13. CASE UNCHANGED vars
  <2>1. TypeOK'
    BY <1>13 DEF IInv, TypeOK, vars
  <2>. QED  BY <1>13, <2>1, OthersKeepInv DEF vars
<1>. QED  BY <1>1, <1>2, <1>3, <1>4, <1>5, <1>6, <1>7, <1>8, <1>9, <1>10, <1>11, <1>12, <1>13 DEF Next

LEMMA AlwaysInv == Spec => []IInv
  BY InitInv, NextKeepsInv, PTL DEF Spec

-----------------------------------------------------------------------------
\* Every variable keeps its type (the tables of migration 010).
THEOREM TypeCorrect == Spec => []TypeOK
<1>1. IInv => TypeOK
  BY DEF IInv
<1>. QED  BY <1>1, AlwaysInv, PTL

\* Nobody holds a ticket for a task whose automation has not acknowledged its
\* suspension (issueViewTicket).
THEOREM NoControlBeforeSuspension == Spec => []ControlAfterSuspension
<1>1. IInv => ControlAfterSuspension
  BY DEF IInv, TicketInv
<1>. QED  BY <1>1, AlwaysInv, PTL

\* A revision names one stage of a task (withRevision, acknowledgeSuspension).
THEOREM RevisionNamesStage == Spec => []RevisionTellsState
<1>1. IInv => RevisionTellsState
  BY DEF IInv
<1>. QED  BY <1>1, AlwaysInv, PTL

\* At most one ticket of a binding opens a view at any moment (issueViewTicket).
THEOREM OneTicketAtATime == Spec => []OneUsableTicket
<1>1. IInv => OneUsableTicket
  BY DEF IInv, TicketInv
<1>. QED  BY <1>1, AlwaysInv, PTL

\* A ticket of an earlier browser generation opens nothing (consumeViewTicket).
THEOREM OldBrowserStaysClosed == Spec => ViewsTheOpenBrowser
<1> DEFINE Opens(t) == tickets[t] # None /\ tickets[t].consumed = None /\ tickets'[t].consumed # None
           Open(i, b) == browser[i] = b.generation /\ browser[i] = tasks[i].generation
<1>1. ASSUME IInv, [Next]_vars, NEW t \in Tokens, Opens(t)
      PROVE  Open(tickets[t].binding.task, tickets[t].binding)
  <2>1. PICK u \in Tokens, s \in Sessions, i \in Tasks : ConsumeViewTicket(u, s, i)
    <3>1. tickets' # tickets
      BY <1>1
    <3>2. ASSUME NEW i \in Tasks, NEW s \in Sessions, NEW u \in Tokens, IssueViewTicket(i, s, u)
          PROVE  FALSE
      <4>1. u # t /\ tickets'[t] = tickets[t]
        BY <1>1, <3>2 DEF IInv, TypeOK, IssueViewTicket
      <4>. QED  BY <1>1, <4>1
    <3>. QED  BY <1>1, <3>1, <3>2 DEF Next, ByBridge, ByClient, vars, RegisterIntervention,
                 AcknowledgeSuspension, BridgeMoves, Reopen, GetIntervention, RequestTakeover,
                 PostResolve, ResolveIntervention, RefuseResolve, Tick
  <2>2. u = t
    BY <1>1, <2>1 DEF IInv, TypeOK, ConsumeViewTicket
  <2>3. tickets[t].binding = Presented(s, i)
    BY <2>1, <2>2 DEF ConsumeViewTicket, BindingMatches
  <2>4. tickets[t].binding.task = i /\ tickets[t].binding.generation = browser[i]
    BY <2>3 DEF Presented
  <2>. QED  BY <1>1, <2>4 DEF IInv, TicketInv, GenerationKept
<1>2. IInv /\ [Next]_vars => [\A t \in Tokens : Opens(t) => Open(tickets[t].binding.task, tickets[t].binding)]_vars
  BY <1>1
<1>3. [\A t \in Tokens : Opens(t) => Open(tickets[t].binding.task, tickets[t].binding)]_vars
      <=> [\A t \in Tokens :
            tickets[t] # None /\ tickets[t].consumed = None /\ tickets'[t].consumed # None =>
              LET i == tickets[t].binding.task IN
              /\ browser[i] = tickets[t].binding.generation
              /\ browser[i] = tasks[i].generation]_vars
  OBVIOUS
<1>. QED  BY <1>2, <1>3, AlwaysInv, PTL DEF Spec, ViewsTheOpenBrowser

\* Nobody resolves a task from a screen that showed it before it was being resolved, however long the
\* body of the request is awaited (resolve/route.ts, withRevision).
THEOREM NoStaleResolve == Spec => ResolverSawResolving
<1> DEFINE Resolves(i) == Registered(i) /\ tasks[i].state # "resolved" /\ tasks'[i].state = "resolved"
           Saw(i) == \E c \in Clients :
                       /\ waiting[c] # None /\ waiting'[c] = None
                       /\ waiting[c].task = i /\ waiting[c].revision \in Stage("resolving")
<1>1. ASSUME IInv, Next, NEW i \in Tasks, Resolves(i)
      PROVE  Saw(i)
  <2> USE DEF IInv, TypeOK
  <2>1. PICK c \in Clients, r \in Resolutions : ResolveIntervention(c, r)
    <3>1. ASSUME NEW j \in Tasks, NEW event, event # "resolve", Transition(j, event)
          PROVE  FALSE
      <4>1. PICK s \in States : /\ <<event, tasks[j].state, s>> \in Moves
                                /\ tasks' = [tasks EXCEPT ![j] = Revised(@, s)]
        BY <3>1 DEF Transition
      <4>2. s # "resolved"
        BY <3>1, <4>1 DEF Moves, Ended
      <4>3. j = i => tasks'[i].state = s
        BY <1>1, <4>1 DEF Revised, Registered, Task
      <4>. QED  BY <1>1, <4>1, <4>2, <4>3
    <3>2. ASSUME NEW j \in Tasks, RegisterIntervention(j) \/ AcknowledgeSuspension(j) \/ BridgeMoves(j)
          PROVE  FALSE
      <4>1. CASE RegisterIntervention(j)
        BY <1>1, <4>1 DEF RegisterIntervention
      <4>2. CASE AcknowledgeSuspension(j) \/ BridgeMoves(j)
        BY <3>1, <4>2 DEF AcknowledgeSuspension, BridgeMoves
      <4>. QED  BY <3>2, <4>1, <4>2
    <3>3. ASSUME NEW c \in Clients, RequestTakeover(c)
          PROVE  FALSE
      <4>1. seen[c].task \in Tasks
        BY <1>1, <3>3 DEF RequestTakeover, Current, Screen
      <4>. QED  BY <3>1, <3>3, <4>1 DEF RequestTakeover
    <3>4. tasks' # tasks
      BY <1>1
    <3>. QED
      BY <1>1, <3>2, <3>3, <3>4 DEF Next, ByBridge, ByClient, Reopen, GetIntervention, PostResolve,
         RefuseResolve, ConsumeViewTicket, IssueViewTicket, Tick
  <2>2. waiting[c] \in Screen /\ waiting[c].task \in Tasks /\ waiting'[c] = None /\ waiting[c] # None
    BY <1>1, <2>1, NoneAssumption DEF ResolveIntervention, Screen
  <2>3. /\ Registered(waiting[c].task) /\ tasks[waiting[c].task].state = "resolving"
        /\ tasks[waiting[c].task].revision = waiting[c].revision
    BY <2>1 DEF ResolveIntervention, CanResolve, Current
  <2>4. waiting[c].revision \in Stage("resolving")
    BY <1>1, <2>2, <2>3 DEF RevisionTellsState
  <2>5. waiting[c].task = i
    BY <1>1, <2>1, <2>2 DEF ResolveIntervention
  <2>. QED  BY <2>2, <2>4, <2>5
<1>2. IInv /\ [Next]_vars => [\A i \in Tasks : Resolves(i) => Saw(i)]_vars
  BY <1>1
<1>. QED  BY <1>2, AlwaysInv, PTL DEF Spec, ResolverSawResolving

\* The table of tickets implements the ledger of the domain package
\* (ViewerTicketLedger).
THEOREM LedgerImplemented == Spec => ImplementsLedger
<1>1. Init => Ledger!Init
  BY DEF Init, Ledger!Init
<1>2. ASSUME IInv, [Next]_vars PROVE [Ledger!Next]_(Ledger!vars)
  <2> USE DEF Ledger!vars
  <2>1. ASSUME NEW i \in Tasks, NEW s \in Sessions, NEW t \in Tokens, IssueViewTicket(i, s, t)
        PROVE  Ledger!Next
    <3> DEFINE b == [session |-> s, task |-> i, generation |-> tasks[i].generation]
    <3>1. b \in Bindings
      BY <1>2, <2>1 DEF IssueViewTicket, Registered, IInv, TypeOK, Task, Bindings
    <3>2. Ledger!Issue(t, b, TTL)
      BY <2>1 DEF IssueViewTicket, Usable, Ledger!Issue, Ledger!Issued, Ledger!Usable, Ledger!Fresh
    <3>. QED  BY <3>1, <3>2 DEF Ledger!Next
  <2>2. ASSUME NEW t \in Tokens, NEW s \in Sessions, NEW i \in Tasks, ConsumeViewTicket(t, s, i)
        PROVE  Ledger!Next
    <3>1. Ledger!Consume(t, Presented(s, i))
      BY <2>2 DEF ConsumeViewTicket, BindingMatches, Usable, Ledger!Consume, Ledger!Usable, Ledger!Issued
    <3>2. Presented(s, i) \in Bindings
      BY <1>2 DEF Presented, Bindings, IInv, TypeOK
    <3>. QED  BY <3>1, <3>2 DEF Ledger!Next
  <2>3. CASE Tick
    BY <2>3, <1>2 DEF Tick, Ledger!Next, Ledger!Later, IInv, TypeOK
  <2>4. CASE UNCHANGED <<tickets, now>>
    BY <2>4
  <2>. QED  BY <1>2, <2>1, <2>2, <2>3, <2>4 DEF Next, ByBridge, ByClient, vars, RegisterIntervention,
               AcknowledgeSuspension, BridgeMoves, Reopen, GetIntervention, RequestTakeover,
               PostResolve, ResolveIntervention, RefuseResolve
<1>. QED  BY <1>1, <1>2, AlwaysInv, PTL DEF Spec, ImplementsLedger, Ledger!Spec
=============================================================================
