---------------------------- MODULE Interventions ----------------------------
(***************************************************************************)
(* Human browser interventions: the interventions table, its one-time      *)
(* viewer tickets, the dashboard requests that move a task or issue a      *)
(* ticket, and the bridge that suspends the automation and opens views.    *)
(* Every library call is one immediate transaction; only the resolve route *)
(* awaits (the request body) between its reading and its transaction.      *)
(* The bridge is not in the repository: its steps apply the exported       *)
(* hooks and the transition table of the domain package.                   *)
(***************************************************************************)
EXTENDS Naturals, FiniteSets

CONSTANTS
  Tasks,          \* intervention ids
  Sessions,       \* dashboard session digests
  Tokens,         \* hashes of the tickets that can be drawn
  Clients,        \* dashboard screens that send requests
  Resolutions,    \* what a user may report
  None,
  TTL,            \* life of a ticket
  MaxTime,        \* bound on the clock
  MaxGeneration   \* bound on the browser restarts

ASSUME TTLAssumption == TTL \in Nat \ {0}
ASSUME BoundAssumption == MaxTime \in Nat /\ MaxGeneration \in Nat

VARIABLES
  tasks,    \* id -> row of interventions, None before it is registered
  tickets,  \* token -> row of intervention_viewer_tickets, None before
  browser,  \* id -> generation of the browser now open for the task
  seen,     \* client -> the task and revision on its screen
  waiting,  \* client -> the resolve request that awaits its body
  now       \* the wall clock

vars == <<tasks, tickets, browser, seen, waiting, now>>

Ended == {"resolved", "cancelled", "expired"}
States == {"open", "takeover_requested", "suspended", "human_active", "resolving"} \cup Ended
Task == [state : States, generation : 0..MaxGeneration, revision : Nat, resolution : Resolutions \cup {None}]
Bindings == [session : Sessions, task : Tasks, generation : 0..MaxGeneration]
Moment == Nat \cup {None}
Ticket == [binding : Bindings, expires : Nat, consumed : Moment, revoked : Moment]
Screen == [task : Tasks, revision : Nat]

ASSUME NoneAssumption == None \notin Nat \cup Resolutions \cup Task \cup Ticket \cup Screen

\* The steps of transitionIntervention: event, state it needs, state it leads to.
Moves ==
  {<<"request_takeover", "open", "takeover_requested">>,
   <<"suspend_automation", "takeover_requested", "suspended">>,
   <<"begin_human_control", "suspended", "human_active">>,
   <<"begin_resolution", "human_active", "resolving">>,
   <<"resolve", "resolving", "resolved">>}
  \cup {<<"cancel", s, "cancelled">> : s \in States \ Ended}
  \cup {<<"expire", s, "expired">> : s \in States \ Ended}

Registered(i) == tasks[i] # None
Revised(row, s) == [row EXCEPT !.state = s, !.revision = @ + 1]

\* A legal event on the current row, with the revision raised in the same statement.
Transition(i, event) ==
  /\ Registered(i)
  /\ \E s \in States :
       /\ <<event, tasks[i].state, s>> \in Moves
       /\ tasks' = [tasks EXCEPT ![i] = Revised(@, s)]

Init ==
  /\ tasks = [i \in Tasks |-> None]
  /\ tickets = [t \in Tokens |-> None]
  /\ browser = [i \in Tasks |-> 0]
  /\ seen = [c \in Clients |-> None]
  /\ waiting = [c \in Clients |-> None]
  /\ now = 0

(***************************************************************************)
(* The bridge                                                              *)
(***************************************************************************)
Opened(i) == [state |-> "open", generation |-> browser[i], revision |-> 1, resolution |-> None]

\* An id that is already registered keeps its row, the browser's generation included.
RegisterIntervention(i) ==
  /\ ~Registered(i)
  /\ tasks' = [tasks EXCEPT ![i] = Opened(i)]
  /\ UNCHANGED <<tickets, browser, seen, waiting, now>>

AcknowledgeSuspension(i) ==
  /\ Transition(i, "suspend_automation")
  /\ UNCHANGED <<tickets, browser, seen, waiting, now>>

\* The other events of the domain, which no code of the repository sends yet.
BridgeMoves(i) ==
  /\ \E event \in {"begin_human_control", "begin_resolution", "cancel", "expire"} : Transition(i, event)
  /\ UNCHANGED <<tickets, browser, seen, waiting, now>>

\* The browser is opened again: its generation grows.
Reopen(i) ==
  /\ browser[i] < MaxGeneration
  /\ browser' = [browser EXCEPT ![i] = @ + 1]
  /\ UNCHANGED <<tasks, tickets, seen, waiting, now>>

(***************************************************************************)
(* Dashboard requests                                                      *)
(***************************************************************************)
GetIntervention(c, i) ==
  /\ Registered(i)
  /\ seen' = [seen EXCEPT ![c] = [task |-> i, revision |-> tasks[i].revision]]
  /\ UNCHANGED <<tasks, tickets, browser, waiting, now>>

\* The If-Match revision is the one the client read.
Current(screen) ==
  /\ screen # None
  /\ Registered(screen.task)
  /\ tasks[screen.task].revision = screen.revision

RequestTakeover(c) ==
  /\ Current(seen[c])
  /\ Transition(seen[c].task, "request_takeover")
  /\ UNCHANGED <<tickets, browser, seen, waiting, now>>

PostResolve(c) ==
  /\ seen[c] # None
  /\ waiting[c] = None
  /\ waiting' = [waiting EXCEPT ![c] = seen[c]]
  /\ UNCHANGED <<tasks, tickets, browser, seen, now>>

\* Mutant: the revision read before the body was awaited is not compared again.
CanResolveFromAnyScreen(screen) ==
  screen # None /\ Registered(screen.task) /\ tasks[screen.task].state = "resolving"
CanResolve(screen) == Current(screen) /\ tasks[screen.task].state = "resolving"

\* The body has arrived; the revision is compared again inside the transaction.
ResolveIntervention(c, r) ==
  /\ waiting[c] # None
  /\ CanResolve(waiting[c])
  /\ tasks' = [tasks EXCEPT ![waiting[c].task] = [Revised(@, "resolved") EXCEPT !.resolution = r]]
  /\ waiting' = [waiting EXCEPT ![c] = None]
  /\ UNCHANGED <<tickets, browser, seen, now>>

\* A stale revision, a wrong state or a malformed body.
RefuseResolve(c) ==
  /\ waiting[c] # None
  /\ waiting' = [waiting EXCEPT ![c] = None]
  /\ UNCHANGED <<tasks, tickets, browser, seen, now>>

(***************************************************************************)
(* Viewer tickets                                                          *)
(***************************************************************************)
\* Mutant: a ticket that was used stays usable until it expires.
UsableToTheEnd(t) ==
  /\ tickets[t] # None
  /\ tickets[t].revoked = None
  /\ tickets[t].expires > now
Usable(t) ==
  /\ tickets[t] # None
  /\ tickets[t].consumed = None
  /\ tickets[t].revoked = None
  /\ tickets[t].expires > now

\* Mutant: tickets are issued as soon as a takeover is requested.
TicketStatesEarly == {"takeover_requested", "suspended"}
TicketStates == {"suspended"}

IssueViewTicket(i, s, t) ==
  LET b == [session |-> s, task |-> i, generation |-> tasks[i].generation] IN
  /\ Registered(i)
  /\ tasks[i].state \in TicketStates
  /\ tickets[t] = None
  /\ ~ \E u \in Tokens : Usable(u) /\ tickets[u].binding = b
  /\ tickets' = [tickets EXCEPT ![t] =
       [binding |-> b, expires |-> now + TTL, consumed |-> None, revoked |-> None]]
  /\ UNCHANGED <<tasks, browser, seen, waiting, now>>

\* What the bridge presents at the upgrade of a connection: the session of the
\* request, the task of the path, and the generation of the browser it has open.
Presented(s, i) == [session |-> s, task |-> i, generation |-> browser[i]]

\* Mutant: the generation of the browser is not compared.
BindingMatchesAnyGeneration(t, b) ==
  tickets[t].binding.session = b.session /\ tickets[t].binding.task = b.task
BindingMatches(t, b) == tickets[t].binding = b

ConsumeViewTicket(t, s, i) ==
  /\ Usable(t)
  /\ BindingMatches(t, Presented(s, i))
  /\ tickets' = [tickets EXCEPT ![t].consumed = now]
  /\ UNCHANGED <<tasks, browser, seen, waiting, now>>

Tick ==
  /\ now < MaxTime
  /\ now' = now + 1
  /\ UNCHANGED <<tasks, tickets, browser, seen, waiting>>

-----------------------------------------------------------------------------
ByBridge ==
  \E i \in Tasks :
    \/ RegisterIntervention(i)
    \/ AcknowledgeSuspension(i)
    \/ BridgeMoves(i)
    \/ Reopen(i)
    \/ \E t \in Tokens, s \in Sessions : ConsumeViewTicket(t, s, i)

ByClient ==
  \E c \in Clients :
    \/ \E i \in Tasks : GetIntervention(c, i)
    \/ RequestTakeover(c)
    \/ PostResolve(c)
    \/ \E r \in Resolutions : ResolveIntervention(c, r)
    \/ RefuseResolve(c)

Next ==
  \/ ByBridge
  \/ ByClient
  \/ \E i \in Tasks, s \in Sessions, t \in Tokens : IssueViewTicket(i, s, t)
  \/ Tick

Spec == Init /\ [][Next]_vars

-----------------------------------------------------------------------------
TypeOK ==
  /\ tasks \in [Tasks -> Task \cup {None}]
  /\ tickets \in [Tokens -> Ticket \cup {None}]
  /\ browser \in [Tasks -> 0..MaxGeneration]
  /\ seen \in [Clients -> Screen \cup {None}]
  /\ waiting \in [Clients -> Screen \cup {None}]
  /\ now \in Nat

\* Whoever holds a ticket, used or not, holds it for a task whose automation
\* had acknowledged its suspension: no order of requests of the dashboard, the
\* worker and the bridge gives control before that, or takes the
\* acknowledgement back (issueViewTicket, transitionIntervention).
ControlAfterSuspension ==
  \A t \in Tokens : tickets[t] # None =>
    LET row == tasks[tickets[t].binding.task] IN
    row # None /\ row.state \notin {"open", "takeover_requested"}

\* The revision says how far the task is: nothing is skipped, repeated or
\* undone by requests that carry the revision of an older screen, so a revision
\* a client has read names one state of the row (withRevision, acknowledgeSuspension).
Stage(s) ==
  CASE s = "open" -> {1}
    [] s = "takeover_requested" -> {2}
    [] s = "suspended" -> {3}
    [] s = "human_active" -> {4}
    [] s = "resolving" -> {5}
    [] s = "resolved" -> {6}
    [] OTHER -> 2..6

RevisionTellsState ==
  \A i \in Tasks : Registered(i) =>
    /\ tasks[i].revision \in Stage(tasks[i].state)
    /\ tasks[i].resolution # None <=> tasks[i].state = "resolved"

\* Who resolves a task had it on the screen as being resolved: a request sent from an earlier screen
\* that waits for its body while the bridge moves the task on does not end it (resolveIntervention).
ResolverSawResolving ==
  [][\A i \in Tasks :
       Registered(i) /\ tasks[i].state # "resolved" /\ tasks'[i].state = "resolved" =>
         \E c \in Clients :
           /\ waiting[c] # None /\ waiting'[c] = None
           /\ waiting[c].task = i /\ waiting[c].revision \in Stage("resolving")]_vars

\* No ticket opens a view of a browser that was opened again after the task was
\* registered, however long the ticket is still good for (consumeViewTicket).
ViewsTheOpenBrowser ==
  [][\A t \in Tokens :
       tickets[t] # None /\ tickets[t].consumed = None /\ tickets'[t].consumed # None =>
         LET i == tickets[t].binding.task IN
         /\ browser[i] = tickets[t].binding.generation
         /\ browser[i] = tasks[i].generation]_vars

\* The table of tickets keeps every promise of the ledger of the domain package,
\* which intervention.ts says may be backed by a database (issueViewTicket,
\* consumeViewTicket).
Ledger == INSTANCE TicketLedger WITH Lifetimes <- {TTL}
ImplementsLedger == Ledger!Spec
OneUsableTicket == Ledger!OneUsable

=============================================================================
