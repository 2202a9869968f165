---------------------------- MODULE Applications ----------------------------
(***************************************************************************)
(* Application attempts, their submission intents, the quota reservations  *)
(* of automatic authority and the background operations that drive them.   *)
(*                                                                         *)
(* One Node.js process serves the HTTP handlers and runs the operation     *)
(* worker over one synchronous SQLite connection, so a handler with no     *)
(* await after its first read of a row, and the worker's treatment of one  *)
(* application operation, run without any other code in between.  What can *)
(* fall between two separately committed statements is a crash.            *)
(*                                                                         *)
(* A row that does not exist yet has the state "absent".                   *)
(***************************************************************************)
EXTENDS Naturals, FiniteSets

CONSTANTS
  Attempts,        \* ids of application_attempts rows
  Listings,        \* ids of discovered_listings rows
  Answers,         \* contents of answers_json
  NoAnswers,       \* the answers of a new attempt: []
  Intents,         \* ids of submission_intents rows
  Clients,         \* dashboard tabs and API clients
  Policies,        \* ids of application_policies rows
  PolicySettings,  \* the settings a policy can be given
  Stored,          \* attempts with an approved resume, in the database as found
  None,            \* no policy, no attempt, no operation
  WorkPaused,      \* runtime_control.paused, which only a restore writes
  MaxRevision,     \* bound: answers are edited below this revision only
  MaxDay,          \* bound on the days that pass
  MaxCrashes       \* bound on the crashes of the process

VARIABLES
  attempt,      \* application_attempts
  lastEvent,    \* to_state of the newest application_events row of an attempt
  intent,       \* submission_intents
  reservation,  \* quota_reservations
  operation,    \* state of the attempt's prepare and submit operations
  worker,       \* the operation in hand and the last statement committed for it
  up,           \* the process is running
  crashes,      \* crashes so far
  policy,       \* application_policies
  today,        \* the UTC day
  view,         \* the row version each client read last
  approved      \* history: the answers on the screen when the user approved

attemptVars == <<attempt, lastEvent>>
intentVars  == <<intent, reservation>>
workVars    == <<operation, worker>>
procVars    == <<up, crashes>>
vars == <<attempt, lastEvent, intent, reservation, operation, worker,
          up, crashes, policy, today, view, approved>>

AttemptStates == {"absent", "queued", "preparing", "needs_review", "ready", "submitting",
                  "submission_unknown", "submitted", "failed", "cancelled"}
IntentStates  == {"absent", "committed", "submission_unknown", "submitted", "not_submitted"}
QuotaStates   == {"absent", "reserved", "consumed", "released"}
WorkStates    == {"absent", "queued", "running", "succeeded", "failed"}
Kinds         == {"prepare_application", "submit_application"}
Operations    == Kinds \X Attempts

ASSUME AnswersAssumption  == NoAnswers \in Answers
ASSUME NoneAssumption     == None \notin Attempts \cup Policies \cup Listings \cup Operations
ASSUME StoredAssumption   == Stored \subseteq Attempts
ASSUME BoundsAssumption   == MaxRevision \in Nat /\ MaxDay \in Nat /\ MaxCrashes \in Nat
ASSUME PausedAssumption   == WorkPaused \in BOOLEAN
ASSUME SettingsAssumption ==
  /\ PolicySettings # {}
  /\ PolicySettings \subseteq
       [automatic : BOOLEAN, covers : SUBSET Listings, cap : Nat \ {0}, zone : {0, 1}]

AttemptRow == [state    : AttemptStates,
               revision : Nat,
               listing  : Listings \cup {None},
               answers  : Answers,
               resume   : BOOLEAN]             \* an approved resume is attached
IntentRow  == [app       : Attempts \cup {None},
               answers   : Answers,            \* stands for snapshot_hash
               authority : {"manual", "automatic"},
               state     : IntentStates]
QuotaRow   == [policy : Policies \cup {None}, day : Nat, state : QuotaStates]
ClientView == [app      : Attempts \cup {None},
               revision : Nat,
               state    : AttemptStates,
               answers  : Answers]
WorkerRow  == [op : Operations \cup {None}, done : {"idle", "claimed", "entered", "applied"}]

AbsentAttempt == [state |-> "absent", revision |-> 0, listing |-> None,
                  answers |-> NoAnswers, resume |-> FALSE]
AbsentIntent  == [app |-> None, answers |-> NoAnswers, authority |-> "manual", state |-> "absent"]
AbsentQuota   == [policy |-> None, day |-> 0, state |-> "absent"]
NoView        == [app |-> None, revision |-> 0, state |-> "absent", answers |-> NoAnswers]
Idle          == [op |-> None, done |-> "idle"]
-----------------------------------------------------------------------------
(***************************************************************************)
(* The rows, the indexes and the guards.                                   *)
(***************************************************************************)

\* Mutant: the index forgets attempts whose outcome is unknown.
ActiveStatesWithoutUnknown ==
  {"queued", "preparing", "ready", "needs_review", "submitting", "submitted"}
\* Mutant: the index forgets confirmed attempts.
ActiveStatesWithoutSubmitted ==
  {"queued", "preparing", "ready", "needs_review", "submitting", "submission_unknown"}

\* States of the unique index application_active_listing_idx.
ActiveStates == {"queued", "preparing", "ready", "needs_review", "submitting",
                 "submission_unknown", "submitted"}
ListingFree(l) ==
  \A a \in Attempts : attempt[a].listing = l => attempt[a].state \notin ActiveStates

\* States of the unique index active_submission_intent_idx.
ActiveIntentStates == {"committed", "submission_unknown", "submitted"}
IntentFree(a) ==
  \A i \in Intents : intent[i].app = a => intent[i].state \notin ActiveIntentStates

\* Intents the user's verdict settles.
OpenIntents(a) ==
  {i \in Intents : intent[i].app = a /\ intent[i].state \in {"committed", "submission_unknown"}}

\* Mutant: a transition that leaves the revision alone.
MoveKeepingRevision(a, s) == [attempt EXCEPT ![a].state = s]

Move(a, s) == [attempt EXCEPT ![a].state = s, ![a].revision = @ + 1]

NewAttempt(l, ans, res) ==
  [state |-> "queued", revision |-> 1, listing |-> l, answers |-> ans, resume |-> res]

\* The listing stands for the search and the destination origin the policy lists.
ApplicationGuard(a, p) ==
  p # None => /\ policy[p].automatic
              /\ attempt[a].listing \in policy[p].covers
              /\ attempt[a].resume

DayKey(p) == today + policy[p].zone

HoldsSlot(i, p, d) ==
  /\ reservation[i].policy = p
  /\ reservation[i].day = d
  /\ reservation[i].state \in {"reserved", "consumed"}
Used(p, d) == Cardinality({i \in Intents : HoldsSlot(i, p, d)})
\* Mutant: the cap is compared off by one.
QuotaLeftOffByOne(p) == Used(p, DayKey(p)) <= policy[p].cap
QuotaLeft(p) == Used(p, DayKey(p)) < policy[p].cap

\* A handler runs when the process is up and no operation is half done.
Serving == up /\ worker = Idle
-----------------------------------------------------------------------------
Init ==
  /\ \E place \in [Stored -> Listings] :
       /\ \A a, b \in Stored : place[a] = place[b] => a = b
       /\ attempt = [a \in Attempts |->
                       IF a \in Stored
                         THEN [state |-> "needs_review", revision |-> 3, listing |-> place[a],
                               answers |-> NoAnswers, resume |-> TRUE]
                         ELSE AbsentAttempt]
  /\ lastEvent = [a \in Attempts |-> "absent"]
  /\ intent = [i \in Intents |-> AbsentIntent]
  /\ reservation = [i \in Intents |-> AbsentQuota]
  /\ operation = [o \in Operations |->
                    IF o[1] = "prepare_application" /\ o[2] \in Stored THEN "succeeded" ELSE "absent"]
  /\ worker = Idle
  /\ up = TRUE
  /\ crashes = 0
  /\ policy \in [Policies -> PolicySettings]
  /\ today = 0
  /\ view = [c \in Clients |-> NoView]
  /\ approved = [a \in Attempts |-> NoAnswers]
-----------------------------------------------------------------------------
(***************************************************************************)
(* HTTP handlers.  A refused request changes nothing and is no action.     *)
(* If-Match also accepts "*", so a stale revision alone never stops a      *)
(* handler; the snapshot hash of approve and submit does.                  *)
(***************************************************************************)

Create(a, l) ==
  /\ Serving
  /\ attempt[a].state = "absent"
  /\ ListingFree(l)
  /\ attempt' = [attempt EXCEPT ![a] = NewAttempt(l, NoAnswers, FALSE)]
  /\ operation' = [operation EXCEPT ![<<"prepare_application", a>>] = "queued"]
  /\ UNCHANGED <<lastEvent, intentVars, worker, procVars, policy, today, view, approved>>

Read(c, a) ==
  /\ Serving
  /\ attempt[a].state # "absent"
  /\ view' = [view EXCEPT ![c] = [app |-> a, revision |-> attempt[a].revision,
                                  state |-> attempt[a].state, answers |-> attempt[a].answers]]
  /\ UNCHANGED <<attemptVars, intentVars, workVars, procVars, policy, today, approved>>

\* Mutant: answers stay editable after the approval.
EditableStatesAfterApproval == {"queued", "preparing", "needs_review", "ready"}
EditableStates == {"queued", "preparing", "needs_review"}

EditAnswers(a, ans) ==
  /\ Serving
  /\ attempt[a].state \in EditableStates
  /\ attempt[a].revision < MaxRevision
  /\ attempt' = [attempt EXCEPT ![a].answers = ans, ![a].revision = @ + 1]
  /\ UNCHANGED <<lastEvent, intentVars, workVars, procVars, policy, today, view, approved>>

\* The hash a client sends covers the application, revision and answers it read.
SnapshotCurrent(c, a) ==
  /\ view[c].app = a
  /\ view[c].revision = attempt[a].revision
  /\ view[c].answers = attempt[a].answers

Approve(c, a) ==
  /\ Serving
  /\ SnapshotCurrent(c, a)
  /\ attempt[a].state = "needs_review"
  /\ attempt' = Move(a, "ready")
  /\ lastEvent' = [lastEvent EXCEPT ![a] = "ready"]
  /\ approved' = [approved EXCEPT ![a] = view[c].answers]
  /\ UNCHANGED <<intentVars, workVars, procVars, policy, today, view>>

\* p is the policyId of the body or else the policy_ref the client gave at creation, so any policy
\* or none; without one the authority is manual.
Submit(c, a, i, p) ==
  /\ Serving
  /\ attempt[a].state = "ready"
  /\ SnapshotCurrent(c, a)
  /\ ApplicationGuard(a, p)
  /\ intent[i].state = "absent"
  /\ IntentFree(a)
  /\ p # None => QuotaLeft(p)
  /\ intent' = [intent EXCEPT ![i] =
                  [app |-> a, answers |-> attempt[a].answers, state |-> "committed",
                   authority |-> IF p = None THEN "manual" ELSE "automatic"]]
  /\ reservation' = IF p = None THEN reservation
                    ELSE [reservation EXCEPT ![i] =
                            [policy |-> p, day |-> DayKey(p), state |-> "reserved"]]
  /\ attempt' = Move(a, "submitting")
  /\ lastEvent' = [lastEvent EXCEPT ![a] = "submitting"]
  /\ operation' = [operation EXCEPT ![<<"submit_application", a>>] = "queued"]
  /\ UNCHANGED <<worker, procVars, policy, today, view, approved>>

\* Mutant: cancellation is accepted while the submission is in flight.
CancellableStatesInFlight == {"queued", "preparing", "ready", "needs_review", "submitting"}
CancellableStates == {"queued", "preparing", "ready", "needs_review"}

Cancel(a) ==
  /\ Serving
  /\ attempt[a].state \in CancellableStates
  /\ attempt' = Move(a, "cancelled")
  /\ lastEvent' = [lastEvent EXCEPT ![a] = "cancelled"]
  /\ UNCHANGED <<intentVars, workVars, procVars, policy, today, view, approved>>

\* The retry inherits listing, answers and attachments; the unique index may refuse it.
Retry(a, b) ==
  /\ Serving
  /\ attempt[a].state \in {"failed", "cancelled"}
  /\ attempt[b].state = "absent"
  /\ ListingFree(attempt[a].listing)
  /\ attempt' = [attempt EXCEPT ![b] = NewAttempt(attempt[a].listing, attempt[a].answers,
                                                  attempt[a].resume)]
  /\ lastEvent' = [lastEvent EXCEPT ![a] = "queued", ![b] = "queued"]
  /\ operation' = [operation EXCEPT ![<<"prepare_application", b>>] = "queued"]
  /\ UNCHANGED <<intentVars, worker, procVars, policy, today, view, approved>>

Settled(verdict) == IF verdict = "submitted" THEN "consumed" ELSE "released"

Outcome(verdict) == IF verdict = "submitted" THEN "submitted" ELSE "failed"

\* The user's verdict on an unknown submission: attempt, intents and quota in one transaction.
ResolveSubmission(a, verdict) ==
  /\ Serving
  /\ attempt[a].state = "submission_unknown"
  /\ attempt' = Move(a, Outcome(verdict))
  /\ intent' = [i \in Intents |-> IF i \in OpenIntents(a) THEN [intent[i] EXCEPT !.state = verdict]
                                  ELSE intent[i]]
  /\ reservation' = [i \in Intents |->
                       IF i \in OpenIntents(a) /\ reservation[i].state = "reserved"
                         THEN [reservation[i] EXCEPT !.state = Settled(verdict)]
                         ELSE reservation[i]]
  /\ lastEvent' = [lastEvent EXCEPT ![a] = Outcome(verdict)]
  /\ UNCHANGED <<workVars, procVars, policy, today, view, approved>>

PatchPolicy(p, s) ==
  /\ Serving
  /\ policy' = [policy EXCEPT ![p] = s]
  /\ UNCHANGED <<attemptVars, intentVars, workVars, procVars, today, view, approved>>
-----------------------------------------------------------------------------
(***************************************************************************)
(* The worker.  created_at has millisecond resolution and follows the wall *)
(* clock, so any queued operation may be the first of ORDER BY created_at. *)
(***************************************************************************)

ClaimOperation(o) ==
  /\ Serving
  /\ ~WorkPaused
  /\ operation[o] = "queued"
  /\ operation' = [operation EXCEPT ![o] = "running"]
  /\ worker' = [op |-> o, done |-> "claimed"]
  /\ UNCHANGED <<attemptVars, intentVars, procVars, policy, today, view, approved>>

InHand(kind, done) == up /\ worker.op # None /\ worker.op[1] = kind /\ worker.done = done

\* First autocommitted statement of prepare_application.
EnterPreparation ==
  /\ InHand("prepare_application", "claimed")
  /\ LET a == worker.op[2] IN
       attempt' = IF attempt[a].state = "queued" THEN Move(a, "preparing") ELSE attempt
  /\ worker' = [worker EXCEPT !.done = "entered"]
  /\ UNCHANGED <<lastEvent, intentVars, operation, procVars, policy, today, view, approved>>

\* Mutant: the second statement does not ask for the state the first one left.
AskForReviewUnguarded ==
  /\ InHand("prepare_application", "entered")
  /\ attempt' = Move(worker.op[2], "needs_review")
  /\ worker' = [worker EXCEPT !.done = "applied"]
  /\ UNCHANGED <<lastEvent, intentVars, operation, procVars, policy, today, view, approved>>

\* Second autocommitted statement of prepare_application.
AskForReview ==
  /\ InHand("prepare_application", "entered")
  /\ LET a == worker.op[2] IN
       attempt' = IF attempt[a].state = "preparing" THEN Move(a, "needs_review") ELSE attempt
  /\ worker' = [worker EXCEPT !.done = "applied"]
  /\ UNCHANGED <<lastEvent, intentVars, operation, procVars, policy, today, view, approved>>

\* The transaction of submit_application: no final browser action, the outcome is unknown.
DispatchSubmission ==
  /\ InHand("submit_application", "claimed")
  /\ LET a == worker.op[2] IN
       /\ intent' = [i \in Intents |->
                       IF intent[i].app = a /\ intent[i].state = "committed"
                         THEN [intent[i] EXCEPT !.state = "submission_unknown"] ELSE intent[i]]
       /\ attempt' = IF attempt[a].state = "submitting" THEN Move(a, "submission_unknown") ELSE attempt
       /\ lastEvent' = [lastEvent EXCEPT ![a] = "submission_unknown"]
  /\ worker' = [worker EXCEPT !.done = "applied"]
  /\ UNCHANGED <<reservation, operation, procVars, policy, today, view, approved>>

FinishOperation ==
  /\ up /\ worker.done = "applied"
  /\ operation' = [operation EXCEPT ![worker.op] = "succeeded"]
  /\ worker' = Idle
  /\ UNCHANGED <<attemptVars, intentVars, procVars, policy, today, view, approved>>
-----------------------------------------------------------------------------
(***************************************************************************)
(* The process and the clock.                                              *)
(***************************************************************************)

Crash ==
  /\ up /\ crashes < MaxCrashes
  /\ up' = FALSE
  /\ crashes' = crashes + 1
  /\ worker' = Idle
  /\ UNCHANGED <<attemptVars, intentVars, operation, policy, today, view, approved>>

\* Mutant: the restart overlooks operations that were running.
NothingInterrupted(o) == FALSE
Interrupted(o) == operation[o] = "running"

\* Mutant: the restart also gives back the quota of submissions it interrupted.
RestartReleasingQuota ==
  /\ ~up
  /\ up' = TRUE
  /\ operation' = [o \in Operations |-> IF Interrupted(o) THEN "failed" ELSE operation[o]]
  /\ reservation' = [i \in Intents |->
                       IF /\ reservation[i].state = "reserved"
                          /\ Interrupted(<<"submit_application", intent[i].app>>)
                         THEN [reservation[i] EXCEPT !.state = "released"] ELSE reservation[i]]
  /\ UNCHANGED <<attemptVars, intent, worker, crashes, policy, today, view, approved>>

\* startRuntime fails interrupted operations; attempts and intents are left as they are.
Restart ==
  /\ ~up
  /\ up' = TRUE
  /\ operation' = [o \in Operations |-> IF Interrupted(o) THEN "failed" ELSE operation[o]]
  /\ UNCHANGED <<attemptVars, intentVars, worker, crashes, policy, today, view, approved>>

NextDay ==
  /\ today < MaxDay
  /\ today' = today + 1
  /\ UNCHANGED <<attemptVars, intentVars, workVars, procVars, policy, view, approved>>
-----------------------------------------------------------------------------
Worker == \/ \E o \in Operations : ClaimOperation(o)
          \/ EnterPreparation
          \/ AskForReview
          \/ DispatchSubmission
          \/ FinishOperation

Next ==
  \/ \E a \in Attempts, l \in Listings : Create(a, l)
  \/ \E c \in Clients, a \in Attempts : Read(c, a)
  \/ \E a \in Attempts, ans \in Answers : EditAnswers(a, ans)
  \/ \E c \in Clients, a \in Attempts : Approve(c, a)
  \/ \E c \in Clients, a \in Attempts, i \in Intents, p \in Policies \cup {None} : Submit(c, a, i, p)
  \/ \E a \in Attempts : Cancel(a)
  \/ \E a, b \in Attempts : Retry(a, b)
  \/ \E a \in Attempts, verdict \in {"submitted", "not_submitted"} : ResolveSubmission(a, verdict)
  \/ \E p \in Policies, s \in PolicySettings : PatchPolicy(p, s)
  \/ Worker
  \/ Crash
  \/ Restart
  \/ NextDay

Spec == Init /\ [][Next]_vars

\* The poll re-arms itself after every pass and the container is restarted
\* unless stopped, so the worker and the restart are weakly fair; users are not.
Fairness == WF_vars(Worker) /\ WF_vars(Restart)
FairSpec == Spec /\ Fairness
-----------------------------------------------------------------------------
(***************************************************************************)
(* Properties.                                                             *)
(***************************************************************************)

\* Every variable holds a value of its table or of its protocol position.
TypeOK ==
  /\ attempt \in [Attempts -> AttemptRow]
  /\ lastEvent \in [Attempts -> AttemptStates]
  /\ intent \in [Intents -> IntentRow]
  /\ reservation \in [Intents -> QuotaRow]
  /\ operation \in [Operations -> WorkStates]
  /\ worker \in WorkerRow
  /\ up \in BOOLEAN
  /\ crashes \in Nat
  /\ policy \in [Policies -> PolicySettings]
  /\ today \in Nat
  /\ view \in [Clients -> ClientView]
  /\ approved \in [Attempts -> Answers]

MayHaveReached(i) == intent[i].state \in ActiveIntentStates

\* At most one intent per vacancy may have reached the employer: while the outcome of one is open
\* or confirmed, no other attempt at the same listing gets an intent (APP-006, APP-010).
NoSecondDelivery ==
  \A i, j \in Intents :
    /\ MayHaveReached(i)
    /\ MayHaveReached(j)
    /\ attempt[intent[i].app].listing = attempt[intent[j].app].listing
    => i = j

\* The intent table and the attempt table tell one story: an open or confirmed intent belongs to an
\* attempt in the corresponding state, such an attempt has its intent, and no other attempt has one.
Mirror(s) == CASE s = "committed"     -> "submitting"
               [] s = "not_submitted" -> "failed"
               [] OTHER               -> s
IntentMatchesAttempt ==
  /\ \A i \in Intents : intent[i].state # "absent" =>
       intent[i].app # None /\ attempt[intent[i].app].state = Mirror(intent[i].state)
  /\ \A a \in Attempts :
       attempt[a].state \in {"submitting", "submission_unknown", "submitted", "failed"} =>
         \E i \in Intents : intent[i].app = a /\ Mirror(intent[i].state) = attempt[a].state

\* A reservation exists for automatic intents only, and is reserved while the outcome is open,
\* consumed when it is confirmed, released when non-delivery is established (APP-005).
Slot(s) == CASE s = "submitted"     -> "consumed"
             [] s = "not_submitted" -> "released"
             [] OTHER               -> "reserved"
ReservationMatchesIntent ==
  \A i \in Intents :
    IF intent[i].state # "absent" /\ intent[i].authority = "automatic"
      THEN reservation[i].state = Slot(intent[i].state)
      ELSE reservation[i] = AbsentQuota

\* What is submitted is what the user saw when approving: no edit, retry or restart slips other
\* answers between the approval and the intent (APP-004).
ApprovedIsSubmitted ==
  \A i \in Intents :
    intent[i].state # "absent" => intent[i].answers = approved[intent[i].app]

\* A revision number names one version of a row: a client holding the current revision has seen the
\* current state and answers, whatever the worker and other clients did since it read them.
RevisionIdentifiesRow ==
  \A c \in Clients : view[c].app # None =>
    LET row == attempt[view[c].app] IN
      view[c].revision = row.revision => view[c].state = row.state /\ view[c].answers = row.answers

\* The quota of policy p on its local day d, seen through the reservation table.
DayQuota(p, d) == INSTANCE Quota WITH
  cap          <- policy[p].cap,
  submitted    <- Cardinality({i \in Intents : HoldsSlot(i, p, d) /\ reservation[i].state = "consumed"}),
  reservations <- [i \in Intents |->
                     IF reservation[i].policy = p /\ reservation[i].day = d
                       THEN reservation[i].state ELSE "absent"]

\* Every step of the handlers is a step of the pure quota of each policy and day, or leaves it
\* alone: a slot is taken only below the cap in force and settled once, and it moves to no other
\* day, whatever the cap, the time zone, a midnight, a crash or a restart do meanwhile.
ImplementsQuota ==
  [][<<reservation, policy>>' # <<reservation, policy>> =>
       \A p \in Policies : \A d \in 0 .. MaxDay + 1 :
         [DayQuota(p, d)!Next]_(DayQuota(p, d)!vars)]_vars

\* An attempt moves only along the transition table of APP-003, and an attempt that is submitted,
\* failed or cancelled never changes again.  From the approval on, each move is the attempt's newest
\* event; the moves of the preparation are recorded nowhere.
Permitted ==
  {<<"absent", "queued">>, <<"queued", "preparing">>, <<"preparing", "needs_review">>,
   <<"needs_review", "ready">>, <<"ready", "submitting">>, <<"submitting", "submission_unknown">>,
   <<"submission_unknown", "submitted">>, <<"submission_unknown", "failed">>}
  \cup {<<s, "cancelled">> : s \in {"queued", "preparing", "ready", "needs_review"}}
Unrecorded == {"queued", "preparing", "needs_review"}
TransitionsPermitted ==
  [][\A a \in Attempts : attempt'[a] # attempt[a] =>
       \/ /\ <<attempt[a].state, attempt'[a].state>> \in Permitted
          /\ attempt'[a].state \in Unrecorded \/ lastEvent'[a] = attempt'[a].state
       \/ /\ attempt'[a].state = attempt[a].state
          /\ attempt[a].state \notin {"submitted", "failed", "cancelled"}]_vars

\* The strengthening NoSecondDelivery needs: one active attempt per vacancy, one intent per attempt.
OneActiveAttempt ==
  \A a, b \in Attempts :
    /\ attempt[a].state \in ActiveStates
    /\ attempt[b].state \in ActiveStates
    /\ attempt[a].listing = attempt[b].listing
    => a = b
OneIntentPerAttempt ==
  \A i, j \in Intents :
    intent[i].state # "absent" /\ intent[j].state # "absent" /\ intent[i].app = intent[j].app => i = j
DeliveryInv == IntentMatchesAttempt /\ OneActiveAttempt /\ OneIntentPerAttempt

\* The mapping to the promise: an intent exposes its listing until non-delivery is established.
DeliveryPromise == INSTANCE Delivery WITH
  exposed   <- [l \in Listings |->
                  {i \in Intents : MayHaveReached(i) /\ attempt[intent[i].app].listing = l}],
  confirmed <- {l \in Listings : \E i \in Intents :
                  intent[i].state = "submitted" /\ attempt[intent[i].app].listing = l},
  spent     <- {i \in Intents : intent[i].state # "absent"}

\* The attempts, intents and handlers implement the promise of module Delivery.
DeliversOnce == DeliveryPromise!Spec

\* A queued operation ends, whether it runs or a crash interrupts it.
OperationsEnd ==
  \A o \in Operations : operation[o] = "queued" ~> operation[o] \in {"succeeded", "failed"}

\* A submission that a crash interrupts ends as one with an unknown outcome, which the user can
\* resolve (APP-010: a restarted worker treats a stale submitting intent so).  The code does not:
\* the restart fails the operation, and the attempt has no other way out of "submitting".
StaleSubmissionsSettle ==
  \A a \in Attempts : attempt[a].state = "submitting" ~> attempt[a].state # "submitting"
=============================================================================
