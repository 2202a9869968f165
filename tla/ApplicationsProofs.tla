------------------------- MODULE ApplicationsProofs -------------------------
(***************************************************************************)
(* Proofs about Applications for every number of attempts, vacancies,      *)
(* intents, clients and policies, and for any number of crashes and days.  *)
(***************************************************************************)
EXTENDS Applications, FiniteSetTheorems, TLAPS

\* Every variable keeps its type.
THEOREM TypeCorrect == Spec => []TypeOK
<1> USE AnswersAssumption, NoneAssumption, StoredAssumption, BoundsAssumption DEF TypeOK
<1>1. Init => TypeOK
  BY DEF Init, AttemptRow, AttemptStates, IntentRow, IntentStates, QuotaRow, QuotaStates,
         WorkStates, WorkerRow, ClientView, AbsentAttempt, AbsentIntent, AbsentQuota, NoView,
         Idle, Operations, Kinds
<1>2. ASSUME TypeOK, [Next]_vars
      PROVE  TypeOK'
  <2> USE <1>2
  <2>0. UNCHANGED vars => TypeOK'
    BY DEF vars
  <2>1. ASSUME NEW a \in Attempts, NEW l \in Listings, Create(a, l)
        PROVE  TypeOK'
    BY <2>1 DEF Create, NewAttempt, AttemptRow, AttemptStates, Operations, Kinds, WorkStates,
                intentVars, procVars
  <2>2. ASSUME NEW c \in Clients, NEW a \in Attempts, Read(c, a)
        PROVE  TypeOK'
    BY <2>2 DEF Read, AttemptRow, ClientView, attemptVars, intentVars, workVars, procVars
  <2>3. ASSUME NEW a \in Attempts, NEW ans \in Answers, EditAnswers(a, ans)
        PROVE  TypeOK'
    BY <2>3 DEF EditAnswers, AttemptRow, intentVars, workVars, procVars
  <2>4. ASSUME NEW c \in Clients, NEW a \in Attempts, Approve(c, a)
        PROVE  TypeOK'
    BY <2>4 DEF Approve, Move, AttemptRow, AttemptStates, ClientView, intentVars, workVars, procVars
  <2>5. ASSUME NEW c \in Clients, NEW a \in Attempts, NEW i \in Intents,
               NEW p \in Policies \cup {None}, Submit(c, a, i, p)
        PROVE  TypeOK'
    <3>1. attempt' \in [Attempts -> AttemptRow] /\ lastEvent' \in [Attempts -> AttemptStates]
      BY <2>5 DEF Submit, Move, AttemptRow, AttemptStates
    <3>2. intent' \in [Intents -> IntentRow]
      BY <2>5 DEF Submit, IntentRow, IntentStates, AttemptRow
    <3>3. reservation' \in [Intents -> QuotaRow]
      <4>1. CASE p = None
        BY <2>5, <4>1 DEF Submit
      <4>2. CASE p # None
        <5>1. DayKey(p) \in Nat
          BY <4>2, SettingsAssumption DEF DayKey
        <5>2. [policy |-> p, day |-> DayKey(p), state |-> "reserved"] \in QuotaRow
          BY <5>1 DEF QuotaRow, QuotaStates
        <5>. QED  BY <2>5, <4>2, <5>2 DEF Submit
      <4>. QED  BY <4>1, <4>2
    <3>4. operation' \in [Operations -> WorkStates]
      BY <2>5 DEF Submit, Operations, Kinds, WorkStates
    <3>. QED  BY <2>5, <3>1, <3>2, <3>3, <3>4 DEF Submit, procVars
  <2>6. ASSUME NEW a \in Attempts, Cancel(a)
        PROVE  TypeOK'
    BY <2>6 DEF Cancel, Move, AttemptRow, AttemptStates, intentVars, workVars, procVars
  <2>7. ASSUME NEW a \in Attempts, NEW b \in Attempts, Retry(a, b)
        PROVE  TypeOK'
    BY <2>7 DEF Retry, NewAttempt, AttemptRow, AttemptStates, Operations, Kinds, WorkStates,
                intentVars, procVars
  <2>8. ASSUME NEW a \in Attempts, NEW verdict \in {"submitted", "not_submitted"},
               ResolveSubmission(a, verdict)
        PROVE  TypeOK'
    <3>1. attempt' \in [Attempts -> AttemptRow] /\ lastEvent' \in [Attempts -> AttemptStates]
      BY <2>8 DEF ResolveSubmission, Move, Outcome, AttemptRow, AttemptStates
    <3>2. intent' \in [Intents -> IntentRow]
      <4>1. ASSUME NEW i \in Intents
            PROVE  [intent[i] EXCEPT !.state = verdict] \in IntentRow
        BY DEF IntentRow, IntentStates
      <4>. QED  BY <2>8, <4>1 DEF ResolveSubmission
    <3>3. reservation' \in [Intents -> QuotaRow]
      BY <2>8 DEF ResolveSubmission, QuotaRow, QuotaStates, Settled
    <3>. QED  BY <2>8, <3>1, <3>2, <3>3 DEF ResolveSubmission, workVars, procVars
  <2>9. ASSUME NEW p \in Policies, NEW s \in PolicySettings, PatchPolicy(p, s)
        PROVE  TypeOK'
    BY <2>9 DEF PatchPolicy, attemptVars, intentVars, workVars, procVars
  <2>10. ASSUME NEW o \in Operations, ClaimOperation(o)
         PROVE  TypeOK'
    BY <2>10 DEF ClaimOperation, WorkStates, WorkerRow, attemptVars, intentVars, procVars
  <2>11. ASSUME EnterPreparation
         PROVE  TypeOK'
    <3>1. worker.op \in Operations /\ worker.op[2] \in Attempts
      BY <2>11 DEF EnterPreparation, InHand, WorkerRow, Operations
    <3>2. attempt' = Move(worker.op[2], "preparing") \/ attempt' = attempt
      BY <2>11 DEF EnterPreparation
    <3>3. attempt' \in [Attempts -> AttemptRow]
      BY <3>1, <3>2 DEF Move, AttemptRow, AttemptStates
    <3>. QED  BY <2>11, <3>3 DEF EnterPreparation, WorkerRow, intentVars, procVars
  <2>12. ASSUME AskForReview
         PROVE  TypeOK'
    <3>1. worker.op \in Operations /\ worker.op[2] \in Attempts
      BY <2>12 DEF AskForReview, InHand, WorkerRow, Operations
    <3>2. attempt' = Move(worker.op[2], "needs_review") \/ attempt' = attempt
      BY <2>12 DEF AskForReview
    <3>3. attempt' \in [Attempts -> AttemptRow]
      BY <3>1, <3>2 DEF Move, AttemptRow, AttemptStates
    <3>. QED  BY <2>12, <3>3 DEF AskForReview, WorkerRow, intentVars, procVars
  <2>13. ASSUME DispatchSubmission
         PROVE  TypeOK'
    <3>1. worker.op \in Operations /\ worker.op[2] \in Attempts
      BY <2>13 DEF DispatchSubmission, InHand, WorkerRow, Operations
    <3>2. attempt' \in [Attempts -> AttemptRow] /\ lastEvent' \in [Attempts -> AttemptStates]
      BY <2>13, <3>1, SMTT(30) DEF DispatchSubmission, Move, AttemptRow, AttemptStates
    <3>3. intent' \in [Intents -> IntentRow]
      BY <2>13 DEF DispatchSubmission, IntentRow, IntentStates
    <3>4. worker' \in WorkerRow
      BY <2>13 DEF DispatchSubmission, WorkerRow
    <3>. QED  BY <2>13, <3>2, <3>3, <3>4 DEF DispatchSubmission, procVars
  <2>14. ASSUME FinishOperation
         PROVE  TypeOK'
    <3>1. operation' \in [Operations -> WorkStates]
      BY <2>14 DEF FinishOperation, WorkStates
    <3>2. worker' \in WorkerRow
      BY <2>14 DEF FinishOperation, WorkerRow, Idle
    <3>. QED  BY <2>14, <3>1, <3>2 DEF FinishOperation, attemptVars, intentVars, procVars
  <2>15. ASSUME Crash
         PROVE  TypeOK'
    <3>1. worker' \in WorkerRow
      BY <2>15 DEF Crash, WorkerRow, Idle
    <3>2. crashes' \in Nat
      BY <2>15 DEF Crash
    <3>3. up' \in BOOLEAN
      BY <2>15 DEF Crash
    <3>. QED  BY <2>15, <3>1, <3>2, <3>3 DEF Crash, attemptVars, intentVars
  <2>16. ASSUME Restart
         PROVE  TypeOK'
    BY <2>16 DEF Restart, WorkStates, attemptVars, intentVars
  <2>17. ASSUME NextDay
         PROVE  TypeOK'
    BY <2>17 DEF NextDay, attemptVars, intentVars, workVars, procVars
  <2> HIDE DEF TypeOK
  <2>. QED
    BY <2>0, <2>1, <2>2, <2>3, <2>4, <2>5, <2>6, <2>7, <2>8, <2>9, <2>10, <2>11, <2>12, <2>13,
       <2>14, <2>15, <2>16, <2>17 DEF Next, Worker
<1>. QED  BY <1>1, <1>2, PTL DEF Spec
-----------------------------------------------------------------------------
(***************************************************************************)
(* DeliveryInv is inductive.  Each lemma is one way a step touches the two *)
(* tables; the theorem sorts the actions among them.                       *)
(***************************************************************************)

\* A step that changes neither intents nor the states and listings of attempts.
LEMMA FrameKeepsDelivery ==
  ASSUME DeliveryInv, intent' = intent,
         \A b \in Attempts : attempt'[b].state = attempt[b].state
                             /\ attempt'[b].listing = attempt[b].listing,
         \A i \in Intents : intent[i].app \in Attempts \cup {None}
  PROVE  DeliveryInv'
<1>1. IntentMatchesAttempt'
  BY DEF DeliveryInv, IntentMatchesAttempt, Mirror
<1>2. OneActiveAttempt'
  BY DEF DeliveryInv, OneActiveAttempt
<1>3. OneIntentPerAttempt'
  BY DEF DeliveryInv, OneIntentPerAttempt
<1>. QED  BY <1>1, <1>2, <1>3 DEF DeliveryInv

\* What Move does to the states and the listings.
LEMMA MoveEffect ==
  ASSUME TypeOK, NEW a \in Attempts, NEW s, attempt' = Move(a, s)
  PROVE  /\ attempt'[a].state = s
         /\ \A b \in Attempts : b # a => attempt'[b].state = attempt[b].state
         /\ \A b \in Attempts : attempt'[b].listing = attempt[b].listing
BY DEF Move, TypeOK, AttemptRow

\* Before the intent is committed an attempt has none, and moves without touching any.
LEMMA EarlyMoveKeepsDelivery ==
  ASSUME TypeOK, DeliveryInv, NEW a \in Attempts,
         NEW s \in {"preparing", "needs_review", "ready", "cancelled"},
         attempt[a].state \in {"queued", "preparing", "needs_review", "ready"},
         attempt' = Move(a, s), intent' = intent
  PROVE  DeliveryInv'
<1>1. /\ attempt'[a].state = s
      /\ \A b \in Attempts : b # a => attempt'[b].state = attempt[b].state
      /\ \A b \in Attempts : attempt'[b].listing = attempt[b].listing
  BY MoveEffect
<1>2. \A i \in Intents : intent[i].state \in IntentStates /\ intent[i].app \in Attempts \cup {None}
  BY DEF TypeOK, IntentRow
<1>3. \A i \in Intents : intent[i].state # "absent" => intent[i].app # a
  BY <1>2 DEF DeliveryInv, IntentMatchesAttempt, Mirror, IntentStates
<1>4. IntentMatchesAttempt'
  BY <1>1, <1>2, <1>3 DEF DeliveryInv, IntentMatchesAttempt, Mirror
<1>5. OneActiveAttempt'
  BY <1>1 DEF DeliveryInv, OneActiveAttempt, ActiveStates
<1>6. OneIntentPerAttempt'
  BY DEF DeliveryInv, OneIntentPerAttempt
<1>. QED  BY <1>4, <1>5, <1>6 DEF DeliveryInv

\* A new attempt has no intent, and the unique index found its vacancy free.
LEMMA NewAttemptKeepsDelivery ==
  ASSUME TypeOK, DeliveryInv, NEW b \in Attempts, NEW l, NEW ans, NEW res,
         attempt[b].state = "absent", ListingFree(l),
         attempt' = [attempt EXCEPT ![b] = NewAttempt(l, ans, res)], intent' = intent
  PROVE  DeliveryInv'
<1>1. /\ attempt'[b].state = "queued" /\ attempt'[b].listing = l
      /\ \A a \in Attempts : a # b => attempt'[a] = attempt[a]
  BY DEF TypeOK, NewAttempt
<1>2. \A i \in Intents : intent[i].state \in IntentStates /\ intent[i].app \in Attempts \cup {None}
  BY DEF TypeOK, IntentRow
<1>3. \A i \in Intents : intent[i].state # "absent" => intent[i].app # b
  BY <1>2 DEF DeliveryInv, IntentMatchesAttempt, Mirror, IntentStates
<1>4. IntentMatchesAttempt'
  BY <1>1, <1>2, <1>3 DEF DeliveryInv, IntentMatchesAttempt, Mirror
<1>5. OneActiveAttempt'
  BY <1>1 DEF DeliveryInv, OneActiveAttempt, ListingFree
<1>6. OneIntentPerAttempt'
  BY DEF DeliveryInv, OneIntentPerAttempt
<1>. QED  BY <1>4, <1>5, <1>6 DEF DeliveryInv

\* The intent transaction: a ready attempt has no intent yet.
LEMMA SubmitKeepsDelivery ==
  ASSUME TypeOK, DeliveryInv, NEW c \in Clients, NEW a \in Attempts, NEW i \in Intents,
         NEW p \in Policies \cup {None}, Submit(c, a, i, p)
  PROVE  DeliveryInv'
<1>1. /\ attempt'[a].state = "submitting"
      /\ \A b \in Attempts : b # a => attempt'[b].state = attempt[b].state
      /\ \A b \in Attempts : attempt'[b].listing = attempt[b].listing
  BY MoveEffect DEF Submit
<1>2. /\ intent'[i].app = a /\ intent'[i].state = "committed"
      /\ \A j \in Intents : j # i => intent'[j] = intent[j]
  BY DEF Submit, TypeOK, IntentRow
<1>3. \A j \in Intents : intent[j].state \in IntentStates /\ intent[j].app \in Attempts \cup {None}
  BY DEF TypeOK, IntentRow
<1>4. attempt[a].state = "ready" /\ intent[i].state = "absent"
  BY DEF Submit
<1>5. \A j \in Intents : intent[j].state # "absent" => intent[j].app # a
  BY <1>3, <1>4 DEF DeliveryInv, IntentMatchesAttempt, Mirror, IntentStates
<1>6. IntentMatchesAttempt'
  <2>1. ASSUME NEW j \in Intents, intent'[j].state # "absent"
        PROVE  intent'[j].app # None /\ attempt'[intent'[j].app].state = Mirror(intent'[j].state)
    <3>1. CASE j = i
      BY <3>1, <1>1, <1>2, NoneAssumption DEF Mirror
    <3>2. CASE j # i
      BY <3>2, <2>1, <1>1, <1>2, <1>3, <1>5 DEF DeliveryInv, IntentMatchesAttempt, Mirror
    <3>. QED  BY <3>1, <3>2
  <2>2. ASSUME NEW b \in Attempts,
               attempt'[b].state \in {"submitting", "submission_unknown", "submitted", "failed"}
        PROVE  \E j \in Intents : intent'[j].app = b /\ Mirror(intent'[j].state) = attempt'[b].state
    <3>1. CASE b = a
      BY <3>1, <1>1, <1>2 DEF Mirror
    <3>2. CASE b # a
      <4>1. PICK j \in Intents : intent[j].app = b /\ Mirror(intent[j].state) = attempt[b].state
        BY <3>2, <2>2, <1>1 DEF DeliveryInv, IntentMatchesAttempt
      <4>2. j # i
        BY <4>1, <1>4, <2>2, <3>2, <1>1 DEF Mirror
      <4>. QED  BY <4>1, <4>2, <3>2, <1>1, <1>2
    <3>. QED  BY <3>1, <3>2
  <2>. QED  BY <2>1, <2>2 DEF IntentMatchesAttempt
<1>7. OneActiveAttempt'
  BY <1>1, <1>4 DEF DeliveryInv, OneActiveAttempt, ActiveStates
<1>8. OneIntentPerAttempt'
  BY <1>2, <1>4, <1>5 DEF DeliveryInv, OneIntentPerAttempt
<1>. QED  BY <1>6, <1>7, <1>8 DEF DeliveryInv

\* An attempt and its intent move together from s1 to s2; the others stay.
LEMMA JointMoveKeepsDelivery ==
  ASSUME TypeOK, DeliveryInv, NEW a \in Attempts,
         NEW s1 \in {"committed", "submission_unknown"},
         NEW s2 \in {"submission_unknown", "submitted", "not_submitted"},
         attempt[a].state = Mirror(s1),
         attempt' = Move(a, Mirror(s2)),
         \A i \in Intents : intent'[i].app = intent[i].app,
         \A i \in Intents : intent'[i].state =
           IF intent[i].app = a /\ intent[i].state = s1 THEN s2 ELSE intent[i].state
  PROVE  DeliveryInv'
<1>1. /\ attempt'[a].state = Mirror(s2)
      /\ \A b \in Attempts : b # a => attempt'[b].state = attempt[b].state
      /\ \A b \in Attempts : attempt'[b].listing = attempt[b].listing
  BY MoveEffect
<1>2. \A i \in Intents : intent[i].state \in IntentStates /\ intent[i].app \in Attempts \cup {None}
  BY DEF TypeOK, IntentRow
<1>3. ASSUME NEW i \in Intents, intent[i].app = a, intent[i].state # "absent"
      PROVE  intent[i].state = s1
  BY <1>2, <1>3 DEF DeliveryInv, IntentMatchesAttempt, Mirror, IntentStates
<1>4. \A i \in Intents : intent'[i].state = "absent" <=> intent[i].state = "absent"
  OBVIOUS
<1>5. IntentMatchesAttempt'
  <2>1. ASSUME NEW j \in Intents, intent'[j].state # "absent"
        PROVE  intent'[j].app # None /\ attempt'[intent'[j].app].state = Mirror(intent'[j].state)
    <3>1. intent[j].app # None /\ attempt[intent[j].app].state = Mirror(intent[j].state)
      BY <2>1, <1>4 DEF DeliveryInv, IntentMatchesAttempt
    <3>2. CASE intent[j].app = a
      BY <3>1, <3>2, <2>1, <1>1, <1>3, <1>4
    <3>3. CASE intent[j].app # a
      BY <3>1, <3>3, <1>1, <1>2
    <3>. QED  BY <3>2, <3>3
  <2>2. ASSUME NEW b \in Attempts,
               attempt'[b].state \in {"submitting", "submission_unknown", "submitted", "failed"}
        PROVE  \E j \in Intents : intent'[j].app = b /\ Mirror(intent'[j].state) = attempt'[b].state
    <3>1. CASE b = a
      <4>1. PICK j \in Intents : intent[j].app = a /\ Mirror(intent[j].state) = attempt[a].state
        BY DEF DeliveryInv, IntentMatchesAttempt, Mirror
      <4>2. intent[j].state = s1
        BY <4>1, <1>2, <1>3 DEF Mirror, IntentStates
      <4>. QED  BY <4>1, <4>2, <3>1, <1>1
    <3>2. CASE b # a
      <4>1. PICK j \in Intents : intent[j].app = b /\ Mirror(intent[j].state) = attempt[b].state
        BY <3>2, <2>2, <1>1 DEF DeliveryInv, IntentMatchesAttempt
      <4>. QED  BY <4>1, <3>2, <1>1
    <3>. QED  BY <3>1, <3>2
  <2>. QED  BY <2>1, <2>2 DEF IntentMatchesAttempt
<1>6. OneActiveAttempt'
  BY <1>1 DEF DeliveryInv, OneActiveAttempt, ActiveStates, Mirror
<1>7. OneIntentPerAttempt'
  BY <1>4 DEF DeliveryInv, OneIntentPerAttempt
<1>. QED  BY <1>5, <1>6, <1>7 DEF DeliveryInv

\* The worker's submission transaction: without a submitting attempt there is no committed intent.
LEMMA DispatchKeepsDelivery ==
  ASSUME TypeOK, DeliveryInv, DispatchSubmission
  PROVE  DeliveryInv'
<1> DEFINE a == worker.op[2]
<1>1. a \in Attempts
  BY DEF DispatchSubmission, InHand, TypeOK, WorkerRow, Operations
<1>2. \A i \in Intents : /\ intent[i].state \in IntentStates
                         /\ intent[i].app \in Attempts \cup {None}
  BY DEF TypeOK, IntentRow
<1>3. \A i \in Intents :
        /\ intent'[i].app = intent[i].app
        /\ intent'[i].state = IF intent[i].app = a /\ intent[i].state = "committed"
                                THEN "submission_unknown" ELSE intent[i].state
  BY DEF DispatchSubmission, TypeOK, IntentRow
<1>4. CASE attempt[a].state = "submitting"
  <2>1. attempt' = Move(a, Mirror("submission_unknown")) /\ attempt[a].state = Mirror("committed")
    BY <1>4 DEF DispatchSubmission, Mirror
  <2>. QED  BY <1>1, <1>3, <2>1, JointMoveKeepsDelivery
<1>5. CASE attempt[a].state # "submitting"
  <2>1. attempt' = attempt
    BY <1>5 DEF DispatchSubmission
  <2>2. \A i \in Intents : ~(intent[i].app = a /\ intent[i].state = "committed")
    BY <1>5, <1>1 DEF DeliveryInv, IntentMatchesAttempt, Mirror
  <2>3. \A i \in Intents : intent'[i] = intent[i]
    BY <2>2 DEF DispatchSubmission
  <2>4. intent' = intent
    BY <2>2, <2>3 DEF DispatchSubmission, TypeOK
  <2>. QED  BY <2>1, <2>4, <1>2, FrameKeepsDelivery
<1>. QED  BY <1>4, <1>5

\* The user's verdict settles the attempt and its intent.
LEMMA ResolveKeepsDelivery ==
  ASSUME TypeOK, DeliveryInv, NEW a \in Attempts,
         NEW verdict \in {"submitted", "not_submitted"}, ResolveSubmission(a, verdict)
  PROVE  DeliveryInv'
<1>1. attempt' = Move(a, Mirror(verdict)) /\ attempt[a].state = Mirror("submission_unknown")
  BY DEF ResolveSubmission, Outcome, Mirror
<1>2. \A i \in Intents : intent[i].app = a => intent[i].state # "committed"
  BY <1>1, NoneAssumption DEF DeliveryInv, IntentMatchesAttempt, Mirror
<1>3. \A i \in Intents :
        /\ intent'[i].app = intent[i].app
        /\ intent'[i].state = IF intent[i].app = a /\ intent[i].state = "submission_unknown"
                                THEN verdict ELSE intent[i].state
  BY <1>2 DEF ResolveSubmission, OpenIntents, TypeOK, IntentRow
<1>. QED  BY <1>1, <1>3, JointMoveKeepsDelivery

\* Nothing exists before the first step, except stored attempts at vacancies of their own.
LEMMA InitDelivery == Init => DeliveryInv
<1> SUFFICES ASSUME Init PROVE DeliveryInv
  OBVIOUS
<1>1. PICK place \in [Stored -> Listings] :
        /\ \A a, b \in Stored : place[a] = place[b] => a = b
        /\ attempt = [a \in Attempts |->
                        IF a \in Stored
                          THEN [state |-> "needs_review", revision |-> 3, listing |-> place[a],
                                answers |-> NoAnswers, resume |-> TRUE]
                          ELSE AbsentAttempt]
  BY DEF Init
<1>2. \A a \in Attempts : /\ a \in Stored => /\ attempt[a].state = "needs_review"
                                             /\ attempt[a].listing = place[a]
                          /\ a \notin Stored => attempt[a].state = "absent"
  BY <1>1 DEF AbsentAttempt
<1>3. \A i \in Intents : intent[i].state = "absent"
  BY DEF Init, AbsentIntent
<1>4. IntentMatchesAttempt
  BY <1>2, <1>3 DEF IntentMatchesAttempt
<1>5. OneActiveAttempt
  BY <1>1, <1>2 DEF OneActiveAttempt, ActiveStates
<1>6. OneIntentPerAttempt
  BY <1>3 DEF OneIntentPerAttempt
<1>. QED  BY <1>4, <1>5, <1>6 DEF DeliveryInv

LEMMA NextKeepsDelivery == TypeOK /\ DeliveryInv /\ [Next]_vars => DeliveryInv'
<1> SUFFICES ASSUME TypeOK, DeliveryInv, [Next]_vars
             PROVE  DeliveryInv'
  OBVIOUS
<1>1. \A i \in Intents : intent[i].app \in Attempts \cup {None}
  BY DEF TypeOK, IntentRow
<1>2. attempt' = attempt /\ intent' = intent => DeliveryInv'
  BY <1>1, FrameKeepsDelivery
<1>3. ASSUME NEW a \in Attempts, NEW l \in Listings, Create(a, l)
      PROVE  DeliveryInv'
  BY <1>3, NewAttemptKeepsDelivery DEF Create, intentVars
<1>4. ASSUME NEW a \in Attempts, NEW ans \in Answers, EditAnswers(a, ans)
      PROVE  DeliveryInv'
  <2>1. \A b \in Attempts : attempt'[b].state = attempt[b].state
                            /\ attempt'[b].listing = attempt[b].listing
    BY <1>4 DEF EditAnswers, TypeOK, AttemptRow
  <2>. QED  BY <1>1, <1>4, <2>1, FrameKeepsDelivery DEF EditAnswers, intentVars
<1>5. ASSUME NEW c \in Clients, NEW a \in Attempts, Approve(c, a)
      PROVE  DeliveryInv'
  BY <1>5, EarlyMoveKeepsDelivery DEF Approve, intentVars
<1>6. ASSUME NEW a \in Attempts, Cancel(a)
      PROVE  DeliveryInv'
  BY <1>6, EarlyMoveKeepsDelivery DEF Cancel, CancellableStates, intentVars
<1>7. ASSUME NEW a \in Attempts, NEW b \in Attempts, Retry(a, b)
      PROVE  DeliveryInv'
  BY <1>7, NewAttemptKeepsDelivery DEF Retry, intentVars
<1>8. ASSUME EnterPreparation
      PROVE  DeliveryInv'
  <2>1. worker.op[2] \in Attempts
    BY <1>8 DEF EnterPreparation, InHand, TypeOK, WorkerRow, Operations
  <2>. QED
    BY <1>2, <1>8, <2>1, EarlyMoveKeepsDelivery DEF EnterPreparation, intentVars
<1>9. ASSUME AskForReview
      PROVE  DeliveryInv'
  <2>1. worker.op[2] \in Attempts
    BY <1>9 DEF AskForReview, InHand, TypeOK, WorkerRow, Operations
  <2>. QED
    BY <1>2, <1>9, <2>1, EarlyMoveKeepsDelivery DEF AskForReview, intentVars
<1>10. ASSUME NEW c \in Clients, NEW a \in Attempts, Read(c, a)
       PROVE  DeliveryInv'
  BY <1>2, <1>10 DEF Read, attemptVars, intentVars
<1>11. ASSUME NEW p \in Policies, NEW s \in PolicySettings, PatchPolicy(p, s)
       PROVE  DeliveryInv'
  BY <1>2, <1>11 DEF PatchPolicy, attemptVars, intentVars
<1>12. ASSUME NEW o \in Operations, ClaimOperation(o)
       PROVE  DeliveryInv'
  BY <1>2, <1>12 DEF ClaimOperation, attemptVars, intentVars
<1>13. FinishOperation \/ Crash \/ Restart \/ NextDay \/ UNCHANGED vars => DeliveryInv'
  BY <1>2 DEF FinishOperation, Crash, Restart, NextDay, vars, attemptVars, intentVars
<1>. QED
  BY <1>3, <1>4, <1>5, <1>6, <1>7, <1>8, <1>9, <1>10, <1>11, <1>12, <1>13,
     SubmitKeepsDelivery, ResolveKeepsDelivery, DispatchKeepsDelivery DEF Next, Worker

\* The intent table and the attempt table agree in every reachable state.
THEOREM TablesAgree == Spec => []IntentMatchesAttempt
<1>1. DeliveryInv => IntentMatchesAttempt
  BY DEF DeliveryInv
<1>. QED  BY <1>1, InitDelivery, NextKeepsDelivery, TypeCorrect, PTL DEF Spec

\* Two intents that may have reached one employer are one.
LEMMA OneDelivery == TypeOK /\ DeliveryInv => NoSecondDelivery
<1> SUFFICES ASSUME TypeOK, DeliveryInv, NEW i \in Intents, NEW j \in Intents,
                    MayHaveReached(i), MayHaveReached(j),
                    attempt[intent[i].app].listing = attempt[intent[j].app].listing
             PROVE  i = j
  BY DEF NoSecondDelivery
<1>1. /\ intent[i].state \in ActiveIntentStates /\ intent[i].app \in Attempts
      /\ intent[j].state \in ActiveIntentStates /\ intent[j].app \in Attempts
  BY DEF MayHaveReached, DeliveryInv, IntentMatchesAttempt, TypeOK, IntentRow, ActiveIntentStates
<1>2. /\ attempt[intent[i].app].state \in ActiveStates
      /\ attempt[intent[j].app].state \in ActiveStates
  BY <1>1 DEF DeliveryInv, IntentMatchesAttempt, Mirror, ActiveIntentStates, ActiveStates
<1>3. intent[i].app = intent[j].app
  BY <1>1, <1>2 DEF DeliveryInv, OneActiveAttempt
<1>. QED  BY <1>1, <1>3 DEF DeliveryInv, OneIntentPerAttempt, ActiveIntentStates

\* No vacancy is ever exposed to two submissions at once.
THEOREM NeverTwoDeliveries == Spec => []NoSecondDelivery
<1>. QED  BY OneDelivery, InitDelivery, NextKeepsDelivery, TypeCorrect, PTL DEF Spec

-----------------------------------------------------------------------------
(***************************************************************************)
(* What a step does to one attempt and to one intent: the shape every      *)
(* further invariant and action property is read off.                      *)
(***************************************************************************)

Listed == \A a \in Attempts : attempt[a].state # "absent" => attempt[a].listing \in Listings

\* An attempt moves along the table: what it was approved with comes with it.
Moved(a) ==
  /\ <<attempt[a].state, attempt'[a].state>> \in Permitted
  /\ attempt[a].state # "absent"
  /\ attempt'[a].state \in Unrecorded \/ lastEvent'[a] = attempt'[a].state
  /\ attempt'[a].answers = attempt[a].answers
  /\ attempt'[a].state = "ready" => approved'[a] = attempt[a].answers

RowStep(a) ==
  \/ attempt'[a] = attempt[a]
  \/ attempt[a].state = "absent" /\ attempt'[a].state = "queued" /\ attempt'[a].listing \in Listings
  \/ /\ attempt'[a].revision = attempt[a].revision + 1
     /\ attempt'[a].listing = attempt[a].listing
     /\ \/ attempt'[a].state = attempt[a].state /\ attempt[a].state \in EditableStates
        \/ Moved(a)

\* The answers of an approval change only while the attempt awaits it.
ApprovalStep(a) == approved'[a] # approved[a] => attempt[a].state = "needs_review"

IntentStep(i) ==
  \/ intent'[i] = intent[i]
  \/ /\ intent[i].state # "absent"
     /\ intent'[i].app = intent[i].app /\ intent'[i].answers = intent[i].answers
  \/ /\ intent[i].state = "absent"
     /\ intent'[i].app \in Attempts
     /\ attempt[intent'[i].app].state = "ready"
     /\ intent'[i].answers = attempt[intent'[i].app].answers

Shape == /\ \A a \in Attempts : RowStep(a) /\ ApprovalStep(a)
         /\ \A i \in Intents : IntentStep(i)

LEMMA MoveRow ==
  ASSUME TypeOK, NEW a \in Attempts, NEW s, attempt' = Move(a, s)
  PROVE  /\ attempt'[a].state = s
         /\ attempt'[a].revision = attempt[a].revision + 1
         /\ attempt'[a].listing = attempt[a].listing
         /\ attempt'[a].answers = attempt[a].answers
         /\ \A b \in Attempts : b # a => attempt'[b] = attempt[b]
BY DEF Move, TypeOK, AttemptRow

\* A step that moves one attempt and leaves the intents and the approvals alone.
LEMMA MoveShape ==
  ASSUME TypeOK, NEW a \in Attempts, NEW s, attempt' = Move(a, s), UNCHANGED approved,
         <<attempt[a].state, s>> \in Permitted, attempt[a].state # "absent",
         s \in Unrecorded \/ lastEvent'[a] = s, s # "ready",
         \A i \in Intents : IntentStep(i)
  PROVE  Shape
<1>1. Moved(a)
  BY MoveRow DEF Moved
<1>2. \A b \in Attempts : RowStep(b)
  BY <1>1, MoveRow DEF RowStep
<1>. QED  BY <1>2 DEF Shape, ApprovalStep

LEMMA NewAttemptShape ==
  ASSUME TypeOK, NEW b \in Attempts, NEW l \in Listings, NEW ans, NEW res, attempt[b].state = "absent",
         attempt' = [attempt EXCEPT ![b] = NewAttempt(l, ans, res)], UNCHANGED <<intent, approved>>
  PROVE  Shape
<1>1. /\ attempt'[b].state = "queued" /\ attempt'[b].listing = l
      /\ \A a \in Attempts : a # b => attempt'[a] = attempt[a]
  BY DEF TypeOK, NewAttempt
<1>. QED  BY <1>1 DEF Shape, RowStep, ApprovalStep, IntentStep

LEMMA StepShape == TypeOK /\ Listed /\ [Next]_vars => Shape
<1> SUFFICES ASSUME TypeOK, Listed, [Next]_vars
             PROVE  Shape
  OBVIOUS
<1>1. UNCHANGED <<attempt, intent, approved>> => Shape
  BY DEF Shape, RowStep, ApprovalStep, IntentStep
<1>2. UNCHANGED intent => \A i \in Intents : IntentStep(i)
  BY DEF IntentStep
<1>3. ASSUME NEW a \in Attempts, NEW l \in Listings, Create(a, l)
      PROVE  Shape
  BY <1>3, NewAttemptShape DEF Create, intentVars
<1>4. ASSUME NEW a \in Attempts, NEW ans \in Answers, EditAnswers(a, ans)
      PROVE  Shape
  <2>1. /\ attempt'[a].revision = attempt[a].revision + 1
        /\ attempt'[a].state = attempt[a].state /\ attempt'[a].listing = attempt[a].listing
        /\ \A b \in Attempts : b # a => attempt'[b] = attempt[b]
    BY <1>4 DEF EditAnswers, TypeOK, AttemptRow
  <2>. QED  BY <1>2, <1>4, <2>1 DEF EditAnswers, intentVars, Shape, RowStep, ApprovalStep
<1>5. ASSUME NEW c \in Clients, NEW a \in Attempts, Approve(c, a)
      PROVE  Shape
  <2>1. /\ attempt[a].state = "needs_review"
        /\ approved' = [approved EXCEPT ![a] = attempt[a].answers]
        /\ lastEvent'[a] = "ready"
        /\ attempt' = Move(a, "ready")
    BY <1>5 DEF Approve, SnapshotCurrent, TypeOK
  <2>2. Moved(a)
    BY <2>1, MoveRow DEF Moved, Permitted, TypeOK
  <2>3. \A b \in Attempts : RowStep(b) /\ ApprovalStep(b)
    BY <2>1, <2>2, MoveRow DEF RowStep, ApprovalStep, TypeOK
  <2>. QED  BY <1>2, <1>5, <2>3 DEF Approve, intentVars, Shape
<1>6. ASSUME NEW c \in Clients, NEW a \in Attempts, NEW i \in Intents,
             NEW p \in Policies \cup {None}, Submit(c, a, i, p)
      PROVE  Shape
  <2>1. /\ intent'[i].app = a /\ intent'[i].answers = attempt[a].answers
        /\ intent[i].state = "absent" /\ attempt[a].state = "ready"
        /\ \A j \in Intents : j # i => intent'[j] = intent[j]
    BY <1>6 DEF Submit, TypeOK
  <2>2. \A j \in Intents : IntentStep(j)
    BY <2>1 DEF IntentStep
  <2>3. lastEvent'[a] = "submitting"
    BY <1>6 DEF Submit, TypeOK
  <2>. QED  BY <1>6, <2>1, <2>2, <2>3, MoveShape DEF Submit, Permitted
<1>7. ASSUME NEW a \in Attempts, Cancel(a)
      PROVE  Shape
  <2>1. lastEvent'[a] = "cancelled"
    BY <1>7 DEF Cancel, TypeOK
  <2>. QED  BY <1>2, <1>7, <2>1, MoveShape DEF Cancel, CancellableStates, Permitted, intentVars
<1>8. ASSUME NEW a \in Attempts, NEW b \in Attempts, Retry(a, b)
      PROVE  Shape
  <2>1. attempt[a].listing \in Listings
    BY <1>8 DEF Retry, Listed
  <2>. QED  BY <1>8, <2>1, NewAttemptShape DEF Retry, intentVars
<1>9. ASSUME NEW a \in Attempts, NEW verdict \in {"submitted", "not_submitted"},
             ResolveSubmission(a, verdict)
      PROVE  Shape
  <2>1. \A i \in Intents : IntentStep(i)
    BY <1>9 DEF ResolveSubmission, OpenIntents, IntentStep, TypeOK, IntentRow
  <2>2. lastEvent'[a] = Outcome(verdict) /\ Outcome(verdict) \in {"submitted", "failed"}
    BY <1>9 DEF ResolveSubmission, Outcome, TypeOK
  <2>. QED  BY <1>9, <2>1, <2>2, MoveShape DEF ResolveSubmission, Permitted
<1>10. ASSUME EnterPreparation \/ AskForReview
       PROVE  Shape
  <2>1. worker.op[2] \in Attempts /\ UNCHANGED <<intent, approved>>
    BY <1>10 DEF EnterPreparation, AskForReview, InHand, TypeOK, WorkerRow, Operations, intentVars
  <2>2. \/ attempt' = attempt
        \/ attempt[worker.op[2]].state = "queued" /\ attempt' = Move(worker.op[2], "preparing")
        \/ attempt[worker.op[2]].state = "preparing" /\ attempt' = Move(worker.op[2], "needs_review")
    BY <1>10 DEF EnterPreparation, AskForReview
  <2>. QED  BY <1>1, <1>2, <2>1, <2>2, MoveShape DEF Permitted, Unrecorded
<1>11. ASSUME DispatchSubmission
       PROVE  Shape
  <2> DEFINE a == worker.op[2]
  <2>1. a \in Attempts
    BY <1>11 DEF DispatchSubmission, InHand, TypeOK, WorkerRow, Operations
  <2>2. \A i \in Intents : IntentStep(i)
    BY <1>11 DEF DispatchSubmission, IntentStep, TypeOK, IntentRow
  <2>3. lastEvent'[a] = "submission_unknown" /\ UNCHANGED approved
    BY <1>11, <2>1 DEF DispatchSubmission, TypeOK
  <2>4. CASE attempt[a].state = "submitting"
    <3>1. attempt' = Move(a, "submission_unknown")
      BY <1>11, <2>4 DEF DispatchSubmission
    <3>. QED  BY <2>1, <2>2, <2>3, <2>4, <3>1, MoveShape DEF Permitted
  <2>5. CASE attempt[a].state # "submitting"
    <3>1. attempt' = attempt
      BY <1>11, <2>5 DEF DispatchSubmission
    <3>. QED  BY <2>2, <2>3, <3>1 DEF Shape, RowStep, ApprovalStep
  <2>. QED  BY <2>4, <2>5
<1>12. ASSUME \/ \E c \in Clients, a \in Attempts : Read(c, a)
              \/ \E p \in Policies, s \in PolicySettings : PatchPolicy(p, s)
              \/ \E o \in Operations : ClaimOperation(o)
              \/ FinishOperation \/ Crash \/ Restart \/ NextDay \/ UNCHANGED vars
       PROVE  Shape
  BY <1>1, <1>12 DEF Read, PatchPolicy, ClaimOperation, FinishOperation, Crash, Restart, NextDay, vars,
                     attemptVars, intentVars
<1>. QED
  BY <1>3, <1>4, <1>5, <1>6, <1>7, <1>8, <1>9, <1>10, <1>11, <1>12 DEF Next, Worker

LEMMA AlwaysListed == Spec => []Listed
<1>1. Init => Listed
  BY DEF Init, Listed, AbsentAttempt
<1>2. TypeOK /\ Listed /\ [Next]_vars => Listed'
  BY StepShape DEF Shape, RowStep, Moved, Listed, EditableStates
<1>. QED  BY <1>1, <1>2, TypeCorrect, PTL DEF Spec

\* No step of any handler, of the worker or of a restart takes an attempt off the table.
THEOREM TransitionTable == Spec => TransitionsPermitted
<1> DEFINE Allowed ==
      \A a \in Attempts : attempt'[a] # attempt[a] =>
       \/ /\ <<attempt[a].state, attempt'[a].state>> \in Permitted
          /\ attempt'[a].state \in Unrecorded \/ lastEvent'[a] = attempt'[a].state
       \/ /\ attempt'[a].state = attempt[a].state
          /\ attempt[a].state \notin {"submitted", "failed", "cancelled"}
<1>1. TypeOK /\ Listed /\ [Next]_vars => Allowed
  BY StepShape DEF Shape, RowStep, Moved, EditableStates, Permitted, Unrecorded
<1>2. TransitionsPermitted <=> [][Allowed]_vars
  BY PTL DEF TransitionsPermitted
<1> HIDE DEF Allowed
<1>3. TypeOK /\ Listed /\ [Next]_vars => [Allowed]_vars
  BY <1>1
<1>. QED  BY <1>2, <1>3, TypeCorrect, AlwaysListed, PTL DEF Spec

\* A screen keeps what it shows, or shows the row as it is now.
LEMMA ViewStep ==
  ASSUME TypeOK, [Next]_vars, NEW c \in Clients
  PROVE  \/ view'[c] = view[c]
         \/ \E a \in Attempts :
              /\ attempt[a].state # "absent"
              /\ attempt' = attempt
              /\ view'[c] = [app |-> a, revision |-> attempt[a].revision,
                             state |-> attempt[a].state, answers |-> attempt[a].answers]
<1>1. CASE \E d \in Clients, a \in Attempts : Read(d, a)
  <2>1. PICK d \in Clients, a \in Attempts : Read(d, a)
    BY <1>1
  <2>. QED  BY <2>1 DEF Read, attemptVars, TypeOK
<1>2. CASE ~ \E d \in Clients, a \in Attempts : Read(d, a)
  BY <1>2 DEF Next, Worker, Create, EditAnswers, Approve, Submit, Cancel, Retry, ResolveSubmission,
              PatchPolicy, ClaimOperation, EnterPreparation, AskForReview, DispatchSubmission,
              FinishOperation, Crash, Restart, NextDay, vars
<1>. QED  BY <1>1, <1>2

\* A screen is never ahead of the row it was read from.
ViewsKnown ==
  \A c \in Clients : view[c].app # None =>
    /\ attempt[view[c].app].state # "absent"
    /\ view[c].revision <= attempt[view[c].app].revision

\* A client holding the current revision has seen the current state and answers.
THEOREM RevisionsNameRows == Spec => []RevisionIdentifiesRow
<1> DEFINE Inv == ViewsKnown /\ RevisionIdentifiesRow
<1>1. Init => Inv
  BY DEF Init, ViewsKnown, RevisionIdentifiesRow, NoView
<1>2. TypeOK /\ Listed /\ Inv /\ [Next]_vars => Inv'
  <2> SUFFICES ASSUME TypeOK, Listed, Inv, [Next]_vars,
                      NEW c \in Clients, view'[c].app # None
               PROVE  /\ attempt'[view'[c].app].state # "absent"
                      /\ view'[c].revision <= attempt'[view'[c].app].revision
                      /\ view'[c].revision = attempt'[view'[c].app].revision =>
                           /\ view'[c].state = attempt'[view'[c].app].state
                           /\ view'[c].answers = attempt'[view'[c].app].answers
    BY DEF ViewsKnown, RevisionIdentifiesRow
  <2>1. CASE view'[c] = view[c]
    <3> DEFINE a == view[c].app
    <3>1. a \in Attempts /\ attempt[a].revision \in Nat /\ view[c].revision \in Nat
      BY <2>1 DEF TypeOK, ClientView, AttemptRow
    <3>2. RowStep(a)
      BY <3>1, StepShape DEF Shape
    <3>3. /\ attempt[a].state # "absent" /\ view[c].revision <= attempt[a].revision
          /\ view[c].revision = attempt[a].revision =>
               view[c].state = attempt[a].state /\ view[c].answers = attempt[a].answers
      BY <2>1 DEF ViewsKnown, RevisionIdentifiesRow
    <3>4. CASE attempt'[a] = attempt[a]
      BY <2>1, <3>3, <3>4
    <3>5. CASE attempt'[a].revision = attempt[a].revision + 1 /\ attempt'[a].state # "absent"
      BY <2>1, <3>1, <3>3, <3>5
    <3>6. \/ attempt'[a] = attempt[a]
          \/ attempt'[a].revision = attempt[a].revision + 1 /\ attempt'[a].state # "absent"
      BY <3>2, <3>3 DEF RowStep, Moved, Permitted
    <3>. QED  BY <3>4, <3>5, <3>6
  <2>2. CASE \E a \in Attempts :
               /\ attempt[a].state # "absent"
               /\ attempt' = attempt
               /\ view'[c] = [app |-> a, revision |-> attempt[a].revision,
                              state |-> attempt[a].state, answers |-> attempt[a].answers]
    BY <2>2 DEF TypeOK, AttemptRow
  <2>. QED  BY <2>1, <2>2, ViewStep
<1> HIDE DEF Inv
<1>3. Inv => RevisionIdentifiesRow
  BY DEF Inv
<1>. QED  BY <1>1, <1>2, <1>3, TypeCorrect, AlwaysListed, PTL DEF Spec

\* A ready attempt still has the answers it was approved with.
ReadyIsApproved == \A a \in Attempts : attempt[a].state = "ready" => attempt[a].answers = approved[a]

\* The intent carries what the user saw: the answers of a ready attempt cannot change, and an
\* attempt with an intent cannot be approved again.
THEOREM OnlyTheApproved == Spec => []ApprovedIsSubmitted
<1> DEFINE Inv == ReadyIsApproved /\ ApprovedIsSubmitted
<1>1. Init => Inv
  BY DEF Init, ReadyIsApproved, ApprovedIsSubmitted, AbsentAttempt, AbsentIntent
<1>2. TypeOK /\ Listed /\ DeliveryInv /\ Inv /\ [Next]_vars => Inv'
  <2> SUFFICES ASSUME TypeOK, Listed, DeliveryInv, Inv, [Next]_vars
               PROVE  Inv'
    OBVIOUS
  <2>1. Shape
    BY StepShape
  <2>2. ReadyIsApproved'
    BY <2>1 DEF Shape, RowStep, ApprovalStep, Moved, ReadyIsApproved, EditableStates, Permitted
  <2>3. ApprovedIsSubmitted'
    <3> SUFFICES ASSUME NEW i \in Intents, intent'[i].state # "absent"
                 PROVE  intent'[i].answers = approved'[intent'[i].app]
      BY DEF ApprovedIsSubmitted
    <3>1. CASE intent[i].state # "absent"
      <4>1. intent'[i].app = intent[i].app /\ intent'[i].answers = intent[i].answers
        BY <2>1, <3>1 DEF Shape, IntentStep
      <4>2. intent[i].app \in Attempts /\ attempt[intent[i].app].state # "needs_review"
        BY <3>1 DEF DeliveryInv, IntentMatchesAttempt, Mirror, TypeOK, IntentRow, IntentStates
      <4>. QED  BY <2>1, <3>1, <4>1, <4>2 DEF Shape, ApprovalStep, ApprovedIsSubmitted
    <3>2. CASE intent[i].state = "absent"
      BY <2>1, <3>2 DEF Shape, IntentStep, ApprovalStep, ReadyIsApproved
    <3>. QED  BY <3>1, <3>2
  <2>. QED  BY <2>2, <2>3
<1> HIDE DEF Inv
<1>3. Inv => ApprovedIsSubmitted
  BY DEF Inv
<1>. QED  BY <1>1, <1>2, <1>3, TypeCorrect, AlwaysListed, InitDelivery, NextKeepsDelivery, PTL DEF Spec
-----------------------------------------------------------------------------
(***************************************************************************)
(* The reservations.                                                       *)
(***************************************************************************)

\* The three steps that touch intents or reservations.
LEMMA QuotaFrame ==
  ASSUME [Next]_vars,
         ~ \E c \in Clients, a \in Attempts, i \in Intents, p \in Policies \cup {None} : Submit(c, a, i, p),
         ~ \E a \in Attempts, v \in {"submitted", "not_submitted"} : ResolveSubmission(a, v)
  PROVE  UNCHANGED reservation /\ (UNCHANGED intent \/ DispatchSubmission)
BY DEF Next, Worker, Create, Read, EditAnswers, Approve, Cancel, Retry, PatchPolicy, ClaimOperation,
       EnterPreparation, AskForReview, DispatchSubmission, FinishOperation, Crash, Restart, NextDay, vars,
       intentVars

\* One intent and its reservation agree: the part of ReservationMatchesIntent that speaks of i.
Agrees(i) ==
  IF intent[i].state # "absent" /\ intent[i].authority = "automatic"
    THEN reservation[i].state = Slot(intent[i].state)
    ELSE reservation[i] = AbsentQuota

LEMMA NextKeepsReservations ==
  TypeOK /\ ReservationMatchesIntent /\ [Next]_vars => ReservationMatchesIntent'
<1> SUFFICES ASSUME TypeOK, \A i \in Intents : Agrees(i), [Next]_vars, NEW i \in Intents
             PROVE  Agrees(i)'
  BY DEF ReservationMatchesIntent, Agrees
<1>1. intent[i] \in IntentRow /\ reservation[i] \in QuotaRow /\ Agrees(i)
  BY DEF TypeOK
<1>2. ASSUME NEW c \in Clients, NEW a \in Attempts, NEW j \in Intents,
             NEW p \in Policies \cup {None}, Submit(c, a, j, p)
      PROVE  Agrees(i)'
  <2>1. CASE i = j
    <3>1. reservation[j] = AbsentQuota
      BY <1>1, <1>2, <2>1 DEF Submit, Agrees
    <3>2. /\ intent'[j].state = "committed"
          /\ intent'[j].authority = IF p = None THEN "manual" ELSE "automatic"
          /\ p = None => reservation'[j] = reservation[j]
          /\ p # None => reservation'[j].state = "reserved"
      BY <1>2 DEF Submit, TypeOK
    <3>. QED  BY <2>1, <3>1, <3>2 DEF Agrees, Slot
  <2>2. CASE i # j
    <3>1. intent'[i] = intent[i] /\ reservation'[i] = reservation[i]
      BY <1>2, <2>2 DEF Submit, TypeOK
    <3>. QED  BY <1>1, <3>1 DEF Agrees
  <2>. QED  BY <2>1, <2>2
<1>3. ASSUME NEW a \in Attempts, NEW v \in {"submitted", "not_submitted"}, ResolveSubmission(a, v)
      PROVE  Agrees(i)'
  <2>1. CASE i \in OpenIntents(a)
    <3>1. intent[i].state \in {"committed", "submission_unknown"}
      BY <2>1 DEF OpenIntents
    <3>2. intent'[i].state = v /\ intent'[i].authority = intent[i].authority
      BY <1>1, <1>3, <2>1 DEF ResolveSubmission, IntentRow
    <3>3. CASE intent[i].authority = "automatic"
      <4>1. reservation[i].state = "reserved"
        BY <1>1, <3>1, <3>3 DEF Agrees, Slot
      <4>2. reservation'[i].state = Settled(v)
        BY <1>1, <1>3, <2>1, <4>1 DEF ResolveSubmission, QuotaRow
      <4>. QED  BY <3>2, <3>3, <4>2 DEF Agrees, Slot, Settled
    <3>4. CASE intent[i].authority # "automatic"
      <4>1. reservation[i] = AbsentQuota
        BY <1>1, <3>4 DEF Agrees
      <4>2. reservation'[i] = reservation[i]
        BY <1>3, <4>1 DEF ResolveSubmission, AbsentQuota
      <4>. QED  BY <3>2, <3>4, <4>1, <4>2 DEF Agrees
    <3>. QED  BY <3>3, <3>4
  <2>2. CASE i \notin OpenIntents(a)
    <3>1. intent'[i] = intent[i] /\ reservation'[i] = reservation[i]
      BY <1>3, <2>2 DEF ResolveSubmission
    <3>. QED  BY <1>1, <3>1 DEF Agrees
  <2>. QED  BY <2>1, <2>2
<1>4. ASSUME UNCHANGED reservation, UNCHANGED intent \/ DispatchSubmission
      PROVE  Agrees(i)'
  <2>1. CASE UNCHANGED intent
    BY <1>1, <1>4, <2>1 DEF Agrees
  <2>2. CASE DispatchSubmission
    <3>1. /\ intent'[i].authority = intent[i].authority
          /\ \/ intent'[i].state = intent[i].state
             \/ intent[i].state = "committed" /\ intent'[i].state = "submission_unknown"
      BY <1>1, <2>2 DEF DispatchSubmission, IntentRow
    <3>. QED  BY <1>1, <1>4, <3>1 DEF Agrees, Slot
  <2>. QED  BY <1>4, <2>1, <2>2
<1>. QED  BY <1>2, <1>3, <1>4, QuotaFrame

\* The quota of automatic authority stands as the intents do: reserved while the outcome is open,
\* consumed or released by the verdict, untouched by a death, a restart and manual submissions.
THEOREM ReservationsFollowIntents == Spec => []ReservationMatchesIntent
<1>1. Init => ReservationMatchesIntent
  BY DEF Init, ReservationMatchesIntent, AbsentIntent
<1>. QED  BY <1>1, NextKeepsReservations, TypeCorrect, PTL DEF Spec

-----------------------------------------------------------------------------
(***************************************************************************)
(* The refinement of Delivery.                                             *)
(***************************************************************************)

ListingOf(i) == attempt[intent[i].app].listing

\* An intent that exists keeps its vacancy.
LEMMA ListingKept ==
  ASSUME TypeOK, DeliveryInv, Shape, NEW i \in Intents, intent[i].state # "absent"
  PROVE  /\ intent[i].app \in Attempts /\ attempt[intent[i].app].state # "absent"
         /\ intent'[i].app = intent[i].app
         /\ ListingOf(i)' = ListingOf(i)
<1>1. intent[i].app \in Attempts /\ attempt[intent[i].app].state # "absent"
  BY DEF TypeOK, IntentRow, IntentStates, DeliveryInv, IntentMatchesAttempt, Mirror
<1>2. intent'[i].app = intent[i].app
  BY DEF Shape, IntentStep
<1>3. attempt'[intent[i].app].listing = attempt[intent[i].app].listing
  BY <1>1 DEF Shape, RowStep
<1>. QED  BY <1>1, <1>2, <1>3 DEF ListingOf

Exposed   == [l \in Listings |-> {i \in Intents : MayHaveReached(i) /\ attempt[intent[i].app].listing = l}]
Confirmed == {l \in Listings : \E i \in Intents :
                intent[i].state = "submitted" /\ attempt[intent[i].app].listing = l}
Spent     == {i \in Intents : intent[i].state # "absent"}

\* Intents that stay as far as they were expose what they exposed.
LEMMA DeliveryStutters ==
  ASSUME TypeOK, DeliveryInv, Shape,
         \A i \in Intents :
           /\ MayHaveReached(i)' <=> MayHaveReached(i)
           /\ intent'[i].state = "submitted" <=> intent[i].state = "submitted"
           /\ intent'[i].state = "absent" <=> intent[i].state = "absent"
  PROVE  UNCHANGED <<Exposed, Confirmed, Spent>>
<1>1. \A i \in Intents : MayHaveReached(i) \/ intent[i].state = "submitted" =>
        ListingOf(i)' = ListingOf(i)
  BY ListingKept DEF MayHaveReached, ActiveIntentStates
<1>2. Exposed' = Exposed
  BY <1>1 DEF Exposed, ListingOf
<1>3. Confirmed' = Confirmed
  BY <1>1 DEF Confirmed, ListingOf
<1>4. Spent' = Spent
  BY DEF Spent
<1>. QED  BY <1>2, <1>3, <1>4

\* The intent transaction is a commitment of the promise.
LEMMA SubmitCommits ==
  ASSUME TypeOK, Listed, DeliveryInv, Shape, NEW c \in Clients, NEW a \in Attempts, NEW i \in Intents,
         NEW p \in Policies \cup {None}, Submit(c, a, i, p)
  PROVE  DeliveryPromise!Next
<1> SUFFICES ASSUME NEW l \in Listings, attempt[a].listing = l
             PROVE  DeliveryPromise!Next
  BY DEF Submit, Listed
<1>1. /\ attempt[a].state = "ready" /\ intent[i].state = "absent" /\ IntentFree(a)
      /\ intent'[i].app = a /\ intent'[i].state = "committed"
      /\ \A j \in Intents : j # i => intent'[j] = intent[j]
      /\ attempt' = Move(a, "submitting")
  BY DEF Submit, TypeOK
<1>2. attempt'[a].listing = l
  BY <1>1, MoveRow
<1>3. Exposed[l] = {}
  <2> SUFFICES ASSUME NEW j \in Intents, MayHaveReached(j), ListingOf(j) = l
               PROVE  FALSE
    BY <1>2 DEF Exposed, ListingOf
  <2>1. intent[j].app \in Attempts /\ attempt[intent[j].app].state \in ActiveStates
    BY DEF MayHaveReached, ActiveIntentStates, ActiveStates, TypeOK, IntentRow, DeliveryInv,
           IntentMatchesAttempt, Mirror
  <2>2. intent[j].app = a
    BY <1>1, <2>1 DEF DeliveryInv, OneActiveAttempt, ActiveStates, ListingOf
  <2>. QED  BY <1>1, <2>2 DEF IntentFree, MayHaveReached
<1>4. \A j \in Intents : j # i => /\ MayHaveReached(j)' <=> MayHaveReached(j)
                                  /\ MayHaveReached(j) => ListingOf(j)' = ListingOf(j)
  BY <1>1, ListingKept DEF MayHaveReached, ActiveIntentStates
<1>5. ~MayHaveReached(i) /\ MayHaveReached(i)' /\ ListingOf(i)' = l
  BY <1>1, <1>2 DEF MayHaveReached, ActiveIntentStates, ListingOf
<1>6. \A m \in Listings : Exposed'[m] = IF m = l THEN {i} ELSE Exposed[m]
  <2> SUFFICES ASSUME NEW m \in Listings
               PROVE  Exposed'[m] = IF m = l THEN {i} ELSE Exposed[m]
    OBVIOUS
  <2>1. Exposed'[m] = {j \in Intents : MayHaveReached(j)' /\ ListingOf(j)' = m}
    BY DEF Exposed, ListingOf
  <2>2. Exposed[m] = {j \in Intents : MayHaveReached(j) /\ ListingOf(j) = m}
    BY DEF Exposed, ListingOf
  <2>. QED  BY <1>2, <1>3, <1>4, <1>5, <2>1, <2>2
<1>7. Exposed' = [Exposed EXCEPT ![l] = {i}]
  BY <1>6 DEF Exposed
<1>8. Confirmed' = Confirmed
  <2>1. \A j \in Intents : intent'[j].state = "submitted" <=> intent[j].state = "submitted"
    BY <1>1
  <2>2. \A j \in Intents : intent[j].state = "submitted" => ListingOf(j)' = ListingOf(j)
    BY ListingKept
  <2>. QED  BY <2>1, <2>2 DEF Confirmed, ListingOf
<1>9. i \notin Spent /\ Spent' = Spent \cup {i}
  BY <1>1 DEF Spent
<1>10. DeliveryPromise!Commit(l, i)
  BY <1>2, <1>3, <1>7, <1>8, <1>9 DEF DeliveryPromise!Commit, Exposed, Confirmed, Spent
<1>. QED  BY <1>2, <1>10 DEF DeliveryPromise!Next

\* The user's verdict confirms or disproves the one exposure of the vacancy.
LEMMA ResolveSettles ==
  ASSUME TypeOK, Listed, DeliveryInv, Shape, NEW a \in Attempts,
         NEW verdict \in {"submitted", "not_submitted"}, ResolveSubmission(a, verdict)
  PROVE  DeliveryPromise!Next
<1> SUFFICES ASSUME NEW l \in Listings, attempt[a].listing = l
             PROVE  DeliveryPromise!Next
  BY DEF ResolveSubmission, Listed
<1>1. attempt[a].state = "submission_unknown"
  BY DEF ResolveSubmission
<1>2. PICK i \in Intents : intent[i].app = a /\ intent[i].state = "submission_unknown"
  <2>1. PICK i \in Intents : intent[i].app = a /\ Mirror(intent[i].state) = "submission_unknown"
    BY <1>1 DEF DeliveryInv, IntentMatchesAttempt
  <2>. QED  BY <2>1 DEF Mirror, TypeOK, IntentRow, IntentStates
<1>3. /\ intent'[i].state = verdict
      /\ \A j \in Intents : j # i => intent'[j] = intent[j]
  <2>1. \A j \in Intents : j \in OpenIntents(a) <=> j = i
    BY <1>2 DEF OpenIntents, DeliveryInv, OneIntentPerAttempt
  <2>. QED  BY <2>1 DEF ResolveSubmission, TypeOK, IntentRow
<1>4. \A j \in Intents : intent[j].state # "absent" => ListingOf(j)' = ListingOf(j)
  BY ListingKept
<1>5. ListingOf(i) = l /\ MayHaveReached(i)
  BY <1>2 DEF ListingOf, MayHaveReached, ActiveIntentStates
<1>6. \A j \in Intents : MayHaveReached(j) /\ ListingOf(j) = l => j = i
  BY <1>5, OneDelivery DEF NoSecondDelivery, ListingOf
<1>7. Exposed[l] = {i}
  BY <1>1, <1>5, <1>6 DEF Exposed, ListingOf
<1>8. l \notin Confirmed
  BY <1>2, <1>6 DEF Confirmed, ListingOf, MayHaveReached, ActiveIntentStates
<1>9. Spent' = Spent
  BY <1>2, <1>3 DEF Spent
<1>10. \A j \in Intents : j # i => (MayHaveReached(j)' <=> MayHaveReached(j))
  BY <1>3 DEF MayHaveReached
<1>11. \A j \in Intents : MayHaveReached(j) => ListingOf(j)' = ListingOf(j)
  BY <1>4 DEF MayHaveReached, ActiveIntentStates
<1>12. CASE verdict = "submitted"
  <2>1. MayHaveReached(i)'
    BY <1>3, <1>12 DEF MayHaveReached, ActiveIntentStates
  <2>2. Exposed' = Exposed
    BY <1>5, <1>10, <1>11, <2>1 DEF Exposed, ListingOf
  <2>3. Confirmed' = Confirmed \cup {l}
    BY <1>1, <1>2, <1>3, <1>4, <1>5, <1>12 DEF Confirmed, ListingOf
  <2>4. DeliveryPromise!Confirm(l)
    BY <1>7, <1>8, <1>9, <2>2, <2>3 DEF DeliveryPromise!Confirm, Exposed, Confirmed, Spent
  <2>. QED  BY <1>1, <2>4 DEF DeliveryPromise!Next
<1>13. CASE verdict = "not_submitted"
  <2>1. ~MayHaveReached(i)'
    BY <1>3, <1>13 DEF MayHaveReached, ActiveIntentStates
  <2>2. \A m \in Listings : Exposed'[m] = IF m = l THEN {} ELSE Exposed[m]
    <3> SUFFICES ASSUME NEW m \in Listings
                 PROVE  Exposed'[m] = IF m = l THEN {} ELSE Exposed[m]
      OBVIOUS
    <3>1. Exposed'[m] = {j \in Intents : MayHaveReached(j)' /\ ListingOf(j)' = m}
      BY DEF Exposed, ListingOf
    <3>2. Exposed[m] = {j \in Intents : MayHaveReached(j) /\ ListingOf(j) = m}
      BY DEF Exposed, ListingOf
    <3>. QED  BY <1>5, <1>6, <1>10, <1>11, <2>1, <3>1, <3>2
  <2>3. Exposed' = [Exposed EXCEPT ![l] = {}]
    BY <2>2 DEF Exposed
  <2>4. Confirmed' = Confirmed
    BY <1>2, <1>3, <1>4, <1>13 DEF Confirmed, ListingOf
  <2>5. DeliveryPromise!Disprove(l)
    BY <1>7, <1>8, <1>9, <2>3, <2>4 DEF DeliveryPromise!Disprove, Exposed, Confirmed, Spent
  <2>. QED  BY <1>1, <2>5 DEF DeliveryPromise!Next
<1>. QED  BY <1>12, <1>13

LEMMA NextDelivers ==
  TypeOK /\ Listed /\ DeliveryInv /\ [Next]_vars => [DeliveryPromise!Next]_(DeliveryPromise!vars)
<1> SUFFICES ASSUME TypeOK, Listed, DeliveryInv, [Next]_vars
             PROVE  [DeliveryPromise!Next]_(DeliveryPromise!vars)
  OBVIOUS
<1>1. Shape
  BY StepShape
<1>2. ASSUME UNCHANGED intent \/ DispatchSubmission
      PROVE  UNCHANGED DeliveryPromise!vars
  <2>1. \A i \in Intents : /\ MayHaveReached(i)' <=> MayHaveReached(i)
                           /\ intent'[i].state = "submitted" <=> intent[i].state = "submitted"
                           /\ intent'[i].state = "absent" <=> intent[i].state = "absent"
    <3>1. CASE UNCHANGED intent
      BY <3>1 DEF MayHaveReached
    <3>2. CASE DispatchSubmission
      <4>1. \A i \in Intents : \/ intent'[i].state = intent[i].state
                               \/ intent[i].state = "committed" /\ intent'[i].state = "submission_unknown"
        BY <3>2 DEF DispatchSubmission, TypeOK, IntentRow
      <4>. QED  BY <4>1 DEF MayHaveReached, ActiveIntentStates
    <3>. QED  BY <1>2, <3>1, <3>2
  <2>2. UNCHANGED <<Exposed, Confirmed, Spent>>
    BY <1>1, <2>1, DeliveryStutters
  <2>. QED  BY <2>2 DEF DeliveryPromise!vars, Exposed, Confirmed, Spent
<1>. QED  BY <1>1, <1>2, SubmitCommits, ResolveSettles, QuotaFrame

\* The handlers, the worker and every death and restart between them keep the promise of Delivery.
THEOREM PromiseKept == Spec => DeliversOnce
<1>1. Init => DeliveryPromise!Init
  BY DEF Init, DeliveryPromise!Init, MayHaveReached, AbsentIntent, ActiveIntentStates
<1>. QED
  BY <1>1, NextDelivers, TypeCorrect, AlwaysListed, InitDelivery, NextKeepsDelivery, PTL
     DEF Spec, DeliversOnce, DeliveryPromise!Spec
-----------------------------------------------------------------------------
(***************************************************************************)
(* The refinement of Quota, for every policy and day at once.              *)
(***************************************************************************)

\* Only finitely many intents ever hold a reservation, however many ids there are to choose from:
\* the counts of the quota are the sizes of finite sets.
Reserving == {i \in Intents : reservation[i].state # "absent"}
FiniteReservations == IsFiniteSet(Reserving)

\* The slots of a policy's day that stand in a state.
Slots(p, d, s) ==
  {i \in Intents : reservation[i].policy = p /\ reservation[i].day = d /\ reservation[i].state = s}

\* The one intent whose attempt the user's verdict settles.
LEMMA OneIntentResolved ==
  ASSUME TypeOK, DeliveryInv, NEW a \in Attempts, NEW v \in {"submitted", "not_submitted"},
         ResolveSubmission(a, v)
  PROVE  \E i \in Intents :
           /\ \A j \in Intents : j # i => reservation'[j] = reservation[j]
           /\ \/ reservation'[i] = reservation[i]
              \/ /\ reservation[i].state = "reserved"
                 /\ reservation'[i] = [reservation[i] EXCEPT !.state = Settled(v)]
<1>1. PICK i \in Intents : intent[i].app = a /\ Mirror(intent[i].state) = "submission_unknown"
  BY DEF ResolveSubmission, DeliveryInv, IntentMatchesAttempt
<1>2. intent[i].state = "submission_unknown"
  BY <1>1 DEF Mirror, TypeOK, IntentRow, IntentStates
<1>3. \A j \in Intents : j \in OpenIntents(a) => j = i
  BY <1>1, <1>2 DEF OpenIntents, DeliveryInv, OneIntentPerAttempt
<1>4. \A j \in Intents : j # i => reservation'[j] = reservation[j]
  BY <1>3 DEF ResolveSubmission
<1>5. \/ reservation'[i] = reservation[i]
      \/ /\ reservation[i].state = "reserved"
         /\ reservation'[i] = [reservation[i] EXCEPT !.state = Settled(v)]
  BY DEF ResolveSubmission
<1>. QED  BY <1>4, <1>5

LEMMA NextKeepsFinite ==
  TypeOK /\ DeliveryInv /\ FiniteReservations /\ [Next]_vars => FiniteReservations'
<1> SUFFICES ASSUME TypeOK, DeliveryInv, FiniteReservations, [Next]_vars
             PROVE  FiniteReservations'
  OBVIOUS
<1>1. ASSUME NEW c \in Clients, NEW a \in Attempts, NEW i \in Intents,
             NEW p \in Policies \cup {None}, Submit(c, a, i, p)
      PROVE  FiniteReservations'
  <2>1. \A j \in Intents : j # i => reservation'[j] = reservation[j]
    BY <1>1 DEF Submit, TypeOK
  <2>2. IsFiniteSet(Reserving \cup {i})
    BY FS_AddElement DEF FiniteReservations
  <2>3. Reserving' \subseteq Reserving \cup {i}
    BY <2>1 DEF Reserving
  <2>. QED  BY <2>2, <2>3, FS_Subset DEF FiniteReservations
<1>2. ASSUME NEW a \in Attempts, NEW v \in {"submitted", "not_submitted"}, ResolveSubmission(a, v)
      PROVE  FiniteReservations'
  <2>1. PICK i \in Intents :
           /\ \A j \in Intents : j # i => reservation'[j] = reservation[j]
           /\ \/ reservation'[i] = reservation[i]
              \/ /\ reservation[i].state = "reserved"
                 /\ reservation'[i] = [reservation[i] EXCEPT !.state = Settled(v)]
    BY <1>2, OneIntentResolved
  <2>2. Reserving' \subseteq Reserving
    BY <2>1 DEF Reserving
  <2>. QED  BY <2>2, FS_Subset DEF FiniteReservations
<1>3. CASE UNCHANGED reservation
  BY <1>3 DEF FiniteReservations, Reserving
<1>. QED  BY <1>1, <1>2, <1>3, QuotaFrame

\* The slots of a day in one state are finitely many.
LEMMA SlotsFinite ==
  ASSUME FiniteReservations, NEW p \in Policies, NEW d \in Nat, NEW s, s # "absent"
  PROVE  IsFiniteSet(Slots(p, d, s)) /\ Cardinality(Slots(p, d, s)) \in Nat
<1>1. Slots(p, d, s) \subseteq Reserving
  BY DEF Slots, Reserving
<1>. QED  BY <1>1, FS_Subset, FS_CardinalityType DEF FiniteReservations

\* The SQL counts reserved and consumed rows together; the pure functions keep the two apart.
LEMMA UsedSplits ==
  ASSUME FiniteReservations, NEW p \in Policies, NEW d \in Nat
  PROVE  Used(p, d) = Cardinality(Slots(p, d, "consumed")) + Cardinality(Slots(p, d, "reserved"))
<1> DEFINE C == Slots(p, d, "consumed")
           R == Slots(p, d, "reserved")
<1>1. Used(p, d) = Cardinality(C \cup R)
  <2>1. {i \in Intents : HoldsSlot(i, p, d)} = C \cup R
    BY DEF HoldsSlot, Slots
  <2>. QED  BY <2>1 DEF Used
<1>2. C \cap R = {}
  BY DEF Slots
<1>3. IsFiniteSet(C) /\ IsFiniteSet(R) /\ Cardinality(C) \in Nat /\ Cardinality(R) \in Nat
  BY SlotsFinite
<1> HIDE DEF C, R
<1>4. Cardinality(C \cup R) = Cardinality(C) + Cardinality(R) - Cardinality(C \cap R)
  BY <1>3, FS_Union
<1>5. Cardinality(C \cap R) = 0
  BY <1>2, FS_EmptySet
<1>6. Used(p, d) = Cardinality(C) + Cardinality(R)
  BY <1>1, <1>3, <1>4, <1>5
<1>. QED  BY <1>6 DEF C, R

\* The state of an intent's reservation, seen from one policy and day.
Seen(p, d) == [i \in Intents |-> IF reservation[i].policy = p /\ reservation[i].day = d
                                   THEN reservation[i].state ELSE "absent"]

\* The instance of Quota carries its own copy of the library's Cardinality.
LEMMA SameCount ==
  ASSUME NEW p \in Policies, NEW d \in Nat, NEW S
  PROVE  DayQuota(p, d)!Cardinality(S) = Cardinality(S)
BY DEF DayQuota!Cardinality, Cardinality

\* Taking the slot: below the cap, from an intent that held none.
LEMMA SubmitReserves ==
  ASSUME TypeOK, ReservationMatchesIntent, FiniteReservations, NEW c \in Clients,
         NEW a \in Attempts, NEW i \in Intents, NEW q \in Policies \cup {None}, Submit(c, a, i, q),
         NEW p \in Policies, NEW d \in Nat
  PROVE  [DayQuota(p, d)!Next]_(DayQuota(p, d)!vars)
<1>1. /\ reservation[i] = AbsentQuota
      /\ policy' = policy
      /\ \A j \in Intents : j # i => reservation'[j] = reservation[j]
      /\ q = None => reservation'[i] = reservation[i]
      /\ q # None => /\ reservation'[i] = [policy |-> q, day |-> DayKey(q), state |-> "reserved"]
                     /\ QuotaLeft(q)
  BY DEF Submit, TypeOK, ReservationMatchesIntent
<1>2. p # None
  BY NoneAssumption
<1>3. Slots(p, d, "consumed")' = Slots(p, d, "consumed")
  BY <1>1 DEF Slots, AbsentQuota
<1>4. CASE q = p /\ d = DayKey(q)
  <2>1. Seen(p, d)[i] = "absent"
    BY <1>1, <1>2 DEF Seen, AbsentQuota
  <2>2. Seen(p, d)' = [Seen(p, d) EXCEPT ![i] = "reserved"]
    <3>1. reservation'[i].policy = p /\ reservation'[i].day = d /\ reservation'[i].state = "reserved"
      BY <1>1, <1>2, <1>4
    <3>2. \A j \in Intents : Seen(p, d)'[j] = IF j = i THEN "reserved" ELSE Seen(p, d)[j]
      BY <1>1, <3>1 DEF Seen
    <3>. QED  BY <3>2 DEF Seen
  <2>3. Cardinality(Slots(p, d, "consumed")) + Cardinality(Slots(p, d, "reserved")) < policy[p].cap
    BY <1>1, <1>2, <1>4, UsedSplits DEF QuotaLeft
  <2>4. Slots(p, d, "reserved") = {j \in Intents : Seen(p, d)[j] = "reserved"}
    BY DEF Slots, Seen
  <2>5. Slots(p, d, "consumed") = {j \in Intents : HoldsSlot(j, p, d) /\ reservation[j].state = "consumed"}
    BY DEF Slots, HoldsSlot
  <2>6. DayQuota(p, d)!QuotaUsed < policy[p].cap
    BY <2>3, <2>4, <2>5, SameCount DEF DayQuota!QuotaUsed, Seen
  <2>7. Cardinality({j \in Intents : HoldsSlot(j, p, d) /\ reservation[j].state = "consumed"})'
          = Cardinality({j \in Intents : HoldsSlot(j, p, d) /\ reservation[j].state = "consumed"})
    BY <1>3, <2>5 DEF Slots, HoldsSlot
  <2>8. DayQuota(p, d)!ReserveQuota(i)
    BY <1>1, <2>1, <2>2, <2>6, <2>7 DEF DayQuota!ReserveQuota, Seen
  <2>. QED  BY <2>8 DEF DayQuota!Next
<1>5. CASE ~(q = p /\ d = DayKey(q))
  <2>1. Seen(p, d)' = Seen(p, d)
    BY <1>1, <1>2, <1>5 DEF Seen, AbsentQuota
  <2>. QED  BY <1>1, <1>3, <2>1 DEF DayQuota!vars, Seen, Slots, HoldsSlot
<1>. QED  BY <1>4, <1>5

\* Settling the slot: consumed or released once, on the day and policy it was taken for.
LEMMA ResolveSettlesQuota ==
  ASSUME TypeOK, DeliveryInv, FiniteReservations, NEW a \in Attempts,
         NEW v \in {"submitted", "not_submitted"}, ResolveSubmission(a, v),
         NEW p \in Policies, NEW d \in Nat
  PROVE  [DayQuota(p, d)!Next]_(DayQuota(p, d)!vars)
<1>1. PICK i \in Intents :
         /\ \A j \in Intents : j # i => reservation'[j] = reservation[j]
         /\ \/ reservation'[i] = reservation[i]
            \/ /\ reservation[i].state = "reserved"
               /\ reservation'[i] = [reservation[i] EXCEPT !.state = Settled(v)]
  BY OneIntentResolved
<1>2. policy' = policy
  BY DEF ResolveSubmission
<1>3. CASE /\ reservation[i].policy = p /\ reservation[i].day = d
           /\ reservation'[i] # reservation[i]
  <2>1. /\ reservation[i].state = "reserved"
        /\ reservation'[i].policy = p /\ reservation'[i].day = d
        /\ reservation'[i].state = Settled(v)
    BY <1>1, <1>3 DEF TypeOK, QuotaRow
  <2>2. Seen(p, d)[i] = "reserved"
    BY <1>3, <2>1 DEF Seen
  <2>3. Seen(p, d)' = [Seen(p, d) EXCEPT ![i] = Settled(v)]
    BY <1>1, <2>1 DEF Seen
  <2>4. CASE v = "submitted"
    <3>1. Slots(p, d, "consumed")' = Slots(p, d, "consumed") \cup {i} /\ i \notin Slots(p, d, "consumed")
      BY <1>1, <2>1, <2>4 DEF Slots, Settled
    <3>2. Cardinality(Slots(p, d, "consumed"))' = Cardinality(Slots(p, d, "consumed")) + 1
      BY <3>1, SlotsFinite, FS_AddElement
    <3>3. DayQuota(p, d)!ConsumeQuota(i)
      BY <1>2, <2>2, <2>3, <2>4, <3>2 DEF DayQuota!ConsumeQuota, Seen, Slots, HoldsSlot, Settled
    <3>. QED  BY <3>3 DEF DayQuota!Next
  <2>5. CASE v # "submitted"
    <3>1. Slots(p, d, "consumed")' = Slots(p, d, "consumed")
      BY <1>1, <2>1, <2>5 DEF Slots, Settled
    <3>2. DayQuota(p, d)!ReleaseQuota(i)
      BY <1>2, <2>2, <2>3, <2>5, <3>1 DEF DayQuota!ReleaseQuota, Seen, Slots, HoldsSlot, Settled
    <3>. QED  BY <3>2 DEF DayQuota!Next
  <2>. QED  BY <2>4, <2>5
<1>4. CASE ~(/\ reservation[i].policy = p /\ reservation[i].day = d
             /\ reservation'[i] # reservation[i])
  <2>1. \A j \in Intents :
          \/ reservation'[j] = reservation[j]
          \/ /\ ~(reservation[j].policy = p /\ reservation[j].day = d)
             /\ reservation'[j].policy = reservation[j].policy
             /\ reservation'[j].day = reservation[j].day
    BY <1>1, <1>4 DEF TypeOK, QuotaRow
  <2>2. Seen(p, d)' = Seen(p, d) /\ Slots(p, d, "consumed")' = Slots(p, d, "consumed")
    BY <2>1 DEF Seen, Slots
  <2>. QED  BY <1>2, <2>2 DEF DayQuota!vars, Seen, Slots, HoldsSlot
<1>. QED  BY <1>3, <1>4

\* No other step touches a reservation; an edit of the policy moves its cap only.
LEMMA OthersKeepQuota ==
  ASSUME TypeOK, TypeOK', UNCHANGED reservation, NEW p \in Policies, NEW d \in Nat
  PROVE  DayQuota(p, d)!Next
<1>1. policy'[p].cap \in Nat
  BY SettingsAssumption DEF TypeOK
<1>2. DayQuota(p, d)!ChangeCap
  BY <1>1 DEF DayQuota!ChangeCap, HoldsSlot
<1>. QED  BY <1>2 DEF DayQuota!Next

\* The statements of the handlers implement the quota of domain/scheduling.ts for every policy and
\* every local day: slots are taken below the cap in force, settled once, and never moved.
THEOREM QuotaImplemented == Spec => ImplementsQuota
<1> DEFINE Step == <<reservation, policy>>' # <<reservation, policy>> =>
                     \A p \in Policies : \A d \in 0 .. MaxDay + 1 :
                       [DayQuota(p, d)!Next]_(DayQuota(p, d)!vars)
           Inv == TypeOK /\ DeliveryInv /\ ReservationMatchesIntent /\ FiniteReservations
<1>1. Init => FiniteReservations
  <2>1. Init => Reserving = {}
    BY DEF Init, Reserving, AbsentQuota
  <2>. QED  BY <2>1, FS_EmptySet DEF FiniteReservations
<1>2. Inv /\ TypeOK' /\ [Next]_vars => Step
  <2> SUFFICES ASSUME Inv, TypeOK', [Next]_vars, NEW p \in Policies, NEW d \in 0 .. MaxDay + 1
               PROVE  [DayQuota(p, d)!Next]_(DayQuota(p, d)!vars)
    OBVIOUS
  <2>1. d \in Nat
    OBVIOUS
  <2>. QED  BY <2>1, SubmitReserves, ResolveSettlesQuota, OthersKeepQuota, QuotaFrame
<1>3. (ImplementsQuota) <=> [][Step]_vars
  BY PTL DEF ImplementsQuota
<1> HIDE DEF Step
<1>. QED
  BY <1>1, <1>2, <1>3, TypeCorrect, InitDelivery, NextKeepsDelivery, ReservationsFollowIntents,
     NextKeepsFinite, PTL DEF Spec
===============================================================================
