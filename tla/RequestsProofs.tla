--------------------------- MODULE RequestsProofs ---------------------------
(***************************************************************************)
(* Proofs about keyed requests and what they set in motion, for any number *)
(* of clients, keys, bodies and deaths of the server.                      *)
(***************************************************************************)
EXTENDS Requests, SequenceTheorems, FiniteSetTheorems, TLAPS

-----------------------------------------------------------------------------
(***************************************************************************)
(* Types.                                                                  *)
(***************************************************************************)
States == {"queued", "running", "succeeded", "failed"}

\* A request that is handled, and the scope of its record.
LEMMA SentTyped ==
  ASSUME TypeOK, NEW c \in Clients, request[c] # None
  PROVE  /\ request[c] \in Request
         /\ Sent(c) \in Commands /\ Sent(c) \in Command
         /\ Scope(Sent(c)) \in Routes \X Keys
BY CommandAssumption DEF TypeOK, Request, Sent, Scope, Command

LEMMA QueuedTyped ==
  ASSUME NEW m \in Command, NEW kind \in Kinds
  PROVE  /\ Queued(kind, m) \in Operation
         /\ Queued(kind, m).kind = kind /\ Queued(kind, m).state = "queued"
         /\ Queued(kind, m).from = Scope(m)
         /\ Queued(kind, m).question
              = IF kind = "answer_profile_question" THEN "queued" ELSE None
BY DEF Queued, Operation, Scope, Command, QuestionStates

\* What a queued operation makes of the table.
LEMMA AppendTyped ==
  ASSUME TypeOK, NEW o \in Operation
  PROVE  LET n == Len(operations) IN
         /\ n \in Nat /\ DOMAIN operations = 1..n
         /\ Append(operations, o) \in Seq(Operation)
         /\ DOMAIN Append(operations, o) = 1..(n + 1)
         /\ Append(operations, o)[n + 1] = o
         /\ \A i \in 1..n : Append(operations, o)[i] = operations[i]
BY DEF TypeOK

\* What a change of one operation makes of it.
LEMMA StateTyped ==
  ASSUME TypeOK, NEW i \in DOMAIN operations, NEW s \in States
  PROVE  /\ OperationState(i, s) \in Seq(Operation)
         /\ DOMAIN OperationState(i, s) = DOMAIN operations
         /\ OperationState(i, s)[i] = [operations[i] EXCEPT !.state = s]
         /\ \A j \in DOMAIN operations : j # i => OperationState(i, s)[j] = operations[j]
<1> DEFINE o == [operations[i] EXCEPT !.state = s]
<1>1. operations \in Seq(Operation) /\ i \in 1..Len(operations) /\ operations[i] \in Operation
  BY DEF TypeOK
<1>2. o \in Operation
  BY <1>1 DEF Operation, States
<1>3. OperationState(i, s) = [operations EXCEPT ![i] = o]
  BY DEF OperationState
<1> HIDE DEF o
<1>4. [operations EXCEPT ![i] = o] \in Seq(Operation)
  BY <1>1, <1>2, ExceptSeq
<1>. QED  BY <1>1, <1>3, <1>4 DEF o

LEMMA QuestionTyped ==
  ASSUME TypeOK, NEW i \in DOMAIN operations, NEW s \in QuestionStates
  PROVE  /\ QuestionState(i, s) \in Seq(Operation)
         /\ DOMAIN QuestionState(i, s) = DOMAIN operations
         /\ QuestionState(i, s)[i] = [operations[i] EXCEPT !.question = s]
         /\ \A j \in DOMAIN operations : j # i => QuestionState(i, s)[j] = operations[j]
<1> DEFINE o == [operations[i] EXCEPT !.question = s]
<1>1. operations \in Seq(Operation) /\ i \in 1..Len(operations) /\ operations[i] \in Operation
  BY DEF TypeOK
<1>2. o \in Operation
  BY <1>1 DEF Operation
<1>3. QuestionState(i, s) = [operations EXCEPT ![i] = o]
  BY DEF QuestionState
<1> HIDE DEF o
<1>4. [operations EXCEPT ![i] = o] \in Seq(Operation)
  BY <1>1, <1>2, ExceptSeq
<1>. QED  BY <1>1, <1>3, <1>4 DEF o

LEMMA OnlyOneChanges ==
  ASSUME TypeOK, NEW i \in DOMAIN operations
  PROVE  \A j \in DOMAIN operations : j # i =>
           /\ \A s \in States : operations' = OperationState(i, s) => operations'[j] = operations[j]
           /\ \A s \in QuestionStates :
                operations' = QuestionState(i, s) => operations'[j] = operations[j]
<1>1. ASSUME NEW s \in States, NEW j \in DOMAIN operations, j # i, operations' = OperationState(i, s)
      PROVE  operations'[j] = operations[j]
  BY <1>1 DEF OperationState
<1>2. ASSUME NEW s \in QuestionStates, NEW j \in DOMAIN operations, j # i,
             operations' = QuestionState(i, s)
      PROVE  operations'[j] = operations[j]
  BY <1>2 DEF QuestionState
<1>. QED  BY <1>1, <1>2

LEMMA InterruptedTyped ==
  ASSUME TypeOK
  PROVE  [i \in DOMAIN operations |-> Interrupted(operations[i])] \in Seq(Operation)
<1>1. operations \in Seq(Operation) /\ Len(operations) \in Nat
      /\ DOMAIN operations = 1..Len(operations)
  BY DEF TypeOK
<1>2. ASSUME NEW i \in 1..Len(operations)
      PROVE  Interrupted(operations[i]) \in Operation
  <2>1. operations[i] \in Operation
    BY <1>1
  <2>. QED  BY <2>1 DEF Interrupted, Operation, QuestionStates
<1>3. [i \in DOMAIN operations |-> Interrupted(operations[i])]
        \in [1..Len(operations) -> Operation]
  BY <1>1, <1>2
<1>. QED  BY <1>1, <1>3, SeqDef

LEMMA SaveTyped ==
  ASSUME TypeOK, NEW m \in Command, NEW answer \in Nat
  PROVE  /\ [body |-> m.body, answer |-> answer] \in Record
         /\ [records EXCEPT ![Scope(m)] = [body |-> m.body, answer |-> answer]]
              \in [Routes \X Keys -> Record \cup {None}]
         /\ Scope(m) \in Routes \X Keys
<1>1. m.body \in Bodies /\ Scope(m) \in Routes \X Keys
  BY DEF Command, Scope
<1>2. [body |-> m.body, answer |-> answer] \in Record
  BY <1>1 DEF Record
<1>. QED  BY <1>1, <1>2 DEF TypeOK

LEMMA IndexedTyped ==
  ASSUME TypeOK
  PROVE  Indexed(file, row) \in IndexRow \cup {None}
<1>1. file \in Bodies \cup {None} /\ row \in IndexRow \cup {None}
  BY DEF TypeOK
<1>2. CASE row = None
  BY <1>1, <1>2 DEF Indexed, IndexRow
<1>3. CASE row # None
  <2>1. row \in IndexRow
    BY <1>1, <1>3
  <2>. QED  BY <1>1, <1>3, <2>1 DEF Indexed, IndexRow
<1>. QED  BY <1>2, <1>3

\* A request that goes on or ends.
LEMMA RequestTyped ==
  ASSUME TypeOK, NEW c \in Clients, request[c] # None, NEW step \in Steps
  PROVE  /\ [request EXCEPT ![c].at = step] \in [Clients -> Request \cup {None}]
         /\ [request EXCEPT ![c] = None] \in [Clients -> Request \cup {None}]
<1>1. request[c] \in Request
  BY SentTyped
<1>2. [request[c] EXCEPT !.at = step] \in Request
  BY <1>1 DEF Request
<1>. QED  BY <1>2 DEF TypeOK

\* What a handler adds to the history of answers.
LEMMA TellTyped ==
  ASSUME TypeOK, NEW m \in Commands, NEW answer \in Nat, Tell(m, answer)
  PROVE  told' \subseteq [command : Commands, answer : Nat]
BY DEF TypeOK, Tell

LEMMA InitTypes == Init => TypeOK
<1> SUFFICES ASSUME Init PROVE TypeOK
  OBVIOUS
<1>1. operations \in Seq(Operation) /\ DOMAIN operations = {}
  BY DEF Init
<1>2. crashes \in 0..MaxCrashes /\ revision \in Nat \ {0}
  BY CrashAssumption DEF Init
<1>3. up \in BOOLEAN /\ stray \subseteq Causes
  BY DEF Init
<1>4. records \in [Routes \X Keys -> Record \cup {None}]
  BY DEF Init
<1>5. request \in [Clients -> Request \cup {None}]
  BY DEF Init
<1>. QED  BY <1>1, <1>2, <1>3, <1>4, <1>5 DEF Init, TypeOK

LEMMA HandleKeepsTypes ==
  ASSUME TypeOK, NEW c \in Clients, Handle(c)
  PROVE  TypeOK'
<1>1. request[c] # None
  BY DEF Handle, At, AnswerFromRecord, Refuse, Accepted, AskQuestion, Reindex, ConfirmFact,
         RejectFact, ResolveFact, StartRun, TestModel, SaveAnswer, BeginUpload, RenameUpload,
         UploadFails, CommitUpload, UploadConflicts
<1>2. /\ Sent(c) \in Commands /\ Sent(c) \in Command /\ Sent(c).body \in Bodies
      /\ Sent(c).route \in Routes /\ Scope(Sent(c)) \in Routes \X Keys
  BY <1>1, SentTyped DEF Command
<1>3. \A step \in Steps : /\ [request EXCEPT ![c].at = step] \in [Clients -> Request \cup {None}]
                          /\ [request EXCEPT ![c] = None] \in [Clients -> Request \cup {None}]
  BY <1>1, RequestTyped
<1>4. Deny(Sent(c)) => denied' \subseteq Routes
  BY <1>2 DEF TypeOK, Deny
<1>5. \A kind \in Kinds : Queued(kind, Sent(c)) \in Operation
  BY <1>2, QueuedTyped
<1>6. ASSUME NEW kind \in Kinds, operations' = Append(operations, Queued(kind, Sent(c))),
             worker' = worker
      PROVE  operations' \in Seq(Operation) /\ worker' \in Taken(DOMAIN operations') \cup {None}
  <2>1. operations' \in Seq(Operation) /\ DOMAIN operations \subseteq DOMAIN operations'
    BY <1>5, <1>6, AppendTyped
  <2>2. worker \in Taken(DOMAIN operations) \cup {None}
    BY DEF TypeOK
  <2>. QED  BY <1>6, <2>1, <2>2 DEF Taken
<1>7. CASE AnswerFromRecord(c)
  <2>1. records[Scope(Sent(c))].answer \in Nat
    BY <1>2, <1>7 DEF AnswerFromRecord, Replay, Recorded, TypeOK, Record
  <2>2. told' \subseteq [command : Commands, answer : Nat]
    BY <1>2, <1>7, <2>1, TellTyped DEF AnswerFromRecord
  <2>. QED  BY <1>3, <1>7, <2>2 DEF AnswerFromRecord, Done, TypeOK, Steps, resourceVars
<1>8. CASE Refuse(c) \/ UploadFails(c) \/ UploadConflicts(c) \/ BeginUpload(c)
  <2>1. stray' \subseteq Causes
    BY <1>8 DEF Refuse, UploadFails, UploadConflicts, BeginUpload, TypeOK, Causes, resourceVars
  <2>. QED  BY <1>3, <1>4, <1>8, <2>1 DEF Refuse, UploadFails, UploadConflicts, BeginUpload, Done,
                                          TypeOK, Steps, resourceVars
<1>9. CASE RenameUpload(c)
  BY <1>2, <1>3, <1>9 DEF RenameUpload, TypeOK, Steps
<1>10. CASE AskQuestion(c) \/ Reindex(c) \/ CommitUpload(c)
  <2> DEFINE n == Len(operations) + 1
  <2>1. n \in Nat
    BY DEF TypeOK
  <2>2. /\ Save(Sent(c), n) /\ Tell(Sent(c), n) /\ Done(c)
        /\ UNCHANGED <<revision, denied, cut, worker, up, resourceVars, crashes>>
        /\ \E kind \in Kinds : operations' = Append(operations, Queued(kind, Sent(c)))
    BY <1>10 DEF AskQuestion, Reindex, CommitUpload, Kinds
  <2>3. operations' \in Seq(Operation) /\ worker' \in Taken(DOMAIN operations') \cup {None}
    BY <1>6, <2>2
  <2> HIDE DEF n
  <2>4. records' \in [Routes \X Keys -> Record \cup {None}]
    BY <1>2, <2>1, <2>2, SaveTyped DEF Save
  <2>5. told' \subseteq [command : Commands, answer : Nat]
    BY <1>2, <2>1, <2>2, TellTyped
  <2>6. request' \in [Clients -> Request \cup {None}]
    BY <1>3, <2>2 DEF Done, Steps
  <2>. QED  BY <2>2, <2>3, <2>4, <2>5, <2>6 DEF TypeOK, resourceVars
<1>11. CASE ConfirmFact(c) \/ RejectFact(c) \/ ResolveFact(c)
  <2>1. DecideFact(c)
    BY <1>11 DEF ConfirmFact, RejectFact, ResolveFact
  <2>2. revision + 1 \in Nat \ {0}
    BY DEF TypeOK
  <2>3. records' \in [Routes \X Keys -> Record \cup {None}]
    BY <1>2, <2>1, <2>2, SaveTyped DEF DecideFact, Save
  <2>4. told' \subseteq [command : Commands, answer : Nat]
    BY <1>2, <2>1, <2>2, TellTyped DEF DecideFact
  <2>5. request' \in [Clients -> Request \cup {None}]
    BY <1>3, <2>1 DEF DecideFact, Done, Steps
  <2>. QED  BY <2>1, <2>2, <2>3, <2>4, <2>5 DEF DecideFact, TypeOK, resourceVars
<1>12. CASE StartRun(c) \/ TestModel(c)
  <2>1. \E kind \in Kinds : Enqueue(c, kind)
    BY <1>12 DEF StartRun, TestModel, Kinds
  <2>2. operations' \in Seq(Operation) /\ worker' \in Taken(DOMAIN operations') \cup {None}
    BY <1>6, <2>1 DEF Enqueue
  <2>3. request' \in [Clients -> Request \cup {None}]
    BY <1>3, <2>1 DEF Enqueue, Steps
  <2>. QED  BY <2>1, <2>2, <2>3 DEF Enqueue, TypeOK, resourceVars
<1>13. CASE SaveAnswer(c)
  <2> DEFINE n == Len(operations)
  <2>1. n \in Nat
    BY DEF TypeOK
  <2>2. Save(Sent(c), n) /\ Tell(Sent(c), n) /\ Done(c)
        /\ UNCHANGED <<revision, denied, cut, operations, worker, up, resourceVars, crashes>>
    BY <1>13 DEF SaveAnswer
  <2> HIDE DEF n
  <2>3. records' \in [Routes \X Keys -> Record \cup {None}]
    BY <1>2, <2>1, <2>2, SaveTyped DEF Save
  <2>4. told' \subseteq [command : Commands, answer : Nat]
    BY <1>2, <2>1, <2>2, TellTyped
  <2>5. request' \in [Clients -> Request \cup {None}]
    BY <1>3, <2>2 DEF Done, Steps
  <2>. QED  BY <2>2, <2>3, <2>4, <2>5 DEF TypeOK, resourceVars
<1>. QED  BY <1>7, <1>8, <1>9, <1>10, <1>11, <1>12, <1>13 DEF Handle

LEMMA WorkKeepsTypes ==
  ASSUME TypeOK, Work
  PROVE  TypeOK'
<1> DEFINE AtOf == {"claimed", "asking", "succeeded", "failed"}
<1>1. ASSUME NEW at \in AtOf, worker # None
      PROVE  [worker EXCEPT !.at = at] \in Taken(DOMAIN operations)
  BY <1>1 DEF TypeOK, Taken
<1>2. worker # None => worker.op \in DOMAIN operations /\ worker.at \in AtOf
  BY DEF TypeOK, Taken
<1>3. CASE ClaimOperation
  <2>1. PICK i \in DOMAIN operations : /\ operations' = OperationState(i, "running")
                                       /\ worker' = [op |-> i, at |-> "claimed"]
    BY <1>3 DEF ClaimOperation
  <2>2. operations' \in Seq(Operation) /\ DOMAIN operations' = DOMAIN operations
    BY <2>1, StateTyped DEF States
  <2>3. worker' \in Taken(DOMAIN operations')
    BY <2>1, <2>2 DEF Taken
  <2>. QED  BY <1>3, <2>2, <2>3 DEF ClaimOperation, TypeOK, requestVars, resourceVars
<1>4. CASE BeginAnswer \/ AnswerProfileQuestion \/ AnswerFails
  <2>1. /\ worker # None
        /\ \E s \in QuestionStates : operations' = QuestionState(worker.op, s)
        /\ \E at \in AtOf : worker' = [worker EXCEPT !.at = at]
        /\ UNCHANGED <<requestVars, up, resourceVars, crashes>>
    BY <1>4 DEF BeginAnswer, AnswerProfileQuestion, AnswerFails, InHand, QuestionStates
  <2>2. operations' \in Seq(Operation) /\ DOMAIN operations' = DOMAIN operations
    <3>1. PICK s \in QuestionStates : operations' = QuestionState(worker.op, s)
      BY <2>1
    <3>. QED  BY <1>2, <2>1, <3>1, QuestionTyped
  <2>3. worker' \in Taken(DOMAIN operations')
    BY <1>1, <2>1, <2>2
  <2>. QED  BY <2>1, <2>2, <2>3 DEF TypeOK, requestVars, resourceVars
<1>5. CASE IndexResources \/ IndexFails \/ ScanOrDiagnose
  <2>1. /\ worker # None
        /\ \E at \in AtOf : worker' = [worker EXCEPT !.at = at]
        /\ UNCHANGED <<requestVars, operations, up, file, crashes>>
        /\ row' \in {row, Indexed(file, row)}
        /\ stray' \in {stray, stray \cup {"failure"}, {}}
    BY <1>5 DEF IndexResources, IndexFails, ScanOrDiagnose, InHand, resourceVars
  <2>2. worker' \in Taken(DOMAIN operations')
    BY <1>1, <2>1
  <2>3. row' \in IndexRow \cup {None} /\ stray' \subseteq Causes
    BY <2>1, IndexedTyped DEF TypeOK, Causes
  <2>. QED  BY <2>1, <2>2, <2>3 DEF TypeOK, requestVars
<1>6. CASE FinishOperation
  <2>1. worker.op \in DOMAIN operations /\ worker.at \in States
    BY <1>2, <1>6 DEF FinishOperation, States
  <2>2. operations' \in Seq(Operation)
    BY <1>6, <2>1, StateTyped DEF FinishOperation
  <2>. QED  BY <1>6, <2>2 DEF FinishOperation, TypeOK, requestVars, resourceVars
<1>. QED  BY <1>3, <1>4, <1>5, <1>6 DEF Work

LEMMA NextKeepsTypes == TypeOK /\ [Next]_vars => TypeOK'
<1> SUFFICES ASSUME TypeOK, [Next]_vars
             PROVE  TypeOK'
  OBVIOUS
<1>1. ASSUME NEW c \in Clients, NEW m \in Commands, NEW e \in 1..revision, Send(c, m, e)
      PROVE  TypeOK'
  <2>1. [command |-> m, at |-> "body", expected |-> e] \in Request
    BY DEF TypeOK, Request, Steps
  <2>2. request' \in [Clients -> Request \cup {None}]
    BY <1>1, <2>1 DEF Send, TypeOK
  <2>. QED  BY <1>1, <2>2 DEF Send, TypeOK, resourceVars
<1>2. ASSUME NEW b \in Bodies \cup {None}, ReplaceFile(b)
      PROVE  TypeOK'
  BY <1>2 DEF ReplaceFile, TypeOK, requestVars, Causes
<1>3. CASE Crash
  <2>1. Lost \subseteq Routes \X Keys
    BY SentTyped DEF Lost
  <2>2. crashes' \in 0..MaxCrashes
    BY <1>3, CrashAssumption DEF Crash, TypeOK
  <2>3. stray' \subseteq Causes
    BY <1>3 DEF Crash, TypeOK, Causes
  <2>4. request' \in [Clients -> Request \cup {None}] /\ cut' \subseteq Routes \X Keys
    BY <1>3, <2>1 DEF Crash, TypeOK
  <2>5. up' \in BOOLEAN /\ worker' = None /\ operations' = operations
    BY <1>3 DEF Crash
  <2>. QED  BY <1>3, <2>2, <2>3, <2>4, <2>5 DEF Crash, TypeOK
<1>4. CASE Restart
  <2>1. operations' \in Seq(Operation) /\ DOMAIN operations' = DOMAIN operations
    BY <1>4, InterruptedTyped DEF Restart
  <2>. QED  BY <1>4, <2>1 DEF Restart, TypeOK, requestVars, resourceVars
<1>5. CASE UNCHANGED vars
  BY <1>5 DEF vars, requestVars, resourceVars, TypeOK
<1>. QED  BY <1>1, <1>2, <1>3, <1>4, <1>5, HandleKeepsTypes, WorkKeepsTypes DEF Next

\* Every variable keeps its type; no answer and no revision is made of what is not a number.
THEOREM TypeCorrect == Spec => []TypeOK
BY InitTypes, NextKeepsTypes, PTL DEF Spec
-----------------------------------------------------------------------------
(***************************************************************************)
(* Questions and their operations.                                         *)
(***************************************************************************)
Held(i) == worker # None /\ worker.op = i

\* A dead server handles and works at nothing.
DeadIsIdle == ~up => worker = None /\ crashes > 0 /\ \A c \in Clients : request[c] = None

\* The operation in hand is the running one, until a death leaves it running.
RunningIsHeld ==
  /\ worker # None => operations[worker.op].state = "running"
  /\ \A i \in DOMAIN operations : operations[i].state = "running" => Held(i) \/ ~up

\* A question goes with its operation, one step ahead of it while the operation is in hand.
QuestionOf(i) ==
  LET o == operations[i] IN
  /\ o.kind = "answer_profile_question" <=> o.question # None
  /\ o.question # None =>
       /\ o.state = "queued" => o.question = "queued"
       /\ o.state = "succeeded" => o.question = "succeeded"
       /\ o.state = "failed" => o.question = "failed" \/ (crashes > 0 /\ o.question # "running")
       /\ Held(i) => o.question = CASE worker.at = "claimed" -> "queued"
                                    [] worker.at = "asking"  -> "running"
                                    [] OTHER                 -> worker.at

WorkInv == DeadIsIdle /\ RunningIsHeld /\ \A i \in DOMAIN operations : QuestionOf(i)

\* What a handler does to the operations and the worker: at most it queues one.
LEMMA HandleQueues ==
  ASSUME TypeOK, NEW c \in Clients, Handle(c)
  PROVE  /\ up /\ up' = up /\ worker' = worker /\ crashes' = crashes
         /\ request[c] # None /\ Sent(c) \in Command
         /\ \/ operations' = operations
            \/ \E kind \in Kinds : operations' = Append(operations, Queued(kind, Sent(c)))
<1>1. request[c] # None /\ up
  BY DEF Handle, At, Free, AnswerFromRecord, Refuse, Accepted, AskQuestion, Reindex, ConfirmFact,
         RejectFact, ResolveFact, StartRun, TestModel, SaveAnswer, BeginUpload, RenameUpload,
         UploadFails, CommitUpload, UploadConflicts
<1>2. /\ up' = up /\ worker' = worker /\ crashes' = crashes
      /\ \/ operations' = operations
         \/ \E kind \in Kinds : operations' = Append(operations, Queued(kind, Sent(c)))
  BY DEF Handle, AnswerFromRecord, Refuse, AskQuestion, Reindex, ConfirmFact, RejectFact,
         ResolveFact, DecideFact, StartRun, TestModel, Enqueue, SaveAnswer, BeginUpload,
         RenameUpload, UploadFails, CommitUpload, UploadConflicts, Kinds
<1>. QED  BY <1>1, <1>2, SentTyped

LEMMA HandleKeepsWork ==
  ASSUME TypeOK, TypeOK', WorkInv, NEW c \in Clients, Handle(c)
  PROVE  WorkInv'
<1>1. up /\ up' = up /\ worker' = worker /\ crashes' = crashes
  BY HandleQueues
<1>2. CASE operations' = operations
  BY <1>1, <1>2 DEF WorkInv, DeadIsIdle, RunningIsHeld, QuestionOf, Held
<1>3. ASSUME NEW kind \in Kinds, operations' = Append(operations, Queued(kind, Sent(c)))
      PROVE  WorkInv'
  <2>0. PICK n \in Nat, o \in Operation : n = Len(operations) /\ o = Queued(kind, Sent(c))
    BY HandleQueues, QueuedTyped DEF TypeOK
  <2>1. /\ o \in Operation /\ o.kind = kind /\ o.state = "queued"
        /\ o.question = IF kind = "answer_profile_question" THEN "queued" ELSE None
    BY <2>0, HandleQueues, QueuedTyped
  <2>2. /\ n \in Nat /\ DOMAIN operations = 1..n /\ DOMAIN operations' = 1..(n + 1)
        /\ operations'[n + 1] = o
        /\ \A i \in 1..n : operations'[i] = operations[i]
    BY <1>3, <2>0, <2>1, AppendTyped
  <2>3. worker # None => worker.op \in 1..n
    BY <2>2 DEF TypeOK, Taken
  <2>4. \A i \in 1..(n + 1) : i \in 1..n \/ i = n + 1
    BY <2>2
  <2>5. n + 1 \notin 1..n
    BY <2>2
  <2>6. ~Held(n + 1)'
    BY <1>1, <2>3, <2>5 DEF Held
  <2>7. RunningIsHeld'
    BY <1>1, <2>1, <2>2, <2>3, <2>4 DEF WorkInv, RunningIsHeld, Held
  <2>8. ASSUME NEW i \in DOMAIN operations'
        PROVE  QuestionOf(i)'
    <3>1. CASE i \in 1..n
      BY <1>1, <2>2, <3>1 DEF WorkInv, QuestionOf, Held
    <3>2. CASE i = n + 1
      BY <2>1, <2>2, <2>6, <3>2, NoneAssumption DEF QuestionOf, QuestionStates
    <3>. QED  BY <2>2, <2>4, <3>1, <3>2
  <2>. QED  BY <1>1, <2>7, <2>8 DEF WorkInv, DeadIsIdle
<1>. QED  BY <1>2, <1>3, HandleQueues

LEMMA WorkKeepsWork ==
  ASSUME TypeOK, TypeOK', WorkInv, Work
  PROVE  WorkInv'
<1>1. up /\ up' = up /\ crashes' = crashes
  BY DEF Work, ClaimOperation, BeginAnswer, AnswerProfileQuestion, AnswerFails, IndexResources,
         IndexFails, ScanOrDiagnose, FinishOperation, InHand, Free
<1>2. DeadIsIdle'
  BY <1>1 DEF DeadIsIdle
<1>3. worker # None => /\ worker.op \in DOMAIN operations
                       /\ worker.at \in {"claimed", "asking", "succeeded", "failed"}
  BY DEF TypeOK, Taken
<1>4. ASSUME NEW i \in DOMAIN operations
      PROVE  operations[i] \in Operation
  BY DEF TypeOK
<1>5. CASE ClaimOperation
  <2>1. PICK k \in DOMAIN operations : /\ operations[k].state = "queued"
                                       /\ operations' = OperationState(k, "running")
                                       /\ worker' = [op |-> k, at |-> "claimed"]
    BY <1>5 DEF ClaimOperation
  <2>2. /\ DOMAIN operations' = DOMAIN operations
        /\ operations'[k] = [operations[k] EXCEPT !.state = "running"]
        /\ \A j \in DOMAIN operations : j # k => operations'[j] = operations[j]
    BY <2>1, StateTyped DEF States
  <2>3. worker = None /\ worker' # None /\ worker'.op = k /\ worker'.at = "claimed"
    <3>1. k \in Nat
      BY DEF TypeOK
    <3>2. worker' \in Taken(Nat)
      BY <2>1, <3>1 DEF Taken
    <3>. QED  BY <1>5, <2>1, <3>2, NoneAssumption DEF ClaimOperation
  <2>4. /\ operations'[k].state = "running" /\ operations'[k].kind = operations[k].kind
        /\ operations'[k].question = operations[k].question
    BY <1>4, <2>2 DEF Operation
  <2>5. RunningIsHeld'
    <3>1. ASSUME NEW i \in DOMAIN operations', operations'[i].state = "running"
          PROVE  i = k
      BY <1>1, <2>2, <2>3, <3>1 DEF WorkInv, RunningIsHeld, Held
    <3>. QED  BY <2>3, <2>4, <3>1 DEF RunningIsHeld, Held
  <2>6. ASSUME NEW i \in DOMAIN operations'
        PROVE  QuestionOf(i)'
    <3>1. QuestionOf(i) /\ i \in DOMAIN operations
      BY <2>2 DEF WorkInv
    <3>2. CASE i = k
      BY <1>1, <2>1, <2>3, <2>4, <3>1, <3>2 DEF QuestionOf
    <3>3. CASE i # k
      BY <1>1, <2>2, <2>3, <3>1, <3>3 DEF QuestionOf, Held
    <3>. QED  BY <3>2, <3>3
  <2>. QED  BY <1>2, <2>5, <2>6 DEF WorkInv
<1>6. CASE BeginAnswer \/ AnswerProfileQuestion \/ AnswerFails
  <2> DEFINE k == worker.op
  <2>1. /\ worker # None /\ k \in DOMAIN operations
        /\ operations[k].kind = "answer_profile_question"
    BY <1>3, <1>6 DEF BeginAnswer, AnswerProfileQuestion, AnswerFails, InHand
  <2>2. PICK s \in QuestionStates, at \in {"asking", "succeeded", "failed"} :
          /\ operations' = QuestionState(k, s) /\ worker' = [worker EXCEPT !.at = at]
          /\ s = (IF at = "asking" THEN "running" ELSE at)
    BY <1>6 DEF BeginAnswer, AnswerProfileQuestion, AnswerFails, QuestionStates
  <2>3. /\ DOMAIN operations' = DOMAIN operations
        /\ operations'[k] = [operations[k] EXCEPT !.question = s]
        /\ \A j \in DOMAIN operations : j # k => operations'[j] = operations[j]
    BY <2>1, <2>2, QuestionTyped
  <2>4. worker' # None /\ worker'.op = k /\ worker'.at = at
    <3>1. k \in Nat
      BY <2>1 DEF TypeOK
    <3>2. worker \in Taken(DOMAIN operations)
      BY <2>1 DEF TypeOK
    <3>3. worker' \in Taken(Nat) /\ worker'.op = k /\ worker'.at = at
      BY <2>2, <3>1, <3>2 DEF Taken
    <3>. QED  BY <3>3, NoneAssumption
  <2>5. /\ operations'[k].state = operations[k].state /\ operations'[k].question = s
        /\ operations'[k].kind = operations[k].kind
    BY <1>4, <2>1, <2>3 DEF Operation
  <2>6. operations[k].state = "running"
    BY <2>1 DEF WorkInv, RunningIsHeld
  <2> HIDE DEF k
  <2>7. RunningIsHeld'
    BY <1>1, <2>1, <2>3, <2>4, <2>5, <2>6 DEF WorkInv, RunningIsHeld, Held, k
  <2>8. ASSUME NEW i \in DOMAIN operations'
        PROVE  QuestionOf(i)'
    <3>1. QuestionOf(i) /\ i \in DOMAIN operations
      BY <2>3 DEF WorkInv
    <3>2. CASE i = k
      <4>1. s # None
        BY NoneAssumption
      <4>. QED  BY <2>1, <2>2, <2>4, <2>5, <2>6, <3>2, <4>1 DEF QuestionOf
    <3>3. CASE i # k
      BY <1>1, <2>3, <2>4, <3>1, <3>3 DEF QuestionOf, Held
    <3>. QED  BY <3>2, <3>3
  <2>. QED  BY <1>2, <2>7, <2>8 DEF WorkInv
<1>7. CASE IndexResources \/ IndexFails \/ ScanOrDiagnose
  <2> DEFINE k == worker.op
  <2>1. /\ worker # None /\ k \in DOMAIN operations /\ operations' = operations
        /\ operations[k].kind # "answer_profile_question"
        /\ \E at \in {"succeeded", "failed"} : worker' = [worker EXCEPT !.at = at]
    BY <1>3, <1>7 DEF IndexResources, IndexFails, ScanOrDiagnose, InHand
  <2>2. worker' # None /\ worker'.op = k
    <3>1. k \in Nat
      BY <2>1 DEF TypeOK
    <3>2. worker \in Taken(DOMAIN operations)
      BY <2>1 DEF TypeOK
    <3>3. worker' \in Taken(Nat) /\ worker'.op = k
      BY <2>1, <3>1, <3>2 DEF Taken
    <3>. QED  BY <3>3, NoneAssumption
  <2> HIDE DEF k
  <2>3. RunningIsHeld'
    BY <1>1, <2>1, <2>2 DEF WorkInv, RunningIsHeld, Held, k
  <2>4. ASSUME NEW i \in DOMAIN operations'
        PROVE  QuestionOf(i)'
    <3>1. QuestionOf(i) /\ i \in DOMAIN operations
      BY <2>1 DEF WorkInv
    <3>2. CASE i = k
      BY <1>1, <2>1, <3>1, <3>2 DEF QuestionOf
    <3>3. CASE i # k
      BY <1>1, <2>1, <2>2, <3>1, <3>3 DEF QuestionOf, Held, k
    <3>. QED  BY <3>2, <3>3
  <2>. QED  BY <1>2, <2>3, <2>4 DEF WorkInv
<1>8. CASE FinishOperation
  <2> DEFINE k == worker.op
  <2>1. /\ worker # None /\ k \in DOMAIN operations /\ worker.at \in {"succeeded", "failed"}
        /\ operations' = OperationState(k, worker.at) /\ worker' = None
    BY <1>3, <1>8 DEF FinishOperation
  <2>2. /\ DOMAIN operations' = DOMAIN operations
        /\ operations'[k] = [operations[k] EXCEPT !.state = worker.at]
        /\ \A j \in DOMAIN operations : j # k => operations'[j] = operations[j]
    <3>1. PICK s \in States : s = worker.at
      BY <2>1 DEF States
    <3>. QED  BY <2>1, <3>1, StateTyped
  <2>3. /\ operations'[k].state = worker.at /\ operations'[k].kind = operations[k].kind
        /\ operations'[k].question = operations[k].question
    BY <1>4, <2>1, <2>2 DEF Operation
  <2> HIDE DEF k
  <2>4. RunningIsHeld'
    <3>1. ASSUME NEW i \in DOMAIN operations', operations'[i].state = "running"
          PROVE  FALSE
      <4>1. i # k
        BY <2>1, <2>3, <3>1
      <4>2. operations[i].state = "running" /\ i \in DOMAIN operations
        BY <2>2, <3>1, <4>1
      <4>. QED  BY <1>1, <4>1, <4>2 DEF WorkInv, RunningIsHeld, Held, k
    <3>. QED  BY <2>1, <3>1 DEF RunningIsHeld
  <2>5. ASSUME NEW i \in DOMAIN operations'
        PROVE  QuestionOf(i)'
    <3>1. QuestionOf(i) /\ i \in DOMAIN operations
      BY <2>2 DEF WorkInv
    <3>2. CASE i = k
      BY <1>1, <2>1, <2>3, <3>1, <3>2 DEF QuestionOf, Held, k
    <3>3. CASE i # k
      BY <1>1, <2>1, <2>2, <3>1, <3>3 DEF QuestionOf, Held, k
    <3>. QED  BY <3>2, <3>3
  <2>. QED  BY <1>2, <2>4, <2>5 DEF WorkInv
<1>. QED  BY <1>5, <1>6, <1>7, <1>8 DEF Work

LEMMA InitWork == Init => WorkInv
BY DEF Init, WorkInv, DeadIsIdle, RunningIsHeld

LEMMA NextKeepsWork == TypeOK /\ TypeOK' /\ WorkInv /\ [Next]_vars => WorkInv'
<1> SUFFICES ASSUME TypeOK, TypeOK', WorkInv, [Next]_vars
             PROVE  WorkInv'
  OBVIOUS
<1>1. ASSUME NEW c \in Clients, NEW m \in Commands, NEW e \in 1..revision, Send(c, m, e)
      PROVE  WorkInv'
  BY <1>1 DEF Send, WorkInv, DeadIsIdle, RunningIsHeld, QuestionOf, Held
<1>2. ASSUME NEW b \in Bodies \cup {None}, ReplaceFile(b)
      PROVE  WorkInv'
  BY <1>2 DEF ReplaceFile, requestVars, WorkInv, DeadIsIdle, RunningIsHeld, QuestionOf, Held
<1>3. CASE Crash
  <2>1. /\ ~up' /\ worker' = None /\ operations' = operations
        /\ \A c \in Clients : request'[c] = None
        /\ crashes' > 0
    BY <1>3 DEF Crash, TypeOK
  <2>2. DeadIsIdle' /\ RunningIsHeld'
    BY <2>1 DEF DeadIsIdle, RunningIsHeld
  <2>3. ASSUME NEW i \in DOMAIN operations'
        PROVE  QuestionOf(i)'
    BY <2>1 DEF WorkInv, QuestionOf, Held
  <2>. QED  BY <2>2, <2>3 DEF WorkInv
<1>4. CASE Restart
  <2>1. /\ up' /\ worker' = None /\ crashes' = crashes /\ crashes > 0
        /\ DOMAIN operations' = DOMAIN operations
        /\ \A i \in DOMAIN operations : operations'[i] = Interrupted(operations[i])
    BY <1>4 DEF Restart, WorkInv, DeadIsIdle
  <2>2. ASSUME NEW i \in DOMAIN operations
        PROVE  /\ operations'[i].kind = operations[i].kind
               /\ operations'[i].state
                    = IF operations[i].state = "running" THEN "failed" ELSE operations[i].state
               /\ operations'[i].question
                    = IF operations[i].question = "running" THEN "failed"
                      ELSE operations[i].question
    <3>1. operations[i] \in Operation
      BY DEF TypeOK
    <3>. QED  BY <2>1, <3>1 DEF Interrupted, Operation
  <2>3. DeadIsIdle' /\ RunningIsHeld'
    BY <2>1, <2>2 DEF DeadIsIdle, RunningIsHeld
  <2>4. ASSUME NEW i \in DOMAIN operations'
        PROVE  QuestionOf(i)'
    <3>1. QuestionOf(i) /\ i \in DOMAIN operations
      BY <2>1 DEF WorkInv
    <3>2. None \notin QuestionStates
      BY NoneAssumption
    <3>3. ~Held(i)'
      BY <2>1 DEF Held
    <3>. QED  BY <2>1, <2>2, <3>1, <3>2, <3>3 DEF QuestionOf, QuestionStates
  <2>. QED  BY <2>3, <2>4 DEF WorkInv
<1>5. CASE UNCHANGED vars
  BY <1>5 DEF vars, requestVars, WorkInv, DeadIsIdle, RunningIsHeld, QuestionOf, Held
<1>. QED  BY <1>1, <1>2, <1>3, <1>4, <1>5, HandleKeepsWork, WorkKeepsWork DEF Next

LEMMA AlwaysWork == Spec => []WorkInv
BY InitWork, NextKeepsWork, TypeCorrect, PTL DEF Spec

\* What the property says of one operation.
WaitsAndEnds(i) ==
  LET o == operations[i]
      interrupted == crashes > 0 /\ o.state \in {"running", "failed"} IN
  /\ o.question = "queued" =>
       o.state = "queued" \/ (Held(i) /\ worker.at = "claimed") \/ interrupted
  /\ o.question = "running" => (Held(i) /\ worker.at = "asking") \/ ~up
  /\ o.state = "queued" => o.question = "queued"
  /\ o.state = "succeeded" => o.question = "succeeded"
  /\ o.state = "failed" => o.question = "failed" \/ crashes > 0

\* A question waits, runs and ends with its operation, whatever is asked meanwhile and wherever the
\* server dies: the restart leaves no question running (profile/questions route, poll,
\* startRuntime).
THEOREM QuestionsEndWithWork == Spec => []QuestionMatchesOperation
<1>1. TypeOK /\ WorkInv => QuestionMatchesOperation
  <2> SUFFICES ASSUME TypeOK, WorkInv, NEW i \in DOMAIN operations
               PROVE  operations[i].question # None => WaitsAndEnds(i)
    BY DEF QuestionMatchesOperation, WaitsAndEnds, Held
  <2> DEFINE o == operations[i]
  <2>1. QuestionOf(i) /\ o.state \in States /\ o.question \in QuestionStates \cup {None}
    <3>1. o \in Operation
      BY DEF TypeOK
    <3>. QED  BY <3>1 DEF WorkInv, Operation, States
  <2>2. o.state = "running" => Held(i) \/ (~up /\ crashes > 0)
    BY DEF WorkInv, RunningIsHeld, DeadIsIdle
  <2>3. Held(i) => o.state = "running" /\ worker.at \in {"claimed", "asking", "succeeded", "failed"}
    BY DEF WorkInv, RunningIsHeld, Held, TypeOK, Taken
  <2> HIDE DEF o
  <2>. QED  BY <2>1, <2>2, <2>3 DEF QuestionOf, WaitsAndEnds, o, Held, States, QuestionStates
<1>. QED  BY <1>1, AlwaysWork, TypeCorrect, PTL
-----------------------------------------------------------------------------
(***************************************************************************)
(* Records, answers and what a key set in motion.                          *)
(***************************************************************************)
Saving(c) == request[c] # None /\ request[c].at = "save"

\* One handler at most stands between its two commits, and its key is not recorded yet.
OneSaves ==
  /\ \A c, d \in Clients : Saving(c) /\ Saving(d) => c = d
  /\ \A c \in Clients : Saving(c) => ~Recorded(Sent(c))

\* Only an upload awaits anything between its lookup and its commit.
UploadsAwait ==
  \A c \in Clients : request[c] # None /\ request[c].at \in {"write", "commit"} =>
    Sent(c).route = "upload"

\* An operation has the record of its request, or will have it, or a death came between.
SourceKnown(i) ==
  LET s == operations[i].from IN
  \/ records[s] # None
  \/ s \in cut
  \/ \E c \in Clients : Saving(c) /\ Scope(Sent(c)) = s
WorkIsRecorded == \A i \in DOMAIN operations : SourceKnown(i)

OneOfKey ==
  \A i, j \in DOMAIN operations :
    operations[i].from = operations[j].from /\ operations[i].from \notin cut => i = j

\* What was answered is on record.
ToldIsRecorded ==
  \A t \in told : records[Scope(t.command)] = [body |-> t.command.body, answer |-> t.answer]

RecordInv ==
  /\ OneSaves
  /\ UploadsAwait
  /\ WorkIsRecorded
  /\ OneOfKey
  /\ ToldIsRecorded
  /\ denied \subseteq {"upload"}

\* A request that goes on keeps its command.
LEMMA GoesOn ==
  ASSUME TypeOK, NEW c \in Clients, request[c] # None, NEW step \in Steps,
         request' = [request EXCEPT ![c].at = step]
  PROVE  /\ request'[c] # None /\ request'[c].at = step /\ Sent(c)' = Sent(c)
         /\ \A d \in Clients : d # c => request'[d] = request[d]
<1>1. request[c] \in Request
  BY SentTyped
<1>2. request'[c] = [request[c] EXCEPT !.at = step]
  BY DEF TypeOK
<1>3. request'[c] \in Request /\ request'[c].at = step /\ request'[c].command = request[c].command
  BY <1>1, <1>2 DEF Request
<1>4. \A d \in Clients : d # c => request'[d] = request[d]
  BY DEF TypeOK
<1>. QED  BY <1>3, <1>4, NoneAssumption DEF Sent

LEMMA Ends ==
  ASSUME TypeOK, NEW c \in Clients, Done(c)
  PROVE  /\ request'[c] = None
         /\ \A d \in Clients : d # c => request'[d] = request[d]
BY DEF TypeOK, Done

\* Steps that record nothing and queue nothing.
LEMMA QuietKeepsRecords ==
  ASSUME TypeOK, RecordInv, NEW c \in Clients, ~Saving(c), ~Saving(c)',
         \A d \in Clients : d # c => request'[d] = request[d],
         request'[c] # None /\ request'[c].at \in {"write", "commit"} => Sent(c)'.route = "upload",
         UNCHANGED <<records, operations, cut>>,
         told' = told \/ \E m \in Commands : Replay(m) /\ Tell(m, records[Scope(m)].answer),
         denied' \subseteq {"upload"}
  PROVE  RecordInv'
<1>1. \A d \in Clients : Saving(d)' => Saving(d) /\ request'[d] = request[d]
  BY DEF Saving
<1>2. \A d \in Clients : Saving(d) => Saving(d)' /\ request'[d] = request[d]
  BY DEF Saving
<1>3. OneSaves'
  <2>1. \A d \in Clients : Saving(d)' => ~Recorded(Sent(d))'
    BY <1>1 DEF RecordInv, OneSaves, Recorded, Sent
  <2>. QED  BY <1>1, <2>1 DEF RecordInv, OneSaves
<1>4. UploadsAwait'
  BY DEF RecordInv, UploadsAwait, Sent
<1>5. WorkIsRecorded'
  BY <1>2 DEF RecordInv, WorkIsRecorded, SourceKnown, Sent
<1>6. OneOfKey'
  BY DEF RecordInv, OneOfKey
<1>7. ToldIsRecorded'
  <2>1. CASE told' = told
    BY <2>1 DEF RecordInv, ToldIsRecorded
  <2>2. ASSUME NEW m \in Commands, Replay(m), Tell(m, records[Scope(m)].answer)
        PROVE  ToldIsRecorded'
    <3>1. m \in Command /\ Scope(m) \in Routes \X Keys
      BY CommandAssumption DEF Command, Scope
    <3>2. records[Scope(m)] \in Record /\ records[Scope(m)].body = m.body
      BY <2>2, <3>1 DEF TypeOK, Replay, Recorded
    <3>3. records[Scope(m)] = [body |-> m.body, answer |-> records[Scope(m)].answer]
      BY <3>2 DEF Record
    <3>4. ASSUME NEW t \in told'
          PROVE  records[Scope(t.command)] = [body |-> t.command.body, answer |-> t.answer]
      <4>1. CASE t \in told
        BY <4>1 DEF RecordInv, ToldIsRecorded
      <4>2. CASE t = [command |-> m, answer |-> records[Scope(m)].answer]
        BY <3>3, <4>2
      <4>. QED  BY <2>2, <4>1, <4>2 DEF Tell
    <3>. QED  BY <3>4 DEF ToldIsRecorded
  <2>. QED  BY <2>1, <2>2
<1>. QED  BY <1>3, <1>4, <1>5, <1>6, <1>7 DEF RecordInv

\* An answer is recorded under a key that had none, and told.
LEMMA SavedIsTold ==
  ASSUME TypeOK, ToldIsRecorded, NEW m \in Command, NEW answer \in Nat, ~Recorded(m),
         Save(m, answer), Tell(m, answer)
  PROVE  /\ records'[Scope(m)] # None
         /\ \A s \in Routes \X Keys : s # Scope(m) => records'[s] = records[s]
         /\ ToldIsRecorded'
<1> DEFINE r == [body |-> m.body, answer |-> answer]
<1>1. r \in Record /\ Scope(m) \in Routes \X Keys
  BY SaveTyped
<1>2. /\ records'[Scope(m)] = r
      /\ \A s \in Routes \X Keys : s # Scope(m) => records'[s] = records[s]
  BY <1>1 DEF Save, TypeOK
<1>3. r # None
  BY <1>1, NoneAssumption
<1>4. ASSUME NEW t \in told'
      PROVE  records'[Scope(t.command)] = [body |-> t.command.body, answer |-> t.answer]
  <2>1. CASE t = [command |-> m, answer |-> answer]
    BY <1>2, <2>1
  <2>2. CASE t \in told
    <3>1. /\ records[Scope(t.command)] = [body |-> t.command.body, answer |-> t.answer]
          /\ t.command \in Commands /\ t.answer \in Nat
      BY <2>2 DEF ToldIsRecorded, TypeOK
    <3>2. [body |-> t.command.body, answer |-> t.answer] \in Record
          /\ Scope(t.command) \in Routes \X Keys
      BY <3>1, SaveTyped, CommandAssumption
    <3>3. records[Scope(t.command)] # None
      BY <3>1, <3>2, NoneAssumption
    <3>4. Scope(t.command) # Scope(m)
      BY <3>3 DEF Recorded
    <3>. QED  BY <1>2, <3>1, <3>2, <3>4
  <2>. QED  BY <2>1, <2>2 DEF Tell
<1>. QED  BY <1>2, <1>3, <1>4 DEF ToldIsRecorded

\* A command that commits its record with its work, nobody standing between two commits.
LEMMA CommittedKeepsRecords ==
  ASSUME TypeOK, RecordInv, NEW c \in Clients, Free, request[c] # None, ~Recorded(Sent(c)),
         NEW answer \in Nat, Save(Sent(c), answer), Tell(Sent(c), answer), Done(c),
         UNCHANGED <<cut, denied>>,
         \/ operations' = operations
         \/ \E kind \in Kinds : operations' = Append(operations, Queued(kind, Sent(c)))
  PROVE  RecordInv'
<1>0. PICK m \in Command : m = Sent(c) /\ Scope(m) \in Routes \X Keys
  BY SentTyped
<1>1. /\ records'[Scope(m)] # None
      /\ \A s \in Routes \X Keys : s # Scope(m) => records'[s] = records[s]
      /\ ToldIsRecorded'
  BY <1>0, SavedIsTold DEF RecordInv
<1>2. request'[c] = None /\ \A d \in Clients : d # c => request'[d] = request[d]
  BY Ends
<1>3. \A d \in Clients : ~Saving(d) /\ ~Saving(d)'
  BY <1>2 DEF Free, Saving
<1>4. OneSaves'
  BY <1>3 DEF OneSaves
<1>5. UploadsAwait'
  BY <1>2 DEF RecordInv, UploadsAwait, Sent
<1>6. \A s \in Routes \X Keys : records[s] # None => records'[s] # None
  BY <1>1
<1>7. ASSUME NEW i \in DOMAIN operations
      PROVE  /\ operations[i].from \in Routes \X Keys
             /\ records[operations[i].from] # None \/ operations[i].from \in cut
  <2>1. operations[i] \in Operation
    BY DEF TypeOK
  <2>. QED  BY <1>3, <2>1 DEF RecordInv, WorkIsRecorded, SourceKnown, Operation
<1>8. WorkIsRecorded' /\ OneOfKey'
  <2>1. CASE operations' = operations
    <3>1. WorkIsRecorded'
      BY <1>6, <1>7, <2>1 DEF WorkIsRecorded, SourceKnown
    <3>2. OneOfKey'
      BY <2>1 DEF RecordInv, OneOfKey
    <3>. QED  BY <3>1, <3>2
  <2>2. ASSUME NEW kind \in Kinds, operations' = Append(operations, Queued(kind, m))
        PROVE  WorkIsRecorded' /\ OneOfKey'
    <3>1. PICK n \in Nat : n = Len(operations)
      BY DEF TypeOK
    <3>2. /\ DOMAIN operations = 1..n /\ DOMAIN operations' = 1..(n + 1)
          /\ operations'[n + 1].from = Scope(m)
          /\ \A i \in 1..n : operations'[i] = operations[i]
      BY <2>2, <3>1, QueuedTyped, AppendTyped
    <3>3. \A i \in 1..(n + 1) : i \in 1..n \/ i = n + 1
      OBVIOUS
    <3>4. WorkIsRecorded'
      <4>1. ASSUME NEW i \in 1..(n + 1)
            PROVE  records'[operations'[i].from] # None \/ operations'[i].from \in cut
        BY <1>1, <1>6, <1>7, <3>2, <3>3
      <4>. QED  BY <3>2, <4>1 DEF WorkIsRecorded, SourceKnown
    <3>5. \A i \in 1..n : operations[i].from = Scope(m) => Scope(m) \in cut
      BY <1>0, <1>7, <3>2 DEF Recorded
    <3>6. OneOfKey'
      <4>1. SUFFICES ASSUME NEW i \in 1..(n + 1), NEW j \in 1..(n + 1),
                            operations'[i].from = operations'[j].from,
                            operations'[i].from \notin cut
                     PROVE  i = j
        BY <3>2 DEF OneOfKey
      <4>2. CASE i \in 1..n /\ j \in 1..n
        BY <3>2, <4>1, <4>2 DEF RecordInv, OneOfKey
      <4>3. CASE i = n + 1 \/ j = n + 1
        BY <3>2, <3>3, <3>5, <4>1, <4>3
      <4>. QED  BY <3>3, <4>2, <4>3
    <3>. QED  BY <3>4, <3>6
  <2>. QED  BY <1>0, <2>1, <2>2
<1>. QED  BY <1>1, <1>4, <1>5, <1>8 DEF RecordInv

\* A command that commits its work first.
LEMMA EnqueueKeepsRecords ==
  ASSUME TypeOK, RecordInv, NEW c \in Clients, Free, request[c] # None, ~Recorded(Sent(c)),
         NEW kind \in Kinds, Enqueue(c, kind)
  PROVE  RecordInv'
<1>0. PICK m \in Command : m = Sent(c) /\ Scope(m) \in Routes \X Keys
  BY SentTyped
<1>1. /\ operations' = Append(operations, Queued(kind, m))
      /\ UNCHANGED <<records, told, denied, cut>>
  BY <1>0 DEF Enqueue
<1>2. /\ request'[c] # None /\ request'[c].at = "save" /\ Sent(c)' = m
      /\ \A d \in Clients : d # c => request'[d] = request[d]
  BY <1>0, GoesOn DEF Enqueue, Steps
<1>3. /\ \A d \in Clients : ~Saving(d)
      /\ \A d \in Clients : Saving(d)' => d = c
      /\ Saving(c)'
  BY <1>2 DEF Free, Saving
<1>4. OneSaves'
  BY <1>0, <1>1, <1>2, <1>3 DEF OneSaves, Recorded
<1>5. UploadsAwait'
  BY <1>2 DEF RecordInv, UploadsAwait, Sent
<1>6. ToldIsRecorded' /\ denied' \subseteq {"upload"}
  BY <1>1 DEF RecordInv, ToldIsRecorded
<1>7. PICK n \in Nat : n = Len(operations)
  BY DEF TypeOK
<1>8. /\ DOMAIN operations = 1..n /\ DOMAIN operations' = 1..(n + 1)
      /\ operations'[n + 1].from = Scope(m)
      /\ \A i \in 1..n : operations'[i] = operations[i]
  BY <1>1, <1>7, QueuedTyped, AppendTyped
<1>9. \A i \in 1..(n + 1) : i \in 1..n \/ i = n + 1
  OBVIOUS
<1>10. \A i \in 1..n : records[operations[i].from] # None \/ operations[i].from \in cut
  BY <1>3, <1>8 DEF RecordInv, WorkIsRecorded, SourceKnown
<1>11. WorkIsRecorded'
  <2>1. ASSUME NEW i \in 1..(n + 1)
        PROVE  SourceKnown(i)'
    <3>1. CASE i \in 1..n
      BY <1>1, <1>8, <1>10, <3>1 DEF SourceKnown
    <3>2. CASE i = n + 1
      BY <1>2, <1>3, <1>8, <3>2 DEF SourceKnown
    <3>. QED  BY <1>9, <3>1, <3>2
  <2>. QED  BY <1>8, <2>1 DEF WorkIsRecorded
<1>12. \A i \in 1..n : operations[i].from = Scope(m) => Scope(m) \in cut
  BY <1>0, <1>10 DEF Recorded
<1>13. OneOfKey'
  <2>1. SUFFICES ASSUME NEW i \in 1..(n + 1), NEW j \in 1..(n + 1),
                        operations'[i].from = operations'[j].from, operations'[i].from \notin cut
                 PROVE  i = j
    BY <1>1, <1>8 DEF OneOfKey
  <2>2. CASE i \in 1..n /\ j \in 1..n
    BY <1>8, <2>1, <2>2 DEF RecordInv, OneOfKey
  <2>3. CASE i = n + 1 \/ j = n + 1
    BY <1>8, <1>9, <1>12, <2>1, <2>3
  <2>. QED  BY <1>9, <2>2, <2>3
<1>. QED  BY <1>4, <1>5, <1>6, <1>11, <1>13 DEF RecordInv

\* The second commit of such a command.
LEMMA SaveKeepsRecords ==
  ASSUME TypeOK, RecordInv, NEW c \in Clients, SaveAnswer(c)
  PROVE  RecordInv'
<1>0. /\ Saving(c) /\ Done(c)
      /\ UNCHANGED <<cut, denied, operations>>
  BY DEF SaveAnswer, Saving
<1>1. PICK m \in Command, answer \in Nat :
        /\ m = Sent(c) /\ Scope(m) \in Routes \X Keys
        /\ Save(m, answer) /\ Tell(m, answer) /\ ~Recorded(m)
  <2>1. Len(operations) \in Nat
    BY DEF TypeOK
  <2>. QED  BY <1>0, <2>1, SentTyped DEF SaveAnswer, RecordInv, OneSaves, Saving
<1>2. /\ records'[Scope(m)] # None
      /\ \A s \in Routes \X Keys : s # Scope(m) => records'[s] = records[s]
      /\ ToldIsRecorded'
  BY <1>1, SavedIsTold DEF RecordInv
<1>3. request'[c] = None /\ \A d \in Clients : d # c => request'[d] = request[d]
  BY <1>0, Ends
<1>4. OneSaves'
  <2>1. \A d \in Clients : ~Saving(d)'
    BY <1>0, <1>3 DEF RecordInv, OneSaves, Saving
  <2>. QED  BY <2>1 DEF OneSaves
<1>5. UploadsAwait'
  BY <1>3 DEF RecordInv, UploadsAwait, Sent
<1>6. ASSUME NEW i \in DOMAIN operations
      PROVE  SourceKnown(i)'
  <2>1. operations[i].from \in Routes \X Keys
    <3>1. operations[i] \in Operation
      BY DEF TypeOK
    <3>. QED  BY <3>1 DEF Operation
  <2>2. CASE records[operations[i].from] # None \/ operations[i].from \in cut
    BY <1>0, <1>2, <2>1, <2>2 DEF SourceKnown
  <2>3. CASE \E d \in Clients : Saving(d) /\ Scope(Sent(d)) = operations[i].from
    <3>1. operations[i].from = Scope(m)
      BY <1>0, <1>1, <2>3 DEF RecordInv, OneSaves
    <3>. QED  BY <1>0, <1>2, <3>1 DEF SourceKnown
  <2>. QED  BY <2>2, <2>3 DEF RecordInv, WorkIsRecorded, SourceKnown
<1>7. WorkIsRecorded' /\ OneOfKey'
  BY <1>0, <1>6 DEF WorkIsRecorded, RecordInv, OneOfKey
<1>. QED  BY <1>0, <1>2, <1>4, <1>5, <1>7 DEF RecordInv

LEMMA HandleKeepsRecords ==
  ASSUME TypeOK, RecordInv, NEW c \in Clients, Handle(c)
  PROVE  RecordInv'
<1>1. CASE SaveAnswer(c)
  BY <1>1, SaveKeepsRecords
<1>2. CASE AskQuestion(c) \/ Reindex(c) \/ CommitUpload(c)
  <2>1. PICK answer \in Nat : Save(Sent(c), answer) /\ Tell(Sent(c), answer)
    <3>1. Len(operations) + 1 \in Nat
      BY DEF TypeOK
    <3>. QED  BY <1>2, <3>1 DEF AskQuestion, Reindex, CommitUpload
  <2>2. /\ Free /\ request[c] # None /\ ~Recorded(Sent(c)) /\ Done(c)
        /\ UNCHANGED <<cut, denied>>
        /\ \E kind \in Kinds : operations' = Append(operations, Queued(kind, Sent(c)))
    BY <1>2 DEF AskQuestion, Reindex, CommitUpload, Accepted, At, KeyFree, Kinds
  <2>. QED  BY <2>1, <2>2, CommittedKeepsRecords
<1>3. CASE ConfirmFact(c) \/ RejectFact(c) \/ ResolveFact(c)
  <2>1. PICK answer \in Nat : Save(Sent(c), answer) /\ Tell(Sent(c), answer)
    <3>1. revision + 1 \in Nat
      BY DEF TypeOK
    <3>. QED  BY <1>3, <3>1 DEF ConfirmFact, RejectFact, ResolveFact, DecideFact
  <2>2. /\ Free /\ request[c] # None /\ ~Recorded(Sent(c)) /\ Done(c)
        /\ UNCHANGED <<cut, denied, operations>>
    BY <1>3 DEF ConfirmFact, RejectFact, ResolveFact, DecideFact, Accepted, At
  <2>. QED  BY <2>1, <2>2, CommittedKeepsRecords
<1>4. CASE StartRun(c) \/ TestModel(c)
  <2>1. /\ Free /\ request[c] # None /\ ~Recorded(Sent(c))
        /\ \E kind \in Kinds : Enqueue(c, kind)
    BY <1>4 DEF StartRun, TestModel, Accepted, At, Kinds
  <2>. QED  BY <2>1, EnqueueKeepsRecords
<1>5. CASE AnswerFromRecord(c) \/ Refuse(c) \/ UploadFails(c) \/ UploadConflicts(c)
  <2>1. /\ request[c] # None /\ ~Saving(c) /\ Done(c) /\ UNCHANGED <<records, operations, cut>>
    BY <1>5 DEF AnswerFromRecord, Refuse, UploadFails, UploadConflicts, At, Saving
  <2>2. request'[c] = None /\ \A d \in Clients : d # c => request'[d] = request[d]
    BY <2>1, Ends
  <2>3. told' = told \/ \E m \in Commands : Replay(m) /\ Tell(m, records[Scope(m)].answer)
    BY <1>5, <2>1, SentTyped DEF AnswerFromRecord, Refuse, UploadFails, UploadConflicts
  <2>4. denied' \subseteq {"upload"}
    <3>1. CASE AnswerFromRecord(c) \/ UploadFails(c)
      BY <3>1 DEF AnswerFromRecord, UploadFails, RecordInv
    <3>2. CASE Refuse(c)
      BY <3>2 DEF Refuse, Deny, Refused, Replay, RecordInv
    <3>3. CASE UploadConflicts(c)
      <4>1. Sent(c).route = "upload"
        BY <3>3 DEF UploadConflicts, At, RecordInv, UploadsAwait
      <4>. QED  BY <3>3, <4>1 DEF UploadConflicts, Deny, RecordInv
    <3>. QED  BY <1>5, <3>1, <3>2, <3>3
  <2>5. ~Saving(c)'
    BY <2>2 DEF Saving
  <2>. QED  BY <2>1, <2>2, <2>3, <2>4, <2>5, QuietKeepsRecords
<1>6. CASE BeginUpload(c) \/ RenameUpload(c)
  <2>1. PICK step \in {"write", "commit"} : request' = [request EXCEPT ![c].at = step]
    BY <1>6 DEF BeginUpload, RenameUpload
  <2>2. /\ request[c] # None /\ ~Saving(c) /\ Sent(c).route = "upload"
        /\ UNCHANGED <<records, told, denied, operations, cut>>
    BY <1>6 DEF BeginUpload, RenameUpload, Accepted, At, Saving, RecordInv, UploadsAwait
  <2>3. /\ request'[c] # None /\ request'[c].at = step /\ Sent(c)' = Sent(c)
        /\ \A d \in Clients : d # c => request'[d] = request[d]
    <3>1. step \in Steps
      BY DEF Steps
    <3>. QED  BY <2>1, <2>2, <3>1, GoesOn
  <2>4. ~Saving(c)' /\ denied' \subseteq {"upload"}
    BY <2>2, <2>3 DEF Saving, RecordInv
  <2>. QED  BY <2>2, <2>3, <2>4, QuietKeepsRecords
<1>. QED  BY <1>1, <1>2, <1>3, <1>4, <1>5, <1>6 DEF Handle

\* Steps of the worker change states and questions, never whose an operation is.
LEMMA WorkKeepsRecords ==
  ASSUME TypeOK, RecordInv, UNCHANGED requestVars, DOMAIN operations' = DOMAIN operations,
         \A i \in DOMAIN operations : operations'[i].from = operations[i].from
  PROVE  RecordInv'
<1>1. OneSaves' /\ UploadsAwait' /\ ToldIsRecorded' /\ denied' \subseteq {"upload"}
  BY DEF requestVars, RecordInv, OneSaves, UploadsAwait, ToldIsRecorded, Saving, Recorded, Sent
<1>2. WorkIsRecorded' /\ OneOfKey'
  BY DEF requestVars, RecordInv, WorkIsRecorded, OneOfKey, SourceKnown, Saving, Sent
<1>. QED  BY <1>1, <1>2 DEF RecordInv

LEMMA InitRecords == Init => RecordInv
<1> SUFFICES ASSUME Init PROVE RecordInv
  OBVIOUS
<1>1. DOMAIN operations = {} /\ told = {} /\ denied = {} /\ \A c \in Clients : request[c] = None
  BY DEF Init
<1>. QED  BY <1>1 DEF RecordInv, OneSaves, UploadsAwait, WorkIsRecorded, OneOfKey, ToldIsRecorded,
                     Saving

\* Who an operation is for.
LEMMA SourceStays ==
  ASSUME TypeOK, WorkInv, Work
  PROVE  /\ DOMAIN operations' = DOMAIN operations
         /\ \A i \in DOMAIN operations : /\ operations'[i].from = operations[i].from
                                         /\ operations'[i].kind = operations[i].kind
<1>0. \A i \in DOMAIN operations : operations[i] \in Operation
  BY DEF TypeOK
<1>1. worker # None => /\ worker.op \in DOMAIN operations
                       /\ worker.at \in {"claimed", "asking", "succeeded", "failed"}
  BY DEF TypeOK, Taken
<1>2. \/ operations' = operations
      \/ \E k \in DOMAIN operations, s \in States : operations' = OperationState(k, s)
      \/ \E k \in DOMAIN operations, s \in QuestionStates : operations' = QuestionState(k, s)
  BY <1>1 DEF Work, ClaimOperation, BeginAnswer, AnswerProfileQuestion, AnswerFails,
              IndexResources, IndexFails, ScanOrDiagnose, FinishOperation, InHand, States,
              QuestionStates
<1>3. ASSUME NEW k \in DOMAIN operations, NEW s \in States, operations' = OperationState(k, s)
      PROVE  /\ DOMAIN operations' = DOMAIN operations
             /\ \A i \in DOMAIN operations : /\ operations'[i].from = operations[i].from
                                             /\ operations'[i].kind = operations[i].kind
  <2>1. /\ DOMAIN operations' = DOMAIN operations
        /\ operations'[k] = [operations[k] EXCEPT !.state = s]
        /\ \A i \in DOMAIN operations : i # k => operations'[i] = operations[i]
    BY <1>3, StateTyped
  <2>2. operations'[k].from = operations[k].from /\ operations'[k].kind = operations[k].kind
    BY <1>0, <2>1 DEF Operation
  <2>. QED  BY <2>1, <2>2
<1>4. ASSUME NEW k \in DOMAIN operations, NEW s \in QuestionStates,
             operations' = QuestionState(k, s)
      PROVE  /\ DOMAIN operations' = DOMAIN operations
             /\ \A i \in DOMAIN operations : /\ operations'[i].from = operations[i].from
                                             /\ operations'[i].kind = operations[i].kind
  <2>1. /\ DOMAIN operations' = DOMAIN operations
        /\ operations'[k] = [operations[k] EXCEPT !.question = s]
        /\ \A i \in DOMAIN operations : i # k => operations'[i] = operations[i]
    BY <1>4, QuestionTyped
  <2>2. operations'[k].from = operations[k].from /\ operations'[k].kind = operations[k].kind
    BY <1>0, <2>1 DEF Operation
  <2>. QED  BY <2>1, <2>2
<1>. QED  BY <1>2, <1>3, <1>4

LEMMA NextKeepsRecords == TypeOK /\ WorkInv /\ RecordInv /\ [Next]_vars => RecordInv'
<1> SUFFICES ASSUME TypeOK, WorkInv, RecordInv, [Next]_vars
             PROVE  RecordInv'
  OBVIOUS
<1>1. ASSUME NEW c \in Clients, NEW m \in Commands, NEW e \in 1..revision, Send(c, m, e)
      PROVE  RecordInv'
  <2>1. /\ request[c] = None /\ request'[c].at = "body"
        /\ \A d \in Clients : d # c => request'[d] = request[d]
        /\ UNCHANGED <<records, told, denied, operations, cut>>
    BY <1>1 DEF Send, TypeOK
  <2>2. ~Saving(c) /\ ~Saving(c)' /\ denied' \subseteq {"upload"}
    BY <2>1 DEF Saving, RecordInv
  <2>. QED  BY <2>1, <2>2, QuietKeepsRecords
<1>2. CASE Work
  <2>1. UNCHANGED requestVars
    BY <1>2 DEF Work, ClaimOperation, BeginAnswer, AnswerProfileQuestion, AnswerFails,
                IndexResources, IndexFails, ScanOrDiagnose, FinishOperation
  <2>. QED  BY <1>2, <2>1, SourceStays, WorkKeepsRecords
<1>3. ASSUME NEW b \in Bodies \cup {None}, ReplaceFile(b)
      PROVE  RecordInv'
  BY <1>3, WorkKeepsRecords DEF ReplaceFile
<1>4. CASE Crash
  <2>1. /\ UNCHANGED <<records, told, denied, operations>>
        /\ cut' = cut \cup Lost
        /\ \A c \in Clients : request'[c] = None
    BY <1>4 DEF Crash
  <2>2. OneSaves' /\ UploadsAwait' /\ ToldIsRecorded' /\ denied' \subseteq {"upload"}
    BY <2>1 DEF RecordInv, OneSaves, UploadsAwait, ToldIsRecorded, Saving
  <2>3. \A c \in Clients : Saving(c) => Scope(Sent(c)) \in Lost
    BY DEF Saving, Lost
  <2>4. WorkIsRecorded' /\ OneOfKey'
    BY <2>1, <2>3 DEF RecordInv, WorkIsRecorded, OneOfKey, SourceKnown
  <2>. QED  BY <2>2, <2>4 DEF RecordInv
<1>5. CASE Restart
  <2>1. ASSUME NEW i \in DOMAIN operations
        PROVE  operations'[i].from = operations[i].from
    <3>1. operations[i] \in Operation
      BY DEF TypeOK
    <3>. QED  BY <1>5, <3>1 DEF Restart, Interrupted, Operation
  <2>2. DOMAIN operations' = DOMAIN operations /\ UNCHANGED requestVars
    BY <1>5 DEF Restart
  <2>. QED  BY <2>1, <2>2, WorkKeepsRecords
<1>6. CASE UNCHANGED vars
  BY <1>6, WorkKeepsRecords DEF vars
<1>. QED  BY <1>1, <1>2, <1>3, <1>4, <1>5, <1>6, HandleKeepsRecords DEF Next

LEMMA AlwaysRecords == Spec => []RecordInv
BY InitRecords, NextKeepsRecords, TypeCorrect, AlwaysWork, PTL DEF Spec

\* Runs are requested one after the other.
OneScan == \A i, j \in DOMAIN operations : ActiveScan(i) /\ ActiveScan(j) => i = j

\* A step that queues nothing and takes up nothing that has ended.
LEMMA NoNewScan ==
  ASSUME OneScan, DOMAIN operations' = DOMAIN operations,
         \A i \in DOMAIN operations : ActiveScan(i)' => ActiveScan(i)
  PROVE  OneScan'
BY DEF OneScan

LEMMA AppendKeepsOneScan ==
  ASSUME TypeOK, OneScan, NEW m \in Command, NEW kind \in Kinds,
         operations' = Append(operations, Queued(kind, m)), kind = "scan" => ~Active
  PROVE  OneScan'
<1>1. PICK n \in Nat : n = Len(operations)
  BY DEF TypeOK
<1>2. Scope(m) \in Routes \X Keys
  BY DEF Command, Scope
<1>3. /\ DOMAIN operations = 1..n /\ DOMAIN operations' = 1..(n + 1)
      /\ operations'[n + 1] = Queued(kind, m)
      /\ \A i \in 1..n : operations'[i] = operations[i]
  BY <1>1, <1>2, QueuedTyped, AppendTyped
<1>4. Queued(kind, m).kind = kind
  BY DEF Queued
<1>5. \A i \in 1..n : ActiveScan(i)' => ActiveScan(i)
  BY <1>3 DEF ActiveScan
<1>6. ActiveScan(n + 1)' => \A i \in 1..n : ~ActiveScan(i)
  BY <1>3, <1>4 DEF ActiveScan, Active
<1>7. \A i \in 1..(n + 1) : i \in 1..n \/ i = n + 1
  OBVIOUS
<1>8. \A i, j \in 1..(n + 1) : ActiveScan(i)' /\ ActiveScan(j)' => i = j
  BY <1>3, <1>5, <1>6, <1>7 DEF OneScan
<1>. QED  BY <1>3, <1>8 DEF OneScan

LEMMA HandleKeepsOneScan ==
  ASSUME TypeOK, OneScan, NEW c \in Clients, Handle(c)
  PROVE  OneScan'
<1>1. CASE StartRun(c)
  <2>1. PICK m \in Command : m = Sent(c) /\ m.route = "start" /\ ~Recorded(m) /\ ~Active
    BY <1>1, SentTyped DEF StartRun, Accepted, At, Refused
  <2>. QED  BY <1>1, <2>1, AppendKeepsOneScan DEF StartRun, Enqueue, Kinds
<1>2. CASE AskQuestion(c) \/ Reindex(c) \/ CommitUpload(c) \/ TestModel(c)
  <2>1. PICK m \in Command : m = Sent(c)
    BY <1>2, SentTyped DEF AskQuestion, Reindex, CommitUpload, TestModel, Accepted, At
  <2>2. \E kind \in Kinds \ {"scan"} : operations' = Append(operations, Queued(kind, m))
    BY <1>2, <2>1 DEF AskQuestion, Reindex, CommitUpload, TestModel, Enqueue, Kinds
  <2>. QED  BY <2>1, <2>2, AppendKeepsOneScan
<1>3. CASE UNCHANGED operations
  BY <1>3, NoNewScan DEF ActiveScan
<1>. QED
  BY <1>1, <1>2, <1>3 DEF Handle, AnswerFromRecord, Refuse, ConfirmFact, RejectFact, ResolveFact,
     DecideFact, SaveAnswer, BeginUpload, RenameUpload, UploadFails, UploadConflicts

\* The worker takes up what is queued, and ends what it has taken up.
LEMMA WorkKeepsOneScan ==
  ASSUME TypeOK, WorkInv, OneScan, Work
  PROVE  OneScan'
<1>0. \A i \in DOMAIN operations : operations[i] \in Operation
  BY DEF TypeOK
<1>1. worker # None => /\ worker.op \in DOMAIN operations
                       /\ worker.at \in {"claimed", "asking", "succeeded", "failed"}
  BY DEF TypeOK, Taken
<1>2. CASE \E k \in DOMAIN operations, s \in {"running", "succeeded", "failed"} :
             /\ s = "running" => operations[k].state = "queued"
             /\ operations' = OperationState(k, s)
  <2>1. PICK k \in DOMAIN operations, s \in {"running", "succeeded", "failed"} :
          /\ s = "running" => operations[k].state = "queued"
          /\ operations' = OperationState(k, s)
    BY <1>2
  <2>2. s \in States
    BY DEF States
  <2>3. /\ DOMAIN operations' = DOMAIN operations
        /\ operations'[k] = [operations[k] EXCEPT !.state = s]
        /\ \A i \in DOMAIN operations : i # k => operations'[i] = operations[i]
    BY <2>1, <2>2, StateTyped
  <2>4. operations'[k].state = s /\ operations'[k].kind = operations[k].kind
    BY <1>0, <2>3 DEF Operation
  <2>5. \A i \in DOMAIN operations : ActiveScan(i)' => ActiveScan(i)
    BY <2>1, <2>3, <2>4 DEF ActiveScan
  <2>. QED  BY <2>3, <2>5, NoNewScan
<1>3. CASE \E k \in DOMAIN operations, s \in QuestionStates : operations' = QuestionState(k, s)
  <2>1. PICK k \in DOMAIN operations, s \in QuestionStates : operations' = QuestionState(k, s)
    BY <1>3
  <2>2. /\ DOMAIN operations' = DOMAIN operations
        /\ operations'[k] = [operations[k] EXCEPT !.question = s]
        /\ \A i \in DOMAIN operations : i # k => operations'[i] = operations[i]
    BY <2>1, QuestionTyped
  <2>3. operations'[k].state = operations[k].state /\ operations'[k].kind = operations[k].kind
    BY <1>0, <2>2 DEF Operation
  <2>4. \A i \in DOMAIN operations : ActiveScan(i)' => ActiveScan(i)
    BY <2>2, <2>3 DEF ActiveScan
  <2>. QED  BY <2>2, <2>4, NoNewScan
<1>4. CASE UNCHANGED operations
  BY <1>4, NoNewScan DEF ActiveScan
<1>. QED
  BY <1>1, <1>2, <1>3, <1>4 DEF Work, ClaimOperation, BeginAnswer, AnswerProfileQuestion,
     AnswerFails, IndexResources, IndexFails, ScanOrDiagnose, FinishOperation, InHand, QuestionStates

LEMMA NextKeepsOneScan == TypeOK /\ WorkInv /\ OneScan /\ [Next]_vars => OneScan'
<1> SUFFICES ASSUME TypeOK, WorkInv, OneScan, [Next]_vars
             PROVE  OneScan'
  OBVIOUS
<1>1. CASE Work
  BY <1>1, WorkKeepsOneScan
<1>2. CASE Restart
  <2>1. ASSUME NEW i \in DOMAIN operations
        PROVE  ActiveScan(i)' => ActiveScan(i)
    <3>1. operations[i] \in Operation /\ operations'[i] = Interrupted(operations[i])
      BY <1>2 DEF TypeOK, Restart
    <3>. QED  BY <3>1 DEF ActiveScan, Interrupted, Operation
  <2>. QED  BY <1>2, <2>1, NoNewScan DEF Restart
<1>3. CASE UNCHANGED operations
  BY <1>3, NoNewScan DEF ActiveScan
<1>. QED
  BY <1>1, <1>2, <1>3, HandleKeepsOneScan DEF Next, Send, ReplaceFile, Crash, vars

\* However often and concurrently a client sends a keyed request, and wherever the server dies, it
\* sets one operation in motion, but for the death between the two commits of a run or a model test;
\* even then no second run is requested beside the first (findIdempotency, saveIdempotency and
\* their callers).
THEOREM WorkedAtOnce == Spec => []AtMostOnce
<1>1. TypeOK /\ RecordInv /\ OneScan => AtMostOnce
  <2> SUFFICES ASSUME TypeOK, RecordInv, OneScan, NEW s \in (Routes \X Keys) \ cut
               PROVE  Cardinality({i \in DOMAIN operations : operations[i].from = s}) <= 1
    BY DEF AtMostOnce, OneScan
  <2> DEFINE Of == {i \in DOMAIN operations : operations[i].from = s}
  <2>1. \A i, j \in Of : i = j
    BY DEF RecordInv, OneOfKey
  <2>2. ASSUME Of = {}
        PROVE  Cardinality(Of) <= 1
    <3> HIDE DEF Of
    <3>1. Cardinality(Of) = 0
      BY <2>2, FS_EmptySet
    <3>. QED  BY <3>1
  <2>3. ASSUME NEW i \in Of
        PROVE  Cardinality(Of) <= 1
    <3>1. Of = {i}
      BY <2>1
    <3> HIDE DEF Of
    <3>2. Cardinality(Of) = 1
      BY <3>1, FS_Singleton
    <3>. QED  BY <3>2
  <2>. QED  BY <2>2, <2>3
<1>2. Init => OneScan
  BY DEF Init, OneScan
<1>. QED
  BY <1>1, <1>2, NextKeepsOneScan, AlwaysWork, AlwaysRecords, TypeCorrect, PTL DEF Spec

\* Every retry gets the answer on record, and only an upload refuses what was answered before.
THEOREM RetriesAnsweredAlike == Spec => []RetriesRepeatTheAnswer
<1>1. TypeOK /\ RecordInv => RetriesRepeatTheAnswer
  <2> SUFFICES ASSUME TypeOK, RecordInv, NEW a \in told, NEW b \in told,
                      Scope(a.command) = Scope(b.command)
               PROVE  a = b
    BY DEF RetriesRepeatTheAnswer, RecordInv
  <2>1. /\ a \in [command : Commands, answer : Nat] /\ b \in [command : Commands, answer : Nat]
        /\ a.command \in Command /\ b.command \in Command
    BY CommandAssumption DEF TypeOK
  <2>2. [body |-> a.command.body, answer |-> a.answer]
          = [body |-> b.command.body, answer |-> b.answer]
    BY DEF RecordInv, ToldIsRecorded
  <2>3. /\ a.command.body = b.command.body /\ a.answer = b.answer
        /\ a.command.route = b.command.route /\ a.command.key = b.command.key
    BY <2>2 DEF Scope
  <2>4. a.command = b.command
    BY <2>1, <2>3 DEF Command
  <2>. QED  BY <2>1, <2>3, <2>4
<1>. QED  BY <1>1, AlwaysRecords, TypeCorrect, PTL
-----------------------------------------------------------------------------
(***************************************************************************)
(* The resource file and its index.                                        *)
(***************************************************************************)
QueuedReindex == \E i \in DOMAIN operations :
  operations[i].kind = "reindex" /\ operations[i].state = "queued"
ReindexInHand ==
  worker # None /\ operations[worker.op].kind = "reindex" /\ worker.at = "claimed"
Committing(c) == request[c] # None /\ request[c].at = "commit"

\* A hash is that of a file whose text was extracted, so an extracted row is a readable file's.
HashIsReadable == row # None => row.hash \notin Unreadable

IndexInv == HashIsReadable /\ IndexFollowsFile

LEMMA FollowsMeans ==
  IndexFollowsFile <=> \/ Agrees \/ QueuedReindex \/ ReindexInHand
                       \/ \E c \in Clients : Committing(c)
                       \/ stray # {} \/ Returned
BY DEF IndexFollowsFile, OnItsWay, QueuedReindex, ReindexInHand, Committing, Returned

\* Indexing makes the row agree with the file, or finds its hash unchanged.
LEMMA IndexingAgrees ==
  ASSUME TypeOK, HashIsReadable, row' = Indexed(file, row), file' = file
  PROVE  HashIsReadable' /\ (Agrees' \/ Returned')
<1>1. /\ file \in Bodies \cup {None} /\ row \in IndexRow \cup {None}
      /\ None \notin Unreadable /\ None \notin IndexRow
  BY UnreadableAssumption, NoneAssumption DEF TypeOK
<1>2. row' \in IndexRow \cup {None}
  BY IndexedTyped
<1>3. CASE file = None
  <2>1. CASE row = None
    <3>1. row' = None
      BY <1>1, <1>3, <2>1 DEF Indexed
    <3>. QED  BY <1>3, <3>1 DEF HashIsReadable, Agrees
  <2>2. CASE row # None
    <3>1. row \in IndexRow /\ row' = [row EXCEPT !.state = "missing"]
      BY <1>1, <1>3, <2>2 DEF Indexed
    <3>2. row'.hash = row.hash /\ row'.state = "missing"
      BY <3>1 DEF IndexRow
    <3>. QED  BY <1>3, <2>2, <3>2 DEF HashIsReadable, Agrees
  <2>. QED  BY <2>1, <2>2
<1>4. CASE file # None /\ row # None /\ row.hash = file
  <2>1. row' = row /\ row \in IndexRow
    BY <1>1, <1>4 DEF Indexed
  <2>2. file \notin Unreadable
    BY <1>4 DEF HashIsReadable
  <2>. QED  BY <1>4, <2>1, <2>2 DEF HashIsReadable, Agrees, Returned
<1>5. CASE file # None /\ file \in Unreadable /\ (row # None => row.hash # file)
  <2>1. row' = [hash |-> IF row = None THEN None ELSE row.hash, state |-> "failed"]
    BY <1>5 DEF Indexed
  <2>2. row' # None
    <3>1. row' \in IndexRow
      BY <1>1, <2>1 DEF IndexRow
    <3>. QED  BY <1>1, <3>1
  <2>3. row'.state = "failed" /\ row'.hash \notin Unreadable
    BY <1>1, <2>1 DEF HashIsReadable
  <2>. QED  BY <1>5, <2>2, <2>3 DEF HashIsReadable, Agrees
<1>6. CASE file # None /\ file \notin Unreadable /\ (row # None => row.hash # file)
  <2>1. row' = [hash |-> file, state |-> "extracted"]
    BY <1>6 DEF Indexed
  <2>2. row' # None
    <3>1. row' \in IndexRow
      BY <1>1, <1>6, <2>1 DEF IndexRow
    <3>. QED  BY <1>1, <3>1
  <2>. QED  BY <1>6, <2>1, <2>2 DEF HashIsReadable, Agrees
<1>. QED  BY <1>3, <1>4, <1>5, <1>6

LEMMA HandleKeepsIndex ==
  ASSUME TypeOK, IndexInv, NEW c \in Clients, Handle(c)
  PROVE  IndexInv'
<1>1. row' = row /\ worker' = worker
  BY DEF Handle, AnswerFromRecord, Refuse, AskQuestion, Reindex, ConfirmFact, RejectFact,
         ResolveFact, DecideFact, StartRun, TestModel, Enqueue, SaveAnswer, BeginUpload,
         RenameUpload, UploadFails, CommitUpload, UploadConflicts, resourceVars
<1>2. HashIsReadable'
  BY <1>1 DEF IndexInv, HashIsReadable
<1>3. DOMAIN operations \subseteq DOMAIN operations'
      /\ \A i \in DOMAIN operations : operations'[i] = operations[i]
  <2>1. ASSUME NEW kind \in Kinds, operations' = Append(operations, Queued(kind, Sent(c)))
        PROVE  DOMAIN operations \subseteq DOMAIN operations'
               /\ \A i \in DOMAIN operations : operations'[i] = operations[i]
    BY <2>1, HandleQueues, QueuedTyped, AppendTyped
  <2>. QED  BY <2>1, HandleQueues
<1>4. (QueuedReindex => QueuedReindex') /\ (ReindexInHand => ReindexInHand')
  BY <1>1, <1>3 DEF QueuedReindex, ReindexInHand, TypeOK, Taken
<1>5. \A d \in Clients : d # c => request'[d] = request[d]
  BY DEF Handle, AnswerFromRecord, Refuse, AskQuestion, Reindex, ConfirmFact, RejectFact,
         ResolveFact, DecideFact, StartRun, TestModel, Enqueue, SaveAnswer, BeginUpload,
         RenameUpload, UploadFails, CommitUpload, UploadConflicts, Done, TypeOK
<1>6. \A d \in Clients : Committing(d) => Committing(d)' \/ d = c
  BY <1>5 DEF Committing
<1>7. CASE RenameUpload(c)
  <2>1. request[c] # None /\ request' = [request EXCEPT ![c].at = "commit"]
    BY <1>7 DEF RenameUpload, At
  <2>2. Committing(c)'
    BY <2>1, GoesOn DEF Steps, Committing
  <2>. QED  BY <1>2, <2>2, FollowsMeans DEF IndexInv, IndexFollowsFile, OnItsWay, Committing
<1>8. CASE UploadConflicts(c)
  BY <1>2, <1>8 DEF UploadConflicts, IndexInv, IndexFollowsFile, OnItsWay
<1>9. CASE CommitUpload(c)
  <2>1. operations' = Append(operations, Queued("reindex", Sent(c)))
    BY <1>9 DEF CommitUpload
  <2>2. QueuedReindex'
    <3>1. PICK n \in Nat : n = Len(operations)
      BY DEF TypeOK
    <3>2. /\ DOMAIN operations' = 1..(n + 1)
          /\ operations'[n + 1].kind = "reindex" /\ operations'[n + 1].state = "queued"
      BY <2>1, <3>1, HandleQueues, QueuedTyped, AppendTyped DEF Kinds
    <3>. QED  BY <3>2 DEF QueuedReindex
  <2>. QED  BY <1>2, <2>2 DEF IndexInv, IndexFollowsFile, OnItsWay, QueuedReindex
<1>10. CASE ~RenameUpload(c) /\ ~UploadConflicts(c) /\ ~CommitUpload(c)
  <2>1. file' = file /\ stray' = stray /\ ~Committing(c)
    BY <1>10 DEF Handle, AnswerFromRecord, Refuse, AskQuestion, Reindex, ConfirmFact, RejectFact,
         ResolveFact, DecideFact, StartRun, TestModel, Enqueue, SaveAnswer, BeginUpload,
         UploadFails, Accepted, At, Committing, resourceVars
  <2>2. (Agrees => Agrees') /\ (Returned => Returned') /\ (stray # {} => stray' # {})
    BY <1>1, <2>1 DEF Agrees, Returned
  <2>3. (\E d \in Clients : Committing(d)) => \E d \in Clients : Committing(d)'
    BY <1>6, <2>1
  <2>4. IndexFollowsFile'
    BY <1>4, <2>2, <2>3, FollowsMeans
       DEF IndexInv, IndexFollowsFile, OnItsWay, QueuedReindex, ReindexInHand, Committing, Returned
  <2>. QED  BY <1>2, <2>4 DEF IndexInv
<1>. QED  BY <1>7, <1>8, <1>9, <1>10

LEMMA WorkKeepsIndex ==
  ASSUME TypeOK, WorkInv, IndexInv, Work
  PROVE  IndexInv'
<1>1. /\ DOMAIN operations' = DOMAIN operations
      /\ \A i \in DOMAIN operations : operations'[i].kind = operations[i].kind
  BY SourceStays
<1>2. CASE IndexResources
  <2>1. row' = Indexed(file, row) /\ file' = file
    BY <1>2 DEF IndexResources
  <2>. QED  BY <2>1, IndexingAgrees DEF IndexInv, IndexFollowsFile, OnItsWay, Returned
<1>3. CASE IndexFails
  BY <1>3 DEF IndexFails, IndexInv, IndexFollowsFile, OnItsWay, HashIsReadable
<1>4. CASE ~IndexResources /\ ~IndexFails
  <2>1. UNCHANGED <<resourceVars, request>>
    BY <1>4 DEF Work, ClaimOperation, BeginAnswer, AnswerProfileQuestion, AnswerFails,
                ScanOrDiagnose, FinishOperation, requestVars
  <2>2. /\ HashIsReadable' /\ (Agrees => Agrees') /\ (Returned => Returned') /\ (stray # {} => stray' # {})
        /\ \A c \in Clients : Committing(c) => Committing(c)'
    BY <2>1 DEF resourceVars, IndexInv, HashIsReadable, Agrees, Returned, Committing
  <2>3. QueuedReindex \/ ReindexInHand => QueuedReindex' \/ ReindexInHand'
    <3>1. CASE ClaimOperation
      <4>1. PICK k \in DOMAIN operations : /\ worker' = [op |-> k, at |-> "claimed"]
                                           /\ operations' = OperationState(k, "running")
                                           /\ worker = None
        BY <3>1 DEF ClaimOperation
      <4>2. worker' # None /\ worker'.op = k /\ worker'.at = "claimed"
        <5>1. k \in Nat
          BY DEF TypeOK
        <5>2. worker' \in Taken(Nat)
          BY <4>1, <5>1 DEF Taken
        <5>. QED  BY <4>1, <5>2, NoneAssumption
      <4>3. \A j \in DOMAIN operations : j # k => operations'[j] = operations[j]
        <5>1. "running" \in States
          BY DEF States
        <5>. QED  BY <4>1, <5>1, OnlyOneChanges
      <4>. QED  BY <1>1, <4>1, <4>2, <4>3 DEF QueuedReindex, ReindexInHand
    <3>2. CASE BeginAnswer \/ AnswerProfileQuestion \/ AnswerFails
      <4>1. /\ worker # None /\ worker.op \in DOMAIN operations
            /\ operations[worker.op].kind = "answer_profile_question"
            /\ \E s \in QuestionStates : operations' = QuestionState(worker.op, s)
        BY <3>2 DEF BeginAnswer, AnswerProfileQuestion, AnswerFails, InHand, TypeOK, Taken,
                    QuestionStates
      <4>2. \A j \in DOMAIN operations : j # worker.op => operations'[j] = operations[j]
        <5>1. PICK s \in QuestionStates : operations' = QuestionState(worker.op, s)
          BY <4>1
        <5>. QED  BY <4>1, <5>1, OnlyOneChanges
      <4>. QED  BY <1>1, <4>1, <4>2 DEF QueuedReindex, ReindexInHand
    <3>3. CASE ScanOrDiagnose
      BY <3>3 DEF ScanOrDiagnose, InHand, QueuedReindex, ReindexInHand
    <3>4. CASE FinishOperation
      <4>1. /\ worker # None /\ worker.op \in DOMAIN operations
            /\ operations[worker.op].state = "running" /\ worker.at # "claimed"
            /\ \E s \in States : operations' = OperationState(worker.op, s)
        BY <3>4 DEF FinishOperation, TypeOK, Taken, WorkInv, RunningIsHeld, States
      <4>2. \A j \in DOMAIN operations : j # worker.op => operations'[j] = operations[j]
        <5>1. PICK s \in States : operations' = OperationState(worker.op, s)
          BY <4>1
        <5>. QED  BY <4>1, <5>1, OnlyOneChanges
      <4>. QED  BY <1>1, <4>1, <4>2 DEF QueuedReindex, ReindexInHand
    <3>. QED  BY <1>4, <3>1, <3>2, <3>3, <3>4 DEF Work
  <2>4. IndexFollowsFile'
    BY <2>2, <2>3, FollowsMeans
       DEF IndexInv, IndexFollowsFile, OnItsWay, QueuedReindex, ReindexInHand, Committing, Returned
  <2>. QED  BY <2>2, <2>4 DEF IndexInv
<1>. QED  BY <1>2, <1>3, <1>4

LEMMA InitIndex == Init => IndexInv
BY DEF Init, IndexInv, HashIsReadable, IndexFollowsFile, OnItsWay, Agrees

LEMMA NextKeepsIndex == TypeOK /\ WorkInv /\ IndexInv /\ [Next]_vars => IndexInv'
<1> SUFFICES ASSUME TypeOK, WorkInv, IndexInv, [Next]_vars
             PROVE  IndexInv'
  OBVIOUS
<1>1. ASSUME NEW c \in Clients, NEW m \in Commands, NEW e \in 1..revision, Send(c, m, e)
      PROVE  IndexInv'
  <2>1. /\ request[c] = None /\ \A d \in Clients : d # c => request'[d] = request[d]
        /\ UNCHANGED <<operations, worker, resourceVars>>
    BY <1>1 DEF Send, TypeOK
  <2>2. \A d \in Clients : Committing(d) => Committing(d)'
    BY <2>1 DEF Committing
  <2>3. /\ HashIsReadable' /\ (Agrees => Agrees') /\ (Returned => Returned') /\ (stray # {} => stray' # {})
        /\ (QueuedReindex => QueuedReindex') /\ (ReindexInHand => ReindexInHand')
    BY <2>1 DEF resourceVars, IndexInv, HashIsReadable, Agrees, Returned, QueuedReindex,
                ReindexInHand
  <2>4. IndexFollowsFile'
    BY <2>2, <2>3, FollowsMeans
       DEF IndexInv, IndexFollowsFile, OnItsWay, QueuedReindex, ReindexInHand, Committing, Returned
  <2>. QED  BY <2>3, <2>4 DEF IndexInv
<1>2. ASSUME NEW b \in Bodies \cup {None}, ReplaceFile(b)
      PROVE  IndexInv'
  BY <1>2 DEF ReplaceFile, IndexInv, HashIsReadable, IndexFollowsFile, OnItsWay
<1>3. CASE Crash
  <2>1. /\ UNCHANGED <<operations, file, row>>
        /\ stray # {} \/ (\E c \in Clients : Committing(c)) \/ ReindexInHand => stray' # {}
    BY <1>3 DEF Crash, Committing, ReindexInHand
  <2>2. /\ HashIsReadable' /\ (Agrees => Agrees') /\ (Returned => Returned')
        /\ (QueuedReindex => QueuedReindex')
    BY <2>1 DEF IndexInv, HashIsReadable, Agrees, Returned, QueuedReindex
  <2>3. IndexFollowsFile'
    BY <2>1, <2>2, FollowsMeans
       DEF IndexInv, IndexFollowsFile, OnItsWay, QueuedReindex, Returned
  <2>. QED  BY <2>2, <2>3 DEF IndexInv
<1>4. CASE Restart
  <2>1. /\ worker = None /\ UNCHANGED <<request, resourceVars>>
        /\ DOMAIN operations' = DOMAIN operations
    BY <1>4 DEF Restart, requestVars, WorkInv, DeadIsIdle
  <2>2. QueuedReindex => QueuedReindex'
    <3>1. ASSUME NEW i \in DOMAIN operations, operations[i].state = "queued"
          PROVE  operations'[i].kind = operations[i].kind /\ operations'[i].state = "queued"
      <4>1. operations[i] \in Operation
        BY DEF TypeOK
      <4>. QED  BY <1>4, <3>1, <4>1 DEF Restart, Interrupted, Operation
    <3>. QED  BY <2>1, <3>1 DEF QueuedReindex
  <2>3. /\ HashIsReadable' /\ (Agrees => Agrees') /\ (Returned => Returned') /\ (stray # {} => stray' # {})
        /\ \A c \in Clients : Committing(c) => Committing(c)'
        /\ ~ReindexInHand
    BY <2>1 DEF resourceVars, IndexInv, HashIsReadable, Agrees, Returned, Committing,
                ReindexInHand
  <2>4. IndexFollowsFile'
    BY <2>2, <2>3, FollowsMeans
       DEF IndexInv, IndexFollowsFile, OnItsWay, QueuedReindex, Committing, Returned
  <2>. QED  BY <2>3, <2>4 DEF IndexInv
<1>5. CASE UNCHANGED vars
  BY <1>5 DEF vars, requestVars, resourceVars, IndexInv, HashIsReadable, IndexFollowsFile, OnItsWay,
              Agrees, Returned
<1>. QED  BY <1>1, <1>2, <1>3, <1>4, <1>5, HandleKeepsIndex, WorkKeepsIndex DEF Next

\* The index tells what is on disk, or an operation that will see it is on its way, or the file was
\* changed with none; a file that comes back with the bytes of its row keeps the state it got
\* meanwhile (indexResourceRoot, resources route).
THEOREM IndexKeepsUp == Spec => []IndexFollowsFile
<1>1. Spec => []IndexInv
  BY InitIndex, NextKeepsIndex, TypeCorrect, AlwaysWork, PTL DEF Spec
<1>2. IndexInv => IndexFollowsFile
  BY DEF IndexInv
<1>. QED  BY <1>1, <1>2, PTL
=============================================================================
