------------------------------ MODULE Requests ------------------------------
(***************************************************************************)
(* Keyed requests of the dashboard and what they set in motion: the        *)
(* idempotency records, the operations the worker takes, the questions it  *)
(* answers, the facts a user edits by revision, and the resource files     *)
(* that are uploaded and indexed.  The server is one process whose         *)
(* handlers run without interruption between two awaits; a death of the    *)
(* process can come between any two commits.                               *)
(***************************************************************************)
EXTENDS Naturals, Sequences, FiniteSets

CONSTANTS
  Clients,     \* senders with a request under way
  Keys,        \* idempotency keys
  Bodies,      \* request bodies; of an upload, the bytes of the file
  Unreadable,  \* bodies no text can be extracted from
  Commands,    \* requests the clients may send, and send again
  None,
  MaxCrashes   \* bound on the deaths of the server

FactRoutes == {"confirm", "reject", "resolve"}
Routes == FactRoutes \cup {"ask", "start", "test", "upload", "reindex"}
Command == [route : Routes, key : Keys, body : Bodies]

Record == [body : Bodies, answer : Nat]
Steps == {"body", "save", "write", "commit"}
Request == [command : Commands, at : Steps, expected : Nat]
QuestionStates == {"queued", "running", "succeeded", "failed"}
Causes == {"user", "upload", "failure", "death"}
Taken(ops) == [op : ops, at : {"claimed", "asking", "succeeded", "failed"}]
IndexRow == [hash : Bodies \cup {None}, state : {"extracted", "failed", "missing"}]

ASSUME CommandAssumption == Commands \subseteq Command
ASSUME UnreadableAssumption == Unreadable \subseteq Bodies
ASSUME NoneAssumption ==
  None \notin Bodies \cup QuestionStates \cup Record \cup Request \cup Taken(Nat) \cup IndexRow
ASSUME CrashAssumption == MaxCrashes \in Nat

VARIABLES
  records,     \* route, key -> row of api_idempotency_records
  operations,  \* rows of operations in the order of creation, each with its question
  revision,    \* revision of the fact
  request,     \* client -> the request being handled
  worker,      \* the operation in hand
  up,          \* is the server running
  file,        \* bytes of the resource file
  row,         \* its row in resource_documents
  crashes,     \* deaths so far
  told,        \* history: answers given to clients
  denied,      \* history: routes that refused what they had answered, or done, before
  cut,         \* history: keys whose work a death separated from its record
  stray        \* history: what has changed the file, or kept it from being indexed, without an
               \*          operation to index it

requestVars == <<records, revision, request, told, denied, cut>>
resourceVars == <<file, row, stray>>
vars == <<requestVars, operations, worker, up, resourceVars, crashes>>

Kinds == {"answer_profile_question", "scan", "model_diagnostic", "reindex"}
Operation ==
  [kind : Kinds, state : {"queued", "running", "succeeded", "failed"},
   question : QuestionStates \cup {None}, from : Routes \X Keys]

Init ==
  /\ records = [s \in Routes \X Keys |-> None]
  /\ operations = <<>>
  /\ revision = 1
  /\ request = [c \in Clients |-> None]
  /\ worker = None
  /\ up = TRUE
  /\ file = None
  /\ row = None
  /\ crashes = 0
  /\ told = {}
  /\ denied = {}
  /\ cut = {}
  /\ stray = {}

Scope(m) == <<m.route, m.key>>
Queued(kind, m) ==
  [kind |-> kind, state |-> "queued", from |-> Scope(m),
   question |-> IF kind = "answer_profile_question" THEN "queued" ELSE None]

\* Between its two commits a handler does not yield to another.
Free == up /\ \A c \in Clients : request[c] # None => request[c].at # "save"
At(c, step) == Free /\ request[c] # None /\ request[c].at = step
Sent(c) == request[c].command
Done(c) == request' = [request EXCEPT ![c] = None]

-----------------------------------------------------------------------------
(* Idempotency records.                                                    *)
Recorded(m) == records[Scope(m)] # None
Replay(m) == Recorded(m) /\ records[Scope(m)].body = m.body

Save(m, answer) == records' = [records EXCEPT ![Scope(m)] = [body |-> m.body, answer |-> answer]]
Tell(m, answer) == told' = told \cup {[command |-> m, answer |-> answer]}
\* What the server refuses although it has answered the same request before.
Deny(m) == denied' = IF Recorded(m) /\ records[Scope(m)].body = m.body THEN denied \cup {m.route} ELSE denied

\* The client sends a command, for the first time or again, with the revision it has read.
Send(c, m, expected) ==
  /\ up
  /\ request[c] = None
  /\ expected \in IF m.route \in FactRoutes THEN 1..revision ELSE {1}
  /\ request' = [request EXCEPT ![c] = [command |-> m, at |-> "body", expected |-> expected]]
  /\ UNCHANGED <<records, revision, told, denied, cut, operations, worker, up, resourceVars, crashes>>

\* A recorded answer, before anything else is looked at.
AnswerFromRecord(c) ==
  /\ At(c, "body")
  /\ Replay(Sent(c))
  /\ Tell(Sent(c), records[Scope(Sent(c))].answer)
  /\ Done(c)
  /\ UNCHANGED <<records, revision, denied, cut, operations, worker, up, resourceVars, crashes>>

ActiveScan(i) == operations[i].kind = "scan" /\ operations[i].state \in {"queued", "running"}
Active == \E i \in DOMAIN operations : ActiveScan(i)
\* Mutant: the state is looked at before the record.
RefusedFirst(m, expected) ==
  \/ Recorded(m) /\ ~Replay(m)
  \/ m.route \in FactRoutes /\ expected # revision
  \/ m.route = "start" /\ Active
Refused(m, expected) ==
  \/ Recorded(m) /\ ~Replay(m)
  \/ ~Recorded(m) /\ m.route \in FactRoutes /\ expected # revision
  \/ ~Recorded(m) /\ m.route = "start" /\ Active

Refuse(c) ==
  /\ At(c, "body")
  /\ Refused(Sent(c), request[c].expected)
  /\ Deny(Sent(c))
  /\ Done(c)
  /\ UNCHANGED <<records, revision, told, cut, operations, worker, up, resourceVars, crashes>>

Accepted(c, route) ==
  /\ At(c, "body")
  /\ Sent(c).route = route
  /\ ~Recorded(Sent(c))
  /\ ~Refused(Sent(c), request[c].expected)

-----------------------------------------------------------------------------
(* The routes.                                                             *)
\* Question, operation and record in one transaction.
AskQuestion(c) ==
  /\ Accepted(c, "ask")
  /\ operations' = Append(operations, Queued("answer_profile_question", Sent(c)))
  /\ Save(Sent(c), Len(operations) + 1)
  /\ Tell(Sent(c), Len(operations) + 1)
  /\ Done(c)
  /\ UNCHANGED <<revision, denied, cut, worker, up, resourceVars, crashes>>

\* Indexing on demand, likewise.
Reindex(c) ==
  /\ Accepted(c, "reindex")
  /\ operations' = Append(operations, Queued("reindex", Sent(c)))
  /\ Save(Sent(c), Len(operations) + 1)
  /\ Tell(Sent(c), Len(operations) + 1)
  /\ Done(c)
  /\ UNCHANGED <<revision, denied, cut, worker, up, resourceVars, crashes>>

\* Row, revision and record in one transaction.
DecideFact(c) ==
  /\ revision' = revision + 1
  /\ Save(Sent(c), revision + 1)
  /\ Tell(Sent(c), revision + 1)
  /\ Done(c)
  /\ UNCHANGED <<operations, denied, cut, worker, up, resourceVars, crashes>>

ConfirmFact(c) == Accepted(c, "confirm") /\ DecideFact(c)
RejectFact(c)  == Accepted(c, "reject")  /\ DecideFact(c)
ResolveFact(c) == Accepted(c, "resolve") /\ DecideFact(c)

\* Starting a run and testing the model commit the operation and then the record.
Enqueue(c, kind) ==
  /\ operations' = Append(operations, Queued(kind, Sent(c)))
  /\ request' = [request EXCEPT ![c].at = "save"]
  /\ UNCHANGED <<records, revision, told, denied, cut, worker, up, resourceVars, crashes>>

StartRun(c) == Accepted(c, "start") /\ Enqueue(c, "scan")
TestModel(c) == Accepted(c, "test") /\ Enqueue(c, "model_diagnostic")

SaveAnswer(c) ==
  /\ up
  /\ request[c] # None /\ request[c].at = "save"
  /\ Save(Sent(c), Len(operations))
  /\ Tell(Sent(c), Len(operations))
  /\ Done(c)
  /\ UNCHANGED <<revision, denied, cut, operations, worker, up, resourceVars, crashes>>

\* An upload finds no record and then awaits the file system.
BeginUpload(c) ==
  /\ Accepted(c, "upload")
  /\ request' = [request EXCEPT ![c].at = "write"]
  /\ UNCHANGED <<records, revision, told, denied, cut, operations, worker, up, resourceVars, crashes>>

RenameUpload(c) ==
  /\ At(c, "write")
  /\ file' = Sent(c).body
  /\ request' = [request EXCEPT ![c].at = "commit"]
  /\ UNCHANGED <<records, revision, told, denied, cut, operations, worker, up, row, stray, crashes>>

UploadFails(c) ==
  /\ At(c, "write")
  /\ Done(c)
  /\ UNCHANGED <<records, revision, told, denied, cut, operations, worker, up, resourceVars, crashes>>

\* Mutant: a record under the key is replaced.
KeyFreeAlways(m) == TRUE
\* The primary key of the records.
KeyFree(m) == ~Recorded(m)

CommitUpload(c) ==
  /\ At(c, "commit")
  /\ KeyFree(Sent(c))
  /\ operations' = Append(operations, Queued("reindex", Sent(c)))
  /\ Save(Sent(c), Len(operations) + 1)
  /\ Tell(Sent(c), Len(operations) + 1)
  /\ Done(c)
  /\ UNCHANGED <<revision, denied, cut, worker, up, resourceVars, crashes>>

\* The key was recorded meanwhile: the transaction fails, the file stays replaced.
UploadConflicts(c) ==
  /\ At(c, "commit")
  /\ ~KeyFree(Sent(c))
  /\ Deny(Sent(c))
  /\ stray' = stray \cup {"upload"}
  /\ Done(c)
  /\ UNCHANGED <<records, revision, told, cut, operations, worker, up, file, row, crashes>>

\* The user replaces or removes the file in the mounted directory.
ReplaceFile(b) ==
  /\ file # b
  /\ file' = b
  /\ stray' = stray \cup {"user"}
  /\ UNCHANGED <<requestVars, operations, worker, up, row, crashes>>

-----------------------------------------------------------------------------
(* The worker.                                                             *)
InHand(kind, step) == Free /\ worker # None /\ operations[worker.op].kind = kind /\ worker.at = step
OperationState(i, s) == [operations EXCEPT ![i].state = s]
QuestionState(i, s) == [operations EXCEPT ![i].question = s]

ClaimOperation ==
  /\ Free
  /\ worker = None
  /\ \E i \in DOMAIN operations :
       /\ operations[i].state = "queued"
       /\ \A j \in 1..(i - 1) : operations[j].state # "queued"
       /\ operations' = OperationState(i, "running")
       /\ worker' = [op |-> i, at |-> "claimed"]
  /\ UNCHANGED <<requestVars, up, resourceVars, crashes>>

BeginAnswer ==
  /\ InHand("answer_profile_question", "claimed")
  /\ operations' = QuestionState(worker.op, "running")
  /\ worker' = [worker EXCEPT !.at = "asking"]
  /\ UNCHANGED <<requestVars, up, resourceVars, crashes>>

\* The model's answer and its evidence.
AnswerProfileQuestion ==
  /\ InHand("answer_profile_question", "asking")
  /\ operations' = QuestionState(worker.op, "succeeded")
  /\ worker' = [worker EXCEPT !.at = "succeeded"]
  /\ UNCHANGED <<requestVars, up, resourceVars, crashes>>

\* The model fails, runs out of time or answers out of form.
AnswerFails ==
  /\ InHand("answer_profile_question", "asking")
  /\ operations' = QuestionState(worker.op, "failed")
  /\ worker' = [worker EXCEPT !.at = "failed"]
  /\ UNCHANGED <<requestVars, up, resourceVars, crashes>>

\* Mutant: a file that is gone leaves its row alone.
IndexedKeepingMissing(b, r) ==
  CASE b = None -> r
    [] b # None /\ r # None /\ r.hash = b -> r
    [] b \in Unreadable /\ (r # None => r.hash # b) ->
         [hash |-> IF r = None THEN None ELSE r.hash, state |-> "failed"]
    [] OTHER -> [hash |-> b, state |-> "extracted"]
\* What indexing makes of a row: an unchanged hash is passed over, whatever its state.
Indexed(b, r) ==
  CASE b = None -> IF r = None THEN None ELSE [r EXCEPT !.state = "missing"]
    [] b # None /\ r # None /\ r.hash = b -> r
    [] b \in Unreadable /\ (r # None => r.hash # b) ->
         [hash |-> IF r = None THEN None ELSE r.hash, state |-> "failed"]
    [] OTHER -> [hash |-> b, state |-> "extracted"]

IndexResources ==
  /\ InHand("reindex", "claimed")
  /\ row' = Indexed(file, row)
  /\ stray' = {}
  /\ worker' = [worker EXCEPT !.at = "succeeded"]
  /\ UNCHANGED <<requestVars, operations, up, file, crashes>>

\* The resource directory cannot be read.
IndexFails ==
  /\ InHand("reindex", "claimed")
  /\ stray' = stray \cup {"failure"}
  /\ worker' = [worker EXCEPT !.at = "failed"]
  /\ UNCHANGED <<requestVars, operations, up, file, row, crashes>>

\* Discovery itself is in ScanRuns, the model's diagnosis in Inference.
ScanOrDiagnose ==
  /\ InHand("scan", "claimed") \/ InHand("model_diagnostic", "claimed")
  /\ \E s \in {"succeeded", "failed"} : worker' = [worker EXCEPT !.at = s]
  /\ UNCHANGED <<requestVars, operations, up, resourceVars, crashes>>

FinishOperation ==
  /\ Free
  /\ worker # None
  /\ worker.at \in {"succeeded", "failed"}
  /\ operations' = OperationState(worker.op, worker.at)
  /\ worker' = None
  /\ UNCHANGED <<requestVars, up, resourceVars, crashes>>

-----------------------------------------------------------------------------
(* The process.                                                            *)
Lost == {Scope(Sent(c)) : c \in {d \in Clients : request[d] # None /\ request[d].at = "save"}}

Crash ==
  /\ up
  /\ crashes < MaxCrashes
  /\ up' = FALSE
  /\ crashes' = crashes + 1
  /\ cut' = cut \cup Lost
  /\ stray' = IF \/ \E c \in Clients : request[c] # None /\ request[c].at = "commit"
                \/ /\ worker # None
                   /\ operations[worker.op].kind = "reindex" /\ worker.at = "claimed"
              THEN stray \cup {"death"} ELSE stray
  /\ request' = [c \in Clients |-> None]
  /\ worker' = None
  /\ UNCHANGED <<records, revision, told, denied, operations, file, row>>

\* Mutant: running questions are left to the worker.
InterruptedWithoutQuestion(o) == [o EXCEPT !.state = IF @ = "running" THEN "failed" ELSE @]
Interrupted(o) ==
  [o EXCEPT !.state = IF @ = "running" THEN "failed" ELSE @,
            !.question = IF @ = "running" THEN "failed" ELSE @]

Restart ==
  /\ ~up
  /\ up' = TRUE
  /\ operations' = [i \in DOMAIN operations |-> Interrupted(operations[i])]
  /\ UNCHANGED <<requestVars, worker, resourceVars, crashes>>

-----------------------------------------------------------------------------
Handle(c) ==
  \/ AnswerFromRecord(c) \/ Refuse(c)
  \/ AskQuestion(c) \/ Reindex(c)
  \/ ConfirmFact(c) \/ RejectFact(c) \/ ResolveFact(c)
  \/ StartRun(c) \/ TestModel(c) \/ SaveAnswer(c)
  \/ BeginUpload(c) \/ RenameUpload(c) \/ UploadFails(c) \/ CommitUpload(c) \/ UploadConflicts(c)

Work ==
  \/ ClaimOperation
  \/ BeginAnswer \/ AnswerProfileQuestion \/ AnswerFails
  \/ IndexResources \/ IndexFails
  \/ ScanOrDiagnose
  \/ FinishOperation

Next ==
  \/ \E c \in Clients, m \in Commands, e \in 1..revision : Send(c, m, e)
  \/ \E c \in Clients : Handle(c)
  \/ Work
  \/ \E b \in Bodies \cup {None} : ReplaceFile(b)
  \/ Crash
  \/ Restart

Spec == Init /\ [][Next]_vars

-----------------------------------------------------------------------------
TypeOK ==
  /\ records \in [Routes \X Keys -> Record \cup {None}]
  /\ operations \in Seq(Operation)
  /\ revision \in Nat \ {0}
  /\ request \in [Clients -> Request \cup {None}]
  /\ worker \in Taken(DOMAIN operations) \cup {None}
  /\ up \in BOOLEAN
  /\ file \in Bodies \cup {None}
  /\ row \in IndexRow \cup {None}
  /\ crashes \in 0..MaxCrashes
  /\ told \subseteq [command : Commands, answer : Nat]
  /\ denied \subseteq Routes
  /\ cut \subseteq Routes \X Keys
  /\ stray \subseteq Causes

\* However often and however concurrently a client sends a keyed request, and
\* wherever the server dies, it sets one operation in motion.  Excepted is a run
\* or a model test whose request died between its two commits (saveIdempotency, its callers);
\* even then no second run is requested while the first waits or runs.
AtMostOnce ==
  /\ \A s \in (Routes \X Keys) \ cut :
       Cardinality({i \in DOMAIN operations : operations[i].from = s}) <= 1
  /\ \A i, j \in DOMAIN operations : ActiveScan(i) /\ ActiveScan(j) => i = j

\* A key has one answer, to one body, that every retry is given again; what was
\* answered is refused to a later retry by uploads alone, two of which can pass
\* the lookup together (findIdempotency, and where each route calls it).
RetriesRepeatTheAnswer ==
  /\ \A a, b \in told : Scope(a.command) = Scope(b.command) => a = b
  /\ denied \subseteq {"upload"}

\* A question waits exactly as long as its operation does, runs while the worker
\* is at it and has ended when its operation has; a death leaves at most a
\* failed operation whose question still waits or was answered
\* (profile/questions route, poll, startRuntime).
QuestionMatchesOperation ==
  \A i \in DOMAIN operations : operations[i].question # None =>
    LET o == operations[i]
        held == worker # None /\ worker.op = i
        interrupted == crashes > 0 /\ o.state \in {"running", "failed"} IN
    /\ o.question = "queued" => o.state = "queued" \/ (held /\ worker.at = "claimed") \/ interrupted
    /\ o.question = "running" => (held /\ worker.at = "asking") \/ ~up
    /\ o.state = "queued" => o.question = "queued"
    /\ o.state = "succeeded" => o.question = "succeeded"
    /\ o.state = "failed" => o.question = "failed" \/ crashes > 0

\* The index tells what is on disk, or an operation that will see it is on its
\* way, or the file was changed with none (by the user, by an upload that was
\* refused after its rename, in a death).  Excepted is a file that comes back with
\* the bytes of its row: the row keeps the state it got meanwhile (indexResourceRoot,
\* resources route).
Agrees ==
  \/ file = None /\ (row = None \/ row.state = "missing")
  \/ file # None /\ row # None /\ row.state = (IF file \in Unreadable THEN "failed" ELSE "extracted")
                 /\ (row.hash = file \/ file \in Unreadable)

OnItsWay ==
  \/ \E i \in DOMAIN operations : operations[i].kind = "reindex" /\ operations[i].state = "queued"
  \/ worker # None /\ operations[worker.op].kind = "reindex" /\ worker.at = "claimed"
  \/ \E c \in Clients : request[c] # None /\ request[c].at = "commit"
Returned == row # None /\ row.hash = file /\ row.state # "extracted"

IndexFollowsFile == Agrees \/ OnItsWay \/ Returned \/ stray # {}

\* A key sets one operation in motion, wherever the server dies (ARCH-005: the operation and the record
\* of its key in one transaction).  Starting a run and testing the model commit them one after the other.
KeyedOnce ==
  \A s \in Routes \X Keys : Cardinality({i \in DOMAIN operations : operations[i].from = s}) <= 1

\* A key that comes again with the body it was recorded with is given the recorded answer (API-002),
\* never refused.  Two uploads under one key can both pass the lookup, and the second is refused.
SameBodySameAnswer == denied = {}

\* An upload that has replaced the file is indexed, or will be (API-008: an upload returns the operation
\* that indexes it).  One that is refused after its rename leaves the file of a body nobody indexes.
UploadsAreIndexed == Agrees \/ OnItsWay \/ Returned \/ stray \ {"upload"} # {}

\* A question whose job a restart has failed does not wait on: the user sees it failed and asks again.
\* The restart fails running questions, and the job may have been claimed before its question ran.
InterruptedQuestionsEnd ==
  up => \A i \in DOMAIN operations :
          operations[i].state = "failed" => operations[i].question # "queued"
=============================================================================
