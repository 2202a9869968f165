------------------------------ MODULE Matching ------------------------------
(***************************************************************************)
(* The assessment of a vacancy against the criteria of a search: code      *)
(* evaluates every criterion, a model may be asked about those it could    *)
(* not evaluate, and code decides.                                         *)
(*                                                                         *)
(* A text is the sequence of its words in lower case, <<>> when it is      *)
(* missing or blank; no word contains another.                             *)
(***************************************************************************)
EXTENDS Naturals, Sequences

CONSTANTS
  Ids,    \* criterion ids
  NoId,   \* the blank id
  Words   \* words of titles, places and descriptions

Texts     == Seq(Words)
Fields    == {"title", "arrangement", "category", "location", "keywords"}
Outcomes  == {"pass", "fail", "unknown"}
Decisions == {"match", "reject", "needs_review"}

Criterion == [id : Ids, field : Fields, value : Texts, strength : {"required", "preferred"}]
JobFacts  == [title : Texts, arrangement : Texts, category : Texts, location : Texts,
              description : Texts]

\* An adapter may answer with anything in the place of an outcome, or with a blank reason.
CriterionResult == [criterionId : Ids, outcome : Outcomes \cup {"other"}, reason : BOOLEAN]
-----------------------------------------------------------------------------
Contains(actual, expected) ==
  \E k \in 0 .. Len(actual) : \A n \in 1 .. Len(expected) :
    k + n <= Len(actual) /\ actual[k + n] = expected[n]
MentionsAll(actual, expected) ==
  \A n \in 1 .. Len(expected) : \E k \in 1 .. Len(actual) : actual[k] = expected[n]

Raw(field, job) == IF field = "keywords" THEN job.description ELSE job[field]

Satisfies(field, actual, expected) ==
  CASE field = "title"    -> Contains(actual, expected)
    [] field = "keywords" -> MentionsAll(actual, expected)
    [] OTHER              -> actual = expected

EvaluateCriterion(criterion, job) ==
  IF Raw(criterion.field, job) = <<>> THEN "unknown"
  ELSE IF Satisfies(criterion.field, Raw(criterion.field, job), criterion.value)
    THEN "pass" ELSE "fail"

\* The outcomes are in the order of the criteria.
RequiredWith(criteria, outcomes, these) ==
  \E n \in DOMAIN criteria : criteria[n].strength = "required" /\ outcomes[n] \in these
DecideMatch(criteria, outcomes) ==
  IF RequiredWith(criteria, outcomes, {"fail"}) THEN "reject"
  ELSE IF RequiredWith(criteria, outcomes, {"unknown"}) THEN "needs_review"
  ELSE "match"
-----------------------------------------------------------------------------
ValidCriterionSet(criteria) ==
  /\ \A n \in DOMAIN criteria : criteria[n].id # NoId
  /\ \A m, n \in DOMAIN criteria : criteria[m].id = criteria[n].id => m = n

CompleteCoverage(criteria, results) ==
  /\ \A k \in DOMAIN results :
       /\ \E n \in DOMAIN criteria : criteria[n].id = results[k].criterionId
       /\ results[k].outcome \in Outcomes
       /\ results[k].reason
  /\ \A j, k \in DOMAIN results : results[j].criterionId = results[k].criterionId => j = k
  /\ \A n \in DOMAIN criteria : \E k \in DOMAIN results : results[k].criterionId = criteria[n].id

\* What the adapter says of the criteria, in their order.
Aligned(criteria, results) ==
  [n \in DOMAIN criteria |->
     results[CHOOSE k \in DOMAIN results : results[k].criterionId = criteria[n].id].outcome]

Deterministic(criteria, job) == [n \in DOMAIN criteria |-> EvaluateCriterion(criteria[n], job)]

Agrees(known, said) == \A n \in DOMAIN known : known[n] \in {"unknown", said[n]}
Merged(known, said) ==
  [n \in DOMAIN known |-> IF known[n] = "unknown" THEN said[n] ELSE known[n]]

\* An assessment, or Invalid when an InvalidRelevanceResultError is thrown.
Invalid == [decision |-> "invalid", outcomes |-> <<>>, modelUsed |-> FALSE]
Assessed(criteria, outcomes, modelUsed) ==
  [decision |-> DecideMatch(criteria, outcomes), outcomes |-> outcomes, modelUsed |-> modelUsed]

ModelNeeded(criteria, known) ==
  /\ DecideMatch(criteria, known) # "reject"
  /\ \E n \in DOMAIN known : known[n] = "unknown"

\* Without an adapter code decides alone.  An adapter answers with results, or with something that
\* is no list of results.
Adapter == [answers : {"nothing", "garbage", "results"}, results : Seq(CriterionResult)]

OrchestrateMatching(criteria, job, adapter) ==
  LET known == Deterministic(criteria, job)
      said  == Aligned(criteria, adapter.results) IN
  IF ~ValidCriterionSet(criteria)
    THEN Invalid
  ELSE IF ~ModelNeeded(criteria, known) \/ adapter.answers = "nothing"
    THEN Assessed(criteria, known, FALSE)
  ELSE IF /\ adapter.answers = "results"
          /\ CompleteCoverage(criteria, adapter.results)
          /\ Agrees(known, said)
    THEN Assessed(criteria, Merged(known, said), TRUE)
  ELSE Invalid
=============================================================================
