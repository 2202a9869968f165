------------------------------ MODULE Delivery ------------------------------
(***************************************************************************)
(* What the application component promises about the outside world: every  *)
(* vacancy is exposed to at most one submission at a time, the exposure    *)
(* ends only when somebody established that nothing was delivered, and a   *)
(* vacancy with a confirmed submission never sees another one.             *)
(***************************************************************************)
EXTENDS FiniteSets

CONSTANTS Listings, Intents

VARIABLES
  exposed,    \* listing -> intents that may have reached the employer
  confirmed,  \* listings whose submission is confirmed
  spent       \* intents that were ever committed

vars == <<exposed, confirmed, spent>>

TypeOK ==
  /\ exposed \in [Listings -> SUBSET Intents]
  /\ confirmed \subseteq Listings
  /\ spent \subseteq Intents

Init ==
  /\ exposed = [l \in Listings |-> {}]
  /\ confirmed = {}
  /\ spent = {}

Commit(l, i) ==
  /\ exposed[l] = {}
  /\ i \notin spent
  /\ exposed' = [exposed EXCEPT ![l] = {i}]
  /\ spent' = spent \cup {i}
  /\ UNCHANGED confirmed

Confirm(l) ==
  /\ exposed[l] # {}
  /\ l \notin confirmed
  /\ confirmed' = confirmed \cup {l}
  /\ UNCHANGED <<exposed, spent>>

Disprove(l) ==
  /\ exposed[l] # {}
  /\ l \notin confirmed
  /\ exposed' = [exposed EXCEPT ![l] = {}]
  /\ UNCHANGED <<confirmed, spent>>

Next == \E l \in Listings :
          \/ \E i \in Intents : Commit(l, i)
          \/ Confirm(l)
          \/ Disprove(l)

Spec == Init /\ [][Next]_vars
=============================================================================
