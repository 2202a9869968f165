------------------------------- MODULE Quota -------------------------------
(***************************************************************************)
(* The daily quota of one policy on one of its local days, as the pure     *)
(* functions of domain/scheduling.ts define it: a slot is reserved before  *)
(* a submission is attempted, released when nothing was delivered, and     *)
(* consumed when the delivery is confirmed.  The functions are not called  *)
(* by the program, which keeps the same rules in SQL; the handlers of      *)
(* Applications are shown to implement them.                               *)
(***************************************************************************)
EXTENDS Naturals, FiniteSets

CONSTANT Intents

VARIABLES
  cap,          \* submissions the policy allows on the day
  submitted,    \* confirmed submissions
  reservations  \* state of the reservation of each intent

vars == <<cap, submitted, reservations>>

QuotaStates == {"absent", "reserved", "consumed", "released"}

TypeOK ==
  /\ cap \in Nat
  /\ submitted \in Nat
  /\ reservations \in [Intents -> QuotaStates]

QuotaUsed == submitted + Cardinality({i \in Intents : reservations[i] = "reserved"})

Init ==
  /\ cap \in Nat
  /\ submitted = 0
  /\ reservations = [i \in Intents |-> "absent"]

\* A released intent may reserve again; a reserved or consumed one changes nothing.
ReserveQuota(i) ==
  /\ reservations[i] \in {"absent", "released"}
  /\ QuotaUsed < cap
  /\ reservations' = [reservations EXCEPT ![i] = "reserved"]
  /\ UNCHANGED <<cap, submitted>>

ReleaseQuota(i) ==
  /\ reservations[i] = "reserved"
  /\ reservations' = [reservations EXCEPT ![i] = "released"]
  /\ UNCHANGED <<cap, submitted>>

ConsumeQuota(i) ==
  /\ reservations[i] = "reserved"
  /\ reservations' = [reservations EXCEPT ![i] = "consumed"]
  /\ submitted' = submitted + 1
  /\ UNCHANGED cap

\* An edit of the policy; the slots already taken stay taken.
ChangeCap ==
  /\ cap' \in Nat
  /\ UNCHANGED <<submitted, reservations>>

Next ==
  \/ \E i \in Intents : ReserveQuota(i) \/ ReleaseQuota(i) \/ ConsumeQuota(i)
  \/ ChangeCap

Spec == Init /\ [][Next]_vars
=============================================================================
