---------------------------- MODULE TicketLedger ----------------------------
(***************************************************************************)
(* The ledger of one-time viewer tickets as the domain package states it   *)
(* (ViewerTicketLedger): a ticket is issued for a binding (dashboard       *)
(* session, intervention, browser generation), consumed at most once and   *)
(* before it expires, or revoked.  Interventions implements it with a      *)
(* table of the database.                                                  *)
(***************************************************************************)
EXTENDS Naturals

CONSTANTS Tokens, Bindings, Lifetimes, None

VARIABLES
  tickets,  \* token -> its ticket, None before it is issued
  now       \* the clock the ledger compares with

vars == <<tickets, now>>

Moment == Nat \cup {None}
Ticket == [binding : Bindings, expires : Nat, consumed : Moment, revoked : Moment]

Issued(t) == tickets[t] # None
Fresh(b, ttl) == [binding |-> b, expires |-> now + ttl, consumed |-> None, revoked |-> None]

\* A ticket that would still open a view.
Usable(t) ==
  /\ Issued(t)
  /\ tickets[t].consumed = None
  /\ tickets[t].revoked = None
  /\ tickets[t].expires > now

Init ==
  /\ tickets = [t \in Tokens |-> None]
  /\ now = 0

Issue(t, b, ttl) ==
  /\ ~Issued(t)
  /\ \A u \in Tokens : Usable(u) => tickets[u].binding # b
  /\ tickets' = [tickets EXCEPT ![t] = Fresh(b, ttl)]
  /\ UNCHANGED now

Consume(t, b) ==
  /\ Usable(t)
  /\ tickets[t].binding = b
  /\ tickets' = [tickets EXCEPT ![t].consumed = now]
  /\ UNCHANGED now

Revoke(t) ==
  /\ Issued(t)
  /\ tickets[t].consumed = None
  /\ tickets[t].revoked = None
  /\ tickets' = [tickets EXCEPT ![t].revoked = now]
  /\ UNCHANGED now

\* The clock is assumed not to go back.
Later ==
  /\ now' \in Nat
  /\ now' > now
  /\ UNCHANGED tickets

Next ==
  \/ \E t \in Tokens, b \in Bindings :
       \/ \E ttl \in Lifetimes : Issue(t, b, ttl)
       \/ Consume(t, b)
  \/ \E t \in Tokens : Revoke(t)
  \/ Later

Spec == Init /\ [][Next]_vars

-----------------------------------------------------------------------------
TypeOK ==
  /\ tickets \in [Tokens -> Ticket \cup {None}]
  /\ now \in Nat

\* At any moment at most one ticket opens a view for a binding, whatever was
\* issued, consumed, revoked or left to expire before (intervention.ts, issue).
OneUsable ==
  \A t, u \in Tokens :
    Usable(t) /\ Usable(u) /\ tickets[t].binding = tickets[u].binding => t = u

\* A ticket was consumed before it expired, and is not revoked as well
\* (intervention.ts, consume and revoke).
ConsumedInTime ==
  \A t \in Tokens :
    Issued(t) /\ tickets[t].consumed # None =>
      /\ tickets[t].consumed < tickets[t].expires
      /\ tickets[t].revoked = None

\* What a ticket stands for never changes, and neither does the moment it was
\* consumed: no token opens a second view (intervention.ts, consume).
OpensOnce ==
  [][\A t \in Tokens : Issued(t) =>
       /\ tickets'[t] # None
       /\ tickets'[t].binding = tickets[t].binding
       /\ tickets'[t].expires = tickets[t].expires
       /\ tickets[t].consumed # None => tickets'[t].consumed = tickets[t].consumed]_vars
=============================================================================
