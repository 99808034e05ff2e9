------------------------------ MODULE Handoff ------------------------------
(***************************************************************************)
(* What the transactional outbox promises, said without locks, batches,    *)
(* processes or a database: a job the pipeline has accepted is owed to     *)
(* Redis until it is settled, and it is settled only once it has been      *)
(* delivered at least once (or can never be parsed).  relay.go states the  *)
(* contract as "at-least-once, deliberately"; outbox_repo.go as "deliver a *)
(* job twice, never zero times".                                           *)
(***************************************************************************)
EXTENDS Naturals

CONSTANTS Entry,     \* outbox entries
          Garbled    \* entries whose payload does not decode into a Job

VARIABLES owed,      \* accepted, and not settled yet
          settled,   \* retired: nobody will look at it again
          delivered  \* how many copies of each job were pushed to Redis

handoffVars == <<owed, settled, delivered>>

Init ==
    /\ owed = {}
    /\ settled = {}
    /\ delivered = [e \in Entry |-> 0]

\* A transaction commits a set of businesses together with their jobs.
Accept(S) ==
    /\ S \intersect (owed \union settled) = {}
    /\ owed' = owed \union S
    /\ UNCHANGED <<settled, delivered>>

\* A copy reaches Redis.  At-least-once: it may arrive again, even after the
\* job was settled by somebody else.
Deliver(e) ==
    /\ e \in owed \union settled
    /\ delivered' = [delivered EXCEPT ![e] = @ + 1]
    /\ UNCHANGED <<owed, settled>>

\* A set of jobs is retired.
Settle(S) ==
    /\ S \subseteq owed
    /\ \A e \in S \ Garbled : delivered[e] > 0
    /\ owed' = owed \ S
    /\ settled' = settled \union S
    /\ UNCHANGED delivered

Next ==
    \/ \E S \in SUBSET Entry : Accept(S) \/ Settle(S)
    \/ \E e \in Entry : Deliver(e)

Spec == Init /\ [][Next]_handoffVars
=============================================================================
