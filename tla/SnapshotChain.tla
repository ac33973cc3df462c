---------------------------- MODULE SnapshotChain ----------------------------
(***************************************************************************)
(* What the canonical question promises its readers, whatever the leases,  *)
(* triggers and transactions behind it do: the published snapshots of a    *)
(* question form one line, each new one is put after the current head with *)
(* a later forecast time, nothing published ever changes, and a closed     *)
(* question publishes nothing more.                                        *)
(* ForecastState implements this specification.                            *)
(***************************************************************************)
EXTENDS Integers

CONSTANTS
    Question,   \* canonical questions
    State,      \* snapshots that may be published
    Instant,    \* forecast times
    None        \* no snapshot, no time

VARIABLES
    head,       \* head[q]: the newest published snapshot of q
    link,       \* link[s]: where s was published, or None
    closed      \* closed[q]: q was resolved or annulled

chainVars == <<head, link, closed>>

ChainInit ==
    /\ head = [q \in Question |-> None]
    /\ link = [s \in State |-> None]
    /\ closed = [q \in Question |-> FALSE]

(* Every snapshot after the first names a time, later than its parent's if *)
(* the parent names one.                                                   *)
Follows(parent, asOf) ==
    parent # None => /\ asOf # None
                     /\ link[parent].asOf # None => asOf > link[parent].asOf

Publish(q, s, asOf) ==
    /\ ~ closed[q]
    /\ link[s] = None
    /\ Follows(head[q], asOf)
    /\ link' = [link EXCEPT ![s] = [question |-> q, prev |-> head[q], asOf |-> asOf]]
    /\ head' = [head EXCEPT ![q] = s]
    /\ UNCHANGED closed

Close(q) ==
    /\ closed' = [closed EXCEPT ![q] = TRUE]
    /\ UNCHANGED <<head, link>>

ChainNext ==
    \/ \E q \in Question, s \in State, asOf \in Instant \cup {None} : Publish(q, s, asOf)
    \/ \E q \in Question : Close(q)

ChainSpec == ChainInit /\ [][ChainNext]_chainVars
=============================================================================
