---------------------------- MODULE MCLiveForecast ----------------------------
(* Instances of LiveForecast for TLC. *)
EXTENDS LiveForecast, TLC

Symmetry == Permutations(State) \cup Permutations(Owner) \cup Permutations(Proc)

NoBoundary == [q \in Question |-> None]
OneBoundaryAt(end) ==
    LET bounded == CHOOSE q \in Question : TRUE
    IN  [q \in Question |-> IF q = bounded THEN end ELSE None]
OneBoundaryAt2 == OneBoundaryAt(2)
OneBoundaryAt3 == OneBoundaryAt(3)

(* Passes overlap only at the first instant, and only as long as there is no update. *)
OverlapIsEarly ==
    (\A p \in Proc : rec[p] # IdlePass) =>
        now = 0 /\ \A t \in Task : task[t].prev = None

(* Tasks take their names in a fixed order: symmetry for runs with liveness. *)
Rank ==
    CHOOSE rank \in [Task -> 1 .. Cardinality(Task)] :
        \A t, u \in Task : rank[t] = rank[u] => t = u
NamesInOrder ==
    \A t, u \in Task :
        Rank[t] < Rank[u] /\ task[u].status # "none" => task[t].status # "none"

(* A second launch through the run API and a fault do not come together. *)
SecondLaunchIsFaultless == posts > 1 => faults = {}
===============================================================================
