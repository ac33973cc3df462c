----------------------------- MODULE MCResolution -----------------------------
(* Instances of Resolution for TLC. *)
EXTENDS Resolution, TLC

\* One value is asked for in every way, the other only plainly.
FirstValue == CHOOSE v \in Value : TRUE
SomeWishes ==
    {wish \in Wish :
        /\ wish.value # FirstValue => ~ wish.annul /\ ~ wish.force
        /\ wish.task \in Plain => ~ wish.annul /\ wish.value = FirstValue}

Symmetry == Permutations(Resolver) \cup Permutations(Row) \cup Permutations(State)
===============================================================================
