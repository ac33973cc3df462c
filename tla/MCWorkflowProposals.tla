-------------------------- MODULE MCWorkflowProposals --------------------------
(* Instances of WorkflowProposals for TLC. *)
EXTENDS WorkflowProposals, TLC

Symmetry == Permutations(Passer) \cup Permutations(Starter)

AcceptOnly == {<<"accepted", None>>}
LabRequests ==
    AcceptOnly \cup
    {<<"rejected", None>>, <<"implemented", None>>, <<"accepted", "validated">>}
===============================================================================
