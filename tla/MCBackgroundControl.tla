------------------------- MODULE MCBackgroundControl ------------------------
(***************************************************************************)
(* Two files to summarize, and the commands of one controller or of two    *)
(* beside the worker.                                                      *)
(***************************************************************************)
EXTENDS BackgroundControl

CONSTANTS sum1, sum2

MCKindOf == [i \in Items |-> "summarize-local"]
MCOcrOf == [d \in {} |-> sum1]
MCRank == [i \in Items |-> IF i = sum1 THEN 1 ELSE 2]
MCConcurrency == [k \in Kinds |-> 1]

\* Bounds: two commands, or one command and one exit of the worker's process.
MCInit == ControlInit /\ exits + commands >= 1
MCSpec == MCInit /\ [][Next]_allVars

\* The abort signal and the budgets are the subject of the worker's own instance.
WithinBudget == ~aborted /\ ~budgetSpent
=============================================================================
