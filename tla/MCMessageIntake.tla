-------------------------- MODULE MCMessageIntake --------------------------
(* Small instances of MessageIntake for TLC. *)
EXTENDS MessageIntake, TLC

CONSTANTS b1, b2, ann, team

MCBatches1 == {b1}
MCBatches2 == {b1, b2}
Rows == Permutations(Batches)

\* The second message belongs to another conversation.
MCTwoRoutes == [m \in Messages |-> IF m = 2 THEN ann ELSE team]
MCOneRoute == [m \in Messages |-> team]
=============================================================================
