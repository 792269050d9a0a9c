--------------------------- MODULE MCRuntimeTask ---------------------------
(* Small instances of RuntimeTask for TLC. *)
EXTENDS RuntimeTask, TLC

CONSTANTS x1, a1, a2, d1, d2, ann, nobody

MCActions == {x1}
MCAttempts == {a1, a2}
Rows == Permutations(Attempts) \cup Permutations(Declarations)

\* Group tasks have no write roots.
MCMember == <<ann>>
MCNoRoots == [t \in Tasks |-> {}]

\* Two tasks of the owner, one of which writes below the directory of the other.
MCOwner == <<ann, ann>>
MCRoots == <<{<<"src">>}, {<<"src", "docs">>}>>
=============================================================================
