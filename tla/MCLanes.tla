------------------------------- MODULE MCLanes -------------------------------
(***************************************************************************)
(* Three tasks on two slots, in proactive mode, where the second task      *)
(* writes below the directory of the first, or in group mode, where both   *)
(* are tasks of one member and share a lane.  MCInit chooses the mode.     *)
(* What AgentsIsolated says of the directories in proactive mode is what   *)
(* it says of the members in group mode: the first two tasks are apart.    *)
(***************************************************************************)
EXTENDS RuntimeTask, TLC

CONSTANTS x1, a1, a2, a3, ann, bob

VARIABLE kind

MCActions == {x1}
MCAttempts == {a1, a2, a3}
Rows == Permutations(Attempts)

MCRequester == <<ann, ann, bob>>
MCWriteRoots == <<{<<"src">>}, {<<"src", "docs">>}, {<<"web">>}>>

ASSUME \A s, t \in Tasks : s # t => (SameRequester(s, t) <=> RootsConflict(s, t))

Group == INSTANCE RuntimeTask WITH
  Mode <- "group_mention", WriteRoots <- <<{}, {}, {}>>,
  Environment <- {"operator", "deadline"}

MCInit == kind \in {"group", "proactive"} /\ Init

MCNext ==
  /\ UNCHANGED kind
  /\ \/ kind = "group" /\ Group!Next
     \/ kind = "proactive" /\ Next

MCSpec == MCInit /\ [][MCNext]_<<kind, vars>>
=============================================================================
