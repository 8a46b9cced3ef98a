-------------------------- MODULE MCLocalScheduler --------------------------
(* Two task types; "r1" was left queued by an earlier process, and is      *)
(* already as many rows as the depth limit of 1 allows.                    *)
EXTENDS LocalScheduler, TLC

CONSTANTS letter, research, l1, l2, r1, r2, w1, w2, w3

MCTypes == {letter, research}
MCTasks == {l1, l2, r1, r2}
(* The liveness run leaves out l2. *)
MCLiveTasks == {l1, r1, r2}
MCThreads == {w1, w2, w3}
MCTypeOf == (l1 :> letter) @@ (l2 :> letter) @@ (r1 :> research) @@ (r2 :> research)
MCLiveTypeOf == [k \in MCLiveTasks |-> MCTypeOf[k]]
MCLoaded == (letter :> <<>>) @@ (research :> <<r1, r2>>)
MCThreadSymmetry == Permutations(MCThreads)
MCSymmetry == MCThreadSymmetry \cup Permutations({l1, l2})
=============================================================================
