---------------------------- MODULE MCTimedInit ----------------------------
(***************************************************************************)
(* Instance of TimedInit for TLC: three nodes, one of which may name       *)
(* itself.  The other two are interchangeable, and all three are when it   *)
(* does not.  TLC's symmetry reduction would not be sound for a liveness   *)
(* property, but it is enough to start from one of the initial states that *)
(* are the same up to a permutation of such nodes: a behaviour from        *)
(* another is one from this with the nodes permuted throughout, and the    *)
(* properties do not tell nodes apart.  When the one node names itself     *)
(* only it may be late, and it names at most one other node.               *)
(***************************************************************************)
EXTENDS TimedInit

CONSTANTS p0, p1, p2

MCNodes == {p0, p1, p2}

Rank(n) == 2 * Cardinality(servers[n]) + late[n]

(* Sorting the interchangeable nodes by rank gives such a state. *)
MCInit == /\ TInit
          /\ Rank(p1) <= Rank(p2)
          /\ IF p0 \in servers[p0]
             THEN late[p1] = 0 /\ late[p2] = 0 /\ Cardinality(servers[p0]) <= 2
             ELSE Rank(p0) <= Rank(p1)

MCSpec == MCInit /\ [][TNext]_tvars /\ WF_tvars(Progress)
=============================================================================
