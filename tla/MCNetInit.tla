----------------------------- MODULE MCNetInit -----------------------------
(***************************************************************************)
(* Instance of NetInit for TLC.  The nodes that may not name themselves    *)
(* are interchangeable: Init has every policy, with its permutations.  A   *)
(* node that may name itself and does not is interchangeable with them     *)
(* too, so it is enough to start from the policies where such a node names *)
(* no more servers than another does.  One that does name itself names at  *)
(* most one other node.                                                    *)
(***************************************************************************)
EXTENDS NetInit, FiniteSets, TLC

Symmetry == Permutations(Nodes \ SelfNaming)

MCInit == /\ Init
          /\ \A s \in SelfNaming, n \in Nodes :
                IF s \in servers[s] THEN Cardinality(servers[s]) <= 2
                ELSE Cardinality(servers[s]) <= Cardinality(servers[n])

MCSpec == MCInit /\ [][Next]_vars
=============================================================================
