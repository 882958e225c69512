-------------------------- MODULE MCChannelConfig --------------------------
(***************************************************************************)
(* Documents for TLC: three node ids, every policy over them (self-naming, *)
(* one-sided, naming nodes outside the task), with and without a missing   *)
(* node info, and the ways a node may be reached.  An id and the task's id *)
(* have a character that must not be in a servant's name.                  *)
(***************************************************************************)
EXTENDS ChannelConfig

MCChar == {"a", "b", ":", "_"}
MCIllegal == {":"}
n1 == <<"a">>
n2 == <<"b">>
n3 == <<"a", ":">>
MCIds == {n1, n2, n3}

MCPolicies == UNION {[k -> SUBSET MCIds] : k \in SUBSET MCIds}

Way(direct, glacier2, icegrid, hidden, ssl, scert, ccert) ==
  [direct |-> direct, glacier2 |-> glacier2, icegrid |-> icegrid, hidden |-> hidden,
   ssl |-> ssl, scert |-> scert, ccert |-> ccert]

MCWays == {Way(MCIds, {}, {}, {}, FALSE, {}, {}),
           Way(MCIds, {n1}, {}, {}, TRUE, MCIds \ {n2}, MCIds),
           Way({n1, n2}, {n3}, {n3}, {}, FALSE, {}, {}),
           Way({n2}, {n1, n3}, {n1, n3}, {n1}, TRUE, {n3}, {n1, n3}),
           Way({n2, n3}, {n1}, {}, {}, FALSE, {}, {}),
           Way({n2, n3}, {}, {n1}, {}, FALSE, {}, {})}

Doc(json, info, data, result, policy, w) ==
  [json |-> json, task |-> <<"b", ":">>, info |-> info, data |-> data, compute |-> {n2},
   result |-> result, policy |-> policy, direct |-> w.direct, glacier2 |-> w.glacier2,
   icegrid |-> w.icegrid, hidden |-> w.hidden, ssl |-> w.ssl, scert |-> w.scert,
   ccert |-> w.ccert]

MCDocs == {Doc(TRUE, i, d, r, p, w) : i \in {MCIds, {n1, n2}}, d \in {{n1}, {}},
                                      r \in {{}, {n2, n3}}, p \in MCPolicies, w \in MCWays}
          \cup {Doc(FALSE, MCIds, {}, {}, p, w) : p \in {[n \in {} |-> {}]}, w \in MCWays}

(* SSL_TYPE makes a difference only where there are certificates. *)
MCInit == /\ Init
          /\ doc.ssl \/ ssl_type = 1

MCSpec == MCInit /\ [][Next]_vars
=============================================================================
