----------------------------- MODULE MCMulticast -----------------------------
(***************************************************************************)
(* IGMP and IPv6 for TLC.  focus says which part runs: the parts share no  *)
(* state, so each is explored on its own.  In "mld" clients have no        *)
(* gateway; in "nd" they have no address, and management and queries rest. *)
(***************************************************************************)
EXTENDS Igmp, Ipv6

CONSTANTS g1, g2, g3, s1, s2, c1, c2, a1, a2, d1, d2, Focus
VARIABLE focus

\* the second client's MAC and the first address share a solicited-node group
SolGroups == [x \in {c1, c2, a1, a2} |-> CASE x = c1 -> "x" [] x \in {c2, a1} -> "y" [] x = a2 -> "z"]

Symmetric == Permutations(IgGroups) \cup Permutations(Dgs6)

MCInit == focus \in Focus /\ IgInit /\ Init6 /\ (focus # "igmp" => ~ig.des)

MCNext ==
    /\ UNCHANGED focus
    /\ \/ focus = "igmp" /\ IgNext /\ UNCHANGED vars6
       \/ focus = "mld" /\ (MldStep \/ ClientStep \/ CacheTimer6)
          /\ (\A c \in Clients6 : c6'[c].dg = None6) /\ UNCHANGED igVars
       \/ focus = "nd" /\ (NdStep \/ ClientStep \/ CacheTimer6)
          /\ (\A c \in Clients6 : {c6'[c].ip, c6'[c].dip} = {None6}) /\ UNCHANGED igVars

MCSpec == MCInit /\ [][MCNext]_<<focus, igVars, vars6>>
=============================================================================
