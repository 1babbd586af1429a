------------------------------- MODULE MCLegacy -------------------------------
(***************************************************************************)
(* A small instance of LegacyNginx: two goroutines, two Services that may  *)
(* share an address or not.                                                *)
(***************************************************************************)
EXTENDS LegacyNginx, TLC

CONSTANTS s1, s2, n1, c1, c2, http

OwnNamespaces == [s \in {s1, s2} |-> <<s>>]
OneName == [s \in {s1, s2} |-> <<"web">>]
TwoPools == {<<1>>, <<1, 2>>}

(* The ConfigMap is missing, or holds what an earlier version saved.       *)
SomeTables == {NoTable, s1 :> [ip |-> 1, ports |-> {http}] @@ s2 :> None}

(* No pair at first, so that two goroutines may both find none.            *)
SomeVRIDs == {Malformed}
=============================================================================
