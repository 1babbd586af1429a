---------------------------- MODULE MCReconciler ----------------------------
(***************************************************************************)
(* Small instances of ServiceReconciler: two Services, two addresses.      *)
(***************************************************************************)
EXTENDS ReconcilerProperties, TLC

CONSTANTS s1, s2, n1, n2

OneAddress == {<<1>>}
TwoAddresses == {<<1, 2>>}

(* One address for two Services, or none.                                  *)
ScarcePool == {<<>>, <<1>>}

(* Services whose files differ: a namespace for each.                      *)
OwnNamespaces == [s \in {s1, s2} |-> <<s>>]
OneName == [s \in {s1, s2} |-> <<"web">>]

(* Two Services whose files have one name: team-a/web and team/a-web.      *)
TeamNamespaces == s1 :> <<"team", "a">> @@ s2 :> <<"team">>
TeamNames == s1 :> <<"web">> @@ s2 :> <<"a", "web">>

Symmetry == Permutations({s1, s2})
=============================================================================
