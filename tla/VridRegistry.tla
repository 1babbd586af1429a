---------------------------- MODULE VridRegistry ----------------------------
(***************************************************************************)
(* What the operators promise each other about router identifiers, without *)
(* files, tees, pods or restarts: a registry of clusters gives each a pair *)
(* nobody else has, never takes it back, and a cluster publishes what the  *)
(* registry holds for it and nothing before.                               *)
(***************************************************************************)
CONSTANTS
  Clusters,
  Pairs,         \* pairs of identifiers
  None,          \* no entry
  NoData,        \* what a cluster that cannot publish shows
  InitialFiles,  \* entries from before the first start
  InitialMaps    \* what the clusters show before it

VARIABLES
  registry,      \* registry[c]: the entry of cluster c
  published      \* published[c]: what cluster c shows

registryVars == <<registry, published>>

Init ==
  /\ registry \in InitialFiles
  /\ published \in InitialMaps

Free(c, new) ==
  \A d \in Clusters \ {c} : registry[d] \in Pairs =>
    {new[1], new[2]} \cap {registry[d][1], registry[d][2]} = {}

Reserve(c) ==
  /\ registry[c] = None
  /\ \E new \in Pairs :
       /\ Free(c, new)
       /\ registry' = [registry EXCEPT ![c] = new]
  /\ UNCHANGED published

Show(c) ==
  /\ registry[c] # None
  /\ published[c] # NoData
  /\ published' = [published EXCEPT ![c] = registry[c]]
  /\ UNCHANGED registry

Next == \E c \in Clusters : Reserve(c) \/ Show(c)

Spec == Init /\ [][Next]_registryVars
=============================================================================
