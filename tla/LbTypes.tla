------------------------------- MODULE LbTypes -------------------------------
(***************************************************************************)
(* The values the operator handles, shared by every module below: the      *)
(* Services it reconciles, the addresses of the pool, the cluster nodes    *)
(* behind the Services, and the file a Service owns on the NGINX host.     *)
(***************************************************************************)
EXTENDS Naturals, Sequences

CONSTANTS
  Services,    \* Services the API server may hold
  IPs,         \* addresses, numbered in the order sort.Strings gives their text
  Nodes,       \* cluster nodes whose address NGINX proxies to
  Pools,       \* what ip_pool may say: sequences of addresses
  Namespace,   \* Namespace[s]: the '-'-separated pieces of s's namespace
  Name,        \* Name[s]: the '-'-separated pieces of s's name
  None         \* no Service / no address / no file

ASSUME AddressAssumption == IPs \subseteq Nat
ASSUME PoolAssumption == Pools \subseteq Seq(IPs)

(* The format vip-%s-%s-%s.conf joins cluster, namespace and name with the *)
(* character that all three may contain, so the boundary between namespace *)
(* and name is lost: what is left is the sequence of pieces.  The cluster  *)
(* is the same for all the files of one operator and is left out.          *)
PathOf(s) == Namespace[s] \o Name[s]

Paths == {PathOf(s) : s \in Services}

(* A rendered nginx.conf.tmpl: who it is for, its listen address, the node *)
(* addresses of its upstream, and whether they have a port (NodePort is 0  *)
(* for a Service without node ports).  Which port it is, and the listen    *)
(* port, say nothing the properties tell apart.                            *)
Conf == [svc : Services, ip : IPs, nodes : SUBSET Nodes, port : BOOLEAN]

ASSUME NoneAssumption == None \notin Services \cup IPs /\ None \notin Conf
=============================================================================
