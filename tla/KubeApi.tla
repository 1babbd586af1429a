------------------------------- MODULE KubeApi -------------------------------
(***************************************************************************)
(* The Kubernetes side of the operator, modelled from how the code uses    *)
(* it.  mgr.GetClient() (main.go) writes to the API server and reads from  *)
(* informer caches, so each object has three faces: the object stored in   *)
(* the API server, the copy the informer holds, and the watch events still *)
(* on their way from one to the other.  Events arrive one by one, in       *)
(* order; nothing bounds their delay but SvcLag and AllocLag, the number   *)
(* of versions a cached read may be behind.                                *)
(*                                                                         *)
(* Only the objects whose content matters are here: Services, the          *)
(* ConfigMap ip-allocations, and the informers' copies of the Endpoints    *)
(* and of the ConfigMap ip-pool-config.                                    *)
(***************************************************************************)
EXTENDS LbTypes

CONSTANTS
  SvcLag,      \* bound: versions a cached Service read may be behind
  AllocLag,    \* bound: versions a cached read of ip-allocations may be behind
  Events,      \* what happens around the operator: a subset of EventNames
  MaxEvents    \* bound: how many times it happens

EventNames ==
  {"create", "delete", "retype", "ports", "edit", "endpoints", "pool", "resync"}

ASSUME LagAssumption == SvcLag \in Nat /\ AllocLag \in Nat
ASSUME EventAssumption == Events \subseteq EventNames /\ MaxEvents \in Nat

VARIABLES
  svc,         \* svc[s]: the Service stored in the API server
  seen,        \* seen[s]: the informer's copy of it
  feed,        \* feed[s]: its versions the informer has not delivered yet
  alloc,       \* ConfigMap ip-allocations in the API server: address -> Service
  allocSeen,   \* the informer's copy of it
  allocFeed,   \* its versions the informer has not delivered yet
  endpoints,   \* informer's copy of Endpoints: nodes with a ready pod of s
  pool,        \* informer's copy of ip_pool, parsed
  queue,       \* keys in the controller's workqueue
  events       \* events so far

svcVars == <<svc, seen, feed>>
allocVars == <<alloc, allocSeen, allocFeed>>
inputs == <<endpoints, pool>>
kubeVars == <<svcVars, allocVars, inputs, queue, events>>

(* A version of a Service: type LoadBalancer or not, deletionTimestamp set *)
(* or not, the operator's finalizer present or not, node ports assigned or *)
(* not (allocateLoadBalancerNodePorts), and the address in                 *)
(* status.loadBalancer.                                                    *)
Version == [exists : BOOLEAN, lb : BOOLEAN, del : BOOLEAN, fin : BOOLEAN,
            port : BOOLEAN, ip : IPs \cup {None}]

Absent == [exists |-> FALSE, lb |-> FALSE, del |-> FALSE, fin |-> FALSE,
           port |-> FALSE, ip |-> None]
Created == [exists |-> TRUE, lb |-> TRUE, del |-> FALSE, fin |-> FALSE,
            port |-> TRUE, ip |-> None]

(* An absent ConfigMap reads as the empty map and SaveAllocatedIPs creates *)
(* it when Update finds none, so the two states are one here.              *)
Allocations == [IPs -> Services \cup {None}]

KubeTypeOK ==
  /\ svc \in [Services -> Version]
  /\ seen \in [Services -> Version]
  /\ feed \in [Services -> Seq(Version)]
  /\ alloc \in Allocations
  /\ allocSeen \in Allocations
  /\ allocFeed \in Seq(Allocations)
  /\ endpoints \in [Services -> SUBSET Nodes]
  /\ pool \in Pools
  /\ queue \subseteq Services
  /\ events \in 0 .. MaxEvents

(* The operator may find Services that were there before it started.       *)
KubeInit ==
  /\ svc \in [Services -> {Absent, Created}]
  /\ seen = svc
  /\ feed = [s \in Services |-> <<>>]
  /\ alloc = [i \in IPs |-> None]
  /\ allocSeen = alloc
  /\ allocFeed = <<>>
  /\ endpoints = [s \in Services |-> Nodes]
  /\ pool \in Pools
  /\ queue = {s \in Services : svc[s].exists}
  /\ events = 0

-----------------------------------------------------------------------------
(* Reads and writes of the operator's client.                              *)

ServiceReadable(s) == Len(feed[s]) <= SvcLag
AllocReadable == Len(allocFeed) <= AllocLag

(* The informer's copy carries the resourceVersion the API server has, so  *)
(* an Update made from it is not refused as a conflict.                    *)
CopyIsCurrent(s) == feed[s] = <<>>

(* A write that changes nothing leaves the resourceVersion alone and sends *)
(* no event.                                                               *)
StoreService(s, v) ==
  /\ svc' = [svc EXCEPT ![s] = v]
  /\ feed' = [feed EXCEPT ![s] = IF v = svc[s] THEN @ ELSE Append(@, v)]
  /\ UNCHANGED seen

(* SaveAllocatedIPs sends no resourceVersion: the Update is unconditional  *)
(* and replaces whatever map is stored.                                    *)
StoreAllocations(m) ==
  /\ alloc' = m
  /\ allocFeed' = IF m = alloc THEN allocFeed ELSE Append(allocFeed, m)
  /\ UNCHANGED allocSeen

-----------------------------------------------------------------------------
(* Informers.                                                              *)

(* For(&corev1.Service{}) has no predicate: every event of a Service       *)
(* enqueues its key.                                                       *)
DeliverService(s) ==
  /\ feed[s] # <<>>
  /\ seen' = [seen EXCEPT ![s] = Head(feed[s])]
  /\ feed' = [feed EXCEPT ![s] = Tail(@)]
  /\ queue' = queue \cup {s}
  /\ UNCHANGED <<svc, allocVars, inputs, events>>

(* Nothing watches the ConfigMap: no key is enqueued.                      *)
DeliverAllocations ==
  /\ allocFeed # <<>>
  /\ allocSeen' = Head(allocFeed)
  /\ allocFeed' = Tail(allocFeed)
  /\ UNCHANGED <<alloc, svcVars, inputs, queue, events>>

(* A restarted process lists every object afresh, and the list enqueues    *)
(* every Service that exists.                                              *)
Relist ==
  /\ seen' = svc
  /\ feed' = [s \in Services |-> <<>>]
  /\ allocSeen' = alloc
  /\ allocFeed' = <<>>
  /\ queue' = {s \in Services : svc[s].exists}
  /\ UNCHANGED <<svc, alloc, inputs, events>>

-----------------------------------------------------------------------------
(* Users, the pods behind the Services, and the resync timer.              *)

Event(e) ==
  /\ e \in Events
  /\ events < MaxEvents
  /\ events' = events + 1

UserWrites(e, s, v) ==
  /\ Event(e)
  /\ Len(feed[s]) <= SvcLag
  /\ StoreService(s, v)
  /\ UNCHANGED <<allocVars, inputs, queue>>

CreateService(s) ==
  /\ ~svc[s].exists
  /\ UserWrites("create", s, Created)

(* An object with a finalizer stays, with its deletionTimestamp set.       *)
DeleteService(s) ==
  /\ svc[s].exists /\ ~svc[s].del
  /\ UserWrites("delete", s, IF svc[s].fin THEN [svc[s] EXCEPT !.del = TRUE] ELSE Absent)

RetypeService(s) ==
  /\ svc[s].exists
  /\ UserWrites("retype", s, [svc[s] EXCEPT !.lb = ~@])

(* spec.allocateLoadBalancerNodePorts turned on or off, the ports with it. *)
ChangePorts(s) ==
  /\ svc[s].exists
  /\ UserWrites("ports", s, [svc[s] EXCEPT !.port = ~@])

(* Any other edit of the object: all that matters is its resourceVersion.  *)
EditService(s) ==
  /\ svc[s].exists
  /\ Event("edit")
  /\ Len(feed[s]) <= SvcLag
  /\ feed' = [feed EXCEPT ![s] = Append(@, svc[s])]
  /\ UNCHANGED <<svc, seen, allocVars, inputs, queue>>

(* Variant: only Services that still wait for their address.               *)
IsUnserved(s) == seen[s].exists /\ seen[s].lb /\ seen[s].ip = None

(* isLoadBalancerService, the predicate on Endpoints events, looks at the  *)
(* informer's copy of the Service.                                         *)
IsLoadBalancerService(s) == seen[s].exists /\ seen[s].lb

(* The Endpoints informer delivers a change.                               *)
ChangeEndpoints(s) ==
  /\ svc[s].exists
  /\ Event("endpoints")
  /\ \E e \in SUBSET Nodes \ {endpoints[s]} : endpoints' = [endpoints EXCEPT ![s] = e]
  /\ queue' = IF IsLoadBalancerService(s) THEN queue \cup {s} ELSE queue
  /\ UNCHANGED <<svcVars, allocVars, pool>>

(* The informer's periodic resync replays a cached Service.                *)
Resync(s) ==
  /\ seen[s].exists
  /\ Event("resync")
  /\ queue' = queue \cup {s}
  /\ UNCHANGED <<svcVars, allocVars, inputs>>

(* An administrator edits ip_pool.  Nothing watches it.  A pool LoadIPPool *)
(* refuses fails AllocateIP as an empty one does.                          *)
ChangePool ==
  /\ Event("pool")
  /\ \E p \in Pools \ {pool} : pool' = p
  /\ UNCHANGED <<svcVars, allocVars, endpoints, queue>>

EventOf(s) ==
  \/ CreateService(s) \/ DeleteService(s) \/ RetypeService(s) \/ ChangePorts(s)
  \/ EditService(s) \/ ChangeEndpoints(s) \/ Resync(s)
=============================================================================
