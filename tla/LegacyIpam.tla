------------------------------ MODULE LegacyIpam ------------------------------
(***************************************************************************)
(* pkg/ipam, the allocator of an earlier version of the operator: it hands *)
(* out an address together with ports, so that Services with different     *)
(* ports may share one, keeps its tables in memory behind allocationMutex  *)
(* and saves them in the ConfigMap ip-allocations.  Nothing in the         *)
(* repository but pkg/nginx calls it; any number of goroutines may call    *)
(* its functions here, in any order.                                       *)
(***************************************************************************)
EXTENDS LbTypes

CONSTANTS
  Callers,        \* goroutines
  Ports,          \* ports of Services
  StoredAtStart,  \* what ip-allocations may hold before the first start
  MaxDeaths       \* bound: deaths of the process

(* An Allocation, under its key namespace/service.                         *)
Allocation == [ip : IPs, ports : SUBSET Ports]
Tables == [Services -> Allocation \cup {None}]

(* A call.  A release needs no ports.                                       *)
Requests == [op : {"allocate", "release"}, svc : Services, ports : SUBSET Ports]

ASSUME TableAssumption ==
  StoredAtStart \subseteq Tables /\ None \notin Allocation \cup Callers \cup Requests
ASSUME DeathAssumption == MaxDeaths \in Nat

VARIABLES
  up,           \* Init has returned
  pool,         \* ipPool, read by Init and never again
  allocations,  \* allocations
  usage,        \* ipPortUsage: the key that uses a port of an address
  given,        \* what AllocateIPAndPorts has returned since the start
  stored,       \* the ConfigMap
  mutex,        \* the caller that holds allocationMutex
  pc,           \* pc[c]: "out", "lock", "body" or "save"
  request,      \* request[c]: what c called
  deaths        \* deaths so far

tables == <<allocations, usage>>
ipamVars == <<up, pool, tables, given, stored, mutex, pc, request, deaths>>

(* Type invariant.                                                         *)
IpamTypeOK ==
  /\ up \in BOOLEAN
  /\ pool \in Pools
  /\ allocations \in Tables /\ stored \in Tables
  /\ usage \in [IPs -> [Ports -> Services \cup {None}]]
  /\ given \subseteq Services \X Allocation
  /\ mutex \in Callers \cup {None}
  /\ pc \in [Callers -> {"out", "lock", "body", "save"}]
  /\ request \in [Callers -> Requests \cup {None}]
  /\ deaths \in 0 .. MaxDeaths

Uses(table, s, i, q) == table[s] # None /\ table[s].ip = i /\ q \in table[s].ports

(* loadAllocations: no version stores a table that gives a port of an      *)
(* address twice; CHOOSE stands for the entry such a list would have last. *)
UsageOf(table) ==
  [i \in IPs |-> [q \in Ports |->
     IF \E s \in Services : Uses(table, s, i, q)
     THEN CHOOSE s \in Services : Uses(table, s, i, q)
     ELSE None]]

NoTable == [s \in Services |-> None]

IpamInit ==
  /\ up = FALSE
  /\ pool \in Pools
  /\ allocations = NoTable /\ usage = UsageOf(NoTable)
  /\ given = {}
  /\ stored \in StoredAtStart
  /\ mutex = None
  /\ pc = [c \in Callers |-> "out"]
  /\ request = [c \in Callers |-> None]
  /\ deaths = 0

(* Init and loadAllocations.  When it fails the process does not come up.  *)
Start ==
  /\ ~up /\ up' = TRUE
  /\ pool' \in Pools
  /\ allocations' = stored
  /\ usage' = UsageOf(stored)
  /\ UNCHANGED <<given, stored, mutex, pc, request, deaths>>

Call(c) ==
  /\ up /\ pc[c] = "out"
  /\ \E r \in Requests :
       /\ r.op = "release" => r.ports = {}
       /\ request' = [request EXCEPT ![c] = r]
  /\ pc' = [pc EXCEPT ![c] = "lock"]
  /\ UNCHANGED <<up, pool, tables, given, stored, mutex, deaths>>

(* Variant: a caller may lock what it has locked.                          *)
Reentrant(c) == mutex \in {None, c}

(* sync.Mutex is not reentrant.                                            *)
Free(c) == mutex = None

(* The functions return to their caller, with what AllocateIPAndPorts has. *)
Returned(c) ==
  IF request[c].op = "allocate" THEN {<<request[c].svc, allocations[request[c].svc]>>} ELSE {}

(* Variant: the mutex is not unlocked.                                     *)
ReturnLocked(c) ==
  /\ UNCHANGED mutex
  /\ pc' = [pc EXCEPT ![c] = "out"]
  /\ request' = [request EXCEPT ![c] = None]

Return(c) ==
  /\ mutex' = None
  /\ pc' = [pc EXCEPT ![c] = "out"]
  /\ request' = [request EXCEPT ![c] = None]

(* Lock, by one of the functions or by saveAllocations.  The latter writes *)
(* the whole table, or fails to, unlocks and returns through its caller.   *)
Lock(c) ==
  /\ pc[c] \in {"lock", "save"}
  /\ Free(c)
  /\ IF pc[c] = "lock"
     THEN mutex' = c /\ pc' = [pc EXCEPT ![c] = "body"] /\ UNCHANGED <<given, stored, request>>
     ELSE /\ Return(c)
          /\ \/ stored' = allocations /\ given' = given \cup Returned(c)
             \/ stored' \in {stored, allocations} /\ UNCHANGED given
  /\ UNCHANGED <<up, pool, tables, deaths>>

-----------------------------------------------------------------------------
Body(c, op) ==
  /\ pc[c] = "body" /\ request[c].op = op
  /\ UNCHANGED <<up, pool, stored, deaths>>

(* saveAllocations, called with the mutex held.                            *)
Save(c) == pc' = [pc EXCEPT ![c] = "save"] /\ UNCHANGED <<given, mutex, request>>

Fits(i, ports) == \A q \in ports : usage[i][q] = None

(* AllocateIPAndPorts: the key has an allocation, whatever ports it asks   *)
(* for now.                                                                *)
AllocateKnown(c) ==
  /\ Body(c, "allocate")
  /\ allocations[request[c].svc] # None
  /\ given' = given \cup Returned(c)
  /\ Return(c) /\ UNCHANGED tables

(* Variant: the caller gets what the table has, and no error.              *)
AllocateNil(c) ==
  /\ Body(c, "allocate")
  /\ allocations[request[c].svc] = None
  /\ \A k \in DOMAIN pool : ~Fits(pool[k], request[c].ports)
  /\ given' = given \cup Returned(c)
  /\ Return(c) /\ UNCHANGED tables

(* No address of the pool has all the ports free.                          *)
AllocateNothing(c) ==
  /\ Body(c, "allocate")
  /\ allocations[request[c].svc] = None
  /\ \A k \in DOMAIN pool : ~Fits(pool[k], request[c].ports)
  /\ Return(c) /\ UNCHANGED <<tables, given>>

AllocateFirst(c) ==
  /\ Body(c, "allocate")
  /\ LET s == request[c].svc
         ports == request[c].ports
     IN  /\ allocations[s] = None
         /\ \E k \in DOMAIN pool :
              /\ Fits(pool[k], ports)
              /\ \A j \in 1 .. k - 1 : ~Fits(pool[j], ports)
              /\ allocations' = [allocations EXCEPT ![s] = [ip |-> pool[k], ports |-> ports]]
              /\ usage' = [usage EXCEPT ![pool[k]] =
                             [q \in Ports |-> IF q \in ports THEN s ELSE @[q]]]
  /\ Save(c)

ReleaseUnknown(c) ==
  /\ Body(c, "release")
  /\ allocations[request[c].svc] = None
  /\ Return(c) /\ UNCHANGED <<tables, given>>

(* Variant: the ports stay in use.                                         *)
ReleaseKeepsPorts(c) ==
  /\ Body(c, "release")
  /\ allocations[request[c].svc] # None
  /\ allocations' = [allocations EXCEPT ![request[c].svc] = None]
  /\ UNCHANGED usage
  /\ Save(c)

ReleaseKnown(c) ==
  /\ Body(c, "release")
  /\ LET s == request[c].svc
         a == allocations[s]
     IN  /\ a # None
         /\ usage' = [usage EXCEPT ![a.ip] =
                        [q \in Ports |-> IF q \in a.ports THEN None ELSE @[q]]]
         /\ allocations' = [allocations EXCEPT ![s] = None]
  /\ Save(c)

(* What GetAllocatedIPs returns.                                           *)
AllocatedIPs == {i \in IPs : \E s \in Services : allocations[s] # None /\ allocations[s].ip = i}

(* The process dies, with its tables, its mutex and its callers.           *)
Die ==
  /\ up /\ up' = FALSE
  /\ deaths < MaxDeaths /\ deaths' = deaths + 1
  /\ allocations' = NoTable /\ usage' = UsageOf(NoTable)
  /\ given' = {}
  /\ mutex' = None
  /\ pc' = [c \in Callers |-> "out"]
  /\ request' = [c \in Callers |-> None]
  /\ UNCHANGED <<pool, stored>>

Allocate(c) == AllocateKnown(c) \/ AllocateNothing(c) \/ AllocateFirst(c)
Release(c) == ReleaseUnknown(c) \/ ReleaseKnown(c)
=============================================================================
