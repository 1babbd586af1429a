---------------------------- MODULE AddressLease ----------------------------
(***************************************************************************)
(* What the operator promises about the pool, without caches, files,       *)
(* remote calls or restarts: an address is leased to one Service, a        *)
(* Service leases one address, traffic flows only between a Service and    *)
(* the address it leases, and an address is free again only when no        *)
(* traffic flows on it.                                                    *)
(***************************************************************************)
CONSTANTS
  Services,    \* Services that may ask for an address
  IPs,         \* addresses of the pool
  None         \* the lease of a free address

VARIABLES
  lease,       \* lease[i]: the Service address i is leased to
  serving      \* pairs <<s, i>>: Service s receives the traffic of address i

leaseVars == <<lease, serving>>

Leased == {<<lease[i], i>> : i \in {j \in IPs : lease[j] # None}}

Init ==
  /\ lease = [i \in IPs |-> None]
  /\ serving = {}

Take(s, i) ==
  /\ lease[i] = None
  /\ \A j \in IPs : lease[j] # s
  /\ lease' = [lease EXCEPT ![i] = s]
  /\ UNCHANGED serving

GiveUp(s, i) ==
  /\ lease[i] = s
  /\ <<s, i>> \notin serving
  /\ lease' = [lease EXCEPT ![i] = None]
  /\ UNCHANGED serving

(* A reload may start and stop several pairs at once.                      *)
Reload ==
  /\ serving' \in SUBSET Leased
  /\ UNCHANGED lease

Next == Reload \/ \E s \in Services, i \in IPs : Take(s, i) \/ GiveUp(s, i)

Spec == Init /\ [][Next]_leaseVars
=============================================================================
