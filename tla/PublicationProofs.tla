-------------------------- MODULE PublicationProofs --------------------------
(***************************************************************************)
(* Proof that reconcileService publishes an address only once nginx runs   *)
(* with it, for any number of Services and addresses, any names (files may *)
(* collide), any lag, and any number of faults, crashes and events.        *)
(***************************************************************************)
EXTENDS ReconcilerProofs

(* f holds the configuration of s for address i.                           *)
HasConf(f, s, i) ==
  /\ f[PathOf(s)] # None
  /\ f[PathOf(s)].svc = s
  /\ f[PathOf(s)].ip = i

(* What the worker has done before it reloads, and before it publishes.    *)
(* The file stays until then: a reload by a neighbour runs the same one.   *)
Configured ==
  /\ pc \in {"nginxreload", "status"} => HasConf(nginxFile, cur, ip)
  /\ pc = "status" => HasConf(nginxRun, cur, ip)

PublishInv == TypeInv /\ Configured

(* Nothing but a new address, and no address at all, changes the status.   *)
AddressesKept == \A s \in Services : svc'[s].ip \in {None, svc[s].ip}

-----------------------------------------------------------------------------
(* Configured is inductive.                                                *)

LEMMA WriteConfigures ==
  ASSUME TypeInv, WriteConfig
  PROVE  Configured'
<1>1. /\ pc = "nginxwrite" /\ cur \in Services /\ ip \in IPs /\ nodes \subseteq Nodes
      /\ port \in BOOLEAN /\ PathOf(cur) \in Paths
  BY DEF WriteConfig, At, TypeInv, TypeOK, WorkerTypeOK, JobOK, ReconcileSteps, Paths
<1> DEFINE c == Rendered
<1>2. c # None /\ c.svc = cur /\ c.ip = ip
  <2>1. c \in Conf
    BY <1>1 DEF Conf, Rendered
  <2> QED
    BY <2>1, NoneAssumption DEF Rendered
<1> HIDE DEF c
<1>3. PICK o \in Outcomes : WriteNginxFile(o, PathOf(cur), c) /\ Then(o, "nginxreload")
  BY DEF WriteConfig, c
<1>4. CASE o = "ok" /\ Goto("nginxreload")
  <2>1. nginxFile' = [nginxFile EXCEPT ![PathOf(cur)] = c]
    BY <1>3, <1>4 DEF WriteNginxFile, Result
  <2>2. pc' = "nginxreload" /\ cur' = cur /\ ip' = ip
    BY <1>4 DEF Goto, regs
  <2>3. nginxFile'[PathOf(cur)] = c
    BY <1>1, <2>1 DEF TypeInv, TypeOK, HostTypeOK
  <2> QED
    BY <1>2, <2>2, <2>3 DEF Configured, HasConf, PathOf
<1>5. CASE Return({cur})
  BY <1>5 DEF Return, Idle, Configured
<1> QED
  BY <1>3, <1>4, <1>5 DEF Then

LEMMA ReloadRuns ==
  ASSUME PublishInv, ReloadConfig
  PROVE  Configured'
<1>1. pc = "nginxreload" /\ HasConf(nginxFile, cur, ip)
  BY DEF ReloadConfig, At, PublishInv, Configured
<1>2. Fail \/ \E o \in Outcomes : ReloadNGINX(o) /\ Then(o, "status")
  BY DEF ReloadConfig
<1>3. ASSUME NEW o, ReloadNGINX(o), o = "ok", Goto("status")
      PROVE  Configured'
  BY <1>1, <1>3 DEF ReloadNGINX, Result, Goto, regs, Configured, HasConf, PathOf
<1>4. CASE Return({cur})
  BY <1>4 DEF Return, Idle, Configured
<1> QED
  BY <1>2, <1>3, <1>4 DEF Then, Fail

(* Every other step of the worker goes somewhere else.                     *)
LEMMA OtherStepsLeave ==
  ASSUME Worker, ~WriteConfig, ~ReloadConfig
  PROVE  pc' \notin {"nginxreload", "status"}
<1> USE DEF At, Then, Goto, Return, Idle, Succeed, Fail
<1>1. CASE SkipService \/ AddFinalizer \/ StartReconcile \/ StartFinalize
  BY <1>1 DEF SkipService, AddFinalizer, StartReconcile, StartFinalize
<1>2. CASE LookupIP \/ FetchIP \/ ReleaseIP
  BY <1>2 DEF LookupIP, FetchIP, ReleaseIP
<1>3. CASE AllocateIP
  BY <1>3 DEF AllocateIP
<1>4. CASE GetVRIDs \/ LoadVIPs \/ Restart
  BY <1>4 DEF GetVRIDs, LoadVIPs, Restart
<1>7. CASE OpenPrimary \/ WritePrimary \/ OpenSecondary \/ WriteSecondary
  BY <1>7 DEF OpenPrimary, WritePrimary, OpenSecondary, WriteSecondary
<1>5. CASE GetNodes \/ OpenConfig \/ PublishStatus
  BY <1>5 DEF GetNodes, OpenConfig, PublishStatus
<1>6. CASE RemoveConfig \/ ReloadAfterRemove \/ RemoveFinalizer
  BY <1>6 DEF RemoveConfig, ReloadAfterRemove, RemoveFinalizer
<1> QED
  BY <1>1, <1>2, <1>3, <1>4, <1>5, <1>6, <1>7 DEF Worker

LEMMA ConfiguredStep ==
  ASSUME PublishInv, [Next]_vars
  PROVE  Configured'
<1>1. CASE Worker
  <2>1. CASE WriteConfig
    BY <2>1, WriteConfigures DEF PublishInv
  <2>2. CASE ReloadConfig
    BY <2>2, ReloadRuns
  <2>3. CASE ~WriteConfig /\ ~ReloadConfig
    BY <1>1, <2>3, OtherStepsLeave DEF Configured
  <2> QED
    BY <2>1, <2>2, <2>3
<1>2. CASE Crash \/ \E s \in Services : Dequeue(s)
  BY <1>2 DEF Crash, Idle, Dequeue, Configured
<1>3. CASE \/ DeliverMap \/ PoolChanges \/ StartupPublishesVRIDs \/ UNCHANGED vars
           \/ \E s \in Services : EventHappens(s) \/ InformerDelivers(s)
  <2>1. UNCHANGED <<nginxFile, nginxRun, pc, cur, ip>>
    BY <1>3 DEF DeliverMap, PoolChanges, StartupPublishesVRIDs, EventHappens, InformerDelivers,
       vars, hostVars, regs
  <2> QED
    BY <2>1 DEF PublishInv, Configured, HasConf, PathOf
<1>4. CASE NeighbourActs
  \* A reload of the neighbour runs the file that the worker would load.
  <2>1. /\ UNCHANGED <<nginxFile, pc, cur, ip>>
        /\ nginxRun' \in {nginxRun, nginxFile}
    BY <1>4 DEF NeighbourActs, NeighbourReloads, NeighbourRestarts, ReloadNGINX,
       RestartKeepalived, Result, regs
  <2> QED
    BY <2>1 DEF PublishInv, Configured, HasConf, PathOf
<1> QED
  BY <1>1, <1>2, <1>3, <1>4 DEF Next

LEMMA PublishInvInvariant == Spec => []PublishInv
<1>1. Init => PublishInv
  BY TypeInit DEF Init, PublishInv, Configured
<1>2. PublishInv /\ [Next]_vars => PublishInv'
  BY TypeStep, ConfiguredStep DEF PublishInv
<1> QED
  BY <1>1, <1>2, PTL DEF Spec

-----------------------------------------------------------------------------
(* Only PublishStatus shows an address.                                    *)

LEMMA StoredAddress ==
  ASSUME KubeTypeOK, NEW s \in Services, NEW v, StoreService(s, v),
         v.ip \in {None, svc[s].ip}
  PROVE  AddressesKept
  BY DEF KubeTypeOK, StoreService, AddressesKept

(* What the other writes of the worker store.                              *)
LEMMA WorkerKeepsAddresses ==
  ASSUME TypeInv, Worker, ~PublishStatus
  PROVE  AddressesKept
<1> USE DEF TypeInv, TypeOK, WorkerTypeOK
<1>1. CASE AddFinalizer
  <2>1. cur \in Services /\ svc[cur] \in Version
    BY <1>1 DEF AddFinalizer, Getting, At, KubeTypeOK
  <2>2. \/ UNCHANGED svcVars
        \/ \E o : StoreService(cur, Result(o, svc[cur], [svc[cur] EXCEPT !.fin = TRUE]))
    BY <1>1 DEF AddFinalizer
  <2>3. \A o : Result(o, svc[cur], [svc[cur] EXCEPT !.fin = TRUE]).ip = svc[cur].ip
    BY <2>1 DEF Result, Version
  <2> QED
    BY <2>1, <2>2, <2>3, StoredAddress DEF svcVars, AddressesKept
<1>2. CASE RemoveFinalizer
  <2>1. cur \in Services
    BY <1>2 DEF RemoveFinalizer, At
  <2>2. \/ UNCHANGED svcVars
        \/ \E o : StoreService(cur, Result(o, svc[cur], Absent))
    BY <1>2 DEF RemoveFinalizer
  <2>3. \A o : Result(o, svc[cur], Absent).ip \in {None, svc[cur].ip}
    BY DEF Result, Absent
  <2> QED
    BY <2>1, <2>2, <2>3, StoredAddress DEF svcVars, AddressesKept
<1>3. CASE ~AddFinalizer /\ ~RemoveFinalizer
  <2>1. UNCHANGED svcVars
    BY <1>3 DEF Worker, SkipService, StartReconcile, StartFinalize, LookupIP, AllocateIP,
       FetchIP, ReleaseIP, GetVRIDs, LoadVIPs, OpenPrimary, WritePrimary, OpenSecondary,
       WriteSecondary, Restart, GetNodes, OpenConfig, WriteConfig, ReloadConfig, RemoveConfig,
       ReloadAfterRemove, ReadingAllocations
  <2> QED
    BY <2>1 DEF svcVars, AddressesKept
<1> QED
  BY <1>1, <1>2, <1>3

(* Users never write a status.                                             *)
LEMMA UsersKeepAddresses ==
  ASSUME TypeInv, NEW s \in Services, EventOf(s)
  PROVE  AddressesKept
<1>1. KubeTypeOK /\ svc[s] \in Version
  BY DEF TypeInv, TypeOK, KubeTypeOK
<1>2. CASE CreateService(s)
  BY <1>1, <1>2, StoredAddress DEF CreateService, UserWrites, Created
<1>3. CASE DeleteService(s)
  <2> DEFINE v == IF svc[s].fin THEN [svc[s] EXCEPT !.del = TRUE] ELSE Absent
  <2>1. v.ip \in {None, svc[s].ip}
    BY <1>1 DEF Version, Absent
  <2>2. StoreService(s, v)
    BY <1>3 DEF DeleteService, UserWrites
  <2> QED
    BY <1>1, <2>1, <2>2, StoredAddress
<1>4. CASE RetypeService(s)
  <2>1. StoreService(s, [svc[s] EXCEPT !.lb = ~@])
    BY <1>4 DEF RetypeService, UserWrites
  <2>2. [svc[s] EXCEPT !.lb = ~@].ip = svc[s].ip
    BY <1>1 DEF Version
  <2> QED
    BY <1>1, <2>1, <2>2, StoredAddress
<1>6. CASE ChangePorts(s)
  <2>1. StoreService(s, [svc[s] EXCEPT !.port = ~@])
    BY <1>6 DEF ChangePorts, UserWrites
  <2>2. [svc[s] EXCEPT !.port = ~@].ip = svc[s].ip
    BY <1>1 DEF Version
  <2> QED
    BY <1>1, <2>1, <2>2, StoredAddress
<1>5. CASE EditService(s) \/ ChangeEndpoints(s) \/ Resync(s)
  BY <1>5 DEF EditService, ChangeEndpoints, Resync, svcVars, AddressesKept
<1> QED
  BY <1>2, <1>3, <1>4, <1>5, <1>6 DEF EventOf

(* A shown address is the one the worker configured nginx for.             *)
LEMMA PublishedIsConfigured ==
  ASSUME PublishInv, PublishStatus, NEW s \in Services,
         svc'[s].ip \notin {None, svc[s].ip}
  PROVE  HasConf(nginxRun, s, svc'[s].ip)
<1>1. pc = "status" /\ HasConf(nginxRun, cur, ip) /\ cur \in Services /\ KubeTypeOK
  BY DEF PublishStatus, At, PublishInv, Configured, TypeInv, TypeOK, WorkerTypeOK
<1>2. svc[cur] \in Version
  BY <1>1 DEF KubeTypeOK
<1>3. PICK o : svc' = [svc EXCEPT ![cur] = Result(o, svc[cur], [svc[cur] EXCEPT !.ip = ip])]
  BY DEF PublishStatus, StoreService, svcVars
<1>4. s = cur
  BY <1>1, <1>3 DEF KubeTypeOK
<1>5. svc'[cur].ip \in {svc[cur].ip, ip}
  BY <1>1, <1>2, <1>3 DEF KubeTypeOK, Result, Version
<1> QED
  BY <1>1, <1>4, <1>5

(* PublishAfterReload: the status of a Service shows a new address only    *)
(* when nginx already runs with the configuration of that Service for that *)
(* address (reconcileService, whose status update is its last call).       *)
THEOREM PublishesAfterReload == Spec => PublishAfterReload
<1> DEFINE ShowsNew == \A s \in Services :
             svc'[s].ip \notin {None, svc[s].ip} => HasConf(nginxRun, s, svc'[s].ip)
<1>1. PublishInv /\ [Next]_vars => [ShowsNew]_vars
  <2> SUFFICES ASSUME PublishInv, Next PROVE ShowsNew
    OBVIOUS
  <2>1. CASE PublishStatus
    BY <2>1, PublishedIsConfigured
  <2>2. CASE Worker /\ ~PublishStatus
    BY <2>2, WorkerKeepsAddresses DEF PublishInv, AddressesKept
  <2>3. CASE \E s \in Services : EventHappens(s)
    BY <2>3, UsersKeepAddresses DEF PublishInv, EventHappens, AddressesKept
  <2>4. CASE \/ DeliverMap \/ PoolChanges \/ NeighbourActs \/ StartupPublishesVRIDs \/ Crash
             \/ \E s \in Services : Dequeue(s) \/ InformerDelivers(s)
    <3>1. svc' = svc
      BY <2>4 DEF DeliverMap, DeliverAllocations, PoolChanges, ChangePool, NeighbourActs,
         StartupPublishesVRIDs, Crash, Relist,
         Dequeue, InformerDelivers, DeliverService, kubeVars, svcVars
    <3> QED
      BY <3>1
  <2> QED
    BY <2>1, <2>2, <2>3, <2>4 DEF Next
<1>2. [ShowsNew]_vars =>
        [\A s \in Services :
           svc'[s].ip \notin {None, svc[s].ip} =>
             /\ nginxRun[PathOf(s)] # None
             /\ nginxRun[PathOf(s)].svc = s
             /\ nginxRun[PathOf(s)].ip = svc'[s].ip]_vars
  BY DEF HasConf
<1> QED
  BY <1>1, <1>2, PublishInvInvariant, PTL DEF Spec, PublishAfterReload
=============================================================================
