-------------------------- MODULE ReconcilerProofs --------------------------
(***************************************************************************)
(* Proofs about ServiceReconciler, for any number of Services and          *)
(* addresses, any lag of the informers and any number of faults, crashes   *)
(* and events.                                                             *)
(***************************************************************************)
EXTENDS ReconcilerProperties, SequenceTheorems, TLAPS

-----------------------------------------------------------------------------
(* Facts about the writes the actions are built from.                      *)

(* Every write the operator or a user makes to a Service stores a version. *)
LEMMA VersionUpdate ==
  ASSUME NEW v \in Version
  PROVE  /\ [v EXCEPT !.fin = TRUE] \in Version
         /\ [v EXCEPT !.del = TRUE] \in Version
         /\ [v EXCEPT !.lb = ~@] \in Version
         /\ [v EXCEPT !.port = ~@] \in Version
         /\ \A i \in IPs : [v EXCEPT !.ip = i] \in Version
         /\ Absent \in Version
         /\ Created \in Version
  BY DEF Version, Absent, Created

(* A write keeps the three faces of a Service well typed.                  *)
LEMMA StoreServiceType ==
  ASSUME KubeTypeOK, NEW s \in Services, NEW v \in Version, StoreService(s, v)
  PROVE  /\ svc' \in [Services -> Version]
         /\ seen' \in [Services -> Version]
         /\ feed' \in [Services -> Seq(Version)]
<1>1. Append(feed[s], v) \in Seq(Version)
  BY DEF KubeTypeOK
<1> QED
  BY <1>1 DEF KubeTypeOK, StoreService

LEMMA StoreAllocationsType ==
  ASSUME KubeTypeOK, NEW m \in Allocations, StoreAllocations(m)
  PROVE  /\ alloc' \in Allocations
         /\ allocSeen' \in Allocations
         /\ allocFeed' \in Seq(Allocations)
<1>1. Append(allocFeed, m) \in Seq(Allocations)
  BY DEF KubeTypeOK
<1> QED
  BY <1>1 DEF KubeTypeOK, StoreAllocations

(* The pool is made of addresses.                                          *)
LEMMA PoolType ==
  ASSUME pool \in Pools, NEW k \in DOMAIN pool
  PROVE  pool[k] \in IPs
  BY PoolAssumption

(* The two groups are made of the addresses that are dealt out.            *)
LEMMA GroupsType ==
  ASSUME NEW v \in SUBSET IPs
  PROVE  GroupsOf(v) \in Groups
  BY DEF GroupsOf, Groups

(* What the worker keeps of its copy of the Service.                       *)
LEMMA SeenPort ==
  ASSUME KubeTypeOK, NEW s \in Services
  PROVE  seen[s].port \in BOOLEAN
  BY DEF KubeTypeOK, Version

(* A call that fails counts as a fault, within the bound.                  *)
LEMMA FaultyType ==
  ASSUME faults \in 0 .. MaxFaults, NEW o, Faulty(o)
  PROVE  faults' \in 0 .. MaxFaults
  BY HostAssumption DEF Faulty

-----------------------------------------------------------------------------
(* Type correctness.                                                       *)

(* JobOK goes with TypeOK: that reconcileService has an address follows    *)
(* from who is running at a step that ConfigureKeepalived's callers share. *)
TypeInv == TypeOK /\ JobOK

LEMMA TypeInit == Init => TypeInv
<1> SUFFICES ASSUME Init PROVE TypeInv
  OBVIOUS
<1>1. KubeTypeOK
  <2>1. Absent \in Version /\ Created \in Version
    BY DEF Version, Absent, Created
  <2>2. svc \in [Services -> Version] /\ seen \in [Services -> Version]
    BY <2>1 DEF Init, KubeInit
  <2>3. feed \in [Services -> Seq(Version)] /\ allocFeed \in Seq(Allocations)
    BY DEF Init, KubeInit
  <2>4. alloc \in Allocations /\ allocSeen \in Allocations
    BY DEF Init, KubeInit, Allocations
  <2>5. endpoints \in [Services -> SUBSET Nodes] /\ pool \in Pools /\ queue \subseteq Services
    BY DEF Init, KubeInit
  <2> QED
    BY <2>2, <2>3, <2>4, <2>5, EventAssumption DEF Init, KubeInit, KubeTypeOK
<1>2. HostTypeOK
  BY HostAssumption DEF Init, HostInit, HostTypeOK, NoGroups, Groups
<1>3. WorkerTypeOK /\ JobOK
  BY DEF Init, WorkerTypeOK, JobOK, Steps, ReconcileSteps, FinalizeSteps, SharedSteps
<1> QED
  BY <1>1, <1>2, <1>3, ReconcilerAssumption DEF Init, TypeInv, TypeOK

(* A worker that returns holds nothing.                                    *)
LEMMA IdleType ==
  ASSUME Idle
  PROVE  WorkerTypeOK' /\ JobOK'
  BY DEF Idle, WorkerTypeOK, JobOK, Steps, ReconcileSteps, FinalizeSteps, SharedSteps

(* The steps of the worker that write to nothing outside of it.            *)
LEMMA ReadStepType ==
  ASSUME TypeInv,
         SkipService \/ StartReconcile \/ StartFinalize \/ LookupIP \/ FetchIP
           \/ GetVRIDs \/ LoadVIPs \/ GetNodes
  PROVE  TypeInv'
<1> USE DEF TypeInv, TypeOK, At, Others, regs
<1>1. WorkerTypeOK' /\ JobOK' /\ faults' = faults /\ queue' \subseteq Services
  <2> USE DEF WorkerTypeOK, JobOK, KubeTypeOK, Steps, ReconcileSteps, FinalizeSteps,
              SharedSteps, Succeed, Fail, Return, Goto
  <2>1. CASE SkipService
    BY <2>1, IdleType DEF SkipService, Getting
  <2>2. CASE StartReconcile
    BY <2>2, SeenPort DEF StartReconcile, Getting
  <2>3. CASE StartFinalize
    BY <2>3 DEF StartFinalize, Getting, CopyIsCurrent
  <2>4. CASE LookupIP
    BY <2>4 DEF LookupIP, ReadingAllocations
  <2>5. CASE FetchIP
    BY <2>5, IdleType DEF FetchIP, ReadingAllocations
  <2>6. CASE GetVRIDs
    BY <2>6, IdleType DEF GetVRIDs
  <2>7. CASE LoadVIPs
    BY <2>7 DEF LoadVIPs, ReadingAllocations
  <2>8. CASE GetNodes
    BY <2>8, IdleType DEF GetNodes
  <2> QED
    BY <2>1, <2>2, <2>3, <2>4, <2>5, <2>6, <2>7, <2>8
<1>2. UNCHANGED <<svcVars, allocVars, hostVars, inputs, events, vridsReady, crashes>>
  BY DEF SkipService, StartReconcile, StartFinalize, LookupIP, FetchIP, GetVRIDs,
         LoadVIPs, GetNodes, Getting, ReadingAllocations
<1> QED
  BY <1>1, <1>2 DEF KubeTypeOK, HostTypeOK, svcVars, allocVars, inputs, hostVars

(* What the worker renders once reconcileService knows address and nodes.  *)
LEMMA RenderedType ==
  ASSUME TypeInv, pc = "nginxwrite"
  PROVE  Rendered \in Conf
  BY DEF TypeInv, TypeOK, Rendered, Conf, WorkerTypeOK, JobOK, ReconcileSteps

(* The steps of the worker that run a command on the NGINX host.           *)
LEMMA RemoteStepType ==
  ASSUME TypeInv,
         OpenPrimary \/ WritePrimary \/ OpenSecondary \/ WriteSecondary \/ Restart
           \/ OpenConfig \/ WriteConfig \/ ReloadConfig \/ RemoveConfig
           \/ ReloadAfterRemove
  PROVE  TypeInv'
<1> USE DEF TypeInv, TypeOK, At, Others, regs
<1>1. WorkerTypeOK' /\ JobOK' /\ faults' \in 0 .. MaxFaults /\ queue' \subseteq Services
  <2> USE IdleType, HostAssumption
      DEF WorkerTypeOK, JobOK, KubeTypeOK, HostTypeOK, Steps, ReconcileSteps,
          FinalizeSteps, SharedSteps, Then, Faulty, Return, Goto
  <2>1. CASE WritePrimary
    BY <2>1 DEF WritePrimary
  <2>2. CASE WriteSecondary
    BY <2>2 DEF WriteSecondary
  <2>3. CASE Restart
    BY <2>3 DEF Restart
  <2>4. CASE WriteConfig
    BY <2>4 DEF WriteConfig
  <2>5. CASE ReloadConfig
    BY <2>5 DEF ReloadConfig, Fail
  <2>6. CASE RemoveConfig
    BY <2>6 DEF RemoveConfig
  <2>7. CASE ReloadAfterRemove
    BY <2>7 DEF ReloadAfterRemove, Fail
  <2>8. CASE OpenPrimary
    BY <2>8 DEF OpenPrimary
  <2>9. CASE OpenSecondary
    BY <2>9 DEF OpenSecondary
  <2>10. CASE OpenConfig
    BY <2>10 DEF OpenConfig
  <2> QED
    BY <2>1, <2>2, <2>3, <2>4, <2>5, <2>6, <2>7, <2>8, <2>9, <2>10
<1>2. /\ nginxFile' \in [Paths -> Conf \cup {None}]
      /\ nginxRun' \in [Paths -> Conf \cup {None}]
      /\ kaPrimary' \in Groups /\ kaSecondary' \in Groups /\ kaRun' \in Groups
  <2> USE DEF HostTypeOK, Result
  <2>1. CASE WritePrimary
    BY <2>1, GroupsType DEF WritePrimary, WritePrimaryFile, WorkerTypeOK
  <2>2. CASE WriteSecondary
    BY <2>2, GroupsType DEF WriteSecondary, WriteSecondaryFile, WorkerTypeOK
  <2>3. CASE Restart
    BY <2>3 DEF Restart, RestartKeepalived
  <2>4. CASE WriteConfig
    BY <2>4, RenderedType DEF WriteConfig, WriteNginxFile
  <2>5. CASE ReloadConfig
    BY <2>5 DEF ReloadConfig, ReloadNGINX, ReloadRefused, hostVars
  <2>6. CASE RemoveConfig
    BY <2>6 DEF RemoveConfig, RemoveNginxFile
  <2>7. CASE ReloadAfterRemove
    BY <2>7 DEF ReloadAfterRemove, ReloadNGINX, ReloadRefused, hostVars
  <2>8. CASE OpenPrimary
    BY <2>8 DEF OpenPrimary, OpenPrimaryFile, NoGroups, Groups
  <2>9. CASE OpenSecondary
    BY <2>9 DEF OpenSecondary, OpenSecondaryFile, NoGroups, Groups
  <2>10. CASE OpenConfig
    BY <2>10 DEF OpenConfig, OpenNginxFile
  <2> QED
    BY <2>1, <2>2, <2>3, <2>4, <2>5, <2>6, <2>7, <2>8, <2>9, <2>10
<1>3. UNCHANGED <<svcVars, allocVars, inputs, events, vridsReady, crashes>>
  BY DEF OpenPrimary, WritePrimary, OpenSecondary, WriteSecondary, Restart, OpenConfig,
         WriteConfig, ReloadConfig, RemoveConfig, ReloadAfterRemove
<1> QED
  BY <1>1, <1>2, <1>3 DEF KubeTypeOK, HostTypeOK, svcVars, allocVars, inputs

(* The steps of the worker that write to the API server.                   *)
LEMMA WriteStepType ==
  ASSUME TypeInv,
         AddFinalizer \/ PublishStatus \/ RemoveFinalizer \/ AllocateIP \/ ReleaseIP
  PROVE  TypeInv'
<1> USE DEF TypeInv, TypeOK, At, Others, regs
<1>1. WorkerTypeOK' /\ JobOK' /\ faults' \in 0 .. MaxFaults /\ queue' \subseteq Services
  <2> USE IdleType, HostAssumption
      DEF WorkerTypeOK, JobOK, KubeTypeOK, HostTypeOK, Steps, ReconcileSteps,
          FinalizeSteps, SharedSteps, Then, Faulty, Return, Goto, Succeed, Fail
  <2>1. CASE AddFinalizer
    BY <2>1, SeenPort DEF AddFinalizer, Getting
  <2>2. CASE PublishStatus
    BY <2>2 DEF PublishStatus
  <2>3. CASE RemoveFinalizer
    BY <2>3 DEF RemoveFinalizer
  <2>4. CASE AllocateIP
    <3>1. \/ Fail
          \/ \E o : Faulty(o) /\ Return({cur})
          \/ /\ pc' = "vrids" /\ ip' \in IPs
             /\ UNCHANGED <<cur, job, vips, nodes, port, current, queue, faults>>
      BY <2>4, PoolType DEF AllocateIP, KubeTypeOK
    <3>2. pc = "allocate"
      BY <2>4 DEF AllocateIP, ReadingAllocations
    <3> QED
      BY <3>1, <3>2
  <2>5. CASE ReleaseIP
    <3>1. Fail \/ \E o : Then(o, "vrids")
      BY <2>5 DEF ReleaseIP
    <3>2. pc = "release"
      BY <2>5 DEF ReleaseIP, ReadingAllocations
    <3> QED
      BY <3>1, <3>2
  <2> QED
    BY <2>1, <2>2, <2>3, <2>4, <2>5
<1>2. CASE AddFinalizer \/ PublishStatus \/ RemoveFinalizer
  <2>1. PICK v \in Version :
          UNCHANGED svcVars \/ (cur \in Services /\ StoreService(cur, v))
    <3>0. cur \in Services /\ svc[cur] \in Version
      BY <1>2 DEF AddFinalizer, PublishStatus, RemoveFinalizer, Getting, WorkerTypeOK,
                  KubeTypeOK
    <3>1. CASE AddFinalizer
      <4>1. [svc[cur] EXCEPT !.fin = TRUE] \in Version
        BY <3>0, VersionUpdate
      <4>2. \/ UNCHANGED svcVars
            \/ \E o : StoreService(cur, Result(o, svc[cur], [svc[cur] EXCEPT !.fin = TRUE]))
        BY <3>1 DEF AddFinalizer
      <4>3. \A o : Result(o, svc[cur], [svc[cur] EXCEPT !.fin = TRUE]) \in Version
        BY <3>0, <4>1 DEF Result
      <4> DEFINE stored(o) == Result(o, svc[cur], [svc[cur] EXCEPT !.fin = TRUE])
      <4>4. /\ \A o : stored(o) \in Version
            /\ UNCHANGED svcVars \/ \E o : StoreService(cur, stored(o))
        BY <4>2, <4>3
      <4> HIDE DEF stored
      <4> QED
        BY <3>0, <4>4
    <3>2. CASE PublishStatus
      <4>1. [svc[cur] EXCEPT !.ip = ip] \in Version
        <5>1. ip \in IPs
          BY <3>2 DEF PublishStatus, WorkerTypeOK, JobOK, ReconcileSteps
        <5> QED
          BY <3>0, <5>1, VersionUpdate
      <4>2. \/ UNCHANGED svcVars
            \/ \E o : StoreService(cur, Result(o, svc[cur], [svc[cur] EXCEPT !.ip = ip]))
        BY <3>2 DEF PublishStatus
      <4>3. \A o : Result(o, svc[cur], [svc[cur] EXCEPT !.ip = ip]) \in Version
        BY <3>0, <4>1 DEF Result
      <4> DEFINE stored(o) == Result(o, svc[cur], [svc[cur] EXCEPT !.ip = ip])
      <4>4. /\ \A o : stored(o) \in Version
            /\ UNCHANGED svcVars \/ \E o : StoreService(cur, stored(o))
        BY <4>2, <4>3
      <4> HIDE DEF stored
      <4> QED
        BY <3>0, <4>4
    <3>3. CASE RemoveFinalizer
      <4>1. Absent \in Version
        BY <3>0, VersionUpdate
      <4>2. \/ UNCHANGED svcVars
            \/ \E o : StoreService(cur, Result(o, svc[cur], Absent))
        BY <3>3 DEF RemoveFinalizer
      <4>3. \A o : Result(o, svc[cur], Absent) \in Version
        BY <3>0, <4>1 DEF Result
      <4> DEFINE stored(o) == Result(o, svc[cur], Absent)
      <4>4. /\ \A o : stored(o) \in Version
            /\ UNCHANGED svcVars \/ \E o : StoreService(cur, stored(o))
        BY <4>2, <4>3
      <4> HIDE DEF stored
      <4> QED
        BY <3>0, <4>4
    <3> QED
      BY <1>2, <3>1, <3>2, <3>3
  <2>2. /\ svc' \in [Services -> Version]
        /\ seen' \in [Services -> Version]
        /\ feed' \in [Services -> Seq(Version)]
    BY <2>1, StoreServiceType DEF svcVars, KubeTypeOK
  <2>3. UNCHANGED <<allocVars, hostVars, inputs, events, vridsReady, crashes>>
    BY <1>2 DEF AddFinalizer, PublishStatus, RemoveFinalizer, Getting
  <2> QED
    BY <1>1, <2>2, <2>3 DEF KubeTypeOK, HostTypeOK, allocVars, inputs, hostVars
<1>3. CASE AllocateIP \/ ReleaseIP
  <2>1. PICK m \in Allocations : UNCHANGED allocVars \/ StoreAllocations(m)
    <3>0. cur \in Services
      BY <1>3 DEF AllocateIP, ReleaseIP, ReadingAllocations, WorkerTypeOK
    <3>1. CASE AllocateIP
      BY <3>0, <3>1, PoolType
      DEF AllocateIP, ReadingAllocations, Result, KubeTypeOK, Allocations
    <3>2. CASE ReleaseIP
      BY <3>0, <3>2 DEF ReleaseIP, ReadingAllocations, Result, KubeTypeOK, Allocations
    <3> QED
      BY <1>3, <3>1, <3>2
  <2>2. /\ alloc' \in Allocations
        /\ allocSeen' \in Allocations
        /\ allocFeed' \in Seq(Allocations)
    BY <2>1, StoreAllocationsType DEF allocVars, KubeTypeOK
  <2>3. UNCHANGED <<svcVars, hostVars, inputs, events, vridsReady, crashes>>
    BY <1>3 DEF AllocateIP, ReleaseIP, ReadingAllocations
  <2> QED
    BY <1>1, <2>2, <2>3 DEF KubeTypeOK, HostTypeOK, svcVars, inputs, hostVars
<1> QED
  BY <1>2, <1>3

(* What happens to one Service outside of the worker.                      *)
LEMMA ServiceStepType ==
  ASSUME TypeInv, NEW s \in Services,
         Dequeue(s) \/ EventHappens(s) \/ InformerDelivers(s)
  PROVE  TypeInv'
<1> USE DEF TypeInv, TypeOK
<1>1. CASE Dequeue(s)
  <2>1. WorkerTypeOK' /\ JobOK'
    BY <1>1, NoneAssumption DEF Dequeue, At, WorkerTypeOK, JobOK, Steps, ReconcileSteps,
       FinalizeSteps, SharedSteps
  <2> QED
    BY <1>1, <2>1 DEF Dequeue, At, Others, KubeTypeOK, HostTypeOK, svcVars, allocVars,
          inputs, hostVars
<1>2. CASE EventHappens(s)
  <2>1. WorkerTypeOK' /\ JobOK'
    BY <1>2 DEF EventHappens, WorkerTypeOK, JobOK
  <2>2. events' \in 0 .. MaxEvents
    BY <1>2, EventAssumption
    DEF EventHappens, EventOf, CreateService, DeleteService, RetypeService, ChangePorts,
        EditService, ChangeEndpoints, Resync, UserWrites, Event, KubeTypeOK
  <2>3. /\ svc' \in [Services -> Version]
        /\ seen' \in [Services -> Version]
        /\ feed' \in [Services -> Seq(Version)]
    <3>0. svc[s] \in Version
      BY DEF KubeTypeOK
    <3>1. CASE CreateService(s)
      BY <3>1, VersionUpdate, <3>0, StoreServiceType DEF CreateService, UserWrites
    <3>2. CASE DeleteService(s)
      BY <3>2, VersionUpdate, <3>0, StoreServiceType DEF DeleteService, UserWrites
    <3>3. CASE RetypeService(s)
      BY <3>3, VersionUpdate, <3>0, StoreServiceType DEF RetypeService, UserWrites
    <3>4. CASE EditService(s)
      BY <3>4, <3>0 DEF EditService, KubeTypeOK
    <3>5. CASE ChangeEndpoints(s) \/ Resync(s)
      BY <3>5 DEF ChangeEndpoints, Resync, KubeTypeOK, svcVars
    <3>6. CASE ChangePorts(s)
      BY <3>6, VersionUpdate, <3>0, StoreServiceType DEF ChangePorts, UserWrites
    <3> QED
      BY <1>2, <3>1, <3>2, <3>3, <3>4, <3>5, <3>6 DEF EventHappens, EventOf
  <2>4. endpoints' \in [Services -> SUBSET Nodes] /\ pool' = pool /\ queue' \subseteq Services
    BY <1>2 DEF EventHappens, EventOf, CreateService, DeleteService, RetypeService, ChangePorts,
        EditService, ChangeEndpoints, Resync, UserWrites, KubeTypeOK, inputs
  <2>5. UNCHANGED <<allocVars, hostVars, faults, vridsReady, crashes>>
    BY <1>2 DEF EventHappens, EventOf, CreateService, DeleteService, RetypeService, ChangePorts,
        EditService, ChangeEndpoints, Resync, UserWrites
  <2> QED
    BY <2>1, <2>2, <2>3, <2>4, <2>5 DEF KubeTypeOK, HostTypeOK, allocVars, hostVars
<1>3. CASE InformerDelivers(s)
  <2>1. Head(feed[s]) \in Version /\ Tail(feed[s]) \in Seq(Version)
    BY <1>3 DEF InformerDelivers, DeliverService, KubeTypeOK
  <2> QED
    BY <1>3, <2>1 DEF InformerDelivers, DeliverService, KubeTypeOK, HostTypeOK, WorkerTypeOK,
       JobOK, allocVars, inputs, hostVars, regs
<1> QED
  BY <1>1, <1>2, <1>3

(* The rest.                                                               *)
LEMMA OtherStepType ==
  ASSUME TypeInv, DeliverMap \/ PoolChanges \/ NeighbourActs \/ StartupPublishesVRIDs \/ Crash
  PROVE  TypeInv'
<1> USE DEF TypeInv, TypeOK
<1>4. CASE DeliverMap
  <2>1. Head(allocFeed) \in Allocations /\ Tail(allocFeed) \in Seq(Allocations)
    BY <1>4 DEF DeliverMap, DeliverAllocations, KubeTypeOK
  <2> QED
    BY <1>4, <2>1 DEF DeliverMap, DeliverAllocations, KubeTypeOK, HostTypeOK, WorkerTypeOK,
       JobOK, svcVars, inputs, hostVars, regs
<1>5. CASE StartupPublishesVRIDs
  BY <1>5 DEF StartupPublishesVRIDs, KubeTypeOK, HostTypeOK, WorkerTypeOK, JobOK, kubeVars,
     svcVars, allocVars, inputs, hostVars, regs
<1>6. CASE Crash
  <2>1. KubeTypeOK'
    BY <1>6 DEF Crash, Relist, KubeTypeOK, inputs
  <2>2. HostTypeOK'
    <3>1. CASE TeeWrites
      BY <1>6, <3>1, RenderedType, GroupsType
      DEF Crash, TeeWrites, WritePrimaryFile, WriteSecondaryFile, WriteNginxFile, Result,
          HostTypeOK, WorkerTypeOK
    <3>2. CASE UNCHANGED hostVars
      BY <1>6, <3>2 DEF Crash, HostTypeOK, hostVars
    <3> QED
      BY <1>6, <3>1, <3>2 DEF Crash
  <2> QED
    BY <1>6, <2>1, <2>2, IdleType, ReconcilerAssumption DEF Crash
<1>7. CASE PoolChanges
  <2>1. pool' \in Pools /\ events' \in 0 .. MaxEvents
    BY <1>7, EventAssumption DEF PoolChanges, ChangePool, Event, KubeTypeOK
  <2> QED
    BY <1>7, <2>1 DEF PoolChanges, ChangePool, KubeTypeOK, HostTypeOK, WorkerTypeOK, JobOK,
       svcVars, allocVars, hostVars, regs
<1>8. CASE NeighbourActs
  <2>1. HostTypeOK'
    BY <1>8 DEF NeighbourActs, NeighbourReloads, NeighbourRestarts, ReloadNGINX,
       RestartKeepalived, Result, HostTypeOK
  <2> QED
    BY <1>8, <2>1 DEF NeighbourActs, KubeTypeOK, WorkerTypeOK, JobOK, kubeVars, svcVars,
       allocVars, inputs, regs
<1> QED
  BY <1>4, <1>5, <1>6, <1>7, <1>8

LEMMA TypeStep == TypeInv /\ [Next]_vars => TypeInv'
<1> SUFFICES ASSUME TypeInv, [Next]_vars PROVE TypeInv'
  OBVIOUS
<1>1. CASE Worker
  BY <1>1, ReadStepType, RemoteStepType, WriteStepType DEF Worker
<1>2. CASE \E s \in Services : Dequeue(s) \/ EventHappens(s) \/ InformerDelivers(s)
  BY <1>2, ServiceStepType
<1>3. CASE DeliverMap \/ PoolChanges \/ NeighbourActs \/ StartupPublishesVRIDs \/ Crash
  BY <1>3, OtherStepType
<1>4. CASE UNCHANGED vars
  BY <1>4 DEF TypeInv, TypeOK, KubeTypeOK, HostTypeOK, WorkerTypeOK, JobOK, vars, kubeVars,
     svcVars, allocVars, inputs, hostVars, regs
<1> QED
  BY <1>1, <1>2, <1>3, <1>4 DEF Next

(* Type correctness: TypeOK holds in every reachable state.                *)
THEOREM TypeCorrect == Spec => []TypeOK
<1>1. Spec => []TypeInv
  BY TypeInit, TypeStep, PTL DEF Spec
<1>2. TypeInv => TypeOK
  BY DEF TypeInv
<1> QED
  BY <1>1, <1>2, PTL

-----------------------------------------------------------------------------
(* No configuration without its Service.                                   *)

(* The part of the inductive invariant that speaks of the caches.          *)
CacheInv == CacheFollows /\ CacheFin /\ AbsentHasNoFin

(* The part that speaks of what the worker does.                           *)
WorkerInv == WorkerFin /\ CurrentCopy /\ Cleaned

LEMMA IInvParts == IInv <=> TypeInv /\ NoOrphanConfig /\ CacheInv /\ WorkerInv
  BY DEF IInv, TypeInv, CacheInv, WorkerInv

LEMMA IInvInit == Init => IInv
<1> SUFFICES ASSUME Init PROVE IInv
  OBVIOUS
<1>1. TypeInv
  BY TypeInit
<1>2. NoOrphanConfig
  BY DEF Init, HostInit, NoOrphanConfig, Files
<1>3. CacheInv
  BY DEF Init, KubeInit, CacheInv, CacheFollows, CacheFin, AbsentHasNoFin, InCache,
     Absent, Created
<1>4. WorkerInv
  BY DEF Init, WorkerInv, WorkerFin, CurrentCopy, Cleaned
<1> QED
  BY <1>1, <1>2, <1>3, <1>4, IInvParts

(* An idle worker owes nothing.                                            *)
LEMMA IdleInv == Idle => WorkerInv'
  BY DEF Idle, WorkerInv, WorkerFin, CurrentCopy, Cleaned

(* What Append does, element by element.                                   *)
LEMMA AppendElements ==
  ASSUME NEW S, NEW q \in Seq(S), NEW v \in S
  PROVE  /\ Append(q, v) # <<>>
         /\ Append(q, v)[Len(Append(q, v))] = v
         /\ \A w, k : k \in 1 .. Len(Append(q, v)) /\ w = Append(q, v)[k]
                       => w = v \/ (k \in 1 .. Len(q) /\ w = q[k])
<1>1. Len(Append(q, v)) = Len(q) + 1 /\ Append(q, v)[Len(q) + 1] = v
  OBVIOUS
<1>2. \A k \in 1 .. Len(q) : Append(q, v)[k] = q[k]
  OBVIOUS
<1> QED
  BY <1>1, <1>2

(* What a write of a Service does to the caches.  It may take the          *)
(* finalizer away only if no cached version could be taken for one of a    *)
(* live Service that still has it.                                         *)
LEMMA StoreServiceCache ==
  ASSUME KubeTypeOK, CacheInv, NEW s \in Services, NEW v \in Version,
         StoreService(s, v),
         v.fin => v.exists,
         \/ v.fin
         \/ v.fin = svc[s].fin
         \/ \A w \in Version : InCache(s, w) => ~w.fin \/ w.del
  PROVE  CacheInv'
<1>1. /\ \A t \in Services : t # s => svc'[t] = svc[t] /\ feed'[t] = feed[t]
      /\ svc'[s] = v
      /\ seen' = seen
      /\ feed'[s] = IF v = svc[s] THEN feed[s] ELSE Append(feed[s], v)
  BY DEF StoreService, KubeTypeOK
<1>2. feed[s] \in Seq(Version)
  BY DEF KubeTypeOK
<1>3. CacheFollows'
  <2> SUFFICES ASSUME NEW t \in Services
               PROVE  IF feed'[t] = <<>> THEN seen'[t] = svc'[t]
                      ELSE feed'[t][Len(feed'[t])] = svc'[t]
    BY DEF CacheFollows
  <2>1. CASE t = s /\ v # svc[s]
    BY <1>1, <1>2, <2>1, AppendElements
  <2>2. CASE t # s \/ v = svc[s]
    BY <1>1, <2>2 DEF CacheInv, CacheFollows
  <2> QED
    BY <2>1, <2>2
<1>4. AbsentHasNoFin'
  BY <1>1 DEF CacheInv, AbsentHasNoFin
<1>5. CacheFin'
  <2> SUFFICES ASSUME NEW t \in Services, NEW w \in Version, InCache(t, w)', w.fin, ~w.del
               PROVE  svc'[t].fin
    BY DEF CacheFin
  <2>1. CASE t # s
    BY <1>1, <2>1 DEF CacheInv, CacheFin, InCache
  <2>2. CASE t = s
    <3>1. InCache(s, w) \/ w = v
      <4>1. CASE w = seen[s] \/ v = svc[s]
        BY <1>1, <2>2, <4>1 DEF InCache
      <4>2. CASE w # seen[s] /\ v # svc[s]
        <5>1. PICK k \in 1 .. Len(Append(feed[s], v)) : w = Append(feed[s], v)[k]
          BY <1>1, <2>2, <4>2 DEF InCache
        <5>2. w = v \/ (k \in 1 .. Len(feed[s]) /\ w = feed[s][k])
          BY <1>2, <5>1, AppendElements
        <5> QED
          BY <5>2 DEF InCache
      <4> QED
        BY <4>1, <4>2
    <3> QED
      BY <1>1, <2>2, <3>1 DEF CacheInv, CacheFin
  <2> QED
    BY <2>1, <2>2
<1> QED
  BY <1>3, <1>4, <1>5 DEF CacheInv

(* As long as no Service loses its finalizer, files stay as they should.   *)
LEMMA FilesKept ==
  ASSUME TypeInv, NoOrphanConfig,
         \A s \in Services : svc[s].fin => svc'[s].fin,
         UNCHANGED <<nginxFile, nginxRun>>
  PROVE  NoOrphanConfig'
  BY DEF NoOrphanConfig, Files

(* Neither do caches change unless a Service or an informer does.          *)
LEMMA CachesKept ==
  ASSUME CacheInv, UNCHANGED svcVars
  PROVE  CacheInv'
  BY DEF CacheInv, CacheFollows, CacheFin, AbsentHasNoFin, InCache, svcVars

(* The steps that touch neither a Service nor a configuration of nginx.    *)
LEMMA QuietStep ==
  ASSUME IInv,
         \/ SkipService \/ StartReconcile \/ StartFinalize \/ LookupIP \/ AllocateIP
         \/ FetchIP \/ ReleaseIP \/ GetVRIDs \/ LoadVIPs \/ OpenPrimary \/ WritePrimary
         \/ OpenSecondary \/ WriteSecondary \/ Restart \/ GetNodes
         \/ (\E s \in Services : Dequeue(s))
  PROVE  NoOrphanConfig' /\ CacheInv' /\ WorkerInv'
<1>0. TypeInv /\ NoOrphanConfig /\ CacheInv /\ WorkerInv
  BY IInvParts
<1>1. UNCHANGED <<svcVars, nginxFile, nginxRun>>
  <2> USE DEF Getting, ReadingAllocations, hostVars, svcVars
  <2>1. CASE \/ SkipService \/ StartReconcile \/ StartFinalize \/ LookupIP \/ AllocateIP
             \/ FetchIP \/ ReleaseIP \/ GetVRIDs \/ LoadVIPs \/ GetNodes
             \/ (\E s \in Services : Dequeue(s))
    BY <2>1 DEF SkipService, StartReconcile, StartFinalize, LookupIP, AllocateIP, FetchIP,
                ReleaseIP, GetVRIDs, LoadVIPs, GetNodes, Dequeue
  <2>2. CASE OpenPrimary \/ WritePrimary \/ OpenSecondary \/ WriteSecondary \/ Restart
    BY <2>2 DEF OpenPrimary, OpenPrimaryFile, WritePrimary, WritePrimaryFile, OpenSecondary,
                OpenSecondaryFile, WriteSecondary, WriteSecondaryFile, Restart,
                RestartKeepalived
  <2> QED
    BY <2>1, <2>2
<1>2. NoOrphanConfig' /\ CacheInv'
  BY <1>0, <1>1, FilesKept, CachesKept DEF svcVars
<1>3. WorkerInv'
  <2> USE <1>0, IdleInv DEF WorkerInv, WorkerFin, CurrentCopy, Cleaned, TypeInv, TypeOK,
          WorkerTypeOK, JobOK, ReconcileSteps, FinalizeSteps, SharedSteps,
          At, Succeed, Fail, Return, Goto, Then, regs, svcVars
  <2>1. CASE SkipService
    BY <2>1 DEF SkipService
  <2>2. CASE StartReconcile
    <3>1. cur \in Services /\ seen[cur] \in Version /\ seen[cur].fin /\ ~seen[cur].del
      BY <2>2 DEF StartReconcile, Getting, KubeTypeOK
    <3>2. svc[cur].fin
      BY <3>1 DEF CacheInv, CacheFin, InCache
    <3> QED
      BY <1>1, <2>2, <3>2 DEF StartReconcile, Getting
  <2>3. CASE StartFinalize
    <3>1. cur \in Services /\ (feed[cur] = <<>> => svc[cur].del)
      BY <2>3 DEF StartFinalize, Getting, CacheInv, CacheFollows
    <3> QED
      BY <1>1, <2>3, <3>1 DEF StartFinalize, Getting, CopyIsCurrent
  <2>4. CASE LookupIP
    BY <1>1, <2>4 DEF LookupIP, ReadingAllocations
  <2>5. CASE AllocateIP
    <3>1. Idle \/ (UNCHANGED <<cur, job, current>> /\ pc = "allocate" /\ pc' = "vrids")
      BY <2>5 DEF AllocateIP, ReadingAllocations
    <3> QED
      BY <1>1, <3>1
  <2>6. CASE FetchIP
    BY <1>1, <2>6 DEF FetchIP, ReadingAllocations
  <2>7. CASE ReleaseIP
    <3>1. Idle \/ (UNCHANGED <<cur, job, current>> /\ pc = "release" /\ pc' = "vrids")
      BY <2>7 DEF ReleaseIP, ReadingAllocations
    <3> QED
      BY <1>1, <3>1
  <2>8. CASE GetVRIDs
    BY <1>1, <2>8 DEF GetVRIDs
  <2>9. CASE LoadVIPs
    BY <1>1, <2>9 DEF LoadVIPs, ReadingAllocations
  <2>10. CASE OpenPrimary \/ WritePrimary
    BY <1>1, <2>10 DEF OpenPrimary, WritePrimary
  <2>11. CASE OpenSecondary \/ WriteSecondary
    BY <1>1, <2>11 DEF OpenSecondary, WriteSecondary
  <2>12. CASE Restart
    BY <1>1, <2>12 DEF Restart
  <2>13. CASE GetNodes
    BY <1>1, <2>13 DEF GetNodes
  <2>14. CASE \E s \in Services : Dequeue(s)
    BY <1>1, <2>14 DEF Dequeue
  <2> QED
    BY <2>1, <2>2, <2>3, <2>4, <2>5, <2>6, <2>7, <2>8, <2>9, <2>10, <2>11, <2>12,
       <2>13, <2>14
<1> QED
  BY <1>2, <1>3

(* The steps that write, remove and load configurations of nginx.          *)
LEMMA FileStep ==
  ASSUME IInv, OpenConfig \/ WriteConfig \/ ReloadConfig \/ RemoveConfig
                 \/ ReloadAfterRemove
  PROVE  NoOrphanConfig' /\ CacheInv' /\ WorkerInv'
<1>0. TypeInv /\ NoOrphanConfig /\ CacheInv /\ WorkerInv
  BY IInvParts
<1>1. UNCHANGED svcVars
  BY DEF OpenConfig, WriteConfig, ReloadConfig, RemoveConfig, ReloadAfterRemove
<1>2. CacheInv'
  BY <1>0, <1>1, CachesKept
<1>3. /\ job = "reconcile" => cur \in Services /\ svc[cur].fin
      /\ job = "finalize" => cur \in Services
  BY <1>0 DEF WorkerInv, WorkerFin, TypeInv, TypeOK, WorkerTypeOK, JobOK
<1>4. NoOrphanConfig'
  <2> USE <1>0, <1>1 DEF NoOrphanConfig, Files, svcVars, Result, TypeInv, TypeOK, HostTypeOK
  <2>1. CASE WriteConfig
    <3>1. job = "reconcile"
      BY <2>1 DEF WriteConfig, At, JobOK, ReconcileSteps
    <3> QED
      BY <1>3, <2>1, <3>1 DEF WriteConfig, WriteNginxFile, Rendered
  <2>2. CASE ReloadConfig \/ ReloadAfterRemove
    BY <2>2 DEF ReloadConfig, ReloadAfterRemove, ReloadNGINX, ReloadRefused, hostVars
  <2>3. CASE RemoveConfig
    BY <2>3 DEF RemoveConfig, RemoveNginxFile
  <2>4. CASE OpenConfig
    BY <2>4 DEF OpenConfig, OpenNginxFile
  <2> QED
    BY <2>1, <2>2, <2>3, <2>4
<1>5. WorkerInv'
  <2> USE <1>0, <1>1, IdleInv
      DEF WorkerInv, WorkerFin, CurrentCopy, Cleaned, TypeInv, TypeOK, HostTypeOK, JobOK,
          ReconcileSteps, FinalizeSteps, At, Return, Goto, Then, regs, svcVars, Result
  <2>1. CASE WriteConfig
    BY <2>1 DEF WriteConfig, WriteNginxFile
  <2>2. CASE ReloadConfig
    BY <2>2 DEF ReloadConfig, ReloadNGINX, ReloadRefused, hostVars, Fail
  <2>3. CASE RemoveConfig
    <3>1. PathOf(cur) \in Paths
      BY <2>3, <1>3 DEF RemoveConfig, Paths
    <3> QED
      BY <2>3, <3>1 DEF RemoveConfig, RemoveNginxFile
  <2>4. CASE ReloadAfterRemove
    BY <2>4 DEF ReloadAfterRemove, ReloadNGINX, ReloadRefused, hostVars, Fail
  <2>5. CASE OpenConfig
    BY <2>5 DEF OpenConfig, OpenNginxFile
  <2> QED
    BY <2>1, <2>2, <2>3, <2>4, <2>5
<1> QED
  BY <1>2, <1>4, <1>5

(* The steps that write a Service.                                         *)
LEMMA ServiceWriteStep ==
  ASSUME IInv, AddFinalizer \/ PublishStatus \/ RemoveFinalizer
  PROVE  NoOrphanConfig' /\ CacheInv' /\ WorkerInv'
<1>0. TypeInv /\ NoOrphanConfig /\ CacheInv /\ WorkerInv
  BY IInvParts
<1>1. /\ cur \in Services /\ svc[cur] \in Version /\ Absent \in Version
      /\ KubeTypeOK /\ UNCHANGED <<nginxFile, nginxRun>>
  BY <1>0, VersionUpdate DEF AddFinalizer, PublishStatus, RemoveFinalizer, Getting, At,
     TypeInv, TypeOK, WorkerTypeOK, KubeTypeOK, hostVars
<1>2. svc[cur].fin => svc[cur].exists
  BY <1>0, <1>1 DEF CacheInv, AbsentHasNoFin
<1>3. CASE AddFinalizer
  <2>1. CASE Fail /\ UNCHANGED svcVars
    BY <1>0, <1>1, <2>1, IdleInv, CachesKept, FilesKept DEF Fail, Return, svcVars
  <2>2. CASE ~(Fail /\ UNCHANGED svcVars)
    <3>1. PICK o \in Outcomes :
            /\ StoreService(cur, Result(o, svc[cur], [svc[cur] EXCEPT !.fin = TRUE]))
            /\ \/ o = "ok" /\ job' = "reconcile" /\ current' = current /\ cur' = cur
               \/ Idle
      BY <1>3, <2>2 DEF AddFinalizer, Return
    <3>2. CopyIsCurrent(cur) /\ seen[cur].exists
      BY <1>3, <2>2 DEF AddFinalizer
    <3>3. svc[cur].exists
      BY <1>0, <1>1, <3>2 DEF CopyIsCurrent, CacheInv, CacheFollows
    <3> DEFINE v == Result(o, svc[cur], [svc[cur] EXCEPT !.fin = TRUE])
    <3>4. /\ v \in Version /\ v.exists
          /\ v.fin \/ v.fin = svc[cur].fin
          /\ svc[cur].fin => v.fin
          /\ o = "ok" => v.fin
      BY <1>1, <3>3 DEF Result, Version
    <3>5. svc' = [svc EXCEPT ![cur] = v]
      BY <3>1 DEF StoreService
    <3>6. CacheInv'
      <4> HIDE DEF v
      <4>1. StoreService(cur, v)
        BY <3>1 DEF v
      <4> QED
        BY <1>0, <1>1, <3>4, <4>1, StoreServiceCache
    <3>7. NoOrphanConfig'
      <4> HIDE DEF v
      <4>1. \A s \in Services : svc[s].fin => svc'[s].fin
        BY <1>1, <3>4, <3>5 DEF KubeTypeOK
      <4> QED
        BY <1>0, <1>1, <4>1, FilesKept
    <3>8. WorkerInv'
      <4> HIDE DEF v
      <4>1. svc'[cur] = v
        BY <1>1, <3>5 DEF KubeTypeOK
      <4>2. current = FALSE
        BY <1>0, <1>3 DEF AddFinalizer, Getting, At, WorkerInv, CurrentCopy, TypeInv, JobOK,
           TypeOK, WorkerTypeOK
      <4> QED
        BY <3>1, <3>4, <4>1, <4>2, IdleInv DEF WorkerInv, WorkerFin, CurrentCopy, Cleaned
    <3> QED
      BY <3>6, <3>7, <3>8
  <2> QED
    BY <2>1, <2>2
<1>4. CASE PublishStatus
  <2>1. Idle
    BY <1>4 DEF PublishStatus, Fail, Succeed, Return
  <2>2. ip \in IPs
    BY <1>0, <1>4 DEF PublishStatus, At, TypeInv, TypeOK, WorkerTypeOK, JobOK, ReconcileSteps
  <2>3. PICK v \in Version :
          /\ v.fin = svc[cur].fin /\ v.exists = svc[cur].exists
          /\ UNCHANGED svcVars \/ StoreService(cur, v)
    <3>1. [svc[cur] EXCEPT !.ip = ip] \in Version
      BY <1>1, <2>2, VersionUpdate
    <3>2. \/ UNCHANGED svcVars
          \/ StoreService(cur, svc[cur])
          \/ StoreService(cur, [svc[cur] EXCEPT !.ip = ip])
      BY <1>4 DEF PublishStatus, Result
    <3>3. /\ [svc[cur] EXCEPT !.ip = ip].fin = svc[cur].fin
          /\ [svc[cur] EXCEPT !.ip = ip].exists = svc[cur].exists
      BY <1>1 DEF Version
    <3> QED
      BY <1>1, <3>1, <3>2, <3>3
  <2>4. CacheInv'
    BY <1>0, <1>1, <1>2, <2>3, CachesKept, StoreServiceCache
  <2>5. \A s \in Services : svc[s].fin => svc'[s].fin
    BY <1>1, <2>3 DEF StoreService, KubeTypeOK, svcVars
  <2> QED
    BY <1>0, <1>1, <2>1, <2>4, <2>5, FilesKept, IdleInv
<1>5. CASE RemoveFinalizer
  <2>1. Idle
    BY <1>5 DEF RemoveFinalizer, Fail, Succeed, Return
  <2>2. CASE UNCHANGED svcVars
    BY <1>0, <1>1, <2>1, <2>2, FilesKept, CachesKept, IdleInv DEF svcVars
  <2>3. CASE ~UNCHANGED svcVars
    <3>1. current /\ (StoreService(cur, svc[cur]) \/ StoreService(cur, Absent))
      BY <1>5, <2>3 DEF RemoveFinalizer, Result
    <3>2. StoreService(cur, Absent)
      BY <1>1, <2>3, <3>1 DEF StoreService, svcVars, KubeTypeOK
    <3>3. svc[cur].del /\ feed[cur] = <<>> /\ seen[cur] = svc[cur]
      BY <1>0, <1>1, <3>1 DEF WorkerInv, CurrentCopy, CacheInv, CacheFollows
    <3>4. CacheInv'
      <4>1. \A w \in Version : InCache(cur, w) => ~w.fin \/ w.del
        BY <3>3 DEF InCache
      <4>2. Absent.fin => Absent.exists
        BY DEF Absent
      <4> QED
        BY <1>0, <1>1, <3>2, <4>1, <4>2, StoreServiceCache
    <3>5. nginxFile[PathOf(cur)] = None /\ nginxRun[PathOf(cur)] = None
      BY <1>0, <1>5 DEF RemoveFinalizer, At, WorkerInv, Cleaned, TypeInv, JobOK, FinalizeSteps
    <3>6. \A s \in Services : s # cur => svc'[s] = svc[s]
      BY <3>2 DEF StoreService, KubeTypeOK
    <3>7. NoOrphanConfig'
      BY <1>0, <1>1, <3>5, <3>6 DEF NoOrphanConfig, Files
    <3> QED
      BY <2>1, <3>4, <3>7, IdleInv
  <2> QED
    BY <2>2, <2>3
<1> QED
  BY <1>3, <1>4, <1>5

(* Users and informers.                                                    *)
LEMMA ServiceEventStep ==
  ASSUME IInv, NEW s \in Services, EventHappens(s) \/ InformerDelivers(s)
  PROVE  NoOrphanConfig' /\ CacheInv' /\ WorkerInv'
<1>0. /\ TypeInv /\ NoOrphanConfig /\ CacheInv /\ WorkerInv
      /\ KubeTypeOK /\ svc[s] \in Version
  BY IInvParts DEF TypeInv, TypeOK, KubeTypeOK
<1>1. CASE EventHappens(s)
  <2>1. PICK v \in Version :
          /\ v.fin = svc[s].fin
          /\ v.fin => v.exists
          /\ \/ StoreService(s, v)
             \/ UNCHANGED svcVars
             \/ v = svc[s] /\ EditService(s)
    <3>0. svc[s].fin => svc[s].exists
      BY <1>0 DEF CacheInv, AbsentHasNoFin
    <3>1. CASE CreateService(s)
      <4>1. Created \in Version /\ ~Created.fin
        BY <1>0, VersionUpdate DEF Created
      <4>2. StoreService(s, Created) /\ ~svc[s].fin
        BY <3>0, <3>1 DEF CreateService, UserWrites
      <4>3. svc[s].fin = Created.fin
        BY <1>0, <4>2 DEF Created, Version
      <4> QED
        BY <4>1, <4>2, <4>3
    <3>2. CASE DeleteService(s)
      <4>1. Absent \in Version /\ ~Absent.fin
        BY <1>0, VersionUpdate DEF Absent
      <4>2. /\ [svc[s] EXCEPT !.del = TRUE] \in Version
            /\ [svc[s] EXCEPT !.del = TRUE].fin = svc[s].fin
            /\ [svc[s] EXCEPT !.del = TRUE].exists = svc[s].exists
        BY <1>0 DEF Version
      <4>3. StoreService(s, IF svc[s].fin THEN [svc[s] EXCEPT !.del = TRUE] ELSE Absent)
        BY <3>2 DEF DeleteService, UserWrites
      <4>4. CASE svc[s].fin
        BY <3>0, <4>2, <4>3, <4>4
      <4>5. CASE ~svc[s].fin
        <5>1. svc[s].fin = Absent.fin
          BY <1>0, <4>5 DEF Absent, Version
        <5> QED
          BY <4>1, <4>3, <4>5, <5>1
      <4> QED
        BY <4>4, <4>5
    <3>3. CASE RetypeService(s)
      <4>1. /\ [svc[s] EXCEPT !.lb = ~@] \in Version
            /\ [svc[s] EXCEPT !.lb = ~@].fin = svc[s].fin
            /\ [svc[s] EXCEPT !.lb = ~@].exists = svc[s].exists
        BY <1>0 DEF Version
      <4>2. StoreService(s, [svc[s] EXCEPT !.lb = ~@])
        BY <3>3 DEF RetypeService, UserWrites
      <4> QED
        BY <3>0, <4>1, <4>2
    <3>4. CASE EditService(s)
      BY <1>0, <3>0, <3>4
    <3>5. CASE ChangeEndpoints(s) \/ Resync(s)
      BY <1>0, <3>0, <3>5 DEF ChangeEndpoints, Resync
    <3>6. CASE ChangePorts(s)
      <4>1. /\ [svc[s] EXCEPT !.port = ~@] \in Version
            /\ [svc[s] EXCEPT !.port = ~@].fin = svc[s].fin
            /\ [svc[s] EXCEPT !.port = ~@].exists = svc[s].exists
        BY <1>0 DEF Version
      <4>2. StoreService(s, [svc[s] EXCEPT !.port = ~@])
        BY <3>6 DEF ChangePorts, UserWrites
      <4> QED
        BY <3>0, <4>1, <4>2
    <3> QED
      BY <1>1, <3>1, <3>2, <3>3, <3>4, <3>5, <3>6 DEF EventHappens, EventOf
  <2>2. /\ UNCHANGED <<nginxFile, nginxRun, pc, cur, job>>
        /\ current' => current /\ (cur = s => feed'[s] = feed[s])
    BY <1>1 DEF EventHappens, hostVars
  <2>3. /\ \A t \in Services : t # s => svc'[t] = svc[t] /\ feed'[t] = feed[t]
        /\ svc'[s].fin = svc[s].fin
    BY <1>0, <2>1 DEF StoreService, EditService, KubeTypeOK, svcVars
  <2>4. CacheInv'
    <3>1. CASE StoreService(s, v)
      BY <1>0, <2>1, <3>1, StoreServiceCache
    <3>2. CASE UNCHANGED svcVars
      BY <1>0, <3>2, CachesKept
    <3>3. CASE v = svc[s] /\ EditService(s)
      \* An edit of the user is, for the caches, a write that changes nothing.
      <4>1. /\ svc' = svc /\ seen' = seen
            /\ feed' = [feed EXCEPT ![s] = Append(@, svc[s])]
        BY <3>3 DEF EditService
      <4>2. CacheFollows'
        <5> SUFFICES ASSUME NEW t \in Services
                     PROVE  IF feed'[t] = <<>> THEN seen'[t] = svc'[t]
                            ELSE feed'[t][Len(feed'[t])] = svc'[t]
          BY DEF CacheFollows
        <5>1. CASE t = s
          BY <1>0, <4>1, <5>1, AppendElements DEF KubeTypeOK
        <5>2. CASE t # s
          BY <1>0, <4>1, <5>2 DEF CacheInv, CacheFollows, KubeTypeOK
        <5> QED
          BY <5>1, <5>2
      <4>3. CacheFin'
        <5> SUFFICES ASSUME NEW t \in Services, NEW w \in Version, InCache(t, w)', w.fin, ~w.del
                     PROVE  svc[t].fin
          BY <4>1 DEF CacheFin
        <5>1. CASE t = s /\ w # seen[s]
          <6>0. feed[s] \in Seq(Version) /\ feed'[s] = Append(feed[s], svc[s])
            BY <1>0, <4>1 DEF KubeTypeOK
          <6>1. PICK k \in 1 .. Len(Append(feed[s], svc[s])) : w = Append(feed[s], svc[s])[k]
            BY <4>1, <5>1, <6>0 DEF InCache
          <6>2. w = svc[s] \/ (k \in 1 .. Len(feed[s]) /\ w = feed[s][k])
            BY <1>0, <6>0, <6>1, AppendElements
          <6> QED
            BY <1>0, <5>1, <6>2 DEF CacheInv, CacheFin, InCache
        <5>2. CASE t # s \/ w = seen[s]
          BY <1>0, <4>1, <5>2 DEF CacheInv, CacheFin, InCache, KubeTypeOK
        <5> QED
          BY <5>1, <5>2
      <4> QED
        BY <1>0, <4>1, <4>2, <4>3 DEF CacheInv, AbsentHasNoFin
    <3> QED
      BY <2>1, <3>1, <3>2, <3>3
  <2>5. NoOrphanConfig'
    <3>1. \A t \in Services : svc[t].fin => svc'[t].fin
      BY <2>3
    <3> QED
      BY <1>0, <2>2, <3>1, FilesKept
  <2>6. WorkerInv'
    <3>1. WorkerFin' /\ Cleaned'
      BY <1>0, <2>2, <2>3 DEF WorkerInv, WorkerFin, Cleaned, TypeInv, TypeOK, WorkerTypeOK, JobOK
    <3>2. CurrentCopy'
      <4> SUFFICES ASSUME current' PROVE CurrentCopy'
        BY DEF CurrentCopy
      <4>1. /\ current /\ job = "finalize" /\ cur \in Services
            /\ feed[cur] = <<>> /\ svc[cur].del
        BY <1>0, <2>2 DEF WorkerInv, CurrentCopy, TypeInv, TypeOK, WorkerTypeOK, JobOK
      <4>2. CASE cur # s
        BY <2>2, <2>3, <4>1, <4>2 DEF CurrentCopy
      <4>3. CASE cur = s
        <5>1. feed'[s] = feed[s]
          BY <2>2, <4>3
        <5>2. svc'[s] = svc[s]
          \* The feed holds every version, so an unchanged feed is an unchanged Service.
          BY <1>0, <2>1, <4>1, <4>3, <5>1, AppendElements
          DEF StoreService, EditService, svcVars, KubeTypeOK
        <5> QED
          BY <2>2, <4>1, <4>3, <5>1, <5>2 DEF CurrentCopy
      <4> QED
        BY <4>2, <4>3
    <3> QED
      BY <3>1, <3>2 DEF WorkerInv
  <2> QED
    BY <2>4, <2>5, <2>6
<1>2. CASE InformerDelivers(s)
  <2>1. /\ feed[s] # <<>> /\ feed[s] \in Seq(Version)
        /\ svc' = svc
        /\ seen' = [seen EXCEPT ![s] = Head(feed[s])]
        /\ feed' = [feed EXCEPT ![s] = Tail(feed[s])]
        /\ UNCHANGED <<nginxFile, nginxRun, pc, cur, job, current>>
    BY <1>0, <1>2 DEF InformerDelivers, DeliverService, KubeTypeOK, hostVars, regs
  <2>2. /\ Head(feed[s]) = feed[s][1]
        /\ Len(Tail(feed[s])) = Len(feed[s]) - 1
        /\ \A k \in 1 .. Len(Tail(feed[s])) : Tail(feed[s])[k] = feed[s][k + 1]
        /\ Len(feed[s]) \in Nat
    BY <2>1
  <2>7. /\ Len(feed[s]) >= 1
        /\ Tail(feed[s]) = <<>> <=> Len(feed[s]) = 1
    <3>1. Tail(feed[s]) \in Seq(Version)
      BY <2>1
    <3>2. /\ \A q \in Seq(Version) : q # <<>> => Len(q) \in Nat \ {0}
          /\ Len(<<>>) = 0
      BY EmptySeq
    <3>3. Len(feed[s]) >= 1
      BY <2>1, <3>2
    <3>4. CASE Tail(feed[s]) = <<>>
      <4>1. Len(Tail(feed[s])) = 0
        BY ONLY <3>2, <3>4
      <4>2. Len(feed[s]) = 1
        BY <2>2, <4>1
      <4> QED
        BY <3>3, <3>4, <4>2
    <3>5. CASE Tail(feed[s]) # <<>>
      <4>1. Len(Tail(feed[s])) # 0
        BY <3>1, <3>2, <3>5
      <4> QED
        BY <2>2, <3>3, <3>5, <4>1
    <3> QED
      BY <3>3, <3>4, <3>5
  <2>3. CacheFollows'
    <3> SUFFICES ASSUME NEW t \in Services
                 PROVE  IF feed'[t] = <<>> THEN seen'[t] = svc[t]
                        ELSE feed'[t][Len(feed'[t])] = svc[t]
      BY <2>1 DEF CacheFollows
    <3>1. CASE t # s
      BY <1>0, <2>1, <3>1 DEF CacheInv, CacheFollows, KubeTypeOK
    <3>2. CASE t = s
      <4>1. feed[s][Len(feed[s])] = svc[s]
        BY <1>0, <2>1 DEF CacheInv, CacheFollows
      <4>2. feed'[s] = Tail(feed[s]) /\ seen'[s] = Head(feed[s])
        BY <1>0, <2>1 DEF KubeTypeOK
      <4> QED
        BY <2>2, <2>7, <3>2, <4>1, <4>2
    <3> QED
      BY <3>1, <3>2
  <2>4. CacheFin'
    <3> SUFFICES ASSUME NEW t \in Services, NEW w \in Version, InCache(t, w)', w.fin, ~w.del
                 PROVE  svc[t].fin
      BY <2>1 DEF CacheFin
    <3>1. CASE t # s
      BY <1>0, <2>1, <3>1 DEF CacheInv, CacheFin, InCache, KubeTypeOK
    <3>2. CASE t = s
      <4>1. feed'[s] = Tail(feed[s]) /\ seen'[s] = Head(feed[s])
        BY <1>0, <2>1 DEF KubeTypeOK
      <4>2. InCache(s, w)
        BY <2>2, <3>2, <4>1 DEF InCache
      <4> QED
        BY <1>0, <3>2, <4>2 DEF CacheInv, CacheFin
    <3> QED
      BY <3>1, <3>2
  <2>5. NoOrphanConfig'
    BY <1>0, <2>1, FilesKept
  <2>6. WorkerInv'
    <3>1. current => cur # s
      BY <1>0, <2>1 DEF WorkerInv, CurrentCopy
    <3>2. current => cur \in Services
      BY <1>0 DEF WorkerInv, CurrentCopy, TypeInv, TypeOK, WorkerTypeOK, JobOK
    <3> QED
      BY <1>0, <2>1, <3>1, <3>2 DEF WorkerInv, WorkerFin, CurrentCopy, Cleaned, KubeTypeOK
  <2> QED
    BY <1>0, <2>1, <2>3, <2>4, <2>5, <2>6 DEF CacheInv, AbsentHasNoFin
<1> QED
  BY <1>1, <1>2

(* The map, the pool, the VRIDs, the other clusters' operators, and the    *)
(* crash, after which the caches are current.                              *)
LEMMA OtherEventStep ==
  ASSUME IInv,
         \/ DeliverMap \/ PoolChanges \/ NeighbourActs \/ StartupPublishesVRIDs
         \/ Crash \/ UNCHANGED vars
  PROVE  NoOrphanConfig' /\ CacheInv' /\ WorkerInv'
<1>0. TypeInv /\ NoOrphanConfig /\ CacheInv /\ WorkerInv
  BY IInvParts
<1>1. CASE \/ DeliverMap \/ PoolChanges \/ StartupPublishesVRIDs \/ UNCHANGED vars
           \/ NeighbourActs /\ NeighbourRestarts
  <2>1. UNCHANGED <<svcVars, nginxFile, nginxRun, pc, cur, job, current>>
    BY <1>1 DEF DeliverMap, DeliverAllocations, PoolChanges, ChangePool,
       StartupPublishesVRIDs, NeighbourActs, NeighbourRestarts, RestartKeepalived,
       vars, kubeVars, hostVars, regs
  <2>2. WorkerInv'
    BY <1>0, <2>1 DEF WorkerInv, WorkerFin, CurrentCopy, Cleaned, svcVars
  <2> QED
    BY <1>0, <2>1, <2>2, FilesKept, CachesKept DEF svcVars
<1>2. CASE Crash
  <2>1. svc' = svc /\ seen' = svc /\ feed' = [t \in Services |-> <<>>] /\ Idle
    BY <1>2 DEF Crash, Relist
  <2>2. CacheInv'
    BY <1>0, <2>1 DEF CacheInv, CacheFollows, CacheFin, AbsentHasNoFin, InCache
  <2>3. NoOrphanConfig'
    <3>1. CASE UNCHANGED <<nginxFile, nginxRun>>
      BY <1>0, <2>1, <3>1, FilesKept
    <3>2. CASE ~UNCHANGED <<nginxFile, nginxRun>>
      <4>1. pc = "nginxwrite" /\ WriteNginxFile("ok", PathOf(cur), Rendered)
        BY <1>2, <3>2 DEF Crash, TeeWrites, WritePrimaryFile, WriteSecondaryFile, hostVars
      <4>2. cur \in Services /\ svc[cur].fin
        BY <1>0, <4>1 DEF WorkerInv, WorkerFin, TypeInv, TypeOK, WorkerTypeOK, JobOK,
           ReconcileSteps
      <4> QED
        BY <1>0, <2>1, <4>1, <4>2 DEF WriteNginxFile, Result, Rendered, NoOrphanConfig, Files,
           TypeInv, TypeOK, HostTypeOK
    <3> QED
      BY <3>1, <3>2
  <2> QED
    BY <2>1, <2>2, <2>3, IdleInv
<1>3. CASE NeighbourActs /\ NeighbourReloads
  <2>1. /\ UNCHANGED <<svcVars, nginxFile, pc, cur, job, current>>
        /\ nginxRun' = nginxFile
    BY <1>3 DEF NeighbourActs, NeighbourReloads, ReloadNGINX, Result, kubeVars, regs
  <2>2. NoOrphanConfig'
    BY <1>0, <2>1 DEF NoOrphanConfig, Files, svcVars
  <2>3. WorkerInv'
    BY <1>0, <2>1 DEF WorkerInv, WorkerFin, CurrentCopy, Cleaned, svcVars
  <2> QED
    BY <1>0, <2>1, <2>2, <2>3, CachesKept
<1> QED
  BY <1>1, <1>2, <1>3 DEF NeighbourActs

LEMMA IInvStep == IInv /\ [Next]_vars => IInv'
<1> SUFFICES ASSUME IInv, [Next]_vars PROVE IInv'
  OBVIOUS
<1>1. TypeInv'
  BY IInvParts, TypeStep
<1>2. NoOrphanConfig' /\ CacheInv' /\ WorkerInv'
  BY QuietStep, FileStep, ServiceWriteStep, ServiceEventStep, OtherEventStep DEF Next, Worker
<1> QED
  BY <1>1, <1>2, IInvParts DEF IInv, TypeInv, CacheInv, WorkerInv

THEOREM Inductive == Spec => []IInv
  BY IInvInit, IInvStep, PTL DEF Spec

(* The finalizer protocol: whatever is late, fails or crashes, nginx never *)
(* keeps a configuration of a Service that is gone.                        *)
THEOREM FinalizerProtocol == Spec => []NoOrphanConfig
<1>1. IInv => NoOrphanConfig
  BY DEF IInv
<1> QED
  BY <1>1, Inductive, PTL

=============================================================================
