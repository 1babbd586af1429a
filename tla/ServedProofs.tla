---------------------------- MODULE ServedProofs ----------------------------
(***************************************************************************)
(* Proof that nothing is forgotten, for any number of Services and         *)
(* addresses, any lag and any number of faults, crashes and events, as     *)
(* long as no two Services share a file: a LoadBalancer Service that is    *)
(* not exactly as its users want it is queued, in hand, or on its way to   *)
(* the informers.  And, used by later modules, that no copy, however old,  *)
(* makes the operator finalize a Service that was not deleted.             *)
(***************************************************************************)
EXTENDS PublicationProofs

(* A cached version that is being deleted, with the finalizer, is never    *)
(* older than a recreation of the Service that has the finalizer again.    *)
CacheDel ==
  \A s \in Services : \A v \in Version :
    v.fin /\ v.del /\ InCache(s, v) => svc[s].del \/ ~svc[s].fin

(* finalizeService is at work for a Service that is being deleted, or that *)
(* was gone and came back, in which case it has nothing to lose.           *)
FinalizesDeleted == job = "finalize" => svc[cur].del \/ ~svc[cur].fin

ShownHasFin == \A s \in Services : svc[s].ip # None => svc[s].fin

LiveInv == IInv /\ Configured /\ CacheDel /\ FinalizesDeleted /\ ShownHasFin

(* The calls of ConfigureKeepalived that change the host.                  *)
RewritesKeepalived ==
  OpenPrimary \/ WritePrimary \/ OpenSecondary \/ WriteSecondary \/ Restart

-----------------------------------------------------------------------------
(* What a step does to the stored version of a Service.                    *)

(* A user's write, and what none of them does.                             *)
Edited(v, w) ==
  /\ w.fin = v.fin
  /\ v.del /\ v.fin => w.del
  /\ (v.del => v.fin) => (w.del => w.fin)
  /\ w.ip \in {None, v.ip}
  /\ v.fin => w.ip = v.ip

(* The stored version of s becomes w by what the worker writes.            *)
Wrote(s, w) ==
  \/ AddFinalizer /\ CopyIsCurrent(s) /\ ~seen[s].fin /\ w = [svc[s] EXCEPT !.fin = TRUE]
  \/ PublishStatus /\ w = [svc[s] EXCEPT !.ip = ip]
  \/ RemoveFinalizer /\ w = Absent

LEMMA WorkerVersions ==
  ASSUME IInv, Worker, NEW s \in Services, svc'[s] # svc[s]
  PROVE  s = cur /\ Wrote(s, svc'[s])
<1>1. KubeTypeOK
  BY DEF IInv, TypeOK
<1>2. AddFinalizer \/ PublishStatus \/ RemoveFinalizer
  <2>1. svc' # svc
    OBVIOUS
  <2> QED
    BY <2>1 DEF Worker, SkipService, StartReconcile, StartFinalize, LookupIP, AllocateIP,
       FetchIP, ReleaseIP, GetVRIDs, LoadVIPs, OpenPrimary, WritePrimary, OpenSecondary,
       WriteSecondary, Restart, GetNodes, OpenConfig, WriteConfig, ReloadConfig,
       RemoveConfig, ReloadAfterRemove, ReadingAllocations, svcVars
<1>3. CASE AddFinalizer
  <2>1. /\ CopyIsCurrent(cur) /\ ~seen[cur].fin
        /\ \E o : StoreService(cur, Result(o, svc[cur], [svc[cur] EXCEPT !.fin = TRUE]))
    BY <1>3 DEF AddFinalizer, svcVars
  <2> QED
    BY <1>1, <1>3, <2>1 DEF StoreService, Result, KubeTypeOK, Wrote
<1>4. CASE PublishStatus
  <2>1. \E o : StoreService(cur, Result(o, svc[cur], [svc[cur] EXCEPT !.ip = ip]))
    BY <1>4 DEF PublishStatus, svcVars
  <2> QED
    BY <1>1, <1>4, <2>1 DEF StoreService, Result, KubeTypeOK, Wrote
<1>5. CASE RemoveFinalizer
  <2>1. \E o : StoreService(cur, Result(o, svc[cur], Absent))
    BY <1>5 DEF RemoveFinalizer, svcVars
  <2> QED
    BY <1>1, <1>5, <2>1 DEF StoreService, Result, KubeTypeOK, Wrote
<1> QED
  BY <1>2, <1>3, <1>4, <1>5

LEMMA UserVersions ==
  ASSUME IInv, NEW t \in Services, EventOf(t), NEW s \in Services
  PROVE  Edited(svc[s], svc'[s])
<1>1. /\ KubeTypeOK /\ svc[s] \in Version /\ svc[t] \in Version
      /\ svc[t].fin => svc[t].exists
  BY DEF IInv, TypeOK, KubeTypeOK, AbsentHasNoFin
<1>2. ASSUME NEW v, StoreService(t, v), Edited(svc[t], v)
      PROVE  Edited(svc[s], svc'[s])
  BY <1>1, <1>2 DEF StoreService, KubeTypeOK, Edited
<1>3. CASE CreateService(t)
  <2>1. StoreService(t, Created) /\ ~svc[t].exists
    BY <1>3 DEF CreateService, UserWrites
  <2>2. Edited(svc[t], Created)
    BY <1>1, <2>1 DEF Edited, Created, Version
  <2> QED
    BY <1>2, <2>1, <2>2
<1>4. CASE DeleteService(t)
  <2> DEFINE v == IF svc[t].fin THEN [svc[t] EXCEPT !.del = TRUE] ELSE Absent
  <2>1. StoreService(t, v)
    BY <1>4 DEF DeleteService, UserWrites
  <2>2. Edited(svc[t], v)
    BY <1>1 DEF Edited, Absent, Version
  <2> HIDE DEF v
  <2> QED
    BY <1>2, <2>1, <2>2
<1>5. CASE RetypeService(t)
  <2>1. StoreService(t, [svc[t] EXCEPT !.lb = ~@])
    BY <1>5 DEF RetypeService, UserWrites
  <2>2. Edited(svc[t], [svc[t] EXCEPT !.lb = ~@])
    BY <1>1 DEF Edited, Version
  <2> QED
    BY <1>2, <2>1, <2>2
<1>6. CASE ChangePorts(t)
  <2>1. StoreService(t, [svc[t] EXCEPT !.port = ~@])
    BY <1>6 DEF ChangePorts, UserWrites
  <2>2. Edited(svc[t], [svc[t] EXCEPT !.port = ~@])
    BY <1>1 DEF Edited, Version
  <2> QED
    BY <1>2, <2>1, <2>2
<1>7. CASE EditService(t) \/ ChangeEndpoints(t) \/ Resync(t)
  BY <1>7 DEF EditService, ChangeEndpoints, Resync, svcVars, Edited
<1> QED
  BY <1>3, <1>4, <1>5, <1>6, <1>7 DEF EventOf

LEMMA Versions ==
  ASSUME IInv, [Next]_vars, NEW s \in Services
  PROVE  (Worker /\ s = cur /\ Wrote(s, svc'[s])) \/ Edited(svc[s], svc'[s])
<1>1. CASE Worker
  <2>1. CASE svc'[s] = svc[s]
    BY <2>1 DEF Edited
  <2> QED
    BY <1>1, <2>1, WorkerVersions
<1>2. CASE \E t \in Services : EventHappens(t)
  BY <1>2, UserVersions DEF EventHappens
<1>3. CASE \/ DeliverMap \/ PoolChanges \/ NeighbourActs \/ StartupPublishesVRIDs \/ Crash
           \/ UNCHANGED vars \/ \E t \in Services : Dequeue(t) \/ InformerDelivers(t)
  <2>1. svc' = svc
    BY <1>3 DEF DeliverMap, DeliverAllocations, PoolChanges, ChangePool, NeighbourActs,
       StartupPublishesVRIDs, Crash, Relist, Dequeue, InformerDelivers, DeliverService,
       vars, kubeVars, svcVars
  <2> QED
    BY <2>1 DEF Edited
<1> QED
  BY <1>1, <1>2, <1>3 DEF Next

-----------------------------------------------------------------------------
(* The worker and the users store versions.                                *)

LEMMA WorkerStores ==
  ASSUME IInv, Worker
  PROVE  UNCHANGED svcVars \/ \E t \in Services : \E v \in Version : StoreService(t, v)
<1>1. CASE AddFinalizer \/ PublishStatus \/ RemoveFinalizer
  <2>1. cur \in Services /\ svc[cur] \in Version
    BY <1>1 DEF IInv, TypeOK, WorkerTypeOK, KubeTypeOK, AddFinalizer, PublishStatus,
       RemoveFinalizer, Getting, At
  <2>2. /\ [svc[cur] EXCEPT !.fin = TRUE] \in Version
        /\ Absent \in Version
        /\ PublishStatus => [svc[cur] EXCEPT !.ip = ip] \in Version
    <3>1. PublishStatus => ip \in IPs
      BY DEF IInv, TypeOK, WorkerTypeOK, JobOK, ReconcileSteps, PublishStatus, At
    <3> QED
      BY <2>1, <3>1, VersionUpdate
  <2>3. \/ UNCHANGED svcVars
        \/ StoreService(cur, svc[cur])
        \/ StoreService(cur, [svc[cur] EXCEPT !.fin = TRUE])
        \/ PublishStatus /\ StoreService(cur, [svc[cur] EXCEPT !.ip = ip])
        \/ StoreService(cur, Absent)
    BY <1>1 DEF AddFinalizer, PublishStatus, RemoveFinalizer, Result
  <2> QED
    BY <2>1, <2>2, <2>3
<1>2. CASE ~(AddFinalizer \/ PublishStatus \/ RemoveFinalizer)
  BY <1>2 DEF Worker, SkipService, StartReconcile, StartFinalize, LookupIP, AllocateIP,
     FetchIP, ReleaseIP, GetVRIDs, LoadVIPs, OpenPrimary, WritePrimary, OpenSecondary,
     WriteSecondary, Restart, GetNodes, OpenConfig, WriteConfig, ReloadConfig, RemoveConfig,
     ReloadAfterRemove, ReadingAllocations
<1> QED
  BY <1>1, <1>2

LEMMA UserStores ==
  ASSUME IInv, NEW t \in Services, EventOf(t), ~EditService(t)
  PROVE  UNCHANGED svcVars \/ \E v \in Version : StoreService(t, v)
<1>1. svc[t] \in Version
  BY DEF IInv, TypeOK, KubeTypeOK
<1>2. \/ UNCHANGED svcVars
      \/ StoreService(t, Created) \/ StoreService(t, Absent)
      \/ StoreService(t, [svc[t] EXCEPT !.del = TRUE])
      \/ StoreService(t, [svc[t] EXCEPT !.lb = ~@])
      \/ StoreService(t, [svc[t] EXCEPT !.port = ~@])
  BY DEF EventOf, CreateService, DeleteService, RetypeService, ChangePorts, ChangeEndpoints,
     Resync, UserWrites
<1> QED
  BY <1>1, <1>2, VersionUpdate

-----------------------------------------------------------------------------
(* What a cache holds after a step it held before, or it is stored now.    *)

LEMMA WrittenThenCached ==
  ASSUME KubeTypeOK, NEW t \in Services, NEW v \in Version,
         seen' = seen, feed' = [feed EXCEPT ![t] = Append(@, v)],
         NEW s \in Services, NEW w \in Version, InCache(s, w)'
  PROVE  InCache(s, w) \/ (s = t /\ w = v)
<1>1. feed[t] \in Seq(Version)
  BY DEF KubeTypeOK
<1>2. CASE s = t
  <2>1. feed'[t] = Append(feed[t], v)
    BY DEF KubeTypeOK
  <2>2. CASE w = seen[s]
    BY <2>2 DEF InCache
  <2>3. CASE w # seen[s]
    <3>1. PICK k \in 1 .. Len(Append(feed[t], v)) : w = Append(feed[t], v)[k]
      BY <1>2, <2>1, <2>3 DEF InCache
    <3>2. w = v \/ (k \in 1 .. Len(feed[t]) /\ w = feed[t][k])
      BY <1>1, <3>1, AppendElements
    <3> QED
      BY <1>2, <3>2 DEF InCache
  <2> QED
    BY <2>2, <2>3
<1>3. CASE s # t
  BY <1>3 DEF InCache, KubeTypeOK
<1> QED
  BY <1>2, <1>3

LEMMA StoredThenCached ==
  ASSUME KubeTypeOK, NEW t \in Services, NEW v \in Version, StoreService(t, v),
         NEW s \in Services, NEW w \in Version, InCache(s, w)'
  PROVE  InCache(s, w) \/ w = svc'[s]
<1>1. svc'[t] = v /\ seen' = seen
  BY DEF StoreService, KubeTypeOK
<1>2. CASE v = svc[t]
  <2>1. feed'[s] = feed[s]
    BY <1>2 DEF StoreService, KubeTypeOK
  <2> QED
    BY <1>1, <2>1 DEF InCache
<1>3. CASE v # svc[t]
  <2>1. feed' = [feed EXCEPT ![t] = Append(@, v)]
    BY <1>3 DEF StoreService
  <2> QED
    BY <1>1, <2>1, WrittenThenCached
<1> QED
  BY <1>2, <1>3

LEMMA CachedBefore ==
  ASSUME IInv, [Next]_vars, NEW s \in Services, NEW w \in Version, InCache(s, w)'
  PROVE  InCache(s, w) \/ w = svc'[s]
<1>1. /\ KubeTypeOK
      /\ \A t \in Services : svc[t] \in Version
  BY DEF IInv, TypeOK, KubeTypeOK
<1>2. CASE UNCHANGED svcVars
  BY <1>2 DEF svcVars, InCache
<1>3. CASE \E t \in Services : \E v \in Version : StoreService(t, v)
  BY <1>1, <1>3, StoredThenCached
<1>4. CASE \E t \in Services : EditService(t)
  <2>1. PICK t \in Services : EditService(t)
    BY <1>4
  <2>2. svc' = svc /\ seen' = seen /\ feed' = [feed EXCEPT ![t] = Append(@, svc[t])]
    BY <2>1 DEF EditService
  <2> QED
    BY <1>1, <2>2, WrittenThenCached
<1>5. CASE \E t \in Services : InformerDelivers(t)
  <2>1. PICK t \in Services : InformerDelivers(t)
    BY <1>5
  <2>2. /\ feed[t] # <<>> /\ feed[t] \in Seq(Version)
        /\ seen' = [seen EXCEPT ![t] = Head(feed[t])]
        /\ feed' = [feed EXCEPT ![t] = Tail(feed[t])]
    BY <1>1, <2>1 DEF InformerDelivers, DeliverService, KubeTypeOK
  <2>3. CASE s # t
    BY <1>1, <2>2, <2>3 DEF InCache, KubeTypeOK
  <2>4. CASE s = t
    <3>1. /\ Head(feed[t]) = feed[t][1]
          /\ Len(Tail(feed[t])) = Len(feed[t]) - 1
          /\ \A k \in 1 .. Len(Tail(feed[t])) : Tail(feed[t])[k] = feed[t][k + 1]
          /\ Len(feed[t]) \in Nat /\ Len(feed[t]) >= 1
      <4>1. \A q \in Seq(Version) : q # <<>> => Len(q) \in Nat \ {0}
        BY EmptySeq
      <4>2. Len(feed[t]) \in Nat \ {0}
        BY <2>2, <4>1
      <4> QED
        BY <2>2, <4>2
    <3>2. feed'[t] = Tail(feed[t]) /\ seen'[t] = Head(feed[t])
      BY <1>1, <2>2 DEF KubeTypeOK
    <3> QED
      BY <2>4, <3>1, <3>2 DEF InCache
  <2> QED
    BY <2>3, <2>4
<1>6. CASE Crash
  <2>1. seen' = svc /\ svc' = svc /\ feed' = [t \in Services |-> <<>>]
    BY <1>6 DEF Crash, Relist
  <2> QED
    BY <2>1 DEF InCache
<1>7. CASE Worker
  BY <1>2, <1>3, <1>7, WorkerStores
<1>8. CASE \E t \in Services : EventOf(t) /\ ~EditService(t)
  BY <1>2, <1>3, <1>8, UserStores
<1>9. CASE \/ DeliverMap \/ PoolChanges \/ NeighbourActs \/ StartupPublishesVRIDs
           \/ UNCHANGED vars \/ \E t \in Services : Dequeue(t)
  <2>1. UNCHANGED svcVars
    BY <1>9 DEF DeliverMap, DeliverAllocations, PoolChanges, ChangePool, NeighbourActs,
       StartupPublishesVRIDs, Dequeue, vars, kubeVars
  <2> QED
    BY <1>2, <2>1
<1> QED
  BY <1>4, <1>5, <1>6, <1>7, <1>8, <1>9 DEF Next, EventHappens

-----------------------------------------------------------------------------
(* The worker never finalizes a Service that lives.                        *)

LEMMA CacheDelStep ==
  ASSUME LiveInv, [Next]_vars
  PROVE  CacheDel'
<1> SUFFICES ASSUME NEW s \in Services, NEW w \in Version, w.fin, w.del, InCache(s, w)'
             PROVE  svc'[s].del \/ ~svc'[s].fin
  BY DEF CacheDel
<1>0. IInv /\ svc[s] \in Version
  BY DEF LiveInv, IInv, TypeOK, KubeTypeOK
<1>1. CASE w = svc'[s]
  BY <1>1
<1>2. CASE InCache(s, w)
  <2>1. svc[s].del \/ ~svc[s].fin
    BY <1>2 DEF LiveInv, CacheDel
  <2>2. CASE Edited(svc[s], svc'[s])
    BY <2>1, <2>2 DEF Edited
  <2>3. CASE Wrote(s, svc'[s])
    <3>1. ~(CopyIsCurrent(s) /\ ~seen[s].fin)
      BY <1>2 DEF CopyIsCurrent, InCache
    <3>2. \/ svc'[s] = [svc[s] EXCEPT !.ip = ip]
          \/ svc'[s] = Absent
      BY <2>3, <3>1 DEF Wrote
    <3> QED
      BY <1>0, <2>1, <3>2 DEF Version, Absent
  <2> QED
    BY <1>0, <2>2, <2>3, Versions
<1> QED
  BY <1>0, <1>1, <1>2, CachedBefore

(* Who finalizes either has just begun or goes on.                         *)
LEMMA FinalizeGoesOn ==
  ASSUME JobOK, [Next]_vars, job' = "finalize"
  PROVE  StartFinalize \/ (job = "finalize" /\ cur' = cur)
<1>1. CASE Worker
  <2> USE DEF At, Getting, ReadingAllocations, Then, Goto, Return, Idle, Succeed, Fail, regs
  <2>1. CASE SkipService \/ AddFinalizer \/ StartReconcile
    BY <2>1 DEF SkipService, AddFinalizer, StartReconcile
  <2>2. CASE LookupIP \/ AllocateIP \/ FetchIP \/ ReleaseIP
    BY <2>2 DEF LookupIP, AllocateIP, FetchIP, ReleaseIP
  <2>3. CASE GetVRIDs \/ LoadVIPs \/ RewritesKeepalived
    BY <2>3 DEF RewritesKeepalived, GetVRIDs, LoadVIPs, OpenPrimary, WritePrimary, OpenSecondary,
       WriteSecondary, Restart
  <2>4. CASE GetNodes \/ OpenConfig \/ WriteConfig \/ ReloadConfig \/ PublishStatus
    BY <2>4 DEF GetNodes, OpenConfig, WriteConfig, ReloadConfig, PublishStatus
  <2>5. CASE RemoveConfig \/ ReloadAfterRemove \/ RemoveFinalizer
    BY <2>5 DEF RemoveConfig, ReloadAfterRemove, RemoveFinalizer
  <2> QED
    BY <1>1, <2>1, <2>2, <2>3, <2>4, <2>5 DEF Worker, RewritesKeepalived
<1>2. CASE \E s \in Services : Dequeue(s)
  BY <1>2 DEF Dequeue, At, JobOK
<1>3. CASE Crash
  BY <1>3 DEF Crash, Idle
<1>4. CASE \/ DeliverMap \/ PoolChanges \/ NeighbourActs \/ StartupPublishesVRIDs
           \/ UNCHANGED vars \/ \E s \in Services : EventHappens(s) \/ InformerDelivers(s)
  BY <1>4 DEF DeliverMap, PoolChanges, NeighbourActs, StartupPublishesVRIDs, EventHappens,
     InformerDelivers, vars, regs
<1> QED
  BY <1>1, <1>2, <1>3, <1>4 DEF Next

LEMMA WriterIsNoFinalizer ==
  ASSUME [Next]_vars, job' = "finalize"
  PROVE  ~AddFinalizer /\ ~PublishStatus /\ ~RemoveFinalizer
  BY DEF AddFinalizer, PublishStatus, RemoveFinalizer, Fail, Succeed, Return, Idle

LEMMA FinalizesDeletedStep ==
  ASSUME LiveInv, [Next]_vars
  PROVE  FinalizesDeleted'
<1> SUFFICES ASSUME job' = "finalize"
             PROVE  svc'[cur'].del \/ ~svc'[cur'].fin
  BY DEF FinalizesDeleted
<1>0. /\ IInv /\ WorkerTypeOK /\ JobOK /\ KubeTypeOK
  BY DEF LiveInv, IInv, TypeOK
<1>1. CASE StartFinalize
  <2>1. cur \in Services /\ cur' = cur /\ svc' = svc /\ seen[cur].fin /\ seen[cur].del
    BY <1>0, <1>1 DEF StartFinalize, Getting, At, svcVars, WorkerTypeOK
  <2>2. seen[cur] \in Version /\ InCache(cur, seen[cur])
    BY <1>0, <2>1 DEF KubeTypeOK, InCache
  <2> QED
    BY <2>1, <2>2 DEF LiveInv, CacheDel
<1>2. CASE job = "finalize" /\ cur' = cur
  <2>1. cur \in Services /\ (svc[cur].del \/ ~svc[cur].fin)
    BY <1>0, <1>2 DEF LiveInv, FinalizesDeleted, WorkerTypeOK, JobOK
  <2>2. Edited(svc[cur], svc'[cur])
    BY <1>0, <2>1, Versions, WriterIsNoFinalizer DEF Wrote
  <2> QED
    BY <1>2, <2>1, <2>2 DEF Edited
<1> QED
  BY <1>0, <1>1, <1>2, FinalizeGoesOn

(* Publishing finds the finalizer in place, and removing it takes the      *)
(* address along.                                                          *)
LEMMA ShownHasFinStep ==
  ASSUME LiveInv, [Next]_vars
  PROVE  ShownHasFin'
<1> SUFFICES ASSUME NEW s \in Services, svc'[s].ip # None
             PROVE  svc'[s].fin
  BY DEF ShownHasFin
<1>0. IInv /\ svc[s] \in Version /\ (svc[s].ip # None => svc[s].fin)
  BY DEF LiveInv, ShownHasFin, IInv, TypeOK, KubeTypeOK
<1>1. CASE Edited(svc[s], svc'[s])
  BY <1>0, <1>1 DEF Edited
<1>2. CASE s = cur /\ Wrote(s, svc'[s])
  <2>1. PublishStatus => svc[s].fin
    BY <1>0, <1>2 DEF PublishStatus, At, IInv, WorkerFin, JobOK, ReconcileSteps
  <2> QED
    BY <1>0, <1>2, <2>1 DEF Wrote, Version, Absent
<1> QED
  BY <1>0, <1>1, <1>2, Versions

LEMMA LiveInvInvariant == Spec => []LiveInv
<1>1. Init => LiveInv
  <2> SUFFICES ASSUME Init PROVE LiveInv
    OBVIOUS
  <2>1. IInv
    BY IInvInit
  <2>2. Configured /\ FinalizesDeleted
    BY DEF Init, Configured, FinalizesDeleted
  <2>3. CacheDel /\ ShownHasFin
    BY DEF Init, KubeInit, CacheDel, ShownHasFin, InCache, Absent, Created
  <2> QED
    BY <2>1, <2>2, <2>3 DEF LiveInv
<1>2. LiveInv /\ [Next]_vars => LiveInv'
  <2> SUFFICES ASSUME LiveInv, [Next]_vars PROVE LiveInv'
    OBVIOUS
  <2>1. IInv' /\ PublishInv
    BY IInvStep, IInvParts DEF LiveInv, PublishInv
  <2> QED
    BY <2>1, ConfiguredStep, CacheDelStep, FinalizesDeletedStep, ShownHasFinStep DEF LiveInv
<1> QED
  BY <1>1, <1>2, PTL DEF Spec

-----------------------------------------------------------------------------
(* Who writes what others rely on.                                         *)

(* A Service that shows an address did before, or it is published now.     *)
LEMMA ShownBefore ==
  ASSUME LiveInv, [Next]_vars, NEW s \in Services, Shown(s)'
  PROVE  \/ Shown(s) /\ svc'[s].ip = svc[s].ip
         \/ /\ PublishStatus /\ s = cur /\ job = "reconcile"
            /\ svc'[s].ip = ip
<1>0. /\ IInv /\ svc[s] \in Version
      /\ svc[s].ip # None => svc[s].fin
      /\ svc'[s].fin
  BY ShownHasFinStep DEF LiveInv, ShownHasFin, IInv, TypeOK, KubeTypeOK, Shown
<1>1. CASE Edited(svc[s], svc'[s])
  BY <1>0, <1>1 DEF Edited, Shown
<1>2. CASE s = cur /\ Wrote(s, svc'[s])
  <2>1. PublishStatus => job = "reconcile"
    BY <1>0 DEF PublishStatus, At, IInv, JobOK, ReconcileSteps
  <2> QED
    BY <1>0, <1>2, <2>1 DEF Wrote, Version, Absent, Shown
<1> QED
  BY <1>0, <1>1, <1>2, Versions

LEMMA OthersLeaveFiles ==
  ASSUME [Next]_vars, ~OpenConfig, ~WriteConfig, ~RemoveConfig, ~Crash
  PROVE  nginxFile' = nginxFile /\ nginxRun' \in {nginxFile, nginxRun}
<1> USE DEF hostVars
<1>1. CASE Worker
  <2>1. CASE ReloadConfig \/ ReloadAfterRemove
    BY <2>1 DEF ReloadConfig, ReloadAfterRemove, ReloadNGINX, ReloadRefused, Result
  <2>2. CASE RewritesKeepalived
    BY <2>2 DEF RewritesKeepalived, OpenPrimary, WritePrimary, OpenSecondary,
       WriteSecondary, Restart, OpenPrimaryFile, WritePrimaryFile, OpenSecondaryFile,
       WriteSecondaryFile, RestartKeepalived
  <2>3. CASE ~(ReloadConfig \/ ReloadAfterRemove) /\ ~RewritesKeepalived
    BY <1>1, <2>3 DEF RewritesKeepalived, Worker, SkipService, AddFinalizer,
       StartReconcile, StartFinalize, LookupIP, AllocateIP, FetchIP, ReleaseIP, GetVRIDs,
       LoadVIPs, GetNodes, PublishStatus, RemoveFinalizer, Getting, ReadingAllocations
  <2> QED
    BY <2>1, <2>2, <2>3
<1>2. CASE NeighbourActs
  BY <1>2 DEF NeighbourActs, NeighbourReloads, NeighbourRestarts, ReloadNGINX,
     RestartKeepalived, Result
<1>3. CASE \/ DeliverMap \/ PoolChanges \/ StartupPublishesVRIDs \/ UNCHANGED vars
           \/ \E s \in Services : Dequeue(s) \/ EventHappens(s) \/ InformerDelivers(s)
  BY <1>3 DEF DeliverMap, PoolChanges, StartupPublishesVRIDs, Dequeue, EventHappens,
     InformerDelivers, vars
<1> QED
  BY <1>1, <1>2, <1>3 DEF Next

(* No two Services share a file.                                           *)
OwnFiles == \A s, t \in Services : PathOf(s) = PathOf(t) => s = t

-----------------------------------------------------------------------------
(* No Service is forgotten.                                                *)

(* What nginx has on disk, and then runs, is what the worker rendered.     *)
RenderedStays ==
  /\ pc \in {"nginxreload", "status"} => nginxFile[PathOf(cur)] = Rendered
  /\ pc = "status" => nginxRun[PathOf(cur)] = Rendered

(* The nodes the worker proxies to are those of now, or the key is waiting *)
(* again, or it will be because the Service is no LoadBalancer right now.  *)
NodesFresh ==
  pc \in {"nginxopen", "nginxwrite", "nginxreload", "status"} =>
    nodes = endpoints[cur] \/ Waiting(cur) \/ ~IsLoadBalancerService(cur)

(* So are the ports, and a Service deleted meanwhile waits.                *)
CopyFresh ==
  job = "reconcile" => Waiting(cur) \/ (port = svc[cur].port /\ ~svc[cur].del)

DeletedHasFin == \A s \in Services : svc[s].del => svc[s].fin

FreshInv == IInv /\ RenderedStays /\ NodesFresh /\ CopyFresh /\ DeletedHasFin

(* A write is on its way to the informer.                                  *)
LEMMA StoreIsNoticed ==
  ASSUME KubeTypeOK, NEW t \in Services, NEW v \in Version, StoreService(t, v),
         NEW s \in Services
  PROVE  /\ svc'[s] # svc[s] => feed'[s] # <<>>
         /\ feed[s] # <<>> => feed'[s] # <<>>
<1>1. Append(feed[t], v) # <<>>
  BY AppendElements DEF KubeTypeOK
<1> QED
  BY <1>1 DEF StoreService, KubeTypeOK

(* Every change of a Service is on its way, and nothing on its way is lost *)
(* but by a restart; what arrives is enqueued.                             *)
LEMMA ChangesAreNoticed ==
  ASSUME IInv, [Next]_vars, NEW s \in Services
  PROVE  /\ svc'[s] # svc[s] => feed'[s] # <<>>
         /\ feed[s] # <<>> => feed'[s] # <<>> \/ Crash \/ s \in queue'
<1>1. /\ KubeTypeOK
      /\ \A t \in Services : svc[t] \in Version
  BY DEF IInv, TypeOK, KubeTypeOK
<1>2. CASE UNCHANGED svcVars
  BY <1>2 DEF svcVars
<1>3. CASE \E t \in Services : \E v \in Version : StoreService(t, v)
  BY <1>1, <1>3, StoreIsNoticed
<1>4. CASE \E t \in Services : EditService(t)
  <2>1. PICK t \in Services : EditService(t)
    BY <1>4
  <2>2. svc' = svc /\ feed' = [feed EXCEPT ![t] = Append(@, svc[t])]
    BY <2>1 DEF EditService
  <2>3. Append(feed[t], svc[t]) # <<>>
    BY <1>1, AppendElements DEF KubeTypeOK
  <2> QED
    BY <1>1, <2>2, <2>3 DEF KubeTypeOK
<1>5. CASE \E t \in Services : InformerDelivers(t)
  <2>1. PICK t \in Services : InformerDelivers(t)
    BY <1>5
  <2>2. svc' = svc /\ queue' = queue \cup {t} /\ feed' = [feed EXCEPT ![t] = Tail(@)]
    BY <2>1 DEF InformerDelivers, DeliverService
  <2> QED
    BY <1>1, <2>2 DEF KubeTypeOK
<1>6. CASE Crash
  BY <1>6 DEF Crash, Relist
<1>7. CASE Worker
  BY <1>2, <1>3, <1>7, WorkerStores
<1>8. CASE \E t \in Services : EventOf(t) /\ ~EditService(t)
  BY <1>2, <1>3, <1>8, UserStores
<1>9. CASE \/ DeliverMap \/ PoolChanges \/ NeighbourActs \/ StartupPublishesVRIDs
           \/ UNCHANGED vars \/ \E t \in Services : Dequeue(t)
  <2>1. UNCHANGED svcVars
    BY <1>9 DEF DeliverMap, DeliverAllocations, PoolChanges, ChangePool, NeighbourActs,
       StartupPublishesVRIDs, Dequeue, vars, kubeVars
  <2> QED
    BY <1>2, <2>1
<1> QED
  BY <1>4, <1>5, <1>6, <1>7, <1>8, <1>9 DEF Next, EventHappens

(* Only the worker takes a key out of the queue.                           *)
LEMMA KeysStay ==
  ASSUME [Next]_vars, NEW s \in Services, s \in queue, ~Dequeue(s), ~Crash
  PROVE  s \in queue'
<1>1. CASE Worker
  <2> USE DEF At, Getting, ReadingAllocations, Then, Goto, Return, Succeed, Fail
  <2>1. CASE SkipService \/ AddFinalizer \/ StartReconcile \/ StartFinalize
    BY <2>1 DEF SkipService, AddFinalizer, StartReconcile, StartFinalize
  <2>2. CASE LookupIP \/ AllocateIP \/ FetchIP \/ ReleaseIP
    BY <2>2 DEF LookupIP, AllocateIP, FetchIP, ReleaseIP
  <2>3. CASE GetVRIDs \/ LoadVIPs \/ RewritesKeepalived
    BY <2>3 DEF RewritesKeepalived, GetVRIDs, LoadVIPs, OpenPrimary, WritePrimary, OpenSecondary,
       WriteSecondary, Restart
  <2>4. CASE GetNodes \/ OpenConfig \/ WriteConfig \/ ReloadConfig \/ PublishStatus
    BY <2>4 DEF GetNodes, OpenConfig, WriteConfig, ReloadConfig, PublishStatus
  <2>5. CASE RemoveConfig \/ ReloadAfterRemove \/ RemoveFinalizer
    BY <2>5 DEF RemoveConfig, ReloadAfterRemove, RemoveFinalizer
  <2> QED
    BY <1>1, <2>1, <2>2, <2>3, <2>4, <2>5 DEF Worker, RewritesKeepalived
<1>2. CASE \E t \in Services : EventHappens(t)
  BY <1>2 DEF EventHappens, EventOf, CreateService, DeleteService, RetypeService, ChangePorts,
     EditService, ChangeEndpoints, Resync, UserWrites
<1>3. CASE \E t \in Services : Dequeue(t) \/ InformerDelivers(t)
  BY <1>3 DEF Dequeue, InformerDelivers, DeliverService
<1>4. CASE DeliverMap \/ PoolChanges \/ NeighbourActs \/ StartupPublishesVRIDs \/ UNCHANGED vars
  BY <1>4 DEF DeliverMap, DeliverAllocations, PoolChanges, ChangePool, NeighbourActs,
     StartupPublishesVRIDs, vars, kubeVars
<1> QED
  BY <1>1, <1>2, <1>3, <1>4 DEF Next

LEMMA WaitingStays ==
  ASSUME IInv, [Next]_vars, NEW s \in Services, Waiting(s), ~Dequeue(s), ~Crash
  PROVE  Waiting(s)'
  BY ChangesAreNoticed, KeysStay DEF Waiting

(* Only an event changes the endpoints, and of a Service the informer      *)
(* knows as a LoadBalancer it enqueues the key.                            *)
LEMMA EndpointsAreNoticed ==
  ASSUME IInv, [Next]_vars, NEW s \in Services, endpoints'[s] # endpoints[s]
  PROVE  s \in queue' \/ (~IsLoadBalancerService(s) /\ seen' = seen)
<1>1. endpoints \in [Services -> SUBSET Nodes]
  BY DEF IInv, TypeOK, KubeTypeOK
<1>2. PICK t \in Services : ChangeEndpoints(t)
  <2>1. CASE Worker
    <3>1. UNCHANGED inputs
      BY <2>1 DEF Worker, SkipService, AddFinalizer, StartReconcile, StartFinalize,
         LookupIP, AllocateIP, FetchIP, ReleaseIP, GetVRIDs, LoadVIPs, OpenPrimary,
         WritePrimary, OpenSecondary, WriteSecondary, Restart, GetNodes, OpenConfig,
         WriteConfig, ReloadConfig, PublishStatus, RemoveConfig, ReloadAfterRemove,
         RemoveFinalizer, Getting, ReadingAllocations, At, Others
    <3> QED
      BY <3>1 DEF inputs
  <2>2. CASE \E t \in Services : EventHappens(t)
    BY <2>2 DEF EventHappens, EventOf, CreateService, DeleteService, RetypeService,
       ChangePorts, EditService, Resync, UserWrites, inputs
  <2>3. CASE \/ DeliverMap \/ PoolChanges \/ NeighbourActs \/ StartupPublishesVRIDs
             \/ Crash \/ UNCHANGED vars
             \/ \E t \in Services : Dequeue(t) \/ InformerDelivers(t)
    BY <2>3 DEF DeliverMap, DeliverAllocations, PoolChanges, ChangePool, NeighbourActs,
       StartupPublishesVRIDs, Crash, Relist, Dequeue, At, Others, InformerDelivers,
       DeliverService, vars, kubeVars, inputs
  <2> QED
    BY <2>1, <2>2, <2>3 DEF Next
<1>3. s = t /\ seen' = seen
  BY <1>1, <1>2 DEF ChangeEndpoints, svcVars
<1> QED
  BY <1>2, <1>3 DEF ChangeEndpoints

(* What arrives is enqueued.                                               *)
LEMMA SeenStays ==
  ASSUME KubeTypeOK, [Next]_vars, NEW s \in Services, s \notin queue', ~Crash
  PROVE  seen'[s] = seen[s]
<1>1. CASE Worker
  BY <1>1 DEF Worker, SkipService, AddFinalizer, StartReconcile, StartFinalize, LookupIP,
     AllocateIP, FetchIP, ReleaseIP, GetVRIDs, LoadVIPs, OpenPrimary, WritePrimary,
     OpenSecondary, WriteSecondary, Restart, GetNodes, OpenConfig, WriteConfig,
     ReloadConfig, PublishStatus, RemoveConfig, ReloadAfterRemove, RemoveFinalizer,
     ReadingAllocations, StoreService, svcVars
<1>2. CASE \E t \in Services : EventHappens(t)
  BY <1>2 DEF EventHappens, EventOf, CreateService, DeleteService, RetypeService, ChangePorts,
     EditService, ChangeEndpoints, Resync, UserWrites, StoreService, svcVars
<1>3. CASE \E t \in Services : InformerDelivers(t)
  BY <1>3 DEF InformerDelivers, DeliverService, KubeTypeOK
<1>4. CASE \/ DeliverMap \/ PoolChanges \/ NeighbourActs \/ StartupPublishesVRIDs
           \/ UNCHANGED vars \/ \E t \in Services : Dequeue(t)
  BY <1>4 DEF DeliverMap, DeliverAllocations, PoolChanges, ChangePool, NeighbourActs,
     StartupPublishesVRIDs, Dequeue, vars, kubeVars, svcVars
<1> QED
  BY <1>1, <1>2, <1>3, <1>4 DEF Next

LEMMA DeletedHasFinStep ==
  ASSUME IInv, DeletedHasFin, [Next]_vars
  PROVE  DeletedHasFin'
<1> SUFFICES ASSUME NEW s \in Services, svc'[s].del
             PROVE  svc'[s].fin
  BY DEF DeletedHasFin
<1>1. svc[s] \in Version /\ (svc[s].del => svc[s].fin)
  BY DEF DeletedHasFin, IInv, TypeOK, KubeTypeOK
<1>2. CASE Edited(svc[s], svc'[s])
  BY <1>1, <1>2 DEF Edited
<1>3. CASE Wrote(s, svc'[s])
  BY <1>1, <1>3 DEF Wrote, Version, Absent
<1> QED
  BY <1>2, <1>3, Versions

(* Which steps lead to the calls that put the file in place.               *)
LEMMA TowardsNginx ==
  ASSUME JobOK, [Next]_vars, pc' \in {"nginxopen", "nginxwrite", "nginxreload", "status"}
  PROVE  \/ GetNodes /\ nodes' = endpoints[cur]
         \/ OpenConfig /\ pc' = "nginxwrite" /\ UNCHANGED <<regs, queue>>
         \/ WriteConfig /\ pc' = "nginxreload" /\ UNCHANGED <<regs, queue>>
         \/ ReloadConfig /\ pc' = "status" /\ UNCHANGED <<regs, queue>>
         \/ /\ ~Worker /\ ~Crash /\ pc' = pc
            /\ UNCHANGED <<cur, job, ip, nodes, port>>
            /\ \A s \in Services : ~Dequeue(s)
<1>1. CASE Worker
  <2> USE DEF At, Then, Goto, Return, Idle, Succeed, Fail
  <2>1. CASE SkipService \/ AddFinalizer \/ StartReconcile \/ StartFinalize
    BY <2>1 DEF SkipService, AddFinalizer, StartReconcile, StartFinalize
  <2>2. CASE LookupIP \/ AllocateIP \/ FetchIP \/ ReleaseIP
    BY <2>2 DEF LookupIP, AllocateIP, FetchIP, ReleaseIP
  <2>3. CASE GetVRIDs \/ LoadVIPs
    BY <2>3 DEF GetVRIDs, LoadVIPs
  <2>4. CASE RewritesKeepalived
    BY <2>4 DEF RewritesKeepalived, OpenPrimary, WritePrimary, OpenSecondary,
       WriteSecondary, Restart
  <2>5. CASE GetNodes
    BY <2>5 DEF GetNodes
  <2>6. CASE OpenConfig \/ WriteConfig \/ ReloadConfig
    BY <2>6 DEF OpenConfig, WriteConfig, ReloadConfig
  <2>7. CASE PublishStatus \/ RemoveConfig \/ ReloadAfterRemove \/ RemoveFinalizer
    BY <2>7 DEF PublishStatus, RemoveConfig, ReloadAfterRemove, RemoveFinalizer
  <2> QED
    BY <1>1, <2>1, <2>2, <2>3, <2>4, <2>5, <2>6, <2>7 DEF Worker, RewritesKeepalived
<1>2. CASE ~Worker
  <2>1. ~Crash /\ \A s \in Services : ~Dequeue(s)
    BY DEF Crash, Idle, Dequeue
  <2>2. UNCHANGED <<pc, cur, job, ip, nodes, port>>
    BY <1>2, <2>1 DEF Next, DeliverMap, PoolChanges, NeighbourActs, StartupPublishesVRIDs,
       EventHappens, InformerDelivers, vars, regs
  <2> QED
    BY <1>2, <2>1, <2>2
<1> QED
  BY <1>1, <1>2

LEMMA RenderedStaysStep ==
  ASSUME IInv, RenderedStays, [Next]_vars
  PROVE  RenderedStays'
<1> SUFFICES ASSUME pc' \in {"nginxreload", "status"}
             PROVE  /\ nginxFile'[PathOf(cur')] = Rendered'
                    /\ pc' = "status" => nginxRun'[PathOf(cur')] = Rendered'
  BY DEF RenderedStays, PathOf
<1>0. HostTypeOK /\ WorkerTypeOK /\ JobOK
  BY DEF IInv, TypeOK
<1>1. CASE GetNodes \/ OpenConfig
  BY <1>1 DEF GetNodes, OpenConfig, Then, Goto, Fail, Return, Idle
<1>2. CASE WriteConfig /\ pc' = "nginxreload" /\ UNCHANGED <<regs, queue>>
  <2>1. PathOf(cur) \in Paths /\ Rendered' = Rendered /\ cur' = cur
    BY <1>0, <1>2 DEF WriteConfig, At, WorkerTypeOK, Paths, regs, Rendered
  <2>2. PICK o \in Outcomes :
          WriteNginxFile(o, PathOf(cur), Rendered) /\ Then(o, "nginxreload")
    BY <1>2 DEF WriteConfig
  <2> HIDE DEF Rendered
  <2>3. o = "ok"
    BY <1>2, <2>2 DEF Then, Return, Idle
  <2> QED
    BY <1>0, <1>2, <2>1, <2>2, <2>3 DEF WriteNginxFile, Result, HostTypeOK
<1>3. CASE ReloadConfig /\ pc' = "status" /\ UNCHANGED <<regs, queue>>
  <2>1. nginxFile[PathOf(cur)] = Rendered /\ Rendered' = Rendered /\ cur' = cur
    BY <1>3 DEF ReloadConfig, At, RenderedStays, Rendered, regs
  <2>2. PICK o \in Outcomes : ReloadNGINX(o) /\ Then(o, "status")
    BY <1>3 DEF ReloadConfig, Fail, Return, Idle
  <2>3. o = "ok"
    BY <1>3, <2>2 DEF Then, Return, Idle
  <2> QED
    BY <2>1, <2>2, <2>3 DEF ReloadNGINX, Result
<1>4. CASE ~Worker /\ pc' = pc /\ UNCHANGED <<cur, job, ip, nodes, port>>
  <2>1. nginxFile' = nginxFile /\ nginxRun' \in {nginxFile, nginxRun}
    BY <1>4, OthersLeaveFiles DEF Worker, Crash, Idle
  <2> QED
    BY <1>4, <2>1 DEF RenderedStays, Rendered
<1> QED
  BY <1>0, <1>1, <1>2, <1>3, <1>4, TowardsNginx

LEMMA NodesFreshStep ==
  ASSUME IInv, NodesFresh, [Next]_vars
  PROVE  NodesFresh'
<1> SUFFICES ASSUME pc' \in {"nginxopen", "nginxwrite", "nginxreload", "status"},
                    ~(Waiting(cur)'), IsLoadBalancerService(cur)'
             PROVE  nodes' = endpoints'[cur']
  BY DEF NodesFresh
<1>0. WorkerTypeOK /\ JobOK /\ KubeTypeOK
  BY DEF IInv, TypeOK
<1>1. CASE GetNodes /\ nodes' = endpoints[cur]
  BY <1>1 DEF GetNodes, At, Others, inputs, Fail, Return, Idle
<1>2. CASE /\ OpenConfig \/ WriteConfig \/ ReloadConfig
           /\ UNCHANGED <<regs, queue>>
  <2>1. /\ pc \in {"nginxopen", "nginxwrite", "nginxreload"}
        /\ UNCHANGED <<endpoints, svcVars, regs, queue>>
    BY <1>2 DEF OpenConfig, WriteConfig, ReloadConfig, At, Others, inputs
  <2> QED
    BY <2>1 DEF NodesFresh, Waiting, IsLoadBalancerService, svcVars, regs
<1>3. CASE /\ ~Worker /\ ~Crash /\ pc' = pc
           /\ UNCHANGED <<cur, job, ip, nodes, port>>
           /\ \A s \in Services : ~Dequeue(s)
  <2>1. cur \in Services /\ cur' = cur /\ nodes' = nodes
    BY <1>0, <1>3 DEF WorkerTypeOK
  <2>2. ~Waiting(cur) /\ cur \notin queue'
    BY <1>3, <2>1, WaitingStays DEF Waiting
  <2>3. IsLoadBalancerService(cur)
    <3>1. seen'[cur] = seen[cur]
      BY <1>0, <1>3, <2>1, <2>2, SeenStays
    <3> QED
      BY <2>1, <3>1 DEF IsLoadBalancerService
  <2>4. endpoints'[cur] = endpoints[cur]
    BY <2>1, <2>2, <2>3, EndpointsAreNoticed
  <2> QED
    BY <1>3, <2>1, <2>2, <2>3, <2>4 DEF NodesFresh
<1> QED
  BY <1>0, <1>1, <1>2, <1>3, TowardsNginx

(* Who reconciles either has just begun or goes on.                        *)
LEMMA ReconcileGoesOn ==
  ASSUME JobOK, [Next]_vars, job' = "reconcile"
  PROVE  \/ AddFinalizer \/ StartReconcile
         \/ /\ job = "reconcile" /\ UNCHANGED <<cur, port>>
            /\ ~Crash /\ \A s \in Services : ~Dequeue(s)
<1>0. ~Crash /\ \A s \in Services : ~Dequeue(s)
  BY DEF Crash, Idle, Dequeue, At, JobOK
<1>1. CASE Worker
  <2> USE DEF At, Getting, ReadingAllocations, Then, Goto, Return, Idle, Succeed, Fail, regs
  <2>1. CASE SkipService \/ StartFinalize
    BY <2>1 DEF SkipService, StartFinalize
  <2>2. CASE LookupIP \/ AllocateIP \/ FetchIP \/ ReleaseIP
    BY <1>0, <2>2 DEF LookupIP, AllocateIP, FetchIP, ReleaseIP
  <2>3. CASE GetVRIDs \/ LoadVIPs \/ RewritesKeepalived
    BY <1>0, <2>3 DEF RewritesKeepalived, GetVRIDs, LoadVIPs, OpenPrimary, WritePrimary,
       OpenSecondary, WriteSecondary, Restart
  <2>4. CASE GetNodes \/ OpenConfig \/ WriteConfig \/ ReloadConfig \/ PublishStatus
    BY <1>0, <2>4 DEF GetNodes, OpenConfig, WriteConfig, ReloadConfig, PublishStatus
  <2>5. CASE RemoveConfig \/ ReloadAfterRemove \/ RemoveFinalizer
    BY <1>0, <2>5 DEF RemoveConfig, ReloadAfterRemove, RemoveFinalizer
  <2> QED
    BY <1>1, <2>1, <2>2, <2>3, <2>4, <2>5 DEF Worker, RewritesKeepalived
<1>2. CASE ~Worker
  BY <1>0, <1>2 DEF Next, DeliverMap, PoolChanges, NeighbourActs, StartupPublishesVRIDs,
     EventHappens, InformerDelivers, vars, regs
<1> QED
  BY <1>1, <1>2

LEMMA CopyFreshStep ==
  ASSUME IInv, CopyFresh, [Next]_vars
  PROVE  CopyFresh'
<1> SUFFICES ASSUME job' = "reconcile", ~(Waiting(cur)')
             PROVE  port' = svc'[cur'].port /\ ~svc'[cur'].del
  BY DEF CopyFresh
<1>0. WorkerTypeOK /\ JobOK /\ KubeTypeOK /\ CacheFollows
  BY DEF IInv, TypeOK
<1>1. CASE AddFinalizer \/ StartReconcile
  <2>1. /\ cur \in Services /\ cur' = cur /\ port' = seen[cur].port /\ ~seen[cur].del
        /\ feed'[cur] = <<>>
    BY <1>0, <1>1 DEF AddFinalizer, StartReconcile, Getting, At, WorkerTypeOK, Waiting, Fail,
       Return, Idle
  <2>2. svc'[cur] = svc[cur]
    BY <2>1, ChangesAreNoticed
  <2>3. feed[cur] = <<>>
    <3>1. queue' = queue /\ ~Crash
      BY <1>1 DEF AddFinalizer, StartReconcile, Getting, At, Crash, Idle, Fail, Return
    <3>2. cur \notin queue'
      BY <2>1 DEF Waiting
    <3> QED
      BY <2>1, <3>1, <3>2, ChangesAreNoticed
  <2> QED
    BY <1>0, <2>1, <2>2, <2>3 DEF CacheFollows
<1>2. CASE /\ job = "reconcile" /\ UNCHANGED <<cur, port>>
           /\ ~Crash /\ \A s \in Services : ~Dequeue(s)
  <2>1. cur \in Services /\ cur' = cur /\ port' = port
    BY <1>0, <1>2 DEF WorkerTypeOK, JobOK
  <2>2. ~Waiting(cur)
    BY <1>2, <2>1, WaitingStays DEF Waiting
  <2>3. svc'[cur] = svc[cur]
    BY <2>1, ChangesAreNoticed DEF Waiting
  <2> QED
    BY <1>2, <2>1, <2>2, <2>3 DEF CopyFresh
<1> QED
  BY <1>0, <1>1, <1>2, ReconcileGoesOn

LEMMA FreshInvInvariant == Spec => []FreshInv
<1>1. Init => FreshInv
  <2> SUFFICES ASSUME Init PROVE FreshInv
    OBVIOUS
  <2>1. IInv
    BY IInvInit
  <2>2. RenderedStays /\ NodesFresh /\ CopyFresh /\ DeletedHasFin
    BY DEF Init, KubeInit, RenderedStays, NodesFresh, CopyFresh, DeletedHasFin, Absent,
       Created
  <2> QED
    BY <2>1, <2>2 DEF FreshInv
<1>2. FreshInv /\ [Next]_vars => FreshInv'
  BY IInvStep, RenderedStaysStep, NodesFreshStep, CopyFreshStep, DeletedHasFinStep
     DEF FreshInv
<1> QED
  BY <1>1, <1>2, PTL DEF Spec

(* The worker lets go of a key that is not enqueued again in three ways.   *)
LEMMA LettingGo ==
  ASSUME WorkerTypeOK, [Next]_vars, cur # None, cur' # cur, cur \notin queue', ~Crash
  PROVE  \/ SkipService /\ Succeed
         \/ PublishStatus /\ Succeed
         \/ RemoveFinalizer /\ Succeed
<1>1. CASE Worker
  <2> USE DEF At, Getting, ReadingAllocations, Then, Goto, Return, Fail, regs
  <2>1. CASE SkipService
    BY <2>1 DEF SkipService
  <2>2. CASE AddFinalizer \/ StartReconcile \/ StartFinalize
    BY <2>2 DEF AddFinalizer, StartReconcile, StartFinalize
  <2>3. CASE LookupIP \/ AllocateIP \/ FetchIP \/ ReleaseIP
    BY <2>3 DEF LookupIP, AllocateIP, FetchIP, ReleaseIP
  <2>4. CASE GetVRIDs \/ LoadVIPs \/ RewritesKeepalived
    BY <2>4 DEF RewritesKeepalived, GetVRIDs, LoadVIPs, OpenPrimary, WritePrimary, OpenSecondary,
       WriteSecondary, Restart
  <2>5. CASE GetNodes \/ OpenConfig \/ WriteConfig \/ ReloadConfig
    BY <2>5 DEF GetNodes, OpenConfig, WriteConfig, ReloadConfig
  <2>6. CASE PublishStatus
    BY <2>6 DEF PublishStatus
  <2>7. CASE RemoveConfig \/ ReloadAfterRemove
    BY <2>7 DEF RemoveConfig, ReloadAfterRemove
  <2>8. CASE RemoveFinalizer
    BY <2>8 DEF RemoveFinalizer
  <2> QED
    BY <1>1, <2>1, <2>2, <2>3, <2>4, <2>5, <2>6, <2>7, <2>8 DEF Worker, RewritesKeepalived
<1>2. CASE \E s \in Services : Dequeue(s)
  BY <1>2 DEF Dequeue, At, WorkerTypeOK
<1>3. CASE ~Worker /\ \A s \in Services : ~Dequeue(s)
  BY <1>3 DEF Next, DeliverMap, PoolChanges, NeighbourActs, StartupPublishesVRIDs,
     EventHappens, InformerDelivers, vars, regs
<1> QED
  BY <1>1, <1>2, <1>3

(* A LoadBalancer Service leaves the worker's hands, and nothing brings it *)
(* back, only when its status is written as it was.                        *)
LEMMA LetGoPublished ==
  ASSUME IInv, DeletedHasFin, [Next]_vars, NEW s \in Services, cur = s, cur' # s,
         s \notin queue', feed'[s] = <<>>, ~Crash, svc'[s].exists, svc'[s].lb
  PROVE  /\ PublishStatus /\ pc = "status" /\ job = "reconcile"
         /\ UNCHANGED <<svc, endpoints, nginxFile, nginxRun>>
         /\ ip \in IPs /\ svc[s].ip = ip
         /\ ~Waiting(s) /\ seen[s] = svc[s]
<1>0. /\ KubeTypeOK /\ WorkerTypeOK /\ JobOK /\ CacheFollows
      /\ cur # None /\ svc[cur] \in Version
  BY NoneAssumption DEF IInv, TypeOK, KubeTypeOK
<1>1. svc'[cur] = svc[cur] /\ feed[cur] = <<>>
  BY <1>0, ChangesAreNoticed
<1>2. seen[cur] = svc[cur]
  BY <1>0, <1>1 DEF CacheFollows
<1>3. ~SkipService
  BY <1>0, <1>1, <1>2 DEF SkipService, DeletedHasFin
<1>4. ~(RemoveFinalizer /\ Succeed)
  <2> SUFFICES ASSUME RemoveFinalizer, Succeed PROVE FALSE
    OBVIOUS
  <2>1. PICK o \in Outcomes :
          /\ StoreService(cur, Result(o, svc[cur], Absent))
          /\ (o = "ok" /\ Succeed) \/ (Faulty(o) /\ Return({cur}))
    BY DEF RemoveFinalizer, Fail, Return
  <2>2. o = "ok"
    BY <2>1 DEF Return
  <2>3. svc'[cur] = Absent
    BY <1>0, <2>1, <2>2 DEF StoreService, Result, KubeTypeOK
  <2> QED
    BY <2>3 DEF Absent
<1>5. PublishStatus /\ Succeed
  BY <1>0, <1>3, <1>4, LettingGo
<1>6. /\ pc = "status" /\ job = "reconcile" /\ ip \in IPs /\ queue' = queue
      /\ UNCHANGED <<endpoints, nginxFile, nginxRun>>
  BY <1>0, <1>5 DEF PublishStatus, At, Others, inputs, hostVars, Succeed, Return, JobOK,
     WorkerTypeOK, ReconcileSteps
<1>7. svc' = [svc EXCEPT ![cur] = [svc[cur] EXCEPT !.ip = ip]]
  <2>1. PICK o \in Outcomes :
          /\ StoreService(cur, Result(o, svc[cur], [svc[cur] EXCEPT !.ip = ip]))
          /\ (o = "ok" /\ Succeed) \/ (Faulty(o) /\ Return({cur}))
    BY <1>5 DEF PublishStatus, Fail, Return
  <2>2. o = "ok"
    BY <2>1 DEF Return
  <2> QED
    BY <2>1, <2>2 DEF StoreService, Result
<1>8. svc[cur].ip = ip /\ svc' = svc
  BY <1>0, <1>1, <1>7 DEF KubeTypeOK, Version
<1> QED
  BY <1>1, <1>2, <1>5, <1>6, <1>8 DEF Waiting

LEMMA LetGoSettled ==
  ASSUME FreshInv, [Next]_vars, NEW s \in Services, cur = s, cur' # s,
         s \notin queue', feed'[s] = <<>>, ~Crash, svc'[s].exists, svc'[s].lb
  PROVE  UNCHANGED <<svc, endpoints, nginxFile, nginxRun>> /\ Settled(s)
<1>1. /\ pc = "status" /\ job = "reconcile"
      /\ UNCHANGED <<svc, endpoints, nginxFile, nginxRun>>
      /\ ip \in IPs /\ svc[s].ip = ip
      /\ ~Waiting(s) /\ IsLoadBalancerService(s)
  BY LetGoPublished DEF FreshInv, IsLoadBalancerService
<1>2. nodes = endpoints[cur] /\ port = svc[cur].port /\ ~svc[cur].del
  BY <1>1 DEF FreshInv, NodesFresh, CopyFresh
<1>3. Rendered = Desired(s)
  BY <1>1, <1>2 DEF Rendered, Desired
<1>4. nginxFile[PathOf(s)] = Rendered /\ nginxRun[PathOf(s)] = Rendered
  BY <1>1 DEF FreshInv, RenderedStays
<1> QED
  BY <1>1, <1>2, <1>3, <1>4, NoneAssumption DEF Settled, Files

(* A settled Service stays so until something is on its way.               *)
LEMMA SettledStays ==
  ASSUME OwnFiles, IInv, [Next]_vars, NEW s \in Services, Settled(s), cur # s,
         svc[s].exists, svc[s].lb, ~(Waiting(s)'), ~Crash
  PROVE  Settled(s)'
<1>0. /\ KubeTypeOK /\ HostTypeOK /\ WorkerTypeOK /\ JobOK /\ CacheFollows
      /\ PathOf(s) \in Paths
  BY DEF IInv, TypeOK, Paths
<1>1. svc'[s] = svc[s] /\ s \notin queue'
  BY ChangesAreNoticed DEF Waiting
<1>2. feed[s] = <<>> /\ seen[s] = svc[s]
  BY <1>0, <1>1, ChangesAreNoticed DEF Waiting, CacheFollows
<1>3. endpoints'[s] = endpoints[s]
  BY <1>1, <1>2, EndpointsAreNoticed DEF IsLoadBalancerService
<1>4. /\ nginxFile'[PathOf(s)] = nginxFile[PathOf(s)]
      /\ nginxRun'[PathOf(s)] \in {nginxFile[PathOf(s)], nginxRun[PathOf(s)]}
  <2>1. CASE OpenConfig \/ WriteConfig \/ RemoveConfig
    <3>1. cur \in Services /\ PathOf(cur) # PathOf(s)
      BY <1>0, <2>1 DEF OpenConfig, WriteConfig, RemoveConfig, At, WorkerTypeOK, OwnFiles
    <3>2. /\ nginxRun' = nginxRun
          /\ \E c : nginxFile' \in {nginxFile, [nginxFile EXCEPT ![PathOf(cur)] = c]}
      BY <2>1 DEF OpenConfig, WriteConfig, RemoveConfig, OpenNginxFile, WriteNginxFile,
         RemoveNginxFile, Result
    <3> QED
      BY <1>0, <3>1, <3>2 DEF HostTypeOK
  <2>2. CASE ~OpenConfig /\ ~WriteConfig /\ ~RemoveConfig
    BY <2>2, OthersLeaveFiles
  <2> QED
    BY <2>1, <2>2
<1>5. Desired(s)' = Desired(s)
  BY <1>1, <1>3 DEF Desired
<1> QED
  BY <1>1, <1>4, <1>5 DEF Settled, Files, PathOf

(* NothingForgotten: whatever is late, fails or crashes, and whoever else  *)
(* uses the host, a LoadBalancer Service that Reconcile will not look at   *)
(* again is as its users want it; finalizeService, whose Service is always *)
(* waiting or in hand until it is gone, included.                          *)
THEOREM NothingIsForgotten ==
  ASSUME OwnFiles
  PROVE  Spec => []NothingForgotten
<1>1. Init => NothingForgotten
  BY DEF Init, KubeInit, NothingForgotten, Pending, Waiting
<1>2. FreshInv /\ NothingForgotten /\ [Next]_vars => NothingForgotten'
  <2> SUFFICES ASSUME FreshInv, NothingForgotten, [Next]_vars,
                      NEW s \in Services, svc'[s].exists, svc'[s].lb, ~(Pending(s)')
               PROVE  Settled(s)'
    BY DEF NothingForgotten, Settled, Pending, Waiting, Files, Desired, PathOf
  <2>0. IInv /\ cur' # s /\ ~(Waiting(s)')
    BY DEF FreshInv, Pending
  <2>1. ~Crash
    <3>1. Crash => svc' = svc /\ s \in queue'
      BY DEF Crash, Relist
    <3> QED
      BY <2>0, <3>1 DEF Waiting
  <2>2. svc'[s] = svc[s]
    BY <2>0, ChangesAreNoticed DEF Waiting
  <2>3. CASE cur = s
    <3>1. UNCHANGED <<svc, endpoints, nginxFile, nginxRun>> /\ Settled(s)
      BY <2>0, <2>1, <2>3, LetGoSettled DEF Waiting
    <3> QED
      BY <2>3, <3>1 DEF Settled, Files, Desired, PathOf
  <2>4. CASE cur # s /\ Waiting(s)
    <3>1. Dequeue(s)
      BY <2>0, <2>1, <2>4, WaitingStays
    <3> QED
      BY <2>0, <3>1 DEF Dequeue
  <2>5. CASE cur # s /\ ~Waiting(s)
    <3>1. Settled(s)
      BY <2>2, <2>5 DEF NothingForgotten, Pending, Settled
    <3> QED
      BY <2>0, <2>1, <2>2, <2>5, <3>1, SettledStays
  <2> QED
    BY <2>3, <2>4, <2>5
<1> QED
  BY <1>1, <1>2, FreshInvInvariant, PTL DEF Spec
=============================================================================
