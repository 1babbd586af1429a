----------------------------- MODULE LeaseProofs -----------------------------
(***************************************************************************)
(* Proof that the reconciler implements AddressLease when it reads the     *)
(* current map, and that a Service keeps the address it shows: for any     *)
(* number of Services and addresses, any lag of the Services, and any      *)
(* number of crashes and events.  Its reads are current when the map does  *)
(* not lag, whatever fails, or, however far it lags, when the sleeps       *)
(* outlast the lag and no reconciliation fails before them.                *)
(***************************************************************************)
EXTENDS ServedProofs

(* The watch of the map delivers up to the stored one.                     *)
MapFollows ==
  IF allocFeed = <<>> THEN allocSeen = alloc ELSE allocFeed[Len(allocFeed)] = alloc

(* No reconciliation fails between a write of the map and its sleep: the   *)
(* VRIDs are there from the start and no call fails.                       *)
SleepsReached == SleepOutlastsLag /\ VRIDsAtStart /\ MaxFaults = 0

CurrentReads == AllocLag = 0 \/ SleepsReached

(* Between a write of the map and the sleep that follows it.               *)
BeforeSleep == SharedSteps \cup {"nodes", "unfinalize"}

(* What the sleeps give: everywhere else the watch of the map is idle.     *)
Rested ==
  SleepsReached => vridsReady /\ (pc \notin BeforeSleep => allocFeed = <<>>)

(* What the worker has, or has given up, at each of its steps.             *)
Holding ==
  /\ pc = "allocate" => \A i \in IPs : alloc[i] # cur
  /\ job = "reconcile" /\ pc \notin {"lookup", "allocate", "fetchip"} => alloc[ip] = cur
  /\ job = "finalize" /\ pc \notin {"nginxremove", "removereload", "release"} =>
       \A i \in IPs : alloc[i] # cur

LeaseSafety ==
  /\ MapFollows /\ Rested /\ Holding
  /\ NoLeakedAddress /\ ConfigOwnsAddress /\ PublishedAddressHeld

-----------------------------------------------------------------------------
(* The map.                                                                *)

(* Only two steps change the map.                                          *)
LEMMA OnlyTwoWriteTheMap ==
  ASSUME [Next]_vars, ~AllocateIP, ~ReleaseIP
  PROVE  alloc' = alloc
<1> USE DEF allocVars
<1>1. CASE Worker
  BY <1>1 DEF Worker, SkipService, AddFinalizer, StartReconcile, StartFinalize, LookupIP,
     FetchIP, GetVRIDs, LoadVIPs, OpenPrimary, WritePrimary, OpenSecondary, WriteSecondary,
     Restart, GetNodes, OpenConfig, WriteConfig, ReloadConfig, PublishStatus, RemoveConfig,
     ReloadAfterRemove, RemoveFinalizer, Getting
<1>2. CASE \E s \in Services : EventHappens(s)
  BY <1>2 DEF EventHappens, EventOf, CreateService, DeleteService, RetypeService,
     ChangePorts, EditService, ChangeEndpoints, Resync, UserWrites
<1>3. CASE \/ DeliverMap \/ PoolChanges \/ NeighbourActs \/ StartupPublishesVRIDs \/ Crash
           \/ UNCHANGED vars \/ \E s \in Services : Dequeue(s) \/ InformerDelivers(s)
  BY <1>3 DEF DeliverMap, DeliverAllocations, PoolChanges, ChangePool, NeighbourActs,
     StartupPublishesVRIDs, Crash, Relist, Dequeue, InformerDelivers, DeliverService,
     vars, kubeVars
<1> QED
  BY <1>1, <1>2, <1>3 DEF Next

LEMMA MapFollowsStep ==
  ASSUME TypeInv, MapFollows, [Next]_vars
  PROVE  MapFollows'
<1>0. KubeTypeOK
  BY DEF TypeInv, TypeOK
<1>1. CASE UNCHANGED allocVars
  BY <1>1 DEF MapFollows, allocVars
<1>2. ASSUME NEW m \in Allocations, StoreAllocations(m)
      PROVE  MapFollows'
  BY <1>0, <1>2, AppendElements DEF StoreAllocations, KubeTypeOK, MapFollows
<1>3. CASE AllocateIP \/ ReleaseIP
  <2>1. cur \in Services /\ allocSeen \in Allocations /\ alloc \in Allocations
    BY <1>0, <1>3 DEF AllocateIP, ReleaseIP, ReadingAllocations, At, TypeInv, TypeOK,
       WorkerTypeOK, KubeTypeOK
  <2>2. \/ UNCHANGED allocVars
        \/ StoreAllocations(alloc)
        \/ \E i \in IPs : \/ StoreAllocations([allocSeen EXCEPT ![i] = cur])
                          \/ StoreAllocations([allocSeen EXCEPT ![i] = None])
    <3>1. \A k \in DOMAIN pool : pool[k] \in IPs
      BY <1>0, PoolType DEF KubeTypeOK
    <3> QED
      BY <1>3, <3>1 DEF AllocateIP, ReleaseIP, Result
  <2>3. \A i \in IPs : /\ [allocSeen EXCEPT ![i] = cur] \in Allocations
                       /\ [allocSeen EXCEPT ![i] = None] \in Allocations
    BY <2>1 DEF Allocations
  <2> QED
    BY <1>1, <1>2, <2>1, <2>2, <2>3
<1>4. CASE DeliverMap
  <2>1. /\ allocFeed # <<>> /\ allocFeed \in Seq(Allocations)
        /\ allocFeed[Len(allocFeed)] = alloc
        /\ allocSeen' = Head(allocFeed) /\ allocFeed' = Tail(allocFeed) /\ alloc' = alloc
    BY <1>0, <1>4 DEF DeliverMap, DeliverAllocations, KubeTypeOK, MapFollows
  <2>2. /\ Tail(allocFeed) \in Seq(Allocations)
        /\ Len(allocFeed) \in Nat \ {0} /\ Len(Tail(allocFeed)) = Len(allocFeed) - 1
        /\ Head(allocFeed) = allocFeed[1]
        /\ \A k \in 1 .. Len(Tail(allocFeed)) : Tail(allocFeed)[k] = allocFeed[k + 1]
    <3>1. \A q \in Seq(Allocations) : q # <<>> => Len(q) \in Nat \ {0}
      BY EmptySeq
    <3>2. Len(allocFeed) \in Nat \ {0}
      BY <2>1, <3>1
    <3> QED
      BY <2>1, <3>2
  <2>3. CASE Len(allocFeed) = 1
    <3>1. \A q \in Seq(Allocations) : q # <<>> => Len(q) \in Nat \ {0}
      BY EmptySeq
    <3>2. Len(Tail(allocFeed)) = 0
      BY <2>2, <2>3
    <3>3. Tail(allocFeed) = <<>>
      BY <2>2, <3>1, <3>2
    <3> QED
      BY <2>1, <2>2, <2>3, <3>3 DEF MapFollows
  <2>4. CASE Len(allocFeed) # 1
    <3>1. Len(Tail(allocFeed)) \in 1 .. Len(Tail(allocFeed)) /\ Len(Tail(allocFeed)) # 0
      BY <2>2, <2>4
    <3>2. Tail(allocFeed) # <<>>
      <4>1. Len(<<>>) = 0
        BY EmptySeq
      <4> QED
        BY <3>1, <4>1
    <3> QED
      BY <2>1, <2>2, <3>1, <3>2 DEF MapFollows
  <2> QED
    BY <2>3, <2>4
<1>5. CASE Crash
  BY <1>5 DEF Crash, Relist, MapFollows
<1>6. CASE Worker /\ ~AllocateIP /\ ~ReleaseIP
  BY <1>1, <1>6 DEF Worker, SkipService, AddFinalizer, StartReconcile, StartFinalize,
     LookupIP, FetchIP, GetVRIDs, LoadVIPs, OpenPrimary, WritePrimary, OpenSecondary,
     WriteSecondary, Restart, GetNodes, OpenConfig, WriteConfig, ReloadConfig,
     PublishStatus, RemoveConfig, ReloadAfterRemove, RemoveFinalizer, Getting
<1>7. CASE \/ PoolChanges \/ NeighbourActs \/ StartupPublishesVRIDs \/ UNCHANGED vars
           \/ \E s \in Services : Dequeue(s) \/ InformerDelivers(s) \/ EventHappens(s)
  <2>1. UNCHANGED allocVars
    BY <1>7 DEF PoolChanges, ChangePool, NeighbourActs, StartupPublishesVRIDs, Dequeue,
       InformerDelivers, DeliverService, EventHappens, EventOf, CreateService,
       DeleteService, RetypeService, ChangePorts, EditService, ChangeEndpoints, Resync,
       UserWrites, vars, kubeVars
  <2> QED
    BY <1>1, <2>1
<1> QED
  BY <1>3, <1>4, <1>5, <1>6, <1>7 DEF Next

(* The calls of ipam.go start with an idle watch and leave it to the sleep.*)
LEMMA RestedStep ==
  ASSUME TypeInv, Rested, [Next]_vars
  PROVE  Rested'
<1> USE DEF BeforeSleep, SharedSteps
<1> SUFFICES ASSUME SleepsReached
             PROVE  vridsReady' /\ (pc' \notin BeforeSleep => allocFeed' = <<>>)
  BY DEF Rested, SleepsReached
<1>1. vridsReady /\ (pc \notin BeforeSleep => allocFeed = <<>>)
  BY DEF Rested
<1>2. \A o : ~Faulty(o)
  BY DEF TypeInv, TypeOK, HostTypeOK, SleepsReached, Faulty
<1>3. CASE Worker
  <2> USE DEF At, Others, Getting, Then, Goto, Return, Idle, Succeed, Fail, regs, allocVars,
          ReadingAllocations
  <2>1. CASE SkipService \/ AddFinalizer \/ StartReconcile \/ StartFinalize
    BY <1>1, <2>1 DEF SkipService, AddFinalizer, StartReconcile, StartFinalize
  <2>2. CASE LookupIP \/ FetchIP
    BY <1>1, <2>2 DEF LookupIP, FetchIP
  <2>3. CASE AllocateIP \/ ReleaseIP
    BY <1>1, <1>2, <2>3 DEF AllocateIP, ReleaseIP
  <2>4. CASE GetVRIDs \/ LoadVIPs \/ RewritesKeepalived
    BY <1>1, <1>2, <2>4 DEF GetVRIDs, LoadVIPs, RewritesKeepalived, OpenPrimary,
       WritePrimary, OpenSecondary, WriteSecondary, Restart
  <2>5. CASE GetNodes \/ RemoveFinalizer
    BY <1>1, <2>5 DEF GetNodes, RemoveFinalizer, Slept, SleepsReached
  <2>6. CASE OpenConfig \/ WriteConfig \/ ReloadConfig \/ PublishStatus
    BY <1>1, <2>6 DEF OpenConfig, WriteConfig, ReloadConfig, PublishStatus
  <2>7. CASE RemoveConfig \/ ReloadAfterRemove
    BY <1>1, <2>7 DEF RemoveConfig, ReloadAfterRemove
  <2> QED
    BY <1>3, <2>1, <2>2, <2>3, <2>4, <2>5, <2>6, <2>7 DEF Worker, RewritesKeepalived
<1>4. CASE DeliverMap \/ Crash \/ StartupPublishesVRIDs
  BY <1>1, <1>4 DEF DeliverMap, DeliverAllocations, Crash, Relist, StartupPublishesVRIDs,
     kubeVars, allocVars
<1>5. CASE \/ PoolChanges \/ NeighbourActs \/ UNCHANGED vars
           \/ \E s \in Services : Dequeue(s) \/ InformerDelivers(s) \/ EventHappens(s)
  <2>1. allocFeed' = allocFeed /\ vridsReady' = vridsReady
    BY <1>5 DEF PoolChanges, ChangePool, NeighbourActs, Dequeue, At, Others,
       InformerDelivers, DeliverService, EventHappens, EventOf, CreateService,
       DeleteService, RetypeService, ChangePorts, EditService, ChangeEndpoints, Resync,
       UserWrites, vars, kubeVars, allocVars
  <2>2. pc' = pc \/ pc = "idle"
    BY <1>5 DEF PoolChanges, NeighbourActs, Dequeue, At, InformerDelivers, EventHappens, vars
  <2> QED
    BY <1>1, <2>1, <2>2
<1> QED
  BY <1>3, <1>4, <1>5 DEF Next

(* A read of the cache is a read of the map.                               *)
LEMMA ReadsAreCurrent ==
  ASSUME TypeInv, MapFollows, Rested, AllocReadable,
         AllocLag = 0 \/ (SleepsReached /\ pc \notin BeforeSleep)
  PROVE  allocSeen = alloc
<1>1. allocFeed \in Seq(Allocations)
  BY DEF TypeInv, TypeOK, KubeTypeOK
<1>2. allocFeed = <<>>
  BY <1>1, EmptySeq DEF AllocReadable, Rested
<1> QED
  BY <1>2 DEF MapFollows

(* What AllocateIP takes is free, and its Service has nothing yet.         *)
LEMMA AllocateTakes ==
  ASSUME LiveInv, LeaseSafety, CurrentReads, AllocateIP
  PROVE  /\ cur \in Services /\ job = "reconcile" /\ \A i \in IPs : alloc[i] # cur
         /\ UNCHANGED <<svc, hostVars>>
         /\ \/ alloc' = alloc /\ pc' = "idle"
            \/ \E i \in IPs :
                 /\ alloc[i] = None
                 /\ alloc' = [alloc EXCEPT ![i] = cur]
                 /\ \/ pc' = "idle"
                    \/ pc' = "vrids" /\ ip' = i /\ cur' = cur /\ job' = job
<1>1. TypeInv /\ AllocReadable /\ pc = "allocate"
  BY DEF LiveInv, IInv, TypeInv, AllocateIP, ReadingAllocations, At
<1>2. allocSeen = alloc
  BY <1>1, ReadsAreCurrent DEF LeaseSafety, CurrentReads, BeforeSleep, SharedSteps
<1>3. cur \in Services /\ job = "reconcile" /\ \A i \in IPs : alloc[i] # cur
  BY <1>1 DEF TypeInv, TypeOK, WorkerTypeOK, JobOK, ReconcileSteps, LeaseSafety, Holding
<1>4. UNCHANGED <<svc, hostVars>>
  BY DEF AllocateIP, ReadingAllocations, svcVars
<1>5. CASE Fail /\ UNCHANGED allocVars
  BY <1>3, <1>4, <1>5 DEF Fail, Return, Idle, allocVars
<1>6. ASSUME NEW k \in DOMAIN pool, NEW o \in Outcomes,
             FirstFree(allocSeen, k),
             StoreAllocations(Result(o, alloc, [allocSeen EXCEPT ![pool[k]] = cur])),
             \/ o = "ok" /\ pc' = "vrids" /\ ip' = pool[k] /\ UNCHANGED <<cur, job>>
             \/ Return({cur})
      PROVE  \/ alloc' = alloc /\ pc' = "idle"
             \/ \E i \in IPs :
                  /\ alloc[i] = None
                  /\ alloc' = [alloc EXCEPT ![i] = cur]
                  /\ \/ pc' = "idle"
                     \/ pc' = "vrids" /\ ip' = i /\ cur' = cur /\ job' = job
  <2>1. pool[k] \in IPs /\ alloc[pool[k]] = None
    BY <1>1, <1>2, <1>6, PoolType DEF TypeInv, TypeOK, KubeTypeOK, FirstFree
  <2>2. \/ alloc' = alloc /\ o # "ok"
        \/ alloc' = [alloc EXCEPT ![pool[k]] = cur]
    BY <1>2, <1>6 DEF StoreAllocations, Result
  <2>3. pc' = "idle" \/ (o = "ok" /\ pc' = "vrids" /\ ip' = pool[k] /\ cur' = cur /\ job' = job)
    BY <1>6 DEF Return, Idle
  <2> QED
    BY <2>1, <2>2, <2>3
<1>7. \/ Fail /\ UNCHANGED allocVars
      \/ \E k \in DOMAIN pool, o \in Outcomes :
           /\ FirstFree(allocSeen, k)
           /\ StoreAllocations(Result(o, alloc, [allocSeen EXCEPT ![pool[k]] = cur]))
           /\ \/ o = "ok" /\ pc' = "vrids" /\ ip' = pool[k] /\ UNCHANGED <<cur, job>>
              \/ Return({cur})
  BY DEF AllocateIP
<1> QED
  BY <1>3, <1>4, <1>5, <1>6, <1>7

(* What ReleaseIP gives up nginx no longer serves.                         *)
LEMMA ReleaseGivesUp ==
  ASSUME LiveInv, LeaseSafety, CurrentReads, ReleaseIP
  PROVE  /\ cur \in Services /\ job = "finalize"
         /\ nginxFile[PathOf(cur)] = None /\ nginxRun[PathOf(cur)] = None
         /\ UNCHANGED <<svc, hostVars>>
         /\ \/ alloc' = alloc /\ pc' = "idle"
            \/ \E i \in IPs :
                 /\ alloc[i] = cur
                 /\ alloc' = [alloc EXCEPT ![i] = None]
                 /\ pc' = "idle" \/ (pc' = "vrids" /\ cur' = cur /\ job' = job)
<1>1. TypeInv /\ AllocReadable /\ pc = "release"
  BY DEF LiveInv, IInv, TypeInv, ReleaseIP, ReadingAllocations, At
<1>2. allocSeen = alloc
  BY <1>1, ReadsAreCurrent DEF LeaseSafety, CurrentReads, BeforeSleep, SharedSteps
<1>3. /\ cur \in Services /\ job = "finalize"
      /\ nginxFile[PathOf(cur)] = None /\ nginxRun[PathOf(cur)] = None
  BY <1>1 DEF TypeInv, TypeOK, WorkerTypeOK, JobOK, FinalizeSteps, LiveInv, IInv, Cleaned
<1>4. UNCHANGED <<svc, hostVars>>
  BY DEF ReleaseIP, ReadingAllocations, svcVars
<1>5. \/ alloc' = alloc /\ Return({cur})
      \/ \E i \in IPs, o \in Outcomes :
           /\ alloc[i] = cur
           /\ alloc' = Result(o, alloc, [alloc EXCEPT ![i] = None])
           /\ Then(o, "vrids")
  BY <1>2 DEF ReleaseIP, Fail, allocVars, Owns, StoreAllocations
<1>6. \A o : Then(o, "vrids") => \/ pc' = "idle"
                                 \/ o = "ok" /\ pc' = "vrids" /\ cur' = cur /\ job' = job
  BY DEF Then, Goto, Return, Idle, regs
<1> QED
  BY <1>3, <1>4, <1>5, <1>6 DEF Result, Return, Idle
-----------------------------------------------------------------------------
(* What the worker has at its next step.                                   *)

LookingUp == {"lookup", "allocate", "fetchip"}
TakingDown == {"nginxremove", "removereload", "release"}

(* All but the calls of ipam.go pass on what the worker has.               *)
LEMMA PassedOn ==
  ASSUME TypeInv, [Next]_vars, ~LookupIP, ~AllocateIP, ~FetchIP, ~ReleaseIP
  PROVE  /\ pc' = "allocate" => pc = "allocate" /\ cur' = cur
         /\ job' = "reconcile" /\ pc' \notin LookingUp =>
              job = "reconcile" /\ pc \notin LookingUp /\ ip' = ip /\ cur' = cur
         /\ job' = "finalize" /\ pc' \notin TakingDown =>
              job = "finalize" /\ pc \notin TakingDown /\ cur' = cur
<1> USE DEF LookingUp, TakingDown
<1>0. JobOK
  BY DEF TypeInv
<1>1. CASE Worker
  <2> USE DEF At, Getting, Then, Goto, Return, Idle, Succeed, Fail, regs
  <2>1. CASE SkipService \/ AddFinalizer \/ StartReconcile \/ StartFinalize
    BY <2>1 DEF SkipService, AddFinalizer, StartReconcile, StartFinalize
  <2>2. CASE GetVRIDs \/ LoadVIPs
    BY <2>2 DEF GetVRIDs, LoadVIPs, ReadingAllocations
  <2>3. CASE RewritesKeepalived
    BY <2>3 DEF RewritesKeepalived, OpenPrimary, WritePrimary, OpenSecondary, WriteSecondary,
       Restart
  <2>4. CASE GetNodes \/ OpenConfig \/ WriteConfig \/ ReloadConfig \/ PublishStatus
    BY <1>0, <2>4 DEF GetNodes, OpenConfig, WriteConfig, ReloadConfig, PublishStatus, JobOK,
       ReconcileSteps
  <2>5. CASE RemoveConfig \/ ReloadAfterRemove \/ RemoveFinalizer
    BY <1>0, <2>5 DEF RemoveConfig, ReloadAfterRemove, RemoveFinalizer, JobOK,
       FinalizeSteps
  <2> QED
    BY <1>1, <2>1, <2>2, <2>3, <2>4, <2>5 DEF Worker, RewritesKeepalived
<1>2. CASE \E s \in Services : Dequeue(s)
  BY <1>0, <1>2 DEF Dequeue, At, JobOK
<1>3. CASE Crash
  BY <1>3 DEF Crash, Idle
<1>4. CASE \/ DeliverMap \/ PoolChanges \/ NeighbourActs \/ StartupPublishesVRIDs
           \/ UNCHANGED vars \/ \E s \in Services : EventHappens(s) \/ InformerDelivers(s)
  BY <1>4 DEF DeliverMap, PoolChanges, NeighbourActs, StartupPublishesVRIDs, EventHappens,
     InformerDelivers, vars, regs
<1> QED
  BY <1>1, <1>2, <1>3, <1>4 DEF Next

LEMMA IdleHolds ==
  ASSUME TypeInv', pc' = "idle"
  PROVE  Holding'
  BY DEF TypeInv, JobOK, Holding

LEMMA HoldingStep ==
  ASSUME LiveInv, LeaseSafety, CurrentReads, [Next]_vars
  PROVE  Holding'
<1>0. TypeInv /\ JobOK /\ WorkerTypeOK
  BY DEF LiveInv, IInv, TypeInv, TypeOK
<1>5. TypeInv'
  BY <1>0, TypeStep
<1>1. CASE AllocateIP
  <2>1. /\ cur \in Services /\ cur # None
        /\ alloc \in Allocations
    BY <1>0, <1>1, AllocateTakes, NoneAssumption DEF TypeInv, TypeOK, KubeTypeOK
  <2>2. CASE pc' = "idle"
    BY <1>5, <2>2, IdleHolds
  <2>3. CASE pc' # "idle"
    <3>1. PICK i \in IPs : /\ alloc' = [alloc EXCEPT ![i] = cur]
                           /\ pc' = "vrids" /\ ip' = i /\ cur' = cur /\ job' = "reconcile"
      BY <1>1, <2>3, AllocateTakes
    <3> QED
      BY <2>1, <3>1 DEF Holding, Allocations
  <2> QED
    BY <2>2, <2>3
<1>2. CASE ReleaseIP
  <2>1. cur \in Services /\ cur # None /\ alloc \in Allocations
    BY <1>0, <1>2, ReleaseGivesUp, NoneAssumption DEF TypeInv, TypeOK, KubeTypeOK
  <2>2. CASE pc' = "idle"
    BY <1>5, <2>2, IdleHolds
  <2>3. CASE pc' # "idle"
    <3>1. PICK i \in IPs : /\ alloc[i] = cur
                           /\ alloc' = [alloc EXCEPT ![i] = None]
                           /\ pc' = "vrids" /\ cur' = cur /\ job' = "finalize"
      BY <1>2, <2>3, ReleaseGivesUp
    <3>2. \A j \in IPs : alloc'[j] # cur
      BY <2>1, <3>1 DEF LeaseSafety, NoLeakedAddress, Allocations
    <3> QED
      BY <3>1, <3>2 DEF Holding
  <2> QED
    BY <2>2, <2>3
<1>3. CASE LookupIP \/ FetchIP
  <2>1. /\ AllocReadable /\ alloc' = alloc /\ pc \in {"lookup", "fetchip"}
    BY <1>3 DEF LookupIP, FetchIP, ReadingAllocations, At, allocVars
  <2>2. allocSeen = alloc /\ job = "reconcile"
    BY <1>0, <2>1, ReadsAreCurrent DEF LeaseSafety, CurrentReads, BeforeSleep, SharedSteps,
       JobOK, ReconcileSteps
  <2>3. CASE LookupIP
    BY <2>1, <2>2, <2>3 DEF LookupIP, Goto, regs, Owns, Holding
  <2>4. CASE FetchIP
    <3>1. \/ Idle
          \/ pc' = "vrids" /\ alloc[ip'] = cur /\ cur' = cur /\ job' = job
      BY <2>2, <2>4 DEF FetchIP, Fail, Return, Owns
    <3> QED
      BY <1>5, <2>1, <2>2, <3>1, IdleHolds DEF Holding, Idle
  <2> QED
    BY <1>3, <2>3, <2>4
<1>4. CASE ~LookupIP /\ ~AllocateIP /\ ~FetchIP /\ ~ReleaseIP
  BY <1>0, <1>4, PassedOn, OnlyTwoWriteTheMap
  DEF LeaseSafety, Holding, LookingUp, TakingDown
<1> QED
  BY <1>1, <1>2, <1>3, <1>4

-----------------------------------------------------------------------------
(* Nothing leaks, and nginx and the Services keep to the map.              *)

LEMMA NoLeakStep ==
  ASSUME LiveInv, LeaseSafety, CurrentReads, [Next]_vars
  PROVE  NoLeakedAddress'
<1>0. /\ IInv /\ TypeInv /\ alloc \in Allocations /\ NoLeakedAddress
      /\ None \notin Services
  BY NoneAssumption DEF LiveInv, IInv, TypeInv, TypeOK, KubeTypeOK, LeaseSafety
<1>1. CASE AllocateIP
  <2>1. svc' = svc /\ cur \in Services /\ svc[cur].fin /\ \A i \in IPs : alloc[i] # cur
    BY <1>0, <1>1, AllocateTakes DEF IInv, WorkerFin
  <2>2. alloc' = alloc \/ \E i \in IPs : alloc' = [alloc EXCEPT ![i] = cur]
    BY <1>1, AllocateTakes
  <2> QED
    BY <1>0, <2>1, <2>2 DEF NoLeakedAddress, Allocations
<1>2. CASE ReleaseIP
  <2>1. svc' = svc
    BY <1>2, ReleaseGivesUp
  <2>2. alloc' = alloc \/ \E i \in IPs : alloc' = [alloc EXCEPT ![i] = None]
    BY <1>2, ReleaseGivesUp
  <2> QED
    BY <1>0, <2>1, <2>2 DEF NoLeakedAddress, Allocations
<1>3. CASE ~AllocateIP /\ ~ReleaseIP
  <2>1. alloc' = alloc
    BY <1>3, OnlyTwoWriteTheMap
  <2>2. ASSUME NEW i \in IPs, alloc[i] # None
        PROVE  svc'[alloc[i]].fin
    <3> DEFINE s == alloc[i]
    <3>1. s \in Services /\ svc[s] \in Version /\ svc[s].fin
      BY <1>0, <2>2 DEF Allocations, NoLeakedAddress, TypeInv, TypeOK, KubeTypeOK
    <3>2. CASE Edited(svc[s], svc'[s])
      BY <3>1, <3>2 DEF Edited
    <3>3. CASE s = cur /\ Wrote(s, svc'[s])
      <4>1. ~RemoveFinalizer
        <5>1. RemoveFinalizer => job = "finalize" /\ pc = "unfinalize"
          BY <1>0 DEF RemoveFinalizer, At, TypeInv, JobOK, FinalizeSteps
        <5> QED
          BY <3>3, <5>1 DEF LeaseSafety, Holding
      <4>2. \/ svc'[s] = [svc[s] EXCEPT !.fin = TRUE]
            \/ svc'[s] = [svc[s] EXCEPT !.ip = ip]
        BY <3>3, <4>1 DEF Wrote
      <4>3. /\ [svc[s] EXCEPT !.fin = TRUE].fin
            /\ [svc[s] EXCEPT !.ip = ip].fin = svc[s].fin
        BY <3>1 DEF Version
      <4> QED
        BY <3>1, <4>2, <4>3
    <3> QED
      BY <1>0, <3>1, <3>2, <3>3, Versions
  <2> QED
    BY <1>0, <2>1, <2>2 DEF NoLeakedAddress
<1> QED
  BY <1>1, <1>2, <1>3

LEMMA ConfigOwnsStep ==
  ASSUME LiveInv, LeaseSafety, CurrentReads, [Next]_vars
  PROVE  ConfigOwnsAddress'
<1>0. /\ IInv /\ HostTypeOK /\ alloc \in Allocations
      /\ None \notin Services
  BY NoneAssumption DEF LiveInv, IInv, TypeOK, KubeTypeOK
<1>1. \A f \in Files, p \in Paths : f[p] # None =>
        f[p].ip \in IPs /\ f[p].svc \in Services /\ alloc[f[p].ip] = f[p].svc
  BY <1>0 DEF Files, HostTypeOK, Conf, LeaseSafety, ConfigOwnsAddress
<1>2. CASE AllocateIP
  <2>1. UNCHANGED <<nginxFile, nginxRun>>
    BY <1>2, AllocateTakes DEF hostVars
  <2>2. alloc' = alloc \/ \E i \in IPs : alloc[i] = None /\ alloc' = [alloc EXCEPT ![i] = cur]
    BY <1>2, AllocateTakes
  <2>3. \A i \in IPs : alloc[i] # None => alloc'[i] = alloc[i]
    BY <1>0, <2>2 DEF Allocations
  <2> QED
    BY <1>0, <1>1, <2>1, <2>3 DEF ConfigOwnsAddress, Files
<1>3. CASE ReleaseIP
  <2>1. /\ UNCHANGED <<nginxFile, nginxRun>>
        /\ nginxFile[PathOf(cur)] = None /\ nginxRun[PathOf(cur)] = None
    BY <1>3, ReleaseGivesUp DEF hostVars
  <2>2. alloc' = alloc \/ \E i \in IPs : alloc[i] = cur /\ alloc' = [alloc EXCEPT ![i] = None]
    BY <1>3, ReleaseGivesUp
  <2>3. \A i \in IPs : alloc[i] # cur => alloc'[i] = alloc[i]
    BY <1>0, <2>2 DEF Allocations
  <2>4. \A f \in Files, p \in Paths : f[p] # None => f[p].svc # cur
    BY <1>0, <2>1 DEF IInv, NoOrphanConfig, Files
  <2> QED
    BY <1>1, <2>1, <2>3, <2>4 DEF ConfigOwnsAddress, Files
<1>4. CASE ~AllocateIP /\ ~ReleaseIP
  <2>1. alloc' = alloc
    BY <1>4, OnlyTwoWriteTheMap
  <2>2. CASE WriteConfig \/ Crash
    <3>1. CASE UNCHANGED <<nginxFile, nginxRun>>
      BY <1>1, <2>1, <3>1 DEF ConfigOwnsAddress, Files
    <3>2. CASE ~UNCHANGED <<nginxFile, nginxRun>>
      <4>1. /\ pc = "nginxwrite" /\ nginxRun' = nginxRun
            /\ nginxFile' = [nginxFile EXCEPT ![PathOf(cur)] = Rendered]
        BY <2>2, <3>2 DEF WriteConfig, At, Crash, TeeWrites, WriteNginxFile,
           WritePrimaryFile, WriteSecondaryFile, Result, hostVars
      <4>2. alloc[Rendered.ip] = Rendered.svc
        BY <1>0, <4>1 DEF LeaseSafety, Holding, Rendered, IInv, JobOK, ReconcileSteps
      <4> QED
        BY <1>0, <1>1, <2>1, <4>1, <4>2 DEF ConfigOwnsAddress, Files, HostTypeOK
    <3> QED
      BY <3>1, <3>2
  <2>3. CASE OpenConfig \/ RemoveConfig
    <3>1. /\ nginxRun' = nginxRun
          /\ nginxFile' \in {nginxFile, [nginxFile EXCEPT ![PathOf(cur)] = None]}
      BY <2>3 DEF OpenConfig, RemoveConfig, OpenNginxFile, RemoveNginxFile, Result
    <3> QED
      BY <1>0, <1>1, <2>1, <3>1 DEF ConfigOwnsAddress, Files, HostTypeOK
  <2>4. CASE ~OpenConfig /\ ~WriteConfig /\ ~RemoveConfig /\ ~Crash
    <3>1. nginxFile' = nginxFile /\ nginxRun' \in {nginxFile, nginxRun}
      BY <2>4, OthersLeaveFiles
    <3> QED
      BY <1>1, <2>1, <3>1 DEF ConfigOwnsAddress, Files
  <2> QED
    BY <2>2, <2>3, <2>4
<1> QED
  BY <1>2, <1>3, <1>4

LEMMA HeldStep ==
  ASSUME LiveInv, LeaseSafety, CurrentReads, [Next]_vars
  PROVE  PublishedAddressHeld'
<1> SUFFICES ASSUME NEW s \in Services, Shown(s)'
             PROVE  alloc'[svc'[s].ip] = s
  BY DEF PublishedAddressHeld, Shown
<1>0. /\ IInv /\ alloc \in Allocations /\ svc[s] \in Version
      /\ None \notin Services
  BY NoneAssumption DEF LiveInv, IInv, TypeOK, KubeTypeOK
<1>1. CASE PublishStatus /\ s = cur /\ job = "reconcile" /\ svc'[s].ip = ip
  <2>1. pc = "status" /\ alloc' = alloc
    BY <1>1 DEF PublishStatus, At, allocVars
  <2> QED
    BY <1>1, <2>1 DEF LeaseSafety, Holding
<1>2. CASE Shown(s) /\ svc'[s].ip = svc[s].ip
  <2>1. alloc[svc[s].ip] = s /\ svc[s].ip \in IPs
    BY <1>0, <1>2 DEF LeaseSafety, PublishedAddressHeld, Shown, Version
  <2>2. CASE AllocateIP
    <3>1. alloc' = alloc \/ \E i \in IPs : alloc[i] = None /\ alloc' = [alloc EXCEPT ![i] = cur]
      BY <2>2, AllocateTakes
    <3> QED
      BY <1>0, <1>2, <2>1, <3>1 DEF Allocations
  <2>3. CASE ReleaseIP
    <3>1. alloc' = alloc \/ \E i \in IPs : alloc[i] = cur /\ alloc' = [alloc EXCEPT ![i] = None]
      BY <2>3, ReleaseGivesUp
    <3>2. s # cur
      BY <1>2, <2>3, ReleaseGivesUp DEF LiveInv, FinalizesDeleted, ShownHasFin, Shown
    <3> QED
      BY <1>0, <1>2, <2>1, <3>1, <3>2 DEF Allocations
  <2>4. CASE ~AllocateIP /\ ~ReleaseIP
    BY <1>2, <2>1, <2>4, OnlyTwoWriteTheMap
  <2> QED
    BY <2>2, <2>3, <2>4
<1> QED
  BY <1>1, <1>2, ShownBefore

-----------------------------------------------------------------------------
(* The invariant, and what follows.                                        *)

LEMMA LeaseInit == Init => LeaseSafety
  BY DEF Init, KubeInit, HostInit, LeaseSafety, MapFollows, Rested, SleepsReached, Holding,
     NoLeakedAddress, ConfigOwnsAddress, PublishedAddressHeld, Shown, Files, Absent, Created

LEMMA LeaseStep ==
  ASSUME LiveInv, LeaseSafety, CurrentReads, [Next]_vars
  PROVE  LeaseSafety'
  BY MapFollowsStep, RestedStep, HoldingStep, NoLeakStep, ConfigOwnsStep, HeldStep, IInvParts
  DEF LiveInv, LeaseSafety

LEMMA LeaseInvariant ==
  ASSUME CurrentReads
  PROVE  Spec => [](LiveInv /\ LeaseSafety)
<1>1. Init => LeaseSafety
  BY LeaseInit
<1>2. LiveInv /\ LeaseSafety /\ [Next]_vars => LeaseSafety'
  BY LeaseStep
<1> QED
  BY <1>1, <1>2, LiveInvInvariant, PTL DEF Spec

(* When reads of the map are current, or the sleeps make them so, what     *)
(* nginx has for a Service uses an address the map holds for that Service  *)
(* (utils/ipam.go before nginx.go in reconcileService, after it in         *)
(* finalizeService).                                                       *)
THEOREM ConfigurationsOwnTheirAddress ==
  ASSUME CurrentReads
  PROVE  Spec => []ConfigOwnsAddress
<1>1. LeaseSafety => ConfigOwnsAddress
  BY DEF LeaseSafety
<1> QED
  BY <1>1, LeaseInvariant, PTL

(* ... a Service holds one address at most, and only while it carries the  *)
(* finalizer, ...                                                          *)
THEOREM AddressesDoNotLeak ==
  ASSUME CurrentReads
  PROVE  Spec => []NoLeakedAddress
<1>1. LeaseSafety => NoLeakedAddress
  BY DEF LeaseSafety
<1> QED
  BY <1>1, LeaseInvariant, PTL

(* ... and the address a live Service shows is its own, although two       *)
(* Services may share a file.                                              *)
THEOREM ShownAddressesAreHeld ==
  ASSUME CurrentReads
  PROVE  Spec => []PublishedAddressHeld
<1>1. LeaseSafety => PublishedAddressHeld
  BY DEF LeaseSafety
<1> QED
  BY <1>1, LeaseInvariant, PTL

(* ... and does not change until the Service is deleted.                   *)
THEOREM ShownAddressesStay ==
  ASSUME CurrentReads
  PROVE  Spec => ShownAddressStays
<1> DEFINE Stays == \A s \in Services : Shown(s) => svc'[s].ip = svc[s].ip
<1>1. LiveInv /\ LeaseSafety /\ [Next]_vars => [Stays]_vars
  <2> SUFFICES ASSUME LiveInv, LeaseSafety, [Next]_vars, NEW s \in Services, Shown(s)
               PROVE  svc'[s].ip = svc[s].ip
    OBVIOUS
  <2>0. /\ IInv /\ JobOK /\ WorkerTypeOK /\ svc[s] \in Version
        /\ svc[s].fin /\ svc[s].ip \in IPs /\ alloc[svc[s].ip] = s
    BY DEF LiveInv, IInv, TypeOK, KubeTypeOK, ShownHasFin, Shown, Version, LeaseSafety,
       PublishedAddressHeld
  <2>1. CASE Edited(svc[s], svc'[s])
    BY <2>0, <2>1 DEF Edited
  <2>2. CASE s = cur /\ Wrote(s, svc'[s])
    <3>1. CASE PublishStatus
      \* The worker has the one address the map holds for s.
      <4>1. ip \in IPs /\ alloc[ip] = s
        BY <2>0, <2>2, <3>1 DEF PublishStatus, At, JobOK, WorkerTypeOK, ReconcileSteps,
           LeaseSafety, Holding
      <4>2. ip = svc[s].ip
        BY <2>0, <4>1, NoneAssumption DEF LeaseSafety, NoLeakedAddress
      <4>3. ~AddFinalizer /\ ~RemoveFinalizer
        BY <3>1 DEF PublishStatus, AddFinalizer, RemoveFinalizer, Getting, At
      <4> QED
        BY <2>0, <2>2, <4>2, <4>3 DEF Wrote, Version
    <3>2. CASE RemoveFinalizer
      <4>1. job = "finalize"
        BY <2>0, <3>2 DEF RemoveFinalizer, At, JobOK, FinalizeSteps
      <4> QED
        BY <2>0, <2>2, <4>1 DEF LiveInv, FinalizesDeleted, Shown
    <3>3. CASE ~PublishStatus /\ ~RemoveFinalizer
      BY <2>0, <2>2, <3>3 DEF Wrote, Version
    <3> QED
      BY <3>1, <3>2, <3>3
  <2> QED
    BY <2>0, <2>1, <2>2, Versions
<1>2. [Stays]_vars => [\A s \in Services : Shown(s) => svc'[s].ip = svc[s].ip]_vars
  OBVIOUS
<1> QED
  BY <1>1, <1>2, LeaseInvariant, PTL DEF Spec, ShownAddressStays

-----------------------------------------------------------------------------
(* The reconciler implements AddressLease.                                 *)

LEMMA LeaseInitially == Init => Lease!Init
  BY DEF Init, KubeInit, HostInit, Lease!Init, Serving

LEMMA RunsTheSame ==
  ASSUME UNCHANGED nginxRun
  PROVE  Serving' = Serving
  BY DEF Serving

LEMMA LeaseNext ==
  ASSUME LiveInv, LeaseSafety, CurrentReads, [Next]_vars, LiveInv', LeaseSafety'
  PROVE  Lease!Next \/ UNCHANGED <<alloc, Serving>>
<1>1. CASE alloc' = alloc
  <2>1. Serving' \subseteq Lease!Leased'
    \* Who is served leases the address.
    <3>1. \A p \in Paths : nginxRun'[p] # None =>
            /\ nginxRun'[p].ip \in IPs /\ nginxRun'[p].svc \in Services
            /\ alloc'[nginxRun'[p].ip] = nginxRun'[p].svc
      BY DEF LiveInv, IInv, TypeOK, HostTypeOK, Conf, LeaseSafety, ConfigOwnsAddress, Files
    <3> QED
      BY <3>1, NoneAssumption DEF Serving, Lease!Leased
  <2>2. Lease!Leased' = Lease!Leased
    BY <1>1 DEF Lease!Leased
  <2> QED
    BY <1>1, <2>1, <2>2 DEF Lease!Next, Lease!Reload
<1>2. CASE alloc' # alloc /\ AllocateIP
  <2>1. /\ cur \in Services /\ \A j \in IPs : alloc[j] # cur
        /\ nginxRun' = nginxRun
    BY <1>2, AllocateTakes DEF hostVars
  <2>2. PICK i \in IPs : alloc[i] = None /\ alloc' = [alloc EXCEPT ![i] = cur]
    BY <1>2, AllocateTakes
  <2>3. Lease!Take(cur, i)
    BY <2>1, <2>2, RunsTheSame DEF Lease!Take
  <2> QED
    BY <2>1, <2>3 DEF Lease!Next
<1>3. CASE alloc' # alloc /\ ReleaseIP
  <2>1. /\ cur \in Services /\ nginxRun[PathOf(cur)] = None /\ nginxRun' = nginxRun
    BY <1>3, ReleaseGivesUp DEF hostVars
  <2>2. PICK i \in IPs : alloc[i] = cur /\ alloc' = [alloc EXCEPT ![i] = None]
    BY <1>3, ReleaseGivesUp
  <2>3. <<cur, i>> \notin Serving
    <3>1. \A p \in Paths : nginxRun[p] # None => PathOf(nginxRun[p].svc) = p
      BY DEF LiveInv, IInv, NoOrphanConfig, Files
    <3> QED
      BY <2>1, <3>1 DEF Serving
  <2>4. Lease!GiveUp(cur, i)
    BY <2>1, <2>2, <2>3, RunsTheSame DEF Lease!GiveUp
  <2> QED
    BY <2>1, <2>4 DEF Lease!Next
<1> QED
  BY <1>1, <1>2, <1>3, OnlyTwoWriteTheMap

(* The refinement: with current reads of the map, or reads the sleeps make *)
(* so, every behaviour of the reconciler is one of AddressLease, crashes   *)
(* and colliding files included.                                           *)
THEOREM ReconcilerImplementsLease ==
  ASSUME CurrentReads
  PROVE  Spec => ImplementsLease
<1>1. LiveInv /\ LeaseSafety /\ [Next]_vars /\ (LiveInv /\ LeaseSafety)'
        => [Lease!Next]_(Lease!leaseVars)
  BY LeaseNext DEF Lease!leaseVars
<1> QED
  BY <1>1, LeaseInitially, LeaseInvariant, PTL DEF Spec, ImplementsLease, Lease!Spec
=============================================================================
