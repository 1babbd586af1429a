--------------------------- MODULE AnnounceProofs ---------------------------
(***************************************************************************)
(* Proof that an address users see is announced, or its Service is taken   *)
(* up again, or a pass is rewriting the files of keepalived at this        *)
(* moment: for any number of Services, any finite set of addresses, any    *)
(* lag of the Services and any number of crashes and events, beside other  *)
(* clusters, when the map does not lag or the sleeps outlast its lag, and  *)
(* no call fails.  (A pass that fails between the two keepalived files     *)
(* leaves them behind, for as long as its retries do not get that far:     *)
(* Unannounced.cfg.)                                                       *)
(* Keepalived is configured from an old map all the same, for the read of  *)
(* ConfigureKeepalived comes before the sleep.                             *)
(***************************************************************************)
EXTENDS LeaseProofs, FiniteSetTheorems

-----------------------------------------------------------------------------
(* Every address that is dealt out is in one of the groups.                *)
LEMMA AllAreDealt ==
  ASSUME IsFiniteSet(IPs), NEW v \in SUBSET IPs
  PROVE  Announced(GroupsOf(v)) = v
<1>1. \A i \in v : Position(v, i) \in Nat
  <2> TAKE i \in v
  <2>1. IsFiniteSet({j \in v : j < i})
    BY FS_Subset
  <2> QED
    BY <2>1, FS_CardinalityType DEF Position
<1>2. \A n \in Nat : n % 2 = 0 \/ n % 2 = 1
  OBVIOUS
<1> QED
  BY <1>1, <1>2 DEF Announced, GroupsOf

-----------------------------------------------------------------------------
(* What a read that lags leaves out comes back.                            *)

(* What the next reads of the map may return.                              *)
InFlight == {allocSeen} \cup {allocFeed[k] : k \in 1 .. Len(allocFeed)}

(* The address reconcileService works with, when users already see it.     *)
InHand == IF job = "reconcile" /\ Shown(cur) THEN {ip} ELSE {}

(* The addresses users see and Reconcile will not look at again.           *)
Relied == {svc[s].ip : s \in {t \in Services : svc[t].lb /\ Shown(t) /\ ~Pending(t)}}

(* A read that lags lacks only what this very pass has just allocated,     *)
(* which no user has seen yet.                                             *)
ReadyToLoad ==
  SleepsReached /\ pc \in {"vrids", "loadvips"} =>
    \A m \in InFlight :
      /\ \A i \in IPs : alloc[i] \notin {None, cur} => m[i] # None
      /\ \A i \in InHand : m[i] # None

Everywhere == Announced(kaPrimary) \cap Announced(kaSecondary) \cap Announced(kaRun)

(* From the read of ConfigureKeepalived to its restart, and from there to  *)
(* the status.                                                             *)
Announces ==
  {"primaryopen", "primarywrite", "secondaryopen", "secondarywrite", "restart"}
Serves == {"nodes", "nginxopen", "nginxwrite", "nginxreload", "status"}

(* So what users rely on is only down while the files are rewritten, and   *)
(* what they see of the Service in hand is put up again on the way to its  *)
(* status.                                                                 *)
KeptUp ==
  /\ ~Rewriting => Relied \subseteq Everywhere
  /\ pc \in Announces => Relied \cup InHand \subseteq vips
  /\ pc \in {"secondaryopen", "secondarywrite", "restart"} =>
       vips \subseteq Announced(kaPrimary)
  /\ pc = "restart" => vips \subseteq Announced(kaSecondary)
  /\ pc \in Serves => InHand \subseteq Everywhere

AgainInv == LiveInv /\ LeaseSafety /\ DeletedHasFin /\ ReadyToLoad /\ KeptUp

LEMMA InHandType ==
  ASSUME LiveInv, pc \notin LookingUp
  PROVE  InHand \subseteq IPs /\ (InHand # {} => job = "reconcile")
  BY DEF LiveInv, IInv, TypeOK, WorkerTypeOK, InHand, LookingUp

(* What is in hand stays so but for the two calls that find an address.    *)
LEMMA InHandStays ==
  ASSUME LiveInv, [Next]_vars, ~AllocateIP, ~FetchIP, pc' \notin LookingUp
  PROVE  InHand' \subseteq InHand
<1> SUFFICES ASSUME job' = "reconcile", Shown(cur)'
             PROVE  job = "reconcile" /\ Shown(cur) /\ ip' = ip
  BY DEF InHand, Shown
<1>0. TypeInv /\ JobOK /\ WorkerTypeOK
  BY DEF LiveInv, IInv, TypeInv, TypeOK
<1>1. job = "reconcile" /\ ip' = ip /\ cur' = cur
  <2>1. ~LookupIP /\ ~ReleaseIP
    BY <1>0 DEF LookupIP, ReleaseIP, Goto, Fail, Then, Return, Idle, ReadingAllocations, At,
       JobOK, FinalizeSteps, LookingUp, regs
  <2> QED
    BY <1>0, <2>1, PassedOn
<1>2. cur \in Services
  BY <1>0, <1>1 DEF WorkerTypeOK, JobOK
<1>3. PublishStatus => job' = "none"
  BY DEF PublishStatus, Succeed, Fail, Return, Idle
<1>4. Shown(cur)
  <2>1. svc'[cur].ip # None /\ ~svc'[cur].del
    BY <1>1 DEF Shown
  <2> QED
    BY <1>2, <1>3, <2>1, ShownBefore DEF Shown
<1> QED
  BY <1>1, <1>4

(* An address comes to be relied on only when the worker lets go of its    *)
(* Service with the status as it was.                                      *)
LEMMA ReliedBefore ==
  ASSUME LiveInv, DeletedHasFin, [Next]_vars, NEW i \in Relied'
  PROVE  /\ ~Crash
         /\ \/ i \in Relied /\ \E s \in Services : s # cur /\ Shown(s) /\ svc[s].ip = i
            \/ PublishStatus /\ pc = "status" /\ i \in InHand
<1>0. IInv /\ KubeTypeOK
  BY DEF LiveInv, IInv, TypeOK
<1>1. PICK s \in Services :
        /\ svc'[s].lb /\ Shown(s)' /\ i = svc'[s].ip
        /\ s \notin queue' /\ feed'[s] = <<>> /\ cur' # s
  BY DEF Relied, Pending, Waiting, Shown
<1>2. svc'[s].exists
  BY <1>0, <1>1, ShownHasFinStep, IInvStep DEF ShownHasFin, IInv, AbsentHasNoFin, Shown
<1>3. ~Crash
  BY <1>1, <1>2 DEF Crash, Relist
<1>4. svc'[s] = svc[s]
  BY <1>0, <1>1, ChangesAreNoticed
<1>5. Shown(s) /\ svc[s].lb /\ svc[s].ip = i
  BY <1>1, <1>4 DEF Shown
<1>6. CASE cur = s
  <2>1. PublishStatus /\ pc = "status" /\ job = "reconcile" /\ svc[s].ip = ip
    BY <1>0, <1>1, <1>2, <1>3, <1>6, LetGoPublished
  <2> QED
    BY <1>3, <1>5, <1>6, <2>1 DEF InHand
<1>7. CASE cur # s
  <2>1. ~Waiting(s)
    <3>1. ~Dequeue(s)
      BY <1>1 DEF Dequeue
    <3> QED
      BY <1>0, <1>1, <1>3, <3>1, WaitingStays DEF Waiting
  <2> QED
    BY <1>3, <1>5, <1>7, <2>1 DEF Relied, Pending
<1> QED
  BY <1>6, <1>7

-----------------------------------------------------------------------------
(* The reads.                                                              *)

(* Where the worker comes from to the read of ConfigureKeepalived.         *)
LEMMA TowardsLoading ==
  ASSUME JobOK, [Next]_vars, ~AllocateIP, ~FetchIP, ~ReleaseIP,
         pc' \in {"vrids", "loadvips"}
  PROVE  pc \in {"vrids", "loadvips"} /\ cur' = cur /\ ~Crash
<1>1. CASE Worker
  <2> USE DEF At, Getting, Then, Goto, Return, Idle, Succeed, Fail, regs
  <2>1. CASE SkipService \/ AddFinalizer \/ StartReconcile \/ StartFinalize
    BY <2>1 DEF SkipService, AddFinalizer, StartReconcile, StartFinalize
  <2>2. CASE LookupIP \/ GetVRIDs \/ LoadVIPs
    BY <2>2 DEF LookupIP, GetVRIDs, LoadVIPs, ReadingAllocations, Crash
  <2>3. CASE OpenPrimary \/ WritePrimary
    BY <2>3 DEF OpenPrimary, WritePrimary
  <2>4. CASE OpenSecondary \/ WriteSecondary \/ Restart
    BY <2>4 DEF OpenSecondary, WriteSecondary, Restart
  <2>5. CASE GetNodes \/ OpenConfig \/ WriteConfig \/ ReloadConfig \/ PublishStatus
    BY <2>5 DEF GetNodes, OpenConfig, WriteConfig, ReloadConfig, PublishStatus
  <2>6. CASE RemoveConfig \/ ReloadAfterRemove \/ RemoveFinalizer
    BY <2>6 DEF RemoveConfig, ReloadAfterRemove, RemoveFinalizer
  <2> QED
    BY <1>1, <2>1, <2>2, <2>3, <2>4, <2>5, <2>6 DEF Worker
<1>2. CASE Crash \/ \E s \in Services : Dequeue(s)
  BY <1>2 DEF Crash, Idle, Dequeue
<1>3. CASE ~Worker /\ ~Crash /\ \A s \in Services : ~Dequeue(s)
  BY <1>3 DEF Next, DeliverMap, PoolChanges, NeighbourActs, StartupPublishesVRIDs,
     EventHappens, InformerDelivers, vars, regs
<1> QED
  BY <1>1, <1>2, <1>3

(* Only a write of the map, and a restart, put a version in flight.        *)
LEMMA InFlightStays ==
  ASSUME TypeInv, [Next]_vars, ~AllocateIP, ~ReleaseIP, ~Crash
  PROVE  InFlight' \subseteq InFlight
<1>1. CASE DeliverMap
  <2>1. /\ allocFeed # <<>> /\ allocFeed \in Seq(Allocations)
        /\ allocSeen' = Head(allocFeed) /\ allocFeed' = Tail(allocFeed)
    BY <1>1 DEF DeliverMap, DeliverAllocations, TypeInv, TypeOK, KubeTypeOK
  <2>2. /\ Len(Tail(allocFeed)) = Len(allocFeed) - 1 /\ Len(allocFeed) \in Nat \ {0}
        /\ Head(allocFeed) = allocFeed[1]
        /\ \A k \in 1 .. Len(Tail(allocFeed)) : Tail(allocFeed)[k] = allocFeed[k + 1]
    <3>1. \A q \in Seq(Allocations) : q # <<>> => Len(q) \in Nat \ {0}
      BY EmptySeq
    <3>2. Len(allocFeed) \in Nat \ {0}
      BY <2>1, <3>1
    <3> QED
      BY <2>1, <3>2
  <2> QED
    BY <2>1, <2>2 DEF InFlight
<1>2. CASE ~DeliverMap
  <2>1. UNCHANGED allocVars
    BY <1>2 DEF Next, Worker, SkipService, AddFinalizer, StartReconcile, StartFinalize,
       LookupIP, FetchIP, GetVRIDs, LoadVIPs, OpenPrimary, WritePrimary, OpenSecondary,
       WriteSecondary, Restart, GetNodes, OpenConfig, WriteConfig, ReloadConfig,
       PublishStatus, RemoveConfig, ReloadAfterRemove, RemoveFinalizer, Getting,
       PoolChanges, ChangePool, NeighbourActs, StartupPublishesVRIDs, Dequeue,
       InformerDelivers, DeliverService, EventHappens, EventOf, CreateService,
       DeleteService, RetypeService, ChangePorts, EditService, ChangeEndpoints, Resync,
       UserWrites, vars, kubeVars
  <2> QED
    BY <2>1 DEF InFlight, allocVars
<1> QED
  BY <1>1, <1>2

(* Right after a write of the map the old and the new one are in flight.   *)
LEMMA WriteInFlight ==
  ASSUME LiveInv, LeaseSafety, SleepsReached, AllocateIP \/ ReleaseIP
  PROVE  InFlight' \subseteq {alloc, alloc'}
<1>0. KubeTypeOK /\ WorkerTypeOK
  BY DEF LiveInv, IInv, TypeOK
<1>1. allocFeed = <<>> /\ allocSeen = alloc
  BY DEF AllocateIP, ReleaseIP, ReadingAllocations, At, LeaseSafety, Rested, MapFollows,
     BeforeSleep, SharedSteps
<1>2. /\ allocSeen' = allocSeen /\ alloc' \in Allocations
      /\ allocFeed' = allocFeed \/ allocFeed' = Append(allocFeed, alloc')
  <2>1. /\ allocSeen' = allocSeen
        /\ allocFeed' = allocFeed \/ allocFeed' = Append(allocFeed, alloc')
    BY DEF AllocateIP, ReleaseIP, StoreAllocations, allocVars
  <2>2. alloc' \in Allocations
    BY TypeStep DEF LiveInv, IInv, TypeInv, TypeOK, KubeTypeOK, Next, Worker
  <2> QED
    BY <2>1, <2>2
<1>3. \A k \in 1 .. Len(allocFeed') : allocFeed'[k] = alloc'
  BY <1>1, <1>2, EmptySeq
<1> QED
  BY <1>1, <1>2, <1>3 DEF InFlight

LEMMA ReadyToLoadStep ==
  ASSUME AgainInv, CurrentReads, [Next]_vars
  PROVE  ReadyToLoad'
<1> SUFFICES ASSUME SleepsReached, pc' \in {"vrids", "loadvips"}, NEW m \in InFlight'
             PROVE  /\ \A i \in IPs : alloc'[i] \notin {None, cur'} => m[i] # None
                    /\ \A i \in InHand' : m[i] # None
  BY DEF ReadyToLoad, SleepsReached
<1>0. /\ LiveInv /\ LeaseSafety /\ JobOK /\ TypeInv /\ alloc \in Allocations
      /\ None \notin Services
  BY NoneAssumption DEF AgainInv, LiveInv, IInv, TypeInv, TypeOK, KubeTypeOK
<1>1. CASE AllocateIP
  <2>1. /\ cur \in Services /\ \A i \in IPs : alloc[i] # cur
        /\ svc' = svc /\ m \in {alloc, alloc'}
    BY <1>0, <1>1, AllocateTakes, WriteInFlight
  <2>2. PICK i \in IPs : alloc' = [alloc EXCEPT ![i] = cur] /\ cur' = cur
    BY <1>0, <1>1, AllocateTakes
  <2>3. ~Shown(cur)
    <3>1. Shown(cur) => svc[cur].ip \in IPs
      BY <2>1 DEF TypeInv, TypeOK, KubeTypeOK, Version, Shown, LiveInv, IInv, AgainInv
    <3> QED
      BY <1>0, <2>1, <3>1 DEF LeaseSafety, PublishedAddressHeld
  <2>4. InHand' = {}
    BY <2>1, <2>2, <2>3 DEF InHand, Shown
  <2>5. \A j \in IPs : alloc'[j] \notin {None, cur} => alloc[j] = alloc'[j]
    BY <1>0, <2>2 DEF Allocations
  <2> QED
    BY <2>1, <2>2, <2>4, <2>5
<1>2. CASE ReleaseIP
  <2>1. cur \in Services /\ job = "finalize" /\ m \in {alloc, alloc'}
    BY <1>0, <1>2, ReleaseGivesUp, WriteInFlight
  <2>2. PICK i \in IPs : alloc' = [alloc EXCEPT ![i] = None] /\ cur' = cur /\ job' = job
    BY <1>0, <1>2, ReleaseGivesUp
  <2>3. InHand' = {}
    BY <2>1, <2>2 DEF InHand
  <2>4. \A j \in IPs : alloc'[j] # None => alloc[j] = alloc'[j]
    BY <1>0, <2>2 DEF Allocations
  <2> QED
    BY <2>1, <2>2, <2>3, <2>4
<1>3. CASE FetchIP
  <2>1. pc = "fetchip" /\ UNCHANGED allocVars /\ cur \in Services
    BY <1>0, <1>3 DEF FetchIP, ReadingAllocations, At, TypeInv, TypeOK, WorkerTypeOK
  <2>2. cur' = cur /\ job' = "reconcile" /\ pc' \notin LookingUp
    BY <1>0, <1>3, <2>1 DEF FetchIP, Fail, Return, Idle, JobOK, ReconcileSteps, LookingUp
  <2>3. alloc'[ip'] = cur
    BY <1>0, <2>2, HoldingStep DEF Holding, LookingUp
  <2>4. m = alloc
    BY <1>0, <2>1, EmptySeq DEF LeaseSafety, Rested, MapFollows, BeforeSleep, SharedSteps,
       InFlight, allocVars
  <2> QED
    BY <1>0, <2>1, <2>3, <2>4 DEF allocVars, InHand
<1>4. CASE ~AllocateIP /\ ~ReleaseIP /\ ~FetchIP
  <2>1. pc \in {"vrids", "loadvips"} /\ cur' = cur /\ ~Crash
    BY <1>0, <1>4, TowardsLoading
  <2>2. m \in InFlight /\ alloc' = alloc /\ InHand' \subseteq InHand
    BY <1>0, <1>4, <2>1, InFlightStays, OnlyTwoWriteTheMap, InHandStays DEF LookingUp
  <2> QED
    BY <2>1, <2>2 DEF AgainInv, ReadyToLoad
<1> QED
  BY <1>1, <1>2, <1>3, <1>4

-----------------------------------------------------------------------------
(* What is announced.                                                      *)

(* ConfigureKeepalived loads every address somebody relies on.             *)
LEMMA LoadsWhatIsShown ==
  ASSUME AgainInv, CurrentReads, LoadVIPs
  PROVE  Relied' \cup InHand' \subseteq vips'
<1>0. /\ LiveInv /\ LeaseSafety /\ TypeInv /\ JobOK /\ [Next]_vars
      /\ KubeTypeOK /\ WorkerTypeOK /\ None \notin Services
  BY NoneAssumption DEF AgainInv, LiveInv, IInv, TypeInv, TypeOK, Next, Worker
<1>1. /\ pc = "loadvips" /\ cur \in Services /\ vips' = {i \in IPs : allocSeen[i] # None}
      /\ pc' = "primaryopen" /\ AllocReadable
  BY <1>0 DEF LoadVIPs, ReadingAllocations, At, WorkerTypeOK
<1>2. InHand \subseteq IPs /\ \A i \in InHand : alloc[i] = cur
  <2>1. InHand # {} => job = "reconcile" /\ InHand = {ip}
    BY DEF InHand
  <2> QED
    BY <1>0, <1>1, <2>1, InHandType DEF LeaseSafety, Holding, LookingUp
<1>3. InHand' \subseteq InHand
  BY <1>0, <1>1, InHandStays DEF LookingUp, LoadVIPs, AllocateIP, FetchIP,
     ReadingAllocations, At
<1>4. \A i \in Relied' : i \in IPs /\ alloc[i] \notin {None, cur}
  <2> TAKE i \in Relied'
  <2>1. PICK s \in Services : s # cur /\ Shown(s) /\ svc[s].ip = i
    BY <1>0, <1>1, ReliedBefore DEF AgainInv
  <2> QED
    BY <1>0, <2>1 DEF LeaseSafety, PublishedAddressHeld, KubeTypeOK, Version, Shown
<1>5. CASE AllocLag = 0
  <2>1. allocSeen = alloc
    BY <1>0, <1>1, <1>5, ReadsAreCurrent DEF LeaseSafety
  <2> QED
    BY <1>0, <1>1, <1>2, <1>3, <1>4, <2>1
<1>6. CASE SleepsReached
  <2>1. allocSeen \in InFlight
    BY DEF InFlight
  <2> QED
    BY <1>1, <1>2, <1>3, <1>4, <1>6, <2>1 DEF AgainInv, ReadyToLoad
<1> QED
  BY <1>5, <1>6 DEF CurrentReads

(* Nothing fails, so the worker goes on rewriting until the restart.       *)
LEMMA KeptUpAtKeepalived ==
  ASSUME AgainInv, IsFiniteSet(IPs), MaxFaults = 0, [Next]_vars, RewritesKeepalived
  PROVE  KeptUp'
<1> USE DEF Announces, Serves, Rewriting
<1>0. /\ LiveInv /\ WorkerTypeOK /\ HostTypeOK /\ pc \in Announces
  BY DEF AgainInv, LiveInv, IInv, TypeOK, RewritesKeepalived, OpenPrimary, WritePrimary,
     OpenSecondary, WriteSecondary, Restart, At
<1>1. /\ vips \in SUBSET IPs /\ Announced(GroupsOf(vips)) = vips
      /\ Relied \cup InHand \subseteq vips
  BY <1>0, AllAreDealt DEF WorkerTypeOK, AgainInv, KeptUp
<1>2. Relied' \subseteq Relied
  BY <1>0, ReliedBefore DEF AgainInv
<1>3. pc' \notin LookingUp => InHand' \subseteq InHand
  BY <1>0, InHandStays DEF AllocateIP, FetchIP, ReadingAllocations, At
<1>4. \A o, step : Then(o, step) => o = "ok" /\ pc' = step /\ vips' = vips
  BY <1>0 DEF Then, Goto, Faulty, HostTypeOK, regs
<1>5. CASE OpenPrimary
  <2>1. pc' = "primarywrite" /\ vips' = vips
    BY <1>4, <1>5 DEF OpenPrimary
  <2> QED
    BY <1>1, <1>2, <1>3, <2>1 DEF KeptUp, LookingUp
<1>6. CASE WritePrimary
  <2>1. /\ kaPrimary' = GroupsOf(vips)
        /\ pc' = "secondaryopen" /\ vips' = vips
    BY <1>4, <1>6 DEF WritePrimary, WritePrimaryFile, Result
  <2> QED
    BY <1>1, <1>2, <1>3, <2>1 DEF KeptUp, LookingUp, Announced
<1>7. CASE OpenSecondary
  <2>1. /\ kaPrimary' = kaPrimary
        /\ pc = "secondaryopen" /\ pc' = "secondarywrite" /\ vips' = vips
    BY <1>4, <1>7 DEF OpenSecondary, At, OpenSecondaryFile
  <2> QED
    BY <1>1, <1>2, <1>3, <2>1 DEF KeptUp, LookingUp, AgainInv, Announced
<1>8. CASE WriteSecondary
  <2>1. /\ kaSecondary' = GroupsOf(vips) /\ kaPrimary' = kaPrimary
        /\ pc = "secondarywrite" /\ pc' = "restart" /\ vips' = vips
    BY <1>4, <1>8 DEF WriteSecondary, At, WriteSecondaryFile, Result
  <2> QED
    BY <1>1, <1>2, <1>3, <2>1 DEF KeptUp, LookingUp, AgainInv, Announced
<1>9. CASE Restart
  <2>1. /\ kaRun' = kaPrimary /\ kaPrimary' = kaPrimary /\ kaSecondary' = kaSecondary
        /\ pc = "restart" /\ pc' \in {"nodes", "unfinalize"} /\ vips' = vips
    BY <1>4, <1>9 DEF Restart, At, RestartKeepalived, Result
  <2>2. vips \subseteq Everywhere'
    BY <2>1 DEF KeptUp, AgainInv, Everywhere, Announced
  <2> QED
    BY <1>1, <1>2, <1>3, <2>1, <2>2 DEF KeptUp, LookingUp
<1> QED
  BY <1>5, <1>6, <1>7, <1>8, <1>9 DEF RewritesKeepalived

(* Every other step but a crash leaves the files of keepalived alone, and  *)
(* comes to a call that relies on them only from such a call.              *)
LEMMA StepsElsewhere ==
  ASSUME TypeInv, [Next]_vars, ~RewritesKeepalived, ~LoadVIPs, ~Crash
  PROVE  /\ kaPrimary' = kaPrimary /\ kaSecondary' = kaSecondary
         /\ kaRun' \in {kaRun, kaPrimary}
         /\ pc \in Announces \/ pc' \in Announces => pc' = pc /\ vips' = vips
         /\ pc' \in Serves => pc \in Serves
<1> USE DEF Announces, Serves
<1>1. CASE Worker
  <2> USE DEF At, Getting, ReadingAllocations, Then, Goto, Return, Idle, Succeed, Fail,
          regs, hostVars
  <2>1. CASE SkipService \/ AddFinalizer \/ StartReconcile \/ StartFinalize
    BY <2>1 DEF SkipService, AddFinalizer, StartReconcile, StartFinalize
  <2>2. CASE LookupIP \/ FetchIP \/ GetVRIDs
    BY <2>2 DEF LookupIP, FetchIP, GetVRIDs
  <2>3. CASE AllocateIP \/ ReleaseIP
    BY <2>3 DEF AllocateIP, ReleaseIP
  <2>4. CASE GetNodes \/ PublishStatus \/ RemoveFinalizer
    BY <2>4 DEF GetNodes, PublishStatus, RemoveFinalizer
  <2>5. CASE OpenConfig \/ WriteConfig \/ RemoveConfig
    BY <2>5 DEF OpenConfig, WriteConfig, RemoveConfig, OpenNginxFile, WriteNginxFile,
       RemoveNginxFile
  <2>6. CASE ReloadConfig \/ ReloadAfterRemove
    BY <2>6 DEF ReloadConfig, ReloadAfterRemove, ReloadNGINX, ReloadRefused
  <2> QED
    BY <1>1, <2>1, <2>2, <2>3, <2>4, <2>5, <2>6 DEF Worker, RewritesKeepalived
<1>2. CASE \E s \in Services : Dequeue(s)
  BY <1>2 DEF Dequeue, At, hostVars
<1>3. CASE NeighbourActs
  BY <1>3 DEF NeighbourActs, NeighbourReloads, NeighbourRestarts, ReloadNGINX,
     RestartKeepalived, Result, regs
<1>4. CASE \/ DeliverMap \/ PoolChanges \/ StartupPublishesVRIDs \/ UNCHANGED vars
           \/ \E s \in Services : EventHappens(s) \/ InformerDelivers(s)
  BY <1>4 DEF DeliverMap, PoolChanges, StartupPublishesVRIDs, EventHappens,
     InformerDelivers, vars, regs, hostVars
<1> QED
  BY <1>1, <1>2, <1>3, <1>4 DEF Next

LEMMA KeptUpStep ==
  ASSUME AgainInv, IsFiniteSet(IPs), CurrentReads, MaxFaults = 0, [Next]_vars
  PROVE  KeptUp'
<1> USE DEF Announces, Serves, Rewriting
<1>0. LiveInv /\ TypeInv
  BY DEF AgainInv, LiveInv, IInv, TypeInv
<1>1. CASE RewritesKeepalived
  BY <1>1, KeptUpAtKeepalived
<1>2. CASE LoadVIPs
  <2>1. /\ Relied' \cup InHand' \subseteq vips'
        /\ pc = "loadvips" /\ pc' = "primaryopen" /\ Everywhere' = Everywhere
    BY <1>2, LoadsWhatIsShown DEF LoadVIPs, ReadingAllocations, At, hostVars, Everywhere
  <2>2. Relied' \subseteq Relied
    BY <1>0, <2>1, ReliedBefore DEF AgainInv
  <2> QED
    BY <2>1, <2>2 DEF KeptUp, AgainInv
<1>3. CASE Crash
  \* Everything is listed again and looked at again.
  <2>1. pc' = "idle" /\ Relied' = {}
    BY <1>0, <1>3, ReliedBefore DEF AgainInv, Crash, Idle
  <2> QED
    BY <2>1 DEF KeptUp
<1>4. CASE ~RewritesKeepalived /\ ~LoadVIPs /\ ~Crash
  <2>1. /\ kaPrimary' = kaPrimary /\ kaSecondary' = kaSecondary
        /\ kaRun' \in {kaRun, kaPrimary}
        /\ pc \in Announces \/ pc' \in Announces => pc' = pc /\ vips' = vips
        /\ pc' \in Serves => pc \in Serves
    BY <1>0, <1>4, StepsElsewhere
  <2>2. Everywhere \subseteq Everywhere'
    BY <2>1 DEF Everywhere
  <2>3. pc' \in Announces \cup Serves => InHand' \subseteq InHand
    BY <1>0, <2>1, InHandStays DEF LookingUp, AllocateIP, FetchIP, ReadingAllocations, At
  <2>4. ~(Rewriting') => Relied' \subseteq Everywhere
    <3> SUFFICES ASSUME ~(Rewriting'), NEW i \in Relied' PROVE i \in Everywhere
      OBVIOUS
    <3>1. i \in Relied \/ (pc = "status" /\ i \in InHand)
      BY <1>0, ReliedBefore DEF AgainInv
    <3>2. ~Rewriting
      BY <2>1
    <3> QED
      BY <3>1, <3>2 DEF AgainInv, KeptUp
  <2>5. pc' \in Announces => Relied' \subseteq Relied
    BY <1>0, <2>1, ReliedBefore DEF AgainInv
  <2> QED
    BY <2>1, <2>2, <2>3, <2>4, <2>5 DEF KeptUp, AgainInv
<1> QED
  BY <1>1, <1>2, <1>3, <1>4

(* ShownIsAnnounced: when no call fails, and the map does not lag or its   *)
(* lag is outlasted by the sleeps, an address users see is in both         *)
(* keepalived files and the running daemon, or Reconcile is still to look  *)
(* at its Service again, or a pass is rewriting the files.                 *)
THEOREM ShownAddressesAreAnnounced ==
  ASSUME IsFiniteSet(IPs), CurrentReads, MaxFaults = 0
  PROVE  Spec => []ShownIsAnnounced
<1>1. Init => ReadyToLoad /\ KeptUp
  <2> SUFFICES ASSUME Init PROVE ReadyToLoad /\ KeptUp
    OBVIOUS
  <2>1. pc = "idle" /\ \A s \in Services : ~Shown(s)
    BY DEF Init, KubeInit, Shown, Absent, Created
  <2> QED
    BY <2>1 DEF ReadyToLoad, KeptUp, Relied, Announces, Serves
<1>2. /\ LiveInv /\ LeaseSafety /\ FreshInv /\ ReadyToLoad /\ KeptUp /\ [Next]_vars
      => ReadyToLoad' /\ KeptUp'
  BY ReadyToLoadStep, KeptUpStep DEF AgainInv, FreshInv
<1>3. KeptUp => ShownIsAnnounced
  BY DEF KeptUp, Relied, Everywhere, ShownIsAnnounced, AnnouncedEverywhere
<1> QED
  BY <1>1, <1>2, <1>3, LeaseInvariant, FreshInvInvariant, PTL DEF Spec
=============================================================================
