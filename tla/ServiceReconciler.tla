-------------------------- MODULE ServiceReconciler --------------------------
(***************************************************************************)
(* controllers/service_controller.go with the parts of utils it calls: one *)
(* worker (controller-runtime's default of one concurrent reconcile) takes *)
(* a key from the workqueue and runs Reconcile.  Each step of the worker   *)
(* is one call that reads a cache, writes to the API server or runs a      *)
(* command on the NGINX host; between two steps informers deliver, users   *)
(* act, and the process may crash.  ipAllocationMutex is never contended   *)
(* by a single worker, so it does not appear.                              *)
(***************************************************************************)
EXTENDS KubeApi, NginxHost

CONSTANTS
  VRIDsAtStart,      \* TRUE: an earlier run left the ConfigMap vrid-allocations
  SleepOutlastsLag,  \* TRUE: watch events arrive within the sleeps of the code
  MaxCrashes         \* bound: crashes of the process

ASSUME ReconcilerAssumption ==
  VRIDsAtStart \in BOOLEAN /\ SleepOutlastsLag \in BOOLEAN /\ MaxCrashes \in Nat

VARIABLES
  pc,          \* the call the worker is about to make
  cur,         \* the key it works on
  job,         \* who is running: reconcileService, finalizeService, neither
  ip,          \* the address reconcileService works with
  vips,        \* the addresses ConfigureKeepalived loaded
  nodes,       \* the node addresses ConfigureNGINX loaded
  port,        \* the worker's copy of the Service has node ports
  current,     \* the worker's copy of the Service has the stored resourceVersion
  vridsReady,  \* the ConfigMap vrid-allocations holds this cluster's pair
  crashes      \* crashes so far

regs == <<cur, job, ip, vips, nodes, port, current>>
vars == <<kubeVars, hostVars, faults, pc, regs, vridsReady, crashes>>

ReconcileSteps ==
  {"lookup", "allocate", "fetchip", "nodes", "nginxopen", "nginxwrite", "nginxreload",
   "status"}
FinalizeSteps == {"nginxremove", "removereload", "release", "unfinalize"}
SharedSteps ==
  {"vrids", "loadvips", "primaryopen", "primarywrite", "secondaryopen", "secondarywrite",
   "restart"}
Steps == {"idle", "get"} \cup ReconcileSteps \cup FinalizeSteps \cup SharedSteps

(* What the worker holds, and where it holds it.                           *)
WorkerTypeOK ==
  /\ pc \in Steps
  /\ cur \in Services \cup {None}
  /\ (pc = "idle") <=> (cur = None)
  /\ job \in {"reconcile", "finalize", "none"}
  /\ ip \in IPs \cup {None}
  /\ job = "reconcile" => ip \in IPs \/ pc \in {"lookup", "allocate", "fetchip"}
  /\ vips \subseteq IPs
  /\ nodes \subseteq Nodes
  /\ port \in BOOLEAN
  /\ current \in BOOLEAN

(* Type invariant: every variable has its type, the worker has a key when  *)
(* it works, and reconcileService has an address once it went past the     *)
(* calls that get it one.                                                  *)
TypeOK ==
  /\ KubeTypeOK
  /\ HostTypeOK
  /\ WorkerTypeOK
  /\ vridsReady \in BOOLEAN
  /\ crashes \in 0 .. MaxCrashes

Init ==
  /\ KubeInit
  /\ HostInit
  /\ pc = "idle"
  /\ cur = None /\ job = "none" /\ ip = None
  /\ vips = {} /\ nodes = {} /\ port = FALSE /\ current = FALSE
  /\ vridsReady = VRIDsAtStart
  /\ crashes = 0

-----------------------------------------------------------------------------
(* How a step of the worker ends.                                          *)

(* The worker has nothing in hand.                                         *)
Idle ==
  /\ pc' = "idle"
  /\ cur' = None /\ job' = "none" /\ ip' = None
  /\ vips' = {} /\ nodes' = {} /\ port' = FALSE /\ current' = FALSE

(* Reconcile returns; an error puts the key back into the queue.           *)
Return(keys) ==
  /\ Idle
  /\ queue' = queue \cup keys

Succeed == Return({}) /\ UNCHANGED faults
(* Variant: the error is logged and swallowed.                             *)
FailQuietly == Return({}) /\ UNCHANGED faults
Fail == Return({cur}) /\ UNCHANGED faults

(* The next call is step; its caller keeps everything it holds.            *)
Goto(step) == pc' = step /\ UNCHANGED <<regs, queue, faults>>

(* A remote call or a write with outcome o, then step.                     *)
Then(o, step) ==
  \/ o = "ok" /\ Goto(step)
  \/ Faulty(o) /\ Return({cur})

(* What the worker never touches by itself.                                *)
Others == UNCHANGED <<inputs, events, vridsReady, crashes>>
At(step) == pc = step /\ Others

-----------------------------------------------------------------------------
(* Reconcile, up to the call of reconcileService or finalizeService.       *)

Dequeue(s) ==
  /\ At("idle")
  /\ s \in queue
  /\ queue' = queue \ {s}
  /\ pc' = "get"
  /\ cur' = s
  /\ UNCHANGED <<job, ip, vips, nodes, port, current, faults, svcVars, allocVars, hostVars>>

Getting == At("get") /\ ServiceReadable(cur) /\ UNCHANGED <<allocVars, hostVars>>

(* A Service that is gone (handleDeletedService only logs), that is not of *)
(* type LoadBalancer, or that is being deleted without our finalizer.      *)
SkipService ==
  /\ Getting
  /\ LET s == seen[cur] IN ~s.exists \/ ~s.lb \/ (s.del /\ ~s.fin)
  /\ Succeed
  /\ UNCHANGED svcVars

(* Variant: the error of the Update is ignored.                            *)
AddFinalizerUnchecked ==
  /\ Getting
  /\ seen[cur].exists /\ seen[cur].lb /\ ~seen[cur].del /\ ~seen[cur].fin
  /\ \/ ~CopyIsCurrent(cur) /\ UNCHANGED svcVars
     \/ CopyIsCurrent(cur) /\ StoreService(cur, [svc[cur] EXCEPT !.fin = TRUE])
  /\ pc' = "lookup"
  /\ job' = "reconcile"
  /\ port' = seen[cur].port
  /\ UNCHANGED <<cur, ip, vips, nodes, current, queue, faults>>

(* The Update with the finalizer, made from the copy just read.            *)
AddFinalizer ==
  /\ Getting
  /\ seen[cur].exists /\ seen[cur].lb /\ ~seen[cur].del /\ ~seen[cur].fin
  /\ \/ /\ ~CopyIsCurrent(cur)
        /\ Fail
        /\ UNCHANGED svcVars
     \/ /\ CopyIsCurrent(cur)
        /\ \E o \in Outcomes :
             /\ StoreService(cur, Result(o, svc[cur], [svc[cur] EXCEPT !.fin = TRUE]))
             /\ \/ /\ o = "ok"
                   /\ pc' = "lookup"
                   /\ job' = "reconcile"
                   /\ port' = seen[cur].port
                   /\ UNCHANGED <<cur, ip, vips, nodes, current, queue, faults>>
                \/ Faulty(o) /\ Return({cur})

(* Variant: a Service that shows an address is done.                       *)
StartReconcileOnce ==
  /\ Getting
  /\ seen[cur].exists /\ seen[cur].lb /\ ~seen[cur].del /\ seen[cur].fin
  /\ UNCHANGED svcVars
  /\ \/ seen[cur].ip # None /\ Succeed
     \/ /\ seen[cur].ip = None
        /\ pc' = "lookup"
        /\ job' = "reconcile"
        /\ port' = seen[cur].port
        /\ UNCHANGED <<cur, ip, vips, nodes, current, queue, faults>>

StartReconcile ==
  /\ Getting
  /\ seen[cur].exists /\ seen[cur].lb /\ ~seen[cur].del /\ seen[cur].fin
  /\ pc' = "lookup"
  /\ job' = "reconcile"
  /\ port' = seen[cur].port
  /\ UNCHANGED <<cur, ip, vips, nodes, current, queue, faults, svcVars>>

(* Variant: nothing is removed from nginx.                                 *)
StartFinalizeAtRelease ==
  /\ Getting
  /\ seen[cur].exists /\ seen[cur].lb /\ seen[cur].del /\ seen[cur].fin
  /\ pc' = "release"
  /\ job' = "finalize"
  /\ current' = CopyIsCurrent(cur)
  /\ UNCHANGED <<cur, ip, vips, nodes, port, queue, faults, svcVars>>

StartFinalize ==
  /\ Getting
  /\ seen[cur].exists /\ seen[cur].lb /\ seen[cur].del /\ seen[cur].fin
  /\ pc' = "nginxremove"
  /\ job' = "finalize"
  /\ current' = CopyIsCurrent(cur)
  /\ UNCHANGED <<cur, ip, vips, nodes, port, queue, faults, svcVars>>

-----------------------------------------------------------------------------
(* utils/ipam.go.                                                          *)

ReadingAllocations(step) ==
  /\ At(step)
  /\ AllocReadable
  /\ UNCHANGED <<svcVars, hostVars>>

(* Variant: the identifier is not compared.                                *)
OwnsAny(m, s, i) == m[i] # None

Owns(m, s, i) == m[i] = s

(* Variant: the check is skipped.                                          *)
AlwaysAllocate ==
  /\ ReadingAllocations("lookup")
  /\ Goto("allocate")
  /\ UNCHANGED allocVars

(* IsIPAllocatedToService.                                                 *)
LookupIP ==
  /\ ReadingAllocations("lookup")
  /\ Goto(IF \E i \in IPs : Owns(allocSeen, cur, i) THEN "fetchip" ELSE "allocate")
  /\ UNCHANGED allocVars

(* Variant: the first address of the pool, allocated or not.               *)
FirstAny(m, k) == k = 1

(* The pool is searched in order for an address the map does not hold.     *)
FirstFree(m, k) ==
  /\ m[pool[k]] = None
  /\ \A j \in 1 .. k - 1 : m[pool[j]] # None

(* Variant: the empty string an exhausted pool gives is used as an address.*)
AllocateIPUnchecked ==
  /\ ReadingAllocations("allocate")
  /\ \/ /\ \A k \in DOMAIN pool : allocSeen[pool[k]] # None
        /\ ip' = None
        /\ UNCHANGED allocVars
     \/ \E k \in DOMAIN pool :
          /\ FirstFree(allocSeen, k)
          /\ ip' = pool[k]
          /\ StoreAllocations([allocSeen EXCEPT ![pool[k]] = cur])
  /\ pc' = "vrids"
  /\ UNCHANGED <<cur, job, vips, nodes, port, current, queue, faults>>

(* AllocateIP loads the map itself, a second read of the cache.            *)
AllocateIP ==
  /\ ReadingAllocations("allocate")
  /\ \/ /\ \A k \in DOMAIN pool : allocSeen[pool[k]] # None
        /\ Fail
        /\ UNCHANGED allocVars
     \/ \E k \in DOMAIN pool, o \in Outcomes :
          /\ FirstFree(allocSeen, k)
          /\ StoreAllocations(Result(o, alloc, [allocSeen EXCEPT ![pool[k]] = cur]))
          /\ \/ /\ o = "ok"
                /\ pc' = "vrids"
                /\ ip' = pool[k]
                /\ UNCHANGED <<cur, job, vips, nodes, port, current, queue, faults>>
             \/ Faulty(o) /\ Return({cur})

(* GetAllocatedIPForService ranges over a Go map: any match may come first.*)
FetchIP ==
  /\ ReadingAllocations("fetchip")
  /\ UNCHANGED allocVars
  /\ \/ /\ \A i \in IPs : ~Owns(allocSeen, cur, i)
        /\ Fail
     \/ \E i \in IPs :
          /\ Owns(allocSeen, cur, i)
          /\ pc' = "vrids"
          /\ ip' = i
          /\ UNCHANGED <<cur, job, vips, nodes, port, current, queue, faults>>

(* Variant: the changed map is not saved.                                  *)
ReleaseIPWithoutSave ==
  /\ ReadingAllocations("release")
  /\ Goto("vrids")
  /\ UNCHANGED allocVars

(* ReleaseIP removes the first match of the map and fails without one.     *)
ReleaseIP ==
  /\ ReadingAllocations("release")
  /\ \/ /\ \A i \in IPs : ~Owns(allocSeen, cur, i)
        /\ Fail
        /\ UNCHANGED allocVars
     \/ \E i \in IPs, o \in Outcomes :
          /\ Owns(allocSeen, cur, i)
          /\ StoreAllocations(Result(o, alloc, [allocSeen EXCEPT ![i] = None]))
          /\ Then(o, "vrids")

-----------------------------------------------------------------------------
(* utils/vrid.go and utils/keepalived.go.                                  *)

(* GetOrAllocateVRIDs only reads the ConfigMap.                            *)
GetVRIDs ==
  /\ At("vrids")
  /\ IF vridsReady THEN Goto("loadvips") ELSE Fail
  /\ UNCHANGED <<svcVars, allocVars, hostVars>>

(* ConfigureKeepalived loads every allocated address, a third read of the  *)
(* cache, and renders both files from it.                                  *)
LoadVIPs ==
  /\ ReadingAllocations("loadvips")
  /\ vips' = {i \in IPs : allocSeen[i] # None}
  /\ pc' = "primaryopen"
  /\ UNCHANGED <<cur, job, ip, nodes, port, current, queue, faults, allocVars>>

OpenPrimary ==
  /\ At("primaryopen")
  /\ \E o \in Outcomes : OpenPrimaryFile(o) /\ Then(o, "primarywrite")
  /\ UNCHANGED <<svcVars, allocVars>>

WritePrimary ==
  /\ At("primarywrite")
  /\ \E o \in Outcomes : WritePrimaryFile(o, vips) /\ Then(o, "secondaryopen")
  /\ UNCHANGED <<svcVars, allocVars>>

OpenSecondary ==
  /\ At("secondaryopen")
  /\ \E o \in Outcomes : OpenSecondaryFile(o) /\ Then(o, "secondarywrite")
  /\ UNCHANGED <<svcVars, allocVars>>

WriteSecondary ==
  /\ At("secondarywrite")
  /\ \E o \in Outcomes : WriteSecondaryFile(o, vips) /\ Then(o, "restart")
  /\ UNCHANGED <<svcVars, allocVars>>

Restart ==
  /\ At("restart")
  /\ \E o \in Outcomes :
       /\ RestartKeepalived(o)
       /\ Then(o, IF job = "reconcile" THEN "nodes" ELSE "unfinalize")
  /\ UNCHANGED <<svcVars, allocVars>>

(* Variant: no sleep.                                                      *)
NotSlept == TRUE

(* The 5 s sleep of ConfigureKeepalived and the 3 s of reconcileService.   *)
Slept == SleepOutlastsLag => allocFeed = <<>> /\ feed[cur] = <<>>

-----------------------------------------------------------------------------
(* utils/nginx.go, utils/endpoints.go and the status update.               *)

(* GetServiceNodeIPs fails when no ready address is left.                  *)
GetNodes ==
  /\ At("nodes")
  /\ Slept
  /\ \/ endpoints[cur] = {} /\ Fail
     \/ /\ endpoints[cur] # {}
        /\ nodes' = endpoints[cur]
        /\ pc' = "nginxopen"
        /\ UNCHANGED <<cur, job, ip, vips, port, current, queue, faults>>
  /\ UNCHANGED <<svcVars, allocVars, hostVars>>

(* GenerateNGINXConfig.                                                    *)
Rendered == [svc |-> cur, ip |-> ip, nodes |-> nodes, port |-> port]

OpenConfig ==
  /\ At("nginxopen")
  /\ \E o \in Outcomes : OpenNginxFile(o, PathOf(cur)) /\ Then(o, "nginxwrite")
  /\ UNCHANGED <<svcVars, allocVars>>

WriteConfig ==
  /\ At("nginxwrite")
  /\ \E o \in Outcomes :
       /\ WriteNginxFile(o, PathOf(cur), Rendered)
       /\ Then(o, "nginxreload")
  /\ UNCHANGED <<svcVars, allocVars>>

(* Variant: the error of the reload is ignored.                            *)
ReloadConfigUnchecked ==
  /\ At("nginxreload")
  /\ ReloadRefused \/ \E o \in Outcomes : ReloadNGINX(o)
  /\ Goto("status")
  /\ UNCHANGED <<svcVars, allocVars>>

ReloadConfig ==
  /\ At("nginxreload")
  /\ \/ \E o \in Outcomes : ReloadNGINX(o) /\ Then(o, "status")
     \/ ReloadRefused /\ Fail
  /\ UNCHANGED <<svcVars, allocVars>>

(* The Service is read again and its status written from that copy, which  *)
(* the API server refuses when the copy is behind.                         *)
PublishStatus ==
  /\ At("status")
  /\ ServiceReadable(cur)
  /\ \/ /\ ~seen[cur].exists \/ ~CopyIsCurrent(cur)
        /\ Fail
        /\ UNCHANGED svcVars
     \/ /\ seen[cur].exists /\ CopyIsCurrent(cur)
        /\ \E o \in Outcomes :
             /\ StoreService(cur, Result(o, svc[cur], [svc[cur] EXCEPT !.ip = ip]))
             /\ \/ o = "ok" /\ Succeed
                \/ Faulty(o) /\ Return({cur})
  /\ UNCHANGED <<allocVars, hostVars>>

-----------------------------------------------------------------------------
(* finalizeService, and the Update that removes the finalizer.             *)

(* Variant: nginx is not reloaded.                                         *)
RemoveConfigWithoutReload ==
  /\ At("nginxremove")
  /\ \E o \in Outcomes : RemoveNginxFile(o, PathOf(cur)) /\ Then(o, "release")
  /\ UNCHANGED <<svcVars, allocVars>>

RemoveConfig ==
  /\ At("nginxremove")
  /\ \E o \in Outcomes : RemoveNginxFile(o, PathOf(cur)) /\ Then(o, "removereload")
  /\ UNCHANGED <<svcVars, allocVars>>

(* Variant: the error of the reload is ignored.                            *)
ReloadAfterRemoveUnchecked ==
  /\ At("removereload")
  /\ ReloadRefused \/ \E o \in Outcomes : ReloadNGINX(o)
  /\ Goto("release")
  /\ UNCHANGED <<svcVars, allocVars>>

ReloadAfterRemove ==
  /\ At("removereload")
  /\ \/ \E o \in Outcomes : ReloadNGINX(o) /\ Then(o, "release")
     \/ ReloadRefused /\ Fail
  /\ UNCHANGED <<svcVars, allocVars>>

(* Variant: Reconcile returns without the Update.                          *)
KeepFinalizer ==
  /\ At("unfinalize")
  /\ Slept
  /\ Succeed
  /\ UNCHANGED <<svcVars, allocVars, hostVars>>

(* The Update is made from the copy read at the start of Reconcile.  The   *)
(* API server deletes the object with its last finalizer.                  *)
RemoveFinalizer ==
  /\ At("unfinalize")
  /\ Slept
  /\ \/ /\ ~current
        /\ Fail
        /\ UNCHANGED svcVars
     \/ /\ current
        /\ \E o \in Outcomes :
             /\ StoreService(cur, Result(o, svc[cur], Absent))
             /\ \/ o = "ok" /\ Succeed
                \/ Faulty(o) /\ Return({cur})
  /\ UNCHANGED <<allocVars, hostVars>>

-----------------------------------------------------------------------------
(* Everything else that happens.                                           *)

(* GetOrAllocateVRIDsOnStartup, which main starts after the manager; see   *)
(* module VridStartup for what it does.                                    *)
StartupPublishesVRIDs ==
  /\ ~vridsReady
  /\ vridsReady' = TRUE
  /\ UNCHANGED <<kubeVars, hostVars, faults, pc, regs, crashes>>

(* A tee that has opened its file and whose operator is gone may still     *)
(* write it.                                                               *)
TeeWrites ==
  \/ pc = "primarywrite" /\ WritePrimaryFile("ok", vips)
  \/ pc = "secondarywrite" /\ WriteSecondaryFile("ok", vips)
  \/ pc = "nginxwrite" /\ WriteNginxFile("ok", PathOf(cur), Rendered)

(* The process dies (os.Exit on a failed start, a lost lease, the node)    *)
(* and a new one lists everything afresh.                                  *)
Crash ==
  /\ crashes < MaxCrashes
  /\ crashes' = crashes + 1
  /\ Idle
  /\ Relist
  /\ TeeWrites \/ UNCHANGED hostVars
  /\ UNCHANGED <<faults, vridsReady>>

(* An event; a write to cur outdates the copy the worker holds.            *)
EventHappens(s) ==
  /\ EventOf(s)
  /\ current' = (current /\ (cur = s => feed'[s] = feed[s]))
  /\ UNCHANGED <<hostVars, faults, pc, cur, job, ip, vips, nodes, port, vridsReady, crashes>>

PoolChanges ==
  /\ ChangePool
  /\ UNCHANGED <<hostVars, faults, pc, regs, vridsReady, crashes>>

(* The operator of another cluster.                                        *)
NeighbourActs ==
  /\ NeighbourReloads \/ NeighbourRestarts
  /\ UNCHANGED <<kubeVars, faults, pc, regs, vridsReady, crashes>>

InformerDelivers(s) ==
  /\ DeliverService(s)
  /\ UNCHANGED <<hostVars, faults, pc, regs, vridsReady, crashes>>

DeliverMap ==
  /\ DeliverAllocations
  /\ UNCHANGED <<hostVars, faults, pc, regs, vridsReady, crashes>>

Worker ==
  \/ SkipService \/ AddFinalizer \/ StartReconcile \/ StartFinalize
  \/ LookupIP \/ AllocateIP \/ FetchIP \/ ReleaseIP
  \/ GetVRIDs \/ LoadVIPs
  \/ OpenPrimary \/ WritePrimary \/ OpenSecondary \/ WriteSecondary \/ Restart
  \/ GetNodes \/ OpenConfig \/ WriteConfig \/ ReloadConfig \/ PublishStatus
  \/ RemoveConfig \/ ReloadAfterRemove \/ RemoveFinalizer

Next ==
  \/ Worker
  \/ \E s \in Services : Dequeue(s) \/ EventHappens(s) \/ InformerDelivers(s)
  \/ DeliverMap
  \/ PoolChanges
  \/ NeighbourActs
  \/ StartupPublishesVRIDs
  \/ Crash

Spec == Init /\ [][Next]_vars

(* Scheduling: the worker never stops between two calls, the workqueue is  *)
(* first-in first-out with a finite back-off, watch events arrive, and the *)
(* VRID allocation of main ends.  Nothing is assumed of events, faults and *)
(* crashes.                                                                *)
Fairness ==
  /\ WF_vars(Worker)
  /\ WF_vars(DeliverMap)
  /\ WF_vars(StartupPublishesVRIDs)
  /\ \A s \in Services : SF_vars(Dequeue(s)) /\ WF_vars(InformerDelivers(s))

FairSpec == Spec /\ Fairness
=============================================================================
