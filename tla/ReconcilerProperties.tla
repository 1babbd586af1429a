------------------------ MODULE ReconcilerProperties ------------------------
(***************************************************************************)
(* What ServiceReconciler promises.                                        *)
(***************************************************************************)
EXTENDS ServiceReconciler

Files == {nginxFile, nginxRun}

(* The finalizer protocol: a configuration of the NGINX host, on disk or   *)
(* running, belongs to a Service that still exists and still carries the   *)
(* operator's finalizer, however late the informers are, whatever call     *)
(* fails and wherever the process crashes.  (service_controller.go adds    *)
(* the finalizer before it configures and removes it after it cleaned up.) *)
NoOrphanConfig ==
  \A f \in Files : \A p \in Paths :
    f[p] # None => f[p].svc \in Services /\ PathOf(f[p].svc) = p /\ svc[f[p].svc].fin

(* reconcileService publishes an address only once nginx runs with the     *)
(* Service's own configuration for that very address.                      *)
PublishAfterReload ==
  [][\A s \in Services :
       svc'[s].ip \notin {None, svc[s].ip} =>
         /\ nginxRun[PathOf(s)] # None
         /\ nginxRun[PathOf(s)].svc = s
         /\ nginxRun[PathOf(s)].ip = svc'[s].ip]_vars

(* An address is published only once the running keepalived announces it.  *)
(* (reconcileService calls ConfigureKeepalived, then sleeps for keepalived *)
(* to apply the addresses, and publishes last.)                            *)
PublishAfterAnnounce ==
  [][\A s \in Services :
       svc'[s].ip \notin {None, svc[s].ip} => svc'[s].ip \in Announced(kaRun)]_vars

(* A Service that was not deleted shows its users an address.              *)
Shown(s) == svc[s].ip # None /\ ~svc[s].del

(* The reconciler is level-triggered: a LoadBalancer Service that is not   *)
(* in the queue, in the worker's hands or in a watch event on its way is   *)
(* exactly as its users want it now, however old the copies the worker     *)
(* used and whatever failed.  It is not being deleted, it shows an         *)
(* address, and nginx has that address, the nodes of its pods and its      *)
(* ports on disk and running.  (Nothing else would ever look at it again:  *)
(* Reconcile requeues after an error only, and Watches filters Endpoints.) *)
Waiting(s) == s \in queue \/ feed[s] # <<>>
Pending(s) == cur = s \/ Waiting(s)
Desired(s) == [svc |-> s, ip |-> svc[s].ip, nodes |-> endpoints[s], port |-> svc[s].port]

Settled(s) ==
  /\ ~svc[s].del
  /\ svc[s].ip # None
  /\ \A f \in Files : f[PathOf(s)] = Desired(s)

NothingForgotten ==
  \A s \in Services : svc[s].exists /\ svc[s].lb => Pending(s) \/ Settled(s)

(* A live LoadBalancer Service that shows an address, and that Reconcile   *)
(* is not to look at again, is served: nginx runs with a configuration of  *)
(* its own.  (The file is named after the Service, nginx.go:31.)           *)
PublishedIsServed ==
  \A s \in Services : svc[s].lb /\ Shown(s) =>
    \/ Pending(s)
    \/ nginxRun[PathOf(s)] # None /\ nginxRun[PathOf(s)].svc = s

(* When reads are current, what nginx has on disk or runs for a Service    *)
(* uses an address the map holds for that Service: an address is taken     *)
(* before it is configured and given up after it is unconfigured.          *)
ConfigOwnsAddress ==
  \A f \in Files : \A p \in Paths : f[p] # None => alloc[f[p].ip] = f[p].svc

(* When reads are current, a Service holds one address at most, and only   *)
(* while it carries the finalizer: none leaks.                             *)
NoLeakedAddress ==
  /\ \A i, j \in IPs : alloc[i] = alloc[j] /\ alloc[i] # None => i = j
  /\ \A i \in IPs : alloc[i] # None => svc[alloc[i]].fin

(* When reads are current, the address a live Service shows its users is   *)
(* its own, so no two of them show the same.                               *)
PublishedAddressHeld ==
  \A s \in Services : Shown(s) => alloc[svc[s].ip] = s

(* When reads are current, or the sleeps outlast their lag, users can rely *)
(* on an address they have seen: it changes only when the Service is       *)
(* deleted.  (IsIPAllocatedToService and GetAllocatedIPForService find in  *)
(* the map again what the Service got before.)                             *)
ShownAddressStays ==
  [][\A s \in Services : Shown(s) => svc'[s].ip = svc[s].ip]_vars

(* Under the same conditions, and when no call fails, a read that lags     *)
(* leaves a shown address unannounced only as long as Reconcile is still   *)
(* to look at the Service again, and another Service's pass only while it  *)
(* rewrites the files (a neighbour may restart keepalived with an empty    *)
(* one): otherwise both keepalived files and the running daemon have it.   *)
(* (The status update that shows the address brings it back.)              *)
Rewriting == pc \in {"primarywrite", "secondaryopen", "secondarywrite", "restart"}

AnnouncedEverywhere(i) ==
  \A ka \in {kaPrimary, kaRun, kaSecondary} : i \in Announced(ka)

ShownIsAnnounced ==
  \A s \in Services : svc[s].lb /\ Shown(s) =>
    Pending(s) \/ Rewriting \/ AnnouncedEverywhere(svc[s].ip)

(* When reads are current, the operator implements AddressLease: the lease *)
(* is the stored map, the traffic what nginx runs with.                    *)
Serving == {<<nginxRun[p].svc, nginxRun[p].ip>> : p \in {q \in Paths : nginxRun[q] # None}}

Lease == INSTANCE AddressLease WITH lease <- alloc, serving <- Serving

ImplementsLease == Lease!Spec

-----------------------------------------------------------------------------
(* The inductive invariant behind NoOrphanConfig.                          *)

(* What the worker works at.                                               *)
JobOK ==
  /\ pc \in {"idle", "get"} => job = "none"
  /\ pc \in ReconcileSteps => job = "reconcile"
  /\ pc \in FinalizeSteps => job = "finalize"
  /\ pc \in SharedSteps => job # "none"

(* The watch delivers up to the stored version.                            *)
CacheFollows ==
  \A s \in Services :
    IF feed[s] = <<>> THEN seen[s] = svc[s] ELSE feed[s][Len(feed[s])] = svc[s]

InCache(s, v) == v = seen[s] \/ \E k \in 1 .. Len(feed[s]) : v = feed[s][k]

(* An old version with the finalizer and without a deletionTimestamp is    *)
(* never older than the removal of the finalizer.                          *)
CacheFin ==
  \A s \in Services : \A v \in Version :
    v.fin /\ ~v.del /\ InCache(s, v) => svc[s].fin

AbsentHasNoFin == \A s \in Services : svc[s].fin => svc[s].exists

(* While reconcileService runs the finalizer stays.                        *)
WorkerFin == job = "reconcile" => svc[cur].fin

(* A finalization whose Update will be accepted saw the last version.      *)
CurrentCopy ==
  current => /\ job = "finalize"
             /\ feed[cur] = <<>>
             /\ svc[cur].del

(* Finalization has cleaned up behind itself.                              *)
Cleaned ==
  job = "finalize" =>
    /\ pc # "nginxremove" => nginxFile[PathOf(cur)] = None
    /\ pc \notin {"nginxremove", "removereload"} => nginxRun[PathOf(cur)] = None

IInv ==
  /\ TypeOK /\ NoOrphanConfig /\ JobOK
  /\ CacheFollows /\ CacheFin /\ AbsentHasNoFin
  /\ WorkerFin /\ CurrentCopy /\ Cleaned

-----------------------------------------------------------------------------
(* Liveness.                                                               *)

(* The pool has an address for s.                                          *)
Obtainable(s) ==
  \/ \E i \in IPs : alloc[i] = s
  \/ \E k \in DOMAIN pool : alloc[pool[k]] = None

(* No file of another Service makes nginx refuse the reload.               *)
Unhindered(s) ==
  \A p \in Paths \ {PathOf(s)} : nginxFile[p] # None => nginxFile[p].port

Wants(s) ==
  /\ svc[s].exists /\ svc[s].lb /\ ~svc[s].del /\ svc[s].port
  /\ endpoints[s] # {}
  /\ Obtainable(s)
  /\ Unhindered(s)

Served(s) ==
  /\ svc[s].ip # None
  /\ nginxRun[PathOf(s)] =
       [svc |-> s, ip |-> svc[s].ip, nodes |-> endpoints[s], port |-> TRUE]
  /\ svc[s].ip \in Announced(kaRun)
  /\ kaSecondary = kaRun

(* A live Service with ready pods and node ports gets its address as soon  *)
(* as the pool has one, nginx proxies to the nodes its pods are on now,    *)
(* also after they move, and the two keepalived hosts agree.               *)
Provisioned == \A s \in Services : Wants(s) ~> (Served(s) \/ ~Wants(s))

(* A deleted Service stops being served, whatever fails on the way and     *)
(* even when its finalization never ends, unless it is no LoadBalancer any *)
(* more (Reconcile leaves it alone then) or nginx refuses the file of      *)
(* another Service.                                                        *)
DeletionUnserves ==
  \A s \in Services :
    svc[s].del ~> (nginxRun[PathOf(s)] = None \/ ~svc[s].lb \/ ~Unhindered(s))

(* Finalization comes to ReleaseIP when there is no address to release.    *)
NothingToRelease(s) == pc = "release" /\ cur = s /\ \A i \in IPs : alloc[i] # s

(* Finalization ends, through failures, crashes and conflicts: a deleted   *)
(* Service goes away, unless it is no LoadBalancer any more, an earlier    *)
(* attempt has released its address (or it never got one), or nginx        *)
(* refuses the file of another Service.                                    *)
DeletionEnds ==
  \A s \in Services :
    svc[s].del ~> \/ ~svc[s].del \/ ~svc[s].lb
                  \/ NothingToRelease(s)
                  \/ ~Unhindered(s)

(* Keepalived gets the address of a live LoadBalancer Service, also when   *)
(* the pass of another Service that rewrites its files fails half-way.     *)
(* (ConfigureKeepalived deals all the allocated addresses out.)            *)
AddressComesUp ==
  \A s \in Services :
    svc[s].lb /\ Shown(s) ~> ~svc[s].lb \/ ~Shown(s) \/ svc[s].ip \in Announced(kaPrimary)

(* Finalization ends: a deleted Service goes away.                         *)
DeletionCompletes == \A s \in Services : svc[s].del ~> ~svc[s].del
=============================================================================
