# A TLA+ model of the NGINX load balancer operator

The operator gives Kubernetes Services of type LoadBalancer an address from a
pool, announces it with Keepalived and proxies it with NGINX on an external
host it drives over SSH. These modules model the program that `main.go` builds
(`main.go`, `controllers/`, `utils/`), the part of Kubernetes it uses, the host,
and the two packages of an earlier version under `pkg/`. TLC checks small
instances; TLAPS proves every safety and action property the passing runs
check, for every value of the constants, some under assumptions section 4 names;
liveness is only model-checked.

    tlc -config OneService.cfg MCReconciler  # any run: its cfg and its MC module
    tlapm LeaseProofs.tla                    # any module whose name ends in Proofs

## 1. The system

### Components

| Component | State | Operations |
|---|---|---|
| Service reconciler (`controllers/service_controller.go`) | one worker: the key in hand, its copy of the Service, the address | `Reconcile`: add finalizer, `reconcileService`, `finalizeService`, remove finalizer; Endpoints predicate |
| Address allocation (`utils/ipam.go`) | ConfigMap `ip-allocations` (address to Service), pool in `ip-pool-config` | `IsIPAllocatedToService`, `AllocateIP`, `GetAllocatedIPForService`, `ReleaseIP`; `LoadIPPool` parses single addresses and ranges |
| Keepalived (`utils/keepalived.go`) | two files per cluster, the running daemon | `ConfigureKeepalived`: load allocations, split in two groups, write both files, restart, sleep |
| NGINX (`utils/nginx.go`) | one file per Service, the running configuration | `ConfigureNGINX`, `RemoveNGINXConfig`, `ReloadNGINX` |
| VRID allocation (`utils/vrid.go`) | `VRID_allocations.conf` on the host, shared by clusters; ConfigMap `vrid-allocations` per cluster | at start: fetch, choose, write, publish; later: read |
| Remote commands (`utils/ssh.go`) | none | copy (`echo | sudo tee`), remove, run, fetch |
| Endpoints (`utils/endpoints.go`) | none | node addresses of the ready pods |
| Process start (`main.go`) | none | manager in a goroutine, cache sync, VRID allocation |
| Kubernetes (external) | objects, watch events under way, informer caches, workqueue | cached reads, conditional and unconditional updates, finalizers, requeue |
| Legacy allocator (`pkg/ipam`, not linked into the program) | tables in memory, their mutex, ConfigMap `ip-allocations` | `Init`, `AllocateIPAndPorts`, `ReleaseAllocation`, `GetAllocatedIPs` |
| Legacy client (`pkg/nginx`, not linked either) | ConfigMap `vrid-allocations` with one pair | `ConfigureService`, `RemoveServiceConfiguration`, `UpdateKeepalivedConfigs` |

### How they interact

`Reconcile` is called with one key at a time (controller-runtime's default of
one worker). All its reads go to informer caches (`mgr.GetClient()`), all its
writes to the API server. Updates of a Service carry a resourceVersion and are
refused when the copy is old; `SaveAllocatedIPs` builds a fresh ConfigMap
without one, so that write replaces whatever is stored. Everything on the host
is a separate SSH session that can fail, or can run and lose its answer. The
key comes back after any error, and `Reconcile` starts over from what it reads.

### What is hard

* Cached reads right after writes: `AllocateIP` reads a map that may lack the
  last allocation; `ConfigureKeepalived` reads it a third time. Only the sleeps
  of the code (8 s when provisioning, 5 s when finalizing) cover the delay.
* A sequence of ten calls, each of which may fail or be the last before a
  crash, that is restarted from its beginning: every step has to be idempotent.
* Users and the operator itself change the Service while the worker holds a copy.
* A file on the host that operators of several clusters rewrite without a lock,
  and daemons they reload and restart.
* A copy is `echo | sudo tee`, which empties the file before it writes it: others
  may read, reload or restart in between, and the tee may die there with its
  session, or be left alone on the host and write when nobody expects it.
* One file nginx refuses (no node port, no nodes, perhaps two files with one
  address) makes the reload of every Service fail.
* Loops over addresses with an increment that wraps.
* A mutex that is locked by who holds it (`pkg/ipam`).
* Reconciliations that run before the VRIDs are there.

`PROJECT.json` lists each hazard at its line, with the properties that cover it.

### What makes each part correct

* Reconciler: nothing on the host outlives the finalizer; an address is shown
  only when it is served; a live Service gets served; a deleted one goes away.
* Addresses: one Service per address, one address per Service, none leaked, none
  free while traffic flows on it.
* Keepalived: what users see is announced by both hosts, or is being rewritten, or
  its Service will be looked at again.
* Pool: the list is what the lines say, and parsing ends.
* VRIDs: no identifier in two clusters, and the same pair through every restart.
* Legacy: the two tables agree; what the mutex allows, and what it blocks.

## 2. The modules

| Module | What it is |
|---|---|
| `LbTypes` | Services, addresses, nodes, the pools, the file path and what a file says |
| `KubeApi` | API server, informers, workqueue, users (external, from how the code uses them) |
| `NginxHost` | files and daemons of the host, outcomes of remote commands, refused reloads, other clusters' operators |
| `ServiceReconciler` | the worker, one action per call; composes `KubeApi` and `NginxHost` |
| `AddressLease` | abstract specification of the pool |
| `ReconcilerProperties` | properties, the refinement mapping, the inductive invariant |
| `MCReconciler` | instances of the reconciler |
| `ReconcilerProofs`, `PublicationProofs`, `ServedProofs`, `LeaseProofs`, `AnnounceProofs` | TLAPS proofs about the reconciler, each on top of the one before |
| `IpPool`, `MCIpPool`, `IpPoolProofs` | how `ip_pool` becomes a list of addresses, in both versions; instance; proofs |
| `VridStartup`, `MCVrid`, `VridProofs` | VRID allocation by several pods of several clusters; instances; proofs |
| `VridRegistry` | abstract specification of the identifiers: what `VridStartup` implements |
| `LegacyIpam` | `pkg/ipam` with its mutex, called by any number of goroutines |
| `LegacyNginx` | `pkg/nginx`; composes `LegacyIpam` and `NginxHost` |
| `MCLegacy`, `LegacyProofs` | instance and proofs of the two |

### State and actions against the code

`svc[s]` is the stored Service, reduced to existence, type, deletionTimestamp,
finalizer and the address of its status; `seen[s]` the informer's copy and
`feed[s]` the versions between the two, oldest first. `alloc`, `allocSeen` and
`allocFeed` are the same for `ip-allocations`. A cached read needs the backlog
to be at most `SvcLag` (`AllocLag`) versions: the watch delay as a bound.
`current` says that the copy `Reconcile` holds has the stored resourceVersion.

| Action | Code |
|---|---|
| `SkipService`, `AddFinalizer`, `StartReconcile`, `StartFinalize` | `Reconcile` up to line 130 |
| `LookupIP`, `AllocateIP`, `FetchIP` | lines 143-170 and `utils/ipam.go` |
| `GetVRIDs`, `LoadVIPs`, `OpenPrimary`, `WritePrimary`, `OpenSecondary`, `WriteSecondary`, `Restart` | lines 172-186, 250-262, `GetOrAllocateVRIDs`, `ConfigureKeepalived` |
| `GetNodes`, `OpenConfig`, `WriteConfig`, `ReloadConfig` | `ConfigureNGINX` |
| `PublishStatus` | lines 202-224 |
| `RemoveConfig`, `ReloadAfterRemove`, `ReleaseIP` | `finalizeService` up to line 248 |
| `RemoveFinalizer` | lines 120-126 |
| `StartupPublishesVRIDs`, `Crash` | `main` |
| `NeighbourActs`, `PoolChanges` | the operator of another cluster; an administrator |

Every remote call and every write to the API server has three outcomes: it ran,
it did not run and the caller gets an error, it ran and the caller gets an error
all the same. An error ends the reconciliation and puts the key back.

An operator whose comment begins with "Variant:" is a definition with a
plausible bug. No specification uses it; it is what a property is held against
to see that the property would notice.

The two Keepalived groups are a record of two sets: `GroupsOf` deals the sorted
addresses out in turn, as `distributeIPsIntoGroups` does. What is announced is
their union; that both hosts agree is a property of the records.

In `VridStartup` a pod is a program counter (`pc`; `opened` while its tee has
truncated the file), the pair it chose and the text it writes (`data`). When a
session or a pod ends with its tee at work, the tee joins `orphans`: alone on the
host it truncates, writes over what is there (`Overlaid`: the end of a longer text
survives) or dies, at any time, and no start waits for it. `disorder` is a history
variable that no action reads: whether two starts have overlapped, and whether a
tee has been left alone. What needs order is stated as long as it is empty.

In `IpPool` an address is its four bytes or has no four-byte form (`V6`). The
state is the loop itself: the line, whether it walks a range, the address it is
at and the list so far; `utils` stops after the end of a range, `pkg` at it.
`RangeStandsFor` is the reference definition, by the number an address is.

In `LegacyIpam` a goroutine waits for the mutex (`lock`), is in the body of a
function, or waits in `saveAllocations` (`save`) for the mutex it holds. In
`LegacyNginx` it is at one of the remote commands or accesses to
`vrid-allocations` of the function it called; the pair it renders with (`pairs`)
ends up in the two keepalived files (`filePairs`).

### Simplifications

* `AllocateIP` and `ReleaseIP` read and write in one step. What they write
  depends only on what they read, and nobody else writes the map meanwhile (one
  worker, one leader), so a delivery in between may as well come after the write.
* `AddFinalizer` and `PublishStatus` too: a user's write between their read and
  their Update looks to the API server like one the informer has not delivered
  yet, which is there when `SvcLag` is positive.
* A copy is two steps everywhere, the truncation and the write, each of which may
  fail or lose its answer; an error after the first leaves the file empty. What a
  reader finds in a file is nothing or all of the text: half a line is left out.
  An empty file of NGINX is like none, an empty file of Keepalived has no
  addresses.
* In the reconciler a command that outlives its session has written or died before
  the operator's next command on the host. In `VridStartup` it has not: two orphans
  that are alike count once. In `LegacyNginx` two callers' tees on one file are
  whole writes, one after the other.
* `nginx -s reload` applies what is on disk or refuses all of it. It refuses a
  file without a node or with port 0. Whether it takes two files that listen on
  one address depends on their ports and the version, so `Clash` may go either
  way. It is taken to accept an address the host does not have yet.
* Of ports only what makes a file valid is kept. Credentials, RBAC, logs and
  recorder events are left out.
* A pool `LoadIPPool` refuses is an empty one, for `AllocateIP` fails with both.
  A pool it parses for ever is in `IpPool` and not in the reconciler.
* `IpPool` takes a line as what `TrimSpace`, `Split` and `ParseIP` make of it.
  Two spellings of an address, which `pkg/ipam` would keep apart, are one.
* Nothing calls `pkg/`: its callers are goroutines that call the exported
  functions in any order, with what they were given. The pool of `pkg/ipam` is one of `Pools`.
* A Service is deleted in the background; finalizers of others are not modelled.
* A Service whose name was reused is the same key: `Absent` to `Created` again.
* Lines of `VRID_allocations.conf` without exactly one colon, which the operator
  drops, are not modelled; neither are identifiers outside the range.

## 3. The runs

Bounds: two Services and two addresses are the smallest pool with a choice, and
one address for two Services makes the other one wait for its release. One
lagging version per object is enough to decide on something old. One failed call
and one crash reach every step, since each step can be the one that fails. Two
events allow delete-create, retype-delete and an edit during a finalization (the
Services exist at the start, or are created by the first event); three, in
`two_services`, let one Service wait for another that comes and goes. `CHECK_DEADLOCK
FALSE` is set because the system does stop: when the queue is empty and the
events are used up nothing is to be done.

| Run | Instance | What it shows |
|---|---|---|
| `one_service` | 1 Service, 2 nodes, one address or none, late Service events, 2 events (create, delete, retype, edit, endpoints, ports, pool), a fault, a crash, a neighbour | the finalizer protocol with its inductive invariant; no address shown before nginx has it; nothing is forgotten; a live Service gets served by the nodes its pods are on, a deleted one stops being served, and its finalization ends |
| `current_reads` | 2 Services, 2 addresses, current reads of the map, 2 events (delete, retype), a fault, a crash, a neighbour | the refinement of `AddressLease`; configured addresses are held and none leaks; what is shown never changes |
| `sleeps` | 2 Services, 2 addresses, lagging map, 2 events (create, delete, retype, edit), no fault, a crash, a neighbour, sleeps outlast the lag | the sleeps alone restore the refinement; what is shown is held, and announced, or being rewritten, or about to be looked at again |
| `two_services` | 2 Services, one address or none, 3 events, node ports, pool, resync, a neighbour | the Service that waits is served when the address is free; how far a refused file reaches |
| `ip_pool` | bytes of 2 values: 16 addresses and one of IPv6; every single range, and all texts of two lines out of 8 kinds | both parsers against the reference definition; they end unless a range is one of the named endless ones, and come nearer their end with each address |
| `vrid` | 2 pods of 2 clusters, 2 faults or deaths, tees left alone, files with foreign or malformed lines or none, a ConfigMap without data | all start, with an entry the reconciler can read; until the first disorder pairs are exclusive and stable and the clusters implement a registry; an owner starts again when no pair is left |
| `legacy` | 2 goroutines, 2 Services, 1 port, pools of 1 and 2 addresses, a fault, a death | the tables agree; a save blocks for good; only what was stored takes effect; both keepalived files carry the stored pair |

The largest is `current_reads` with 1.8 million distinct states; no run takes more
than four minutes.

`ShownIsAnnounced` and `NothingForgotten` allow for a Service that is `Pending`:
while a pass rewrites its file, a live Service is off when a neighbour reloads
nginx at that moment, and is loaded again by the pass itself. The same is true of
all addresses while a pass rewrites the Keepalived files (`Rewriting`).

Carry, wrap and comparison of addresses show with two values of a byte; `MaxLen`
is 33, one more than two lines can list, so it stops only the endless loops.
One port is enough for two Services to exclude each other from an address.

`MaxVRID` stands for 255: odd as it is, so that the last identifier has no
partner. With 7, the file that holds 2,3 for a third cluster leaves one pair to
the two that start. Two pods are enough for every overlap of two starts; a second
pod of the same cluster, as in a rolling update, is like a restart of the first as
long as starts are orderly, and the theorems have any number.

The following runs end in a counterexample; each is a disagreement between the
code and what its comments or the README say.

| Run | Counterexample |
|---|---|
| `stuck_conflict` | delete a Service while it is provisioned: its status update makes the removal of the finalizer conflict, and the retry cannot release the address again. A restart after `ReleaseIP`, and a Service that never got an address, end the same way |
| `shared_address` | a reconciliation fails before it sleeps; the next overwrites its allocation |
| `early_publish` | no failure and one Service: `ConfigureKeepalived` reads the cache right after `AllocateIP` wrote the map, configures Keepalived without the new address, and the address is shown all the same |
| `shared_file` | `team-a/web` and `team/a-web` share `vip-...-team-a-web.conf` |
| `vrid_race` | an operator starts while the tee of another has the shared file truncated, takes it for missing and publishes 1,2, which a third cluster holds |

Two more configurations are kept for what they say of the assumptions in section
4. `Unannounced.cfg` (`AddressComesUp`): one call fails, and an address nothing
touches stays out of the Keepalived files for good. A finalization releases its
address, rewrites the files of all Services and fails after the truncation; its
retries end at `ReleaseIP`, which finds nothing to release, and never come to
Keepalived again. `VridCut.cfg` (`ExclusiveInTurn`): pods start in turn, but a
session that ends between truncation and write leaves the shared file empty, and
the next start publishes 1,2.

`shared_address` is also how an address that is served can lack its
announcement: a map that is overwritten, or read late, is what
`ConfigureKeepalived` deals out.

`DeletionEnds` says when finalization does end: not while the Service has no
LoadBalancer type (a retyped Service keeps finalizer, file and address until its
type is changed back, also when it is deleted, so `DeletionUnserves` makes the same
exception; `NoOrphanConfig` and `NoLeakedAddress` hold throughout), not when it
comes to `ReleaseIP` with nothing to release, and not while another file makes the
reload fail.

### Fairness

`WF(Worker)`: the goroutine of the worker runs and each call it makes returns
(an SSH dial has no timeout of its own, so this assumes that TCP gives up).
`SF(Dequeue(s))`: the workqueue is first-in first-out with a bounded back-off,
so a key that keeps coming back is taken; strong, because the worker is busy in
between. `WF` of the informers: the API server delivers each watch event.
`WF(StartupPublishesVRIDs)`: `main` either finishes or exits and is restarted.
Nothing is assumed of users, failures or crashes. In `VridStartup` each call of a
pod ends, and the kubelet starts a pod again: `WF(Start(p) \/ Step(p))`; nothing is
assumed of the tees that are alone. In `IpPool` the loop
runs: `WF(Next)`. In `LegacyNginx` remote commands return, `WF(Client(c))`, and a
free `sync.Mutex` goes to each goroutine that waits for it in turn, which its
starvation mode sees to: `SF(Ipam(c))`. Nothing makes a goroutine call again.

`SleepOutlastsLag` is an assumption of `sleeps`, `shared_address` and
`early_publish`: watch events normally take milliseconds and the sleeps seconds,
and still the latter two fail.

## 4. The proofs

All theorems hold for any sets of Services, addresses and nodes, any pools that
may change, and any number of events, failures, crashes and deaths. They rest on
the named assumptions of the modules (the pools are sequences of addresses,
`None` is none of the values, the bounds are naturals) and on what the table
says.

| Theorem | Property | Further assumption |
|---|---|---|
| `TypeCorrect`, `Inductive` | `TypeOK`, `IInv` | |
| `FinalizerProtocol` | `NoOrphanConfig` | |
| `PublishesAfterReload` | `PublishAfterReload` | |
| `NothingIsForgotten` | `NothingForgotten` | no two Services share a file |
| `ConfigurationsOwnTheirAddress`, `AddressesDoNotLeak`, `ShownAddressesAreHeld` | `ConfigOwnsAddress`, `NoLeakedAddress`, `PublishedAddressHeld` | `CurrentReads` |
| `ReconcilerImplementsLease`, `ShownAddressesStay` | `ImplementsLease`, `ShownAddressStays` | `CurrentReads` |
| `ShownAddressesAreAnnounced` | `ShownIsAnnounced` | `CurrentReads`, no call fails, finitely many addresses |
| `VridTypeCorrect`, `RunningPodsHaveEntries` | `VridTypeOK`, `RunningHasEntry` | |
| `OrderlyStartsAreExclusive`, `OrderlyStartsAreStable`, `OrderlyStartsImplementRegistry` | `VRIDsExclusive`, `VRIDsStable`, `ImplementsRegistry` | no identifier twice in the file that was there |
| `PoolTypeCorrect`, `PoolListsTheLines`, `RangesComeToTheirEnd` | `PoolTypeOK`, `PoolIsLines`, `RangesShrink` | |
| `LegacyTypeCorrect`, `LegacyServesTheStored`, `FirstSaveBlocks`, `FilesCarryTheStoredPair` | `LegacyTypeOK`, `OnlyStoredTakesEffect`, `SavingBlocks`, `FilesCarryStoredPair` | |
| `TablesAgree` | `UsageAgrees` | no stored table gives a port of an address twice |

`CurrentReads` is one of two cases: reads of `ip-allocations` do not lag
(`AllocLag = 0`), whatever fails; or they lag by any number of writes, but the
sleeps outlast the lag, the VRIDs are there from the start and no call fails
(`SleepsReached`).

The assumptions are not decoration: `shared_file`, `shared_address` and
`Unannounced.cfg` are what happens without them, `vrid_race` and `VridCut.cfg`
after the first disorder.

### The finalizer protocol and publication

`NoOrphanConfig` is not inductive: the worker provisions on an old copy of the
Service, which may have been deleted since. What keeps the finalizer there
meanwhile is said by the conjuncts of `IInv`:

* `CacheFollows`: the informer and its feed end at the stored version;
* `CacheFin`: a version in the cache or the feed with the finalizer and without
  a deletionTimestamp means that the stored Service still has the finalizer,
  because it goes away only through the Update that removes it, and that Update
  succeeds only when no version is under way;
* `WorkerFin`: so the Service `reconcileService` works on has it;
* `CurrentCopy`: a finalization whose Update will be accepted saw the last
  version, which has a deletionTimestamp;
* `Cleaned`: finalization has removed file and running configuration by then;
* `JobOK`, `AbsentHasNoFin`: what the worker is at, and that what does not exist
  has no finalizer.

The proof has a lemma for each kind of step: steps that touch nothing of this,
writes to the host, writes to a Service, events, deliveries, crashes.

`PublishAfterReload` follows from `Configured`: before the reload the file, and
before the status update the running configuration, is that of the worker's
Service and address. Each call sets up the next one, nobody else writes to the
host, and a failure in between sends the worker back to the start. The rest of
the proof is that only `PublishStatus` shows an address.

### Nothing is forgotten

`Reconcile` asks for no requeue but after an error, and the Endpoints predicate
drops events, so a Service nobody looks at has to be in order already.
`NothingForgotten` says so: it is `Pending` (in the queue, in hand, or its next
version on the way to the informer) or `Settled`. `FreshInv` is what makes it
inductive, on top of `FinalizesDeleted`: an old copy never makes the operator
finalize a Service that is alive. What `finalizeService` works on is being deleted,
or was created anew since and has no finalizer yet, hence no address to show
(`ShownHasFin`). It follows from `CacheDel`, the counterpart of `CacheFin`: a cached
version that is being deleted is never older than a new Service that has got the
finalizer. Nobody else removes a file, since every Service has a path of its own.

* `RenderedStays`: after the write the file, and after the reload what nginx runs, is
  what this pass rendered;
* `NodesFresh`: the nodes it has read are those of the Endpoints, or an event has
  queued the Service since; the predicate may have dropped that event, but then
  the informer does not have the Service as a LoadBalancer, and if it is one its
  own event is to come;
* `CopyFresh`: port and life of the Service are those of the copy, or the edit or
  the deletion, which the watch reports, queues it again;
* `DeletedHasFin`: a deletionTimestamp without the finalizer is never stored.

The step that lets go of a Service is then one of three: an error, which queues
it; its disappearance or a change of its type; or the status update, after which
files and running configuration are as `Settled` says.

### Addresses

With current reads the worker decides on the stored map (`MapFollows`). When
the map lags, `Rested` says why: with nothing that ends a reconciliation between
a write of the map and the sleep after it, the watch is idle at every call of
`ipam.go` that starts from the cache, and only `LoadVIPs`, which runs before the
sleep, may read an old map. That is the case of `sleeps`; `shared_address` fails
once between the write and the sleep. `Holding`
says what it has, or has given up, at each of its steps: no address when it is
about to allocate, its own from then on, none after `ReleaseIP`. `LeaseSafety`
adds the three properties themselves, which are inductive only together:
`ReleaseIP` keeps `ConfigOwnsAddress` because finalization has removed both
configurations before it (`Cleaned`), and `AllocateIP` keeps `NoLeakedAddress`
because the Service has the finalizer (`WorkerFin`). The refinement takes each
step to `Take`, `GiveUp`, `Reload` or a stutter; that traffic flows only on leased
addresses is `ConfigOwnsAddress`.

`ShownAddressStays` is a consequence: the status is written only with the address
in hand, which is the one the map has for the Service (`Holding`), and a shown
address is in the map under its own Service (`PublishedAddressHeld`), of which the
map has one entry at most (`NoLeakedAddress`).

### What is shown is announced

Between the write of the map and the sleep `LoadVIPs` may read a map without the
address just allocated, and Keepalived is configured without it (`early_publish`).
It is the next pass that repairs this, and the status update itself causes one.
`ShownIsAnnounced` says as much, and `AgainInv` proves it: what users see and nobody
will look at again (`Relied`) is announced `Everywhere`, unless the files are being
rewritten. `ReadyToLoad` is the reason: of all maps the watch may still deliver to
`LoadVIPs`, none lacks an address of another Service, nor that of the Service in
hand if users see it already (`InHand`), for such a pass found the address and
wrote nothing. So a late read never takes down what users rely on, and `KeptUp`
follows it through the truncations: the addresses relied on are among those the
pass writes to the primary file, then the secondary, then the daemon, whatever a
neighbour restarts in between. A pass that fails in between leaves them down, which
is why no call may fail here; with failures the address is down until a pass that
gets that far, which need not come.

### VRIDs

There are two invariants. `EntryInv` holds whatever overlaps and whatever is cut
short: a malformed entry spreads only from the file it came in, through pods, tees
and the ConfigMap (`MalformedCame`), a pod has chosen its pair before it publishes
(`PairChosen`), and has published before it runs (`RunningPublished`).

`OrderInv` holds `SafetyOK` as long as `disorder` is empty. Then no tee is alone, one
pod at most is between its start and its publication (`OneStarts`), and what it writes
is the file with its own pair added (`Replacement`), or what it publishes is in the
file (`Written`). That is why the truncation loses nothing then: the tee has all of
it (`PublishedIsRecorded`).

It carries the refinement of `VridRegistry`, whose registry is `Recorded`: the file,
or the text of the tee that has truncated it. The moment a pair is reserved is the
truncation; the write that follows, and every death, is a stutter; `Publish` is
`Show`. The refinement says more than the other two together: an entry is never
changed or taken back, not even one that was never published.

### The pool

`PoolInv` says that before line k the list has exactly what the lines before it
stand for, and in a range what lies between its start and the address the loop
is at (`Listed`, `OnTheWay`). `ValueOrder` and `NextIsSuccessor` carry the bytes
over to numbers: comparison is that of the numbers, `nextIP` is plus one but for
the last address. An endless range never gets past its line (`LostForever`).
Any other has a bound, `ToGo`, that each pass lowers (`RangesShrink`): the
argument for `ParsingEnds` but for the fairness of the loop. In `pkg/ipam` it has
to count the way round the end of the address space.

### The earlier version

`LegacyInv` says that who is in a body or saves holds the mutex (`Mutual`), that
the table in memory is the stored one until somebody saves (`TableIsStored`), and
that what goroutines carry through `pkg/nginx`, the files and the groups come from
the stored one. `Lock` succeeds only with a free mutex, so a save never gets on
(`LockBegins`), and the stored table never changes. `PairInv` is about the pair of
identifiers: what a goroutine renders with is the stored one (`ClientsCarryPair`),
for it goes on only after an Update that was accepted, and an Update that overtook
it on the way makes its own a conflict.

### Only model-checked

* Liveness: `Provisioned`, `DeletionUnserves`, `DeletionEnds`, `AllStart`,
  `OwnersStartAgain`, `ParsingEnds`, `CallsReturn`. Fairness and `ENABLED` are
  out of the prover's reach. What their arguments rest on that is no liveness is
  proved: `NothingForgotten` for `Provisioned`, `RangesShrink` for `ParsingEnds`.

## 5. Not modelled

* The text of the templates and manifests, SSH credentials and keys, Docker,
  metrics, health checks, logs and recorder events: data, or pure input and
  output. What the texts say is in the models.
* Functions without a caller (`createOrUpdateVRIDConfigMap`,
  `getAllocatedVRIDs`, `GetServiceEndpoints`).
* Time: an SSH dial that hangs, and a sleep that is too short for a watch event,
  appear only as a lost call and as `SleepOutlastsLag`.
* Two operator processes of one cluster that reconcile at once: `manager.yaml`
  asks for one replica with leader election (off by default in `main.go`), so in a
  rolling update only the VRID starts overlap, which `VridStartup` has.
* The VRRP protocol between the hosts, and nodes that change their address.
* The endless range of `IpPool` is not composed with the reconciler: there it
  would be a worker that stops in `AllocateIP` and nothing more.
