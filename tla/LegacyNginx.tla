------------------------------ MODULE LegacyNginx ------------------------------
(***************************************************************************)
(* pkg/nginx with pkg/ipam: the client of the NGINX host that belongs to   *)
(* LegacyIpam, with whatever goroutines call the two.  A caller runs one   *)
(* exported function at a time; each step of it is one SSH command, one    *)
(* read of the tables or one access to the ConfigMap vrid-allocations.     *)
(***************************************************************************)
EXTENDS LegacyIpam, NginxHost, Sequences

CONSTANTS
  VRIDsAtStart,  \* what the key vrid of vrid-allocations may hold
  Malformed      \* text that is no pair

Pairs == Nat \X Nat

ASSUME VRIDAssumption == VRIDsAtStart \subseteq Pairs \cup {None, Malformed}

VARIABLES
  at,         \* at[c]: the call c is about to make; "out" outside of pkg/nginx
  conf,       \* conf[c]: the file ConfigureService has rendered
  vips,       \* vips[c]: the addresses updateKeepalivedConfigs has loaded
  pairs,      \* pairs[c]: the pairs of identifiers of the files it has rendered
  vrid,       \* the key vrid of the ConfigMap vrid-allocations
  filePairs   \* the pairs in the keepalived files, beside the groups

clientVars == <<at, conf, vips, pairs, vrid, filePairs>>
vars == <<ipamVars, hostVars, faults, clientVars>>

Steps ==
  {"out", "open", "transfer", "reload", "vrids", "store", "openprimary", "primary",
   "opensecondary", "secondary", "restart"}

(* Type invariant.                                                         *)
LegacyTypeOK ==
  /\ IpamTypeOK /\ HostTypeOK
  /\ at \in [Callers -> Steps]
  /\ conf \in [Callers -> Conf \cup {None}]
  /\ vips \in [Callers -> SUBSET IPs]
  /\ pairs \in [Callers -> Seq(Pairs)]
  /\ vrid \in Pairs \cup {None, Malformed}
  /\ filePairs \in [{"primary", "secondary"} -> Pairs \cup {None}]
  /\ \A c \in Callers : pc[c] = "out" \/ at[c] = "out"

Init ==
  /\ IpamInit /\ HostInit
  /\ at = [c \in Callers |-> "out"]
  /\ conf = [c \in Callers |-> None]
  /\ vips = [c \in Callers |-> {}]
  /\ pairs = [c \in Callers |-> <<>>]
  /\ filePairs = [f \in {"primary", "secondary"} |-> None]
  /\ vrid \in VRIDsAtStart

Idle(c) == up /\ pc[c] = "out" /\ at[c] = "out"

Goto(c, step) == at' = [at EXCEPT ![c] = step]

(* The function returns, with or without an error.                         *)
Leave(c) ==
  /\ Goto(c, "out")
  /\ conf' = [conf EXCEPT ![c] = None]
  /\ vips' = [vips EXCEPT ![c] = {}]
  /\ pairs' = [pairs EXCEPT ![c] = <<>>]

(* A command with outcome o, then step or the return.                      *)
Then(c, o, step) ==
  \/ /\ o = "ok"
     /\ IF step = "out" THEN Leave(c) ELSE Goto(c, step) /\ UNCHANGED <<conf, vips, pairs>>
     /\ UNCHANGED faults
  \/ Faulty(o) /\ Leave(c)

(* A command of c on the host; writeRemoteFile is two, since tee truncates *)
(* the file before it has anything to write.                               *)
Remote(c, step) == at[c] = step /\ UNCHANGED <<ipamVars, vrid>>

-----------------------------------------------------------------------------
(* generateNginxConfig.                                                    *)
Rendered(s, a, nodes) == [svc |-> s, ip |-> a.ip, nodes |-> nodes, port |-> TRUE]

(* ConfigureService, with an allocation its caller has got.  Without a     *)
(* node port it returns at once; without endpoints it goes on.             *)
ConfigureService(c) ==
  /\ Idle(c)
  /\ \E g \in given, nodes \in SUBSET Nodes :
       conf' = [conf EXCEPT ![c] = Rendered(g[1], g[2], nodes)]
  /\ Goto(c, "open")
  /\ UNCHANGED <<ipamVars, hostVars, faults, vips, pairs, vrid, filePairs>>

OpenConfigFile(c) ==
  /\ Remote(c, "open") /\ UNCHANGED filePairs
  /\ \E o \in Outcomes : OpenNginxFile(o, PathOf(conf[c].svc)) /\ Then(c, o, "transfer")

TransferConfigFile(c) ==
  /\ Remote(c, "transfer") /\ UNCHANGED filePairs
  /\ \E o \in Outcomes :
       /\ WriteNginxFile(o, PathOf(conf[c].svc), conf[c])
       /\ Then(c, o, "reload")

(* nginx -t && nginx -s reload.                                            *)
ReloadNginx(c) ==
  /\ Remote(c, "reload") /\ UNCHANGED filePairs
  /\ \/ \E o \in Outcomes : ReloadNGINX(o) /\ Then(c, o, "out")
     \/ ReloadRefused /\ Leave(c) /\ UNCHANGED faults

(* RemoveServiceConfiguration: nobody reloads nginx.                       *)
RemoveServiceConfiguration(c) ==
  /\ Idle(c)
  /\ \E s \in Services, o \in Outcomes : RemoveNginxFile(o, PathOf(s)) /\ Then(c, o, "out")
  /\ UNCHANGED <<ipamVars, vrid, filePairs>>

-----------------------------------------------------------------------------
(* updateKeepalivedConfigs.  GetAllocatedIPs takes the mutex.              *)
LoadVIPs(c) ==
  /\ Idle(c)
  /\ mutex = None
  /\ vips' = [vips EXCEPT ![c] = AllocatedIPs]
  /\ Goto(c, "vrids")
  /\ UNCHANGED <<ipamVars, hostVars, faults, conf, pairs, vrid, filePairs>>

(* generateKeepalivedConfig has its pair, for the primary file and then    *)
(* for the secondary one.                                                  *)
Carry(c, pair) ==
  /\ pairs' = [pairs EXCEPT ![c] = Append(@, pair)]
  /\ Goto(c, IF Len(pairs[c]) = 0 THEN "vrids" ELSE "openprimary")
  /\ UNCHANGED <<conf, vips, faults>>

(* GetOrAllocateVRIDs reads the ConfigMap.                                 *)
GetVRIDs(c) ==
  /\ at[c] = "vrids"
  /\ \/ vrid \in Pairs /\ Carry(c, vrid)
     \/ vrid \notin Pairs /\ Goto(c, "store") /\ UNCHANGED <<conf, vips, pairs, faults>>
     \/ \E o \in Outcomes : Faulty(o) /\ Leave(c)
  /\ UNCHANGED <<ipamVars, hostVars, vrid, filePairs>>

(* allocateNewVRID, twice: it knows of no identifier that is taken.        *)
NewPair == <<1, 2>>

Storing(c) == at[c] = "store" /\ UNCHANGED <<ipamVars, hostVars, filePairs>>

(* Variant: an Update that fails is passed over.                           *)
StoreUnchecked(c) ==
  /\ Storing(c) /\ vrid \notin Pairs
  /\ \E o \in Outcomes : vrid' = Result(o, vrid, NewPair) /\ Carry(c, NewPair)

(* It creates or updates the ConfigMap, ...                                *)
StoreVRIDs(c) ==
  /\ Storing(c) /\ vrid \notin Pairs
  /\ \E o \in Outcomes :
       /\ vrid' = Result(o, vrid, NewPair)
       /\ \/ o = "ok" /\ Carry(c, NewPair)
          \/ Faulty(o) /\ Leave(c)

(* ... which is refused when another caller has done so since the Get.     *)
StoreConflict(c) ==
  /\ Storing(c) /\ vrid \in Pairs
  /\ Leave(c) /\ UNCHANGED <<vrid, faults>>

(* splitVIPs: the first half, the longer one, and the rest.                *)
SplitVIPs(ips) ==
  LET half == (Cardinality(ips) + 1) \div 2
  IN  [g1 |-> {i \in ips : Position(ips, i) < half},
       g2 |-> {i \in ips : Position(ips, i) >= half}]

(* generateKeepalivedConfig, for both files.                               *)
KeepalivedConfig(c) == SplitVIPs(vips[c])

OpenPrimary(c) ==
  /\ Remote(c, "openprimary")
  /\ \E o \in Outcomes :
       /\ OpenPrimaryFile(o) /\ Then(c, o, "primary")
       /\ filePairs' = Result(o, filePairs, [filePairs EXCEPT !.primary = None])

WritePrimary(c) ==
  /\ Remote(c, "primary")
  /\ \E o \in Outcomes :
       /\ kaPrimary' = Result(o, kaPrimary, KeepalivedConfig(c))
       /\ filePairs' = Result(o, filePairs, [filePairs EXCEPT !.primary = pairs[c][1]])
       /\ Then(c, o, "opensecondary")
  /\ UNCHANGED <<nginxFile, nginxRun, kaSecondary, kaRun>>

OpenSecondary(c) ==
  /\ Remote(c, "opensecondary")
  /\ \E o \in Outcomes :
       /\ OpenSecondaryFile(o) /\ Then(c, o, "secondary")
       /\ filePairs' = Result(o, filePairs, [filePairs EXCEPT !.secondary = None])

WriteSecondary(c) ==
  /\ Remote(c, "secondary")
  /\ \E o \in Outcomes :
       /\ kaSecondary' = Result(o, kaSecondary, KeepalivedConfig(c))
       /\ filePairs' = Result(o, filePairs, [filePairs EXCEPT !.secondary = pairs[c][2]])
       /\ Then(c, o, "restart")
  /\ UNCHANGED <<nginxFile, nginxRun, kaPrimary, kaRun>>

ReloadKeepalived(c) ==
  /\ Remote(c, "restart") /\ UNCHANGED filePairs
  /\ \E o \in Outcomes : RestartKeepalived(o) /\ Then(c, o, "out")

-----------------------------------------------------------------------------
Ipam(c) ==
  /\ at[c] = "out"
  /\ Lock(c) \/ Allocate(c) \/ Release(c)
  /\ UNCHANGED <<hostVars, faults, clientVars>>

Client(c) ==
  \/ OpenConfigFile(c) \/ TransferConfigFile(c) \/ ReloadNginx(c)
  \/ GetVRIDs(c) \/ StoreVRIDs(c) \/ StoreConflict(c)
  \/ OpenPrimary(c) \/ WritePrimary(c) \/ OpenSecondary(c) \/ WriteSecondary(c)
  \/ ReloadKeepalived(c)

Next ==
  \/ Start /\ UNCHANGED <<hostVars, faults, clientVars>>
  \/ /\ Die
     /\ at' = [c \in Callers |-> "out"]
     /\ conf' = [c \in Callers |-> None]
     /\ vips' = [c \in Callers |-> {}]
     /\ pairs' = [c \in Callers |-> <<>>]
     /\ UNCHANGED <<hostVars, faults, vrid, filePairs>>
  \/ \E c \in Callers :
       \/ at[c] = "out" /\ Call(c) /\ UNCHANGED <<hostVars, faults, clientVars>>
       \/ Ipam(c)
       \/ ConfigureService(c) \/ RemoveServiceConfiguration(c) \/ LoadVIPs(c)
       \/ Client(c)

Spec == Init /\ [][Next]_vars

(* Goroutines run on, and a sync.Mutex that is free infinitely often goes  *)
(* to each that waits for it.                                              *)
FairSpec == Spec /\ \A c \in Callers : WF_vars(Client(c)) /\ SF_vars(Ipam(c))

-----------------------------------------------------------------------------
(* ipPortUsage is the table turned round: no port of an address is used by *)
(* two Services, none is lost, none leaks.                                 *)
UsageAgrees ==
  up => \A s \in Services, i \in IPs, q \in Ports :
          usage[i][q] = s <=> Uses(allocations, s, i, q)

(* A caller that saves waits for the mutex it holds itself: from then on   *)
(* no table and no ConfigMap changes and no other function of pkg/ipam     *)
(* returns until the process dies.                                         *)
SavingBlocks ==
  [][up /\ up' /\ (\E c \in Callers : pc[c] = "save") =>
       /\ UNCHANGED <<tables, given, stored>>
       /\ \A c \in Callers : pc[c] \in {"lock", "save"} => pc'[c] = pc[c]]_vars

StoredIPs == {i \in IPs : \E s \in Services : stored[s] # None /\ stored[s].ip = i}

(* So only allocations of an earlier version ever take effect: callers are *)
(* given nothing else, nginx is configured for nothing else, and           *)
(* keepalived announces all of them or none.                               *)
OnlyStoredTakesEffect ==
  /\ \A g \in given : stored[g[1]] = g[2]
  /\ \A p \in Paths : nginxFile[p] # None => nginxFile[p].ip = stored[nginxFile[p].svc].ip
  /\ {kaPrimary, kaSecondary, kaRun} \subseteq {NoGroups, SplitVIPs(StoredIPs)}

(* A pair of identifiers that reaches a file on the host is the stored one:*)
(* no caller gets past an Update that failed or came too late with a pair  *)
(* that only it knows of, and what files carry is never replaced.          *)
FilesCarryStoredPair == {filePairs.primary, filePairs.secondary} \subseteq {None, vrid}

(* A call of pkg/ipam returns, unless the process dies or a caller saves.  *)
CallsReturn ==
  \A c \in Callers : pc[c] = "lock" ~> (pc[c] = "out" \/ \E d \in Callers : pc[d] = "save")
=============================================================================
