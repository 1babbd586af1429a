----------------------------- MODULE LegacyProofs -----------------------------
(***************************************************************************)
(* Proofs about pkg/ipam and pkg/nginx, for any number of goroutines,      *)
(* Services, addresses and ports, and any number of faults and deaths: the *)
(* two tables agree, the first caller that saves blocks the allocator, so  *)
(* nothing but what was stored before the start ever takes effect, and the *)
(* keepalived files carry the stored pair.                                 *)
(***************************************************************************)
EXTENDS LegacyNginx, TLAPS

(* Who is in the body of a function, or saves, holds the mutex, and has    *)
(* been called for something.                                              *)
Mutual ==
  \A c \in Callers :
    /\ pc[c] \in {"body", "save"} <=> mutex = c
    /\ pc[c] # "out" => request[c] \in Requests

(* Until somebody saves the table is the stored one.                       *)
TableIsStored == up /\ (\A c \in Callers : pc[c] # "save") => allocations = stored

GivenIsStored == \A g \in given : stored[g[1]] = g[2]

DownIsEmpty ==
  ~up => given = {} /\ \A c \in Callers : pc[c] = "out" /\ at[c] = "out"

KeepalivedSteps ==
  {"vrids", "store", "openprimary", "primary", "opensecondary", "secondary", "restart"}

(* What goroutines carry through pkg/nginx comes from the stored table.    *)
ClientsCarryStored ==
  \A c \in Callers :
    /\ at[c] \in {"open", "transfer"} => conf[c] # None
    /\ conf[c] # None => conf[c].ip = stored[conf[c].svc].ip
    /\ at[c] \in KeepalivedSteps => vips[c] = StoredIPs

FilesAreStored ==
  \A p \in Paths : nginxFile[p] # None => nginxFile[p].ip = stored[nginxFile[p].svc].ip

GroupsAreStored == {kaPrimary, kaSecondary, kaRun} \subseteq {NoGroups, SplitVIPs(StoredIPs)}

(* What goroutines render the keepalived files with is the stored pair.    *)
ClientsCarryPair ==
  \A c \in Callers :
    /\ \A k \in 1 .. Len(pairs[c]) : pairs[c][k] = vrid
    /\ at[c] \in {"openprimary", "primary", "opensecondary", "secondary"} => Len(pairs[c]) >= 2

(* No port of an address is given to two Services.                         *)
Apart(table) ==
  \A s, r \in Services : \A i \in IPs, q \in Ports :
    Uses(table, s, i, q) /\ Uses(table, r, i, q) => s = r

LegacyInv ==
  /\ LegacyTypeOK /\ Mutual /\ TableIsStored /\ GivenIsStored /\ DownIsEmpty
  /\ ClientsCarryStored /\ FilesAreStored /\ GroupsAreStored
  /\ ClientsCarryPair /\ FilesCarryStoredPair

-----------------------------------------------------------------------------
(* Types.                                                                  *)

LEMMA UsageType ==
  ASSUME NEW t \in Tables
  PROVE  UsageOf(t) \in [IPs -> [Ports -> Services \cup {None}]]
<1>1. ASSUME NEW i \in IPs, NEW q \in Ports
      PROVE  (IF \E s \in Services : Uses(t, s, i, q)
              THEN CHOOSE s \in Services : Uses(t, s, i, q)
              ELSE None) \in Services \cup {None}
  OBVIOUS
<1> QED
  BY <1>1 DEF UsageOf

LEMMA NoTableType == NoTable \in Tables
  BY DEF NoTable, Tables

LEMMA SplitType ==
  ASSUME NEW v \in SUBSET IPs
  PROVE  SplitVIPs(v) \in Groups
  BY DEF SplitVIPs, Groups

LEMMA InitHolds == Init => LegacyInv
<1> SUFFICES ASSUME Init PROVE LegacyInv
  OBVIOUS
<1> USE DEF Init, IpamInit, HostInit
<1>1. IpamTypeOK
  <2>1. usage \in [IPs -> [Ports -> Services \cup {None}]]
    BY NoTableType, UsageType
  <2>2. allocations \in Tables /\ stored \in Tables
    BY NoTableType, TableAssumption
  <2>3. deaths \in 0 .. MaxDeaths
    BY DeathAssumption
  <2>4. pc \in [Callers -> {"out", "lock", "body", "save"}]
    OBVIOUS
  <2>5. request \in [Callers -> Requests \cup {None}]
    OBVIOUS
  <2>6. up \in BOOLEAN /\ pool \in Pools /\ mutex \in Callers \cup {None}
        /\ given \subseteq Services \X Allocation
    OBVIOUS
  <2> QED
    BY <2>1, <2>2, <2>3, <2>4, <2>5, <2>6 DEF IpamTypeOK
<1>2. HostTypeOK
  BY HostAssumption DEF HostTypeOK, NoGroups, Groups
<1>3. LegacyTypeOK
  <2>1. pairs \in [Callers -> Seq(Pairs)]
    OBVIOUS
  <2>2. filePairs \in [{"primary", "secondary"} -> Pairs \cup {None}]
    OBVIOUS
  <2> QED
    BY <1>1, <1>2, <2>1, <2>2, VRIDAssumption DEF LegacyTypeOK, Steps
<1>4. Mutual /\ TableIsStored /\ GivenIsStored /\ DownIsEmpty
  BY TableAssumption DEF Mutual, TableIsStored, GivenIsStored, DownIsEmpty
<1>5. ClientsCarryStored /\ FilesAreStored /\ GroupsAreStored
  BY DEF ClientsCarryStored, FilesAreStored, GroupsAreStored, KeepalivedSteps
<1>6. ClientsCarryPair /\ FilesCarryStoredPair
  BY DEF ClientsCarryPair, FilesCarryStoredPair
<1> QED
  BY <1>3, <1>4, <1>5, <1>6 DEF LegacyInv

-----------------------------------------------------------------------------
(* The steps of pkg/ipam.                                                  *)

(* Who saves waits for itself, so Lock only ever begins a call.            *)
LEMMA LockBegins ==
  ASSUME LegacyInv, NEW c \in Callers, Lock(c)
  PROVE  /\ pc[c] = "lock" /\ mutex = None /\ mutex' = c
         /\ pc' = [pc EXCEPT ![c] = "body"]
         /\ UNCHANGED <<given, stored, request, up, pool, tables, deaths>>
<1>1. mutex = None
  BY DEF Lock, Free
<1>2. pc[c] # "save"
  BY <1>1, TableAssumption DEF LegacyInv, Mutual
<1> QED
  BY <1>1, <1>2 DEF Lock

LEMMA BodyOutcomes ==
  ASSUME LegacyInv, NEW c \in Callers, Allocate(c) \/ Release(c)
  PROVE  /\ pc[c] = "body" /\ mutex = c /\ up /\ allocations = stored
         /\ request[c] \in Requests
         /\ \A d \in Callers : pc[d] # "save"
         /\ UNCHANGED <<up, pool, stored, deaths>>
         /\ \/ /\ Return(c) /\ UNCHANGED tables
               /\ \/ given' = given
                  \/ \E s \in Services : /\ stored[s] # None
                                         /\ given' = given \cup {<<s, stored[s]>>}
            \/ /\ Save(c) /\ allocations' \in Tables
               /\ usage' \in [IPs -> [Ports -> Services \cup {None}]]
<1>1. /\ pc[c] = "body" /\ UNCHANGED <<up, pool, stored, deaths>>
  BY DEF Allocate, Release, AllocateKnown, AllocateNothing, AllocateFirst, ReleaseUnknown,
     ReleaseKnown, Body
<1>2. mutex = c /\ request[c] \in Requests
  BY <1>1 DEF LegacyInv, Mutual
<1>3. \A d \in Callers : pc[d] # "save"
  BY <1>1, <1>2 DEF LegacyInv, Mutual
<1>4. up /\ allocations = stored
  BY <1>1, <1>3 DEF LegacyInv, DownIsEmpty, TableIsStored
<1> DEFINE s == request[c].svc
<1>5. /\ s \in Services /\ request[c].ports \in SUBSET Ports
      /\ allocations \in Tables /\ usage \in [IPs -> [Ports -> Services \cup {None}]]
  BY <1>2 DEF Requests, LegacyInv, LegacyTypeOK, IpamTypeOK
<1>6. CASE AllocateKnown(c)
  <2>1. /\ Return(c) /\ UNCHANGED tables
        /\ allocations[s] # None
        /\ given' = given \cup {<<s, allocations[s]>>}
    BY <1>6 DEF AllocateKnown, Body, Returned
  <2> QED
    BY <1>1, <1>2, <1>3, <1>4, <1>5, <2>1
<1>7. CASE AllocateNothing(c) \/ ReleaseUnknown(c)
  BY <1>1, <1>2, <1>3, <1>4, <1>7 DEF AllocateNothing, ReleaseUnknown
<1>8. CASE AllocateFirst(c)
  <2>1. PICK k \in DOMAIN pool :
          /\ allocations' = [allocations EXCEPT ![s] =
                               [ip |-> pool[k], ports |-> request[c].ports]]
          /\ usage' = [usage EXCEPT ![pool[k]] =
                         [q \in Ports |-> IF q \in request[c].ports THEN s ELSE @[q]]]
          /\ Save(c)
    BY <1>8 DEF AllocateFirst
  <2>2. pool[k] \in IPs
    BY PoolAssumption DEF LegacyInv, LegacyTypeOK, IpamTypeOK
  <2>3. allocations' \in Tables
    BY <1>5, <2>1, <2>2 DEF Tables, Allocation
  <2>4. usage' \in [IPs -> [Ports -> Services \cup {None}]]
    BY <1>5, <2>1, <2>2
  <2> QED
    BY <1>1, <1>2, <1>3, <1>4, <2>1, <2>3, <2>4
<1>9. CASE ReleaseKnown(c)
  <2>1. /\ allocations[s] # None
        /\ allocations' = [allocations EXCEPT ![s] = None]
        /\ usage' = [usage EXCEPT ![allocations[s].ip] =
                       [q \in Ports |-> IF q \in allocations[s].ports THEN None ELSE @[q]]]
        /\ Save(c)
    BY <1>9 DEF ReleaseKnown
  <2>2. allocations[s].ip \in IPs
    BY <1>5, <2>1 DEF Tables, Allocation
  <2>3. allocations' \in Tables
    BY <1>5, <2>1 DEF Tables
  <2>4. usage' \in [IPs -> [Ports -> Services \cup {None}]]
    BY <1>5, <2>1, <2>2
  <2> QED
    BY <1>1, <1>2, <1>3, <1>4, <2>1, <2>3, <2>4
<1> QED
  BY <1>6, <1>7, <1>8, <1>9 DEF Allocate, Release

-----------------------------------------------------------------------------
(* Steps of pkg/ipam keep the invariant.                                   *)

(* What does not depend on the client.                                     *)
IpamInv == IpamTypeOK /\ Mutual /\ TableIsStored /\ GivenIsStored

LEMMA ReturnKeeps ==
  ASSUME LegacyInv, NEW c \in Callers, Return(c), pc[c] = "body", mutex = c,
         UNCHANGED <<up, pool, stored, deaths, tables>>,
         \/ given' = given
         \/ \E s \in Services : stored[s] # None /\ given' = given \cup {<<s, stored[s]>>}
  PROVE  IpamInv' /\ \A d \in Callers : pc'[d] \in {pc[d], "out"}
<1>0. IpamTypeOK
  BY DEF LegacyInv, LegacyTypeOK
<1>1. /\ pc' = [pc EXCEPT ![c] = "out"] /\ request' = [request EXCEPT ![c] = None]
      /\ mutex' = None /\ None \notin Callers
  BY TableAssumption DEF Return
<1>2. given' \subseteq Services \X Allocation
  <2>1. \A s \in Services : stored[s] # None => stored[s] \in Allocation
    BY <1>0 DEF IpamTypeOK, Tables
  <2> QED
    BY <1>0, <2>1 DEF IpamTypeOK
<1>3. IpamTypeOK'
  BY <1>0, <1>1, <1>2 DEF IpamTypeOK, tables
<1>4. Mutual'
  BY <1>0, <1>1 DEF LegacyInv, Mutual, IpamTypeOK
<1>5. TableIsStored'
  BY <1>0, <1>1 DEF LegacyInv, TableIsStored, Mutual, IpamTypeOK, tables
<1>6. GivenIsStored'
  BY DEF LegacyInv, GivenIsStored
<1> QED
  BY <1>0, <1>1, <1>3, <1>4, <1>5, <1>6 DEF IpamInv, IpamTypeOK

LEMMA SaveKeeps ==
  ASSUME LegacyInv, NEW c \in Callers, Save(c), pc[c] = "body", mutex = c,
         UNCHANGED <<up, pool, stored, deaths>>,
         allocations' \in Tables, usage' \in [IPs -> [Ports -> Services \cup {None}]]
  PROVE  IpamInv'
<1>0. IpamTypeOK
  BY DEF LegacyInv, LegacyTypeOK
<1>1. pc' = [pc EXCEPT ![c] = "save"] /\ UNCHANGED <<given, mutex, request>>
  BY DEF Save
<1>2. IpamTypeOK'
  BY <1>0, <1>1 DEF IpamTypeOK
<1>3. Mutual'
  BY <1>0, <1>1 DEF LegacyInv, Mutual, IpamTypeOK
<1>4. pc'[c] = "save"
  BY <1>0, <1>1 DEF IpamTypeOK
<1>5. TableIsStored' /\ GivenIsStored'
  BY <1>1, <1>4 DEF LegacyInv, TableIsStored, GivenIsStored
<1> QED
  BY <1>2, <1>3, <1>5 DEF IpamInv

LEMMA IpamKeeps ==
  ASSUME LegacyInv, NEW c \in Callers, Lock(c) \/ Allocate(c) \/ Release(c)
  PROVE  IpamInv' /\ UNCHANGED <<up, stored>> /\ \A d \in Callers \ {c} : pc'[d] = pc[d]
<1>0. IpamTypeOK
  BY DEF LegacyInv, LegacyTypeOK
<1>1. CASE Lock(c)
  <2>1. /\ pc[c] = "lock" /\ mutex = None /\ mutex' = c /\ None \notin Callers
        /\ pc' = [pc EXCEPT ![c] = "body"]
        /\ UNCHANGED <<given, stored, request, up, pool, tables, deaths>>
    BY <1>1, LockBegins, TableAssumption
  <2>2. IpamTypeOK' /\ Mutual'
    BY <1>0, <2>1 DEF IpamTypeOK, LegacyInv, Mutual, tables
  <2>3. TableIsStored' /\ GivenIsStored'
    BY <1>0, <2>1 DEF LegacyInv, TableIsStored, GivenIsStored, IpamTypeOK, tables, Mutual
  <2> QED
    BY <1>0, <2>1, <2>2, <2>3 DEF IpamInv, IpamTypeOK
<1>2. CASE Allocate(c) \/ Release(c)
  <2>1. Return(c) \/ Save(c)
    BY <1>2, BodyOutcomes
  <2>2. \A d \in Callers \ {c} : pc'[d] = pc[d]
    BY <1>0, <2>1 DEF Return, Save, IpamTypeOK
  <2>3. UNCHANGED <<up, stored>>
    BY <1>2, BodyOutcomes
  <2>4. IpamInv'
    BY <1>2, BodyOutcomes, ReturnKeeps, SaveKeeps
  <2> QED
    BY <2>2, <2>3, <2>4
<1> QED
  BY <1>1, <1>2

-----------------------------------------------------------------------------
(* The steps of pkg/nginx.                                                 *)

ClientTypeOK ==
  /\ HostTypeOK
  /\ at \in [Callers -> Steps]
  /\ conf \in [Callers -> Conf \cup {None}]
  /\ vips \in [Callers -> SUBSET IPs]
  /\ vrid \in Pairs \cup {None, Malformed}

ClientInv == ClientTypeOK /\ ClientsCarryStored /\ FilesAreStored /\ GroupsAreStored

(* What GetOrAllocateVRIDs has to do with.                                 *)
PairInv ==
  /\ pairs \in [Callers -> Seq(Pairs)]
  /\ vrid \in Pairs \cup {None, Malformed}
  /\ filePairs \in [{"primary", "secondary"} -> Pairs \cup {None}]
  /\ ClientsCarryPair /\ FilesCarryStoredPair

LEMMA ThenGoes ==
  ASSUME HostTypeOK, NEW c \in Callers, NEW o, NEW step, Then(c, o, step)
  PROVE  /\ faults' \in 0 .. MaxFaults
         /\ \/ Leave(c)
            \/ o = "ok" /\ step # "out" /\ Goto(c, step) /\ UNCHANGED <<conf, vips, pairs>>
<1>1. faults' \in 0 .. MaxFaults
  BY HostAssumption DEF Then, Faulty, HostTypeOK
<1> QED
  BY <1>1 DEF Then

(* Whoever leaves carries nothing.                                         *)
LEMMA LeaveKeeps ==
  ASSUME ClientTypeOK, ClientsCarryStored, NEW c \in Callers, Leave(c), stored' = stored
  PROVE  /\ at' \in [Callers -> Steps]
         /\ conf' \in [Callers -> Conf \cup {None}]
         /\ vips' \in [Callers -> SUBSET IPs]
         /\ ClientsCarryStored'
<1>1. StoredIPs' = StoredIPs
  BY DEF StoredIPs
<1> QED
  BY <1>1 DEF ClientTypeOK, ClientsCarryStored, Leave, Goto, Steps, KeepalivedSteps

(* Whoever goes on carries the same.                                       *)
LEMMA GotoKeeps ==
  ASSUME ClientTypeOK, ClientsCarryStored, NEW c \in Callers, NEW step \in Steps,
         Goto(c, step), UNCHANGED <<conf, vips, stored>>,
         step = "transfer" => at[c] = "open", step # "open",
         step \in KeepalivedSteps => at[c] \in KeepalivedSteps
  PROVE  /\ at' \in [Callers -> Steps]
         /\ conf' \in [Callers -> Conf \cup {None}]
         /\ vips' \in [Callers -> SUBSET IPs]
         /\ ClientsCarryStored'
<1>1. StoredIPs' = StoredIPs
  BY DEF StoredIPs
<1> QED
  BY <1>1 DEF ClientTypeOK, ClientsCarryStored, Goto

LEMMA StoredIPsType ==
  StoredIPs \in SUBSET IPs
  BY DEF StoredIPs

(* A step that goes on only from one keepalived step to the next, or from  *)
(* the opened file to the transfer and the reload.                         *)
LEMMA Proceeds ==
  ASSUME ClientTypeOK, ClientsCarryStored, NEW c \in Callers, NEW o, NEW step \in Steps,
         Then(c, o, step), stored' = stored,
         step = "transfer" => at[c] = "open", step # "open",
         step \in KeepalivedSteps => at[c] \in KeepalivedSteps
  PROVE  /\ at' \in [Callers -> Steps]
         /\ conf' \in [Callers -> Conf \cup {None}]
         /\ vips' \in [Callers -> SUBSET IPs]
         /\ ClientsCarryStored'
         /\ faults' \in 0 .. MaxFaults
<1>1. /\ faults' \in 0 .. MaxFaults
      /\ Leave(c) \/ (Goto(c, step) /\ UNCHANGED <<conf, vips>>)
  BY ThenGoes DEF ClientTypeOK
<1> QED
  BY <1>1, LeaveKeeps, GotoKeeps

LEMMA ClientLeavesIpam ==
  ASSUME NEW c \in Callers, Client(c)
  PROVE  UNCHANGED ipamVars
  BY DEF Client, OpenConfigFile, TransferConfigFile, ReloadNginx, GetVRIDs, StoreVRIDs,
     StoreConflict, Storing, OpenPrimary, WritePrimary, OpenSecondary, WriteSecondary,
     ReloadKeepalived, Remote

LEMMA ClientKeeps ==
  ASSUME LegacyInv, NEW c \in Callers, Client(c)
  PROVE  ClientInv'
<1>0. /\ ClientTypeOK /\ ClientsCarryStored /\ FilesAreStored /\ GroupsAreStored
      /\ HostTypeOK
      /\ StoredIPs \in SUBSET IPs
  BY StoredIPsType DEF LegacyInv, LegacyTypeOK, ClientTypeOK
<1>1. UNCHANGED ipamVars
  BY ClientLeavesIpam
<1>2. stored' = stored
  BY <1>1 DEF ipamVars
<1>3. StoredIPs' = StoredIPs /\ SplitVIPs(StoredIPs)' = SplitVIPs(StoredIPs)
  BY <1>2 DEF StoredIPs, SplitVIPs, Position
<1>4. CASE OpenConfigFile(c) \/ TransferConfigFile(c)
  <2>1. PICK o \in Outcomes, step \in {"transfer", "reload"} :
          /\ \/ OpenNginxFile(o, PathOf(conf[c].svc))
             \/ WriteNginxFile(o, PathOf(conf[c].svc), conf[c])
          /\ Then(c, o, step)
          /\ step = "transfer" => at[c] = "open"
    BY <1>4 DEF OpenConfigFile, TransferConfigFile, Remote
  <2>2. at[c] \in {"open", "transfer"} /\ vrid' = vrid
    BY <1>4 DEF OpenConfigFile, TransferConfigFile, Remote
  <2>3. /\ conf[c] \in Conf /\ PathOf(conf[c].svc) \in Paths
        /\ conf[c].ip = stored[conf[c].svc].ip
    BY <1>0, <2>2 DEF ClientTypeOK, ClientsCarryStored, Conf, Paths
  <2>4. /\ \E f \in {conf[c], None} :
             nginxFile' \in {nginxFile, [nginxFile EXCEPT ![PathOf(conf[c].svc)] = f]}
        /\ UNCHANGED <<nginxRun, kaPrimary, kaSecondary, kaRun>>
    BY <2>1 DEF OpenNginxFile, WriteNginxFile, Result
  <2>5. nginxFile' \in [Paths -> Conf \cup {None}] /\ FilesAreStored'
    BY <1>0, <1>2, <2>3, <2>4 DEF HostTypeOK, FilesAreStored
  <2>6. /\ at' \in [Callers -> Steps]
        /\ conf' \in [Callers -> Conf \cup {None}]
        /\ vips' \in [Callers -> SUBSET IPs]
        /\ ClientsCarryStored'
        /\ faults' \in 0 .. MaxFaults
    BY <1>0, <1>2, <2>1, Proceeds DEF Steps, KeepalivedSteps
  <2> QED
    BY <1>0, <1>3, <2>2, <2>4, <2>5, <2>6 DEF ClientInv, ClientTypeOK, HostTypeOK, GroupsAreStored
<1>5. CASE ReloadNginx(c)
  <2>1. /\ UNCHANGED <<nginxFile, kaPrimary, kaSecondary, kaRun, vrid>>
        /\ nginxRun' \in {nginxRun, nginxFile}
        /\ (Leave(c) /\ faults' = faults) \/ \E o \in Outcomes : Then(c, o, "out")
    BY <1>5 DEF ReloadNginx, ReloadNGINX, ReloadRefused, hostVars, Result, Remote
  <2>2. FilesAreStored' /\ GroupsAreStored'
    BY <1>0, <1>2, <1>3, <2>1 DEF FilesAreStored, GroupsAreStored
  <2> QED
    BY <1>0, <1>2, <2>1, <2>2, Proceeds, LeaveKeeps
    DEF ClientInv, ClientTypeOK, HostTypeOK, Steps, KeepalivedSteps
<1>6. CASE GetVRIDs(c) \/ StoreVRIDs(c) \/ StoreConflict(c)
  <2>1. /\ UNCHANGED hostVars /\ at[c] \in {"vrids", "store"}
        /\ vrid' \in {vrid, NewPair}
    BY <1>6 DEF GetVRIDs, StoreVRIDs, StoreConflict, Storing, Result
  <2>2. faults' \in 0 .. MaxFaults
    BY <1>0, <1>6, HostAssumption DEF HostTypeOK, GetVRIDs, StoreVRIDs, StoreConflict, Carry, Faulty
  <2>3. \/ Leave(c)
        \/ \E step \in {"vrids", "store", "openprimary"} :
             Goto(c, step) /\ UNCHANGED <<conf, vips>>
    BY <1>6 DEF GetVRIDs, StoreVRIDs, StoreConflict, Carry
  <2>4. /\ at' \in [Callers -> Steps]
        /\ conf' \in [Callers -> Conf \cup {None}]
        /\ vips' \in [Callers -> SUBSET IPs]
        /\ ClientsCarryStored'
    BY <1>0, <1>2, <2>1, <2>3, LeaveKeeps, GotoKeeps DEF Steps, KeepalivedSteps
  <2>5. vrid' \in Pairs \cup {None, Malformed}
    BY <1>0, <2>1 DEF NewPair, Pairs, ClientTypeOK
  <2>6. FilesAreStored' /\ GroupsAreStored'
    BY <1>0, <1>2, <1>3, <2>1 DEF FilesAreStored, GroupsAreStored, hostVars
  <2> QED
    BY <1>0, <2>1, <2>2, <2>4, <2>5, <2>6 DEF ClientInv, ClientTypeOK, HostTypeOK, hostVars
<1>7. CASE \/ OpenPrimary(c) \/ WritePrimary(c) \/ OpenSecondary(c) \/ WriteSecondary(c)
           \/ ReloadKeepalived(c)
  <2>1. \E o \in Outcomes, step \in {"primary", "opensecondary", "secondary", "restart", "out"} :
          Then(c, o, step)
    BY <1>7 DEF OpenPrimary, WritePrimary, OpenSecondary, WriteSecondary, ReloadKeepalived
  <2>2. at[c] \in KeepalivedSteps /\ vrid' = vrid
    BY <1>7 DEF OpenPrimary, WritePrimary, OpenSecondary, WriteSecondary, ReloadKeepalived, Remote,
       KeepalivedSteps
  <2>3. vips[c] = StoredIPs
    BY <1>0, <2>2 DEF ClientsCarryStored
  <2>4. /\ UNCHANGED <<nginxFile, nginxRun>>
        /\ {kaPrimary, kaSecondary, kaRun}' \subseteq
             {kaPrimary, kaSecondary, kaRun, NoGroups, SplitVIPs(StoredIPs)}
    BY <1>7, <2>3 DEF OpenPrimary, WritePrimary, OpenSecondary, WriteSecondary, ReloadKeepalived,
       OpenPrimaryFile, OpenSecondaryFile, RestartKeepalived, Result, KeepalivedConfig
  <2>5. FilesAreStored' /\ GroupsAreStored'
    BY <1>0, <1>2, <1>3, <2>4 DEF FilesAreStored, GroupsAreStored
  <2>6. SplitVIPs(StoredIPs) \in Groups /\ NoGroups \in Groups
    BY <1>0, SplitType DEF NoGroups, Groups
  <2>7. /\ at' \in [Callers -> Steps]
        /\ conf' \in [Callers -> Conf \cup {None}]
        /\ vips' \in [Callers -> SUBSET IPs]
        /\ ClientsCarryStored'
        /\ faults' \in 0 .. MaxFaults
    BY <1>0, <1>2, <2>1, <2>2, Proceeds DEF Steps
  <2> QED
    BY <1>0, <2>2, <2>4, <2>5, <2>6, <2>7 DEF ClientInv, ClientTypeOK, HostTypeOK
<1> QED
  BY <1>4, <1>5, <1>6, <1>7 DEF Client

(* A caller gains a pair only when the ConfigMap holds it, and loses all   *)
(* when it leaves.                                                         *)
LEMMA CarriedStays ==
  ASSUME PairInv, at \in [Callers -> Steps], vrid' = vrid, NEW c \in Callers,
         \/ /\ pairs' = [pairs EXCEPT ![c] = <<>>]
            /\ at' = [at EXCEPT ![c] = "out"]
         \/ /\ UNCHANGED pairs
            /\ \E step : /\ at' = [at EXCEPT ![c] = step]
                         /\ \/ step \notin {"openprimary", "primary", "opensecondary", "secondary"}
                            \/ Len(pairs[c]) >= 2
  PROVE  pairs' \in [Callers -> Seq(Pairs)] /\ ClientsCarryPair'
<1>1. CASE pairs' = [pairs EXCEPT ![c] = <<>>] /\ at' = [at EXCEPT ![c] = "out"]
  <2>1. pairs' \in [Callers -> Seq(Pairs)]
    BY <1>1 DEF PairInv
  <2>2. /\ at'[c] = "out" /\ pairs'[c] = <<>> /\ Len(<<>>) = 0
        /\ \A d \in Callers \ {c} : at'[d] = at[d] /\ pairs'[d] = pairs[d]
    BY <1>1 DEF PairInv
  <2>3. ASSUME NEW d \in Callers
        PROVE  /\ \A k \in 1 .. Len(pairs'[d]) : pairs'[d][k] = vrid'
               /\ at'[d] \in {"openprimary", "primary", "opensecondary", "secondary"}
                    => Len(pairs'[d]) >= 2
    <3>1. CASE d = c
      BY <2>2, <3>1
    <3>2. CASE d # c
      BY <2>2, <3>2 DEF PairInv, ClientsCarryPair
    <3> QED
      BY <3>1, <3>2
  <2> QED
    BY <2>1, <2>3 DEF ClientsCarryPair
<1>2. CASE UNCHANGED pairs
  BY <1>2 DEF PairInv, ClientsCarryPair
<1> QED
  BY <1>1, <1>2

LEMMA PairStays ==
  ASSUME PairInv, at \in [Callers -> Steps], UNCHANGED <<vrid, filePairs>>, NEW c \in Callers,
         \/ /\ pairs' = [pairs EXCEPT ![c] = <<>>]
            /\ at' = [at EXCEPT ![c] = "out"]
         \/ /\ UNCHANGED pairs
            /\ \E step : /\ at' = [at EXCEPT ![c] = step]
                         /\ \/ step \notin {"openprimary", "primary", "opensecondary", "secondary"}
                            \/ Len(pairs[c]) >= 2
  PROVE  PairInv'
<1>1. FilesCarryStoredPair'
  BY DEF PairInv, FilesCarryStoredPair
<1> QED
  BY <1>1, CarriedStays DEF PairInv

LEMMA CarryKeeps ==
  ASSUME PairInv, at \in [Callers -> Steps], NEW c \in Callers,
         vrid' \in Pairs, Carry(c, vrid'), UNCHANGED filePairs,
         vrid' = vrid \/ vrid \notin Pairs
  PROVE  PairInv'
<1>1. pairs[c] \in Seq(Pairs) /\ pairs \in [Callers -> Seq(Pairs)]
  BY DEF PairInv
<1> DEFINE longer == Append(pairs[c], vrid')
<1>2. /\ longer \in Seq(Pairs) /\ Len(longer) = Len(pairs[c]) + 1 /\ Len(pairs[c]) \in Nat
      /\ \A k \in 1 .. Len(pairs[c]) : longer[k] = pairs[c][k]
      /\ longer[Len(longer)] = vrid'
  BY <1>1
<1>3. pairs' = [pairs EXCEPT ![c] = longer] /\ pairs'[c] = longer
  BY <1>1 DEF Carry
<1> HIDE DEF longer
<1>4. \A d \in Callers :
        \A k \in 1 .. Len(pairs[d]) : pairs[d][k] = vrid /\ pairs[d][k] = vrid'
  <2>1. ASSUME NEW d \in Callers, NEW k \in 1 .. Len(pairs[d])
        PROVE  pairs[d][k] = vrid /\ pairs[d][k] \in Pairs
    <3>1. pairs[d] \in Seq(Pairs)
      BY DEF PairInv
    <3> QED
      BY <3>1 DEF PairInv, ClientsCarryPair
  <2> QED
    BY <2>1
<1>5. FilesCarryStoredPair'
  BY DEF PairInv, FilesCarryStoredPair
<1>6. ASSUME NEW d \in Callers, NEW k \in 1 .. Len(pairs'[d])
      PROVE  pairs'[d][k] = vrid'
  <2>1. CASE d = c
    BY <1>2, <1>3, <1>4, <1>6, <2>1
  <2>2. CASE d # c
    BY <1>1, <1>3, <1>4, <1>6, <2>2
  <2> QED
    BY <2>1, <2>2
<1>7. ASSUME NEW d \in Callers, at'[d] \in {"openprimary", "primary", "opensecondary", "secondary"}
      PROVE  Len(pairs'[d]) >= 2
  <2>1. at' = [at EXCEPT ![c] = IF Len(pairs[c]) = 0 THEN "vrids" ELSE "openprimary"]
    BY DEF Carry, Goto
  <2>2. CASE d = c
    BY <1>2, <1>3, <1>7, <2>1, <2>2
  <2>3. CASE d # c
    BY <1>1, <1>3, <1>7, <2>1, <2>3 DEF PairInv, ClientsCarryPair
  <2> QED
    BY <2>2, <2>3
<1>8. pairs' \in [Callers -> Seq(Pairs)]
  BY <1>1, <1>2, <1>3
<1> QED
  BY <1>5, <1>6, <1>7, <1>8 DEF PairInv, ClientsCarryPair

LEMMA PairsKept ==
  ASSUME LegacyInv, NEW c \in Callers, Client(c)
  PROVE  PairInv'
<1>0. PairInv /\ HostTypeOK /\ at \in [Callers -> Steps]
  BY DEF LegacyInv, LegacyTypeOK, PairInv
<1>1. CASE OpenConfigFile(c) \/ TransferConfigFile(c) \/ ReloadNginx(c) \/ ReloadKeepalived(c)
  <2>1. UNCHANGED <<vrid, filePairs>>
    BY <1>1 DEF OpenConfigFile, TransferConfigFile, ReloadNginx, ReloadKeepalived, Remote
  <2>2. Leave(c) \/ \E o \in Outcomes, step \in {"transfer", "reload", "out"} : Then(c, o, step)
    BY <1>1 DEF OpenConfigFile, TransferConfigFile, ReloadNginx, ReloadKeepalived
  <2>3. \/ Leave(c)
        \/ \E step \in {"transfer", "reload"} : Goto(c, step) /\ UNCHANGED pairs
    BY <1>0, <2>2, ThenGoes
  <2> QED
    BY <1>0, <2>1, <2>3, PairStays DEF Leave, Goto
<1>2. CASE GetVRIDs(c)
  <2>1. CASE vrid \in Pairs /\ Carry(c, vrid)
    BY <1>0, <1>2, <2>1, CarryKeeps DEF GetVRIDs
  <2>2. CASE (Goto(c, "store") /\ UNCHANGED pairs) \/ Leave(c)
    BY <1>0, <1>2, <2>2, PairStays DEF GetVRIDs, Leave, Goto
  <2> QED
    BY <1>2, <2>1, <2>2 DEF GetVRIDs
<1>3. CASE StoreVRIDs(c)
  <2>1. PICK o \in Outcomes : /\ vrid' = Result(o, vrid, NewPair)
                              /\ \/ o = "ok" /\ Carry(c, NewPair)
                                 \/ Faulty(o) /\ Leave(c)
    BY <1>3 DEF StoreVRIDs
  <2>2. vrid \notin Pairs /\ NewPair \in Pairs /\ UNCHANGED filePairs
    BY <1>3 DEF StoreVRIDs, Storing, NewPair, Pairs
  <2>3. CASE o = "ok" /\ Carry(c, NewPair)
    BY <1>0, <2>1, <2>2, <2>3, CarryKeeps DEF Result
  <2>4. CASE Leave(c)
    <3>1. \A d \in Callers : pairs[d] \in Seq(Pairs)
      BY <1>0 DEF PairInv
    <3>2. \A d \in Callers : Len(pairs[d]) = 0
      <4>1. ASSUME NEW d \in Callers, Len(pairs[d]) # 0
            PROVE  FALSE
        <5>1. pairs[d] \in Seq(Pairs) /\ Len(pairs[d]) \in Nat
          BY <3>1
        <5>2. 1 \in 1 .. Len(pairs[d]) /\ pairs[d][1] \in Pairs
          BY <4>1, <5>1
        <5> QED
          BY <1>0, <2>2, <5>2 DEF PairInv, ClientsCarryPair
      <4> QED
        BY <4>1
    <3>3. filePairs.primary = None /\ filePairs.secondary = None
      BY <1>0, <2>2 DEF PairInv, FilesCarryStoredPair
    <3>4. FilesCarryStoredPair'
      BY <2>2, <3>3 DEF FilesCarryStoredPair
    <3>5. pairs' = [pairs EXCEPT ![c] = <<>>] /\ at' = [at EXCEPT ![c] = "out"]
      BY <2>4 DEF Leave, Goto
    <3>6. \A d \in Callers : Len(pairs'[d]) = 0
      BY <1>0, <3>2, <3>5 DEF PairInv
    <3>7. ClientsCarryPair'
      <4>1. \A d \in Callers :
              at'[d] \notin {"openprimary", "primary", "opensecondary", "secondary"}
        BY <1>0, <3>2, <3>5 DEF PairInv, ClientsCarryPair
      <4> QED
        BY <3>6, <4>1 DEF ClientsCarryPair
    <3>8. vrid' \in Pairs \cup {None, Malformed}
      BY <1>0, <2>1, <2>2 DEF Result, PairInv
    <3> QED
      BY <1>0, <2>2, <3>4, <3>5, <3>7, <3>8 DEF PairInv
  <2> QED
    BY <2>1, <2>3, <2>4
<1>4. CASE StoreConflict(c)
  BY <1>0, <1>4, PairStays DEF StoreConflict, Storing, Leave, Goto
<1>5. CASE OpenPrimary(c) \/ WritePrimary(c) \/ OpenSecondary(c) \/ WriteSecondary(c)
  <2>1. /\ vrid' = vrid /\ Len(pairs[c]) >= 2
        /\ \E o \in Outcomes, step \in {"primary", "opensecondary", "secondary", "restart"} :
             Then(c, o, step)
    BY <1>0, <1>5 DEF OpenPrimary, WritePrimary, OpenSecondary, WriteSecondary, Remote,
       PairInv, ClientsCarryPair
  <2>2. \/ Leave(c)
        \/ \E step : Goto(c, step) /\ UNCHANGED pairs
    BY <1>0, <2>1, ThenGoes
  <2>3. /\ pairs[c] \in Seq(Pairs) /\ 1 \in 1 .. Len(pairs[c]) /\ 2 \in 1 .. Len(pairs[c])
    BY <1>0, <2>1 DEF PairInv
  <2>4. pairs[c][1] = vrid /\ pairs[c][2] = vrid /\ vrid \in Pairs
    <3>1. pairs[c][1] = vrid /\ pairs[c][2] = vrid
      BY <1>0, <2>3 DEF PairInv, ClientsCarryPair
    <3>2. pairs[c][1] \in Pairs
      BY <2>3
    <3> QED
      BY <3>1, <3>2
  <2>5. \/ filePairs' = filePairs
        \/ \E e \in {None, vrid} : \/ filePairs' = [filePairs EXCEPT !.primary = e]
                                  \/ filePairs' = [filePairs EXCEPT !.secondary = e]
    BY <1>5, <2>4 DEF OpenPrimary, WritePrimary, OpenSecondary, WriteSecondary, Result
  <2>6. /\ filePairs' \in [{"primary", "secondary"} -> Pairs \cup {None}]
        /\ FilesCarryStoredPair'
    BY <1>0, <2>1, <2>4, <2>5 DEF PairInv, FilesCarryStoredPair
  <2>7. pairs' \in [Callers -> Seq(Pairs)] /\ ClientsCarryPair'
    BY <1>0, <2>1, <2>2, CarriedStays DEF Leave, Goto
  <2> QED
    BY <1>0, <2>1, <2>6, <2>7 DEF PairInv
<1> QED
  BY <1>1, <1>2, <1>3, <1>4, <1>5 DEF Client

-----------------------------------------------------------------------------
(* One call at a time, and none while the process is down.                 *)

OneCall == \A c \in Callers : pc[c] = "out" \/ at[c] = "out"

LEMMA InvParts == LegacyInv <=> IpamInv /\ ClientInv /\ PairInv /\ DownIsEmpty /\ OneCall
  BY DEF LegacyInv, LegacyTypeOK, IpamInv, ClientInv, ClientTypeOK, PairInv, OneCall

LEMMA IpamStays ==
  ASSUME IpamInv, UNCHANGED ipamVars
  PROVE  IpamInv'
  BY DEF IpamInv, IpamTypeOK, Mutual, TableIsStored, GivenIsStored, ipamVars, tables

LEMMA ClientStays ==
  ASSUME ClientInv, UNCHANGED <<hostVars, faults, clientVars, stored>>
  PROVE  ClientInv'
<1>1. StoredIPs' = StoredIPs /\ SplitVIPs(StoredIPs)' = SplitVIPs(StoredIPs)
  BY DEF StoredIPs, SplitVIPs, Position
<1>2. ClientTypeOK' /\ FilesAreStored' /\ GroupsAreStored'
  BY <1>1 DEF ClientInv, ClientTypeOK, HostTypeOK, FilesAreStored, GroupsAreStored,
     hostVars, clientVars
<1>3. ClientsCarryStored'
  BY <1>1 DEF ClientInv, ClientsCarryStored, clientVars
<1> QED
  BY <1>2, <1>3 DEF ClientInv

LEMMA PairInvStays ==
  ASSUME PairInv, UNCHANGED <<at, pairs, vrid, filePairs>>
  PROVE  PairInv'
  BY DEF PairInv, ClientsCarryPair, FilesCarryStoredPair

LEMMA ClientMovesOne ==
  ASSUME ClientTypeOK, NEW c \in Callers, Client(c)
  PROVE  at[c] # "out" /\ \A d \in Callers \ {c} : at'[d] = at[d]
<1>1. at[c] # "out"
  BY DEF Client, OpenConfigFile, TransferConfigFile, ReloadNginx, GetVRIDs, StoreVRIDs,
     StoreConflict, Storing, OpenPrimary, WritePrimary, OpenSecondary, WriteSecondary,
     ReloadKeepalived, Remote
<1>2. \E step : Goto(c, step)
  BY DEF Client, OpenConfigFile, TransferConfigFile, ReloadNginx, GetVRIDs, StoreVRIDs,
     StoreConflict, Carry, OpenPrimary, WritePrimary, OpenSecondary, WriteSecondary,
     ReloadKeepalived, Then, Leave
<1> QED
  BY <1>1, <1>2 DEF Goto, ClientTypeOK

-----------------------------------------------------------------------------
(* The process, and the functions of pkg/nginx when they are called.       *)

LEMMA StartKeeps ==
  ASSUME LegacyInv, Start, UNCHANGED <<hostVars, faults, clientVars>>
  PROVE  LegacyInv'
<1>0. IpamInv /\ ClientInv /\ PairInv /\ DownIsEmpty /\ OneCall
  BY InvParts
<1>1. /\ ~up /\ up' = TRUE /\ pool' \in Pools /\ allocations' = stored
      /\ UNCHANGED <<given, stored, mutex, pc, request, deaths>>
      /\ stored \in Tables
      /\ usage' = UsageOf(stored)
  BY <1>0 DEF Start, IpamInv, IpamTypeOK
<1>2. usage' \in [IPs -> [Ports -> Services \cup {None}]]
  BY <1>1, UsageType
<1>3. IpamInv'
  <2>1. IpamTypeOK'
    BY <1>0, <1>1, <1>2 DEF IpamInv, IpamTypeOK
  <2> QED
    BY <1>0, <1>1, <2>1 DEF IpamInv, Mutual, TableIsStored, GivenIsStored
<1>4. ClientInv'
  BY <1>0, <1>1, ClientStays
<1>5. DownIsEmpty' /\ OneCall'
  BY <1>0, <1>1 DEF DownIsEmpty, OneCall, clientVars
<1>6. PairInv'
  BY <1>0, PairInvStays DEF clientVars
<1> QED
  BY <1>3, <1>4, <1>5, <1>6 DEF LegacyInv, LegacyTypeOK, IpamInv, ClientInv,
     ClientTypeOK, PairInv, OneCall

LEMMA DieKeeps ==
  ASSUME LegacyInv, Die,
         at' = [c \in Callers |-> "out"],
         conf' = [c \in Callers |-> None],
         vips' = [c \in Callers |-> {}],
         pairs' = [c \in Callers |-> <<>>],
         UNCHANGED <<hostVars, faults, vrid, filePairs>>
  PROVE  LegacyInv'
<1>0. IpamInv /\ ClientInv /\ PairInv /\ DownIsEmpty /\ OneCall
  BY InvParts
<1>1. /\ up' = FALSE /\ given' = {} /\ mutex' = None /\ None \notin Callers
      /\ pc' = [c \in Callers |-> "out"] /\ request' = [c \in Callers |-> None]
      /\ allocations' = NoTable /\ usage' = UsageOf(NoTable)
      /\ deaths < MaxDeaths /\ deaths' = deaths + 1
      /\ UNCHANGED <<pool, stored>>
  BY TableAssumption DEF Die
<1>2. IpamInv'
  <2>1. usage' \in [IPs -> [Ports -> Services \cup {None}]] /\ allocations' \in Tables
    BY <1>1, UsageType, NoTableType
  <2>2. deaths' \in 0 .. MaxDeaths
    BY <1>0, <1>1, DeathAssumption DEF IpamInv, IpamTypeOK
  <2>3. /\ pool' \in Pools /\ stored' \in Tables /\ up' \in BOOLEAN
        /\ given' \subseteq Services \X Allocation /\ mutex' \in Callers \cup {None}
    BY <1>0, <1>1 DEF IpamInv, IpamTypeOK
  <2>4. pc' \in [Callers -> {"out", "lock", "body", "save"}]
    BY <1>1
  <2>5. request' \in [Callers -> Requests \cup {None}]
    BY <1>1
  <2>6. IpamTypeOK'
    BY <2>1, <2>2, <2>3, <2>4, <2>5 DEF IpamTypeOK
  <2>7. Mutual' /\ TableIsStored' /\ GivenIsStored'
    BY <1>1 DEF Mutual, TableIsStored, GivenIsStored
  <2> QED
    BY <2>6, <2>7 DEF IpamInv
<1>3. ClientInv'
  <2>1. StoredIPs' = StoredIPs /\ SplitVIPs(StoredIPs)' = SplitVIPs(StoredIPs)
    BY <1>1 DEF StoredIPs, SplitVIPs, Position
  <2>2. FilesAreStored' /\ GroupsAreStored' /\ HostTypeOK' /\ vrid' = vrid
    BY <1>0, <1>1, <2>1 DEF ClientInv, ClientTypeOK, HostTypeOK, FilesAreStored,
       GroupsAreStored, hostVars
  <2>3. at' \in [Callers -> Steps] /\ conf' \in [Callers -> Conf \cup {None}]
    BY DEF Steps
  <2>4. vips' \in [Callers -> SUBSET IPs]
    OBVIOUS
  <2>5. ClientsCarryStored'
    BY DEF ClientsCarryStored, KeepalivedSteps
  <2> QED
    BY <1>0, <2>2, <2>3, <2>4, <2>5 DEF ClientInv, ClientTypeOK
<1>4. DownIsEmpty' /\ OneCall'
  BY <1>1 DEF DownIsEmpty, OneCall
<1>5. PairInv'
  <2>1. pairs' \in [Callers -> Seq(Pairs)] /\ ClientsCarryPair'
    BY DEF ClientsCarryPair
  <2> QED
    BY <1>0, <2>1 DEF PairInv, FilesCarryStoredPair
<1> QED
  BY <1>2, <1>3, <1>4, <1>5
  DEF LegacyInv, LegacyTypeOK, IpamInv, ClientInv, ClientTypeOK, PairInv, OneCall

LEMMA CallKeeps ==
  ASSUME LegacyInv, NEW c \in Callers, at[c] = "out", Call(c),
         UNCHANGED <<hostVars, faults, clientVars>>
  PROVE  LegacyInv'
<1>0. IpamInv /\ ClientInv /\ PairInv /\ DownIsEmpty /\ OneCall
  BY InvParts
<1>1. PICK r \in Requests : request' = [request EXCEPT ![c] = r]
  BY DEF Call
<1>2. /\ up /\ pc[c] = "out" /\ pc' = [pc EXCEPT ![c] = "lock"]
      /\ UNCHANGED <<up, pool, allocations, usage, given, stored, mutex, deaths>>
  BY DEF Call, tables
<1>3. IpamInv'
  <2>1. IpamTypeOK'
    BY <1>0, <1>1, <1>2 DEF IpamInv, IpamTypeOK
  <2>2. Mutual' /\ TableIsStored' /\ GivenIsStored'
    BY <1>0, <1>1, <1>2 DEF IpamInv, IpamTypeOK, Mutual, TableIsStored, GivenIsStored
  <2> QED
    BY <2>1, <2>2 DEF IpamInv
<1>4. ClientInv'
  BY <1>0, <1>2, ClientStays
<1>5. DownIsEmpty' /\ OneCall'
  BY <1>0, <1>2 DEF DownIsEmpty, OneCall, clientVars, IpamInv, IpamTypeOK
<1>6. PairInv'
  BY <1>0, PairInvStays DEF clientVars
<1> QED
  BY <1>3, <1>4, <1>5, <1>6
  DEF LegacyInv, LegacyTypeOK, IpamInv, ClientInv, ClientTypeOK, PairInv, OneCall

LEMMA IpamStepKeeps ==
  ASSUME LegacyInv, NEW c \in Callers, Ipam(c)
  PROVE  LegacyInv'
<1>0. IpamInv /\ ClientInv /\ PairInv /\ DownIsEmpty /\ OneCall
  BY InvParts
<1>1. /\ at[c] = "out" /\ UNCHANGED <<hostVars, faults, clientVars>>
      /\ Lock(c) \/ Allocate(c) \/ Release(c)
  BY DEF Ipam
<1>2. IpamInv' /\ UNCHANGED <<up, stored>> /\ \A d \in Callers \ {c} : pc'[d] = pc[d]
  BY <1>1, IpamKeeps
<1>3. up
  <2>1. pc[c] # "out"
    BY <1>1, LockBegins, BodyOutcomes
  <2> QED
    BY <1>0, <2>1 DEF DownIsEmpty
<1>4. ClientInv'
  BY <1>0, <1>1, <1>2, ClientStays
<1>5. DownIsEmpty' /\ OneCall'
  BY <1>0, <1>1, <1>2, <1>3 DEF DownIsEmpty, OneCall, clientVars
<1>6. PairInv'
  BY <1>0, <1>1, PairInvStays DEF clientVars
<1> QED
  BY <1>2, <1>4, <1>5, <1>6
  DEF LegacyInv, LegacyTypeOK, IpamInv, ClientInv, ClientTypeOK, PairInv, OneCall

LEMMA ClientStepKeeps ==
  ASSUME LegacyInv, NEW c \in Callers, Client(c)
  PROVE  LegacyInv'
<1>0. IpamInv /\ ClientInv /\ DownIsEmpty /\ OneCall /\ ClientTypeOK
  BY InvParts DEF ClientInv
<1>1. ClientInv' /\ PairInv' /\ UNCHANGED ipamVars
  BY ClientKeeps, PairsKept, ClientLeavesIpam
<1>2. IpamInv'
  BY <1>0, <1>1, IpamStays
<1>3. at[c] # "out" /\ \A d \in Callers \ {c} : at'[d] = at[d]
  BY <1>0, ClientMovesOne
<1>4. DownIsEmpty' /\ OneCall'
  BY <1>0, <1>1, <1>3 DEF DownIsEmpty, OneCall, ipamVars
<1> QED
  BY <1>1, <1>2, <1>4
  DEF LegacyInv, LegacyTypeOK, IpamInv, ClientInv, ClientTypeOK, PairInv, OneCall

LEMMA NginxCallKeeps ==
  ASSUME LegacyInv, NEW c \in Callers,
         ConfigureService(c) \/ RemoveServiceConfiguration(c) \/ LoadVIPs(c)
  PROVE  LegacyInv'
<1>0. /\ IpamInv /\ ClientInv /\ PairInv /\ DownIsEmpty /\ OneCall
      /\ ClientTypeOK /\ HostTypeOK /\ IpamTypeOK
      /\ ClientsCarryStored /\ FilesAreStored /\ GroupsAreStored
  BY InvParts DEF ClientInv, ClientTypeOK, IpamInv
<1>1. Idle(c) /\ UNCHANGED ipamVars /\ vrid' = vrid
  BY DEF ConfigureService, RemoveServiceConfiguration, LoadVIPs
<1>2. /\ up /\ pc[c] = "out" /\ at[c] = "out" /\ stored' = stored /\ up' = up /\ pc' = pc
  BY <1>1 DEF Idle, ipamVars
<1>3. StoredIPs' = StoredIPs /\ SplitVIPs(StoredIPs)' = SplitVIPs(StoredIPs)
  BY <1>2 DEF StoredIPs, SplitVIPs, Position
<1>4. ClientInv'
  <2>1. CASE ConfigureService(c)
    <3>1. PICK g \in given, n \in SUBSET Nodes :
            conf' = [conf EXCEPT ![c] = Rendered(g[1], g[2], n)]
      BY <2>1 DEF ConfigureService
    <3> DEFINE r == Rendered(g[1], g[2], n)
    <3>2. g[1] \in Services /\ g[2] \in Allocation /\ stored[g[1]] = g[2]
      BY <1>0 DEF IpamTypeOK, IpamInv, GivenIsStored
    <3>3. r \in Conf /\ r.ip = stored[r.svc].ip
      BY <3>2 DEF Rendered, Conf, Allocation
    <3>4. r # None
      BY <3>3, NoneAssumption
    <3> HIDE DEF r
    <3>5. /\ conf' = [conf EXCEPT ![c] = r] /\ at' = [at EXCEPT ![c] = "open"]
          /\ UNCHANGED <<hostVars, faults, vips>>
      BY <2>1, <3>1 DEF ConfigureService, Goto, r
    <3>6. ClientTypeOK'
      BY <1>0, <1>1, <3>3, <3>5 DEF ClientTypeOK, HostTypeOK, hostVars, Steps
    <3>7. ClientsCarryStored'
      BY <1>0, <1>2, <1>3, <3>3, <3>4, <3>5
      DEF ClientsCarryStored, ClientTypeOK, KeepalivedSteps
    <3>8. FilesAreStored' /\ GroupsAreStored'
      BY <1>0, <1>2, <1>3, <3>5 DEF FilesAreStored, GroupsAreStored, hostVars
    <3> QED
      BY <3>6, <3>7, <3>8 DEF ClientInv
  <2>2. CASE RemoveServiceConfiguration(c)
    <3>1. PICK s \in Services, o \in Outcomes : RemoveNginxFile(o, PathOf(s)) /\ Then(c, o, "out")
      BY <2>2 DEF RemoveServiceConfiguration
    <3>2. /\ nginxFile' \in {nginxFile, [nginxFile EXCEPT ![PathOf(s)] = None]}
          /\ UNCHANGED <<nginxRun, kaPrimary, kaSecondary, kaRun>>
      BY <3>1 DEF RemoveNginxFile, Result
    <3>3. /\ at' \in [Callers -> Steps]
          /\ conf' \in [Callers -> Conf \cup {None}]
          /\ vips' \in [Callers -> SUBSET IPs]
          /\ ClientsCarryStored'
          /\ faults' \in 0 .. MaxFaults
      BY <1>0, <1>2, <3>1, Proceeds DEF Steps, KeepalivedSteps
    <3>4. FilesAreStored' /\ GroupsAreStored'
      BY <1>0, <1>2, <1>3, <3>2 DEF FilesAreStored, GroupsAreStored, HostTypeOK
    <3> QED
      BY <1>0, <1>1, <3>2, <3>3, <3>4 DEF ClientInv, ClientTypeOK, HostTypeOK
  <2>3. CASE LoadVIPs(c)
    <3>1. mutex = None
      BY <2>3 DEF LoadVIPs
    <3>2. \A d \in Callers : pc[d] # "save"
      BY <1>0, <3>1, TableAssumption DEF IpamInv, Mutual
    <3>3. AllocatedIPs = StoredIPs
      BY <1>0, <1>2, <3>2 DEF IpamInv, TableIsStored, AllocatedIPs, StoredIPs
    <3>4. /\ vips' = [vips EXCEPT ![c] = StoredIPs] /\ at' = [at EXCEPT ![c] = "vrids"]
          /\ UNCHANGED <<hostVars, faults, conf>>
      BY <2>3, <3>3 DEF LoadVIPs, Goto
    <3>5. ClientTypeOK'
      BY <1>0, <1>1, <3>4, StoredIPsType DEF ClientTypeOK, HostTypeOK, hostVars, Steps
    <3>6. ClientsCarryStored'
      BY <1>0, <1>2, <1>3, <3>4 DEF ClientsCarryStored, ClientTypeOK, KeepalivedSteps
    <3>7. FilesAreStored' /\ GroupsAreStored'
      BY <1>0, <1>2, <1>3, <3>4 DEF FilesAreStored, GroupsAreStored, hostVars
    <3> QED
      BY <3>5, <3>6, <3>7 DEF ClientInv
  <2> QED
    BY <2>1, <2>2, <2>3
<1>5. IpamInv'
  BY <1>0, <1>1, IpamStays
<1>6. DownIsEmpty' /\ OneCall'
  <2>1. \E step : Goto(c, step)
    BY DEF ConfigureService, RemoveServiceConfiguration, LoadVIPs, Then, Leave
  <2>2. \A d \in Callers \ {c} : at'[d] = at[d]
    BY <1>0, <2>1 DEF Goto, ClientTypeOK
  <2> QED
    BY <1>0, <1>2, <2>2 DEF DownIsEmpty, OneCall
<1>7. PairInv'
  <2>1. UNCHANGED <<vrid, filePairs>>
    BY DEF ConfigureService, RemoveServiceConfiguration, LoadVIPs
  <2>2. \/ Leave(c)
        \/ \E step \in {"open", "vrids"} : Goto(c, step) /\ UNCHANGED pairs
    BY DEF ConfigureService, RemoveServiceConfiguration, LoadVIPs, Then
  <2> QED
    BY <1>0, <2>1, <2>2, PairStays DEF Leave, Goto, ClientTypeOK
<1> QED
  BY <1>4, <1>5, <1>6, <1>7
  DEF LegacyInv, LegacyTypeOK, IpamInv, ClientInv, ClientTypeOK, PairInv, OneCall

LEMMA LegacyInvariant == Spec => []LegacyInv
<1>1. LegacyInv /\ [Next]_vars => LegacyInv'
  <2> SUFFICES ASSUME LegacyInv, [Next]_vars PROVE LegacyInv'
    OBVIOUS
  <2>1. CASE UNCHANGED vars
    <3>1. IpamInv /\ ClientInv /\ PairInv /\ DownIsEmpty /\ OneCall
      BY InvParts
    <3>2. UNCHANGED ipamVars /\ UNCHANGED <<hostVars, faults, clientVars, stored>>
      BY <2>1 DEF vars, ipamVars
    <3>3. IpamInv' /\ ClientInv' /\ DownIsEmpty' /\ OneCall'
      BY <3>1, <3>2, IpamStays, ClientStays DEF DownIsEmpty, OneCall, ipamVars, clientVars
    <3>4. PairInv'
      BY <3>1, <3>2, PairInvStays DEF clientVars
    <3> QED
      BY <3>3, <3>4 DEF LegacyInv, LegacyTypeOK, IpamInv, ClientInv, ClientTypeOK, PairInv, OneCall
  <2> QED
    BY <2>1, StartKeeps, DieKeeps, CallKeeps, IpamStepKeeps, NginxCallKeeps,
       ClientStepKeeps DEF Next
<1> QED
  BY <1>1, InitHolds, PTL DEF Spec

(* The types.                                                              *)
THEOREM LegacyTypeCorrect == Spec => []LegacyTypeOK
<1>1. LegacyInv => LegacyTypeOK
  BY DEF LegacyInv
<1> QED
  BY <1>1, LegacyInvariant, PTL

(* Nothing but allocations of an earlier version ever takes effect: the    *)
(* allocator never saves one of its own (saveAllocations locks the mutex   *)
(* its caller holds).                                                      *)
THEOREM LegacyServesTheStored == Spec => []OnlyStoredTakesEffect
<1>1. LegacyInv => OnlyStoredTakesEffect
  BY DEF LegacyInv, GivenIsStored, FilesAreStored, GroupsAreStored, OnlyStoredTakesEffect
<1> QED
  BY <1>1, LegacyInvariant, PTL

-----------------------------------------------------------------------------
(* The caller that saves, and the pair of identifiers.                     *)

LEMMA SavingStep ==
  ASSUME LegacyInv, [Next]_vars, up, up', NEW c \in Callers, pc[c] = "save"
  PROVE  /\ UNCHANGED <<tables, given, stored>>
         /\ \A d \in Callers : pc[d] \in {"lock", "save"} => pc'[d] = pc[d]
<1>0. mutex = c /\ c # None
  BY TableAssumption DEF LegacyInv, Mutual
<1>1. CASE UNCHANGED vars
  BY <1>1 DEF vars, ipamVars, tables
<1>2. ~Start /\ ~Die
  BY DEF Start, Die
<1>3. ASSUME NEW d \in Callers, Call(d)
      PROVE  /\ UNCHANGED <<tables, given, stored>>
             /\ \A e \in Callers : pc[e] \in {"lock", "save"} => pc'[e] = pc[e]
  BY <1>3 DEF Call, LegacyInv, LegacyTypeOK, IpamTypeOK
<1>4. ASSUME NEW d \in Callers PROVE ~Ipam(d)
  BY <1>0, LockBegins, BodyOutcomes DEF Ipam
<1>5. ASSUME NEW d \in Callers,
             ConfigureService(d) \/ RemoveServiceConfiguration(d) \/ LoadVIPs(d)
      PROVE  UNCHANGED ipamVars
  BY <1>5 DEF ConfigureService, RemoveServiceConfiguration, LoadVIPs
<1>6. ASSUME NEW d \in Callers, Client(d) PROVE UNCHANGED ipamVars
  BY <1>6, ClientLeavesIpam
<1> QED
  BY <1>1, <1>2, <1>3, <1>4, <1>5, <1>6 DEF Next, ipamVars, tables

(* From the first save on no table and no ConfigMap changes and nobody     *)
(* gets into pkg/ipam or out of it, until the process dies.                *)
THEOREM FirstSaveBlocks == Spec => SavingBlocks
<1> DEFINE Blocked ==
      up /\ up' /\ (\E c \in Callers : pc[c] = "save") =>
        /\ UNCHANGED <<tables, given, stored>>
        /\ \A c \in Callers : pc[c] \in {"lock", "save"} => pc'[c] = pc[c]
<1>1. LegacyInv /\ [Next]_vars => [Blocked]_vars
  BY SavingStep
<1>2. Spec => [][Blocked]_vars
  <2> HIDE DEF Blocked
  <2> QED
    BY <1>1, LegacyInvariant, PTL DEF Spec
<1> QED
  BY <1>2 DEF SavingBlocks

(* No keepalived file carries a pair that is not the stored one, whatever  *)
(* Updates fail or come too late: GetOrAllocateVRIDs returns a pair only   *)
(* when it was in the ConfigMap or has been written to it.                 *)
THEOREM FilesCarryTheStoredPair == Spec => []FilesCarryStoredPair
<1>1. LegacyInv => FilesCarryStoredPair
  BY DEF LegacyInv
<1> QED
  BY <1>1, LegacyInvariant, PTL

-----------------------------------------------------------------------------
(* The two tables of pkg/ipam.                                             *)

UsageInv == UsageAgrees /\ Apart(stored)

LEMMA UsageOfAgrees ==
  ASSUME NEW t \in Tables, Apart(t),
         NEW s \in Services, NEW i \in IPs, NEW q \in Ports
  PROVE  UsageOf(t)[i][q] = s <=> Uses(t, s, i, q)
<1>1. CASE \E r \in Services : Uses(t, r, i, q)
  <2>1. PICK r \in Services : UsageOf(t)[i][q] = r /\ Uses(t, r, i, q)
    BY <1>1 DEF UsageOf
  <2> QED
    BY <2>1 DEF Apart
<1>2. CASE ~\E r \in Services : Uses(t, r, i, q)
  BY <1>2, NoneAssumption DEF UsageOf
<1> QED
  BY <1>1, <1>2

LEMMA BodyKeepsUsage ==
  ASSUME LegacyInv, UsageAgrees, NEW c \in Callers, Allocate(c) \/ Release(c)
  PROVE  UsageAgrees'
<1>0. /\ up /\ up' = up
      /\ request[c] \in Requests
      /\ allocations \in Tables /\ usage \in [IPs -> [Ports -> Services \cup {None}]]
      /\ \A s \in Services, i \in IPs, q \in Ports :
            usage[i][q] = s <=> Uses(allocations, s, i, q)
  BY BodyOutcomes DEF UsageAgrees, LegacyInv, LegacyTypeOK, IpamTypeOK
<1> DEFINE r == request[c].svc
           ports == request[c].ports
<1>1. r \in Services /\ ports \in SUBSET Ports
  BY <1>0 DEF Requests
<1>2. CASE UNCHANGED tables
  BY <1>0, <1>2 DEF UsageAgrees, Uses, tables
<1>3. CASE AllocateFirst(c)
  <2>1. PICK k \in DOMAIN pool :
          /\ allocations[r] = None
          /\ Fits(pool[k], ports)
          /\ allocations' = [allocations EXCEPT ![r] = [ip |-> pool[k], ports |-> ports]]
          /\ usage' = [usage EXCEPT ![pool[k]] =
                         [q \in Ports |-> IF q \in ports THEN r ELSE @[q]]]
    BY <1>3 DEF AllocateFirst
  <2>2. pool[k] \in IPs
    BY PoolAssumption DEF LegacyInv, LegacyTypeOK, IpamTypeOK
  <2> DEFINE new == [ip |-> pool[k], ports |-> ports]
  <2>3. new \in Allocation /\ new # None /\ new.ip = pool[k] /\ new.ports = ports
    BY <1>1, <2>2, TableAssumption DEF Allocation
  <2> SUFFICES ASSUME NEW s \in Services, NEW i \in IPs, NEW q \in Ports
               PROVE  usage'[i][q] = s <=> Uses(allocations', s, i, q)
    BY DEF UsageAgrees, Uses
  <2>4. CASE i = pool[k] /\ q \in ports
    <3>1. usage[i][q] = None /\ usage'[i][q] = r
      BY <1>0, <1>1, <2>1, <2>4 DEF Fits
    <3>2. ~Uses(allocations, s, i, q)
      BY <1>0, <3>1, NoneAssumption
    <3>3. s # r => (Uses(allocations', s, i, q) <=> Uses(allocations, s, i, q))
      BY <1>0, <2>1 DEF Uses, Tables
    <3>4. Uses(allocations', r, i, q)
      <4>1. allocations'[r] = new
        BY <1>0, <1>1, <2>1 DEF Tables
      <4> HIDE DEF new
      <4> QED
        BY <2>3, <2>4, <4>1 DEF Uses
    <3> QED
      BY <3>1, <3>2, <3>3, <3>4
  <2>5. CASE ~(i = pool[k] /\ q \in ports)
    <3>1. usage'[i][q] = usage[i][q]
      BY <1>0, <1>1, <2>1, <2>2, <2>5
    <3>2. s # r => (Uses(allocations', s, i, q) <=> Uses(allocations, s, i, q))
      BY <1>0, <2>1 DEF Uses, Tables
    <3>3. ~Uses(allocations, r, i, q)
      BY <2>1 DEF Uses
    <3>4. ~Uses(allocations', r, i, q)
      <4>1. allocations'[r] = new
        BY <1>0, <1>1, <2>1 DEF Tables
      <4> HIDE DEF new
      <4> QED
        BY <2>3, <2>5, <4>1 DEF Uses
    <3> QED
      BY <1>0, <3>1, <3>2, <3>3, <3>4
  <2> QED
    BY <2>4, <2>5
<1>4. CASE ReleaseKnown(c)
  <2>1. /\ allocations[r] # None
        /\ allocations' = [allocations EXCEPT ![r] = None]
        /\ usage' = [usage EXCEPT ![allocations[r].ip] =
                       [q \in Ports |-> IF q \in allocations[r].ports THEN None ELSE @[q]]]
    BY <1>4 DEF ReleaseKnown
  <2>2. allocations[r].ip \in IPs
    BY <1>0, <1>1, <2>1 DEF Tables, Allocation
  <2> SUFFICES ASSUME NEW s \in Services, NEW i \in IPs, NEW q \in Ports
               PROVE  usage'[i][q] = s <=> Uses(allocations', s, i, q)
    BY DEF UsageAgrees, Uses
  <2>3. /\ s # r => (Uses(allocations', s, i, q) <=> Uses(allocations, s, i, q))
        /\ ~Uses(allocations', r, i, q)
    BY <1>0, <1>1, <2>1 DEF Uses, Tables
  <2>4. Uses(allocations, r, i, q) <=>
          i = allocations[r].ip /\ q \in allocations[r].ports
    BY <2>1 DEF Uses
  <2>5. usage'[i][q] = IF Uses(allocations, r, i, q) THEN None ELSE usage[i][q]
    BY <1>0, <2>1, <2>2, <2>4
  <2>6. Uses(allocations, r, i, q) => usage[i][q] = r
    BY <1>0, <1>1
  <2>7. usage[i][q] = s <=> Uses(allocations, s, i, q)
    BY <1>0
  <2> QED
    BY <1>1, <2>3, <2>5, <2>6, <2>7, NoneAssumption
<1>5. AllocateFirst(c) \/ ReleaseKnown(c) \/ UNCHANGED tables
  BY DEF Allocate, Release, AllocateKnown, AllocateNothing, ReleaseUnknown
<1> QED
  BY <1>2, <1>3, <1>4, <1>5

LEMMA UsageStep ==
  ASSUME LegacyInv, UsageInv, [Next]_vars
  PROVE  UsageInv'
<1>1. CASE Start
  <2>1. /\ up' = TRUE /\ stored' = stored /\ allocations' = stored
        /\ usage' = UsageOf(stored) /\ stored \in Tables
    BY <1>1 DEF Start, LegacyInv, LegacyTypeOK, IpamTypeOK
  <2> QED
    BY <2>1, UsageOfAgrees DEF UsageInv, UsageAgrees, Apart, Uses
<1>2. CASE Die
  BY <1>2 DEF Die, UsageInv, UsageAgrees, Apart, Uses
<1>3. ASSUME UNCHANGED <<up, stored, tables>> PROVE UsageInv'
  BY <1>3 DEF UsageInv, UsageAgrees, Apart, Uses, tables
<1>4. ASSUME NEW c \in Callers, Ipam(c) PROVE UsageInv'
  <2>1. CASE Lock(c)
    BY <1>3, <2>1, LockBegins
  <2>2. CASE Allocate(c) \/ Release(c)
    <3>1. UsageAgrees' /\ stored' = stored
      BY <2>2, BodyKeepsUsage, BodyOutcomes DEF UsageInv
    <3> QED
      BY <3>1 DEF UsageInv, Apart, Uses
  <2> QED
    BY <1>4, <2>1, <2>2 DEF Ipam
<1>5. ASSUME NEW c \in Callers, Call(c) PROVE UNCHANGED <<up, stored, tables>>
  BY <1>5 DEF Call
<1>6. ASSUME NEW c \in Callers,
             ConfigureService(c) \/ RemoveServiceConfiguration(c) \/ LoadVIPs(c) \/ Client(c)
      PROVE  UNCHANGED <<up, stored, tables>>
  <2>1. UNCHANGED ipamVars
    BY <1>6, ClientLeavesIpam DEF ConfigureService, RemoveServiceConfiguration, LoadVIPs
  <2> QED
    BY <2>1 DEF ipamVars
<1>7. CASE UNCHANGED vars
  BY <1>3, <1>7 DEF vars, ipamVars, tables
<1> QED
  BY <1>1, <1>2, <1>3, <1>4, <1>5, <1>6, <1>7 DEF Next

(* When no stored table gives a port of an address to two Services, the    *)
(* two tables of the process agree, whatever is allocated, released or     *)
(* left half done.                                                         *)
THEOREM TablesAgree ==
  ASSUME \A t \in StoredAtStart : Apart(t)
  PROVE  Spec => []UsageAgrees
<1>1. Init => UsageInv
  BY DEF Init, IpamInit, UsageInv, UsageAgrees
<1>2. UsageInv => UsageAgrees
  BY DEF UsageInv
<1> QED
  BY <1>1, <1>2, LegacyInvariant, UsageStep, PTL DEF Spec
=============================================================================
