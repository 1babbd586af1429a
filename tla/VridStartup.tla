----------------------------- MODULE VridStartup -----------------------------
(***************************************************************************)
(* utils/vrid.go at startup: operators of several clusters, and several    *)
(* pods of one cluster (main.go does not wait for the leader election),    *)
(* allocate pairs of VRRP router identifiers from one file on the NGINX    *)
(* host.  Each fetches the file, adds a pair for its cluster if there is   *)
(* none, writes the whole file back and publishes the pair in the          *)
(* ConfigMap of its own cluster.  Nothing locks the file between the fetch *)
(* and the write: vridAllocationMutex is local to a process.               *)
(*                                                                         *)
(* The write is "echo '...' | sudo tee FILE": tee truncates the file when  *)
(* it opens it and writes afterwards.  When the SSH session or the pod     *)
(* ends in between, tee is left alone on the host: it may still write, at  *)
(* any later time, or die and leave the file empty, since it also prints   *)
(* to the session that is gone.  Nothing waits for it.                     *)
(***************************************************************************)
EXTENDS Naturals

CONSTANTS
  Clusters,      \* names that may occur in the file
  Pods,          \* operator processes
  ClusterOf,     \* ClusterOf[p]: CLUSTER_NAME of pod p
  MaxVRID,       \* maxVRID of findUnusedVRIDPair
  InitialFiles,  \* contents of the file before the first start
  InitialMaps,   \* what the ConfigMaps hold before it
  MaxFaults,     \* bound: calls that fail, and deaths of pods
  None,          \* no entry
  Malformed,     \* an entry parseVRIDPair refuses
  NoData         \* a ConfigMap that is there but has no data at all

VRIDs == 1 .. MaxVRID
Pairs == VRIDs \X VRIDs
Entries == Pairs \cup {None, Malformed}
Contents == [Clusters -> Entries]
Maps == [Clusters -> Entries \cup {NoData}]

ASSUME VridAssumption ==
  /\ MaxVRID \in Nat /\ MaxVRID >= 2
  /\ ClusterOf \in [Pods -> Clusters]
  /\ InitialFiles \subseteq Contents
  /\ InitialMaps \subseteq [Clusters -> {None, NoData}]
  /\ MaxFaults \in Nat
  /\ None \notin Pairs \cup {Malformed} /\ Malformed \notin Pairs
  /\ NoData \notin Entries

VARIABLES
  file,       \* VRID_allocations.conf; a missing and an empty file are one
  orphans,    \* tees whose session is gone; two that are alike count once
  data,       \* data[p]: what p writes, or wrote
  pc,         \* pc[p]: the call p is about to make
  pair,       \* pair[p]: the pair p is about to publish
  published,  \* published[c]: c's entry in c's ConfigMap vrid-allocations
  faults,     \* failures so far
  disorder    \* history: the ways in which pods have got in each other's way

vridVars == <<file, orphans, data, pc, pair, published, faults, disorder>>

Empty == [c \in Clusters |-> None]

(* A tee alone on the host: whether it has truncated the file, and what it *)
(* has to write.                                                           *)
Orphans == [opened : BOOLEAN, text : Contents]

(* Type invariant.                                                         *)
VridTypeOK ==
  /\ file \in Contents
  /\ orphans \subseteq Orphans
  /\ data \in [Pods -> Contents]
  /\ pc \in [Pods -> {"down", "fetch", "write", "opened", "publish", "running"}]
  /\ pair \in [Pods -> Entries]
  /\ published \in Maps
  /\ faults \in 0 .. MaxFaults
  /\ disorder \subseteq {"together", "cut"}

Init ==
  /\ file \in InitialFiles
  /\ orphans = {}
  /\ data = [p \in Pods |-> Empty]
  /\ pc = [p \in Pods |-> "down"]
  /\ pair = [p \in Pods |-> None]
  /\ published \in InitialMaps
  /\ faults = 0
  /\ disorder = {}

-----------------------------------------------------------------------------
(* The choice of a pair.                                                   *)

(* parseAllocatedVRIDs: malformed entries take nothing.                    *)
Allocated(content) ==
  {v \in VRIDs : \E c \in Clusters :
     content[c] \in Pairs /\ v \in {content[c][1], content[c][2]}}

(* Variant: the loop runs to the last identifier itself.                   *)
CandidatesToMax(content) ==
  {i \in 1 .. MaxVRID : i % 2 = 1 /\ {i, i + 1} \cap Allocated(content) = {}}

(* The identifiers findUnusedVRIDPair looks for as the first of a pair.    *)
Candidates(content) ==
  {i \in 1 .. MaxVRID - 1 : i % 2 = 1 /\ {i, i + 1} \cap Allocated(content) = {}}

(* Variant: only the first identifier of the pair is looked at.            *)
HalfChecked(content, i) ==
  /\ i \in 1 .. MaxVRID - 1 /\ i % 2 = 1 /\ i \notin Allocated(content)
  /\ \A j \in 1 .. i - 1 : j % 2 = 1 => j \in Allocated(content)

(* The pair findUnusedVRIDPair returns starts with i.                      *)
FindUnused(content, i) ==
  /\ i \in Candidates(content)
  /\ \A j \in Candidates(content) : i <= j

-----------------------------------------------------------------------------
(* One start of one pod.                                                   *)

(* A pod is between its start and its publication.                         *)
Starting(p) == pc[p] \notin {"down", "running"}

(* The kubelet starts the pod.  It waits for nobody.                       *)
Start(p) ==
  /\ pc[p] = "down"
  /\ pc' = [pc EXCEPT ![p] = "fetch"]
  /\ disorder' = disorder \cup {d \in {"together"} : \E q \in Pods : Starting(q)}
  /\ UNCHANGED <<file, orphans, data, pair, published, faults>>

Goto(p, step) == pc' = [pc EXCEPT ![p] = step]

(* Variant: a file that is missing is an error.                            *)
FetchEmptyRefused(p) ==
  /\ pc[p] = "fetch" /\ file = Empty
  /\ Goto(p, "down")
  /\ UNCHANGED <<file, orphans, data, pair, published, faults, disorder>>

(* The file has no entry at all: it is made anew with the pair 1,2.        *)
FetchEmpty(p) ==
  /\ pc[p] = "fetch" /\ file = Empty
  /\ pair' = [pair EXCEPT ![p] = <<1, 2>>]
  /\ data' = [data EXCEPT ![p] = [Empty EXCEPT ![ClusterOf[p]] = <<1, 2>>]]
  /\ Goto(p, "write")
  /\ UNCHANGED <<file, orphans, published, faults, disorder>>

(* The file has entries, but none for the cluster of p.                    *)
FetchOthers(p) ==
  /\ pc[p] = "fetch" /\ file # Empty /\ file[ClusterOf[p]] = None
  /\ \E i \in 1 .. MaxVRID :
       /\ FindUnused(file, i)
       /\ pair' = [pair EXCEPT ![p] = <<i, i + 1>>]
       /\ data' = [data EXCEPT ![p] = [file EXCEPT ![ClusterOf[p]] = <<i, i + 1>>]]
  /\ Goto(p, "write")
  /\ UNCHANGED <<file, orphans, published, faults, disorder>>

(* No pair is left: main exits, and the kubelet starts the pod again.      *)
FetchExhausted(p) ==
  /\ pc[p] = "fetch" /\ file # Empty /\ file[ClusterOf[p]] = None
  /\ Candidates(file) = {}
  /\ Goto(p, "down")
  /\ UNCHANGED <<file, orphans, data, pair, published, faults, disorder>>

(* Variant: the pair of the file is ignored and 1,2 published.             *)
FetchOwnForgotten(p) ==
  /\ pc[p] = "fetch" /\ file[ClusterOf[p]] # None
  /\ pair' = [pair EXCEPT ![p] = <<1, 2>>]
  /\ Goto(p, "publish")
  /\ UNCHANGED <<file, orphans, data, published, faults, disorder>>

(* Variant: the search for a free pair comes first and may fail.           *)
FetchOwnIfRoom(p) ==
  /\ pc[p] = "fetch" /\ file[ClusterOf[p]] # None
  /\ pair' = [pair EXCEPT ![p] = file[ClusterOf[p]]]
  /\ Goto(p, IF Candidates(file) = {} THEN "down" ELSE "publish")
  /\ UNCHANGED <<file, orphans, data, published, faults, disorder>>

(* The cluster has its entry already, whatever it says.                    *)
FetchOwn(p) ==
  /\ pc[p] = "fetch" /\ file[ClusterOf[p]] # None
  /\ pair' = [pair EXCEPT ![p] = file[ClusterOf[p]]]
  /\ Goto(p, "publish")
  /\ UNCHANGED <<file, orphans, data, published, faults, disorder>>

(* Variant: the pair is published while the tee is still at work.          *)
OpensUnawaited(p) ==
  /\ pc[p] = "write"
  /\ Goto(p, "publish")
  /\ orphans' = orphans \cup {[opened |-> TRUE, text |-> data[p]]}
  /\ file' = Empty
  /\ UNCHANGED <<data, pair, published, faults, disorder>>

(* tee opens the file, which truncates it.                                 *)
Opens(p) ==
  /\ pc[p] = "write"
  /\ Goto(p, "opened")
  /\ file' = Empty
  /\ UNCHANGED <<orphans, data, pair, published, faults, disorder>>

(* The text goes to the start of the file.  When another tee has written   *)
(* there since, lines at the end of a longer text may survive, and come    *)
(* after the text for those who read it.                                   *)
Overlaid(text) ==
  {[c \in Clusters |-> IF c \in survivors THEN file[c] ELSE text[c]] :
     survivors \in SUBSET {c \in Clusters : file[c] # None}}

(* tee writes and ends, and the operator goes on.                          *)
Writes(p) ==
  /\ pc[p] = "opened"
  /\ Goto(p, "publish")
  /\ file' \in Overlaid(data[p])
  /\ UNCHANGED <<orphans, data, pair, published, faults, disorder>>

(* A tee whose session is gone goes on, or dies printing to the session.   *)
OrphanOpens(o) ==
  /\ ~o.opened
  /\ file' = Empty
  /\ orphans' = (orphans \ {o}) \cup {[o EXCEPT !.opened = TRUE]}
  /\ UNCHANGED <<data, pc, pair, published, faults, disorder>>

OrphanWrites(o) ==
  /\ o.opened
  /\ file' \in Overlaid(o.text)
  /\ orphans' = orphans \ {o}
  /\ UNCHANGED <<data, pc, pair, published, faults, disorder>>

OrphanDies(o) ==
  /\ orphans' = orphans \ {o}
  /\ UNCHANGED <<file, data, pc, pair, published, faults, disorder>>

(* updateConfigMapWithClusterVRID.                                         *)
Publish(p) ==
  /\ pc[p] = "publish" /\ published[ClusterOf[p]] # NoData
  /\ published' = [published EXCEPT ![ClusterOf[p]] = pair[p]]
  /\ Goto(p, "running")
  /\ UNCHANGED <<file, orphans, data, pair, faults, disorder>>

(* Variant: a map that takes nothing is passed over.                       *)
PublishNowhere(p) ==
  /\ pc[p] = "publish" /\ published[ClusterOf[p]] = NoData
  /\ Goto(p, "running")
  /\ UNCHANGED <<file, orphans, data, pair, published, faults, disorder>>

(* The map of a ConfigMap without data is nil: writing to it kills the pod.*)
PublishPanics(p) ==
  /\ pc[p] = "publish" /\ published[ClusterOf[p]] = NoData
  /\ Goto(p, "down")
  /\ UNCHANGED <<file, orphans, data, pair, published, faults, disorder>>

(* A call fails or the pod dies: the pod is down.  Once the command has    *)
(* been sent, its tee may be left behind.  A Get that fails leaves a nil   *)
(* map, and so a pod that is down, as well.                                *)
Die(p) ==
  /\ pc[p] # "down"
  /\ faults < MaxFaults
  /\ faults' = faults + 1
  /\ Goto(p, "down")
  /\ \/ pc[p] # "opened" /\ UNCHANGED <<orphans, disorder>>
     \/ /\ pc[p] \in {"write", "opened"}
        /\ orphans' = orphans \cup {[opened |-> pc[p] = "opened", text |-> data[p]]}
        /\ disorder' = disorder \cup {"cut"}
  /\ UNCHANGED <<file, data, pair, published>>

Step(p) ==
  \/ FetchEmpty(p) \/ FetchOthers(p) \/ FetchExhausted(p) \/ FetchOwn(p)
  \/ Opens(p) \/ Writes(p) \/ Publish(p) \/ PublishPanics(p)

Orphaned(o) == OrphanOpens(o) \/ OrphanWrites(o) \/ OrphanDies(o)

Next ==
  \/ \E p \in Pods : Start(p) \/ Step(p) \/ Die(p)
  \/ \E o \in orphans : Orphaned(o)

Spec == Init /\ [][Next]_vridVars

(* Pods are started again, and each call ends.  Nothing is assumed of the  *)
(* tees that are alone.                                                    *)
FairSpec == Spec /\ \A p \in Pods : WF_vridVars(Start(p) \/ Step(p))

-----------------------------------------------------------------------------
HasPublished(c) == published[c] \in Pairs \cup {Malformed}

(* Pods have started one after the other, and no tee was left alone.       *)
Orderly == disorder = {}

(* What a cluster publishes shares no identifier with what another cluster *)
(* has published or has in the file: their routers would take each other's *)
(* addresses.                                                              *)
Exclusive ==
  \A c, d \in Clusters : \A taken \in {published[d], file[d]} :
    c # d /\ published[c] \in Pairs /\ taken \in Pairs =>
      {published[c][1], published[c][2]} \cap {taken[1], taken[2]} = {}

(* This much the operators achieve as long as they start in turn and their *)
(* tees end before they do, whatever else fails ...                        *)
VRIDsExclusive == Orderly => Exclusive

(* ... but not by starting in turn alone.                                  *)
ExclusiveInTurn == "together" \notin disorder => Exclusive

(* As long as starts are orderly, what a cluster has published it keeps,   *)
(* through every restart.                                                  *)
VRIDsStable ==
  [][Orderly' =>
       \A c \in Clusters : HasPublished(c) => published'[c] = published[c]]_vridVars

(* A pod that runs has an entry in its ConfigMap, and one GetOrAllocate-   *)
(* VRIDs refuses only if the file came with it: not even torn writes and   *)
(* starts at the same time make up another.                                *)
CameMalformed(c) == \E content \in InitialFiles : content[c] = Malformed

RunningHasEntry ==
  \A p \in Pods : pc[p] = "running" =>
    LET c == ClusterOf[p]
    IN  published[c] \in Pairs \/ (published[c] = Malformed /\ CameMalformed(c))

(* The entries as the other clusters will read them: those of the file, or *)
(* of the text of the tee that has truncated it and not written yet.       *)
Recorded ==
  IF \E p \in Pods : pc[p] = "opened"
  THEN data[CHOOSE p \in Pods : pc[p] = "opened"]
  ELSE file

(* As long as starts are orderly, the clusters implement a registry: a     *)
(* pair is reserved, once and for all, when the tee takes the file, a      *)
(* write that arrives or an operator that dies changes no entry, and only  *)
(* reserved pairs are published.                                           *)
Registry == INSTANCE VridRegistry WITH registry <- Recorded

ImplementsRegistry ==
  /\ Registry!Init
  /\ [][Orderly' => [Registry!Next]_(Registry!registryVars)]_vridVars

(* Every pod gets through its start, unless its ConfigMap takes nothing or *)
(* its cluster is not in the file and the file leaves no pair.             *)
NoneLeft(c) == file[c] = None /\ Candidates(file) = {}

AllStart ==
  \A p \in Pods :
    <>(pc[p] = "running" \/ published[ClusterOf[p]] = NoData \/ NoneLeft(ClusterOf[p]))

(* A cluster that has its pair starts again whatever the others have taken *)
(* in the meantime, the last pair included, as long as starts are orderly. *)
OwnersStartAgain ==
  \A p \in Pods :
    Orderly /\ HasPublished(ClusterOf[p]) ~> pc[p] = "running" \/ ~Orderly
=============================================================================
