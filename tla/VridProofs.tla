------------------------------ MODULE VridProofs ------------------------------
(***************************************************************************)
(* Two sets of theorems about VridStartup, for any number of clusters,     *)
(* pods, deaths and identifiers.                                           *)
(*                                                                         *)
(* Whatever runs at once and whatever is cut short, every identifier stays *)
(* in its range and a running pod has an entry.                            *)
(*                                                                         *)
(* As long as no two pods start at once and no session or pod ends while   *)
(* its tee is at work (Orderly), clusters publish pairs nobody else has,   *)
(* keep them, and implement the registry of VridRegistry.  Nothing in the  *)
(* code sees to either condition; without one of them TLC finds two        *)
(* clusters with one pair (VridRace.cfg and VridCut.cfg).                  *)
(***************************************************************************)
EXTENDS VridStartup, TLAPS

-----------------------------------------------------------------------------
LEMMA PairsAreNoMarks ==
  /\ None \notin Pairs /\ Malformed \notin Pairs /\ NoData \notin Pairs
  /\ None # Malformed /\ None # NoData /\ Malformed # NoData
  /\ <<1, 2>> \in Pairs
  /\ \A i \in 1 .. MaxVRID - 1 : <<i, i + 1>> \in Pairs
  BY VridAssumption DEF VridAssumption, Pairs, VRIDs, Entries

LEMMA InitTypes ==
  ASSUME Init
  PROVE  VridTypeOK
<1> USE PairsAreNoMarks, VridAssumption
<1>1. file \in Contents /\ Empty \in Contents
  BY DEF Init, Contents, Entries, Empty
<1>2. published \in Maps
  BY DEF Init, Maps, Entries
<1> QED
  BY <1>1, <1>2 DEF Init, VridTypeOK, Entries

LEMMA OverlaidTypes ==
  ASSUME VridTypeOK, NEW text \in Contents
  PROVE  /\ Overlaid(text) \subseteq Contents
         /\ \A content \in Overlaid(text), c \in Clusters :
              content[c] = file[c] \/ content[c] = text[c]
  BY DEF Overlaid, VridTypeOK, Contents

LEMMA TypeKept ==
  ASSUME VridTypeOK, [Next]_vridVars
  PROVE  VridTypeOK'
<1> USE VridAssumption DEF VridAssumption, VridTypeOK
<1>0. /\ Empty \in Contents /\ None \in Entries
      /\ \A content \in Contents, c \in Clusters, e \in Entries :
           content[c] \in Entries /\ [content EXCEPT ![c] = e] \in Contents
      /\ \A map \in Maps, c \in Clusters, e \in Entries : [map EXCEPT ![c] = e] \in Maps
      /\ \A i \in 1 .. MaxVRID - 1 : <<i, i + 1>> \in Entries
      /\ <<1, 2>> \in Entries
  BY PairsAreNoMarks DEF Empty, Contents, Maps, Entries
<1>1. CASE UNCHANGED vridVars
  BY <1>1 DEF vridVars
<1>2. ASSUME NEW p \in Pods, Start(p) \/ FetchExhausted(p) \/ PublishPanics(p)
      PROVE  VridTypeOK'
  BY <1>2 DEF Start, FetchExhausted, PublishPanics, Goto
<1>3. ASSUME NEW p \in Pods, FetchEmpty(p)
      PROVE  VridTypeOK'
  BY <1>0, <1>3 DEF FetchEmpty, Goto
<1>4. ASSUME NEW p \in Pods, FetchOthers(p)
      PROVE  VridTypeOK'
  <2>1. PICK i \in 1 .. MaxVRID - 1 :
          /\ pair' = [pair EXCEPT ![p] = <<i, i + 1>>]
          /\ data' = [data EXCEPT ![p] = [file EXCEPT ![ClusterOf[p]] = <<i, i + 1>>]]
    BY <1>4 DEF FetchOthers, FindUnused, Candidates
  <2> QED
    BY <1>0, <1>4, <2>1 DEF FetchOthers, Goto
<1>5. ASSUME NEW p \in Pods, FetchOwn(p)
      PROVE  VridTypeOK'
  BY <1>0, <1>5 DEF FetchOwn, Goto
<1>6. ASSUME NEW p \in Pods, Opens(p)
      PROVE  VridTypeOK'
  BY <1>0, <1>6 DEF Opens, Goto
<1>7. ASSUME NEW p \in Pods, Writes(p)
      PROVE  VridTypeOK'
  <2>1. file' \in Contents
    BY <1>7, OverlaidTypes DEF Writes
  <2> QED
    BY <1>7, <2>1 DEF Writes, Goto
<1>8. ASSUME NEW p \in Pods, Publish(p)
      PROVE  VridTypeOK'
  BY <1>0, <1>8 DEF Publish, Goto
<1>9. ASSUME NEW p \in Pods, Die(p)
      PROVE  VridTypeOK'
  <2>1. [opened |-> pc[p] = "opened", text |-> data[p]] \in Orphans
    <3>1. data[p] \in Contents
      OBVIOUS
    <3> HIDE DEF VridTypeOK
    <3>2. \A b \in BOOLEAN : [opened |-> b, text |-> data[p]] \in Orphans
      BY <3>1 DEF Orphans
    <3>3. (pc[p] = "opened") \in BOOLEAN
      OBVIOUS
    <3> QED
      BY <3>2, <3>3, Zenon
  <2>2. orphans' \subseteq Orphans
    BY <1>9, <2>1 DEF Die
  <2>3. disorder' \subseteq {"together", "cut"}
    BY <1>9 DEF Die
  <2>4. /\ UNCHANGED <<file, data, pair, published>>
        /\ faults' = faults + 1 /\ faults < MaxFaults
        /\ pc' = [pc EXCEPT ![p] = "down"]
    BY <1>9 DEF Die, Goto
  <2> QED
    BY <2>2, <2>3, <2>4
<1>10. ASSUME NEW o \in orphans, Orphaned(o)
       PROVE  VridTypeOK'
  <2>1. o \in Orphans /\ o.text \in Contents
    BY DEF Orphans
  <2>2. [o EXCEPT !.opened = TRUE] \in Orphans
    BY <2>1 DEF Orphans
  <2>3. CASE OrphanOpens(o)
    BY <1>0, <2>2, <2>3 DEF OrphanOpens
  <2>4. CASE OrphanWrites(o)
    BY <2>1, <2>4, OverlaidTypes DEF OrphanWrites
  <2>5. CASE OrphanDies(o)
    BY <2>5 DEF OrphanDies
  <2> QED
    BY <1>10, <2>3, <2>4, <2>5 DEF Orphaned
<1> QED
  BY <1>1, <1>2, <1>3, <1>4, <1>5, <1>6, <1>7, <1>8, <1>9, <1>10 DEF Next, Step

(* The types hold whatever starts at once and whatever is cut short: no    *)
(* pair that is chosen leaves 1 .. MaxVRID.                                *)
THEOREM VridTypeCorrect == Spec => []VridTypeOK
<1>1. Init => VridTypeOK
  BY InitTypes
<1>2. VridTypeOK /\ [Next]_vridVars => VridTypeOK'
  BY TypeKept
<1> QED
  BY <1>1, <1>2, PTL DEF Spec

-----------------------------------------------------------------------------
(* A running pod has an entry.  A malformed one spreads from the file to   *)
(* what pods and tees carry and to the ConfigMap, but never to a cluster   *)
(* that had none at first, and what a pod is about to publish is there.    *)

MalformedCame ==
  /\ \A c \in Clusters : file[c] = Malformed => CameMalformed(c)
  /\ \A p \in Pods, c \in Clusters : data[p][c] = Malformed => CameMalformed(c)
  /\ \A o \in orphans, c \in Clusters : o.text[c] = Malformed => CameMalformed(c)
  /\ \A p \in Pods : pair[p] = Malformed => CameMalformed(ClusterOf[p])
  /\ \A c \in Clusters : published[c] = Malformed => CameMalformed(c)

PairChosen == \A p \in Pods : pc[p] \in {"write", "opened", "publish"} => pair[p] # None

RunningPublished == \A p \in Pods : pc[p] = "running" => HasPublished(ClusterOf[p])

EntryInv == VridTypeOK /\ MalformedCame /\ PairChosen /\ RunningPublished

LEMMA EntriesAtFirst ==
  ASSUME Init
  PROVE  EntryInv
<1> USE PairsAreNoMarks, VridAssumption DEF VridAssumption
<1>1. VridTypeOK
  BY InitTypes
<1>2. MalformedCame
  BY DEF Init, MalformedCame, CameMalformed, Empty
<1> QED
  BY <1>1, <1>2 DEF EntryInv, Init, PairChosen, RunningPublished

LEMMA EntriesKept ==
  ASSUME EntryInv, [Next]_vridVars
  PROVE  EntryInv'
<1> USE PairsAreNoMarks, VridAssumption DEF VridAssumption
<1> USE DEF CameMalformed, HasPublished
<1>0. VridTypeOK /\ VridTypeOK' /\ MalformedCame /\ PairChosen /\ RunningPublished
  BY TypeKept DEF EntryInv
<1>1. CASE UNCHANGED vridVars
  BY <1>0, <1>1 DEF vridVars, EntryInv, MalformedCame, PairChosen, RunningPublished
<1>2. ASSUME NEW p \in Pods, Start(p) \/ FetchExhausted(p) \/ PublishPanics(p)
      PROVE  EntryInv'
  <2>1. UNCHANGED <<file, orphans, data, pair, published>>
    BY <1>2 DEF Start, FetchExhausted, PublishPanics
  <2>2. pc'[p] \in {"down", "fetch"} /\ \A q \in Pods \ {p} : pc'[q] = pc[q]
    BY <1>0, <1>2 DEF Start, FetchExhausted, PublishPanics, Goto, VridTypeOK
  <2> QED
    BY <1>0, <2>1, <2>2 DEF EntryInv, MalformedCame, PairChosen, RunningPublished
<1>3. ASSUME NEW p \in Pods, FetchEmpty(p) \/ FetchOthers(p)
      PROVE  EntryInv'
  <2>1. /\ UNCHANGED <<file, orphans, published>>
        /\ pc'[p] = "write" /\ \A q \in Pods \ {p} : pc'[q] = pc[q]
    BY <1>0, <1>3 DEF FetchEmpty, FetchOthers, Goto, VridTypeOK
  <2>2. PICK e \in Pairs :
          /\ pair' = [pair EXCEPT ![p] = e]
          /\ data' = [data EXCEPT ![p] = [file EXCEPT ![ClusterOf[p]] = e]]
    <3>1. CASE FetchEmpty(p)
      BY <3>1 DEF FetchEmpty
    <3>2. CASE FetchOthers(p)
      BY <3>2 DEF FetchOthers, FindUnused, Candidates
    <3> QED
      BY <1>3, <3>1, <3>2
  <2>3. /\ pair'[p] = e /\ \A q \in Pods \ {p} : pair'[q] = pair[q]
        /\ \A c \in Clusters : data'[p][c] \in {e, file[c]}
        /\ \A q \in Pods \ {p} : data'[q] = data[q]
        /\ e # None /\ e # Malformed
    BY <1>0, <2>2 DEF VridTypeOK, Contents
  <2>4. MalformedCame'
    BY <1>0, <2>1, <2>3 DEF MalformedCame
  <2> QED
    BY <1>0, <2>1, <2>3, <2>4 DEF EntryInv, PairChosen, RunningPublished
<1>4. ASSUME NEW p \in Pods, FetchOwn(p)
      PROVE  EntryInv'
  <2>1. /\ UNCHANGED <<file, orphans, data, published>> /\ file[ClusterOf[p]] # None
        /\ pc'[p] = "publish" /\ \A q \in Pods \ {p} : pc'[q] = pc[q]
        /\ pair'[p] = file[ClusterOf[p]] /\ \A q \in Pods \ {p} : pair'[q] = pair[q]
        /\ ClusterOf[p] \in Clusters
    BY <1>0, <1>4 DEF FetchOwn, Goto, VridTypeOK
  <2>2. MalformedCame'
    BY <1>0, <2>1 DEF MalformedCame
  <2> QED
    BY <1>0, <2>1, <2>2 DEF EntryInv, PairChosen, RunningPublished
<1>5. ASSUME NEW p \in Pods, Opens(p)
      PROVE  EntryInv'
  <2>1. /\ UNCHANGED <<orphans, data, pair, published>> /\ file' = Empty
        /\ pc[p] = "write" /\ pc'[p] = "opened" /\ \A q \in Pods \ {p} : pc'[q] = pc[q]
    BY <1>0, <1>5 DEF Opens, Goto, VridTypeOK
  <2>2. MalformedCame'
    BY <1>0, <2>1 DEF MalformedCame, Empty
  <2> QED
    BY <1>0, <2>1, <2>2 DEF EntryInv, PairChosen, RunningPublished
<1>6. ASSUME NEW p \in Pods, Writes(p)
      PROVE  EntryInv'
  <2>1. /\ UNCHANGED <<orphans, data, pair, published>> /\ file' \in Overlaid(data[p])
        /\ pc[p] = "opened" /\ pc'[p] = "publish" /\ \A q \in Pods \ {p} : pc'[q] = pc[q]
    BY <1>0, <1>6 DEF Writes, Goto, VridTypeOK
  <2>2. \A c \in Clusters : file'[c] = file[c] \/ file'[c] = data[p][c]
    BY <1>0, <2>1, OverlaidTypes DEF VridTypeOK
  <2>3. MalformedCame'
    BY <1>0, <2>1, <2>2 DEF MalformedCame
  <2> QED
    BY <1>0, <2>1, <2>3 DEF EntryInv, PairChosen, RunningPublished
<1>7. ASSUME NEW p \in Pods, Publish(p)
      PROVE  EntryInv'
  <2>1. /\ UNCHANGED <<file, orphans, data, pair>>
        /\ pc[p] = "publish" /\ pc'[p] = "running" /\ \A q \in Pods \ {p} : pc'[q] = pc[q]
        /\ ClusterOf[p] \in Clusters
        /\ published'[ClusterOf[p]] = pair[p]
        /\ \A c \in Clusters \ {ClusterOf[p]} : published'[c] = published[c]
    BY <1>0, <1>7 DEF Publish, Goto, VridTypeOK, Maps
  <2>2. pair[p] \in Pairs \cup {Malformed}
    BY <1>0, <2>1 DEF PairChosen, VridTypeOK, Entries
  <2>3. MalformedCame'
    BY <1>0, <2>1 DEF MalformedCame
  <2>4. RunningPublished'
    BY <1>0, <2>1, <2>2 DEF RunningPublished
  <2> QED
    BY <1>0, <2>1, <2>3, <2>4 DEF EntryInv, PairChosen
<1>8. ASSUME NEW p \in Pods, Die(p)
      PROVE  EntryInv'
  <2>1. /\ UNCHANGED <<file, data, pair, published>>
        /\ pc'[p] = "down" /\ \A q \in Pods \ {p} : pc'[q] = pc[q]
        /\ \A o \in orphans' : o \in orphans \/ o.text = data[p]
    BY <1>0, <1>8 DEF Die, Goto, VridTypeOK
  <2>2. MalformedCame'
    BY <1>0, <2>1 DEF MalformedCame
  <2> QED
    BY <1>0, <2>1, <2>2 DEF EntryInv, PairChosen, RunningPublished
<1>9. ASSUME NEW o \in orphans, Orphaned(o)
      PROVE  EntryInv'
  <2>1. UNCHANGED <<data, pc, pair, published>>
    BY <1>9 DEF Orphaned, OrphanOpens, OrphanWrites, OrphanDies
  <2>2. o.text \in Contents /\ o \in Orphans
    BY <1>0 DEF VridTypeOK, Orphans
  <2>3. [o EXCEPT !.opened = TRUE].text = o.text
    BY <2>2 DEF Orphans
  <2>4. \A k \in orphans' : k \in orphans \/ k.text = o.text
    BY <1>9, <2>3 DEF Orphaned, OrphanOpens, OrphanWrites, OrphanDies
  <2>5. \A c \in Clusters : file'[c] \in {file[c], o.text[c], None}
    <3>1. CASE OrphanOpens(o)
      BY <3>1 DEF OrphanOpens, Empty
    <3>2. CASE OrphanWrites(o)
      BY <1>0, <2>2, <3>2, OverlaidTypes DEF OrphanWrites
    <3>3. CASE OrphanDies(o)
      BY <3>3 DEF OrphanDies
    <3> QED
      BY <1>9, <3>1, <3>2, <3>3 DEF Orphaned
  <2>6. MalformedCame'
    BY <1>0, <2>1, <2>4, <2>5 DEF MalformedCame
  <2> QED
    BY <1>0, <2>1, <2>6 DEF EntryInv, PairChosen, RunningPublished
<1> QED
  BY <1>1, <1>2, <1>3, <1>4, <1>5, <1>6, <1>7, <1>8, <1>9 DEF Next, Step

(* A pod that runs has an entry in its ConfigMap, and one the reconciler   *)
(* refuses only if the file came with it: torn writes, tees left alone and *)
(* starts at the same time make up none.                                   *)
THEOREM RunningPodsHaveEntries == Spec => []RunningHasEntry
<1>1. Init => EntryInv
  BY EntriesAtFirst
<1>2. EntryInv /\ [Next]_vridVars => EntryInv'
  BY EntriesKept
<1>3. EntryInv => RunningHasEntry
  BY VridAssumption DEF VridAssumption, EntryInv, MalformedCame, RunningPublished, HasPublished,
     RunningHasEntry
<1> QED
  BY <1>1, <1>2, <1>3, PTL DEF Spec

-----------------------------------------------------------------------------
(* What starts that come one after the other and whose tees are not cut    *)
(* short maintain.                                                         *)

Ids(e) == {e[1], e[2]}

Disjoint(content) ==
  \A c, d \in Clusters :
    c # d /\ content[c] \in Pairs /\ content[d] \in Pairs =>
      Ids(content[c]) \cap Ids(content[d]) = {}

InitialsDisjoint == \A content \in InitialFiles : Disjoint(content)

(* One pod is between its start and its publication.                       *)
OneStarts == \A p, q \in Pods : Starting(p) /\ Starting(q) => p = q

(* What p writes is the file with the pair of its cluster added.           *)
Replacement ==
  \A p \in Pods : pc[p] \in {"write", "opened"} =>
    /\ pair[p] \in Pairs
    /\ data[p][ClusterOf[p]] = pair[p]
    /\ Disjoint(data[p])
    /\ IF pc[p] = "opened"
       THEN file = Empty
       ELSE /\ file[ClusterOf[p]] = None
            /\ \A c \in Clusters \ {ClusterOf[p]} : data[p][c] = file[c]

(* What p publishes is in the file.                                        *)
Written ==
  \A p \in Pods : pc[p] = "publish" => pair[p] = file[ClusterOf[p]] /\ pair[p] # None

(* A published entry is on the host, in the file or in the hands of the    *)
(* tee that is rewriting it.                                               *)
PublishedIsRecorded ==
  \A c \in Clusters : HasPublished(c) =>
    \/ file[c] = published[c]
    \/ \E p \in Pods : pc[p] = "opened" /\ data[p][c] = published[c]

SafetyOK ==
  /\ orphans = {} /\ OneStarts /\ Disjoint(file)
  /\ Replacement /\ Written /\ PublishedIsRecorded

VridInv == VridTypeOK /\ SafetyOK

(* The inductive invariant: it is so until the first disorder.             *)
OrderInv == VridTypeOK /\ (Orderly => SafetyOK)

LEMMA InitHolds ==
  ASSUME InitialsDisjoint, Init
  PROVE  VridInv
<1> USE PairsAreNoMarks, VridAssumption
<1>1. VridTypeOK
  BY InitTypes
<1>2. orphans = {} /\ OneStarts /\ Disjoint(file) /\ Replacement /\ Written
  BY DEF InitialsDisjoint, Init, OneStarts, Starting, Replacement, Written
<1>3. PublishedIsRecorded
  BY DEF Init, PublishedIsRecorded, HasPublished
<1> QED
  BY <1>1, <1>2, <1>3 DEF VridInv, SafetyOK

-----------------------------------------------------------------------------
(* One lemma for each kind of step, for everything but the types.          *)

(* A pod starts, or goes down; its tee is not at work.                     *)
LEMMA StopsAndStarts ==
  ASSUME VridInv, Orderly', NEW p \in Pods,
         Start(p) \/ Die(p) \/ FetchExhausted(p) \/ PublishPanics(p)
  PROVE  SafetyOK'
<1>1. UNCHANGED <<file, orphans, data, pair, published>> /\ pc[p] # "opened"
  BY DEF Start, Die, FetchExhausted, PublishPanics, Orderly
<1>2. /\ \A q \in Pods \ {p} : pc'[q] = pc[q]
      /\ \/ pc'[p] = "down"
         \/ pc'[p] = "fetch" /\ \A q \in Pods : ~Starting(q)
  BY DEF Start, Die, FetchExhausted, PublishPanics, Goto, VridInv, VridTypeOK, Starting, Orderly
<1>3. OneStarts'
  BY <1>2 DEF VridInv, SafetyOK, OneStarts, Starting
<1>4. \A q \in Pods :
        /\ pc'[q] \in {"write", "opened", "publish"} => pc'[q] = pc[q]
        /\ pc[q] = "opened" => pc'[q] = "opened"
  BY <1>1, <1>2
<1>5. orphans' = {} /\ Disjoint(file)' /\ PublishedIsRecorded'
  BY <1>1, <1>4 DEF VridInv, SafetyOK, Disjoint, PublishedIsRecorded, HasPublished
<1>6. Replacement' /\ Written'
  BY <1>1, <1>4 DEF VridInv, SafetyOK, Replacement, Written, Disjoint
<1> QED
  BY <1>3, <1>5, <1>6 DEF SafetyOK

(* A pod that is between its start and its publication is the only one.    *)
LEMMA Alone ==
  ASSUME VridInv, NEW p \in Pods, Starting(p)
  PROVE  /\ \A q \in Pods \ {p} : pc[q] \in {"down", "running"}
         /\ pc[p] # "opened" => \A c \in Clusters : HasPublished(c) => file[c] = published[c]
<1>1. \A q \in Pods \ {p} : pc[q] \in {"down", "running"}
  BY DEF VridInv, SafetyOK, OneStarts, Starting
<1> QED
  BY <1>1 DEF VridInv, SafetyOK, PublishedIsRecorded

(* A pair that is added shares no identifier with those that are there.    *)
LEMMA Chooses ==
  ASSUME VridInv, NEW p \in Pods, FetchEmpty(p) \/ FetchOthers(p)
  PROVE  /\ pc[p] = "fetch" /\ file[ClusterOf[p]] = None
         /\ UNCHANGED <<file, orphans, published>>
         /\ pc' = [pc EXCEPT ![p] = "write"]
         /\ \E e \in Pairs :
              /\ pair' = [pair EXCEPT ![p] = e]
              /\ data' = [data EXCEPT ![p] = [file EXCEPT ![ClusterOf[p]] = e]]
              /\ \A c \in Clusters : file[c] \in Pairs => Ids(file[c]) \cap Ids(e) = {}
<1> USE PairsAreNoMarks, VridAssumption DEF VridAssumption
<1>1. CASE FetchEmpty(p)
  BY <1>1 DEF FetchEmpty, Goto, Empty
<1>2. CASE FetchOthers(p)
  <2>1. PICK i \in 1 .. MaxVRID - 1 :
          /\ FindUnused(file, i)
          /\ pair' = [pair EXCEPT ![p] = <<i, i + 1>>]
          /\ data' = [data EXCEPT ![p] = [file EXCEPT ![ClusterOf[p]] = <<i, i + 1>>]]
    BY <1>2 DEF FetchOthers, FindUnused, Candidates
  <2>2. {i, i + 1} \cap Allocated(file) = {}
    BY <2>1 DEF FindUnused, Candidates
  <2>3. \A c \in Clusters : file[c] \in Pairs => Ids(file[c]) \subseteq Allocated(file)
    BY DEF Ids, Allocated, Pairs
  <2>4. Ids(<<i, i + 1>>) = {i, i + 1}
    BY DEF Ids
  <2>5. \A c \in Clusters : file[c] \in Pairs => Ids(file[c]) \cap Ids(<<i, i + 1>>) = {}
    BY <2>2, <2>3, <2>4
  <2> QED
    BY <1>2, <2>1, <2>5 DEF FetchOthers, Goto
<1> QED
  BY <1>1, <1>2

LEMMA ChoiceKeeps ==
  ASSUME VridInv, NEW p \in Pods, FetchEmpty(p) \/ FetchOthers(p)
  PROVE  SafetyOK'
<1>1. PICK e \in Pairs :
        /\ pair' = [pair EXCEPT ![p] = e]
        /\ data' = [data EXCEPT ![p] = [file EXCEPT ![ClusterOf[p]] = e]]
        /\ \A c \in Clusters : file[c] \in Pairs => Ids(file[c]) \cap Ids(e) = {}
  BY Chooses
<1>2. /\ pc[p] = "fetch" /\ file[ClusterOf[p]] = None
      /\ UNCHANGED <<file, orphans, published>>
      /\ pc' = [pc EXCEPT ![p] = "write"]
  BY Chooses
<1>3. /\ \A q \in Pods \ {p} : pc[q] \in {"down", "running"}
      /\ \A c \in Clusters : HasPublished(c) => file[c] = published[c]
  BY <1>2, Alone DEF Starting
<1>4. /\ pc'[p] = "write" /\ \A q \in Pods \ {p} : pc'[q] \in {"down", "running"}
      /\ pair'[p] = e
      /\ data'[p] = [file EXCEPT ![ClusterOf[p]] = e] /\ data'[p][ClusterOf[p]] = e
      /\ \A c \in Clusters \ {ClusterOf[p]} : data'[p][c] = file[c]
      /\ ClusterOf[p] \in Clusters
  BY <1>1, <1>2, <1>3, VridAssumption DEF VridAssumption, VridInv, VridTypeOK, Contents
<1>5. orphans' = {} /\ OneStarts' /\ Disjoint(file)' /\ PublishedIsRecorded'
  BY <1>2, <1>3, <1>4 DEF VridInv, SafetyOK, OneStarts, Starting, Disjoint, PublishedIsRecorded,
     HasPublished
<1>6. Disjoint(data'[p])
  BY <1>1, <1>4 DEF VridInv, SafetyOK, Disjoint
<1>7. Replacement'
  <2>1. /\ pair'[p] \in Pairs /\ data'[p][ClusterOf[p]] = pair'[p]
        /\ pc'[p] # "opened" /\ file'[ClusterOf[p]] = None
        /\ \A c \in Clusters \ {ClusterOf[p]} : data'[p][c] = file'[c]
    BY <1>2, <1>4
  <2> QED
    BY <1>4, <1>6, <2>1 DEF Replacement, Disjoint
<1>8. Written'
  BY <1>4 DEF Written
<1> QED
  BY <1>5, <1>7, <1>8 DEF SafetyOK

LEMMA OwnKeeps ==
  ASSUME VridInv, NEW p \in Pods, FetchOwn(p)
  PROVE  SafetyOK'
<1>1. /\ UNCHANGED <<file, orphans, data, published>>
      /\ pc[p] = "fetch" /\ file[ClusterOf[p]] # None
      /\ pc'[p] = "publish" /\ \A q \in Pods \ {p} : pc'[q] = pc[q]
      /\ pair'[p] = file[ClusterOf[p]]
  BY DEF FetchOwn, Goto, VridInv, VridTypeOK
<1>2. /\ \A q \in Pods \ {p} : pc[q] \in {"down", "running"}
      /\ \A c \in Clusters : HasPublished(c) => file[c] = published[c]
  BY <1>1, Alone DEF Starting
<1>3. orphans' = {} /\ OneStarts' /\ Disjoint(file)' /\ PublishedIsRecorded'
  BY <1>1, <1>2 DEF VridInv, SafetyOK, OneStarts, Starting, Disjoint, PublishedIsRecorded,
     HasPublished
<1>4. Replacement' /\ Written'
  BY <1>1, <1>2 DEF Replacement, Written
<1> QED
  BY <1>3, <1>4 DEF SafetyOK

LEMMA OpensKeeps ==
  ASSUME VridInv, NEW p \in Pods, Opens(p)
  PROVE  SafetyOK'
<1>1. /\ UNCHANGED <<orphans, data, pair, published>>
      /\ pc[p] = "write" /\ file' = Empty
      /\ pc'[p] = "opened" /\ \A q \in Pods \ {p} : pc'[q] = pc[q]
  BY DEF Opens, Goto, VridInv, VridTypeOK
<1>2. /\ \A q \in Pods \ {p} : pc[q] \in {"down", "running"}
      /\ \A c \in Clusters : HasPublished(c) => file[c] = published[c]
  BY <1>1, Alone DEF Starting
<1>3. orphans' = {} /\ OneStarts' /\ Disjoint(file)'
  BY <1>1, <1>2, PairsAreNoMarks DEF VridInv, SafetyOK, OneStarts, Starting, Disjoint, Empty
<1>4. /\ file[ClusterOf[p]] = None
      /\ \A c \in Clusters \ {ClusterOf[p]} : data[p][c] = file[c]
      /\ Disjoint(data[p]) /\ pair[p] \in Pairs /\ data[p][ClusterOf[p]] = pair[p]
  BY <1>1 DEF VridInv, SafetyOK, Replacement
<1>5. PublishedIsRecorded'
  <2>1. ASSUME NEW c \in Clusters, HasPublished(c)
        PROVE  data[p][c] = published[c]
    BY <1>2, <1>4, <2>1, PairsAreNoMarks DEF HasPublished
  <2> QED
    BY <1>1, <2>1 DEF PublishedIsRecorded, HasPublished
<1>6. Replacement' /\ Written'
  BY <1>1, <1>2, <1>4 DEF Replacement, Written, Disjoint
<1> QED
  BY <1>3, <1>5, <1>6 DEF SafetyOK

(* Nobody wrote since the file was truncated, so nothing else survives.    *)
LEMMA WritesText ==
  ASSUME VridInv, NEW p \in Pods, Writes(p)
  PROVE  /\ UNCHANGED <<orphans, data, pair, published>>
         /\ pc[p] = "opened" /\ file' = data[p]
         /\ pc'[p] = "publish" /\ \A q \in Pods \ {p} : pc'[q] = pc[q]
<1>1. /\ UNCHANGED <<orphans, data, pair, published>>
      /\ pc[p] = "opened" /\ file' \in Overlaid(data[p])
      /\ pc'[p] = "publish" /\ \A q \in Pods \ {p} : pc'[q] = pc[q]
  BY DEF Writes, Goto, VridInv, VridTypeOK
<1>2. file = Empty /\ data[p] \in [Clusters -> Entries]
  BY <1>1 DEF VridInv, SafetyOK, Replacement, VridTypeOK, Contents
<1>3. file' = [c \in Clusters |-> data[p][c]]
  BY <1>1, <1>2 DEF Overlaid, Empty
<1> QED
  BY <1>1, <1>2, <1>3

LEMMA WritesKeeps ==
  ASSUME VridInv, NEW p \in Pods, Writes(p)
  PROVE  SafetyOK'
<1>1. /\ UNCHANGED <<orphans, data, pair, published>>
      /\ pc[p] = "opened" /\ file' = data[p]
      /\ pc'[p] = "publish" /\ \A q \in Pods \ {p} : pc'[q] = pc[q]
  BY WritesText
<1>2. \A q \in Pods \ {p} : pc[q] \in {"down", "running"}
  BY <1>1, Alone DEF Starting
<1>3. /\ file = Empty
      /\ Disjoint(data[p]) /\ pair[p] \in Pairs /\ data[p][ClusterOf[p]] = pair[p]
  BY <1>1 DEF VridInv, SafetyOK, Replacement
<1>4. orphans' = {} /\ OneStarts' /\ Disjoint(file)'
  BY <1>1, <1>2, <1>3 DEF VridInv, SafetyOK, OneStarts, Starting, Disjoint
<1>5. PublishedIsRecorded'
  <2>1. ASSUME NEW c \in Clusters, HasPublished(c)
        PROVE  data[p][c] = published[c]
    <3>1. file[c] # published[c]
      BY <1>3, <2>1, PairsAreNoMarks DEF Empty, HasPublished
    <3> QED
      BY <1>2, <2>1, <3>1 DEF VridInv, SafetyOK, PublishedIsRecorded
  <2> QED
    BY <1>1, <2>1 DEF PublishedIsRecorded, HasPublished
<1>6. Replacement' /\ Written'
  BY <1>1, <1>2, <1>3, PairsAreNoMarks DEF Replacement, Written
<1> QED
  BY <1>4, <1>5, <1>6 DEF SafetyOK

(* What a pod publishes its cluster has published before, if anything.     *)
LEMMA PublishesAgain ==
  ASSUME VridInv, NEW p \in Pods, Publish(p)
  PROVE  /\ pc[p] = "publish"
         /\ UNCHANGED <<file, orphans, data, pair>>
         /\ pc'[p] = "running" /\ \A q \in Pods \ {p} : pc'[q] = pc[q]
         /\ published'[ClusterOf[p]] = file[ClusterOf[p]]
         /\ \A c \in Clusters \ {ClusterOf[p]} : published'[c] = published[c]
         /\ HasPublished(ClusterOf[p]) => published' = published
         /\ \A c \in Clusters : HasPublished(c) => file[c] = published[c]
<1>1. /\ pc[p] = "publish" /\ UNCHANGED <<file, orphans, data, pair>>
      /\ pc'[p] = "running" /\ \A q \in Pods \ {p} : pc'[q] = pc[q]
      /\ published' = [published EXCEPT ![ClusterOf[p]] = pair[p]]
  BY DEF Publish, Goto, VridInv, VridTypeOK
<1>2. pair[p] = file[ClusterOf[p]]
  BY <1>1 DEF VridInv, SafetyOK, Written
<1>3. \A c \in Clusters : HasPublished(c) => file[c] = published[c]
  BY <1>1, Alone DEF Starting
<1>4. ClusterOf[p] \in Clusters /\ published \in [Clusters -> Entries \cup {NoData}]
  BY VridAssumption DEF VridAssumption, VridInv, VridTypeOK, Maps
<1> QED
  BY <1>1, <1>2, <1>3, <1>4

LEMMA PublishKeeps ==
  ASSUME VridInv, NEW p \in Pods, Publish(p)
  PROVE  SafetyOK'
<1>1. /\ UNCHANGED <<file, orphans, data, pair>>
      /\ pc[p] = "publish"
      /\ pc'[p] = "running" /\ \A q \in Pods \ {p} : pc'[q] = pc[q]
  BY PublishesAgain
<1>2. \A q \in Pods \ {p} : pc[q] \in {"down", "running"}
  BY <1>1, Alone DEF Starting
<1>3. orphans' = {} /\ OneStarts' /\ Disjoint(file)'
  BY <1>1, <1>2 DEF VridInv, SafetyOK, OneStarts, Starting, Disjoint
<1>4. PublishedIsRecorded'
  BY <1>1, PublishesAgain DEF PublishedIsRecorded, HasPublished
<1>5. Replacement' /\ Written'
  BY <1>1, <1>2 DEF Replacement, Written
<1> QED
  BY <1>3, <1>4, <1>5 DEF SafetyOK

-----------------------------------------------------------------------------
(* The theorems.                                                           *)

(* Disorder stays.                                                         *)
LEMMA DisorderStays ==
  ASSUME [Next]_vridVars, Orderly'
  PROVE  Orderly
<1>1. disorder \subseteq disorder'
  BY DEF Next, vridVars, Start, Step, Die, FetchEmpty, FetchOthers, FetchExhausted, FetchOwn,
     Opens, Writes, Publish, PublishPanics, Orphaned, OrphanOpens, OrphanWrites, OrphanDies
<1> QED
  BY <1>1 DEF Orderly

(* A step after which there was no disorder yet is one of a pod.           *)
LEMMA OrderlySteps ==
  ASSUME OrderInv, [Next]_vridVars, Orderly'
  PROVE  /\ VridInv
         /\ \/ UNCHANGED vridVars
            \/ \E p \in Pods : Start(p) \/ Step(p) \/ Die(p)
<1>1. VridInv
  BY DisorderStays DEF OrderInv, VridInv
<1>2. orphans = {}
  BY <1>1 DEF VridInv, SafetyOK
<1> QED
  BY <1>1, <1>2 DEF Next

LEMMA StepKeeps ==
  ASSUME OrderInv, [Next]_vridVars
  PROVE  OrderInv'
<1>1. VridTypeOK'
  BY TypeKept DEF OrderInv
<1>2. ASSUME Orderly'
      PROVE  SafetyOK'
  <2>1. VridInv
    BY <1>2, OrderlySteps
  <2>2. CASE UNCHANGED vridVars
    <3>1. UNCHANGED <<file, orphans, data, pc, pair, published>>
      BY <2>2 DEF vridVars
    <3> QED
      BY <2>1, <3>1 DEF VridInv, SafetyOK, OneStarts, Starting, Disjoint, Replacement, Written,
         PublishedIsRecorded, HasPublished
  <2>3. ASSUME NEW p \in Pods, Start(p) \/ Step(p) \/ Die(p)
        PROVE  SafetyOK'
    BY <1>2, <2>1, <2>3, StopsAndStarts, ChoiceKeeps, OwnKeeps, OpensKeeps, WritesKeeps,
       PublishKeeps DEF Step
  <2> QED
    BY <1>2, <2>2, <2>3, OrderlySteps
<1> QED
  BY <1>1, <1>2 DEF OrderInv

LEMMA OrderInvInvariant ==
  ASSUME InitialsDisjoint
  PROVE  Spec => []OrderInv
<1>1. Init => OrderInv
  BY InitHolds DEF OrderInv, VridInv
<1>2. OrderInv /\ [Next]_vridVars => OrderInv'
  BY StepKeeps
<1> QED
  BY <1>1, <1>2, PTL DEF Spec

(* As long as pods start one after the other and no tee is cut short, and  *)
(* if the file was in order, no two clusters have an identifier in common: *)
(* neither two that published, nor one that did and one in the file.       *)
THEOREM OrderlyStartsAreExclusive ==
  ASSUME InitialsDisjoint
  PROVE  Spec => []VRIDsExclusive
<1>1. ASSUME VridInv
      PROVE  Exclusive
  <2>1. SUFFICES ASSUME NEW c \in Clusters, NEW d \in Clusters, c # d,
                        NEW taken \in {published[d], file[d]},
                        published[c] \in Pairs, taken \in Pairs
                 PROVE  Ids(published[c]) \cap Ids(taken) = {}
    BY DEF Exclusive, Ids
  <2>2. CASE \E p \in Pods : pc[p] = "opened"
    <3>1. PICK p \in Pods : pc[p] = "opened"
      BY <2>2
    <3>2. /\ \A q \in Pods \ {p} : pc[q] \in {"down", "running"}
          /\ file = Empty /\ Disjoint(data[p])
      BY <1>1, <3>1, Alone DEF Starting, VridInv, SafetyOK, Replacement
    <3>3. /\ \A e \in Clusters : file[e] \notin Pairs
          /\ \A e \in Clusters : published[e] \in Pairs => data[p][e] = published[e]
      BY <1>1, <3>2, PairsAreNoMarks DEF VridInv, SafetyOK, PublishedIsRecorded, HasPublished, Empty
    <3> QED
      BY <2>1, <3>2, <3>3 DEF Disjoint
  <2>3. CASE \A p \in Pods : pc[p] # "opened"
    <3>1. \A e \in Clusters : published[e] \in Pairs => file[e] = published[e]
      BY <1>1, <2>3 DEF VridInv, SafetyOK, PublishedIsRecorded, HasPublished
    <3> QED
      BY <1>1, <2>1, <3>1 DEF VridInv, SafetyOK, Disjoint
  <2> QED
    BY <2>2, <2>3
<1>2. OrderInv => VRIDsExclusive
  BY <1>1 DEF OrderInv, VridInv, VRIDsExclusive
<1> QED
  BY <1>2, OrderInvInvariant, PTL

(* ... and a published entry stays what it is through every restart.       *)
THEOREM OrderlyStartsAreStable ==
  ASSUME InitialsDisjoint
  PROVE  Spec => VRIDsStable
<1>1. ASSUME OrderInv, [Next]_vridVars, Orderly', NEW c \in Clusters, HasPublished(c)
      PROVE  published'[c] = published[c]
  <2>1. VridInv
    BY <1>1, OrderlySteps
  <2>2. CASE UNCHANGED vridVars
    BY <2>2 DEF vridVars
  <2>3. ASSUME NEW p \in Pods, Publish(p)
        PROVE  published'[c] = published[c]
    BY <1>1, <2>1, <2>3, PublishesAgain
  <2>4. ASSUME NEW p \in Pods, ~Publish(p), Start(p) \/ Step(p) \/ Die(p)
        PROVE  published' = published
    BY <2>4 DEF Start, Step, Die, FetchEmpty, FetchOthers, FetchExhausted, FetchOwn, Opens,
       Writes, PublishPanics
  <2> QED
    BY <1>1, <2>2, <2>3, <2>4, OrderlySteps
<1>2. OrderInv /\ [Next]_vridVars =>
        [Orderly' => \A c \in Clusters : HasPublished(c) => published'[c] = published[c]]_vridVars
  BY <1>1
<1> QED
  BY <1>2, OrderInvInvariant, PTL DEF Spec, VRIDsStable

-----------------------------------------------------------------------------
(* The registry.                                                           *)

(* One tee at most has truncated the file.                                 *)
LEMMA WhatIsRecorded ==
  ASSUME VridInv
  PROVE  /\ \A p \in Pods : pc[p] = "opened" => Recorded = data[p]
         /\ (\A p \in Pods : pc[p] # "opened") => Recorded = file
<1>1. ASSUME NEW p \in Pods, pc[p] = "opened"
      PROVE  Recorded = data[p]
  <2> DEFINE o == CHOOSE q \in Pods : pc[q] = "opened"
  <2>1. o \in Pods /\ pc[o] = "opened"
    BY <1>1
  <2>2. o = p
    BY <1>1, <2>1 DEF VridInv, SafetyOK, OneStarts, Starting
  <2> QED
    BY <1>1, <2>2 DEF Recorded
<1> QED
  BY <1>1 DEF Recorded

(* The tee that takes the file reserves the pair of its cluster.           *)
LEMMA TruncationReserves ==
  ASSUME VridInv, SafetyOK', NEW p \in Pods, Opens(p)
  PROVE  Registry!Reserve(ClusterOf[p])
<1> DEFINE own == ClusterOf[p]
<1>1. /\ UNCHANGED <<data, pair, published>>
      /\ pc[p] = "write" /\ pc'[p] = "opened"
  BY DEF Opens, Goto, VridInv, VridTypeOK
<1>2. \A q \in Pods : pc[q] # "opened"
  BY <1>1, Alone DEF Starting
<1>3. Recorded = file
  BY <1>2 DEF Recorded
<1>4. Recorded' = data[p]
  <2> DEFINE o == CHOOSE q \in Pods : pc'[q] = "opened"
  <2>1. o \in Pods /\ pc'[o] = "opened"
    BY <1>1
  <2>2. o = p
    BY <1>1, <2>1 DEF VridInv, SafetyOK, OneStarts, Starting
  <2> QED
    BY <1>1, <2>2 DEF Recorded
<1>5. /\ own \in Clusters /\ file[own] = None
      /\ \A c \in Clusters \ {own} : data[p][c] = file[c]
      /\ Disjoint(data[p]) /\ pair[p] \in Pairs /\ data[p][own] = pair[p]
  BY <1>1, VridAssumption DEF VridAssumption, VridInv, SafetyOK, Replacement
<1>6. file \in [Clusters -> Entries] /\ data[p] \in [Clusters -> Entries]
  BY DEF VridInv, VridTypeOK, Contents
<1>7. data[p] = [file EXCEPT ![own] = pair[p]]
  BY <1>5, <1>6
<1>8. Registry!Free(own, pair[p])
  BY <1>3, <1>5 DEF Registry!Free, Disjoint, Ids
<1> QED
  BY <1>1, <1>3, <1>4, <1>5, <1>7, <1>8 DEF Registry!Reserve

(* A write that arrives changes nothing: the text was taken for the file.  *)
LEMMA WriteChangesNoEntry ==
  ASSUME VridInv, NEW p \in Pods, Writes(p)
  PROVE  UNCHANGED <<Recorded, published>>
<1>1. /\ UNCHANGED <<data, published>> /\ file' = data[p]
      /\ pc[p] = "opened"
      /\ pc'[p] = "publish" /\ \A q \in Pods \ {p} : pc'[q] = pc[q]
  BY WritesText
<1>2. \A q \in Pods : pc'[q] # "opened"
  BY <1>1, Alone DEF Starting
<1>3. Recorded = data[p]
  BY <1>1, WhatIsRecorded
<1>4. Recorded' = file'
  BY <1>2 DEF Recorded
<1> QED
  BY <1>1, <1>3, <1>4

(* A pod publishes what its cluster has reserved.                          *)
LEMMA PublicationShows ==
  ASSUME VridInv, NEW p \in Pods, Publish(p)
  PROVE  Registry!Show(ClusterOf[p])
<1>1. /\ pc[p] = "publish" /\ file' = file
      /\ pc'[p] = "running" /\ \A q \in Pods \ {p} : pc'[q] = pc[q]
  BY PublishesAgain
<1>2. \A q \in Pods : pc[q] # "opened" /\ pc'[q] # "opened"
  BY <1>1, Alone DEF Starting
<1>3. Recorded = file /\ Recorded' = file
  BY <1>1, <1>2 DEF Recorded
<1>4. pair[p] = file[ClusterOf[p]] /\ pair[p] # None
  BY <1>1 DEF VridInv, SafetyOK, Written
<1> QED
  BY <1>3, <1>4 DEF Registry!Show, Publish

(* Whatever else a pod does, what is recorded stays.                       *)
LEMMA RestRecordsNothing ==
  ASSUME VridInv, Orderly', NEW p \in Pods,
         \/ Start(p) \/ Die(p) \/ FetchEmpty(p) \/ FetchOthers(p) \/ FetchExhausted(p)
         \/ FetchOwn(p) \/ PublishPanics(p)
  PROVE  UNCHANGED <<Recorded, published>>
<1>1. UNCHANGED <<file, published>> /\ pc[p] # "opened" /\ pc'[p] # "opened"
  BY DEF Start, Die, FetchEmpty, FetchOthers, FetchExhausted, FetchOwn, PublishPanics, Goto,
     Orderly, VridInv, VridTypeOK
<1>2. \A q \in Pods \ {p} : pc'[q] = pc[q] /\ data'[q] = data[q]
  BY DEF Start, Die, FetchEmpty, FetchOthers, FetchExhausted, FetchOwn, PublishPanics, Goto,
     VridInv, VridTypeOK
<1>3. CASE \A q \in Pods : pc[q] # "opened"
  <2>1. \A q \in Pods : pc'[q] # "opened"
    BY <1>1, <1>2, <1>3
  <2> QED
    BY <1>1, <1>3, <2>1 DEF Recorded
<1>4. CASE \E q \in Pods : pc[q] = "opened"
  <2>1. PICK q \in Pods : pc[q] = "opened"
    BY <1>4
  <2>2. q # p /\ pc'[q] = "opened" /\ data'[q] = data[q]
    BY <1>1, <1>2, <2>1
  <2>3. \A r \in Pods : pc'[r] = "opened" => r = q
    BY <1>1, <1>2, <2>1 DEF VridInv, SafetyOK, OneStarts, Starting
  <2> DEFINE o == CHOOSE r \in Pods : pc'[r] = "opened"
  <2>4. o \in Pods /\ pc'[o] = "opened"
    BY <2>2
  <2>5. o = q
    BY <2>3, <2>4
  <2>6. Recorded = data[q]
    BY <2>1, WhatIsRecorded
  <2>7. Recorded' = data'[q]
    BY <2>2, <2>5 DEF Recorded
  <2> QED
    BY <1>1, <2>2, <2>6, <2>7
<1> QED
  BY <1>3, <1>4

(* Every step before the first disorder is a reservation, a publication or *)
(* none.                                                                   *)
LEMMA StepsOfTheRegistry ==
  ASSUME OrderInv, OrderInv', [Next]_vridVars, Orderly'
  PROVE  [Registry!Next]_(Registry!registryVars)
<1>0. VridInv /\ SafetyOK'
  BY OrderlySteps DEF OrderInv
<1>1. CASE UNCHANGED vridVars
  BY <1>1 DEF vridVars, Registry!registryVars, Recorded
<1>2. ASSUME NEW p \in Pods, Start(p) \/ Step(p) \/ Die(p)
      PROVE  [Registry!Next]_(Registry!registryVars)
  <2>1. ClusterOf[p] \in Clusters
    BY VridAssumption DEF VridAssumption
  <2>2. CASE Opens(p)
    BY <1>0, <2>1, <2>2, TruncationReserves DEF Registry!Next
  <2>3. CASE Publish(p)
    BY <1>0, <2>1, <2>3, PublicationShows DEF Registry!Next
  <2>4. CASE Writes(p)
    BY <1>0, <2>4, WriteChangesNoEntry DEF Registry!registryVars
  <2>5. CASE ~(Opens(p) \/ Publish(p) \/ Writes(p))
    BY <1>0, <1>2, <2>5, RestRecordsNothing DEF Step, Registry!registryVars
  <2> QED
    BY <2>2, <2>3, <2>4, <2>5
<1> QED
  BY <1>1, <1>2, OrderlySteps

(* ImplementsRegistry: as long as pods start one after the other and no    *)
(* tee is cut short, and if the file was in order, the file, the tees and  *)
(* the pods of any number of clusters are, to those who read the           *)
(* ConfigMaps, a registry that gives each cluster a pair of its own once   *)
(* and for all, whatever dies in between.                                  *)
THEOREM OrderlyStartsImplementRegistry ==
  ASSUME InitialsDisjoint
  PROVE  Spec => ImplementsRegistry
<1>1. Init => Registry!Init
  BY DEF Init, Registry!Init, Recorded
<1>2. OrderInv /\ OrderInv' /\ [Next]_vridVars
      => [Orderly' => [Registry!Next]_(Registry!registryVars)]_vridVars
  BY StepsOfTheRegistry
<1> QED
  BY <1>1, <1>2, OrderInvInvariant, PTL DEF Spec, ImplementsRegistry
=============================================================================
