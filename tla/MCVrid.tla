------------------------------- MODULE MCVrid -------------------------------
(***************************************************************************)
(* Small instances of VridStartup.                                         *)
(***************************************************************************)
EXTENDS VridStartup, TLC

CONSTANTS c1, c2, c3, p1, p2

(* One pod of each of two clusters.                                        *)
TwoPods == p1 :> c1 @@ p2 :> c2

(* The file may be missing, or hold what an administrator wrote: for c3 a  *)
(* pair across two candidates, or nonsense for c3 or c1.  With MaxVRID = 7 *)
(* the pair leaves a single one to the two clusters.                       *)
SomeFiles ==
  {Empty, [Empty EXCEPT ![c3] = <<2, 3>>],
   [Empty EXCEPT ![c3] = Malformed], [Empty EXCEPT ![c1] = Malformed]}
OldFile == {[Empty EXCEPT ![c3] = <<1, 2>>]}

(* The ConfigMap of c1 may have been made without data.                    *)
SomeMaps == {Empty, [Empty EXCEPT ![c1] = NoData]}
NoMap == {Empty}
=============================================================================
