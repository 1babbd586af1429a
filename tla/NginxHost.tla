------------------------------ MODULE NginxHost ------------------------------
(***************************************************************************)
(* The external NGINX server, as the operator drives it over SSH: the      *)
(* per-Service files in /etc/nginx/conf.d and the configuration nginx runs *)
(* with, the primary and secondary Keepalived files of the cluster and the *)
(* addresses the running keepalived announces.  Other clusters have their  *)
(* files on the same host, and their operators reload and restart it too.  *)
(*                                                                         *)
(* Every remote command has three outcomes.  "ok": it ran and the caller   *)
(* knows.  "lost": it did not run and the caller gets an error.            *)
(* "unconfirmed": it ran, and the caller gets an error all the same (the   *)
(* session broke before the exit status came back).                        *)
(***************************************************************************)
EXTENDS LbTypes, FiniteSets

CONSTANTS
  SharedHost,    \* TRUE: operators of other clusters use the host
  MaxFaults      \* bound: remote calls and API writes that return an error

ASSUME HostAssumption == SharedHost \in BOOLEAN /\ MaxFaults \in Nat

VARIABLES
  nginxFile,     \* files in conf.d
  nginxRun,      \* the files as they were at the last reload
  kaPrimary,     \* groups of addresses in <cluster>_keepalived.conf
  kaSecondary,   \* groups of addresses in <cluster>_keepalived.conf.secondary
  kaRun,         \* groups of addresses of the running keepalived
  faults         \* errors so far

hostVars == <<nginxFile, nginxRun, kaPrimary, kaSecondary, kaRun>>

Outcomes == {"ok", "lost", "unconfirmed"}

(* The two VRRP instances of a file.  In the primary file the first is     *)
(* MASTER and the second BACKUP, in the secondary file the other way.      *)
Groups == [g1 : SUBSET IPs, g2 : SUBSET IPs]

NoGroups == [g1 |-> {}, g2 |-> {}]

Announced(groups) == groups.g1 \cup groups.g2

(* The index of address i in the sorted list of vips.                      *)
Position(vips, i) == Cardinality({j \in vips : j < i})

(* distributeIPsIntoGroups deals the sorted addresses out in turn.         *)
GroupsOf(vips) ==
  [g1 |-> {i \in vips : Position(vips, i) % 2 = 0},
   g2 |-> {i \in vips : Position(vips, i) % 2 = 1}]

(* What a call with outcome o leaves: the old value if it never ran.       *)
Result(o, old, new) == IF o = "lost" THEN old ELSE new

(* The caller's share of an outcome other than "ok" is bounded.            *)
Faulty(o) ==
  /\ o # "ok"
  /\ faults < MaxFaults
  /\ faults' = faults + 1

HostTypeOK ==
  /\ nginxFile \in [Paths -> Conf \cup {None}]
  /\ nginxRun \in [Paths -> Conf \cup {None}]
  /\ kaPrimary \in Groups
  /\ kaSecondary \in Groups
  /\ kaRun \in Groups
  /\ faults \in 0 .. MaxFaults

HostInit ==
  /\ nginxFile = [p \in Paths |-> None]
  /\ nginxRun = [p \in Paths |-> None]
  /\ kaPrimary = NoGroups /\ kaSecondary = NoGroups /\ kaRun = NoGroups
  /\ faults = 0

(* CopyFileToNGINXServer is two steps of the host: "echo | sudo tee" opens  *)
(* the file, which empties it, and then writes it.  A neighbour may reload *)
(* or restart in between, and a tee that loses its session (it copies what *)
(* it writes to it) may die in between.  An empty file of nginx is like    *)
(* none, an empty file of keepalived has no addresses.                     *)
OpenNginxFile(o, p) ==
  /\ nginxFile' = Result(o, nginxFile, [nginxFile EXCEPT ![p] = None])
  /\ UNCHANGED <<nginxRun, kaPrimary, kaSecondary, kaRun>>

WriteNginxFile(o, p, c) ==
  /\ nginxFile' = Result(o, nginxFile, [nginxFile EXCEPT ![p] = c])
  /\ UNCHANGED <<nginxRun, kaPrimary, kaSecondary, kaRun>>

(* RemoveFileFromNGINXServer: a file that is not there is removed already. *)
RemoveNginxFile(o, p) ==
  /\ nginxFile' = Result(o, nginxFile, [nginxFile EXCEPT ![p] = None])
  /\ UNCHANGED <<nginxRun, kaPrimary, kaSecondary, kaRun>>

(* nginx refuses the whole configuration when one file has an upstream     *)
(* without servers or with port 0.  Whether it takes two files that listen *)
(* on one address depends on their ports and on its version.               *)
Loadable ==
  \A p \in Paths : nginxFile[p] # None => nginxFile[p].port /\ nginxFile[p].nodes # {}

Clash ==
  \E p, q \in Paths :
    p # q /\ nginxFile[p] # None /\ nginxFile[q] # None /\ nginxFile[p].ip = nginxFile[q].ip

(* "nginx -s reload" parses the files before it signals the running nginx: *)
(* it fails, and changes nothing, when they are refused.                   *)
ReloadRefused == (~Loadable \/ Clash) /\ UNCHANGED hostVars

ReloadNGINX(o) ==
  /\ Loadable
  /\ nginxRun' = Result(o, nginxRun, nginxFile)
  /\ UNCHANGED <<nginxFile, kaPrimary, kaSecondary, kaRun>>

OpenPrimaryFile(o) ==
  /\ kaPrimary' = Result(o, kaPrimary, NoGroups)
  /\ UNCHANGED <<nginxFile, nginxRun, kaSecondary, kaRun>>

WritePrimaryFile(o, vips) ==
  /\ kaPrimary' = Result(o, kaPrimary, GroupsOf(vips))
  /\ UNCHANGED <<nginxFile, nginxRun, kaSecondary, kaRun>>

OpenSecondaryFile(o) ==
  /\ kaSecondary' = Result(o, kaSecondary, NoGroups)
  /\ UNCHANGED <<nginxFile, nginxRun, kaPrimary, kaRun>>

WriteSecondaryFile(o, vips) ==
  /\ kaSecondary' = Result(o, kaSecondary, GroupsOf(vips))
  /\ UNCHANGED <<nginxFile, nginxRun, kaPrimary, kaRun>>

RestartKeepalived(o) ==
  /\ kaRun' = Result(o, kaRun, kaPrimary)
  /\ UNCHANGED <<nginxFile, nginxRun, kaPrimary, kaSecondary>>

(* The operator of another cluster reloads nginx, which picks up every     *)
(* file of conf.d, or restarts keepalived, whenever it likes.              *)
NeighbourReloads == SharedHost /\ ReloadNGINX("ok")

NeighbourRestarts == SharedHost /\ RestartKeepalived("ok")
=============================================================================
