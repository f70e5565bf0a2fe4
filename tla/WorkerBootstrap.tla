--------------------------- MODULE WorkerBootstrap ---------------------------
(***************************************************************************)
(* prepareWorkerBootstrap(): before a worker is launched, the root of the  *)
(* registry of models is on the disk, and is the one whose digest this     *)
(* version of the IDE was built with.  Several processes of the user keep  *)
(* it in one file, named after the digest.                                 *)
(***************************************************************************)
EXTENDS Naturals

CONSTANTS
  Launchers,   \* the processes that prepare a worker
  MaxDamages   \* bound: changes of the file by others

BootstrapAssumption == MaxDamages \in Nat

VARIABLES
  root,      \* the file: "absent", "pinned": its digest is the one expected, or "other"
  windows,   \* whether the old file is removed before the rename
  prep,      \* where the preparation of each process is
  damages

vars == <<root, windows, prep, damages>>

Goes(p, at) == prep' = [prep EXCEPT ![p] = at]

------------------------------------------------------------------------------
(* Fault: a file that exists is taken for the root. *)
PreparesLightly(p) ==
  /\ prep[p] = "idle" /\ Goes(p, IF root # "absent" THEN "ready" ELSE "fetch")
  /\ UNCHANGED <<root, windows, damages>>

(* With a valid profile, that has the digest of this version: the others are  *)
(* refused before anything is done.                                           *)
Prepares(p) ==
  /\ prep[p] = "idle" /\ Goes(p, IF root = "pinned" THEN "ready" ELSE "fetch")
  /\ UNCHANGED <<root, windows, damages>>

(* An error, a timeout, a size, a digest or a document that is not a root's. *)
FetchFails(p) ==
  /\ prep[p] = "fetch" /\ Goes(p, "idle")
  /\ UNCHANGED <<root, windows, damages>>

(* Fault: the file is written where it is. *)
WritesInPlace(p) ==
  /\ prep[p] = "fetch" /\ root' = "other" /\ Goes(p, "rename")
  /\ UNCHANGED <<windows, damages>>

(* The bytes have the digest. *)
Fetched(p) ==
  /\ prep[p] = "fetch" /\ Goes(p, IF windows THEN "replace" ELSE "rename")
  /\ UNCHANGED <<root, windows, damages>>

(* atomicOwnerOnlyWrite(): a temporary file of its own, then on Windows the   *)
(* old one goes, then the rename.                                             *)
Replaces(p) ==
  /\ prep[p] = "replace" /\ root' = "absent" /\ Goes(p, "rename")
  /\ UNCHANGED <<windows, damages>>

RenamesRoot(p) ==
  /\ prep[p] = "rename" /\ root' = "pinned" /\ Goes(p, "ready")
  /\ UNCHANGED <<windows, damages>>

WriteFails(p) ==
  /\ prep[p] \in {"replace", "rename"} /\ Goes(p, "idle")
  /\ UNCHANGED <<root, windows, damages>>

(* The worker is stopped, or the process ends, at any step. *)
Leaves(p) ==
  /\ prep[p] # "idle" /\ Goes(p, "idle")
  /\ UNCHANGED <<root, windows, damages>>

Damage ==
  /\ damages < MaxDamages /\ damages' = damages + 1
  /\ root' \in {"absent", "other"} /\ UNCHANGED <<windows, prep>>

------------------------------------------------------------------------------
Init ==
  /\ root \in {"absent", "pinned", "other"} /\ windows \in BOOLEAN
  /\ prep = [p \in Launchers |-> "idle"] /\ damages = 0

Next ==
  \/ Damage
  \/ \E p \in Launchers :
       \/ Prepares(p) \/ FetchFails(p) \/ Fetched(p) \/ Replaces(p) \/ RenamesRoot(p)
       \/ WriteFails(p) \/ Leaves(p)

Spec == Init /\ [][Next]_vars

------------------------------------------------------------------------------
(* A worker is launched on the root that the version expects, and it stays    *)
(* there under the worker, whatever the other processes prepare meanwhile.    *)
(* Where a file is removed before it is replaced it may be missing for a      *)
(* while, or for good when the rename then fails; it is never another one.    *)
RootIsPinned ==
  [][/\ \A p \in Launchers : prep[p] # "ready" /\ prep'[p] = "ready" => root' = "pinned"
     /\ root = "pinned" /\ damages' = damages =>
          root' = "pinned" \/ (windows /\ root' = "absent")]_vars
=============================================================================
