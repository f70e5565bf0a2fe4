---------------------------- MODULE ModelStorage ----------------------------
(***************************************************************************)
(* FabiModelStorage and what FabiSwarmServiceImpl and the settings page do *)
(* with it: the folders that a user allows models to be kept in, one file, *)
(* and calls of several windows that await between its read and its push.  *)
(***************************************************************************)
EXTENDS Naturals, Sequences, FiniteSets, SequencesExt, Functions

CONSTANTS
  Windows,
  Roots,              \* the folders that may be picked; Primary is the one of Fabi
  Primary,
  Invalid,            \* what an edited file may have in the place of a folder
  MaxExtraLocations,  \* MAX_EXTRA_LOCATIONS
  FilesFound,         \* the contents of the file when the IDE starts
  MaxCalls,           \* bound: calls of the settings page
  MaxRestarts,        \* bound: restarts of the worker that end
  MaxStorageFaults    \* bound: folders that cannot be used, writes that fail, disks that cannot be read

StorageAssumption ==
  /\ {Primary, Invalid} \cap Roots = {} /\ "restart" \notin Windows
  /\ FilesFound \subseteq Seq(Roots \cup {Invalid})
  /\ {MaxExtraLocations, MaxCalls, MaxRestarts, MaxStorageFaults} \subseteq Nat

VARIABLES
  file,        \* extraRoots of model-storage.json
  renames,     \* whether a rename replaces a file (it does not on Windows)
  call,        \* of the settings page of each window
  publishing,  \* the calls of publishModelStorage() under way, in the order they began
  shown,       \* the settings last pushed
  late,        \* they are older than others that were pushed, or that could not be
  calls, restarts, storageFaults

vars == <<file, renames, call, publishing, shown, late, calls, restarts, storageFaults>>

Idle == [at |-> "idle"]
Publisher == Windows \cup {"restart"}

(* Fault: a folder that is twice in the file is twice in the list. *)
ReadAll(raw) == SelectSeq(raw, LAMBDA r : r # Invalid)

(* The loop of readExtraRoots(): in order, each once, those that are not      *)
(* refused.  A recursive function, for the proofs about it.                   *)
Collect(s, refused) ==
  LET kept[n \in 0 .. Len(s)] ==
        IF n = 0 THEN <<>>
        ELSE IF s[n] \in refused \cup Range(kept[n - 1]) THEN kept[n - 1]
        ELSE Append(kept[n - 1], s[n])
  IN  kept[Len(s)]

(* readExtraRoots(): the first ones, without what is no folder or was there. *)
ReadExtraRoots(raw) ==
  Collect(SubSeq(raw, 1, IF Len(raw) < MaxExtraLocations THEN Len(raw) ELSE MaxExtraLocations), {Invalid})

Listed == ReadExtraRoots(file)

(* writeExtraRoots(): all or nothing, but where the old file must go first. *)
WriteExtraRoots(roots) ==
  \/ file' = roots /\ UNCHANGED storageFaults
  \/ /\ storageFaults < MaxStorageFaults /\ storageFaults' = storageFaults + 1
     /\ file' = IF renames THEN file ELSE <<>>

(* A call that wrote goes on to publish; one whose write failed is over. *)
Wrote(w) == call' = [call EXCEPT ![w] = IF storageFaults' = storageFaults THEN [at |-> "changed"] ELSE Idle]

------------------------------------------------------------------------------
(* addModelStorageLocation(), its folder being examined and made. *)
AddLocation(w, r) ==
  /\ call[w] = Idle /\ calls < MaxCalls /\ calls' = calls + 1
  /\ call' = [call EXCEPT ![w] = [at |-> "examines", root |-> r]]
  /\ UNCHANGED <<file, renames, publishing, shown, late, restarts, storageFaults>>

NotUsable(w) ==
  /\ call[w].at = "examines" /\ storageFaults < MaxStorageFaults /\ storageFaults' = storageFaults + 1
  /\ call' = [call EXCEPT ![w] = Idle]
  /\ UNCHANGED <<file, renames, publishing, shown, late, calls, restarts>>

(* Fault: the limit lets one more in. *)
AddParentOver(w) ==
  /\ call[w].at = "examines"
  /\ LET r == call[w].root IN
       IF r = Primary \/ r \in Range(Listed)
       THEN call' = [call EXCEPT ![w] = [at |-> "changed"]] /\ UNCHANGED <<file, storageFaults>>
       ELSE IF Len(Listed) > MaxExtraLocations
       THEN call' = [call EXCEPT ![w] = Idle] /\ UNCHANGED <<file, storageFaults>>
       ELSE WriteExtraRoots(Append(Listed, r)) /\ Wrote(w)
  /\ UNCHANGED <<renames, publishing, shown, late, calls, restarts>>

(* The rest of addParent(): the list is read again, after the awaits. *)
AddParent(w) ==
  /\ call[w].at = "examines"
  /\ LET r == call[w].root IN
       IF r = Primary \/ r \in Range(Listed)
       THEN call' = [call EXCEPT ![w] = [at |-> "changed"]] /\ UNCHANGED <<file, storageFaults>>
       ELSE IF Len(Listed) >= MaxExtraLocations
       THEN call' = [call EXCEPT ![w] = Idle] /\ UNCHANGED <<file, storageFaults>>
       ELSE WriteExtraRoots(Append(Listed, r)) /\ Wrote(w)
  /\ UNCHANGED <<renames, publishing, shown, late, calls, restarts>>

(* removeModelStorageLocation(), of a location that the page shows: it may be *)
(* there no more, which is an error.  The list has each location once, so     *)
(* that its filter() leaves what the loop above does.                         *)
RemoveLocation(w, r) ==
  /\ call[w] = Idle /\ calls < MaxCalls /\ calls' = calls + 1
  /\ r \in Range(shown)
  /\ IF r \in Range(Listed)
     THEN WriteExtraRoots(Collect(Listed, {r})) /\ Wrote(w)
     ELSE UNCHANGED <<file, call, storageFaults>>
  /\ UNCHANGED <<renames, publishing, shown, late, restarts>>

(* modelStorageChanged(), after the snapshot that the first call awaits: the *)
(* list is read, and the disks are measured.                                 *)
Publishes(w) ==
  /\ call[w].at = "changed" /\ call' = [call EXCEPT ![w] = [at |-> "publishes"]]
  /\ publishing' = Append(publishing, [by |-> w, list |-> Listed, overtaken |-> FALSE])
  /\ UNCHANGED <<file, renames, shown, late, calls, restarts, storageFaults>>

(* The snapshot that the first call awaits cannot be made, since the disk of  *)
(* Fabi's own folder cannot be measured: the call fails, and what it changed  *)
(* is pushed to nobody.                                                       *)
NotMeasured(w) ==
  /\ call[w].at = "changed" /\ storageFaults < MaxStorageFaults /\ storageFaults' = storageFaults + 1
  /\ call' = [call EXCEPT ![w] = Idle] /\ late' = TRUE
  /\ publishing' = [j \in DOMAIN publishing |-> [publishing[j] EXCEPT !.overtaken = TRUE]]
  /\ UNCHANGED <<file, renames, shown, calls, restarts>>

(* The restart of the worker publishes when it ends. *)
RestartEnds ==
  /\ restarts < MaxRestarts /\ restarts' = restarts + 1
  /\ publishing' = Append(publishing, [by |-> "restart", list |-> Listed, overtaken |-> FALSE])
  /\ UNCHANGED <<file, renames, call, shown, late, calls, storageFaults>>

(* A call of publishModelStorage() ends, before those that began earlier. *)
Ended(i) ==
  /\ publishing' = RemoveAt([j \in DOMAIN publishing |->
                     IF j < i THEN [publishing[j] EXCEPT !.overtaken = TRUE] ELSE publishing[j]], i)
  /\ call' = IF publishing[i].by = "restart" THEN call ELSE [call EXCEPT ![publishing[i].by] = Idle]

(* The disks are measured: every window gets the settings. *)
Published(i) ==
  /\ shown' = publishing[i].list /\ late' = publishing[i].overtaken
  /\ Ended(i)
  /\ UNCHANGED <<file, renames, calls, restarts, storageFaults>>

(* The same failure, in the snapshot that was to be pushed. *)
PublishFails(i) ==
  /\ storageFaults < MaxStorageFaults /\ storageFaults' = storageFaults + 1
  /\ late' = TRUE /\ Ended(i)
  /\ UNCHANGED <<file, renames, shown, calls, restarts>>

Init ==
  /\ file \in FilesFound /\ renames \in BOOLEAN
  /\ call = [w \in Windows |-> Idle] /\ publishing = <<>> /\ shown = Listed /\ late = FALSE
  /\ calls = 0 /\ restarts = 0 /\ storageFaults = 0

Next ==
  \/ \E w \in Windows :
       \/ \E r \in Roots \cup {Primary} : AddLocation(w, r)
       \/ \E r \in Roots : RemoveLocation(w, r)
       \/ NotUsable(w) \/ AddParent(w) \/ Publishes(w) \/ NotMeasured(w)
  \/ RestartEnds
  \/ \E i \in DOMAIN publishing : Published(i) \/ PublishFails(i)

Spec == Init /\ [][Next]_vars

TypeOK ==
  /\ file \in Seq(Roots \cup {Invalid}) /\ shown \in Seq(Roots) /\ {renames, late} \subseteq BOOLEAN
  /\ \A w \in Windows : call[w].at \in {"idle", "examines", "changed", "publishes"}
  /\ \A i \in DOMAIN publishing : publishing[i].by \in Publisher
  /\ calls \in 0..MaxCalls /\ restarts \in 0..MaxRestarts /\ storageFaults \in 0..MaxStorageFaults

(* The locations are distinct, within the limit, and never the one that Fabi  *)
(* has anyway; a call adds or removes one, whatever the other windows did     *)
(* since it began, and a call that fails changes none: where a rename         *)
(* replaces a file.                                                           *)
LocationsAreKept ==
  /\ Len(Listed) <= MaxExtraLocations /\ Primary \notin Range(Listed) /\ IsInjective(Listed)
  /\ file \notin FilesFound => Len(file) <= MaxExtraLocations

OneAtATime ==
  file' # file =>
    \/ \E r \in Roots : Listed' = Append(Listed, r)
    \/ \E i \in DOMAIN Listed : Listed' = RemoveAt(Listed, i)
    \/ ~renames /\ Listed' = <<>>

(* When nothing is under way, what is shown is what is kept.  The exceptions  *)
(* are a push that was measured for longer than the next, which is the last   *)
(* one and shows an older list, and the last change, when it could not be     *)
(* measured.                                                                  *)
ShownIsStored ==
  publishing = <<>> /\ (renames \/ storageFaults = 0) /\ (\A w \in Windows : call[w].at # "changed") =>
    shown = Listed \/ late

StorageIsSound == [](TypeOK /\ LocationsAreKept /\ ShownIsStored) /\ [][OneAtATime]_vars
==============================================================================
