--------------------------- MODULE RuntimeInstall ---------------------------
(***************************************************************************)
(* installRuntime(): the archive of the local engine is downloaded, with   *)
(* retries and resumption, verified, unpacked beside the installation and  *)
(* swapped in path by path; a fault rolls the swap back.  The process may  *)
(* die between any two steps, and the release may be published again while *)
(* it is being downloaded.                                                 *)
(*                                                                         *)
(* A release is a number.  A directory is a function from the managed      *)
(* paths to the release each comes from, Absent where there is no file.    *)
(***************************************************************************)
EXTENDS Naturals

CONSTANTS
  Last,        \* releases are 1..Last, published in that order
  Qualified,   \* those whose MANIFEST is that of the contract
  Sound,       \* those whose archive has the layout that is expected
  WithAgent,   \* those that have a Request Agent
  Bundled,     \* the release in the resources of the application, or Absent
  Checkout,    \* what the checkout that FABI_RUNTIME_DIR names can run, if any
  Size,        \* chunks of an asset
  MaxParts,    \* parts that an archive may be split into
  Attempts,    \* attempts of a download
  MaxMishaps   \* bound: crashes and failed roll-backs

Releases == 1..Last
Absent == 0

ASSUME InstallAssumption ==
  /\ Last \in Nat \ {0} /\ Size \in Nat \ {0} /\ MaxParts \in Nat /\ Attempts \in Nat \ {0}
  /\ MaxMishaps \in Nat
  /\ Qualified \subseteq Releases /\ Sound \subseteq Releases /\ WithAgent \subseteq Releases
  /\ Bundled \in Releases \cup {Absent} /\ Checkout \subseteq {"worker", "agent", "code"}

VARIABLES
  published,   \* the release that the server has under the tag of the contract
  pc,          \* where the installation is; "idle" outside
  dl,          \* its downloads
  staging,     \* what was unpacked
  root,        \* the shared installation
  aside,       \* the backup of this activation
  swapped,     \* the paths activated so far
  orphans,     \* the backups of others
  mishaps,     \* the crashes and the failed roll-backs so far
  result       \* how the last installation ended

disk == <<staging, root, aside, swapped, orphans, mishaps>>
installVars == <<published, pc, dl, disk, result>>

(* MANAGED_RUNTIME_PATHS, in whatever order the release lists them.  The list *)
(* itself, which is swapped as the others are and not read again, is left out. *)
Paths == {"bin", "runtime", "MANIFEST"}

Empty == [p \in Paths |-> Absent]
Whole(r) == [p \in Paths |-> r]
Dirs == [Paths -> Releases \cup {Absent}]

------------------------------------------------------------------------------
(* What is found on the disk *)

HasWorker(d) == d["runtime"] # Absent
HasAgent(d) == d["runtime"] \in WithAgent
HasCode(d) == d["bin"] # Absent
IsQualified(d) == d["MANIFEST"] \in Qualified

Roots == {Whole(Bundled), root}

(* The checkout of a developer if it has what is looked for, then the bundled *)
(* runtime and the shared installation, if they are qualified too.            *)
Find(what, having) ==
  IF what \in Checkout THEN "cached"
  ELSE IF Whole(Bundled) \in having /\ IsQualified(Whole(Bundled)) THEN "bundled"
  ELSE IF root \in having /\ IsQualified(root) THEN "cached"
  ELSE "none"

FindParallax == Find("worker", {d \in Roots : HasWorker(d)})
FindRequestAgent == Find("agent", {d \in Roots : HasAgent(d)})

(* findFabiCode(): outside of a packaged application, whatever the PATH has. *)
FindFabiCode(packaged) ==
  LET found == Find("code", {d \in Roots : HasCode(d)})
  IN IF found = "none" /\ ~packaged THEN "path" ELSE found

(* installedRuntimeProblem(): some root holds a part of a runtime that cannot *)
(* be used.                                                                   *)
Problem ==
  \E d \in Roots :
    /\ d["MANIFEST"] # Absent \/ HasWorker(d) \/ HasCode(d)
    /\ ~(HasWorker(d) /\ HasAgent(d) /\ HasCode(d) /\ IsQualified(d))

(* FabiRuntimeManager.status() *)
Status ==
  [installed |-> FindParallax # "none" /\ FindRequestAgent # "none",
   downloading |-> pc # "idle",
   message |-> IF pc = "idle" /\ result = "failed" THEN "failed"
               ELSE IF Problem THEN "upgrade" ELSE "none"]

------------------------------------------------------------------------------
(* Metadata: fetchRuntimeMetadata() *)

Meta == {"manifest", "sum"}

NoPart == [n |-> 0, of |-> {}]

(* An asset: the part on the disk with its ETag, and the answer being read. *)
NewAsset(d) == [d EXCEPT !.attempt = 1, !.part = NoPart, !.etag = Absent, !.from = Absent, !.open = FALSE]

NoDownload ==
  [target |-> "archive", left |-> 0, attempt |-> 1, part |-> NoPart, etag |-> Absent,
   from |-> Absent, append |-> FALSE, open |-> FALSE, got |-> {}, split |-> FALSE,
   archive |-> Absent]

(* The finally of installRuntime(): nothing is left but the installation. *)
Ends(r) ==
  /\ pc' = "idle"
  /\ dl' = NoDownload
  /\ result' = r

Throws == Ends("failed") /\ UNCHANGED <<published, disk>>

Goto(step) ==
  /\ pc' = step
  /\ UNCHANGED <<published, disk, result>>

(* A transient answer, or none: asked for again after a delay.  The last      *)
(* answer is handed over whatever it is, the last exception is thrown.        *)
MetaRetries ==
  /\ pc \in Meta /\ dl.attempt < Attempts
  /\ dl' = [dl EXCEPT !.attempt = @ + 1]
  /\ Goto(pc)

MetaThrows ==
  /\ pc \in Meta /\ dl.attempt = Attempts
  /\ Throws

(* The manifest of the parts is optional. *)
MetaRefused ==
  /\ pc \in Meta
  /\ IF pc = "manifest"
     THEN dl' = [NewAsset(dl) EXCEPT !.left = 1] /\ Goto("fetch")
     ELSE Throws

ManifestAnswers ==
  /\ pc = "manifest"
  /\ \E n \in 0..MaxParts :
       /\ dl' = [NewAsset(dl) EXCEPT !.left = n, !.split = TRUE]
       /\ Goto(IF n = 0 THEN "join" ELSE "fetch")

(* The sum is that of what is published now.  The archive is followed by the  *)
(* helper that unpacks it.                                                    *)
SumAnswers ==
  /\ pc = "sum"
  /\ IF dl.got # {published} THEN Throws
     ELSE IF dl.target = "archive"
     THEN /\ dl' = [NewAsset(dl) EXCEPT !.target = "helper", !.left = 1, !.got = {},
                                        !.archive = published]
          /\ Goto("fetch")
     ELSE dl' = dl /\ Goto("extract")

------------------------------------------------------------------------------
(* One asset: downloadResumable() and downloadAttempt() *)

(* A part is kept with a strong ETag only. *)
Resumes == dl.part.n > 0 /\ dl.etag # Absent

Kept(d) == IF Resumes THEN d ELSE [d EXCEPT !.part = NoPart]

(* Fault: an attempt that fails is not counted. *)
RetryUncounted(d) ==
  IF d.attempt = Attempts THEN Throws
  ELSE /\ dl' = [d EXCEPT !.from = Absent, !.open = FALSE]
       /\ Goto("fetch")

Retry(d) ==
  IF d.attempt = Attempts THEN Throws
  ELSE /\ dl' = [d EXCEPT !.attempt = @ + 1, !.from = Absent, !.open = FALSE]
       /\ Goto("fetch")

Fetching == pc = "fetch" /\ dl.from = Absent

RequestFails == Fetching /\ Retry(Kept(dl))

(* 4xx, the 416 of a part that is complete included. *)
RequestRefused == Fetching /\ Throws

(* 200: from the beginning; the new ETag is written before the part is. *)
AnswersWhole ==
  /\ Fetching
  /\ \E etag \in {published, Absent} :
       dl' = [Kept(dl) EXCEPT !.from = published, !.append = FALSE, !.etag = etag]
  /\ Goto(pc)

(* 206: the representation of If-Range is still the one that is published. *)
AnswersRest ==
  /\ Fetching /\ Resumes /\ dl.etag = published /\ dl.part.n < Size
  /\ dl' = [dl EXCEPT !.from = published, !.append = TRUE]
  /\ Goto(pc)

(* 206 with another range than the one that was asked for *)
AnswersAstray ==
  /\ Fetching /\ Resumes
  /\ Retry([dl EXCEPT !.part = NoPart, !.etag = Absent])

Opens ==
  /\ pc = "fetch" /\ dl.from # Absent /\ ~dl.open
  /\ dl' = [dl EXCEPT !.open = TRUE, !.part = IF dl.append THEN @ ELSE NoPart]
  /\ Goto(pc)

(* The connection is cut, or the file cannot be opened, written or flushed. *)
Breaks ==
  /\ pc = "fetch" /\ dl.from # Absent
  /\ Retry(dl)

Chunk ==
  /\ pc = "fetch" /\ dl.open /\ dl.part.n < Size
  /\ dl' = [dl EXCEPT !.part = [n |-> @.n + 1, of |-> @.of \cup {dl.from}]]
  /\ Goto(pc)

(* The part is renamed. *)
AssetDone ==
  /\ pc = "fetch" /\ dl.open /\ dl.part.n = Size
  /\ dl' = [NewAsset(dl) EXCEPT !.left = @ - 1, !.got = @ \cup dl.part.of]
  /\ Goto(IF dl.left > 1 THEN "fetch" ELSE IF dl.split THEN "join" ELSE "sum")

(* concatFiles(): the parts are put together.  A part that cannot be read, or *)
(* an archive that cannot be finished, throws.                                *)
Joined ==
  /\ pc = "join"
  /\ dl' = [dl EXCEPT !.split = FALSE]
  /\ Goto("sum")

JoinFails == pc = "join" /\ Throws

(* The archive cannot be written while a part is piped into it: nobody        *)
(* listens for its error until the last part is read, the part is not read    *)
(* any further, and its end is awaited for ever.                              *)
JoinHangs ==
  /\ pc = "join" /\ dl.got # {}
  /\ dl' = dl
  /\ Goto("stuck")

------------------------------------------------------------------------------
(* extractTarZst(), the checks of what was unpacked, relocateBundledRuntime() *)

Extracted ==
  /\ pc = "extract"
  /\ IF dl.archive \in Sound \cap Qualified \cap WithAgent
     THEN /\ staging' = Whole(dl.archive)
          /\ pc' = IF root = Empty THEN "activate" ELSE "aside"
          /\ UNCHANGED <<published, dl, root, aside, swapped, orphans, mishaps, result>>
     ELSE Throws

ExtractFails == pc = "extract" /\ Throws

------------------------------------------------------------------------------
(* activateManagedRuntime() *)

Disk(p, st, ro, as, sw) ==
  /\ pc' = p /\ staging' = st /\ root' = ro /\ aside' = as /\ swapped' = sw
  /\ UNCHANGED <<published, dl, orphans, mishaps, result>>

SetAside(p) ==
  /\ pc = "aside" /\ root[p] # Absent
  /\ LET left == [root EXCEPT ![p] = Absent]
     IN Disk(IF left = Empty THEN "activate" ELSE "aside",
             staging, left, [aside EXCEPT ![p] = root[p]], swapped)

Activate(p) ==
  /\ pc = "activate" /\ p \notin swapped
  /\ Disk(IF swapped \cup {p} = Paths THEN "validate" ELSE "activate",
          [staging EXCEPT ![p] = Absent], [root EXCEPT ![p] = staging[p]], aside, swapped \cup {p})

(* A rename fails, or the modules cannot be imported. *)
Fault ==
  /\ pc \in {"aside", "activate", "validate"}
  /\ Disk("undo", staging, root, aside, swapped)

(* Fault: what was activated is left in place. *)
UndoForgets(p) ==
  /\ pc = "undo" /\ p \in swapped
  /\ Disk("undo", staging, root, aside, swapped \ {p})

Undo(p) ==
  /\ pc = "undo" /\ p \in swapped
  /\ Disk("undo", staging, [root EXCEPT ![p] = Absent], aside, swapped \ {p})

(* Fault: the backup is emptied without being restored. *)
RestoreForgets(p) ==
  /\ pc = "undo" /\ swapped = {} /\ aside[p] # Absent
  /\ Disk("undo", staging, root, [aside EXCEPT ![p] = Absent], swapped)

Restore(p) ==
  /\ pc = "undo" /\ swapped = {} /\ aside[p] # Absent
  /\ Disk("undo", staging, [root EXCEPT ![p] = aside[p]], [aside EXCEPT ![p] = Absent], swapped)

(* The activation is over: its backup becomes one of the others. *)
Leaves(r, others) ==
  /\ Ends(r)
  /\ staging' = Empty /\ aside' = Empty /\ swapped' = {}
  /\ orphans' = others
  /\ UNCHANGED <<published, root>>

RolledBack ==
  /\ pc = "undo" /\ swapped = {} /\ aside = Empty
  /\ Leaves("failed", orphans) /\ UNCHANGED mishaps

WithAside == IF aside = Empty THEN orphans ELSE orphans \cup {aside}

(* The roll-back fails in its turn: the exception leaves the backup behind. *)
RollbackFails ==
  /\ pc = "undo" /\ mishaps < MaxMishaps
  /\ Leaves("failed", WithAside) /\ mishaps' = mishaps + 1

(* The new runtime is kept.  pruneManagedRuntimeBackups() removes the backups *)
(* of others, those that it can, when this activation made one; what cannot   *)
(* be listed or cleared away is thrown, although the new runtime is there.    *)
Commit ==
  /\ pc = "validate"
  /\ \/ aside = Empty /\ Leaves("ok", orphans)
     \/ aside # Empty /\ \E stuck \in SUBSET orphans : Leaves("ok", stuck \cup {aside})
     \/ Leaves("failed", WithAside)
  /\ UNCHANGED mishaps

------------------------------------------------------------------------------
(* The environment *)

Begin ==
  /\ pc = "idle"
  /\ dl' = NoDownload
  /\ Goto("manifest")

Publish ==
  /\ published < Last
  /\ published' = published + 1
  /\ UNCHANGED <<pc, dl, disk, result>>

(* The process dies during the installation. *)
Crash ==
  /\ mishaps < MaxMishaps
  /\ Leaves("none", WithAside) /\ mishaps' = mishaps + 1

InstallInit ==
  /\ published = 1 /\ pc = "idle" /\ dl = NoDownload
  /\ root \in {Empty} \cup {Whole(r) : r \in Releases}
  /\ staging = Empty /\ aside = Empty /\ swapped = {} /\ orphans = {}
  /\ mishaps = 0 /\ result = "none"

(* The steps of an installation that is under way. *)
Download ==
  \/ MetaRetries \/ MetaThrows \/ MetaRefused \/ ManifestAnswers \/ SumAnswers
  \/ RequestFails \/ RequestRefused \/ AnswersWhole \/ AnswersRest \/ AnswersAstray
  \/ Opens \/ Breaks \/ Chunk \/ AssetDone \/ Joined \/ JoinFails \/ JoinHangs
  \/ Extracted \/ ExtractFails

Swap ==
  \/ \E p \in Paths : SetAside(p) \/ Activate(p) \/ Undo(p) \/ Restore(p)
  \/ Fault \/ RolledBack \/ RollbackFails \/ Commit

InstallStep == Download \/ Swap

------------------------------------------------------------------------------
(* Properties *)

InstallTypeOK ==
  /\ published \in Releases
  /\ pc \in {"idle", "fetch", "join", "stuck", "extract", "aside", "activate", "validate", "undo"} \cup Meta
  /\ staging \in Dirs /\ root \in Dirs /\ aside \in Dirs
  /\ swapped \subseteq Paths /\ orphans \subseteq Dirs
  /\ mishaps \in 0..MaxMishaps /\ result \in {"none", "ok", "failed"}

(* The managed files never come from two releases, whatever crashed or failed *)
(* while they were being swapped: the lookups, which test the MANIFEST of one *)
(* path and the command of another, never find a mixture.                     *)
OneRelease == \E r \in Releases : \A p \in Paths : root[p] \in {r, Absent}

(* What the installation counts as, while a swap may still be undone: what    *)
(* was set aside, and what was not touched yet.                               *)
Committed ==
  [p \in Paths |-> IF aside[p] # Absent THEN aside[p]
                   ELSE IF p \in swapped THEN Absent ELSE root[p]]

Active == INSTANCE ActiveRuntime WITH files <- Committed

(* An installation replaces the runtime as a whole or leaves it as it was:    *)
(* only a crash or a failed roll-back loses files.                            *)
ReplacesWhole == Active!Spec
==============================================================================
