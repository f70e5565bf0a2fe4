------------------------------ MODULE Startup ------------------------------
(***************************************************************************)
(* The start of the desktop application: the gate of the mandatory update  *)
(* (FabiMandatoryAppUpdater), then the gate of the local engine            *)
(* (FabiElectronMainApplication), then the IDE, from which the engine can  *)
(* be installed too (FabiRuntimeManager).  Both installers run             *)
(* installRuntime() of RuntimeInstall, one after the other: the IDE opens  *)
(* once the launcher is done.                                              *)
(***************************************************************************)
EXTENDS RuntimeInstall

CONSTANTS
  Forced,      \* FABI_FORCE_LAUNCHER, in development
  Disabled,    \* FABI_NO_LAUNCHER, in development
  Updates,     \* FABI_FORCE_UPDATER, in development
  Accelerator, \* detectPlatform().accel is not "cpu"
  MaxStarts    \* bound: starts of the application

ASSUME StartAssumption ==
  /\ {Forced, Disabled, Updates, Accelerator} \subseteq BOOLEAN
  /\ MaxStarts \in Nat \ {0}

VARIABLES
  stage,    \* where the start is
  update,   \* the window of the update: busy, downloaded, installing, open
  starts,   \* starts so far
  packaged  \* app.isPackaged, of the build that was started

startVars == <<stage, update, starts, packaged>>
launchVars == <<installVars, startVars>>

Stages == {"update", "blocked", "gate", "launcher", "dialog", "finishing", "ide", "quit"}

NoWindow == [busy |-> FALSE, downloaded |-> FALSE, installing |-> FALSE, open |-> FALSE]
NewWindow == [NoWindow EXCEPT !.open = TRUE]

To(s) == stage' = s /\ UNCHANGED <<starts, update, packaged, installVars>>

------------------------------------------------------------------------------
(* The mandatory update *)

(* No update, a check that fails, or no check in development: go on. *)
NoUpdate == stage = "update" /\ To("gate")

(* enforceMandatoryUpdate() hands over to blockForUpdate(), which never       *)
(* returns; when its window cannot be built, the start catches the error and  *)
(* goes on.                                                                   *)
UpdateFound ==
  /\ stage = "update" /\ (packaged \/ Updates)
  /\ \/ stage' = "blocked" /\ update' = NewWindow
     \/ stage' = "gate" /\ UNCHANGED update
  /\ UNCHANGED <<starts, packaged, installVars>>

Window(u) ==
  /\ stage = "blocked" /\ update' = u
  /\ UNCHANGED <<stage, starts, packaged, installVars>>

(* install() of the window, before the download: it starts it, once. *)
UpdateClicked ==
  /\ update.open /\ ~update.installing /\ ~update.busy /\ ~update.downloaded
  /\ Window([update EXCEPT !.busy = TRUE])

(* update-downloaded installs at once. *)
UpdateDownloaded ==
  /\ update.open /\ update.busy
  /\ Window([update EXCEPT !.busy = FALSE, !.downloaded = TRUE, !.installing = TRUE])

(* onError(): the download or quitAndInstall() failed. *)
UpdateFails ==
  /\ update.open /\ (update.busy \/ update.installing)
  /\ Window([update EXCEPT !.busy = FALSE, !.installing = FALSE])

(* install() once the update is there. *)
InstallClicked ==
  /\ update.open /\ update.downloaded /\ ~update.installing
  /\ Window([update EXCEPT !.installing = TRUE])

(* The window closes for the installation only, and takes its listeners away. *)
UpdateCloses ==
  /\ update.open /\ update.installing
  /\ Window([update EXCEPT !.open = FALSE])

(* quitAndInstall(): the application that starts again is the new one. *)
Updated ==
  /\ stage = "blocked" /\ update.installing
  /\ stage' = "quit" /\ update' = NoWindow
  /\ UNCHANGED <<starts, packaged, installVars>>

------------------------------------------------------------------------------
(* The launcher of the engine *)

(* shouldGateRuntime() *)
ShouldGate ==
  /\ packaged \/ (Forced /\ ~Disabled)
  /\ FindParallax = "none" /\ Accelerator

(* Fault: the test of the runtime is left out once the launcher has run. *)
AfterLauncherForgets(found) == "ide"

(* The loop of ensureQualifiedRuntime(), with what findParallax() says. *)
AfterLauncher(found) ==
  IF (packaged \/ (Forced /\ ~Disabled)) /\ found = "none" /\ Accelerator THEN "gate" ELSE "ide"

Pass == stage = "gate" /\ ~ShouldGate /\ To("ide")

LauncherOpens == stage = "gate" /\ ShouldGate /\ To("launcher")

(* The window of the launcher cannot be built. *)
LauncherFails ==
  /\ stage = "gate" /\ ShouldGate
  /\ To(IF packaged THEN "dialog" ELSE "ide")

DialogRetried == stage = "dialog" /\ To(AfterLauncher(FindParallax))
DialogQuit == stage = "dialog" /\ To("quit")

(* attemptInstall(), when the page is loaded, then on each retry. *)
AttemptInstall ==
  /\ stage = "launcher" /\ result # "ok"
  /\ Begin /\ UNCHANGED startVars

(* finish(), a second after the installation ended. *)
Finish ==
  /\ stage = "launcher" /\ pc = "idle" /\ result = "ok"
  /\ stage' = AfterLauncher(FindParallax) /\ result' = "none"
  /\ UNCHANGED <<starts, update, packaged, published, pc, dl, disk>>

------------------------------------------------------------------------------
(* The IDE *)

(* ensureRuntime(): nothing when the engine is there or being installed. *)
EnsureRuntime ==
  /\ stage = "ide" /\ ~Status.installed /\ ~Status.downloading /\ Accelerator
  /\ Begin /\ UNCHANGED startVars

(* The application is started again, having been quit or having died.  The    *)
(* build of a developer shares the installation with the packaged one.        *)
Restart ==
  /\ starts < MaxStarts
  /\ starts' = starts + 1 /\ stage' = "update" /\ update' = NoWindow
  /\ packaged' \in BOOLEAN
  /\ IF pc = "idle"
     THEN result' = "none" /\ UNCHANGED <<published, pc, dl, disk>>
     ELSE Crash

StartInit ==
  /\ InstallInit
  /\ stage = "update" /\ update = NoWindow /\ starts = 1 /\ packaged \in BOOLEAN

Installs == InstallStep /\ UNCHANGED startVars

StartNext ==
  \/ NoUpdate \/ UpdateFound
  \/ UpdateClicked \/ UpdateDownloaded \/ UpdateFails \/ InstallClicked \/ UpdateCloses \/ Updated
  \/ Pass \/ LauncherOpens \/ LauncherFails \/ DialogRetried \/ DialogQuit
  \/ AttemptInstall \/ Finish \/ EnsureRuntime \/ Restart
  \/ Installs
  \/ Publish /\ UNCHANGED startVars

StartSpec == StartInit /\ [][StartNext]_launchVars

(* Answers, retries and file operations end. *)
FairStartSpec == StartSpec /\ WF_launchVars(Installs)

------------------------------------------------------------------------------
(* Properties *)

StartTypeOK ==
  /\ InstallTypeOK
  /\ stage \in Stages
  /\ update \in [busy : BOOLEAN, downloaded : BOOLEAN, installing : BOOLEAN, open : BOOLEAN]
  /\ starts \in 1..MaxStarts
  /\ packaged \in BOOLEAN

(* The files of the engine are those of one release. *)
OneEngine == StartTypeOK /\ OneRelease

(* A packaged application on a machine that can contribute never opens its    *)
(* IDE on an engine that is absent or is not the qualified one, whatever      *)
(* failed, died or was retried before.  The engine of the chat, which the     *)
(* gate does not look at, is there too unless an installation was cut short   *)
(* or the engine is that of a checkout which has none for the chat.           *)
OpensQualified ==
  [][stage # "ide" /\ stage' = "ide" /\ packaged /\ Accelerator =>
       /\ FindParallax' # "none"
       /\ mishaps' = 0 /\ ("worker" \in Checkout => "code" \in Checkout) =>
            FindFabiCode(packaged)' # "none"]_launchVars

(* An installation ends, with the engine or with an error, unless the archive *)
(* could not be written while its parts were put together (concatFiles): then *)
(* the promise of installRuntime() stays pending.                             *)
InstallEnds == (pc # "idle") ~> (pc \in {"idle", "stuck"})

==============================================================================
