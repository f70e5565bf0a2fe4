------------------------------ MODULE Sidecar ------------------------------
(***************************************************************************)
(* The process of the chat engine, `opencode serve`, and the calls that    *)
(* need it.  ensureCurrentServer() of FabiCodeServiceImpl stops a server   *)
(* whose configuration is outdated and launches another, across several    *)
(* awaits that nothing serialises; startServer() of fabi-code-server       *)
(* starts its process again when it dies by itself.                        *)
(*                                                                         *)
(* A launch is a handle, numbered in order.  The URL of the service is the *)
(* handle that announced it.                                               *)
(***************************************************************************)
EXTENDS Naturals

CONSTANTS
  Calls,        \* calls of prompt() and createSession()
  MaxHandles,   \* bound: launches
  MaxChanges,   \* bound: changes of the configuration
  MaxCrashes    \* bound: processes and backends that die

ASSUME SidecarAssumption ==
  {MaxHandles, MaxChanges, MaxCrashes} \subseteq Nat

Handles == 1..MaxHandles
None == 0

VARIABLES
  outdated,        \* the last launch had another configuration than the one asked for
  changes,         \* how often that changed
  call,            \* where each call is, and the server it stops
  server,          \* the handle of the service
  base,            \* its URL
  handles,         \* the launches
  launched,        \* how many there were
  orphans,         \* processes whose backend died
  crashes,
  disturbed        \* two calls overlapped, or a process outlived its grace period

service == <<server, base>>
bounds == <<changes, crashes>>
vars == <<outdated, bounds, call, service, handles, launched, orphans, disturbed>>

(* child: none, booting, listening, dying once it is signalled, closed.  *)
(* timer: the restart is scheduled.  grace: the grace period is over.    *)
NewHandle == [child |-> "booting", url |-> FALSE, stopped |-> FALSE, timer |-> FALSE,
              grace |-> FALSE]
NoHandle == [NewHandle EXCEPT !.child = "none"]

Running(h) == h.child \in {"booting", "listening"}
Alive(h) == Running(h) \/ h.child = "dying"

At(c, where) == call[c].at = where
Move(c, where) == call' = [call EXCEPT ![c].at = where]
Within == {"stop", "build", "wait"}

(* setStatus(): a server that is ready lets those who wait through, an error  *)
(* sends them away.                                                           *)
Wake(calls, to) == [c \in Calls |-> IF calls[c].at = "wait" THEN [calls[c] EXCEPT !.at = to] ELSE calls[c]]

------------------------------------------------------------------------------
(* startServer() *)

(* Fault: the timer does not look whether stop() was called, nor is cleared. *)
StopKeepsTimer(h) ==
  IF h.stopped THEN h
  ELSE [h EXCEPT !.stopped = TRUE, !.child = IF Running(h) THEN "dying" ELSE @]

(* stop() *)
Stop(h) ==
  IF h.stopped THEN h
  ELSE [h EXCEPT !.stopped = TRUE, !.timer = FALSE, !.child = IF Running(h) THEN "dying" ELSE @]

(* Fault: the promise of stop() has no deadline. *)
StopIsOverForgets(h) == h.child \notin {"dying"}

(* Its promise: kept when the process closes, or after the grace period. *)
StopIsOver(h) == h.child # "dying" \/ h.grace

(* A second stop() waits for nothing. *)
Awaited(x) == IF handles[x].stopped THEN None ELSE x

Set(x, h) == handles' = [handles EXCEPT ![x] = h]

(* The line of stdout with the URL; it may still be read from a process that  *)
(* has been signalled.                                                        *)
Listens(x) ==
  /\ handles[x].child \in {"booting", "dying"} /\ ~handles[x].url
  /\ Set(x, [handles[x] EXCEPT !.url = TRUE, !.child = IF @ = "booting" THEN "listening" ELSE @])
  /\ base' = x
  /\ call' = Wake(call, "ready")
  /\ UNCHANGED <<outdated, bounds, server, launched, orphans, disturbed>>

(* Fault: the URL of a process that is gone is kept. *)
ClosesStoppedKeepsUrl(x) ==
  /\ handles[x].child = "dying"
  /\ Set(x, [handles[x] EXCEPT !.child = "closed", !.url = FALSE])
  /\ UNCHANGED <<outdated, bounds, call, service, launched, orphans, disturbed>>

(* onStopped(), for a process that was asked to stop. *)
ClosesStopped(x) ==
  /\ handles[x].child = "dying"
  /\ Set(x, [handles[x] EXCEPT !.child = "closed", !.url = FALSE])
  /\ base' = None
  /\ UNCHANGED <<outdated, bounds, call, server, launched, orphans, disturbed>>

(* onError(), for one that dies by itself: it is started again later. *)
Crashes(x) ==
  /\ Running(handles[x]) /\ crashes < MaxCrashes
  /\ crashes' = crashes + 1
  /\ Set(x, [handles[x] EXCEPT !.child = "closed", !.url = FALSE, !.timer = TRUE])
  /\ base' = None
  /\ call' = Wake(call, "idle")
  /\ UNCHANGED <<outdated, changes, server, launched, orphans, disturbed>>

(* killOrphanedSidecars(), at each start of a process: SIGTERM to those that  *)
(* `ps` shows.  Nothing on win32 or when `ps` fails, and some may ignore it.  *)
KillsOrphans == orphans' \in SUBSET orphans

RestartFires(x) ==
  /\ handles[x].timer
  /\ Set(x, [handles[x] EXCEPT !.timer = FALSE, !.child = "booting"])
  /\ KillsOrphans
  /\ UNCHANGED <<outdated, bounds, call, service, launched, disturbed>>

(* SIGKILL, four seconds after SIGTERM. *)
GraceOver(x) ==
  /\ handles[x].child = "dying" /\ ~handles[x].grace
  /\ Set(x, [handles[x] EXCEPT !.grace = TRUE])
  /\ disturbed' = TRUE
  /\ UNCHANGED <<outdated, bounds, call, service, launched, orphans>>

------------------------------------------------------------------------------
(* ensureCurrentServer() *)

(* Up to the answer of waitForConsumableSwarm() and buildConfigWithKey(). *)
Ensure(c) ==
  /\ At(c, "idle") \/ At(c, "ready")
  /\ Move(c, "ensure")
  /\ UNCHANGED <<outdated, bounds, service, handles, launched, orphans, disturbed>>

(* The swarm or its Request Agent is not ready: on entry, or in launch(). *)
BuildFails(c) ==
  /\ At(c, "ensure") \/ At(c, "build")
  /\ Move(c, "idle")
  /\ UNCHANGED <<outdated, bounds, service, handles, launched, orphans, disturbed>>

UpToDate == server # None /\ base # None /\ ~outdated

KeepsServer(c) ==
  /\ At(c, "ensure") /\ UpToDate
  /\ Move(c, "ready")
  /\ UNCHANGED <<outdated, bounds, service, handles, launched, orphans, disturbed>>

(* The URL is forgotten and the server is stopped.  The other calls that are  *)
(* in there go on.                                                            *)
StopsServer(c) ==
  /\ At(c, "ensure") /\ ~UpToDate
  /\ base' = None
  /\ IF server = None
     THEN call' = [call EXCEPT ![c] = [at |-> "build", old |-> None]] /\ UNCHANGED handles
     ELSE /\ call' = [call EXCEPT ![c] = [at |-> "stop", old |-> Awaited(server)]]
          /\ Set(server, Stop(handles[server]))
  /\ disturbed' = (disturbed \/ \E o \in Calls \ {c} : call[o].at \in Within)
  /\ UNCHANGED <<outdated, bounds, server, launched, orphans>>

(* server = undefined, whichever it is by now. *)
Stopped(c) ==
  /\ At(c, "stop") /\ (call[c].old # None => StopIsOver(handles[call[c].old]))
  /\ server' = None
  /\ call' = [call EXCEPT ![c] = [at |-> "build", old |-> None]]
  /\ UNCHANGED <<outdated, bounds, base, handles, launched, orphans, disturbed>>

NotFound(c) ==
  /\ At(c, "build")
  /\ call' = Wake([call EXCEPT ![c].at = "idle"], "idle")
  /\ UNCHANGED <<outdated, bounds, server, base, handles, launched, orphans, disturbed>>

(* launch(), with the configuration of now, then whenReady(); spawn() may     *)
(* throw.                                                                     *)
Launch(c) ==
  /\ At(c, "build") /\ launched < MaxHandles
  /\ launched' = launched + 1
  /\ outdated' = FALSE
  /\ server' = launched'
  /\ \/ /\ Set(launched', NewHandle)
        /\ KillsOrphans /\ UNCHANGED base
        /\ call' = [call EXCEPT ![c].at = IF base # None THEN "ready" ELSE "wait"]
     \/ /\ Set(launched', [NewHandle EXCEPT !.child = "closed"])
        /\ base' = None /\ UNCHANGED orphans
        /\ call' = [Wake(call, "idle") EXCEPT ![c].at = "wait"]
  /\ UNCHANGED <<bounds, disturbed>>

(* whenReady() gives up after 25 s. *)
WaitEnds(c) ==
  /\ At(c, "wait") /\ Move(c, "idle")
  /\ UNCHANGED <<outdated, bounds, service, handles, launched, orphans, disturbed>>

------------------------------------------------------------------------------
(* The swarm and the backend *)

(* Another swarm, another model, another token. *)
Change ==
  /\ changes < MaxChanges
  /\ changes' = changes + 1
  /\ outdated' = ~outdated
  /\ UNCHANGED <<crashes, call, service, handles, launched, orphans, disturbed>>

(* The backend is gone and started again: what it leaves is orphaned. *)
Anew(left) ==
  /\ orphans' = left
  /\ call' = [c \in Calls |-> [at |-> "idle", old |-> None]]
  /\ server' = None /\ base' = None
  /\ handles' = [x \in Handles |-> NoHandle]
  /\ disturbed' = FALSE
  /\ UNCHANGED <<outdated, changes, launched>>

(* onStop(), then process.exit() signals the group of every server that was   *)
(* not stopped.                                                               *)
Quit ==
  /\ server # None
  /\ Anew({x \in Handles : handles[x].child = "dying"} \cup orphans)
  /\ UNCHANGED crashes

Killed ==
  /\ crashes < MaxCrashes /\ crashes' = crashes + 1
  /\ Anew({x \in Handles : Alive(handles[x])} \cup orphans)

Init ==
  /\ outdated = FALSE /\ changes = 0 /\ crashes = 0
  /\ call = [c \in Calls |-> [at |-> "idle", old |-> None]]
  /\ server = None /\ base = None
  /\ handles = [x \in Handles |-> NoHandle] /\ launched = 0
  /\ orphans = {} /\ disturbed = FALSE

Process(x) == Listens(x) \/ ClosesStopped(x) \/ GraceOver(x) \/ RestartFires(x)

Proceeds(c) ==
  BuildFails(c) \/ KeepsServer(c) \/ StopsServer(c) \/ Stopped(c) \/ NotFound(c) \/ Launch(c)
    \/ WaitEnds(c)

Next ==
  \/ \E c \in Calls : Ensure(c) \/ Proceeds(c)
  \/ \E x \in Handles : Process(x) \/ Crashes(x)
  \/ Change \/ Quit \/ Killed

Spec == Init /\ [][Next]_vars

(* The event loop and its timers; a process may ignore SIGTERM. *)
FairSpec ==
  /\ Spec
  /\ \A c \in Calls : WF_vars(Proceeds(c))
  /\ \A x \in Handles : WF_vars(GraceOver(x))

------------------------------------------------------------------------------
(* Properties *)

TypeOK ==
  /\ outdated \in BOOLEAN
  /\ changes \in 0..MaxChanges /\ crashes \in 0..MaxCrashes /\ launched \in 0..MaxHandles
  /\ call \in [Calls -> [at : {"idle", "ensure", "stop", "build", "wait", "ready"},
                         old : Handles \cup {None}]]
  /\ {server, base} \subseteq Handles \cup {None} /\ orphans \subseteq Handles
  /\ handles \in [Handles -> [url : BOOLEAN, stopped : BOOLEAN, timer : BOOLEAN,
                              child : {"none", "booting", "listening", "dying", "closed"},
                              grace : BOOLEAN]]
  /\ disturbed \in BOOLEAN

(* As long as no two calls were in ensureCurrentServer() at once and each     *)
(* process left in time, the only one of this backend that may run or be      *)
(* started again is that of the service, and it has not been stopped.  What   *)
(* an earlier backend left may outlive killOrphanedSidecars().                *)
OneSidecar ==
  /\ TypeOK
  /\ ~disturbed =>
       \A x \in Handles : Running(handles[x]) \/ handles[x].timer => x = server /\ ~handles[x].stopped

(* A call that is let through, alone, finds the URL of the server that was    *)
(* launched last, and never that of one that was stopped for it.              *)
ServedIsCurrent ==
  [][\A c \in Calls :
       ~At(c, "ready") /\ call'[c].at = "ready" /\ ~disturbed' => base' # None /\ base' = server']_vars

(* A call ends, whatever the process does: it ignores SIGTERM, dies while it  *)
(* boots or never listens.                                                    *)
CallEnds == \A c \in Calls : (call[c].at \in Within) ~> (call[c].at \notin Within)
==============================================================================
