--------------------------- MODULE SidecarProofs ---------------------------
(***************************************************************************)
(* The process of the chat engine, proved for any number of calls, of      *)
(* launches, of changes of the configuration and of deaths: as long as the *)
(* calls do not overlap in ensureCurrentServer() and each process leaves   *)
(* in time, one process at most runs, it is that of the service, and a     *)
(* call that is let through is given its URL.                              *)
(***************************************************************************)
EXTENDS Sidecar, TLAPS

HandleStates ==
  [url : BOOLEAN, stopped : BOOLEAN, timer : BOOLEAN,
   child : {"none", "booting", "listening", "dying", "closed"}, grace : BOOLEAN]

CallStates == [at : {"idle", "ensure", "stop", "build", "wait", "ready"}, old : Handles \cup {None}]

(* Nobody else is in there. *)
OneWithin ==
  \A c, o \in Calls : call[c].at \in Within /\ call[o].at \in Within => c = o

(* A process that was signalled is the one of the service still, and the call *)
(* that signalled it waits for it.                                            *)
DyingIsAwaited ==
  \A x \in Handles : handles[x].child = "dying" =>
    x = server /\ \E c \in Calls : At(c, "stop") /\ call[c].old = x

NoneIsLate == \A x \in Handles : ~handles[x].grace

(* Between the stop and the launch the service has a stopped server, then no  *)
(* server.                                                                    *)
StopIsOfServer ==
  \A c \in Calls : /\ At(c, "stop") /\ server # None => handles[server].stopped
                   /\ At(c, "build") => server = None

(* What runs, or will be started again, is the process of the service. *)
OnlyServerRuns ==
  \A x \in Handles : Running(handles[x]) \/ handles[x].timer => x = server /\ ~handles[x].stopped

UrlIsOfServer == base # None => base = server /\ Alive(handles[base])

Alone ==
  /\ OneWithin /\ DyingIsAwaited /\ NoneIsLate /\ StopIsOfServer
  /\ OnlyServerRuns /\ UrlIsOfServer

IInv == TypeOK /\ (~disturbed => Alone)

------------------------------------------------------------------------------
(* The helpers *)

(* stop() signals what runs, clears the timer, and does nothing twice. *)
LEMMA StopOf ==
  ASSUME NEW h \in HandleStates
  PROVE  /\ Stop(h) \in HandleStates
         /\ Stop(h).stopped
         /\ Stop(h).grace = h.grace
         /\ ~h.stopped => ~Running(Stop(h)) /\ ~Stop(h).timer
         /\ h.stopped => Stop(h) = h
         /\ Stop(h).child = "dying" => h.child = "dying" \/ Running(h)
         /\ Alive(h) /\ ~h.stopped => Stop(h).child = "dying"
  <1>1. CASE h.stopped
    BY <1>1 DEF Stop
  <1>2. CASE ~h.stopped
    <2>1. Stop(h) = [h EXCEPT !.stopped = TRUE, !.timer = FALSE,
                              !.child = IF Running(h) THEN "dying" ELSE h.child]
      BY <1>2 DEF Stop
    <2>2. Stop(h) \in HandleStates
      BY <2>1 DEF HandleStates
    <2>3. /\ Stop(h).stopped /\ ~Stop(h).timer /\ Stop(h).grace = h.grace
          /\ Stop(h).child = IF Running(h) THEN "dying" ELSE h.child
      BY <2>1 DEF HandleStates
    <2> QED BY <1>2, <2>2, <2>3 DEF Running, Alive
  <1> QED BY <1>1, <1>2

(* setStatus() moves those who wait, and nobody else. *)
LEMMA WakeOf ==
  ASSUME NEW calls \in [Calls -> CallStates], NEW to \in {"idle", "ready"}
  PROVE  /\ Wake(calls, to) \in [Calls -> CallStates]
         /\ \A c \in Calls : \/ calls[c].at # "wait" /\ Wake(calls, to)[c] = calls[c]
                             \/ calls[c].at = "wait" /\ Wake(calls, to)[c].at = to
  BY DEF Wake, CallStates

(* What most steps do to the calls: some are let go, none that stops. *)
CallsLeave ==
  \A c \in Calls : call'[c] = call[c] \/ (call[c].at # "stop" /\ call'[c].at \notin Within)

LEMMA MoveOf ==
  ASSUME call \in [Calls -> CallStates], NEW c \in Calls, NEW where \in {"idle", "ensure", "ready"},
         Move(c, where), call[c].at # "stop"
  PROVE  CallsLeave /\ call' \in [Calls -> CallStates]
  BY DEF Move, CallsLeave, CallStates, Within

------------------------------------------------------------------------------
(* Types *)

LEMMA TypesOf ==
  TypeOK <=>
    /\ outdated \in BOOLEAN
    /\ changes \in 0..MaxChanges /\ crashes \in 0..MaxCrashes /\ launched \in 0..MaxHandles
    /\ call \in [Calls -> CallStates] /\ handles \in [Handles -> HandleStates]
    /\ server \in Handles \cup {None} /\ base \in Handles \cup {None} /\ orphans \subseteq Handles
    /\ disturbed \in BOOLEAN
  BY DEF TypeOK, CallStates, HandleStates

LEMMA NewOf ==
  /\ NewHandle \in HandleStates /\ NoHandle \in HandleStates
  /\ NewHandle.child = "booting" /\ NoHandle.child = "none"
  /\ ~NewHandle.stopped /\ ~NewHandle.timer /\ ~NoHandle.timer /\ ~NewHandle.grace /\ ~NoHandle.grace
  BY DEF NewHandle, NoHandle, HandleStates

(* A launch whose spawn() threw. *)
LEMMA FailedOf ==
  /\ [NewHandle EXCEPT !.child = "closed"] \in HandleStates
  /\ [NewHandle EXCEPT !.child = "closed"].child = "closed"
  /\ ~[NewHandle EXCEPT !.child = "closed"].timer /\ ~[NewHandle EXCEPT !.child = "closed"].grace
  BY DEF NewHandle, HandleStates

(* A step that sets one handle. *)
LEMMA SetOf ==
  ASSUME handles \in [Handles -> HandleStates], NEW x \in Handles, NEW h \in HandleStates, Set(x, h)
  PROVE  /\ handles' \in [Handles -> HandleStates]
         /\ handles'[x] = h
         /\ \A y \in Handles \ {x} : handles'[y] = handles[y]
  BY DEF Set

------------------------------------------------------------------------------
(* The steps that let calls go and signal nothing *)

(* A process is as it was, or closed, or started by the timer that follows a  *)
(* death; a line was read.                                                    *)
HandlesSubside ==
  \A y \in Handles :
    /\ Running(handles'[y]) \/ handles'[y].timer => Running(handles[y]) \/ handles[y].timer
    /\ handles'[y].child = "dying" => handles[y].child = "dying"
    /\ handles'[y].stopped = handles[y].stopped /\ handles'[y].grace = handles[y].grace

Subsides == CallsLeave /\ HandlesSubside /\ server' = server

LEMMA SubsideKeeps ==
  ASSUME TypeOK, Alone, Subsides
  PROVE  OneWithin' /\ DyingIsAwaited' /\ NoneIsLate' /\ StopIsOfServer' /\ OnlyServerRuns'
  <1> USE DEF Subsides
  <1>1. OneWithin'
    BY DEF Alone, OneWithin, CallsLeave, Within
  <1>2. DyingIsAwaited'
    BY DEF Alone, DyingIsAwaited, CallsLeave, HandlesSubside, At
  <1>3. NoneIsLate' /\ OnlyServerRuns'
    BY DEF Alone, NoneIsLate, OnlyServerRuns, HandlesSubside
  <1>4. StopIsOfServer'
    BY TypesOf DEF Alone, StopIsOfServer, CallsLeave, HandlesSubside, At, Within
  <1> QED BY <1>1, <1>2, <1>3, <1>4

(* The handles are left alone by many of them. *)
LEMMA SameHandlesSubside ==
  ASSUME handles' = handles
  PROVE  HandlesSubside
  BY DEF HandlesSubside

(* The line with the URL: a process that boots listens. *)
LEMMA ListensDoes ==
  ASSUME TypeOK, NEW x \in Handles, Listens(x)
  PROVE  /\ TypeOK' /\ Subsides
         /\ Alive(handles[x]) /\ Alive(handles'[x]) /\ base' = x
         /\ \A y \in Handles : Running(handles'[y]) <=> Running(handles[y])
         /\ UNCHANGED <<orphans, disturbed>>
  <1> DEFINE h == [handles[x] EXCEPT !.url = TRUE,
                     !.child = IF handles[x].child = "booting" THEN "listening" ELSE handles[x].child]
  <1>0. handles[x] \in HandleStates /\ handles \in [Handles -> HandleStates] /\ call \in [Calls -> CallStates]
    BY TypesOf
  <1>1. Set(x, h)
    BY DEF Listens
  <1>2. /\ h \in HandleStates
        /\ h.timer = handles[x].timer /\ h.grace = handles[x].grace /\ h.stopped = handles[x].stopped
        /\ h.child = IF handles[x].child = "booting" THEN "listening" ELSE handles[x].child
    BY <1>0 DEF HandleStates
  <1> HIDE DEF h
  <1>3. /\ handles' \in [Handles -> HandleStates]
        /\ handles'[x] = h
        /\ \A y \in Handles \ {x} : handles'[y] = handles[y]
    BY <1>0, <1>1, <1>2, SetOf
  <1>4. CallsLeave /\ call' \in [Calls -> CallStates]
    BY <1>0, WakeOf DEF Listens, CallsLeave, Within
  <1>5. handles[x].child \in {"booting", "dying"} /\ base' = x
        /\ UNCHANGED <<outdated, bounds, server, launched, orphans, disturbed>>
    BY DEF Listens
  <1>6. Subsides /\ Alive(handles'[x])
    BY <1>2, <1>3, <1>4, <1>5 DEF Subsides, HandlesSubside, Running, Alive
  <1>7. TypeOK'
    BY <1>3, <1>4, <1>5, TypesOf DEF bounds, TypeOK, CallStates, HandleStates
  <1> QED BY <1>2, <1>3, <1>5, <1>6, <1>7 DEF Running, Alive

(* A process that was signalled closes. *)
LEMMA ClosesDoes ==
  ASSUME TypeOK, NEW x \in Handles, ClosesStopped(x)
  PROVE  /\ TypeOK' /\ Subsides /\ base' = None
         /\ \A y \in Handles : Running(handles'[y]) => Running(handles[y])
         /\ UNCHANGED <<call, orphans, disturbed>>
  <1> DEFINE h == [handles[x] EXCEPT !.child = "closed", !.url = FALSE]
  <1>0. handles[x] \in HandleStates /\ handles \in [Handles -> HandleStates]
    BY TypesOf
  <1>1. Set(x, h)
    BY DEF ClosesStopped
  <1>2. /\ h \in HandleStates /\ h.child = "closed"
        /\ h.timer = handles[x].timer /\ h.grace = handles[x].grace /\ h.stopped = handles[x].stopped
    BY <1>0 DEF HandleStates
  <1> HIDE DEF h
  <1>3. /\ handles' \in [Handles -> HandleStates]
        /\ handles'[x] = h
        /\ \A y \in Handles \ {x} : handles'[y] = handles[y]
    BY <1>0, <1>1, <1>2, SetOf
  <1>4. base' = None /\ UNCHANGED <<outdated, bounds, call, server, launched, orphans, disturbed>>
    BY DEF ClosesStopped
  <1>5. Subsides
    BY <1>2, <1>3, <1>4 DEF Subsides, CallsLeave, HandlesSubside, Running
  <1>6. TypeOK'
    BY <1>3, <1>4, TypesOf DEF bounds, TypeOK, HandleStates, CallStates
  <1> QED BY <1>2, <1>3, <1>4, <1>5, <1>6 DEF Running

(* A process dies by itself: its timer takes its place. *)
LEMMA CrashesDoes ==
  ASSUME TypeOK, NEW x \in Handles, Crashes(x)
  PROVE  /\ TypeOK' /\ Subsides /\ base' = None
         /\ \A c \in Calls : call'[c] = call[c] \/ call'[c].at = "idle"
         /\ \A y \in Handles : Running(handles'[y]) => Running(handles[y])
         /\ UNCHANGED <<orphans, disturbed>>
  <1> DEFINE h == [handles[x] EXCEPT !.child = "closed", !.url = FALSE, !.timer = TRUE]
  <1>0. handles[x] \in HandleStates /\ handles \in [Handles -> HandleStates] /\ call \in [Calls -> CallStates]
    BY TypesOf
  <1>1. Set(x, h)
    BY DEF Crashes
  <1>2. /\ h \in HandleStates /\ h.child = "closed"
        /\ h.grace = handles[x].grace /\ h.stopped = handles[x].stopped
    BY <1>0 DEF HandleStates
  <1> HIDE DEF h
  <1>3. /\ handles' \in [Handles -> HandleStates]
        /\ handles'[x] = h
        /\ \A y \in Handles \ {x} : handles'[y] = handles[y]
    BY <1>0, <1>1, <1>2, SetOf
  <1>4. /\ CallsLeave /\ call' \in [Calls -> CallStates]
        /\ \A c \in Calls : call'[c] = call[c] \/ call'[c].at = "idle"
    BY <1>0, WakeOf DEF Crashes, CallsLeave, Within
  <1>5. /\ Running(handles[x]) /\ base' = None /\ crashes < MaxCrashes /\ crashes' = crashes + 1
        /\ UNCHANGED <<outdated, changes, server, launched, orphans, disturbed>>
    BY DEF Crashes
  <1>6. Subsides
    BY <1>2, <1>3, <1>4, <1>5 DEF Subsides, HandlesSubside, Running
  <1>7. crashes' \in 0..MaxCrashes
    BY <1>5, SidecarAssumption, TypesOf
  <1>8. TypeOK'
    BY <1>3, <1>4, <1>5, <1>7, TypesOf DEF TypeOK, HandleStates, CallStates
  <1> QED BY <1>2, <1>3, <1>4, <1>5, <1>6, <1>8 DEF Running

(* The timer starts a process again, which signals the orphans. *)
LEMMA RestartDoes ==
  ASSUME TypeOK, NEW x \in Handles, RestartFires(x)
  PROVE  /\ TypeOK' /\ Subsides
         /\ handles[x].timer /\ Alive(handles'[x])
         /\ \A y \in Handles \ {x} : handles'[y] = handles[y]
         /\ UNCHANGED <<call, base, disturbed>>
  <1> DEFINE h == [handles[x] EXCEPT !.timer = FALSE, !.child = "booting"]
  <1>0. handles[x] \in HandleStates /\ handles \in [Handles -> HandleStates]
    BY TypesOf
  <1>1. Set(x, h)
    BY DEF RestartFires
  <1>2. /\ h \in HandleStates /\ h.child = "booting"
        /\ h.grace = handles[x].grace /\ h.stopped = handles[x].stopped
    BY <1>0 DEF HandleStates
  <1> HIDE DEF h
  <1>3. /\ handles' \in [Handles -> HandleStates]
        /\ handles'[x] = h
        /\ \A y \in Handles \ {x} : handles'[y] = handles[y]
    BY <1>0, <1>1, <1>2, SetOf
  <1>4. /\ handles[x].timer /\ orphans' \subseteq Handles
        /\ UNCHANGED <<outdated, bounds, call, server, base, launched, disturbed>>
    BY TypesOf DEF RestartFires, KillsOrphans, service
  <1>5. Subsides
    BY <1>2, <1>3, <1>4 DEF Subsides, CallsLeave, HandlesSubside, Running
  <1>6. TypeOK'
    BY <1>3, <1>4, TypesOf DEF bounds, TypeOK, HandleStates, CallStates
  <1> QED BY <1>2, <1>3, <1>4, <1>5, <1>6 DEF Running, Alive

(* A process outlives its grace period: from here on nothing is promised. *)
LEMMA GraceDoes ==
  ASSUME TypeOK, NEW x \in Handles, GraceOver(x)
  PROVE  TypeOK' /\ disturbed' = TRUE /\ UNCHANGED <<call, orphans>>
         /\ \A y \in Handles : Running(handles'[y]) <=> Running(handles[y])
  <1> DEFINE h == [handles[x] EXCEPT !.grace = TRUE]
  <1>0. handles[x] \in HandleStates /\ handles \in [Handles -> HandleStates]
    BY TypesOf
  <1>1. Set(x, h)
    BY DEF GraceOver
  <1>2. h \in HandleStates /\ h.child = handles[x].child
    BY <1>0 DEF HandleStates
  <1> HIDE DEF h
  <1>3. /\ handles' \in [Handles -> HandleStates]
        /\ handles'[x] = h
        /\ \A y \in Handles \ {x} : handles'[y] = handles[y]
    BY <1>0, <1>1, <1>2, SetOf
  <1>4. disturbed' = TRUE /\ UNCHANGED <<outdated, bounds, call, server, base, launched, orphans>>
    BY DEF GraceOver, service
  <1>5. TypeOK'
    BY <1>3, <1>4, TypesOf DEF bounds, TypeOK, HandleStates, CallStates
  <1> QED BY <1>2, <1>3, <1>4, <1>5 DEF Running

(* The steps of the calls that neither stop nor launch, and the changes of    *)
(* the configuration.                                                         *)
Quiet ==
  \/ \E c \in Calls : Ensure(c) \/ BuildFails(c) \/ KeepsServer(c) \/ NotFound(c) \/ WaitEnds(c)
  \/ Change
  \/ UNCHANGED vars

LEMMA QuietDoes ==
  ASSUME TypeOK, Quiet
  PROVE  TypeOK' /\ Subsides /\ UNCHANGED <<handles, server, base, orphans, disturbed>>
  <1>0. call \in [Calls -> CallStates]
    BY TypesOf
  <1>1. UNCHANGED <<handles, server, base, orphans, disturbed>>
    BY DEF Quiet, Ensure, BuildFails, KeepsServer, NotFound, WaitEnds, Change, vars, service
  <1>2. CASE \E c \in Calls : Ensure(c) \/ BuildFails(c) \/ KeepsServer(c) \/ WaitEnds(c)
    <2>1. PICK c \in Calls : \E where \in {"idle", "ensure", "ready"} : Move(c, where) /\ call[c].at # "stop"
      BY <1>2 DEF Ensure, BuildFails, KeepsServer, WaitEnds, At
    <2>2. CallsLeave /\ call' \in [Calls -> CallStates]
      BY <1>0, <2>1, MoveOf
    <2>3. UNCHANGED <<outdated, bounds, launched>>
      BY <1>2 DEF Ensure, BuildFails, KeepsServer, WaitEnds
    <2> QED BY <1>1, <2>2, <2>3, TypesOf, SameHandlesSubside DEF TypeOK, Subsides, bounds, CallStates
  <1>3. CASE \E c \in Calls : NotFound(c)
    <2>1. PICK c \in Calls : NotFound(c)
      BY <1>3
    <2> DEFINE sent == [call EXCEPT ![c].at = "idle"]
    <2>2. /\ sent \in [Calls -> CallStates] /\ sent[c].at = "idle" /\ call[c].at = "build"
          /\ \A o \in Calls \ {c} : sent[o] = call[o]
      BY <1>0, <2>1 DEF CallStates, NotFound, At
    <2>3. call' = Wake(sent, "idle") /\ UNCHANGED <<outdated, bounds, launched>>
      BY <2>1 DEF NotFound
    <2> HIDE DEF sent
    <2>4. CallsLeave /\ call' \in [Calls -> CallStates]
      BY <2>2, <2>3, WakeOf DEF CallsLeave, Within
    <2> QED BY <1>1, <2>3, <2>4, TypesOf, SameHandlesSubside DEF TypeOK, Subsides, bounds, CallStates
  <1>4. CASE Change
    <2>1. changes' \in 0..MaxChanges /\ outdated' \in BOOLEAN /\ UNCHANGED <<crashes, call, launched>>
      BY <1>4, TypesOf, SidecarAssumption DEF Change
    <2> QED BY <1>1, <2>1, TypesOf, SameHandlesSubside DEF TypeOK, Subsides, CallsLeave
  <1>5. CASE UNCHANGED vars
    BY <1>1, <1>5, SameHandlesSubside DEF vars, bounds, service, TypeOK, Subsides, CallsLeave
  <1> QED BY <1>2, <1>3, <1>4, <1>5 DEF Quiet

LEMMA QuietKeeps ==
  ASSUME TypeOK, Alone, Quiet
  PROVE  Alone'
  <1>1. Subsides /\ UNCHANGED <<handles, server, base, orphans>>
    BY QuietDoes
  <1>2. UrlIsOfServer'
    BY <1>1 DEF Alone, UrlIsOfServer
  <1> QED BY <1>1, <1>2, SubsideKeeps DEF Alone

(* So do the processes, as long as none is late. *)
LEMMA ProcessKeeps ==
  ASSUME TypeOK, Alone, NEW x \in Handles,
         Listens(x) \/ ClosesStopped(x) \/ Crashes(x) \/ RestartFires(x)
  PROVE  Alone'
  <1>1. CASE Listens(x)
    <2>1. x = server
      BY <1>1, ListensDoes DEF Alone, OnlyServerRuns, DyingIsAwaited, Alive, Running
    <2>3. base' = x /\ server' = x /\ Alive(handles'[x])
      BY <1>1, <2>1, ListensDoes DEF Subsides
    <2>4. UrlIsOfServer'
      BY <2>3 DEF UrlIsOfServer, Alive, Running
    <2> QED BY <1>1, <2>4, ListensDoes, SubsideKeeps DEF Alone
  <1>2. CASE ClosesStopped(x) \/ Crashes(x)
    <2>1. UrlIsOfServer'
      BY <1>2, ClosesDoes, CrashesDoes DEF Alone, UrlIsOfServer
    <2> QED BY <1>2, <2>1, ClosesDoes, CrashesDoes, SubsideKeeps DEF Alone
  <1>3. CASE RestartFires(x)
    <2>2. /\ UNCHANGED <<base, server>> /\ Alive(handles'[x])
          /\ \A y \in Handles \ {x} : handles'[y] = handles[y]
      BY <1>3, RestartDoes DEF Subsides
    <2>3. UrlIsOfServer'
      BY <2>2, TypesOf DEF Alone, UrlIsOfServer, Alive, Running, Handles, None
    <2> QED BY <1>3, <2>3, RestartDoes, SubsideKeeps DEF Alone
  <1> QED BY <1>1, <1>2, <1>3

------------------------------------------------------------------------------
(* The stop and the launch *)

(* The call that finds the server outdated signals it, once. *)
LEMMA StopsDoes ==
  ASSUME TypeOK, NEW c \in Calls, StopsServer(c)
  PROVE  /\ TypeOK' /\ base' = None /\ UNCHANGED <<server, orphans>>
         /\ disturbed' = (disturbed \/ \E o \in Calls \ {c} : call[o].at \in Within)
         /\ \A o \in Calls \ {c} : call'[o] = call[o]
         /\ call[c].at = "ensure"
         /\ \/ server = None /\ call'[c].at = "build" /\ UNCHANGED handles
            \/ /\ server # None /\ call'[c].at = "stop" /\ call'[c].old = Awaited(server)
               /\ handles'[server] = Stop(handles[server])
               /\ \A y \in Handles \ {server} : handles'[y] = handles[y]
  <1>0. call \in [Calls -> CallStates] /\ handles \in [Handles -> HandleStates]
    BY TypesOf
  <1>1. /\ base' = None /\ UNCHANGED <<outdated, bounds, server, launched, orphans>>
        /\ disturbed' = (disturbed \/ \E o \in Calls \ {c} : call[o].at \in Within)
        /\ call[c].at = "ensure"
    BY DEF StopsServer, At
  <1>2. disturbed' \in BOOLEAN
    BY <1>1, TypesOf
  <1>3. CASE server = None
    <2>1. call' = [call EXCEPT ![c] = [at |-> "build", old |-> None]] /\ UNCHANGED handles
      BY <1>3 DEF StopsServer
    <2>2. call' \in [Calls -> CallStates] /\ call'[c].at = "build"
          /\ \A o \in Calls \ {c} : call'[o] = call[o]
      BY <1>0, <2>1 DEF CallStates
    <2>3. TypeOK'
      BY <1>1, <1>2, <2>1, <2>2, TypesOf DEF bounds, TypeOK, CallStates, HandleStates
    <2> QED BY <1>1, <1>3, <2>1, <2>2, <2>3
  <1>4. CASE server # None
    <2>0. server \in Handles
      BY <1>4, TypesOf
    <2>1. /\ call' = [call EXCEPT ![c] = [at |-> "stop", old |-> Awaited(server)]]
          /\ Set(server, Stop(handles[server]))
      BY <1>4 DEF StopsServer
    <2>2. Awaited(server) \in Handles \cup {None}
      BY <2>0 DEF Awaited
    <2>3. /\ call' \in [Calls -> CallStates] /\ call'[c].at = "stop" /\ call'[c].old = Awaited(server)
          /\ \A o \in Calls \ {c} : call'[o] = call[o]
      BY <1>0, <2>1, <2>2 DEF CallStates
    <2>4. /\ handles' \in [Handles -> HandleStates]
          /\ handles'[server] = Stop(handles[server])
          /\ \A y \in Handles \ {server} : handles'[y] = handles[y]
      BY <1>0, <2>0, <2>1, StopOf, SetOf
    <2>5. TypeOK'
      BY <1>1, <1>2, <2>3, <2>4, TypesOf DEF bounds, TypeOK, CallStates, HandleStates
    <2> QED BY <1>1, <1>4, <2>3, <2>4, <2>5
  <1> QED BY <1>3, <1>4

LEMMA StopsKeeps ==
  ASSUME TypeOK, Alone, NEW c \in Calls, StopsServer(c), ~disturbed'
  PROVE  Alone'
  <1>0. /\ base' = None /\ UNCHANGED <<server, orphans>>
        /\ \A o \in Calls \ {c} : call'[o] = call[o] /\ call[o].at \notin Within
        /\ call[c].at = "ensure" /\ handles \in [Handles -> HandleStates]
    BY StopsDoes, TypesOf
  <1>1. OneWithin'
    BY <1>0 DEF OneWithin
  <1>2. UrlIsOfServer'
    BY <1>0 DEF UrlIsOfServer
  (* Nobody was stopping, so no process was being stopped. *)
  <1>3. \A x \in Handles : handles[x].child # "dying"
    BY <1>0 DEF Alone, DyingIsAwaited, At, Within
  <1>4. CASE server = None
    <2>1. call'[c].at = "build" /\ UNCHANGED handles
      BY <1>4, StopsDoes
    <2> QED BY <1>0, <1>1, <1>2, <1>3, <1>4, <2>1 DEF Alone, DyingIsAwaited, NoneIsLate, StopIsOfServer,
              OnlyServerRuns, At, Within
  <1>5. CASE server # None
    <2>0. server \in Handles /\ handles[server] \in HandleStates
      BY <1>5, TypesOf
    <2>1. /\ call'[c].at = "stop" /\ call'[c].old = Awaited(server)
          /\ handles'[server] = Stop(handles[server])
          /\ \A y \in Handles \ {server} : handles'[y] = handles[y]
      BY <1>5, StopsDoes
    <2>2. /\ handles'[server].stopped /\ handles'[server].grace = handles[server].grace
          /\ ~handles[server].stopped => ~Running(handles'[server]) /\ ~handles'[server].timer
          /\ handles[server].stopped => handles'[server] = handles[server]
      BY <2>0, <2>1, StopOf
    <2>3. ~Running(handles'[server]) /\ ~handles'[server].timer
      BY <2>0, <2>2 DEF Alone, OnlyServerRuns
    <2>4. \A y \in Handles : ~Running(handles'[y]) /\ ~handles'[y].timer
      BY <2>1, <2>3 DEF Alone, OnlyServerRuns
    <2>5. DyingIsAwaited'
      <3> SUFFICES ASSUME NEW x \in Handles, handles'[x].child = "dying"
                   PROVE  x = server' /\ At(c, "stop")' /\ call'[c].old = x
        BY DEF DyingIsAwaited
      <3>1. x = server
        BY <1>3, <2>1
      <3>2. ~handles[server].stopped
        BY <1>3, <2>2, <3>1
      <3> QED BY <1>0, <2>1, <3>1, <3>2 DEF Awaited, At
    <2>6. NoneIsLate'
      BY <2>1, <2>2 DEF Alone, NoneIsLate
    <2>7. StopIsOfServer'
      BY <1>0, <2>1, <2>2 DEF StopIsOfServer, At, Within
    <2> QED BY <1>1, <1>2, <2>4, <2>5, <2>6, <2>7 DEF Alone, OnlyServerRuns
  <1> QED BY <1>4, <1>5

(* The call goes on once the process is gone, or is late. *)
LEMMA StoppedDoes ==
  ASSUME TypeOK, NEW c \in Calls, Stopped(c)
  PROVE  /\ TypeOK' /\ server' = None /\ UNCHANGED <<base, handles, orphans, disturbed>>
         /\ \A o \in Calls \ {c} : call'[o] = call[o]
         /\ call[c].at = "stop" /\ call'[c].at = "build"
         /\ call[c].old # None => StopIsOver(handles[call[c].old])
  <1>1. call \in [Calls -> CallStates]
    BY TypesOf
  <1>2. /\ call' = [call EXCEPT ![c] = [at |-> "build", old |-> None]]
        /\ server' = None /\ UNCHANGED <<outdated, bounds, base, handles, launched, orphans, disturbed>>
        /\ call[c].at = "stop" /\ (call[c].old # None => StopIsOver(handles[call[c].old]))
    BY DEF Stopped, At
  <1>3. call' \in [Calls -> CallStates] /\ call'[c].at = "build" /\ \A o \in Calls \ {c} : call'[o] = call[o]
    BY <1>1, <1>2 DEF CallStates
  <1>4. TypeOK'
    BY <1>2, <1>3, TypesOf DEF bounds, TypeOK, CallStates
  <1> QED BY <1>2, <1>3, <1>4

LEMMA StoppedKeeps ==
  ASSUME TypeOK, Alone, NEW c \in Calls, Stopped(c)
  PROVE  Alone'
  <1>0. /\ server' = None /\ UNCHANGED <<base, handles, orphans>>
        /\ \A o \in Calls \ {c} : call'[o] = call[o]
        /\ call[c].at = "stop" /\ call'[c].at = "build"
        /\ call[c].old # None => StopIsOver(handles[call[c].old])
    BY StoppedDoes
  (* The process that was signalled is that of this call, and is gone. *)
  <1>1. \A x \in Handles : handles[x].child # "dying"
    <2> SUFFICES ASSUME NEW x \in Handles, handles[x].child = "dying" PROVE FALSE
      OBVIOUS
    <2>1. call[c].old = x
      BY <1>0 DEF Alone, DyingIsAwaited, OneWithin, At, Within
    <2> QED BY <1>0, <2>1 DEF Alone, NoneIsLate, StopIsOver, Handles, None
  <1>2. \A x \in Handles : ~Running(handles[x]) /\ ~handles[x].timer
    BY <1>0, TypesOf DEF Alone, OnlyServerRuns, StopIsOfServer, At, Handles, None
  <1>3. base = None
    BY <1>1, <1>2, TypesOf DEF Alone, UrlIsOfServer, Alive
  <1>4. OneWithin' /\ StopIsOfServer'
    BY <1>0 DEF Alone, OneWithin, StopIsOfServer, At, Within
  <1> QED BY <1>0, <1>1, <1>2, <1>3, <1>4 DEF Alone, DyingIsAwaited, NoneIsLate, OnlyServerRuns,
            UrlIsOfServer

(* launch(): another handle, whose process boots or could not be started. *)
LEMMA LaunchDoes ==
  ASSUME TypeOK, NEW c \in Calls, Launch(c)
  PROVE  /\ TypeOK' /\ call[c].at = "build" /\ server' \in Handles /\ UNCHANGED disturbed
         /\ \A y \in Handles \ {server'} : handles'[y] = handles[y]
         /\ ~handles'[server'].timer /\ ~handles'[server'].grace
         /\ call'[c].at = "wait" \/ (call'[c].at = "ready" /\ base # None /\ UNCHANGED base)
         /\ \A o \in Calls \ {c} : call'[o] = call[o] \/ (call[o].at = "wait" /\ call'[o].at = "idle")
         /\ \/ /\ handles'[server'].child = "booting" /\ ~handles'[server'].stopped
               /\ UNCHANGED base
            \/ handles'[server'].child = "closed" /\ base' = None
  <1>0. call \in [Calls -> CallStates] /\ handles \in [Handles -> HandleStates]
    BY TypesOf
  <1>1. /\ call[c].at = "build" /\ launched < MaxHandles /\ launched' = launched + 1
        /\ outdated' = FALSE /\ server' = launched' /\ UNCHANGED <<bounds, disturbed>>
    BY DEF Launch, At
  <1>2. server' \in Handles /\ launched' \in 0..MaxHandles
    BY <1>1, TypesOf, SidecarAssumption DEF Handles
  <1>3. CASE /\ Set(launched', NewHandle)
             /\ KillsOrphans /\ UNCHANGED base
             /\ call' = [call EXCEPT ![c].at = IF base # None THEN "ready" ELSE "wait"]
    <2>1. /\ handles' \in [Handles -> HandleStates]
          /\ handles'[server'] = NewHandle
          /\ \A y \in Handles \ {server'} : handles'[y] = handles[y]
      BY <1>0, <1>1, <1>2, <1>3, NewOf, SetOf
    <2>2. /\ call' \in [Calls -> CallStates]
          /\ call'[c].at = IF base # None THEN "ready" ELSE "wait"
          /\ \A o \in Calls \ {c} : call'[o] = call[o]
      BY <1>0, <1>3 DEF CallStates
    <2>3. TypeOK'
      BY <1>1, <1>2, <1>3, <2>1, <2>2, TypesOf DEF KillsOrphans, bounds, TypeOK, CallStates, HandleStates
    <2> QED BY <1>1, <1>2, <1>3, <2>1, <2>2, <2>3, NewOf
  <1>4. CASE /\ Set(launched', [NewHandle EXCEPT !.child = "closed"])
             /\ base' = None /\ UNCHANGED orphans
             /\ call' = [Wake(call, "idle") EXCEPT ![c].at = "wait"]
    <2>1. /\ handles' \in [Handles -> HandleStates]
          /\ handles'[server'] = [NewHandle EXCEPT !.child = "closed"]
          /\ \A y \in Handles \ {server'} : handles'[y] = handles[y]
      BY <1>0, <1>1, <1>2, <1>4, FailedOf, SetOf
    <2> DEFINE woken == Wake(call, "idle")
    <2>2. /\ woken \in [Calls -> CallStates]
          /\ \A o \in Calls : woken[o] = call[o] \/ (call[o].at = "wait" /\ woken[o].at = "idle")
      BY <1>0, WakeOf
    <2>3. call' = [woken EXCEPT ![c].at = "wait"]
      BY <1>4
    <2> HIDE DEF woken
    <2>4. /\ call' \in [Calls -> CallStates] /\ call'[c].at = "wait"
          /\ \A o \in Calls \ {c} : call'[o] = woken[o]
      BY <2>2, <2>3 DEF CallStates
    <2>5. TypeOK'
      BY <1>1, <1>2, <1>4, <2>1, <2>4, TypesOf DEF bounds, TypeOK, CallStates, HandleStates
    <2> QED BY <1>1, <1>2, <1>4, <2>1, <2>2, <2>4, <2>5, FailedOf
  <1> QED BY <1>3, <1>4 DEF Launch

LEMMA LaunchKeeps ==
  ASSUME TypeOK, Alone, NEW c \in Calls, Launch(c)
  PROVE  Alone' /\ call'[c].at = "wait"
  <1>0. server = None
    BY LaunchDoes DEF Alone, StopIsOfServer, At
  <1>1. base = None /\ \A x \in Handles : ~Running(handles[x]) /\ ~handles[x].timer /\ handles[x].child # "dying"
    BY <1>0, TypesOf DEF Alone, UrlIsOfServer, OnlyServerRuns, DyingIsAwaited, Handles, None
  (* It was alone in there, and still is. *)
  <1>2. \A o \in Calls \ {c} : call[o].at \notin Within /\ call'[o] = call[o]
    BY LaunchDoes DEF Alone, OneWithin, Within
  <1>3. call'[c].at = "wait" /\ server' \in Handles /\ base' = None
    BY <1>1, LaunchDoes
  <1>4. OneWithin' /\ StopIsOfServer' /\ UrlIsOfServer'
    BY <1>2, <1>3 DEF OneWithin, StopIsOfServer, UrlIsOfServer, At, Within
  <1>5. DyingIsAwaited' /\ NoneIsLate'
    BY <1>1, LaunchDoes DEF Alone, DyingIsAwaited, NoneIsLate
  <1>6. OnlyServerRuns'
    BY <1>1, LaunchDoes DEF OnlyServerRuns, Running
  <1> QED BY <1>3, <1>4, <1>5, <1>6 DEF Alone

(* A backend that starts has no server, whatever the last one left. *)
LEMMA AnewKeeps ==
  ASSUME TypeOK, Quit \/ Killed
  PROVE  TypeOK' /\ Alone' /\ \A c \in Calls : call'[c].at = "idle"
  <1>1. PICK left \in SUBSET Handles : Anew(left)
    BY TypesOf DEF Quit, Killed
  <1>2. crashes' \in 0..MaxCrashes
    BY TypesOf, SidecarAssumption DEF Quit, Killed
  <1>3. /\ call' \in [Calls -> CallStates] /\ \A c \in Calls : call'[c].at = "idle"
        /\ handles' \in [Handles -> HandleStates] /\ \A x \in Handles : handles'[x] = NoHandle
        /\ server' = None /\ base' = None /\ orphans' = left /\ disturbed' = FALSE
        /\ UNCHANGED <<outdated, changes, launched>>
    BY <1>1, NewOf DEF Anew, CallStates
  <1>4. TypeOK'
    BY <1>2, <1>3, TypesOf DEF TypeOK, CallStates, HandleStates
  <1>5. Alone'
    BY <1>3, NewOf DEF Alone, OneWithin, DyingIsAwaited, NoneIsLate, StopIsOfServer, OnlyServerRuns,
       UrlIsOfServer, At, Within, Running
  <1> QED BY <1>3, <1>4, <1>5

------------------------------------------------------------------------------
(* The theorems *)

(* A backend that starts is alone. *)
LEMMA Initially == Init => IInv
  <1> SUFFICES ASSUME Init PROVE IInv
    OBVIOUS
  <1>1. TypeOK
    <2>1. 0 \in 0..MaxChanges /\ 0 \in 0..MaxCrashes /\ 0 \in 0..MaxHandles
      BY SidecarAssumption
    <2>2. call \in [Calls -> CallStates] /\ handles \in [Handles -> HandleStates]
      BY NewOf DEF Init, CallStates
    <2> QED BY <2>1, <2>2, TypesOf DEF Init
  <1>2. Alone
    BY NewOf DEF Init, Alone, OneWithin, DyingIsAwaited, NoneIsLate, StopIsOfServer, OnlyServerRuns,
       UrlIsOfServer, At, Within, Running
  <1> QED BY <1>1, <1>2 DEF IInv

(* Every step keeps the invariant. *)
LEMMA Steps ==
  ASSUME IInv, [Next]_vars
  PROVE  IInv'
  <1>0. TypeOK /\ (~disturbed => Alone)
    BY DEF IInv
  <1>1. CASE Quiet
    BY <1>0, <1>1, QuietDoes, QuietKeeps DEF IInv
  <1>2. ASSUME NEW c \in Calls, StopsServer(c)
        PROVE  IInv'
    BY <1>0, <1>2, StopsDoes, StopsKeeps DEF IInv
  <1>3. ASSUME NEW c \in Calls, Stopped(c) \/ Launch(c)
        PROVE  IInv'
    BY <1>0, <1>3, StoppedDoes, StoppedKeeps, LaunchDoes, LaunchKeeps DEF IInv
  <1>4. ASSUME NEW x \in Handles, Listens(x) \/ ClosesStopped(x) \/ Crashes(x) \/ RestartFires(x)
        PROVE  IInv'
    BY <1>0, <1>4, ListensDoes, ClosesDoes, CrashesDoes, RestartDoes, ProcessKeeps DEF IInv
  <1>5. ASSUME NEW x \in Handles, GraceOver(x)
        PROVE  IInv'
    BY <1>0, <1>5, GraceDoes DEF IInv
  <1>6. CASE Quit \/ Killed
    BY <1>0, <1>6, AnewKeeps DEF IInv
  <1> QED BY <1>1, <1>2, <1>3, <1>4, <1>5, <1>6 DEF Next, Proceeds, Process, Quiet

(* The inductive invariant of startServer() and ensureCurrentServer(): types, *)
(* and, while calls and processes do not overlap, whose process runs, is      *)
(* being stopped or has announced its URL.                                    *)
THEOREM Inductive == Spec => []IInv
  <1>1. Init => IInv
    BY Initially
  <1>2. IInv /\ [Next]_vars => IInv'
    BY Steps
  <1> QED BY <1>1, <1>2, PTL DEF Spec

(* One process of the backend at most runs, that of the service, for any      *)
(* number of calls, launches, deaths and restarts of the backend.             *)
THEOREM SidecarIsOne == Spec => []OneSidecar
  <1>1. IInv => OneSidecar
    BY DEF IInv, Alone, OnlyServerRuns, OneSidecar
  <1> QED BY <1>1, Inductive, PTL

(* A call that ensureCurrentServer() or whenReady() lets through, alone, is   *)
(* given the URL of the server that was launched last.                        *)
THEOREM ServesCurrent == Spec => ServedIsCurrent
  <1>1. IInv /\ [Next]_vars =>
          [\A c \in Calls :
             ~At(c, "ready") /\ call'[c].at = "ready" /\ ~disturbed' =>
               base' # None /\ base' = server']_vars
    <2> SUFFICES ASSUME IInv, Next, NEW c \in Calls, call[c].at # "ready", call'[c].at = "ready", ~disturbed'
                 PROVE  base' # None /\ base' = server'
      BY DEF At
    <2>0. TypeOK /\ IInv' /\ (~disturbed => Alone)
      BY Steps DEF IInv
    <2>1. UrlIsOfServer'
      BY <2>0 DEF IInv, Alone
    <2>2. base' # None
      <3>1. ASSUME NEW o \in Calls, KeepsServer(o)
            PROVE  base' # None
        BY <3>1 DEF KeepsServer, UpToDate, service
      <3>2. ASSUME NEW o \in Calls, Ensure(o) \/ BuildFails(o) \/ NotFound(o) \/ WaitEnds(o)
            PROVE  FALSE
        <4>1. call \in [Calls -> CallStates]
          BY <2>0, TypesOf
        <4>2. CASE Ensure(o) \/ BuildFails(o) \/ WaitEnds(o)
          BY <4>1, <4>2 DEF Ensure, BuildFails, WaitEnds, Move, CallStates
        <4>3. CASE NotFound(o)
          <5> DEFINE sent == [call EXCEPT ![o].at = "idle"]
          <5>1. sent \in [Calls -> CallStates] /\ sent[c].at # "ready"
            BY <4>1 DEF CallStates
          <5>2. call' = Wake(sent, "idle")
            BY <4>3 DEF NotFound
          <5> HIDE DEF sent
          <5> QED BY <5>1, <5>2, WakeOf
        <4> QED BY <3>2, <4>2, <4>3
      <3>3. ASSUME NEW o \in Calls, StopsServer(o) \/ Stopped(o)
            PROVE  FALSE
        BY <2>0, <3>3, StopsDoes, StoppedDoes
      <3>4. ASSUME NEW o \in Calls, Launch(o)
            PROVE  base' # None
        BY <2>0, <3>4, LaunchDoes
      <3>5. ASSUME NEW x \in Handles, Listens(x)
            PROVE  base' # None
        BY <2>0, <3>5, ListensDoes DEF Handles, None
      <3>6. ASSUME NEW x \in Handles, ClosesStopped(x) \/ Crashes(x) \/ RestartFires(x) \/ GraceOver(x)
            PROVE  FALSE
        BY <2>0, <3>6, ClosesDoes, CrashesDoes, RestartDoes, GraceDoes
      <3>7. CASE Change \/ Quit \/ Killed
        BY <2>0, <3>7, AnewKeeps DEF Change
      <3> QED BY <3>1, <3>2, <3>3, <3>4, <3>5, <3>6, <3>7 DEF Next, Proceeds, Process
    <2> QED BY <2>1, <2>2 DEF UrlIsOfServer
  <1> QED BY <1>1, Inductive, PTL DEF Spec, ServedIsCurrent

=============================================================================
