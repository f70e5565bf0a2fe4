---------------------------- MODULE MaestroHooks ----------------------------
(***************************************************************************)
(* MaestroHookBridge of fabi-maestro-hooks.ts, and the scan of the open    *)
(* terminals of fabi-external-agents.ts: what the supervision knows of the *)
(* sessions of Claude and Codex.  Each event of such a session starts a    *)
(* hook client, a process that connects to the socket of the bridge; the   *)
(* client of a PermissionRequest waits there for the answer.               *)
(*                                                                         *)
(* Requests of a session are numbered in the order they are asked.         *)
(***************************************************************************)
EXTENDS Naturals

CONSTANTS
  CLIs,       \* sessions of Claude and Codex, each in a terminal and a directory of its own
  MaxAsks,    \* bound: requests of one session
  MaxEvents   \* bound: events outside the service

ASSUME MaestroHooksAssumption == {MaxAsks, MaxEvents} \subseteq Nat

Asks == 1..MaxAsks
None == 0

VARIABLES
  hook,       \* what the bridge knows of each session
  client,     \* the hook client of each request
  aged,       \* sessions that told nothing for a day
  scanning,   \* the terminals that the scan under way looks at, or Idle
  external,   \* what the last scan found, with what the hooks said then
  failed,     \* the last scan did not end
  push,       \* a snapshot is about to be pushed
  events      \* events so far

bridge == <<hook, client, aged>>
scans == <<scanning, external, failed>>

Scan(open) == [on |-> TRUE, terminals |-> open]
Idle == [on |-> FALSE, terminals |-> {}]
CliStatuses == {"idle", "generating", "input", "permission", "error"}

(* status: with the kind of the wait.  ask: the request whose detail is kept. *)
(* socket: the request whose client is held.                                  *)
HookStates ==
  [status : CliStatuses \cup {"unknown"}, ask : Asks \cup {None}, socket : Asks \cup {None}]
Hook(status, ask, socket) == [status |-> status, ask |-> ask, socket |-> socket]
Unknown == Hook("unknown", None, None)

Happens == events < MaxEvents /\ events' = events + 1
Fresh(c) == aged' = aged \ {c}

------------------------------------------------------------------------------
(* handle() *)

(* Fault: the client that waits is let go by whatever its session tells next. *)
ToldDrops(h, status) == Hook(status, None, None)

(* Every event clears the detail; the client that waits is kept. *)
Told(h, status) == Hook(status, None, h.socket)

(* Fault: the client of an earlier request of the session is left waiting. *)
ReleaseForgets(clients, h) == clients

(* current.socket?.destroy() *)
Release(clients, h) ==
  [n \in Asks |-> IF n = h.socket /\ clients[n] = "waiting" THEN "dropped" ELSE clients[n]]

Asked(h, n) == Hook("permission", n, n)

(* Fault: a change of a session is pushed without a scan. *)
OnChangeOnlyPushes(open) == push' = TRUE /\ UNCHANGED scanning

(* onChange(): a scan, unless one runs, and a push. *)
OnChange(open) ==
  /\ scanning' = IF scanning = Idle THEN Scan(open) ELSE scanning
  /\ push' = TRUE

Tells(c, status, open) ==
  /\ Happens
  /\ hook' = [hook EXCEPT ![c] = Told(@, status)] /\ Fresh(c)
  /\ OnChange(open)
  /\ UNCHANGED <<client, external, failed>>

AsksPermission(c, open) ==
  /\ Happens
  /\ \E n \in Asks :
       /\ client[c][n] = "none" /\ \A m \in 1..(n - 1) : client[c][m] # "none"
       /\ client' = [client EXCEPT ![c] = [Release(@, hook[c]) EXCEPT ![n] = "waiting"]]
       /\ hook' = [hook EXCEPT ![c] = Asked(@, n)]
  /\ Fresh(c)
  /\ OnChange(open)
  /\ UNCHANGED <<external, failed>>

(* SessionEnd: the session is forgotten with its socket, which stays open.    *)
Ends(c, open) ==
  /\ hook[c] # Unknown /\ Happens
  /\ hook' = [hook EXCEPT ![c] = Unknown] /\ Fresh(c)
  /\ client' = [client EXCEPT ![c] = [n \in Asks |-> IF @[n] = "waiting" THEN "ended" ELSE @[n]]]
  /\ OnChange(open)
  /\ UNCHANGED <<external, failed>>

(* The question is answered in the terminal, or the client times out: the     *)
(* bridge does not notice.                                                    *)
Leaves(c) ==
  /\ Happens
  /\ \E n \in Asks : client[c][n] = "waiting" /\ client' = [client EXCEPT ![c][n] = "gone"]
  /\ UNCHANGED <<hook, aged, scans, push>>

(* respond(), to the client that is held, whichever request was on the board, *)
(* and the scan that replyPermission() asks for.                              *)
Respond(c, allow, open) ==
  /\ hook[c].socket # None /\ Happens
  /\ LET n == hook[c].socket IN
       client' = [client EXCEPT ![c][n] = CASE @ # "waiting" -> @
                                            [] allow -> "allowed"
                                            [] OTHER -> "denied"]
  /\ hook' = [hook EXCEPT ![c] = Hook(IF allow THEN "generating" ELSE "idle", None, None)] /\ Fresh(c)
  /\ OnChange(open)
  /\ UNCHANGED <<external, failed>>

------------------------------------------------------------------------------
(* scanExternal(): the terminals are read when it starts, the hooks when it   *)
(* ends.                                                                      *)

(* The program found in a terminal, by its processes or its last command;     *)
(* what its transcript tells is refined by its hook, if there is one.         *)
Coarse == {Hook("idle", None, None), Hook("generating", None, None)}

Apply(c, coarse) == IF hook[c] = Unknown \/ c \in aged THEN coarse ELSE hook[c]

HookAges(c) ==
  /\ hook[c] # Unknown /\ c \notin aged /\ aged' = aged \cup {c} /\ Happens
  /\ UNCHANGED <<hook, client, scans, push>>

ScanStarts(open) ==
  /\ scanning = Idle /\ scanning' = Scan(open)
  /\ UNCHANGED <<bridge, external, failed, push, events>>

ScanEnds ==
  /\ scanning # Idle /\ scanning' = Idle
  /\ \E coarse \in [scanning.terminals -> Coarse] :
       external' = [c \in CLIs |-> IF c \in scanning.terminals THEN Apply(c, coarse[c]) ELSE Unknown]
  /\ failed' = FALSE /\ push' = TRUE
  /\ UNCHANGED <<bridge, events>>

(* A push may wait for it all the same. *)
ScanFails ==
  /\ scanning # Idle /\ scanning' = Idle /\ Happens
  /\ failed' = TRUE /\ push' \in {push, TRUE}
  /\ UNCHANGED <<bridge, external>>

HooksInit ==
  /\ hook = [c \in CLIs |-> Unknown]
  /\ client = [c \in CLIs |-> [n \in Asks |-> "none"]] /\ aged = {}
  /\ scanning = Scan({}) /\ external = [c \in CLIs |-> Unknown] /\ failed = FALSE
  /\ push = FALSE /\ events = 0

HooksStep(clis, open) ==
  \/ \E c \in clis, status \in CliStatuses : Tells(c, status, open)
  \/ \E c \in clis : AsksPermission(c, open) \/ Ends(c, open) \/ Leaves(c) \/ HookAges(c)
  \/ \E c \in clis, allow \in BOOLEAN : Respond(c, allow, open)

------------------------------------------------------------------------------
(* Properties *)

HooksTypeOK ==
  /\ {hook, external} \subseteq [CLIs -> HookStates]
  /\ client \in [CLIs -> [Asks -> {"none", "waiting", "allowed", "denied", "dropped", "gone", "ended"}]]
  /\ aged \subseteq CLIs
  /\ scanning \in [on : BOOLEAN, terminals : SUBSET CLIs]
  /\ {failed, push} \subseteq BOOLEAN /\ events \in 0..MaxEvents

(* A program that waits for its answer can be given one from the board,       *)
(* whatever else its session tells or asks meanwhile, until it tells its end: *)
(* its client is the one that respond() writes to.                            *)
AskIsReachable ==
  \A c \in CLIs, n \in Asks : client[c][n] = "waiting" => hook[c].socket = n

(* No change of a session is missed by the scans: what the board has of an    *)
(* open terminal, when no scan runs and the last one ended, is what the       *)
(* bridge heard within a day.                                                 *)
ExternalIsCurrent ==
  scanning = Idle /\ ~failed =>
    \A c \in CLIs \ aged : external[c] # Unknown /\ hook[c] # Unknown => external[c] = hook[c]
=============================================================================
