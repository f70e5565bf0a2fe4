------------------------------ MODULE CodeTurns ------------------------------
(***************************************************************************)
(* The life of a chat turn in FabiCodeServiceImpl: from prompt() to the    *)
(* moment its waiter is settled and the call returns.                      *)
(*                                                                         *)
(* Three parties interleave.                                               *)
(*                                                                         *)
(*   - The service is single threaded: one action is everything it does    *)
(*     between two awaits.  A call of prompt() is a process whose pc is    *)
(*     the await it stands at.                                             *)
(*   - The OpenCode sidecar is external.  It runs one prompt of a session  *)
(*     at a time, keeps the messages, and answers HTTP requests with what  *)
(*     is true when it serves them.                                        *)
(*   - Its event stream (SSE) keeps the order of the events, delays them   *)
(*     at will against the HTTP answers, loses all of them when it is cut, *)
(*     and carries only the sessions of the directory it was opened for.   *)
(*                                                                         *)
(* The sidecar's own launch and restart are in Sidecar; here it goes       *)
(* down (a crash, a new configuration, the end of the IDE) and comes back. *)
(***************************************************************************)
EXTENDS Naturals, Sequences, FiniteSets

CONSTANTS
  Prompts,       \* the calls of prompt(); a call owns at most one waiter
  Sessions,      \* the OpenCode sessions they are sent to
  Directories,   \* the workspaces the sessions belong to
  SessionOf,     \* the session of a prompt
  DirectoryOf,   \* the workspace of a session
  NoPrompt,      \* no waiter, no abort controller
  NoDirectory,   \* sseDirectory before the first prompt
  MaxReads,      \* bound: reconciliations in flight
  Troubles,      \* which of AllTroubles may happen
  MaxTrouble,    \* bound: how many of them, the closing of the IDE aside
  MaxStream      \* bound: events in flight on the stream

(* The user aborts, the sidecar dies or gets another configuration, the event *)
(* stream breaks, a request is answered with an error, the IDE closes.        *)
AllTroubles == {"abort", "crash", "reconfigure", "cut", "refuse", "stop"}

ASSUME PromptsAssumption ==
  /\ SessionOf \in [Prompts -> Sessions]
  /\ DirectoryOf \in [Sessions -> Directories]
  /\ NoPrompt \notin Prompts
  /\ NoDirectory \notin Directories

ASSUME BoundsAssumption ==
  Troubles \subseteq AllTroubles /\ MaxReads \in Nat /\ MaxTrouble \in Nat /\ MaxStream \in Nat

VARIABLES
  pc,            \* where each prompt() call stands
  waiters,       \* turnWaiters: the prompt whose waiter a session holds
  accepted,      \* waiter.accepted
  observed,      \* waiter.observedActive
  previous,      \* waiter.previousAssistantIds
  phases,        \* turnPhases
  info,          \* the part of info that setStatus derives from the turns
  inflight,      \* inflight: the prompt whose abort controller a session holds
  signalled,     \* the prompts whose abort controller has fired
  outcome,       \* history: why the waiter of a prompt was settled
  reads,         \* the reconciliations under way, by waiter and by caller
  aborting,      \* the call of abort() under way in a session
  run,           \* engine: what became of each prompt
  serverUp,      \* baseUrl is defined
  stopping,      \* onStop() was called
  sseDirectory,  \* the directory the event stream is opened for
  connected,     \* the event stream is established
  stream,        \* the events in flight
  trouble        \* how much of MaxTrouble is used

turnVars   == <<waiters, phases, info, outcome>>
flagVars   == <<accepted, observed, previous>>
abortVars  == <<inflight, signalled, aborting>>
sseVars    == <<sseDirectory, connected, stream>>
serverVars == <<serverUp, stopping>>

vars == <<pc, turnVars, flagVars, abortVars, reads, run, serverVars, sseVars, trouble>>

------------------------------------------------------------------------------

(* An operator introduced as a fault is not part of the specification: it is  *)
(* the operator after it with a plausible slip, that a property must notice.  *)

(* Who starts a reconciliation: prompt() itself, handleTurnIdle() for each  *)
(* of the two idles of a turn, and reconcileActiveTurns() when the event    *)
(* stream is established.  One of each is in flight per waiter, and         *)
(* MaxReads in all: the next one waits.                                     *)
Callers == {"prompt", "idle", "again", "connect"}

(* "status" and "history" wait for GET /session/status and GET .../message; *)
(* the others are an answer, or the rejection, not yet processed.  To the   *)
(* code "early" is "absent": the session was not running since the turn had *)
(* not begun.  A reconciliation is "lost" that was rejected with nobody to  *)
(* repeat it, until another of the turn starts.                             *)
ReadStage == {"none", "status", "active", "absent", "early",
              "history", "completed", "incomplete", "failed", "lost"}

Calls == {"new", "ensure", "snapshot", "snapped", "post", "posted",
          "reconcile", "wait", "failed", "returned"}

(* A turn is settled as "misled" by an early absence, as "idle" by any other *)
(* evidence that it is complete: to the code the two are the same.           *)
Outcomes == {"none", "idle", "misled", "error", "abort", "replaced", "outage", "stopped"}

(* "queued" was received, "busy" has no assistant message yet, "answering"  *)
(* has one, "done" has completed it, "dead" never will.                     *)
Runs == {"none", "queued", "busy", "answering", "done", "dead"}

Kinds == {"busy", "part", "idle", "error"}

Event == [session : Sessions, kind : Kinds]

Waiting(s) == waiters[s] # NoPrompt

(* What setStatus() publishes about the turns. *)
Summary(w, ph) ==
  [turns    |-> {s \in Sessions : w[s] # NoPrompt},
   activity |-> IF \E s \in Sessions : ph[s] = "generating" THEN "generating"
                ELSE IF \E s \in Sessions : ph[s] # "none" THEN "preparing"
                ELSE "idle"]

(* Fault: finishTurn() without turnWaiters.delete(). *)
FinishTurnsKeepsWaiter(S, why) ==
  /\ UNCHANGED waiters
  /\ phases'  = [s \in Sessions |-> IF s \in S /\ Waiting(s) THEN "none" ELSE phases[s]]
  /\ outcome' = [p \in Prompts |->
                   IF SessionOf[p] \in S /\ waiters[SessionOf[p]] = p THEN why ELSE outcome[p]]
  /\ info'    = Summary(waiters', phases')

(* finishTurn() for every session of S: forget the waiter and its phase,    *)
(* resolve it, publish.  Nothing happens in a session without a waiter.     *)
FinishTurns(S, why) ==
  /\ waiters' = [s \in Sessions |-> IF s \in S THEN NoPrompt ELSE waiters[s]]
  /\ phases'  = [s \in Sessions |-> IF s \in S /\ Waiting(s) THEN "none" ELSE phases[s]]
  /\ outcome' = [p \in Prompts |->
                   IF SessionOf[p] \in S /\ waiters[SessionOf[p]] = p THEN why ELSE outcome[p]]
  /\ info'    = IF \E s \in S : Waiting(s) THEN Summary(waiters', phases') ELSE info

(* Fault: waitForTurn() without finishTurn() for the waiter it replaces. *)
WaitForTurnForgets(p) ==
  /\ waiters' = [waiters EXCEPT ![SessionOf[p]] = p]
  /\ phases'  = [phases EXCEPT ![SessionOf[p]] = "preparing"]
  /\ info'    = Summary(waiters', phases')
  /\ UNCHANGED outcome

(* waitForTurn(): the waiter of an earlier prompt is settled first. *)
WaitForTurn(p) ==
  LET s == SessionOf[p] IN
  /\ outcome' = [q \in Prompts |-> IF waiters[s] = q THEN "replaced" ELSE outcome[q]]
  /\ waiters' = [waiters EXCEPT ![s] = p]
  /\ phases'  = [phases EXCEPT ![s] = "preparing"]
  /\ info'    = Summary(waiters', phases')

(* Fault: setTurnPhase() without turnWaiters.has(). *)
SetGeneratingAnyway(s) ==
  /\ phases' = [phases EXCEPT ![s] = "generating"]
  /\ info'   = Summary(waiters, phases')

(* setTurnPhase(s, "generating") *)
SetGenerating(s) ==
  IF Waiting(s)
  THEN /\ phases' = [phases EXCEPT ![s] = "generating"]
       /\ info'   = IF phases[s] = "generating" THEN info ELSE Summary(waiters, phases')
  ELSE UNCHANGED <<phases, info>>

(* markTurnActive(s) *)
MarkActive(s) ==
  observed' = observed \cup (IF Waiting(s) THEN {waiters[s]} ELSE {})

(* The engine side: a session is in the status map while it runs a prompt. *)
Running(s) == \E p \in Prompts : SessionOf[p] = s /\ run[p] \in {"busy", "answering"}

AssistantMessages(s) == {p \in Prompts : SessionOf[p] = s /\ run[p] \in {"answering", "done"}}

(* Fault: any new assistant message counts, completed or not. *)
NewMessage(p) == AssistantMessages(SessionOf[p]) \ previous[p] # {}

(* hasNewCompletedAssistantMessage() on what GET .../message answers now. *)
NewCompletedMessage(p) ==
  \E q \in AssistantMessages(SessionOf[p]) \ previous[p] : run[q] = "done"

(* Fault: the stream is reopened without a reconciliation. *)
HeldNone == {}

(* The turns that reconcileActiveTurns() reads again. *)
Held == {p \in accepted : waiters[SessionOf[p]] = p}

(* At most n more reads can start. *)
RoomFor(n) ==
  n + Cardinality({r \in Prompts \X Callers : reads[r[1]][r[2]] \notin {"none", "lost"}}) <= MaxReads

(* The reconciliations of a turn once caller c has started one. *)
Started(turn, c) ==
  [d \in Callers |-> IF d = c THEN "status" ELSE IF turn[d] = "lost" THEN "none" ELSE turn[d]]

CanStart(p, c) == reads[p][c] \in {"none", "lost"}

(* The stream after the engine of session s emits these kinds of events. *)
Emitted(s, kinds) ==
  IF connected /\ sseDirectory = DirectoryOf[s]
  THEN stream \o [i \in 1..Len(kinds) |-> [session |-> s, kind |-> kinds[i]]]
  ELSE stream

Trouble(kind) == kind \in Troubles /\ trouble < MaxTrouble /\ trouble' = trouble + 1

Init ==
  /\ pc = [p \in Prompts |-> "new"]
  /\ waiters = [s \in Sessions |-> NoPrompt]
  /\ accepted = {} /\ observed = {}
  /\ previous = [p \in Prompts |-> {}]
  /\ phases = [s \in Sessions |-> "none"]
  /\ info = [turns |-> {}, activity |-> "idle"]
  /\ inflight = [s \in Sessions |-> NoPrompt]
  /\ signalled = {}
  /\ outcome = [p \in Prompts |-> "none"]
  /\ reads = [p \in Prompts |-> [c \in Callers |-> "none"]]
  /\ aborting = [s \in Sessions |-> "none"]
  /\ run = [p \in Prompts |-> "none"]
  /\ serverUp = TRUE /\ stopping = FALSE
  /\ sseDirectory = NoDirectory
  /\ connected = FALSE
  /\ stream = <<>>
  /\ trouble = 0

------------------------------------------------------------------------------
(* prompt() *)

(* catch and finally: finish the session's turn, forget its controller. *)
Reject(p, why) ==
  /\ pc' = [pc EXCEPT ![p] = "returned"]
  /\ inflight' = [inflight EXCEPT ![SessionOf[p]] = NoPrompt]
  /\ FinishTurns({SessionOf[p]}, why)

(* The chat calls; ensureCurrentServer() waits for the swarm and the sidecar, *)
(* and the call is rejected if they do not come.                             *)
Ask(p) ==
  /\ pc[p] = "new" /\ ~stopping
  /\ pc' = [pc EXCEPT ![p] = "ensure"]
  /\ UNCHANGED <<turnVars, flagVars, abortVars, reads, run, serverVars, sseVars, trouble>>

NotReady(p) ==
  /\ pc[p] = "ensure"
  /\ pc' = [pc EXCEPT ![p] = "returned"]
  /\ UNCHANGED <<turnVars, flagVars, abortVars, reads, run, serverVars, sseVars, trouble>>

(* ensureCurrentServer() found the sidecar it wants; the call opens the      *)
(* stream of its directory, registers its controller and its waiter, and     *)
(* asks for the messages that are there before it.                           *)
Prompt(p) ==
  LET s == SessionOf[p] IN
  /\ pc[p] = "ensure" /\ serverUp
  /\ pc' = [pc EXCEPT ![p] = "snapshot"]
  /\ IF sseDirectory = DirectoryOf[s] THEN UNCHANGED sseVars
     ELSE sseDirectory' = DirectoryOf[s] /\ connected' = FALSE /\ stream' = <<>>
  /\ inflight' = [inflight EXCEPT ![s] = p]
  /\ WaitForTurn(p)
  /\ UNCHANGED <<flagVars, signalled, aborting, reads, run, serverVars, trouble>>

(* The sidecar answers the snapshot. *)
Snapshot(p) ==
  /\ pc[p] = "snapshot" /\ serverUp
  /\ pc' = [pc EXCEPT ![p] = "snapped"]
  /\ previous' = [previous EXCEPT ![p] = AssistantMessages(SessionOf[p])]
  /\ UNCHANGED <<turnVars, accepted, observed, abortVars, reads, run, serverVars, sseVars, trouble>>

(* The POST waits for the sidecar if it went down meanwhile.  A signal that  *)
(* fired makes it fail at once; otherwise it leaves, whoever holds the       *)
(* session's waiter.                                                         *)
Post(p) ==
  /\ pc[p] = "snapped" /\ serverUp
  /\ IF p \in signalled
     THEN Reject(p, "abort")
     ELSE pc' = [pc EXCEPT ![p] = "post"] /\ UNCHANGED <<turnVars, inflight>>
  /\ UNCHANGED <<flagVars, signalled, aborting, reads, run, serverVars, sseVars, trouble>>

(* whenReady() gives up. *)
Unready(p) ==
  /\ pc[p] = "snapped" /\ ~serverUp
  /\ pc' = [pc EXCEPT ![p] = "failed"]
  /\ UNCHANGED <<turnVars, flagVars, abortVars, reads, run, serverVars, sseVars, trouble>>

(* The engine takes the prompt; its acknowledgement is on the way. *)
EngineReceive(p) ==
  /\ pc[p] = "post" /\ serverUp
  /\ pc' = [pc EXCEPT ![p] = "posted"]
  /\ run' = [run EXCEPT ![p] = "queued"]
  /\ UNCHANGED <<turnVars, flagVars, abortVars, reads, serverVars, sseVars, trouble>>

(* The acknowledgement: the holder of the waiter is accepted and reconciled. *)
Acknowledged(p) ==
  /\ pc[p] = "posted"
  /\ IF waiters[SessionOf[p]] = p
     THEN /\ RoomFor(1)
          /\ accepted' = accepted \cup {p}
          /\ reads' = [reads EXCEPT ![p] = Started(reads[p], "prompt")]
          /\ pc' = [pc EXCEPT ![p] = "reconcile"]
     ELSE /\ pc' = [pc EXCEPT ![p] = "wait"]
          /\ UNCHANGED <<accepted, reads>>
  /\ UNCHANGED <<turnVars, observed, previous, abortVars, run, serverVars, sseVars, trouble>>

(* The sidecar answers a request of prompt() with an error, or went down     *)
(* before its acknowledgement was received.                                  *)
Refused(p) ==
  /\ pc[p] \in {"snapshot", "post", "posted"}
  /\ IF serverUp THEN Trouble("refuse") ELSE UNCHANGED trouble
  /\ pc' = [pc EXCEPT ![p] = "failed"]
  /\ UNCHANGED <<turnVars, flagVars, abortVars, reads, run, serverVars, sseVars>>

(* A request of prompt(), or of its reconciliation, was rejected. *)
Catch(p) ==
  /\ pc[p] = "failed"
  /\ Reject(p, "error")
  /\ UNCHANGED <<flagVars, signalled, aborting, reads, run, serverVars, sseVars, trouble>>

(* `await done` ends once the waiter is resolved. *)
Return(p) ==
  /\ pc[p] = "wait" /\ outcome[p] # "none"
  /\ pc' = [pc EXCEPT ![p] = "returned"]
  /\ inflight' = [inflight EXCEPT ![SessionOf[p]] = NoPrompt]
  /\ UNCHANGED <<turnVars, flagVars, signalled, aborting, reads, run, serverVars, sseVars, trouble>>

------------------------------------------------------------------------------
(* reconcileTurn() *)

EndRead(p, c) ==
  /\ reads' = [reads EXCEPT ![p][c] = "none"]
  /\ pc' = IF c = "prompt" THEN [pc EXCEPT ![p] = "wait"] ELSE pc

(* The sidecar serves one of the two reads. *)
ServeRead(p, c) ==
  /\ serverUp
  /\ \/ /\ reads[p][c] = "status"
        /\ reads' = [reads EXCEPT ![p][c] = IF Running(SessionOf[p]) THEN "active"
                                           ELSE IF run[p] = "queued" THEN "early" ELSE "absent"]
     \/ /\ reads[p][c] = "history"
        /\ reads' = [reads EXCEPT ![p][c] =
                       IF NewCompletedMessage(p) THEN "completed" ELSE "incomplete"]
  /\ UNCHANGED <<pc, turnVars, flagVars, abortVars, run, serverVars, sseVars, trouble>>

RefuseRead(p, c) ==
  /\ reads[p][c] \in {"status", "history"}
  /\ IF serverUp THEN Trouble("refuse") ELSE UNCHANGED trouble
  /\ reads' = [reads EXCEPT ![p][c] = "failed"]
  /\ UNCHANGED <<pc, turnVars, flagVars, abortVars, run, serverVars, sseVars>>

(* classifyOpenCodeTurnStatus() on the answer: an active turn is observed, an *)
(* absent one is settled if it was ever observed and looked up otherwise.     *)
(* The session is finished by name: the waiter is not compared again.         *)
ClassifyStatus(p, c) ==
  /\ \/ /\ reads[p][c] = "active"
        /\ observed' = observed \cup {p}
        /\ EndRead(p, c)
        /\ UNCHANGED turnVars
     \/ /\ reads[p][c] \in {"absent", "early"} /\ p \in observed
        /\ FinishTurns({SessionOf[p]}, IF reads[p][c] = "early" THEN "misled" ELSE "idle")
        /\ EndRead(p, c)
        /\ UNCHANGED observed
     \/ /\ reads[p][c] \in {"absent", "early"} /\ p \notin observed
        /\ reads' = [reads EXCEPT ![p][c] = "history"]
        /\ UNCHANGED <<pc, turnVars, observed>>
  /\ UNCHANGED <<accepted, previous, abortVars, run, serverVars, sseVars, trouble>>

(* The durable history settles a turn whose two edges were missed. *)
ReadHistory(p, c) ==
  /\ \/ /\ reads[p][c] = "completed"
        /\ FinishTurns({SessionOf[p]}, "idle")
     \/ /\ reads[p][c] = "incomplete"
        /\ UNCHANGED turnVars
  /\ EndRead(p, c)
  /\ UNCHANGED <<flagVars, abortVars, run, serverVars, sseVars, trouble>>

(* Only prompt() acts on the rejection; the two other callers log it. *)
ReadFailed(p, c) ==
  /\ reads[p][c] = "failed"
  /\ reads' = [reads EXCEPT ![p][c] = IF c = "prompt" THEN "none" ELSE "lost"]
  /\ pc' = IF c = "prompt" THEN [pc EXCEPT ![p] = "failed"] ELSE pc
  /\ UNCHANGED <<turnVars, flagVars, abortVars, run, serverVars, sseVars, trouble>>

------------------------------------------------------------------------------
(* abort() *)

(* The prompts whose POST rejects at once when the controllers of S fire.  Its *)
(* catch runs before anything else can.                                        *)
Interrupted(S) ==
  {p \in Prompts : SessionOf[p] \in S /\ inflight[SessionOf[p]] = p /\ pc[p] \in {"post", "posted"}}

(* Fire and forget the controllers of S. *)
FireControllers(S) ==
  /\ signalled' = signalled \cup {inflight[s] : s \in {t \in S : inflight[t] # NoPrompt}}
  /\ inflight'  = [s \in Sessions |-> IF s \in S THEN NoPrompt ELSE inflight[s]]

(* The chat aborts a request it has under way. *)
Abort(s) ==
  /\ aborting[s] = "none" /\ ~stopping
  /\ \E p \in Prompts : SessionOf[p] = s /\ pc[p] \notin {"new", "returned"}
  /\ Trouble("abort")
  /\ aborting' = [aborting EXCEPT ![s] = "sent"]
  /\ FireControllers({s})
  /\ pc' = [p \in Prompts |-> IF p \in Interrupted({s}) THEN "returned" ELSE pc[p]]
  /\ IF Interrupted({s}) # {} THEN FinishTurns({s}, "abort") ELSE UNCHANGED turnVars
  /\ UNCHANGED <<flagVars, reads, run, serverVars, sseVars>>

(* The engine drops what it holds of the session. *)
EngineAbort(s) ==
  /\ aborting[s] = "sent" /\ serverUp
  /\ aborting' = [aborting EXCEPT ![s] = "answered"]
  /\ run' = [p \in Prompts |->
               IF SessionOf[p] # s THEN run[p]
               ELSE IF run[p] \in {"queued", "busy"} THEN "dead"
               ELSE IF run[p] = "answering" THEN "done" ELSE run[p]]
  /\ IF Running(s)
     THEN stream' = Emitted(s, <<"idle", "idle">>) /\ Len(stream') <= MaxStream
     ELSE UNCHANGED stream
  /\ UNCHANGED <<pc, turnVars, flagVars, inflight, signalled, reads, serverVars,
                 sseDirectory, connected, trouble>>

(* The request is answered, refused or timed out: the turn is settled here. *)
AbortReturn(s) ==
  /\ \/ aborting[s] = "answered" /\ UNCHANGED trouble
     \/ aborting[s] = "sent" /\ serverUp /\ Trouble("refuse")
     \/ aborting[s] = "sent" /\ ~serverUp /\ UNCHANGED trouble
  /\ aborting' = [aborting EXCEPT ![s] = "none"]
  /\ FinishTurns({s}, "abort")
  /\ UNCHANGED <<pc, flagVars, inflight, signalled, reads, run, serverVars, sseVars>>

------------------------------------------------------------------------------
(* The event stream *)

(* openEventStream() is answered: every accepted turn is reconciled. *)
Connect ==
  /\ serverUp /\ ~connected /\ ~stopping
  /\ RoomFor(Cardinality(Held)) /\ \A p \in Held : CanStart(p, "connect")
  /\ connected' = TRUE
  /\ reads' = [p \in Prompts |-> IF p \in Held THEN Started(reads[p], "connect") ELSE reads[p]]
  /\ UNCHANGED <<pc, turnVars, flagVars, abortVars, run, serverVars, sseDirectory, stream, trouble>>

Cut ==
  /\ connected /\ Trouble("cut")
  /\ connected' = FALSE /\ stream' = <<>>
  /\ UNCHANGED <<pc, turnVars, flagVars, abortVars, reads, run, serverVars, sseDirectory>>

(* handleEvent() on the next event, as far as it concerns turns. *)
Receive(s, kind) ==
  /\ stream # <<>> /\ Head(stream) = [session |-> s, kind |-> kind]
  /\ stream' = Tail(stream)
  /\ UNCHANGED <<accepted, previous, abortVars, pc, run, serverVars, sseDirectory, connected, trouble>>

(* session.status busy or retry *)
ReceiveBusy(s) ==
  /\ Receive(s, "busy")
  /\ MarkActive(s)
  /\ UNCHANGED <<turnVars, reads>>

(* A step-start part, or a delta of a part that is known. *)
ReceivePart(s) ==
  /\ Receive(s, "part")
  /\ MarkActive(s)
  /\ SetGenerating(s)
  /\ UNCHANGED <<waiters, outcome, reads>>

(* handleTurnIdle(): an idle settles a turn that was observed active; one that *)
(* is only accepted is reconciled; one that is neither is left alone.          *)
ReceiveIdle(s) ==
  /\ Receive(s, "idle")
  /\ UNCHANGED observed
  /\ \/ /\ waiters[s] \in observed
        /\ FinishTurns({s}, "idle") /\ UNCHANGED reads
     \/ /\ Waiting(s) /\ waiters[s] \in accepted \ observed
        /\ RoomFor(1)
        /\ \E c \in {"idle", "again"} :
             /\ CanStart(waiters[s], c)
             /\ reads' = [reads EXCEPT ![waiters[s]] = Started(reads[waiters[s]], c)]
        /\ UNCHANGED turnVars
     \/ /\ waiters[s] \notin accepted \cup observed
        /\ UNCHANGED <<turnVars, reads>>

(* session.error *)
ReceiveError(s) ==
  /\ Receive(s, "error")
  /\ FinishTurns({s}, "error")
  /\ UNCHANGED <<observed, reads>>

------------------------------------------------------------------------------
(* The engine *)

Advance(p, from, to, kinds) ==
  /\ serverUp /\ run[p] = from
  /\ run' = [run EXCEPT ![p] = to]
  /\ stream' = Emitted(SessionOf[p], kinds) /\ Len(stream') <= MaxStream
  /\ UNCHANGED <<pc, turnVars, flagVars, abortVars, reads, serverVars,
                 sseDirectory, connected, trouble>>

EngineStart(p)    == ~Running(SessionOf[p]) /\ Advance(p, "queued", "busy", <<"busy">>)
EngineAnswer(p)   == Advance(p, "busy", "answering", <<"part">>)
EngineComplete(p) == Advance(p, "answering", "done", <<"idle", "idle">>)

(* A run that fails leaves an assistant message that carries the error. *)
EngineFail(p) == \E stage \in {"busy", "answering"} : Advance(p, stage, "done", <<"error", "idle">>)

------------------------------------------------------------------------------
(* The sidecar goes down and comes back *)

Requesting == {"snapshot", "post"}

(* Every request in flight is rejected and every run is lost.  An answer that *)
(* was received is processed all the same.                                    *)
LoseServer(returned) ==
  /\ serverUp' = FALSE
  /\ connected' = FALSE /\ stream' = <<>>
  /\ pc' = [p \in Prompts |-> IF p \in returned THEN "returned"
                              ELSE IF pc[p] \in Requesting THEN "failed" ELSE pc[p]]
  /\ reads' = [p \in Prompts |-> [c \in Callers |->
                 IF reads[p][c] \in {"status", "history"} THEN "failed" ELSE reads[p][c]]]
  /\ aborting' = [s \in Sessions |-> IF aborting[s] = "sent" THEN "answered" ELSE aborting[s]]
  /\ run' = [p \in Prompts |->
               IF run[p] \in {"queued", "busy", "answering"} THEN "dead" ELSE run[p]]

(* The process dies: onError finishes all turns. *)
Crash ==
  /\ serverUp /\ ~stopping /\ Trouble("crash")
  /\ LoseServer({})
  /\ FinishTurns(Sessions, "outage")
  /\ UNCHANGED <<flagVars, inflight, signalled, stopping, sseDirectory>>

(* ensureCurrentServer() finds another configuration, or no sidecar. *)
Reconfigure ==
  /\ ~stopping /\ Trouble("reconfigure")
  /\ FireControllers(Sessions)
  /\ FinishTurns(Sessions, "outage")
  /\ LoseServer(Interrupted(Sessions))
  /\ UNCHANGED <<flagVars, stopping, sseDirectory>>

(* onReady *)
Restart ==
  /\ ~serverUp /\ ~stopping
  /\ serverUp' = TRUE
  /\ UNCHANGED <<pc, turnVars, flagVars, abortVars, reads, run, stopping, sseVars, trouble>>

(* onStop() resolves the waiters without finishTurn: nothing is published. *)
Stop ==
  /\ "stop" \in Troubles /\ ~stopping /\ stopping' = TRUE
  /\ connected' = FALSE /\ stream' = <<>>
  /\ FireControllers(Sessions)
  /\ pc' = [p \in Prompts |-> IF p \in Interrupted(Sessions) THEN "returned" ELSE pc[p]]
  /\ outcome' = [p \in Prompts |-> IF waiters[SessionOf[p]] = p THEN "stopped" ELSE outcome[p]]
  /\ waiters' = [s \in Sessions |-> NoPrompt]
  /\ phases' = [s \in Sessions |-> "none"]
  /\ UNCHANGED <<info, flagVars, aborting, reads, run, serverUp, sseDirectory, trouble>>

(* onStopped: setStatus publishes the turns that are left, none. *)
ServerExit ==
  /\ stopping /\ serverUp
  /\ LoseServer({})
  /\ info' = Summary(waiters, phases)
  /\ UNCHANGED <<waiters, phases, outcome, flagVars, inflight, signalled, stopping,
                 sseDirectory, trouble>>

------------------------------------------------------------------------------

Call(p) == \/ Prompt(p) \/ NotReady(p) \/ Snapshot(p) \/ Post(p) \/ Unready(p)
           \/ Acknowledged(p) \/ Catch(p) \/ Return(p)

Engine(p) == EngineReceive(p) \/ EngineStart(p) \/ EngineAnswer(p) \/ EngineComplete(p)

Read(p, c) == ServeRead(p, c) \/ ClassifyStatus(p, c) \/ ReadHistory(p, c) \/ ReadFailed(p, c)

Deliver(s) == ReceiveBusy(s) \/ ReceivePart(s) \/ ReceiveIdle(s) \/ ReceiveError(s)

Next ==
  \/ \E p \in Prompts : Ask(p) \/ Refused(p) \/ Call(p) \/ Engine(p) \/ EngineFail(p)
  \/ \E p \in Prompts, c \in Callers : Read(p, c) \/ RefuseRead(p, c)
  \/ \E s \in Sessions : Deliver(s) \/ Abort(s) \/ EngineAbort(s) \/ AbortReturn(s)
  \/ Connect \/ Cut \/ Crash \/ Reconfigure \/ Restart \/ Stop \/ ServerExit

Spec == Init /\ [][Next]_vars

(* The service's continuations run, the sidecar answers or is restarted, the  *)
(* stream is reopened after its 1 s delay, and a run of the engine ends.      *)
(* Nothing makes the user prompt or abort.                                    *)
Fairness ==
  /\ \A p \in Prompts : WF_vars(Call(p)) /\ WF_vars(Engine(p))
  /\ \A p \in Prompts, c \in Callers : WF_vars(Read(p, c))
  /\ \A s \in Sessions : WF_vars(Deliver(s)) /\ WF_vars(EngineAbort(s)) /\ WF_vars(AbortReturn(s))
  /\ WF_vars(Connect) /\ WF_vars(Restart) /\ WF_vars(ServerExit)

FairSpec == Spec /\ Fairness

------------------------------------------------------------------------------
(* Properties *)

CallTypes ==
  /\ pc \in [Prompts -> Calls]
  /\ accepted \subseteq Prompts /\ observed \subseteq Prompts
  /\ previous \in [Prompts -> SUBSET Prompts]
  /\ reads \in [Prompts -> [Callers -> ReadStage]]
  /\ run \in [Prompts -> Runs]

TurnTypes ==
  /\ waiters \in [Sessions -> Prompts \cup {NoPrompt}]
  /\ phases \in [Sessions -> {"none", "preparing", "generating"}]
  /\ info \in [turns : SUBSET Sessions, activity : {"idle", "preparing", "generating"}]
  /\ outcome \in [Prompts -> Outcomes]

AbortTypes ==
  /\ inflight \in [Sessions -> Prompts \cup {NoPrompt}]
  /\ signalled \subseteq Prompts
  /\ aborting \in [Sessions -> {"none", "sent", "answered"}]

ServerTypes ==
  serverUp \in BOOLEAN /\ stopping \in BOOLEAN /\ connected \in BOOLEAN

StreamTypes ==
  /\ sseDirectory \in Directories \cup {NoDirectory}
  /\ stream \in Seq(Event)
  /\ trouble \in Nat

(* The variables hold what the code puts there. *)
TypeOK == CallTypes /\ TurnTypes /\ AbortTypes /\ ServerTypes /\ StreamTypes

(* No prompt() call is left behind: past waitForTurn it still holds the       *)
(* waiter of its session, or its promise is resolved (fabi-code-service.ts    *)
(* waitForTurn, finishTurn, finishAllTurns, onStop).                          *)
NoCallLeftBehind ==
  \A p \in Prompts :
    pc[p] \notin {"new", "ensure", "returned"} => waiters[SessionOf[p]] = p \/ outcome[p] # "none"

(* A waiter that is held belongs to a prompt of that session which was never  *)
(* settled: no turn is reported done twice.                                   *)
HeldIsUnsettled ==
  \A s \in Sessions : Waiting(s) =>
    /\ SessionOf[waiters[s]] = s
    /\ outcome[waiters[s]] = "none"
    /\ pc[waiters[s]] \notin {"new", "ensure"}

(* A session has a phase exactly while it holds a waiter, and what the        *)
(* frontend was last told about the turns is true until the IDE closes: the   *)
(* chat shows no "generating" that nothing will end.                          *)
PublishedIsTrue ==
  /\ \A s \in Sessions : phases[s] = "none" <=> ~Waiting(s)
  /\ ~stopping => info = Summary(waiters, phases)

(* A turn is reported complete only when the engine is through with it,       *)
(* unless it was settled by a status that was answered before the turn began  *)
(* and processed after its busy event (reconcileTurn,                         *)
(* classifyOpenCodeTurnStatus): no other order of the stream, the answers and *)
(* the losses ends a turn under way.                                          *)
NoPrematureIdle ==
  \A p \in Prompts : outcome[p] = "idle" => run[p] \in {"done", "dead"}

(* A turn is reported complete only if the engine was given its prompt:       *)
(* handleTurnIdle() keeps what is left of the previous turn from settling a   *)
(* waiter that was just created.                                              *)
NoIdleBeforeSubmitted ==
  \A p \in Prompts : outcome[p] \in {"idle", "misled"} => run[p] # "none"

(* Every call of prompt() returns, whatever edges of the event stream are     *)
(* lost, unless the IDE closes first, or a reconciliation of the turn that    *)
(* openEventStream() or handleTurnIdle() started was rejected: they only log  *)
(* it, and a call that is held after that is held until something else reads. *)
PromptReturns ==
  \A p \in Prompts : pc[p] # "new" ~>
    \/ pc[p] = "returned" \/ stopping
    \/ [](\E c \in Callers : reads[p][c] = "lost")

==============================================================================
