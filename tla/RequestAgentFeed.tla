-------------------------- MODULE RequestAgentFeed --------------------------
(***************************************************************************)
(* RequestAgentEventFeed and its RequestAgentPhaseTracker: which requests  *)
(* are being generated, from the numbered phases that the Request Agent    *)
(* streams, resumed after a cut with Last-Event-ID.                        *)
(***************************************************************************)
EXTENDS Naturals, Sequences

CONSTANTS
  Requests,
  MaxEvents,   \* bound: phases
  MaxCuts      \* bound: breaks of the stream, stops, events too many

AgentFeedAssumption == {MaxEvents, MaxCuts} \subseteq Nat

VARIABLES
  log,       \* the phases so far, the number of each being its place (external)
  link,      \* "off", "asked", "open", "closing" once it was destroyed, or "waits" for the reconnection
  sent,      \* the events under way
  lastEventId,      \* lastEventId of the tracker
  active,    \* its active requests
  cuts

vars == <<log, link, sent, lastEventId, active, cuts>>

(* Whether a phase is one of the TERMINAL ones. *)
Phases == [request : Requests, terminal : BOOLEAN]

(* What is active after the first n phases. *)
ActiveAt[n \in 0..MaxEvents] ==
  IF n = 0 \/ n > Len(log) THEN {}
  ELSE IF log[n].terminal THEN ActiveAt[n - 1] \ {log[n].request}
  ELSE ActiveAt[n - 1] \cup {log[n].request}

Snapshot(n) == [id |-> n, kind |-> "snapshot", set |-> ActiveAt[n]]
PhaseEvent(n) == [id |-> n, kind |-> "phase", set |-> {}]

------------------------------------------------------------------------------
(* The Request Agent (external) *)

(* A request that is over is not heard of again.  Nothing happens while the   *)
(* rest of a chunk is read, after the connection was destroyed.               *)
Emits(p) ==
  /\ Len(log) < MaxEvents /\ link # "closing"
  /\ \A i \in DOMAIN log : log[i].request = p.request => ~log[i].terminal
  /\ log' = Append(log, p)
  /\ sent' = IF link = "open" THEN Append(sent, PhaseEvent(Len(log'))) ELSE sent
  /\ UNCHANGED <<link, lastEventId, active, cuts>>

(* It goes on from the event that the feed has, or, if it does not keep it    *)
(* any more or there is none, with the set of now.  It may begin with an      *)
(* event too many.                                                            *)
Accepts ==
  /\ link = "asked" /\ link' = "open"
  /\ \/ sent' = <<Snapshot(Len(log))>> /\ UNCHANGED cuts
     \/ /\ lastEventId > 0
        /\ sent' = [i \in 1..(Len(log) - lastEventId) |-> PhaseEvent(lastEventId + i)] /\ UNCHANGED cuts
     \/ /\ lastEventId > 0 /\ cuts < MaxCuts /\ cuts' = cuts + 1
        /\ sent' = [i \in 1..(Len(log) + 1 - lastEventId) |-> PhaseEvent(lastEventId + i - 1)]
  /\ UNCHANGED <<log, lastEventId, active>>

------------------------------------------------------------------------------
(* connect() *)

StartFeed == link = "off" /\ link' = "asked" /\ UNCHANGED <<log, sent, lastEventId, active, cuts>>

BreaksFeed ==
  /\ link \in {"asked", "open"} /\ cuts < MaxCuts
  /\ cuts' = cuts + 1
  /\ link' = "waits" /\ sent' = <<>>
  /\ UNCHANGED <<log, lastEventId, active>>

Reconnects == link = "waits" /\ link' = "asked" /\ UNCHANGED <<log, sent, lastEventId, active, cuts>>

(* stop(): the agent is gone, and its tracker with it. *)
StopFeed ==
  /\ link \notin {"off", "closing"} /\ cuts < MaxCuts /\ cuts' = cuts + 1
  /\ link' = "off" /\ sent' = <<>> /\ log' = <<>>
  /\ lastEventId' = 0 /\ active' = {}

------------------------------------------------------------------------------
(* apply() *)

(* Fault: what a snapshot does not have stays active. *)
ApplySnapshotAdds(e) == active' = active \cup e.set /\ lastEventId' = e.id

ApplySnapshot(e) == active' = e.set /\ lastEventId' = e.id

ApplyPhase(e) ==
  /\ lastEventId' = e.id
  /\ active' = IF log[e.id].terminal THEN active \ {log[e.id].request}
               ELSE active \cup {log[e.id].request}

Applies ==
  /\ sent # <<>> /\ sent' = Tail(sent)
  /\ LET e == Head(sent)
     IN IF e.kind = "snapshot" THEN ApplySnapshot(e) ELSE e.id > lastEventId /\ ApplyPhase(e)
  /\ UNCHANGED <<log, link, cuts>>

(* An event that is out of order destroys the connection; the events after it *)
(* that came in the same chunk are applied all the same.                      *)
Refuses ==
  /\ sent # <<>> /\ Head(sent).kind = "phase" /\ Head(sent).id <= lastEventId
  /\ link' = "closing" /\ sent' = Tail(sent)
  /\ UNCHANGED <<log, lastEventId, active, cuts>>

(* The chunk is read, and what was to come is lost. *)
Closes ==
  /\ link = "closing" /\ link' = "waits" /\ sent' = <<>>
  /\ UNCHANGED <<log, lastEventId, active, cuts>>

Init == log = <<>> /\ link = "off" /\ sent = <<>> /\ lastEventId = 0 /\ active = {} /\ cuts = 0

Next ==
  \/ \E p \in Phases : Emits(p)
  \/ Accepts \/ StartFeed \/ BreaksFeed \/ Reconnects \/ StopFeed \/ Applies \/ Refuses \/ Closes

Spec == Init /\ [][Next]_vars

TypeOK ==
  /\ log \in Seq(Phases) /\ Len(log) <= MaxEvents
  /\ link \in {"off", "asked", "open", "closing", "waits"}
  /\ sent \in Seq([id : 0..MaxEvents, kind : {"snapshot", "phase"}, set : SUBSET Requests])
  /\ lastEventId \in 0..Len(log) /\ active \subseteq Requests /\ cuts \in 0..MaxCuts

(* The requests that count as active are those that are, as of the last event *)
(* that was applied, whatever was cut between the start and the end of a      *)
(* generation; connected, with nothing under way, that is the last there is.  *)
ActiveIsTrue ==
  /\ active = ActiveAt[lastEventId]
  /\ link = "open" /\ sent = <<>> => lastEventId = Len(log)
==============================================================================
