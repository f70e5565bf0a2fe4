---------------------------- MODULE Contribution ----------------------------
(***************************************************************************)
(* The contribution gate of FabiSwarmServiceImpl: a route that is ready is *)
(* open to the prompt only while the scheduler says that this account      *)
(* contributes.  The answer is asked for over HTTP, cached and asked for   *)
(* again, while the swarm, its entry and the worker change.                *)
(*                                                                         *)
(* Everything the service keeps for the gate is one record, gate, and its  *)
(* methods are operators from a gate to the next: a handler that calls two *)
(* of them is their composition.  An action is one handler.                *)
(***************************************************************************)
EXTENDS Naturals, Connection

CONSTANTS
  Entries,    \* the entries that the registry may push
  Reports,    \* what a worker may report
  Verdicts,   \* what the scheduler may say of the account
  Callers,    \* calls of waitUntilReady()
  MaxEpoch    \* bound: contributionEpoch

ASSUME GateAssumption ==
  /\ Entries \subseteq Entry
  /\ Reports \subseteq UNION {Says(s) : s \in Swarms}
  /\ Verdicts \subseteq Answers \ {"unknown"}
  /\ MaxEpoch \in Nat

VARIABLES
  gate,      \* what the service keeps
  verdict,   \* what the scheduler would answer now
  closed     \* onStop() was called

vars == <<gate, verdict, closed>>

(* The identity that a check is about; an answer is about it alone. *)
Identity(g) == [swarm |-> IF g.active = NoEntry THEN NoSwarm ELSE g.active.id, worker |-> g.worker]

Identities == [swarm : Swarms \cup {NoSwarm}, worker : WorkerState]

(* contributionCheckInFlight, with the epoch that the check captured; `about` *)
(* is the identity at that time.  An answer is "unknown" until it is served.  *)
NoCheck == [epoch |-> 0, answer |-> "unknown", about |-> [swarm |-> NoSwarm, worker |-> Stopped],
            on |-> FALSE]

------------------------------------------------------------------------------
(* The methods *)

Transport(g) == DeriveConnection(g.active, g.worker)

(* cancelContributionCheck(reset) *)
Cancel(g) == [g EXCEPT !.retry = "none"]

Reset(g) == [g EXCEPT !.retry = "none", !.epoch = @ + 1, !.answer = "unknown"]

(* ensureContributionCheck(revalidate) *)
EnsureCheck(g, revalidate) ==
  IF \/ g.check.on \/ g.retry # "none"
     \/ g.answer = "allowed" /\ ~revalidate
     \/ Transport(g) # "ready"
  THEN g
  ELSE [g EXCEPT !.check = [epoch |-> g.epoch, answer |-> "unknown", about |-> Identity(g), on |-> TRUE]]

(* The connection that follows from what is kept. *)
Admission(g) == RequireContribution(Transport(g), g.answer)

(* resolveReadyWaiters() *)
Resolve(g) ==
  IF g.connection = "ready"
  THEN [g EXCEPT !.calls = [c \in Callers |-> IF g.calls[c] = "waiting" THEN "ready" ELSE g.calls[c]]]
  ELSE g

(* Fault: no check is asked for. *)
RecomputeForgets(g) ==
  Resolve([(IF Transport(g) = "ready" THEN g ELSE Cancel(g)) EXCEPT !.connection = Admission(g)])

(* recomputeConnection(): the answer gates a route that is ready or busy, and *)
(* the timer is kept, only while it is needed.                                *)
Recompute(g) ==
  LET gated == Transport(g) \in {"ready", "route-busy"} /\ g.answer # "allowed"
      next == IF gated THEN EnsureCheck(g, FALSE)
              ELSE IF Transport(g) = "ready" THEN g ELSE Cancel(g)
  IN Resolve([next EXCEPT !.connection = Admission(g)])

(* setWorkerState() *)
SetWorker(g, w) ==
  LET h == [g EXCEPT !.worker = w] IN Recompute(IF w = g.worker THEN h ELSE Reset(h))

(* setActiveSwarm() *)
SetActive(g, e) ==
  LET same == IF e = NoEntry \/ g.active = NoEntry THEN e = g.active ELSE e.id = g.active.id
      h == [g EXCEPT !.active = e]
  IN Recompute(IF same THEN h ELSE Reset(h))

------------------------------------------------------------------------------

Init ==
  /\ gate = [active |-> NoEntry, worker |-> Stopped, answer |-> "unknown", grantee |-> NoCheck.about,
             epoch |-> 0, check |-> NoCheck, retry |-> "none", connection |-> "pick-model",
             calls |-> [c \in Callers |-> "none"]]
  /\ verdict \in Verdicts
  /\ closed = FALSE

(* connectSwarm(), once it has the entry: the worker starts, or it cannot. *)
Join(e, kind) ==
  /\ gate.epoch + 2 <= MaxEpoch
  /\ gate' = SetWorker(SetActive(gate, e), [kind |-> kind, stage |-> "none", swarm |-> e.id])
  /\ UNCHANGED <<verdict, closed>>

(* disconnect(), at its end. *)
Leave ==
  /\ gate.active # NoEntry /\ gate.epoch + 2 <= MaxEpoch
  /\ gate' = SetWorker(SetActive(gate, NoEntry), Stopped)
  /\ UNCHANGED <<verdict, closed>>

(* The worker of a swarm, which need not be the one joined last, reports.  *)
WorkerReports(w) ==
  /\ w # gate.worker => gate.epoch < MaxEpoch
  /\ gate' = SetWorker(gate, w)
  /\ UNCHANGED <<verdict, closed>>

(* Fault: the connection is not derived again. *)
FeedForgets(e) ==
  /\ gate.active # NoEntry /\ gate.active.id = e.id
  /\ gate' = [gate EXCEPT !.active = e]
  /\ UNCHANGED <<verdict, closed>>

(* The registry feed pushes an entry of the swarm joined. *)
Feed(e) ==
  /\ gate.active # NoEntry /\ gate.active.id = e.id
  /\ gate' = Recompute([gate EXCEPT !.active = e])
  /\ UNCHANGED <<verdict, closed>>

(* The scheduler, which may change its mind, answers the check, or fails to. *)
Judge(v) == v # verdict /\ verdict' = v /\ UNCHANGED <<gate, closed>>

Serve ==
  /\ gate.check.on /\ gate.check.answer = "unknown"
  /\ gate' = [gate EXCEPT !.check.answer = verdict]
  /\ UNCHANGED <<verdict, closed>>

(* Fault: the answer is kept whatever the epoch is now. *)
CheckEndsUnfenced ==
  /\ gate.check.on /\ gate.check.answer # "unknown"
  /\ LET g == [gate EXCEPT !.check = NoCheck, !.answer = gate.check.answer, !.grantee = gate.check.about]
         h == IF Transport(g) = "ready" THEN [g EXCEPT !.retry = "retry"] ELSE g
     IN gate' = Recompute(h)
  /\ UNCHANGED <<verdict, closed>>

(* Fault: a late answer is dropped, and that is all. *)
CheckEndsForgets ==
  /\ gate.check.on /\ gate.check.answer # "unknown"
  /\ LET g == [gate EXCEPT !.check = NoCheck, !.answer = gate.check.answer, !.grantee = gate.check.about]
         h == IF Transport(g) = "ready" THEN [g EXCEPT !.retry = "retry"] ELSE g
     IN gate' = IF gate.check.epoch = gate.epoch THEN Recompute(h) ELSE [gate EXCEPT !.check = NoCheck]
  /\ UNCHANGED <<verdict, closed>>

(* The answer is received: it is dropped if the epoch moved on, and otherwise *)
(* it is asked for again later, as long as the route is ready.                *)
CheckEnds ==
  /\ gate.check.on /\ gate.check.answer # "unknown"
  /\ \/ /\ gate.check.epoch # gate.epoch
        /\ gate' = Recompute([gate EXCEPT !.check = NoCheck])
     \/ /\ gate.check.epoch = gate.epoch
        /\ LET g == [gate EXCEPT !.check = NoCheck, !.answer = gate.check.answer,
                                 !.grantee = gate.check.about]
               h == [g EXCEPT !.retry = IF g.answer = "allowed" THEN "revalidate" ELSE "retry"]
           IN gate' = Recompute(IF Transport(g) = "ready" THEN h ELSE g)
  /\ UNCHANGED <<verdict, closed>>

(* The timer fires. *)
RetryFires ==
  /\ gate.retry # "none"
  /\ gate' = EnsureCheck(Cancel(gate), gate.retry = "revalidate")
  /\ UNCHANGED <<verdict, closed>>

(* waitUntilReady() *)
Wait(c) ==
  /\ gate.calls[c] = "none" /\ ~closed
  /\ gate' = [gate EXCEPT !.calls[c] = IF gate.connection = "ready" THEN "ready"
                                       ELSE IF gate.connection = "pick-model" THEN "rejected"
                                       ELSE "waiting"]
  /\ UNCHANGED <<verdict, closed>>

TimesOut(c) ==
  /\ gate.calls[c] = "waiting"
  /\ gate' = [gate EXCEPT !.calls[c] = "rejected"]
  /\ UNCHANGED <<verdict, closed>>

(* onStop(): the processes report their end meanwhile. *)
Close ==
  /\ ~closed /\ closed' = TRUE
  /\ gate' = [Cancel(gate) EXCEPT
                !.calls = [c \in Callers |-> IF @[c] = "waiting" THEN "rejected" ELSE @[c]]]
  /\ UNCHANGED verdict

Environment ==
  \/ \E e \in Entries : Feed(e) \/ \E kind \in {"starting", "missing-binary", "error"} : Join(e, kind)
  \/ \E w \in Reports : WorkerReports(w)
  \/ \E v \in Verdicts : Judge(v)
  \/ \E c \in Callers : Wait(c)
  \/ Leave \/ Close

Next == Environment \/ Serve \/ CheckEnds \/ RetryFires \/ \E c \in Callers : TimesOut(c)

Spec == Init /\ [][Next]_vars

(* The scheduler answers or the request times out, answers are received and   *)
(* timers fire.  Nothing obliges the user, the registry or the worker.        *)
Fairness ==
  /\ WF_vars(Serve) /\ WF_vars(CheckEnds) /\ WF_vars(RetryFires)
  /\ \A c \in Callers : WF_vars(TimesOut(c))

FairSpec == Spec /\ Fairness

------------------------------------------------------------------------------
(* Properties *)

CheckType == [epoch : Nat, answer : Answers, about : Identities, on : BOOLEAN]

GateType ==
  [active : Entries \cup {NoEntry}, worker : WorkerState, answer : Answers, grantee : Identities,
   epoch : Nat, check : CheckType, retry : {"none", "retry", "revalidate"}, connection : Reasons,
   calls : [Callers -> {"none", "waiting", "ready", "rejected"}]]

(* The variables hold what the code puts there. *)
TypeOK == gate \in GateType /\ verdict \in Verdicts /\ closed \in BOOLEAN

(* The access that is cached was granted to the swarm and the worker of now:  *)
(* an answer that arrives after either changed is dropped (contributionEpoch).*)
GrantIsCurrent == gate.answer = "allowed" => gate.grantee = Identity(gate)

(* What is shown follows from what is kept, so the prompt is open only to a   *)
(* ready route with a granted access; and nobody is left waiting for it       *)
(* (recomputeConnection, resolveReadyWaiters).                                *)
ShownIsKept ==
  /\ gate.connection = Admission(gate)
  /\ gate.connection = "ready" => \A c \in Callers : gate.calls[c] # "waiting"

(* Until the IDE closes, a ready route that is locked for want of an access   *)
(* has a check under way or a timer armed: nobody has to unlock it by hand    *)
(* (ensureContributionCheck).                                                 *)
GateIsWatched ==
  ~closed /\ Transport(gate) = "ready" /\ gate.answer # "allowed" =>
    gate.check.on \/ gate.retry # "none"

(* A prompt that the scheduler would admit is unlocked, if that lasts (the    *)
(* retries of ensureContributionCheck).                                       *)
Admissible == Transport(gate) = "ready" /\ verdict = "allowed" /\ ~closed

Unlocks == Admissible ~> (gate.connection = "ready" \/ ~Admissible)

==============================================================================
