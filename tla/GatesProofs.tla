----------------------------- MODULE GatesProofs -----------------------------
(***************************************************************************)
(* The two gates of the application, for any values of their constants.    *)
(*                                                                         *)
(* That of the contribution, before a prompt: what is cached was granted   *)
(* to the swarm and worker of now, what is shown follows from it, and a    *)
(* locked prompt is watched.  The facts are about a gate and not about the *)
(* variable, so that what Recompute guarantees is proved once and used by  *)
(* every handler.                                                          *)
(*                                                                         *)
(* That of the engine, before the IDE opens: the managed files are never a *)
(* mixture, and they implement ActiveRuntime, replaced as a whole unless   *)
(* an installation was cut short.  The invariant is about the renames of   *)
(* activateManagedRuntime(): what is in the root, in the backup and in the *)
(* stage at each of them.                                                  *)
(***************************************************************************)
EXTENDS Contribution, Startup, TLAPS

------------------------------------------------------------------------------
(* The gate of the contribution. *)

(* A check of the current epoch is about the identity of now. *)
Fenced(g) ==
  /\ g.check.epoch <= g.epoch
  /\ g.check.on /\ g.check.epoch = g.epoch => g.check.about = Identity(g)

Granted(g) == g.answer = "allowed" => g.grantee = Identity(g)

Shown(g) ==
  /\ g.connection = Admission(g)
  /\ g.connection = "ready" => \A c \in Callers : g.calls[c] # "waiting"

Watched(g) ==
  Transport(g) = "ready" /\ g.answer # "allowed" => g.check.on \/ g.retry # "none"

(* What a gate is when no handler is running. *)
Settled(g) == g \in GateType /\ Fenced(g) /\ Granted(g) /\ Shown(g)

(* The inductive invariant: GrantIsCurrent alone is not inductive, because it *)
(* is a check under way that says who the next grant is for (Fenced).         *)
IInv ==
  /\ verdict \in Verdicts /\ closed \in BOOLEAN
  /\ Settled(gate) /\ (~closed => Watched(gate))

(* deriveConnection() always has a reason. *)
LEMMA DeriveType ==
  ASSUME NEW e \in Entries \cup {NoEntry}, NEW w \in WorkerState
  PROVE  DeriveConnection(e, w) \in Reasons
  BY DEF DeriveConnection, KindReason, SchedulerReason, Saturated, HasServingPipeline, Reasons

(* A route is ready only with a running worker, of which the scheduler has    *)
(* not refused the capacity, in a swarm that is online and that has a         *)
(* pipeline not known to be saturated (deriveConnection).                     *)
THEOREM ReadyMeans ==
  ASSUME NEW e \in Entry \cup {NoEntry}, NEW w \in WorkerState,
         DeriveConnection(e, w) = "ready"
  PROVE  /\ e # NoEntry /\ w.kind = "running"
         /\ w.stage \notin {"alloc-timeout", "loading-weights"}
         /\ e.bootstrap # "failed_capacity" /\ e.status \notin {"offline", "unknown"}
         /\ e.scheduler = "available" /\ HasServingPipeline(e) /\ ~Saturated(e)
  <1>1. e # NoEntry /\ w.kind = "running"
    BY DEF DeriveConnection, KindReason
  <1>2. /\ w.stage \notin {"alloc-timeout", "loading-weights"}
        /\ e.bootstrap # "failed_capacity" /\ e.status \notin {"offline", "unknown"}
        /\ e.scheduler # "unset" /\ SchedulerReason(e) = "ready"
    BY <1>1 DEF DeriveConnection
  <1>3. e.scheduler = "available" /\ HasServingPipeline(e) /\ ~Saturated(e)
    BY <1>2 DEF SchedulerReason
  <1> QED BY <1>1, <1>2, <1>3

LEMMA AdmissionType ==
  ASSUME NEW g \in GateType
  PROVE  /\ Transport(g) \in Reasons /\ Admission(g) \in Reasons
         /\ Admission(g) = "ready" <=> Transport(g) = "ready" /\ g.answer = "allowed"
  <1>1. Transport(g) \in Reasons
    BY DeriveType DEF Transport, GateType
  <1> QED BY <1>1 DEF Admission, RequireContribution, Reasons, GateType, Answers

(* What a worker says is a state of a worker. *)
LEMMA ReportsAreStates ==
  ASSUME NEW w \in Reports
  PROVE  w \in WorkerState
  <1>1. PICK s \in Swarms : w \in Says(s)
    BY GateAssumption
  <1>2. \A e \in DOMAIN EventStage : EventStage[e] \in WorkerStage
    BY DEF EventStage, WorkerStage
  <1>3. {EventStage[e] : e \in DOMAIN EventStage} \subseteq WorkerStage
    BY <1>2
  <1> QED BY <1>1, <1>3 DEF Says, WorkerState, WorkerKind, WorkerStage

LEMMA IdentityType ==
  ASSUME NEW g \in GateType
  PROVE  Identity(g) \in Identities
  BY GateAssumption DEF Identity, Identities, GateType, Entry

(* ensureContributionCheck() leaves all but the check alone, and asks for one *)
(* if the gate is not watched.                                                *)
LEMMA EnsureKeeps ==
  ASSUME NEW g \in GateType, NEW r \in BOOLEAN, Fenced(g)
  PROVE  LET h == EnsureCheck(g, r) IN
           /\ h \in GateType /\ Fenced(h) /\ Watched(h)
           /\ \E k \in CheckType : h = [g EXCEPT !.check = k]
  <1> DEFINE h == EnsureCheck(g, r)
             k == [epoch |-> g.epoch, answer |-> "unknown", about |-> Identity(g), on |-> TRUE]
  <1>1. k \in CheckType
    BY IdentityType DEF CheckType, GateType, Answers
  <1>2. CASE h = g
    <2>1. g = [g EXCEPT !.check = g.check] /\ g.check \in CheckType
      BY DEF GateType
    <2>2. Watched(g)
      BY <1>2, <1>1 DEF EnsureCheck, Watched, GateType, CheckType
    <2> QED BY <1>2, <2>1, <2>2
  <1>3. CASE h = [g EXCEPT !.check = k]
    <2>1. h \in GateType
      BY <1>1, <1>3 DEF GateType
    <2>2. h.check = k /\ h.epoch = g.epoch /\ Identity(h) = Identity(g)
      BY <1>3 DEF GateType, Identity
    <2>3. Fenced(h) /\ Watched(h)
      BY <2>2 DEF Fenced, Watched, GateType
    <2> QED BY <1>1, <1>3, <2>1, <2>3
  <1>4. h = g \/ h = [g EXCEPT !.check = k]
    BY DEF EnsureCheck
  <1> QED BY <1>2, <1>3, <1>4

(* recomputeConnection() shows what is kept, resolves the waiters, asks for a *)
(* check if one is wanted, and leaves the rest alone.                         *)
LEMMA RecomputeSettles ==
  ASSUME NEW g \in GateType, Fenced(g), Granted(g)
  PROVE  Settled(Recompute(g)) /\ Watched(Recompute(g))
  <1> DEFINE gated == Transport(g) \in {"ready", "route-busy"} /\ g.answer # "allowed"
             next == IF gated THEN EnsureCheck(g, FALSE)
                     ELSE IF Transport(g) = "ready" THEN g ELSE Cancel(g)
             shown == [next EXCEPT !.connection = Admission(g)]
             r == Recompute(g)
  <1>1. /\ next \in GateType /\ Fenced(next) /\ Watched(next)
        /\ next.active = g.active /\ next.worker = g.worker /\ next.answer = g.answer
        /\ next.grantee = g.grantee
    <2>1. CASE gated
      <3>1. next = EnsureCheck(g, FALSE)
        BY <2>1
      <3>2. PICK k \in CheckType : EnsureCheck(g, FALSE) = [g EXCEPT !.check = k]
        BY EnsureKeeps
      <3>3. next \in GateType /\ Fenced(next) /\ Watched(next)
        BY <3>1, EnsureKeeps
      <3> QED BY <3>1, <3>2, <3>3 DEF GateType
    <2>2. CASE ~gated /\ Transport(g) = "ready"
      BY <2>2 DEF Watched
    <2>3. CASE ~gated /\ Transport(g) # "ready"
      BY <2>3 DEF GateType, Cancel, Watched, Fenced, Identity, Transport
    <2> QED BY <2>1, <2>2, <2>3
  <1>2. Admission(g) \in Reasons
    BY AdmissionType
  <1> HIDE DEF next
  <1>3. /\ shown \in GateType /\ shown.connection = Admission(g)
        /\ shown.check = next.check /\ shown.epoch = next.epoch /\ shown.retry = next.retry
        /\ shown.active = g.active /\ shown.worker = g.worker /\ shown.answer = g.answer
        /\ shown.grantee = g.grantee
    BY <1>1, <1>2 DEF GateType
  <1>4. r = Resolve(shown)
    BY DEF Recompute, next
  <1> HIDE DEF shown
  <1>5. /\ r \in GateType /\ r.connection = shown.connection
        /\ r.check = shown.check /\ r.epoch = shown.epoch /\ r.retry = shown.retry
        /\ r.active = shown.active /\ r.worker = shown.worker /\ r.answer = shown.answer
        /\ r.grantee = shown.grantee
        /\ r.connection = "ready" => \A c \in Callers : r.calls[c] # "waiting"
    <2>1. CASE shown.connection = "ready"
      <3> DEFINE calls == [c \in Callers |-> IF shown.calls[c] = "waiting" THEN "ready" ELSE shown.calls[c]]
      <3>1. r = [shown EXCEPT !.calls = calls]
        BY <1>4, <2>1 DEF Resolve
      <3>2. calls \in [Callers -> {"none", "waiting", "ready", "rejected"}]
        BY <1>3 DEF GateType
      <3>3. \A c \in Callers : calls[c] # "waiting"
        OBVIOUS
      <3> HIDE DEF calls
      <3> QED BY <1>3, <3>1, <3>2, <3>3 DEF GateType
    <2>2. CASE shown.connection # "ready"
      BY <1>3, <1>4, <2>2 DEF Resolve
    <2> QED BY <2>1, <2>2
  <1> HIDE DEF r
  <1>6. /\ Transport(r) = Transport(g) /\ Transport(next) = Transport(g)
        /\ Identity(r) = Identity(g) /\ Identity(next) = Identity(g) /\ Admission(r) = Admission(g)
    BY <1>1, <1>3, <1>5 DEF Transport, Identity, Admission
  <1>7. Fenced(r) /\ Granted(r) /\ Shown(r) /\ Watched(r)
    BY <1>1, <1>3, <1>5, <1>6 DEF Fenced, Granted, Shown, Watched
  <1> QED BY <1>5, <1>7 DEF Settled, r

(* cancelContributionCheck(true) lets go of the grant and fences the check    *)
(* under way, whatever becomes of the identity.                               *)
LEMMA ResetFences ==
  ASSUME NEW g \in GateType, NEW h \in GateType, Fenced(g),
         h.check = g.check, h.epoch = g.epoch
  PROVE  Reset(h) \in GateType /\ Fenced(Reset(h)) /\ Granted(Reset(h))
  <1>1. Reset(h) \in GateType /\ Reset(h).epoch = h.epoch + 1 /\ Reset(h).answer = "unknown"
        /\ Reset(h).check = h.check
    <2> DEFINE n == h.epoch + 1
    <2>1. n \in Nat /\ "unknown" \in Answers
      BY DEF GateType, Answers
    <2>2. Reset(h) = [h EXCEPT !.retry = "none", !.epoch = n, !.answer = "unknown"]
      BY DEF Reset
    <2> HIDE DEF n
    <2> QED BY <2>1, <2>2 DEF GateType, n
  <1>2. g.check.epoch \in Nat /\ g.epoch \in Nat
    BY DEF GateType, CheckType
  <1> QED BY <1>1, <1>2 DEF Fenced, Granted

LEMMA SetWorkerSettles ==
  ASSUME NEW g \in GateType, NEW w \in WorkerState, Settled(g)
  PROVE  Settled(SetWorker(g, w)) /\ Watched(SetWorker(g, w))
  <1> DEFINE h == [g EXCEPT !.worker = w]
  <1>1. h \in GateType /\ h.check = g.check /\ h.epoch = g.epoch
    BY DEF GateType
  <1>2. CASE w = g.worker
    <2>1. h = g
      BY <1>2 DEF GateType
    <2> QED BY <1>2, <2>1, RecomputeSettles DEF SetWorker, Settled
  <1>3. CASE w # g.worker
    <2>1. SetWorker(g, w) = Recompute(Reset(h))
      BY <1>3 DEF SetWorker
    <2>2. Reset(h) \in GateType /\ Fenced(Reset(h)) /\ Granted(Reset(h))
      BY <1>1, ResetFences DEF Settled
    <2> QED BY <2>1, <2>2, RecomputeSettles
  <1> QED BY <1>2, <1>3

LEMMA SetActiveSettles ==
  ASSUME NEW g \in GateType, NEW e \in Entries \cup {NoEntry}, Settled(g)
  PROVE  Settled(SetActive(g, e)) /\ Watched(SetActive(g, e))
  <1> DEFINE h == [g EXCEPT !.active = e]
             same == IF e = NoEntry \/ g.active = NoEntry THEN e = g.active ELSE e.id = g.active.id
  <1>1. h \in GateType /\ h.check = g.check /\ h.epoch = g.epoch /\ h.active = e
        /\ h.worker = g.worker /\ h.answer = g.answer /\ h.grantee = g.grantee
    BY DEF GateType
  <1>2. CASE same
    <2>1. Identity(h) = Identity(g)
      BY <1>1, <1>2 DEF Identity
    <2>2. Fenced(h) /\ Granted(h)
      BY <1>1, <2>1 DEF Fenced, Granted, Settled
    <2>3. SetActive(g, e) = Recompute(h)
      BY <1>2 DEF SetActive
    <2> QED BY <1>1, <2>2, <2>3, RecomputeSettles
  <1>3. CASE ~same
    <2>1. SetActive(g, e) = Recompute(Reset(h))
      BY <1>3 DEF SetActive
    <2>2. Reset(h) \in GateType /\ Fenced(Reset(h)) /\ Granted(Reset(h))
      BY <1>1, ResetFences DEF Settled
    <2> QED BY <2>1, <2>2, RecomputeSettles
  <1> QED BY <1>2, <1>3

------------------------------------------------------------------------------

LEMMA InitIInv == Init => IInv
  <1> SUFFICES ASSUME Init PROVE IInv
    OBVIOUS
  <1>1. gate \in GateType
    BY GateAssumption DEF Init, GateType, NoCheck, CheckType, Identities, Stopped, WorkerState,
       WorkerKind, WorkerStage, Answers, Reasons
  <1>2. Transport(gate) = "pick-model" /\ Admission(gate) = "pick-model"
    BY DEF Init, Transport, Admission, DeriveConnection, RequireContribution
  <1>3. Fenced(gate) /\ Granted(gate) /\ Shown(gate) /\ Watched(gate)
    BY <1>2 DEF Init, Fenced, Granted, Shown, Watched, NoCheck
  <1> QED BY <1>1, <1>3 DEF Init, IInv, Settled


(* A handler that ends with a recomputation of what it has set. *)
LEMMA RecomputeStep ==
  ASSUME IInv, NEW g \in GateType, Fenced(g), Granted(g), gate' = Recompute(g),
         UNCHANGED <<verdict, closed>>
  PROVE  IInv'
  <1>1. Settled(gate') /\ Watched(gate')
    BY RecomputeSettles
  <1>2. Settled(gate)' /\ Watched(gate)'
    BY <1>1 DEF Settled, Watched, Fenced, Granted, Shown, Identity, Transport, Admission
  <1> QED BY <1>2 DEF IInv

LEMMA StepIInv == IInv /\ [Next]_vars => IInv'
  <1> SUFFICES ASSUME IInv, [Next]_vars PROVE IInv'
    OBVIOUS
  <1>0. gate \in GateType /\ Settled(gate) /\ Fenced(gate) /\ Granted(gate) /\ Shown(gate)
    BY DEF IInv, Settled
  <1>1. ASSUME NEW e \in Entries, Feed(e) PROVE IInv'
    <2> DEFINE h == [gate EXCEPT !.active = e]
    <2>1. h \in GateType /\ Identity(h) = Identity(gate)
      BY <1>0, <1>1, EntryAssumption, GateAssumption DEF Feed, GateType, Identity
    <2>2. Fenced(h) /\ Granted(h)
      BY <1>0, <2>1 DEF Fenced, Granted, GateType
    <2> QED BY <1>1, <2>1, <2>2, RecomputeStep DEF Feed
  <1>2. ASSUME NEW e \in Entries, NEW kind \in {"starting", "missing-binary", "error"}, Join(e, kind)
        PROVE  IInv'
    <2> DEFINE h == SetActive(gate, e)
               w == [kind |-> kind, stage |-> "none", swarm |-> e.id]
    <2>1. Settled(h) /\ h \in GateType
      BY <1>0, SetActiveSettles DEF Settled
    <2>2. w \in WorkerState
      BY GateAssumption DEF WorkerState, WorkerKind, WorkerStage, Entry
    <2>3. gate' = SetWorker(h, w)
      BY <1>2 DEF Join
    <2> HIDE DEF h, w
    <2>4. Settled(gate') /\ Watched(gate')
      BY <2>1, <2>2, <2>3, SetWorkerSettles
    <2>5. Settled(gate)' /\ Watched(gate)'
      BY <2>4 DEF Settled, Watched, Fenced, Granted, Shown, Identity, Transport, Admission
    <2> QED BY <1>2, <2>5 DEF IInv, Join
  <1>3. CASE Leave
    <2> DEFINE h == SetActive(gate, NoEntry)
    <2>1. Settled(h) /\ h \in GateType
      BY <1>0, SetActiveSettles DEF Settled
    <2>2. Stopped \in WorkerState
      BY DEF Stopped, WorkerState, WorkerKind, WorkerStage
    <2>3. gate' = SetWorker(h, Stopped)
      BY <1>3 DEF Leave
    <2> HIDE DEF h
    <2>4. Settled(gate') /\ Watched(gate')
      BY <2>1, <2>2, <2>3, SetWorkerSettles
    <2>5. Settled(gate)' /\ Watched(gate)'
      BY <2>4 DEF Settled, Watched, Fenced, Granted, Shown, Identity, Transport, Admission
    <2> QED BY <1>3, <2>5 DEF IInv, Leave
  <1>4. ASSUME NEW w \in Reports, WorkerReports(w) PROVE IInv'
    <2>1. w \in WorkerState
      BY ReportsAreStates
    <2>2. Settled(gate') /\ Watched(gate')
      BY <1>0, <1>4, <2>1, SetWorkerSettles DEF WorkerReports
    <2>3. Settled(gate)' /\ Watched(gate)'
      BY <2>2 DEF Settled, Watched, Fenced, Granted, Shown, Identity, Transport, Admission
    <2> QED BY <1>4, <2>3 DEF IInv, WorkerReports
  <1>5. ASSUME NEW v \in Verdicts, Judge(v) PROVE IInv'
    BY <1>5 DEF IInv, Judge, Settled, Watched, Fenced, Granted, Shown, Identity, Transport, Admission
  <1>6. CASE Serve
    <2>1. verdict \in Answers
      BY GateAssumption DEF IInv
    <2>2. gate' \in GateType
      BY <1>0, <1>6, <2>1 DEF Serve, GateType, CheckType
    <2>3. /\ gate'.active = gate.active /\ gate'.worker = gate.worker /\ gate'.answer = gate.answer
          /\ gate'.grantee = gate.grantee /\ gate'.epoch = gate.epoch /\ gate'.retry = gate.retry
          /\ gate'.connection = gate.connection /\ gate'.calls = gate.calls
          /\ gate'.check.epoch = gate.check.epoch /\ gate'.check.on = gate.check.on
          /\ gate'.check.about = gate.check.about
      BY <1>0, <1>6 DEF Serve, GateType, CheckType
    <2>4. Identity(gate)' = Identity(gate) /\ Transport(gate)' = Transport(gate)
          /\ Admission(gate)' = Admission(gate)
      BY <2>3 DEF Identity, Transport, Admission
    <2> QED BY <1>6, <2>2, <2>3, <2>4 DEF IInv, Serve, Settled, Fenced, Granted, Shown, Watched
  <1>7. CASE CheckEnds
    <2>1. NoCheck \in CheckType /\ NoCheck.epoch = 0 /\ ~NoCheck.on
      BY DEF NoCheck, CheckType, Identities, Stopped, WorkerState, WorkerKind, WorkerStage, Answers
    <2>2. CASE gate.check.epoch # gate.epoch
      <3> DEFINE h == [gate EXCEPT !.check = NoCheck]
      <3>1. h \in GateType /\ Fenced(h) /\ Granted(h)
        <4>1. /\ h \in GateType /\ h.check = NoCheck /\ h.answer = gate.answer
              /\ h.grantee = gate.grantee /\ Identity(h) = Identity(gate)
          BY <1>0, <2>1 DEF GateType, Identity
        <4>2. h.epoch \in Nat
          BY <4>1 DEF GateType
        <4> QED BY <1>0, <2>1, <4>1, <4>2 DEF Fenced, Granted
      <3> QED BY <1>7, <2>2, <3>1, RecomputeStep DEF CheckEnds
    <2>3. CASE gate.check.epoch = gate.epoch
      <3> DEFINE g == [gate EXCEPT !.check = NoCheck, !.answer = gate.check.answer,
                                   !.grantee = gate.check.about]
                 h == [g EXCEPT !.retry = IF g.answer = "allowed" THEN "revalidate" ELSE "retry"]
                 k == IF Transport(g) = "ready" THEN h ELSE g
      <3>1. gate.check.on /\ gate.check.about = Identity(gate)
        BY <1>0, <1>7, <2>3 DEF CheckEnds, Fenced
      <3>2. /\ g \in GateType /\ g.check = NoCheck /\ g.grantee = Identity(gate)
            /\ Identity(g) = Identity(gate)
        BY <1>0, <2>1, <3>1 DEF GateType, CheckType, Identity
      <3>3. Fenced(g) /\ Granted(g)
        <4>1. g.epoch \in Nat
          BY <3>2 DEF GateType
        <4> QED BY <2>1, <3>2, <4>1 DEF Fenced, Granted
      <3> HIDE DEF g
      <3>4. h \in GateType /\ Fenced(h) /\ Granted(h)
        BY <3>2, <3>3 DEF GateType, Fenced, Granted, Identity
      <3>5. gate' = Recompute(k)
        BY <1>7, <2>3 DEF CheckEnds, g
      <3>6. k \in GateType /\ Fenced(k) /\ Granted(k)
        BY <3>2, <3>3, <3>4
      <3> HIDE DEF k
      <3> QED BY <1>7, <3>5, <3>6, RecomputeStep DEF CheckEnds
    <2> QED BY <2>2, <2>3
  <1>8. CASE RetryFires
    <2> DEFINE c == Cancel(gate)
    <2>1. c \in GateType /\ Fenced(c)
      BY <1>0 DEF Cancel, GateType, Fenced, Identity
    <2>2. (gate.retry = "revalidate") \in BOOLEAN
      OBVIOUS
    <2>3. PICK k \in CheckType : gate' = [c EXCEPT !.check = k]
      BY <1>8, <2>1, <2>2, EnsureKeeps DEF RetryFires
    <2>4. gate' \in GateType /\ Fenced(gate') /\ Watched(gate')
      BY <1>8, <2>1, <2>2, EnsureKeeps DEF RetryFires
    <2>5. /\ gate'.active = gate.active /\ gate'.worker = gate.worker /\ gate'.answer = gate.answer
          /\ gate'.grantee = gate.grantee /\ gate'.connection = gate.connection
          /\ gate'.calls = gate.calls
      BY <1>0, <2>3 DEF Cancel, GateType
    <2>6. Granted(gate') /\ Shown(gate')
      BY <1>0, <2>5 DEF Granted, Shown, Identity, Transport, Admission
    <2>7. Settled(gate)' /\ Watched(gate)'
      BY <2>4, <2>6 DEF Settled, Watched, Fenced, Granted, Shown, Identity, Transport, Admission
    <2> QED BY <1>8, <2>7 DEF IInv, RetryFires
  <1>9. ASSUME NEW f \in [Callers -> {"none", "waiting", "ready", "rejected"}],
               gate' = [gate EXCEPT !.calls = f],
               gate.connection = "ready" => \A c \in Callers : f[c] # "waiting",
               UNCHANGED <<verdict, closed>>
        PROVE  IInv'
    <2>1. gate' \in GateType
      BY <1>0, <1>9 DEF GateType
    <2>2. /\ gate'.active = gate.active /\ gate'.worker = gate.worker /\ gate'.answer = gate.answer
          /\ gate'.grantee = gate.grantee /\ gate'.connection = gate.connection /\ gate'.calls = f
          /\ gate'.check = gate.check /\ gate'.epoch = gate.epoch /\ gate'.retry = gate.retry
      BY <1>0, <1>9 DEF GateType
    <2>3. Identity(gate)' = Identity(gate) /\ Transport(gate)' = Transport(gate)
          /\ Admission(gate)' = Admission(gate)
      BY <2>2 DEF Identity, Transport, Admission
    <2> QED BY <1>9, <2>1, <2>2, <2>3 DEF IInv, Settled, Fenced, Granted, Shown, Watched
  <1>10. ASSUME NEW c \in Callers, Wait(c) PROVE IInv'
    <2> DEFINE x == IF gate.connection = "ready" THEN "ready"
                    ELSE IF gate.connection = "pick-model" THEN "rejected" ELSE "waiting"
               f == [gate.calls EXCEPT ![c] = x]
    <2>1. f \in [Callers -> {"none", "waiting", "ready", "rejected"}]
      BY <1>0 DEF GateType
    <2>2. gate.connection = "ready" => \A d \in Callers : f[d] # "waiting"
      BY <1>0 DEF Shown, GateType
    <2>3. gate' = [gate EXCEPT !.calls = f] /\ UNCHANGED <<verdict, closed>>
      BY <1>10 DEF Wait
    <2> HIDE DEF f
    <2> QED BY <1>9, <2>1, <2>2, <2>3
  <1>11. ASSUME NEW c \in Callers, TimesOut(c) PROVE IInv'
    <2> DEFINE f == [gate.calls EXCEPT ![c] = "rejected"]
    <2>1. f \in [Callers -> {"none", "waiting", "ready", "rejected"}]
      BY <1>0 DEF GateType
    <2>2. gate.connection = "ready" => \A d \in Callers : f[d] # "waiting"
      BY <1>0 DEF Shown, GateType
    <2>3. gate' = [gate EXCEPT !.calls = f] /\ UNCHANGED <<verdict, closed>>
      BY <1>11 DEF TimesOut
    <2> HIDE DEF f
    <2> QED BY <1>9, <2>1, <2>2, <2>3
  <1>12. CASE Close
    <2> DEFINE f == [c \in Callers |-> IF gate.calls[c] = "waiting" THEN "rejected" ELSE gate.calls[c]]
    <2>1. f \in [Callers -> {"none", "waiting", "ready", "rejected"}]
      BY <1>0 DEF GateType
    <2>2. gate' = [gate EXCEPT !.retry = "none", !.calls = f]
      BY <1>0, <1>12 DEF Close, Cancel, GateType
    <2>3. \A d \in Callers : f[d] # "waiting"
      OBVIOUS
    <2> HIDE DEF f
    <2>4. /\ gate' \in GateType
          /\ gate'.active = gate.active /\ gate'.worker = gate.worker /\ gate'.answer = gate.answer
          /\ gate'.grantee = gate.grantee /\ gate'.connection = gate.connection /\ gate'.calls = f
          /\ gate'.check = gate.check /\ gate'.epoch = gate.epoch
      BY <1>0, <2>1, <2>2 DEF GateType
    <2>5. Identity(gate)' = Identity(gate) /\ Admission(gate)' = Admission(gate)
      BY <2>4 DEF Identity, Transport, Admission
    <2> QED BY <1>0, <1>12, <2>3, <2>4, <2>5 DEF IInv, Close, Settled, Fenced, Granted, Shown
  <1>13. CASE UNCHANGED vars
    BY <1>13 DEF IInv, vars, Settled, Watched, Fenced, Granted, Shown, Identity, Transport, Admission
  <1> QED BY <1>1, <1>2, <1>3, <1>4, <1>5, <1>6, <1>7, <1>8, <1>10, <1>11, <1>12, <1>13
         DEF Next, Environment

(* IInv is an invariant of the specification. *)
THEOREM Inductive == Spec => []IInv
  BY InitIInv, StepIInv, PTL DEF Spec

(* The types, for any swarms, entries and callers. *)
THEOREM Typed == Spec => []TypeOK
  <1>1. IInv => TypeOK
    BY DEF IInv, Settled, TypeOK
  <1> QED BY <1>1, Inductive, PTL

(* No answer outlives the swarm or the worker it is about, however late it is *)
(* (contributionEpoch).                                                       *)
THEOREM GrantsAreCurrent == Spec => []GrantIsCurrent
  <1>1. IInv => GrantIsCurrent
    BY DEF IInv, Settled, Granted, GrantIsCurrent
  <1> QED BY <1>1, Inductive, PTL

(* What is shown is what deriveConnection() and requireContribution() say of  *)
(* what is kept, and nobody waits for a prompt that is open.                  *)
THEOREM ShownFollows == Spec => []ShownIsKept
  <1>1. IInv => ShownIsKept
    BY DEF IInv, Settled, Shown, ShownIsKept
  <1> QED BY <1>1, Inductive, PTL

(* A ready route that is locked always has a check or a timer to unlock it.   *)
THEOREM LockedIsWatched == Spec => []GateIsWatched
  <1>1. IInv => GateIsWatched
    BY DEF IInv, Watched, GateIsWatched
  <1> QED BY <1>1, Inductive, PTL

(* An open prompt is one of a running worker, in a swarm that is online and   *)
(* has a pipeline, whose contribution was granted to that swarm and worker.   *)
THEOREM OpenMeans ==
  Spec => [](gate.connection = "ready" =>
               /\ gate.worker.kind = "running" /\ gate.active # NoEntry
               /\ gate.active.scheduler = "available" /\ ~Saturated(gate.active)
               /\ gate.answer = "allowed" /\ gate.grantee = Identity(gate))
  <1>1. IInv /\ gate.connection = "ready" =>
               /\ gate.worker.kind = "running" /\ gate.active # NoEntry
               /\ gate.active.scheduler = "available" /\ ~Saturated(gate.active)
               /\ gate.answer = "allowed" /\ gate.grantee = Identity(gate)
    <2> SUFFICES ASSUME IInv, gate.connection = "ready"
                 PROVE  /\ gate.worker.kind = "running" /\ gate.active # NoEntry
                        /\ gate.active.scheduler = "available" /\ ~Saturated(gate.active)
                        /\ gate.answer = "allowed" /\ gate.grantee = Identity(gate)
      OBVIOUS
    <2>1. gate \in GateType /\ Admission(gate) = "ready" /\ Granted(gate)
      BY DEF IInv, Settled, Shown
    <2>2. Transport(gate) = "ready" /\ gate.answer = "allowed"
      BY <2>1, AdmissionType
    <2>3. gate.active \in Entry \cup {NoEntry} /\ gate.worker \in WorkerState
      BY <2>1, GateAssumption DEF GateType
    <2> QED BY <2>1, <2>2, <2>3, ReadyMeans DEF Transport, Granted
  <1> QED BY <1>1, Inductive, PTL

------------------------------------------------------------------------------
(* The gate of the engine. *)

Swapping == {"aside", "activate", "validate", "undo"}

(* The backup is of one release, and so is the root until something new is    *)
(* in it.                                                                     *)
OldIsOne ==
  \E r \in Releases : \A p \in Paths :
    aside[p] \in {r, Absent} /\ (swapped = {} => root[p] \in {r, Absent})

(* What was activated, and what is going to be, is of one release. *)
NewIsOne ==
  \E r \in Releases :
    /\ \A p \in swapped : root[p] = r
    /\ pc \in {"aside", "activate"} => \A p \in Paths \ swapped : staging[p] = r

(* The old files are all set aside before the first new one comes. *)
OldBeforeNew ==
  \A p \in Paths \ swapped :
    /\ pc = "activate" \/ swapped # {} => root[p] = Absent
    /\ root[p] # Absent => aside[p] = Absent

SwapStages ==
  /\ pc \notin Swapping => aside = Empty /\ swapped = {}
  /\ pc = "aside" => swapped = {}
  /\ pc = "validate" => swapped = Paths

SwapInv == OldIsOne /\ NewIsOne /\ OldBeforeNew /\ SwapStages

StartInv == StartTypeOK /\ SwapInv

(* The installation is one release's at each step of a swap. *)
LEMMA NeverMixed ==
  ASSUME StartInv
  PROVE  OneRelease
  <1>1. CASE swapped = {}
    BY <1>1 DEF StartInv, SwapInv, OldIsOne, OneRelease
  <1>2. CASE swapped # {}
    BY <1>2 DEF StartInv, SwapInv, NewIsOne, OldBeforeNew, OneRelease
  <1> QED BY <1>1, <1>2

(* Outside of a swap nothing is promised but the files that are there. *)
LEMMA RestsWhole ==
  ASSUME OneRelease, aside = Empty, swapped = {}, pc \notin Swapping
  PROVE  SwapInv
  <1>1. Releases # {}
    BY DEF OneRelease
  <1> QED BY <1>1 DEF OneRelease, SwapInv, OldIsOne, NewIsOne, OldBeforeNew, SwapStages,
                      Empty, Swapping


------------------------------------------------------------------------------
(* Outside of the swap *)

(* A step that renames nothing and begins no swap. *)
Still ==
  /\ UNCHANGED disk
  /\ pc' # pc => pc \notin Swapping /\ pc' \notin Swapping

LEMMA StillKeeps ==
  ASSUME SwapInv, Still
  PROVE  SwapInv' /\ Committed' = Committed
  BY DEF Still, disk, SwapInv, OldIsOne, NewIsOne, OldBeforeNew, SwapStages, Swapping, Committed

LEMMA ThrowsIsStill ==
  ASSUME pc \notin Swapping, Throws
  PROVE  Still
  BY DEF Throws, Ends, Still, Swapping

LEMMA GotoIsStill ==
  ASSUME pc \notin Swapping, NEW step \in {"manifest", "sum", "fetch", "join", "stuck", "extract"}, Goto(step)
  PROVE  Still
  BY DEF Goto, Still, Swapping

LEMMA RetryIsStill ==
  ASSUME NEW d, pc = "fetch", Retry(d)
  PROVE  Still
  BY ThrowsIsStill, GotoIsStill DEF Retry, Swapping

(* The download renames nothing; what was unpacked is of one release. *)
LEMMA DownloadKeeps ==
  ASSUME StartInv, Download
  PROVE  SwapInv' /\ Committed' = Committed
  <1> USE DEF Swapping
  <1>1. ASSUME MetaRetries \/ MetaThrows \/ MetaRefused \/ ManifestAnswers \/ SumAnswers PROVE Still
    <2>1. CASE MetaRetries
      BY <2>1, GotoIsStill DEF MetaRetries, Meta
    <2>2. CASE MetaThrows
      BY <2>2, ThrowsIsStill DEF MetaThrows, Meta
    <2>3. CASE MetaRefused
      BY <2>3, ThrowsIsStill, GotoIsStill DEF MetaRefused, Meta
    <2>4. CASE ManifestAnswers
      BY <2>4, GotoIsStill DEF ManifestAnswers
    <2>5. CASE SumAnswers
      BY <2>5, ThrowsIsStill, GotoIsStill DEF SumAnswers
    <2> QED BY <1>1, <2>1, <2>2, <2>3, <2>4, <2>5
  <1>2. ASSUME RequestFails \/ RequestRefused \/ AnswersWhole \/ AnswersRest \/ AnswersAstray PROVE Still
    <2>1. CASE RequestFails
      BY <2>1, RetryIsStill DEF RequestFails, Fetching
    <2>2. CASE RequestRefused
      BY <2>2, ThrowsIsStill DEF RequestRefused, Fetching
    <2>3. CASE AnswersWhole
      BY <2>3, GotoIsStill DEF AnswersWhole, Fetching
    <2>4. CASE AnswersRest
      BY <2>4, GotoIsStill DEF AnswersRest, Fetching
    <2>5. CASE AnswersAstray
      BY <2>5, RetryIsStill DEF AnswersAstray, Fetching
    <2> QED BY <1>2, <2>1, <2>2, <2>3, <2>4, <2>5
  <1>3. ASSUME Opens \/ Breaks \/ Chunk \/ AssetDone \/ ExtractFails PROVE Still
    <2>1. CASE Opens
      BY <2>1, GotoIsStill DEF Opens
    <2>2. CASE Breaks
      BY <2>2, RetryIsStill DEF Breaks
    <2>3. CASE Chunk
      BY <2>3, GotoIsStill DEF Chunk
    <2>4. CASE AssetDone
      BY <2>4, GotoIsStill DEF AssetDone
    <2>5. CASE ExtractFails
      BY <2>5, ThrowsIsStill DEF ExtractFails
    <2> QED BY <1>3, <2>1, <2>2, <2>3, <2>4, <2>5
  <1>5. ASSUME Joined \/ JoinFails \/ JoinHangs PROVE Still
    BY <1>5, GotoIsStill, ThrowsIsStill DEF Joined, JoinFails, JoinHangs
  <1>4. ASSUME Extracted PROVE SwapInv' /\ Committed' = Committed
    <2>1. CASE dl.archive \in Sound \cap Qualified \cap WithAgent
      <3>1. dl.archive \in Releases
        BY <2>1, InstallAssumption
      <3>2. pc = "extract" /\ swapped = {} /\ aside = Empty
        BY <1>4 DEF Extracted, StartInv, SwapInv, SwapStages
      <3>3. /\ staging' = Whole(dl.archive) /\ pc' = (IF root = Empty THEN "activate" ELSE "aside")
            /\ root' = root /\ aside' = aside /\ swapped' = swapped
        BY <1>4, <2>1 DEF Extracted
      <3>4. OldIsOne' /\ SwapStages' /\ Committed' = Committed
        BY <3>2, <3>3 DEF StartInv, SwapInv, OldIsOne, SwapStages, Committed
      <3>5. NewIsOne'
        BY <3>1, <3>2, <3>3 DEF NewIsOne, Whole
      <3>6. OldBeforeNew'
        BY <3>2, <3>3 DEF OldBeforeNew, Empty
      <3> QED BY <3>4, <3>5, <3>6 DEF SwapInv
    <2>2. CASE dl.archive \notin Sound \cap Qualified \cap WithAgent
      <3>1. Still
        BY <1>4, <2>2, ThrowsIsStill DEF Extracted
      <3> QED BY <3>1, StillKeeps DEF StartInv
    <2> QED BY <2>1, <2>2
  <1> QED BY <1>1, <1>2, <1>3, <1>4, <1>5, StillKeeps DEF Download, StartInv


------------------------------------------------------------------------------
(* The swap *)

(* Setting a path aside takes it from the root to the backup. *)
LEMMA SetAsideKeeps ==
  ASSUME StartInv, NEW q \in Paths, SetAside(q)
  PROVE  SwapInv' /\ Committed' = Committed
  <1> DEFINE left == [root EXCEPT ![q] = Absent]
  <1>1. /\ pc = "aside" /\ root[q] # Absent /\ swapped = {} /\ swapped' = {} /\ staging' = staging
        /\ root' = left /\ aside' = [aside EXCEPT ![q] = root[q]]
        /\ pc' = (IF left = Empty THEN "activate" ELSE "aside")
    BY DEF SetAside, Disk, StartInv, SwapInv, SwapStages
  <1>2. root \in Dirs /\ aside \in Dirs
    BY DEF StartInv, StartTypeOK, InstallTypeOK
  <1>3. /\ \A p \in Paths : p # q => root'[p] = root[p] /\ aside'[p] = aside[p]
        /\ root'[q] = Absent /\ aside'[q] = root[q]
    BY <1>1, <1>2 DEF Dirs
  <1>4. aside[q] = Absent
    BY <1>1 DEF StartInv, SwapInv, OldBeforeNew
  <1>5. OldIsOne'
    BY <1>1, <1>3 DEF StartInv, SwapInv, OldIsOne
  <1>6. NewIsOne' /\ SwapStages'
    BY <1>1 DEF StartInv, SwapInv, NewIsOne, SwapStages, Swapping
  <1>7. OldBeforeNew'
    BY <1>1, <1>3 DEF StartInv, SwapInv, OldBeforeNew, Empty
  <1>8. Committed' = Committed
    BY <1>1, <1>3, <1>4 DEF Committed
  <1> QED BY <1>5, <1>6, <1>7, <1>8 DEF SwapInv

(* The root was emptied: what comes in is all of the new release. *)
LEMMA ActivateKeeps ==
  ASSUME StartInv, NEW q \in Paths, Activate(q)
  PROVE  SwapInv' /\ Committed' = Committed
  <1>1. /\ pc = "activate" /\ q \notin swapped /\ swapped' = swapped \cup {q} /\ aside' = aside
        /\ staging' = [staging EXCEPT ![q] = Absent] /\ root' = [root EXCEPT ![q] = staging[q]]
        /\ pc' = (IF swapped \cup {q} = Paths THEN "validate" ELSE "activate")
    BY DEF Activate, Disk
  <1>2. root \in Dirs /\ staging \in Dirs /\ swapped \subseteq Paths
    BY DEF StartInv, StartTypeOK, InstallTypeOK
  <1>3. /\ \A p \in Paths : p # q => root'[p] = root[p] /\ staging'[p] = staging[p]
        /\ root'[q] = staging[q]
    BY <1>1, <1>2 DEF Dirs
  <1>4. \A p \in Paths \ swapped : root[p] = Absent
    BY <1>1 DEF StartInv, SwapInv, OldBeforeNew
  <1>5. OldIsOne' /\ SwapStages'
    BY <1>1 DEF StartInv, SwapInv, OldIsOne, SwapStages, Swapping
  <1>6. NewIsOne'
    <2>1. PICK r \in Releases : /\ \A p \in swapped : root[p] = r
                               /\ \A p \in Paths \ swapped : staging[p] = r
      BY <1>1 DEF StartInv, SwapInv, NewIsOne
    <2>2. \A p \in swapped' : root'[p] = r
      BY <1>1, <1>2, <1>3, <2>1
    <2>3. \A p \in Paths \ swapped' : staging'[p] = r
      BY <1>1, <1>3, <2>1
    <2> QED BY <2>2, <2>3 DEF NewIsOne
  <1>7. OldBeforeNew'
    BY <1>1, <1>3, <1>4 DEF OldBeforeNew
  <1>8. Committed' = Committed
    BY <1>1, <1>3, <1>4 DEF Committed
  <1> QED BY <1>5, <1>6, <1>7, <1>8 DEF SwapInv

(* A fault renames nothing, and what it leaves is what the roll-back expects. *)
LEMMA FaultKeeps ==
  ASSUME StartInv, Fault
  PROVE  SwapInv' /\ Committed' = Committed
  <1>1. /\ pc' = "undo" /\ staging' = staging /\ root' = root /\ aside' = aside
        /\ swapped' = swapped
    BY DEF Fault, Disk
  <1> QED BY <1>1 DEF StartInv, SwapInv, OldIsOne, NewIsOne, OldBeforeNew, SwapStages, Swapping, Committed

(* The new files go first. *)
LEMMA UndoKeeps ==
  ASSUME StartInv, NEW q \in Paths, Undo(q)
  PROVE  SwapInv' /\ Committed' = Committed
  <1>1. /\ pc = "undo" /\ pc' = "undo" /\ q \in swapped /\ swapped' = swapped \ {q}
        /\ aside' = aside /\ staging' = staging /\ root' = [root EXCEPT ![q] = Absent]
    BY DEF Undo, Disk
  <1>2. root \in Dirs /\ swapped \subseteq Paths
    BY DEF StartInv, StartTypeOK, InstallTypeOK
  <1>3. (\A p \in Paths : p # q => root'[p] = root[p]) /\ root'[q] = Absent
    BY <1>1, <1>2 DEF Dirs
  <1>4. \A p \in Paths \ swapped : root[p] = Absent
    BY <1>1 DEF StartInv, SwapInv, OldBeforeNew
  <1>5. OldIsOne'
    BY <1>1, <1>3, <1>4 DEF StartInv, SwapInv, OldIsOne
  <1>6. NewIsOne' /\ SwapStages'
    BY <1>1, <1>2, <1>3 DEF StartInv, SwapInv, NewIsOne, SwapStages, Swapping
  <1>7. OldBeforeNew'
    BY <1>1, <1>3, <1>4 DEF OldBeforeNew
  <1>8. Committed' = Committed
    BY <1>1, <1>3, <1>4 DEF Committed
  <1> QED BY <1>5, <1>6, <1>7, <1>8 DEF SwapInv

(* Then the old ones come back. *)
LEMMA RestoreKeeps ==
  ASSUME StartInv, NEW q \in Paths, Restore(q)
  PROVE  SwapInv' /\ Committed' = Committed
  <1>1. /\ pc = "undo" /\ pc' = "undo" /\ swapped = {} /\ swapped' = {} /\ aside[q] # Absent
        /\ staging' = staging /\ root' = [root EXCEPT ![q] = aside[q]]
        /\ aside' = [aside EXCEPT ![q] = Absent]
    BY DEF Restore, Disk
  <1>2. root \in Dirs /\ aside \in Dirs
    BY DEF StartInv, StartTypeOK, InstallTypeOK
  <1>3. /\ \A p \in Paths : p # q => root'[p] = root[p] /\ aside'[p] = aside[p]
        /\ root'[q] = aside[q] /\ aside'[q] = Absent
    BY <1>1, <1>2 DEF Dirs
  <1>4. OldIsOne'
    BY <1>1, <1>3 DEF StartInv, SwapInv, OldIsOne
  <1>5. NewIsOne' /\ SwapStages'
    BY <1>1 DEF StartInv, SwapInv, NewIsOne, SwapStages, Swapping
  <1>6. OldBeforeNew'
    BY <1>1, <1>3 DEF StartInv, SwapInv, OldBeforeNew
  <1>7. Committed' = Committed
    BY <1>1, <1>3 DEF Committed
  <1> QED BY <1>4, <1>5, <1>6, <1>7 DEF SwapInv

(* The end of a swap leaves the root as it is. *)
LEMMA LeavesRests ==
  ASSUME StartInv, NEW r, NEW others, Leaves(r, others)
  PROVE  SwapInv' /\ OneRelease' /\ Committed' = root
  <1>1. /\ pc' = "idle" /\ root' = root /\ aside' = Empty /\ swapped' = {}
    BY DEF Leaves, Ends
  <1>2. OneRelease'
    BY <1>1, NeverMixed DEF OneRelease
  <1>3. SwapInv'
    <2>1. Releases # {}
      BY <1>2 DEF OneRelease
    <2> QED BY <1>1, <1>2, <2>1 DEF OneRelease, SwapInv, OldIsOne, NewIsOne, OldBeforeNew, SwapStages,
                                   Empty, Swapping
  <1>4. root \in Dirs
    BY DEF StartInv, StartTypeOK, InstallTypeOK
  <1>5. Committed' = root
    BY <1>1, <1>4 DEF Committed, Empty, Dirs
  <1> QED BY <1>2, <1>3, <1>5


(* A commitment replaces all of the files, a mishap leaves those of a release. *)
LEMMA EndsImplement ==
  ASSUME StartInv, RolledBack \/ RollbackFails \/ Commit \/ Crash
  PROVE  /\ SwapInv'
         /\ Active!Next \/ UNCHANGED <<Committed, mishaps>>
  <1>1. root \in Dirs /\ aside \in Dirs /\ swapped \subseteq Paths
    BY DEF StartInv, StartTypeOK, InstallTypeOK
  <1>2. CASE RolledBack
    <2>1. SwapInv' /\ Committed' = root /\ mishaps' = mishaps
      BY <1>2, LeavesRests DEF RolledBack
    <2>2. Committed = root
      BY <1>1, <1>2 DEF RolledBack, Committed, Empty, Dirs
    <2> QED BY <2>1, <2>2
  <1>3. ASSUME RollbackFails \/ Crash
        PROVE  SwapInv' /\ Active!Next
    <2>1. SwapInv' /\ OneRelease' /\ Committed' = root /\ root' = root /\ mishaps' = mishaps + 1
      BY <1>3, LeavesRests DEF RollbackFails, Crash, Leaves
    <2>2. PICK r \in Releases : \A p \in Paths : root[p] \in {r, Absent}
      BY NeverMixed DEF OneRelease
    <2>3. root \in [Paths -> {r, Absent}]
      BY <1>1, <2>2 DEF Dirs
    <2> QED BY <2>1, <2>3 DEF Active!Next, Active!Break, Active!Of
  <1>4. CASE Commit
    <2>1. SwapInv' /\ Committed' = root /\ mishaps' = mishaps
      BY <1>4, LeavesRests DEF Commit
    <2>2. swapped = Paths
      BY <1>4 DEF Commit, StartInv, SwapInv, SwapStages
    <2>3. PICK r \in Releases : \A p \in Paths : root[p] = r
      BY <2>2 DEF StartInv, SwapInv, NewIsOne
    <2>4. root = [p \in Paths |-> r]
      BY <1>1, <2>3 DEF Dirs
    <2> QED BY <2>1, <2>3, <2>4 DEF Active!Next, Active!Replace
  <1> QED BY <1>2, <1>3, <1>4

------------------------------------------------------------------------------
(* The invariant and the refinement *)

LEMMA InstallSteps ==
  ASSUME StartInv, InstallStep
  PROVE  SwapInv' /\ (Active!Next \/ UNCHANGED <<Committed, mishaps>>)
  <1>1. CASE Download
    <2>1. mishaps' = mishaps
      BY <1>1 DEF Download, MetaRetries, MetaThrows, MetaRefused, ManifestAnswers, SumAnswers,
           RequestFails, RequestRefused, AnswersWhole, AnswersRest, AnswersAstray, Opens, Breaks, Chunk,
           AssetDone, Joined, JoinFails, JoinHangs, Extracted, ExtractFails, Throws, Retry, Goto, disk
    <2> QED BY <1>1, <2>1, DownloadKeeps
  <1>2. CASE \E p \in Paths : SetAside(p) \/ Activate(p) \/ Undo(p) \/ Restore(p)
    <2>1. mishaps' = mishaps
      BY <1>2 DEF SetAside, Activate, Undo, Restore, Disk
    <2> QED BY <1>2, <2>1, SetAsideKeeps, ActivateKeeps, UndoKeeps, RestoreKeeps
  <1>3. CASE Fault
    BY <1>3, FaultKeeps DEF Fault, Disk
  <1>4. CASE RolledBack \/ RollbackFails \/ Commit
    BY <1>4, EndsImplement
  <1> QED BY <1>1, <1>2, <1>3, <1>4 DEF InstallStep, Swap


(* The other steps rename nothing. *)
LEMMA StartSteps ==
  ASSUME StartInv,
         \/ NoUpdate \/ UpdateFound \/ UpdateClicked \/ UpdateDownloaded \/ UpdateFails
         \/ InstallClicked \/ UpdateCloses \/ Updated
         \/ Pass \/ LauncherOpens \/ LauncherFails \/ DialogRetried \/ DialogQuit
         \/ AttemptInstall \/ Finish \/ EnsureRuntime \/ Publish
  PROVE  Still
  <1>1. CASE \/ NoUpdate \/ UpdateFound \/ UpdateClicked \/ UpdateDownloaded \/ UpdateFails
             \/ InstallClicked \/ UpdateCloses \/ Updated
             \/ Pass \/ LauncherOpens \/ LauncherFails \/ DialogRetried \/ DialogQuit
             \/ Finish \/ Publish
    BY <1>1 DEF NoUpdate, UpdateFound, UpdateClicked, UpdateDownloaded, UpdateFails, InstallClicked,
         UpdateCloses, Updated, Pass, LauncherOpens, LauncherFails, DialogRetried, DialogQuit, Finish,
         Publish, To, Window, installVars, Still
  <1>2. CASE AttemptInstall \/ EnsureRuntime
    BY <1>2, GotoIsStill DEF AttemptInstall, EnsureRuntime, Begin, Swapping
  <1> QED BY <1>1, <1>2

LEMMA Steps ==
  ASSUME StartInv, [StartNext]_launchVars
  PROVE  SwapInv' /\ (Active!Next \/ UNCHANGED <<Committed, mishaps>>)
  <1>1. CASE Installs
    BY <1>1, InstallSteps DEF Installs
  <1>2. CASE Restart
    <2>1. CASE pc = "idle"
      <3>1. Still
        BY <1>2, <2>1 DEF Restart, Still
      <3> QED BY <3>1, StillKeeps DEF StartInv, Still, disk
    <2>2. CASE pc # "idle"
      BY <1>2, <2>2, EndsImplement DEF Restart
    <2> QED BY <2>1, <2>2
  <1>3. CASE UNCHANGED launchVars
    <2>1. Still
      BY <1>3 DEF launchVars, installVars, Still
    <2> QED BY <2>1, StillKeeps DEF StartInv, Still, disk
  <1>4. ASSUME [StartNext]_launchVars, ~Installs, ~Restart, ~UNCHANGED launchVars
        PROVE  SwapInv' /\ UNCHANGED <<Committed, mishaps>>
    <2>1. Still
      BY <1>4, StartSteps DEF StartNext
    <2> QED BY <2>1, StillKeeps DEF StartInv, Still, disk
  <1> QED BY <1>1, <1>2, <1>3, <1>4


------------------------------------------------------------------------------
(* Types *)

DiskTypes ==
  /\ staging \in Dirs /\ root \in Dirs /\ aside \in Dirs
  /\ swapped \subseteq Paths /\ orphans \subseteq Dirs /\ mishaps \in 0..MaxMishaps

ControlTypes ==
  /\ published \in Releases
  /\ pc \in {"idle", "fetch", "join", "stuck", "extract", "aside", "activate", "validate", "undo"} \cup Meta
  /\ result \in {"none", "ok", "failed"}

StartTypes ==
  /\ stage \in Stages
  /\ update \in [busy : BOOLEAN, downloaded : BOOLEAN, installing : BOOLEAN, open : BOOLEAN]
  /\ starts \in 1..MaxStarts
  /\ packaged \in BOOLEAN

LEMMA TypeParts == StartTypeOK <=> DiskTypes /\ ControlTypes /\ StartTypes
  BY DEF StartTypeOK, InstallTypeOK, DiskTypes, ControlTypes, StartTypes

LEMMA LeavesTypes ==
  ASSUME DiskTypes, ControlTypes, NEW r \in {"none", "ok", "failed"}, NEW others \in SUBSET Dirs,
         Leaves(r, others), mishaps' \in 0..MaxMishaps
  PROVE  DiskTypes' /\ ControlTypes'
  BY DEF Leaves, Ends, DiskTypes, ControlTypes, Empty, Dirs

LEMMA WithAsideType ==
  ASSUME DiskTypes
  PROVE  WithAside \subseteq Dirs
  BY DEF DiskTypes, WithAside

LEMMA CrashTypes ==
  ASSUME DiskTypes, ControlTypes, Crash
  PROVE  DiskTypes' /\ ControlTypes'
  <1>1. mishaps' \in 0..MaxMishaps
    BY InstallAssumption DEF Crash, DiskTypes
  <1> QED BY <1>1, WithAsideType, LeavesTypes DEF Crash

LEMMA DownloadTypes ==
  ASSUME DiskTypes, ControlTypes, Download
  PROVE  DiskTypes' /\ ControlTypes'
  <1>1. ASSUME Throws \/ \E step \in {"manifest", "sum", "fetch", "join", "stuck", "extract"} : Goto(step)
        PROVE  DiskTypes' /\ ControlTypes'
    BY <1>1 DEF Throws, Ends, Goto, disk, DiskTypes, ControlTypes, Meta
  <1>2. ASSUME NEW d, Retry(d)
        PROVE  DiskTypes' /\ ControlTypes'
    BY <1>1, <1>2 DEF Retry
  <1>3. CASE MetaRetries \/ MetaThrows \/ MetaRefused \/ ManifestAnswers \/ SumAnswers
    BY <1>1, <1>3 DEF MetaRetries, MetaThrows, MetaRefused, ManifestAnswers, SumAnswers, Meta
  <1>4. CASE RequestFails \/ RequestRefused \/ AnswersWhole \/ AnswersRest \/ AnswersAstray
    BY <1>1, <1>2, <1>4 DEF RequestFails, RequestRefused, AnswersWhole, AnswersRest, AnswersAstray, Fetching
  <1>5. CASE Opens \/ Breaks \/ Chunk \/ AssetDone \/ ExtractFails \/ Joined \/ JoinFails \/ JoinHangs
    BY <1>1, <1>2, <1>5 DEF Opens, Breaks, Chunk, AssetDone, ExtractFails, Joined, JoinFails, JoinHangs
  <1>6. CASE Extracted
    <2>1. CASE dl.archive \in Sound \cap Qualified \cap WithAgent
      <3>1. dl.archive \in Releases
        BY <2>1, InstallAssumption
      <3> QED BY <1>6, <2>1, <3>1 DEF Extracted, Whole, Dirs, DiskTypes, ControlTypes
    <2> QED BY <1>1, <1>6, <2>1 DEF Extracted
  <1> QED BY <1>3, <1>4, <1>5, <1>6 DEF Download

LEMMA SwapTypes ==
  ASSUME DiskTypes, ControlTypes, Swap
  PROVE  DiskTypes' /\ ControlTypes'
  <1>1. ASSUME NEW q \in Paths, SetAside(q) \/ Activate(q)
        PROVE  DiskTypes' /\ ControlTypes'
    BY <1>1 DEF SetAside, Activate, Disk, DiskTypes, ControlTypes, Dirs
  <1>2. ASSUME NEW q \in Paths, Undo(q) \/ Restore(q)
        PROVE  DiskTypes' /\ ControlTypes'
    BY <1>2 DEF Undo, Restore, Disk, DiskTypes, ControlTypes, Dirs
  <1>3. CASE Fault
    BY <1>3 DEF Fault, Disk, DiskTypes, ControlTypes
  <1>4. CASE RolledBack \/ RollbackFails
    <2>1. mishaps' \in 0..MaxMishaps
      BY <1>4, InstallAssumption DEF RolledBack, RollbackFails, DiskTypes
    <2>2. orphans \subseteq Dirs
      BY DEF DiskTypes
    <2> QED BY <1>4, <2>1, <2>2, WithAsideType, LeavesTypes DEF RolledBack, RollbackFails
  <1>5. CASE Commit
    <2>1. mishaps' \in 0..MaxMishaps
      BY <1>5 DEF Commit, DiskTypes
    <2>2. PICK end \in {"ok", "failed"}, others \in SUBSET Dirs : Leaves(end, others)
      BY <1>5, WithAsideType DEF Commit, DiskTypes
    <2> QED BY <2>1, <2>2, LeavesTypes
  <1> QED BY <1>1, <1>2, <1>3, <1>4, <1>5 DEF Swap

LEMMA TypeSteps ==
  ASSUME StartTypeOK, [StartNext]_launchVars
  PROVE  StartTypeOK'
  <1>0. DiskTypes /\ ControlTypes /\ StartTypes
    BY TypeParts
  <1>1. CASE UNCHANGED launchVars
    BY <1>0, <1>1, TypeParts DEF launchVars, installVars, startVars, disk, StartTypeOK, InstallTypeOK
  <1>2. CASE Installs
    <2>1. DiskTypes' /\ ControlTypes'
      BY <1>0, <1>2, DownloadTypes, SwapTypes DEF Installs, InstallStep
    <2>2. StartTypes'
      BY <1>0, <1>2 DEF Installs, startVars, StartTypes
    <2> QED BY <2>1, <2>2 DEF StartTypeOK, InstallTypeOK, DiskTypes, ControlTypes, StartTypes
  <1>3. CASE Restart
    <2>1. DiskTypes' /\ ControlTypes'
      <3>1. CASE pc = "idle"
        BY <1>0, <1>3, <3>1 DEF Restart, disk, DiskTypes, ControlTypes
      <3>2. CASE pc # "idle"
        BY <1>0, <1>3, <3>2, CrashTypes DEF Restart
      <3> QED BY <3>1, <3>2
    <2>2. StartTypes'
      BY <1>0, <1>3, StartAssumption DEF Restart, StartTypes, NoWindow, Stages
    <2> QED BY <2>1, <2>2 DEF StartTypeOK, InstallTypeOK, DiskTypes, ControlTypes, StartTypes
  <1>4. CASE \/ NoUpdate \/ UpdateFound \/ UpdateClicked \/ UpdateDownloaded \/ UpdateFails
             \/ InstallClicked \/ UpdateCloses \/ Updated
    <2>1. DiskTypes' /\ ControlTypes'
      BY <1>0, <1>4 DEF NoUpdate, UpdateFound, UpdateClicked, UpdateDownloaded, UpdateFails,
           InstallClicked, UpdateCloses, Updated, To, Window, installVars, disk, DiskTypes, ControlTypes
    <2>2. CASE NoUpdate \/ UpdateFound \/ Updated
      <3>1. {NoWindow, NewWindow} \subseteq
              [busy : BOOLEAN, downloaded : BOOLEAN, installing : BOOLEAN, open : BOOLEAN]
        <4>1. NoWindow \in [busy : BOOLEAN, downloaded : BOOLEAN, installing : BOOLEAN, open : BOOLEAN]
          BY DEF NoWindow
        <4>2. ASSUME NEW u \in [busy : BOOLEAN, downloaded : BOOLEAN, installing : BOOLEAN, open : BOOLEAN]
              PROVE  [u EXCEPT !.open = TRUE] \in
                       [busy : BOOLEAN, downloaded : BOOLEAN, installing : BOOLEAN, open : BOOLEAN]
          OBVIOUS
        <4> QED BY <4>1, <4>2 DEF NewWindow
      <3>2. /\ stage' \in Stages /\ UNCHANGED <<starts, packaged>>
            /\ update' \in {update, NoWindow, NewWindow}
        BY <2>2 DEF NoUpdate, UpdateFound, Updated, To, Stages
      <3> QED BY <1>0, <2>1, <3>1, <3>2 DEF StartTypes, StartTypeOK, InstallTypeOK, DiskTypes, ControlTypes
    <2>3. CASE UpdateClicked \/ UpdateDownloaded \/ UpdateFails \/ InstallClicked \/ UpdateCloses
      <3>1. PICK u \in [busy : BOOLEAN, downloaded : BOOLEAN, installing : BOOLEAN, open : BOOLEAN] :
              Window(u)
        BY <1>0, <2>3 DEF UpdateClicked, UpdateDownloaded, UpdateFails, InstallClicked, UpdateCloses,
             StartTypes
      <3> QED BY <1>0, <2>1, <3>1 DEF Window, StartTypes, StartTypeOK, InstallTypeOK, DiskTypes, ControlTypes
    <2> QED BY <1>4, <2>2, <2>3
  <1>5. CASE \/ Pass \/ LauncherOpens \/ LauncherFails \/ DialogRetried \/ DialogQuit \/ Finish
             \/ Publish /\ UNCHANGED startVars
    <2>1. DiskTypes'
      BY <1>0, <1>5 DEF Pass, LauncherOpens, LauncherFails, DialogRetried, DialogQuit, Finish, Publish,
           To, installVars, disk, DiskTypes
    <2>2. ControlTypes'
      BY <1>0, <1>5, InstallAssumption DEF Pass, LauncherOpens, LauncherFails, DialogRetried, DialogQuit,
           Finish, Publish, To, installVars, ControlTypes, Releases
    <2>3. StartTypes'
      BY <1>0, <1>5 DEF Pass, LauncherOpens, LauncherFails, DialogRetried, DialogQuit, Finish, Publish,
           To, AfterLauncher, startVars, StartTypes, Stages
    <2> QED BY <2>1, <2>2, <2>3 DEF StartTypeOK, InstallTypeOK, DiskTypes, ControlTypes, StartTypes
  <1>6. CASE AttemptInstall \/ EnsureRuntime
    BY <1>0, <1>6 DEF AttemptInstall, EnsureRuntime, Begin, Goto, Meta, disk, startVars, StartTypeOK,
         InstallTypeOK
  <1> QED BY <1>1, <1>2, <1>3, <1>4, <1>5, <1>6 DEF StartNext

------------------------------------------------------------------------------
(* The theorems *)

LEMMA Initially == StartInit => StartInv /\ Active!Init
  <1> SUFFICES ASSUME StartInit PROVE StartInv /\ Active!Init
    OBVIOUS
  <1>1. /\ swapped = {} /\ aside = Empty /\ mishaps = 0 /\ pc = "idle"
        /\ root \in {Empty} \cup {Whole(r) : r \in Releases}
    BY DEF StartInit, InstallInit
  <1>2. 1 \in Releases
    BY InstallAssumption DEF Releases
  <1>3. PICK r \in Releases : root \in {[p \in Paths |-> r], [p \in Paths |-> Absent]}
    BY <1>1, <1>2 DEF Empty, Whole
  <1>4. OneRelease
    BY <1>3 DEF OneRelease
  <1>5. StartTypeOK
    BY <1>2, <1>3, InstallAssumption, StartAssumption DEF StartInit, InstallInit, StartTypeOK, InstallTypeOK, Stages,
       NoWindow, Dirs, Empty
  <1>6. Committed = root
    BY <1>1, <1>3 DEF Committed, Empty
  <1>7. StartInv
    BY <1>1, <1>4, <1>5, RestsWhole DEF StartInv, Swapping
  <1>8. Active!Init
    BY <1>1, <1>3, <1>6 DEF Active!Init
  <1> QED BY <1>7, <1>8

(* The inductive invariant: types, and what is where at each step of a swap   *)
(* by activateManagedRuntime().                                               *)
THEOREM StartInvHolds == StartSpec => []StartInv
  <1>1. StartInit => StartInv
    BY Initially
  <1>2. StartInv /\ [StartNext]_launchVars => StartInv'
    BY Steps, TypeSteps DEF StartInv
  <1> QED BY <1>1, <1>2, PTL DEF StartSpec

(* The files of the engine are those of one release, for any releases, any    *)
(* number of crashes and of failed roll-backs of installRuntime().            *)
THEOREM EngineIsOne == StartSpec => []OneEngine
  <1>1. StartInv => OneEngine
    BY NeverMixed DEF StartInv, OneEngine
  <1> QED BY <1>1, StartInvHolds, PTL

(* The installation implements ActiveRuntime: installRuntime() replaces the   *)
(* managed files as a whole, or leaves them unless it was cut short.          *)
THEOREM InstallImplements == StartSpec => ReplacesWhole
  <1>1. StartInit => Active!Init
    BY Initially
  <1>2. StartInv /\ [StartNext]_launchVars => [Active!Next]_<<Committed, mishaps>>
    BY Steps
  <1> QED BY <1>1, <1>2, StartInvHolds, PTL DEF StartSpec, ReplacesWhole, Active!Spec


------------------------------------------------------------------------------
(* What the IDE opens on *)

(* Nothing was lost yet: what counts as installed is a release or nothing.    *)
WholeSoFar == mishaps = 0 => Committed = Empty \/ \E r \in Releases : Committed = Whole(r)

(* The IDE and the launcher are alone to install. *)
InstallsAtStage == pc # "idle" => stage \in {"launcher", "ide"}

OInv == StartInv /\ WholeSoFar /\ InstallsAtStage

LEMMA WholeSteps ==
  ASSUME OInv, [StartNext]_launchVars
  PROVE  WholeSoFar'
  <1>1. CASE UNCHANGED <<Committed, mishaps>>
    BY <1>1 DEF OInv, WholeSoFar, Empty, Whole
  <1>2. CASE Active!Replace
    BY <1>2 DEF Active!Replace, WholeSoFar, Whole
  <1>3. CASE Active!Break
    BY <1>3 DEF Active!Break, WholeSoFar, OInv, StartInv, StartTypeOK, InstallTypeOK
  <1> QED BY <1>1, <1>2, <1>3, Steps DEF OInv, Active!Next

LEMMA StageSteps ==
  ASSUME InstallsAtStage, [StartNext]_launchVars
  PROVE  InstallsAtStage'
  <1>1. CASE UNCHANGED launchVars
    BY <1>1 DEF launchVars, installVars, startVars, InstallsAtStage
  <1>2. CASE Installs
    <2>1. pc # "idle"
      BY <1>2 DEF Installs, InstallStep, Download, Swap, MetaRetries, MetaThrows, MetaRefused,
         ManifestAnswers, SumAnswers, RequestFails, RequestRefused, AnswersWhole, AnswersRest,
         AnswersAstray, Fetching, Opens, Breaks, Chunk, AssetDone, Joined, JoinFails, JoinHangs, Extracted, ExtractFails, SetAside,
         Activate, Undo, Restore, Fault, RolledBack, RollbackFails, Commit, Meta
    <2> QED BY <1>2, <2>1 DEF Installs, startVars, InstallsAtStage
  <1>3. CASE Restart
    BY <1>3 DEF Restart, Crash, Leaves, Ends, InstallsAtStage
  <1>4. CASE \/ NoUpdate \/ UpdateFound \/ UpdateClicked \/ UpdateDownloaded \/ UpdateFails
             \/ InstallClicked \/ UpdateCloses \/ Updated
    BY <1>4 DEF NoUpdate, UpdateFound, UpdateClicked, UpdateDownloaded, UpdateFails, InstallClicked,
       UpdateCloses, Updated, To, Window, installVars, InstallsAtStage
  <1>5. CASE \/ Pass \/ LauncherOpens \/ LauncherFails \/ DialogRetried \/ DialogQuit \/ Finish
             \/ AttemptInstall \/ EnsureRuntime \/ (Publish /\ UNCHANGED startVars)
    BY <1>5 DEF Pass, LauncherOpens, LauncherFails, DialogRetried, DialogQuit, Finish, AttemptInstall,
       EnsureRuntime, Publish, To, startVars, installVars, InstallsAtStage
  <1> QED BY <1>1, <1>2, <1>3, <1>4, <1>5 DEF StartNext

(* An engine that the gate accepts has everything that was installed with it. *)
LEMMA QualifiedHasCode ==
  ASSUME OInv, pc = "idle", mishaps = 0, packaged, FindParallax # "none",
         "worker" \in Checkout => "code" \in Checkout
  PROVE  FindFabiCode(packaged) # "none"
  <1>1. CASE "code" \in Checkout
    BY <1>1 DEF FindFabiCode, Find
  <1>2. CASE "code" \notin Checkout /\ Whole(Bundled)["runtime"] # Absent /\ Whole(Bundled)["MANIFEST"] \in Qualified
    BY <1>2 DEF FindFabiCode, Find, Roots, HasCode, IsQualified, Whole, Paths
  <1>3. CASE "code" \notin Checkout /\ root["runtime"] # Absent /\ root["MANIFEST"] \in Qualified
    <2>1. root \in Dirs /\ swapped = {} /\ aside = Empty
      BY DEF OInv, StartInv, SwapInv, SwapStages, StartTypeOK, InstallTypeOK, Swapping
    <2>2. Committed = root
      BY <2>1 DEF Committed, Dirs, Empty
    <2>3. root["bin"] # Absent
      BY <1>3, <2>2 DEF OInv, WholeSoFar, Whole, Empty, Paths, Releases, Absent
    <2> QED BY <1>3, <2>3 DEF FindFabiCode, Find, Roots, HasCode, IsQualified
  <1> QED BY <1>1, <1>2, <1>3 DEF FindParallax, Find, Roots, HasWorker, IsQualified

(* The steps that open the IDE have looked for the engine. *)
LEMMA OpensWithEngine ==
  ASSUME OInv, StartNext, stage # "ide", stage' = "ide", packaged, Accelerator
  PROVE  FindParallax # "none" /\ pc = "idle" /\ UNCHANGED <<disk, packaged>>
  <1>1. CASE Pass \/ DialogRetried \/ Finish
    BY <1>1 DEF Pass, DialogRetried, Finish, ShouldGate, AfterLauncher, To, installVars, OInv,
       InstallsAtStage
  <1>2. CASE LauncherFails \/ LauncherOpens \/ DialogQuit \/ NoUpdate \/ UpdateFound \/ Updated \/ Restart
    BY <1>2 DEF LauncherFails, LauncherOpens, DialogQuit, NoUpdate, UpdateFound, Updated, Restart, To
  <1>3. CASE \/ UpdateClicked \/ UpdateDownloaded \/ UpdateFails \/ InstallClicked \/ UpdateCloses
             \/ AttemptInstall \/ EnsureRuntime \/ Installs \/ (Publish /\ UNCHANGED startVars)
    BY <1>3 DEF UpdateClicked, UpdateDownloaded, UpdateFails, InstallClicked, UpdateCloses, Window,
       AttemptInstall, EnsureRuntime, Installs, startVars
  <1> QED BY <1>1, <1>2, <1>3 DEF StartNext

(* The gates let an IDE open on a qualified engine only, and with the engine  *)
(* of its chat unless an installation was cut short: showInitialWindow() and  *)
(* ensureQualifiedRuntime(), for any releases and failures.                   *)
THEOREM OpensOnEngine == StartSpec => OpensQualified
  <1>1. StartInit => OInv
    <2> SUFFICES ASSUME StartInit PROVE OInv
      OBVIOUS
    <2>1. StartInv /\ pc = "idle" /\ Active!Init
      BY Initially DEF StartInit, InstallInit
    <2> QED BY <2>1 DEF OInv, WholeSoFar, InstallsAtStage, Active!Init, Whole, Empty
  <1>2. OInv /\ [StartNext]_launchVars => OInv'
    BY Steps, TypeSteps, WholeSteps, StageSteps DEF OInv, StartInv
  <1>3. OInv /\ [StartNext]_launchVars =>
          [stage # "ide" /\ stage' = "ide" /\ packaged /\ Accelerator =>
             /\ FindParallax' # "none"
             /\ mishaps' = 0 /\ ("worker" \in Checkout => "code" \in Checkout) =>
                  FindFabiCode(packaged)' # "none"]_launchVars
    <2> SUFFICES ASSUME OInv, StartNext, stage # "ide", stage' = "ide", packaged, Accelerator
                 PROVE  /\ FindParallax' # "none"
                        /\ mishaps' = 0 /\ ("worker" \in Checkout => "code" \in Checkout) =>
                             FindFabiCode(packaged)' # "none"
      OBVIOUS
    <2>1. FindParallax # "none" /\ pc = "idle" /\ UNCHANGED <<disk, packaged>>
      BY OpensWithEngine
    <2>2. FindParallax' = FindParallax /\ FindFabiCode(packaged)' = FindFabiCode(packaged)
      BY <2>1 DEF disk, FindParallax, FindFabiCode, Find, Roots, HasWorker, HasCode, IsQualified, Whole
    <2> QED BY <2>1, <2>2, QualifiedHasCode DEF disk
  <1> QED BY <1>1, <1>2, <1>3, PTL DEF StartSpec, OpensQualified
==============================================================================
