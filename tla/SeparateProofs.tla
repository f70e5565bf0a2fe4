--------------------------- MODULE SeparateProofs ---------------------------
(***************************************************************************)
(* The streams of the backend, the registration of the model, the stage of *)
(* Maestro and the files of a user, but for the hooks, do what their       *)
(* invariants say, for all sets and all bounds.                            *)
(* Each part has an inductive invariant and is followed alone; the others  *)
(* stand still, so that what is inductive of one is of all together.       *)
(***************************************************************************)
EXTENDS MCSeparate, SequenceTheorems, WellFoundedInduction, TLAPS

------------------------------------------------------------------------------
(* The registry feed.                                                         *)

RegistryInv ==
  /\ Registry!TypeOK /\ Registry!KeepsLooking /\ Registry!CacheIsCurrent
  /\ stream # "open" => pushed = <<>>
  /\ pushed # <<>> => pushed[Len(pushed)] = now
  /\ stream = "open" => ~timer
  /\ stream = "open" /\ pushed = <<>> /\ overtaken => poll = "no"

LEMMA RegistryStarts == Registry!Init => RegistryInv
<1> SUFFICES ASSUME Registry!Init PROVE RegistryInv  OBVIOUS
<1>1. MaxChanges \in Nat \ {0} /\ MaxCuts \in Nat
  BY SeparateAssumption DEF Registry!RegistryAssumption
<1>2. <<>> \in Seq(1 .. now)  OBVIOUS
<1>3. Registry!TypeOK
  <2>1. {timer, overtaken} \subseteq BOOLEAN  BY DEF Registry!Init
  <2>2. now \in 1 .. MaxChanges /\ cache \in 0 .. now /\ answer \in 0 .. now /\ cuts \in 0 .. MaxCuts
    BY <1>1 DEF Registry!Init
  <2>3. /\ stream \in {"off", "first", "asked", "open", "waits"} /\ pushed \in Seq(1 .. now)
        /\ poll \in {"no", "asked", "answered"}
    BY <1>2 DEF Registry!Init
  <2> QED  BY <2>1, <2>2, <2>3 DEF Registry!TypeOK
<1> QED  BY <1>3 DEF Registry!Init, RegistryInv, Registry!KeepsLooking, Registry!CacheIsCurrent

(* What is pushed after the events under way, and what is received of them. *)
LEMMA QueueFacts ==
  ASSUME NEW n \in Nat, NEW m \in Nat, n <= m, NEW q \in Seq(1 .. n)
  PROVE  /\ q \in Seq(1 .. m)
         /\ m > 0 => Append(q, m) \in Seq(1 .. m) /\ Append(q, m) # <<>> /\ Append(q, m)[Len(Append(q, m))] = m
         /\ q # <<>> =>
              /\ Head(q) \in 1 .. n /\ Tail(q) \in Seq(1 .. n)
              /\ Tail(q) = <<>> => Head(q) = q[Len(q)]
              /\ Tail(q) # <<>> => Tail(q)[Len(Tail(q))] = q[Len(q)]
<1>1. 1 .. n \subseteq 1 .. m  OBVIOUS
<1>2. q \in Seq(1 .. m)
  <2>1. \A i \in 1 .. Len(q) : q[i] \in 1 .. m  BY <1>1
  <2> QED  BY <2>1
<1>3. ASSUME m > 0 PROVE Append(q, m) \in Seq(1 .. m) /\ Append(q, m) # <<>> /\ Append(q, m)[Len(Append(q, m))] = m
  <2>1. m \in 1 .. m  BY <1>3
  <2> QED  BY <1>2, <2>1
<1>4. ASSUME q # <<>>
      PROVE  /\ Head(q) \in 1 .. n /\ Tail(q) \in Seq(1 .. n)
             /\ Tail(q) = <<>> => Head(q) = q[Len(q)]
             /\ Tail(q) # <<>> => Tail(q)[Len(Tail(q))] = q[Len(q)]
  <2>1. Len(q) \in Nat \ {0} /\ Head(q) = q[1] /\ Len(Tail(q)) = Len(q) - 1 /\ Tail(q) \in Seq(1 .. n)
    BY <1>4
  <2>2. \A i \in 1 .. Len(q) - 1 : Tail(q)[i] = q[i + 1]  BY <1>4
  <2>3. Tail(q) = <<>> => Len(q) = 1
    <3> HAVE Tail(q) = <<>>
    <3>1. Len(Tail(q)) = 0  BY <2>1, EmptySeq
    <3> QED  BY <2>1, <3>1
  <2>4. Tail(q) # <<>> => Len(q) - 1 \in 1 .. Len(q) - 1  BY <2>1
  <2> QED  BY <2>1, <2>2, <2>3, <2>4
<1> QED  BY <1>2, <1>3, <1>4

LEMMA RegistrySteps ==
  ASSUME RegistryInv, Registry!Next
  PROVE  RegistryInv'
<1> USE DEF RegistryInv, Registry!TypeOK, Registry!KeepsLooking, Registry!CacheIsCurrent
<1>1. MaxChanges \in Nat \ {0} /\ MaxCuts \in Nat
  BY SeparateAssumption DEF Registry!RegistryAssumption
<1>2. CASE Registry!Start
  BY <1>2 DEF Registry!Start
<1>3. CASE Registry!Change
  <2>1. now' = now + 1 /\ now' \in 1 .. MaxChanges /\ now \in Nat /\ now' \in Nat /\ now' > 0 /\ now <= now'
    BY <1>1, <1>3 DEF Registry!Change
  <2>2. /\ pushed \in Seq(1 .. now')
        /\ Append(pushed, now') \in Seq(1 .. now') /\ Append(pushed, now') # <<>>
        /\ Append(pushed, now')[Len(Append(pushed, now'))] = now'
    BY <2>1, QueueFacts
  <2>3. cache \in 0 .. now' /\ answer \in 0 .. now'  BY <2>1
  <2> QED  BY <1>3, <2>1, <2>2, <2>3 DEF Registry!Change
<1>4. CASE Registry!Connects
  BY <1>4 DEF Registry!Connects
<1>5. CASE Registry!Opened
  <2>1. <<now>> \in Seq(1 .. now) /\ <<now>> # <<>> /\ Len(<<now>>) = 1 /\ <<now>>[1] = now
    OBVIOUS
  <2> QED  BY <1>5, <2>1 DEF Registry!Opened
<1>6. CASE Registry!Breaks
  BY <1>1, <1>6 DEF Registry!Breaks
<1>7. CASE Registry!Received
  <2>1. now \in Nat /\ pushed # <<>>  BY <1>7 DEF Registry!Received
  <2>2. /\ Head(pushed) \in 1 .. now /\ Tail(pushed) \in Seq(1 .. now)
        /\ Tail(pushed) = <<>> => Head(pushed) = pushed[Len(pushed)]
        /\ Tail(pushed) # <<>> => Tail(pushed)[Len(Tail(pushed))] = pushed[Len(pushed)]
    BY <2>1, QueueFacts
  <2>3. Head(pushed) \in 0 .. now  BY <2>2
  <2> QED  BY <1>7, <2>1, <2>2, <2>3 DEF Registry!Received
<1>8. CASE Registry!Ticks
  BY <1>8 DEF Registry!Ticks
<1>9. CASE Registry!PollServed
  <2>1. now \in 0 .. now  OBVIOUS
  <2> QED  BY <1>9, <2>1 DEF Registry!PollServed
<1>10. CASE Registry!PollEnds
  <2>1. overtaken' \in BOOLEAN /\ cache' \in 0 .. now /\ now' = now /\ poll' = "no" /\ answer' = 0
    BY <1>10 DEF Registry!PollEnds
  <2>2. overtaken' \/ ~ (answer < cache)
    BY <1>10 DEF Registry!PollEnds
  <2>3. stream = "open" /\ pushed = <<>> => poll = "no" \/ cache = now
    OBVIOUS
  <2>4. stream = "open" /\ pushed = <<>> => cache' = now \/ overtaken'
    BY <1>10, <2>2, <2>3 DEF Registry!PollEnds
  <2>5. UNCHANGED <<stream, pushed, timer, cuts>> /\ poll # "no"
    BY <1>10 DEF Registry!PollEnds
  <2>6. Registry!TypeOK'  BY <2>1, <2>5
  <2> QED  BY <2>1, <2>4, <2>5, <2>6
<1>11. CASE Registry!PollFails
  BY <1>11 DEF Registry!PollFails
<1> QED  BY <1>2, <1>3, <1>4, <1>5, <1>6, <1>7, <1>8, <1>9, <1>10, <1>11 DEF Registry!Next

LEMMA RegistryStays ==
  ASSUME RegistryInv, UNCHANGED registryVars, cuts' \in 0 .. MaxCuts
  PROVE  RegistryInv'
  BY DEF RegistryInv, registryVars, Registry!TypeOK, Registry!KeepsLooking, Registry!CacheIsCurrent

------------------------------------------------------------------------------
(* The feed of the Request Agent.                                             *)

LEMMA Least ==
  ASSUME NEW T \in SUBSET Nat, T # {}
  PROVE  \E n \in T : \A m \in T : n <= m
<1>1. PICK n \in T : \A m \in T : ~ (<<m, n>> \in OpToRel(<, Nat))
  BY WFMin, NatLessThanWellFounded
<1>2. ASSUME NEW m \in T PROVE n <= m
  <2>1. m \in Nat /\ n \in Nat  OBVIOUS
  <2>2. ~ (m < n)  BY <1>1, <2>1 DEF OpToRel
  <2> QED  BY <2>1, <2>2
<1> QED  BY <1>2

(* One phase more. *)
After(p, set) == IF p.terminal THEN set \ {p.request} ELSE set \cup {p.request}

(* f is ActiveAt for the phases l. *)
Replays(l, f) ==
  f = [n \in 0 .. MaxEvents |-> IF n = 0 \/ n > Len(l) THEN {}
                                ELSE IF l[n].terminal THEN f[n - 1] \ {l[n].request}
                                ELSE f[n - 1] \cup {l[n].request}]

AgentInv ==
  /\ Agent!TypeOK /\ Agent!ActiveIsTrue
  /\ link \notin {"open", "closing"} => sent = <<>>
  /\ \A i \in 1 .. Len(sent) :
       /\ sent[i].id = Len(log) - Len(sent) + i
       /\ sent[i].kind = "phase" => sent[i].id > 0
       /\ i > 1 => sent[i].kind = "phase"
  /\ sent # <<>> =>
       IF sent[1].kind = "snapshot" THEN sent[1].set = Agent!ActiveAt[sent[1].id]
       ELSE sent[1].id <= lastEventId + 1

LEMMA AgentBounds == MaxEvents \in Nat /\ MaxCuts \in Nat
  BY SeparateAssumption DEF Agent!AgentFeedAssumption

LEMMA ReplayExists ==
  ASSUME NEW l
  PROVE  \E f : Replays(l, f)
<1> DEFINE e(f, n) == IF n = 0 \/ n > Len(l) THEN {}
                      ELSE IF l[n].terminal THEN f[n - 1] \ {l[n].request} ELSE f[n - 1] \cup {l[n].request}
           Def(f, k) == f = [n \in 0 .. k |-> e(f, n)]
           Bad == {k \in 0 .. MaxEvents : \A f : ~ Def(f, k)}
<1> USE AgentBounds
<1>2. Bad = {}
  <2> SUFFICES ASSUME Bad # {} PROVE FALSE  OBVIOUS
  <2>1. PICK k \in Bad : \A m \in Bad : k <= m
    <3>1. Bad \in SUBSET Nat  OBVIOUS
    <3> HIDE DEF Bad
    <3> QED  BY <3>1, Least
  <2>2. k \in 0 .. MaxEvents /\ \A f : ~ Def(f, k)  OBVIOUS
  <2>3. k # 0
    <3> DEFINE f == [n \in 0 .. 0 |-> {}]
    <3>1. Def(f, 0)
      <4>1. \A n \in 0 .. 0 : n = 0  OBVIOUS
      <4> QED  BY <4>1
    <3> QED  BY <2>2, <3>1
  <2>4. k - 1 \in 0 .. MaxEvents /\ k - 1 < k  BY <2>2, <2>3
  <2>5. k - 1 \notin Bad
    <3> HIDE DEF Bad
    <3> QED  BY <2>1, <2>2, <2>4
  <2>6. PICK g : Def(g, k - 1)  BY <2>4, <2>5
  <2> DEFINE f == [n \in 0 .. k |-> IF n = k THEN e(g, k) ELSE g[n]]
  <2>7. f = [n \in 0 .. k |-> e(f, n)]
    <3>1. ASSUME NEW n \in 0 .. k PROVE f[n] = e(f, n)
      <4>1. n # 0 => n - 1 \in 0 .. k /\ n - 1 # k  BY <2>2
      <4>2. n # 0 => f[n - 1] = g[n - 1]  BY <4>1
      <4>3. e(f, n) = e(g, n)
        <5> HIDE DEF f
        <5> QED  BY <4>2
      <4>4. CASE n = k  BY <4>3, <4>4
      <4>5. CASE n # k
        <5>1. n \in 0 .. k - 1  BY <2>2, <4>5
        <5>2. g[n] = e(g, n)
          <6> HIDE DEF e
          <6> QED  BY <2>6, <5>1
        <5>3. f[n] = g[n]  BY <4>5
        <5> HIDE DEF e, f
        <5> QED  BY <4>3, <5>2, <5>3
      <4> QED  BY <4>4, <4>5
    <3>2. f = [n \in 0 .. k |-> f[n]]  OBVIOUS
    <3> HIDE DEF f, e
    <3> QED  BY <3>1, <3>2
  <2>8. Def(f, k)
    <3> HIDE DEF f, e
    <3> QED  BY <2>7
  <2> HIDE DEF f, Def
  <2> QED  BY <2>2, <2>8
<1>3. \E f : Def(f, MaxEvents)
  <2>1. MaxEvents \in 0 .. MaxEvents  OBVIOUS
  <2>2. MaxEvents \notin Bad  BY <1>2
  <2> HIDE DEF Def
  <2> QED  BY <2>1, <2>2
<1> QED  BY <1>3 DEF Replays

(* What ActiveAt computes, one phase after the other. *)
LEMMA ReplayFacts ==
  ASSUME NEW l \in Seq(Agent!Phases), NEW f, Replays(l, f)
  PROVE  /\ f[0] = {}
         /\ \A n \in 1 .. MaxEvents : n <= Len(l) => f[n] = After(l[n], f[n - 1])
         /\ \A n \in 0 .. MaxEvents : f[n] \subseteq Requests
<1> USE AgentBounds
<1>1. /\ f[0] = {}
      /\ \A n \in 0 .. MaxEvents : n > Len(l) => f[n] = {}
      /\ \A n \in 1 .. MaxEvents : n <= Len(l) => f[n] = After(l[n], f[n - 1])
  <2> DEFINE e(n) == IF n = 0 \/ n > Len(l) THEN {}
                     ELSE IF l[n].terminal THEN f[n - 1] \ {l[n].request} ELSE f[n - 1] \cup {l[n].request}
  <2>1. f = [n \in 0 .. MaxEvents |-> e(n)]  BY DEF Replays
  <2>2. \A n \in 0 .. MaxEvents : f[n] = e(n)
    <3> HIDE DEF e
    <3> QED  BY <2>1
  <2>3. Len(l) \in Nat  OBVIOUS
  <2>4. f[0] = {}
    <3>1. 0 \in 0 .. MaxEvents  OBVIOUS
    <3>2. f[0] = e(0)
      <4> HIDE DEF e
      <4> QED  BY <2>2, <3>1
    <3> QED  BY <3>2, Zenon
  <2>5. \A n \in 0 .. MaxEvents : n > Len(l) => f[n] = {}  BY <2>2
  <2>6. ASSUME NEW n \in 1 .. MaxEvents, n <= Len(l) PROVE f[n] = After(l[n], f[n - 1])
    <3>1. n \in 0 .. MaxEvents /\ n # 0 /\ ~ (n > Len(l))  BY <2>3, <2>6
    <3> QED  BY <2>2, <3>1 DEF After
  <2> QED  BY <2>4, <2>5, <2>6
<1> DEFINE Bad == {n \in 0 .. MaxEvents : ~ (f[n] \subseteq Requests)}
<1>2. Bad = {}
  <2> SUFFICES ASSUME Bad # {} PROVE FALSE  OBVIOUS
  <2>1. PICK k \in Bad : \A m \in Bad : k <= m
    <3>1. Bad \in SUBSET Nat  OBVIOUS
    <3> HIDE DEF Bad
    <3> QED  BY <3>1, Least
  <2>2. k \in 0 .. MaxEvents /\ ~ (f[k] \subseteq Requests)  OBVIOUS
  <2>3. k # 0 /\ k <= Len(l)  BY <1>1, <2>2
  <2>4. k - 1 \in 0 .. MaxEvents /\ k - 1 < k /\ k \in 1 .. MaxEvents /\ k \in 1 .. Len(l)  BY <2>2, <2>3
  <2>5. k - 1 \notin Bad
    <3> HIDE DEF Bad
    <3> QED  BY <2>1, <2>2, <2>4
  <2>6. f[k - 1] \subseteq Requests  BY <2>4, <2>5
  <2>7. l[k].request \in Requests
    <3>1. l[k] \in Agent!Phases  BY <2>4
    <3> QED  BY <3>1 DEF Agent!Phases
  <2>8. f[k] = After(l[k], f[k - 1])  BY <1>1, <2>3, <2>4
  <2> QED  BY <2>2, <2>6, <2>7, <2>8 DEF After
<1> QED  BY <1>1, <1>2

(* It depends on the phases up to the one asked for only. *)
LEMMA ReplayAgrees ==
  ASSUME NEW l \in Seq(Agent!Phases), NEW m \in Seq(Agent!Phases), NEW f, NEW g, Replays(l, f), Replays(m, g),
         Len(l) <= MaxEvents, Len(l) <= Len(m), \A i \in 1 .. Len(l) : l[i] = m[i]
  PROVE  \A n \in 0 .. Len(l) : f[n] = g[n]
<1> USE AgentBounds
<1>1. /\ f[0] = {} /\ g[0] = {} /\ Len(l) \in Nat /\ Len(m) \in Nat
      /\ \A n \in 1 .. MaxEvents : n <= Len(l) => f[n] = After(l[n], f[n - 1])
      /\ \A n \in 1 .. MaxEvents : n <= Len(m) => g[n] = After(m[n], g[n - 1])
  <2>1. /\ f[0] = {}
        /\ \A n \in 1 .. MaxEvents : n <= Len(l) => f[n] = After(l[n], f[n - 1])
    BY ReplayFacts
  <2>2. /\ g[0] = {}
        /\ \A n \in 1 .. MaxEvents : n <= Len(m) => g[n] = After(m[n], g[n - 1])
    BY ReplayFacts
  <2> QED  BY <2>1, <2>2
<1> DEFINE Bad == {n \in 0 .. Len(l) : f[n] # g[n]}
<1>2. Bad = {}
  <2> SUFFICES ASSUME Bad # {} PROVE FALSE  OBVIOUS
  <2>1. PICK k \in Bad : \A j \in Bad : k <= j
    <3>1. Bad \in SUBSET Nat  BY <1>1
    <3> HIDE DEF Bad
    <3> QED  BY <3>1, Least
  <2>2. k \in 0 .. Len(l) /\ f[k] # g[k]  OBVIOUS
  <2>3. k # 0  BY <1>1, <2>2
  <2>4. k - 1 \in 0 .. Len(l) /\ k - 1 < k /\ k \in 1 .. MaxEvents /\ k \in 1 .. Len(l) /\ k <= Len(l) /\ k <= Len(m)
    BY <1>1, <2>2, <2>3
  <2>5. k - 1 \notin Bad
    <3> HIDE DEF Bad
    <3> QED  BY <1>1, <2>1, <2>2, <2>4
  <2>6. f[k - 1] = g[k - 1] /\ l[k] = m[k]  BY <2>4, <2>5
  <2>7. f[k] = After(l[k], f[k - 1]) /\ g[k] = After(m[k], g[k - 1])  BY <1>1, <2>4
  <2> QED  BY <2>2, <2>6, <2>7
<1> QED  BY <1>2

LEMMA ActiveReplays ==
  /\ Replays(log, Agent!ActiveAt)
  /\ Replays(log', Agent!ActiveAt')
<1>1. Agent!ActiveAt = CHOOSE f : Replays(log, f)
  BY Zenon DEF Agent!ActiveAt, Replays
<1>2. Agent!ActiveAt' = CHOOSE f : Replays(log', f)
  BY Zenon DEF Agent!ActiveAt, Replays
<1>3. Replays(log, CHOOSE f : Replays(log, f)) /\ Replays(log', CHOOSE f : Replays(log', f))
  BY ReplayExists, Zenon
<1> QED  BY <1>1, <1>2, <1>3, Zenon

EventType == [id : 0 .. MaxEvents, kind : {"snapshot", "phase"}, set : SUBSET Requests]

LEMMA AgentStarts == Agent!Init => AgentInv
<1> SUFFICES ASSUME Agent!Init PROVE AgentInv  OBVIOUS
<1> USE AgentBounds
<1>1. log = <<>> /\ link = "off" /\ sent = <<>> /\ lastEventId = 0 /\ active = {} /\ cuts = 0
  BY DEF Agent!Init
<1>2. log \in Seq(Agent!Phases) /\ sent \in Seq(EventType) /\ Len(log) = 0 /\ Len(sent) = 0
  BY <1>1
<1>3. Agent!TypeOK
  BY <1>1, <1>2 DEF Agent!TypeOK, EventType
<1>4. Agent!ActiveAt[0] = {}
  BY <1>2, ActiveReplays, ReplayFacts
<1>5. Agent!ActiveIsTrue  BY <1>1, <1>4 DEF Agent!ActiveIsTrue
<1> QED  BY <1>1, <1>2, <1>3, <1>5 DEF AgentInv

(* What the invariant is, with the phases replayed by f. *)
LEMMA AgentParts ==
  ASSUME AgentInv
  PROVE  /\ log \in Seq(Agent!Phases) /\ Len(log) \in Nat /\ Len(log) <= MaxEvents
         /\ link \in {"off", "asked", "open", "closing", "waits"} /\ sent \in Seq(EventType) /\ Len(sent) \in Nat
         /\ lastEventId \in Nat /\ lastEventId <= Len(log) /\ active \subseteq Requests /\ cuts \in 0 .. MaxCuts
         /\ active = Agent!ActiveAt[lastEventId]
         /\ link = "open" /\ sent = <<>> => lastEventId = Len(log)
         /\ link \notin {"open", "closing"} => sent = <<>>
         /\ \A i \in 1 .. Len(sent) :
              /\ sent[i] \in EventType
              /\ sent[i].id = Len(log) - Len(sent) + i
              /\ sent[i].kind = "phase" => sent[i].id > 0
              /\ i > 1 => sent[i].kind = "phase"
         /\ sent # <<>> /\ sent[1].kind = "snapshot" => sent[1].set = Agent!ActiveAt[sent[1].id]
         /\ sent # <<>> /\ sent[1].kind # "snapshot" => sent[1].id <= lastEventId + 1
<1>1. /\ log \in Seq(Agent!Phases) /\ Len(log) <= MaxEvents
      /\ link \in {"off", "asked", "open", "closing", "waits"} /\ sent \in Seq(EventType)
      /\ lastEventId \in 0 .. Len(log) /\ active \subseteq Requests /\ cuts \in 0 .. MaxCuts
      /\ active = Agent!ActiveAt[lastEventId]
      /\ link = "open" /\ sent = <<>> => lastEventId = Len(log)
  BY DEF AgentInv, Agent!TypeOK, Agent!ActiveIsTrue, EventType
<1>2. Len(log) \in Nat /\ Len(sent) \in Nat /\ lastEventId \in Nat /\ lastEventId <= Len(log)
      /\ \A i \in 1 .. Len(sent) : sent[i] \in EventType
  BY <1>1
<1> QED  BY <1>1, <1>2 DEF AgentInv

(* Back, for the next state. *)
LEMMA AgentJoins ==
  ASSUME log' \in Seq(Agent!Phases), Len(log') <= MaxEvents,
         link' \in {"off", "asked", "open", "closing", "waits"}, sent' \in Seq(EventType),
         lastEventId' \in 0 .. Len(log'), active' \subseteq Requests, cuts' \in 0 .. MaxCuts,
         active' = Agent!ActiveAt'[lastEventId'],
         link' = "open" /\ sent' = <<>> => lastEventId' = Len(log'),
         link' \notin {"open", "closing"} => sent' = <<>>,
         \A i \in 1 .. Len(sent') :
           /\ sent'[i].id = Len(log') - Len(sent') + i
           /\ sent'[i].kind = "phase" => sent'[i].id > 0
           /\ i > 1 => sent'[i].kind = "phase",
         sent' # <<>> /\ sent'[1].kind = "snapshot" => sent'[1].set = Agent!ActiveAt'[sent'[1].id],
         sent' # <<>> /\ sent'[1].kind # "snapshot" => sent'[1].id <= lastEventId' + 1
  PROVE  AgentInv'
<1>1. Agent!TypeOK'  BY DEF Agent!TypeOK, EventType
<1>2. Agent!ActiveIsTrue'  BY DEF Agent!ActiveIsTrue
<1> QED  BY <1>1, <1>2 DEF AgentInv

(* The phases do not change. *)
LEMMA SameReplay == log' = log => Agent!ActiveAt' = Agent!ActiveAt
<1> SUFFICES ASSUME log' = log PROVE Agent!ActiveAt' = Agent!ActiveAt  OBVIOUS
<1>1. Agent!ActiveAt = CHOOSE f : Replays(log, f)
  BY Zenon DEF Agent!ActiveAt, Replays
<1>2. Agent!ActiveAt' = CHOOSE f : Replays(log', f)
  BY Zenon DEF Agent!ActiveAt, Replays
<1> QED  BY <1>1, <1>2

LEMMA EmitsKeeps ==
  ASSUME AgentInv, NEW p \in Agent!Phases, Agent!Emits(p)
  PROVE  AgentInv'
<1> USE AgentBounds
<1> DEFINE A == Agent!ActiveAt
           B == Agent!ActiveAt'
<1>0. /\ log \in Seq(Agent!Phases) /\ Len(log) \in Nat /\ Len(log) <= MaxEvents
      /\ link \in {"off", "asked", "open", "closing", "waits"} /\ sent \in Seq(EventType) /\ Len(sent) \in Nat
      /\ lastEventId \in Nat /\ lastEventId <= Len(log) /\ active \subseteq Requests /\ cuts \in 0 .. MaxCuts
      /\ active = A[lastEventId]
      /\ link = "open" /\ sent = <<>> => lastEventId = Len(log)
      /\ link \notin {"open", "closing"} => sent = <<>>
      /\ \A i \in 1 .. Len(sent) :
           /\ sent[i] \in EventType
           /\ sent[i].id = Len(log) - Len(sent) + i
           /\ sent[i].kind = "phase" => sent[i].id > 0
           /\ i > 1 => sent[i].kind = "phase"
      /\ sent # <<>> /\ sent[1].kind = "snapshot" => sent[1].set = A[sent[1].id]
      /\ sent # <<>> /\ sent[1].kind # "snapshot" => sent[1].id <= lastEventId + 1
  BY AgentParts
<1>1. /\ Len(log) < MaxEvents /\ log' = Append(log, p) /\ UNCHANGED <<link, lastEventId, active, cuts>>
      /\ link # "closing"
      /\ sent' = IF link = "open" THEN Append(sent, Agent!PhaseEvent(Len(log'))) ELSE sent
  BY DEF Agent!Emits
<1>2. log' \in Seq(Agent!Phases) /\ Len(log') = Len(log) + 1 /\ Len(log') <= MaxEvents
      /\ \A i \in 1 .. Len(log) : log[i] = log'[i]
  BY <1>0, <1>1
<1>3. Replays(log, A) /\ Replays(log', B)  BY ActiveReplays
<1> HIDE DEF A, B
<1>4. \A n \in 0 .. Len(log) : A[n] = B[n]
  <2>1. Len(log) <= Len(log')  BY <1>0, <1>2
  <2> QED  BY <1>0, <1>2, <1>3, <2>1, ReplayAgrees
<1>5. active' = B[lastEventId'] /\ lastEventId' \in 0 .. Len(log')  BY <1>0, <1>1, <1>2, <1>4
<1>6. CASE link # "open"
  <2>1. sent' = <<>> /\ Len(sent') = 0 /\ sent' \in Seq(EventType)  BY <1>0, <1>1, <1>6
  <2> QED  BY <1>0, <1>1, <1>2, <1>5, <1>6, <2>1, AgentJoins DEF B
<1>7. CASE link = "open"
  <2> DEFINE e == Agent!PhaseEvent(Len(log'))
  <2>1. e \in EventType /\ e.id = Len(log') /\ e.kind = "phase"
    <3>1. Len(log') \in 0 .. MaxEvents  BY <1>0, <1>2
    <3> QED  BY <3>1 DEF Agent!PhaseEvent, EventType
  <2>2. sent' = Append(sent, e)  BY <1>1, <1>7
  <2> HIDE DEF e
  <2>3. /\ sent' \in Seq(EventType) /\ Len(sent') = Len(sent) + 1 /\ sent'[Len(sent) + 1] = e
        /\ \A i \in 1 .. Len(sent) : sent'[i] = sent[i]
    BY <1>0, <2>1, <2>2
  <2>4. sent' # <<>>  BY <1>0, <2>3
  <2>5. ASSUME NEW i \in 1 .. Len(sent')
        PROVE  /\ sent'[i].id = Len(log') - Len(sent') + i
               /\ sent'[i].kind = "phase" => sent'[i].id > 0
               /\ i > 1 => sent'[i].kind = "phase"
    <3>1. CASE i \in 1 .. Len(sent)
      <4>1. Len(log') - Len(sent') + i = Len(log) - Len(sent) + i  BY <1>0, <1>2, <2>3, <3>1
      <4> QED  BY <1>0, <2>3, <3>1, <4>1
    <3>2. CASE i \notin 1 .. Len(sent)
      <4> DEFINE n == Len(sent)
                 m == Len(log')
      <4>0. n \in Nat /\ m \in Nat \ {0} /\ Len(sent') = n + 1 /\ i \in 1 .. n + 1 /\ i \notin 1 .. n
        BY <1>0, <1>2, <2>3, <3>2
      <4> HIDE DEF n, m
      <4>1. i = n + 1 /\ m - (n + 1) + i = m /\ m > 0  BY <4>0
      <4>2. i = Len(sent) + 1 /\ Len(log') - Len(sent') + i = Len(log') /\ Len(log') > 0
        BY <4>0, <4>1 DEF n, m
      <4> QED  BY <2>1, <2>3, <4>2
    <3> QED  BY <3>1, <3>2
  <2>6. CASE sent = <<>>
    <3>1. lastEventId' = Len(log) /\ Len(sent) = 0  BY <1>0, <1>1, <1>7, <2>6
    <3>2. sent'[1] = e  BY <2>3, <3>1
    <3>3. sent'[1].kind # "snapshot" /\ sent'[1].id <= lastEventId' + 1  BY <1>0, <1>2, <2>1, <3>1, <3>2
    <3> QED  BY <1>0, <1>1, <1>2, <1>5, <1>7, <2>3, <2>4, <2>5, <3>3, AgentJoins DEF B
  <2>7. CASE sent # <<>>
    <3>1. 1 \in 1 .. Len(sent)  BY <1>0, <2>7
    <3>2. sent'[1] = sent[1] /\ sent[1] \in EventType  BY <1>0, <2>3, <3>1
    <3>3. sent[1].id \in 0 .. Len(log)
      <4>1. sent[1].id = Len(log) - Len(sent) + 1 /\ Len(sent) >= 1 /\ sent[1].id \in 0 .. MaxEvents
        BY <1>0, <3>1, <3>2 DEF EventType
      <4> QED  BY <1>0, <4>1
    <3>4. sent'[1].kind = "snapshot" => sent'[1].set = B[sent'[1].id]  BY <1>0, <1>4, <2>7, <3>2, <3>3
    <3>5. sent'[1].kind # "snapshot" => sent'[1].id <= lastEventId' + 1  BY <1>0, <1>1, <2>7, <3>2
    <3> QED  BY <1>0, <1>1, <1>2, <1>5, <1>7, <2>3, <2>4, <2>5, <3>4, <3>5, AgentJoins DEF B
  <2> QED  BY <2>6, <2>7
<1> QED  BY <1>6, <1>7

LEMMA AcceptsKeeps ==
  ASSUME AgentInv, Agent!Accepts
  PROVE  AgentInv'
<1> USE AgentBounds
<1> DEFINE A == Agent!ActiveAt
           B == Agent!ActiveAt'
<1>0. /\ log \in Seq(Agent!Phases) /\ Len(log) \in Nat /\ Len(log) <= MaxEvents
      /\ lastEventId \in Nat /\ lastEventId <= Len(log) /\ active \subseteq Requests /\ cuts \in 0 .. MaxCuts
      /\ active = A[lastEventId]
  BY AgentParts
<1>1. link' = "open" /\ UNCHANGED <<log, lastEventId, active>> /\ cuts' \in 0 .. MaxCuts
  BY <1>0 DEF Agent!Accepts
<1>2. B = A  BY <1>1, SameReplay
<1>3. Replays(log, A)  BY ActiveReplays
<1> HIDE DEF A, B
<1>4. active' = B[lastEventId'] /\ lastEventId' \in 0 .. Len(log')  BY <1>0, <1>1, <1>2
<1>5. CASE sent' = <<Agent!Snapshot(Len(log))>>
  <2> DEFINE e == Agent!Snapshot(Len(log))
  <2>1. A[Len(log)] \subseteq Requests  BY <1>0, <1>3, ReplayFacts
  <2>2. e \in EventType /\ e.id = Len(log) /\ e.kind = "snapshot" /\ e.set = A[Len(log)]
    <3>1. e = [id |-> Len(log), kind |-> "snapshot", set |-> A[Len(log)]]  BY DEF Agent!Snapshot, A
    <3> HIDE DEF e
    <3> QED  BY <1>0, <2>1, <3>1 DEF EventType
  <2> HIDE DEF e
  <2>3. sent' = <<e>>  BY <1>5 DEF e
  <2>4. sent' \in Seq(EventType) /\ Len(sent') = 1 /\ sent'[1] = e /\ sent' # <<>>  BY <2>2, <2>3
  <2>5. ASSUME NEW i \in 1 .. Len(sent')
        PROVE  /\ sent'[i].id = Len(log') - Len(sent') + i
               /\ sent'[i].kind = "phase" => sent'[i].id > 0
               /\ i > 1 => sent'[i].kind = "phase"
    <3>1. i = 1  BY <2>4
    <3> QED  BY <1>0, <1>1, <2>2, <2>4, <3>1
  <2>6. sent'[1].kind = "snapshot" /\ sent'[1].set = B[sent'[1].id]  BY <1>2, <2>2, <2>4
  <2> QED  BY <1>0, <1>1, <1>4, <2>4, <2>5, <2>6, AgentJoins DEF B
<1>6. ASSUME NEW k \in 1 .. Len(log) + 1, k \in {lastEventId, lastEventId + 1},
             sent' = [i \in 1 .. Len(log) + 1 - k |-> Agent!PhaseEvent(k + i - 1)]
      PROVE  AgentInv'
  <2>1. /\ sent' \in Seq(EventType)
        /\ sent' = <<>> => k = Len(log) + 1
        /\ \A i \in 1 .. Len(sent') : sent'[i].id = Len(log) - Len(sent') + i /\ sent'[i].id > 0 /\ sent'[i].kind = "phase"
        /\ sent' # <<>> => sent'[1].id = k
    <3>1. Len(log) \in Nat /\ Len(log) <= MaxEvents  BY <1>0
    <3> DEFINE n == Len(log)
               q == sent'
    <3>2. n \in Nat /\ n <= MaxEvents /\ k \in 1 .. n + 1 /\ q = [i \in 1 .. n + 1 - k |-> Agent!PhaseEvent(k + i - 1)]
      BY <1>6, <3>1
    <3> HIDE DEF n, q
    <3>3. /\ q \in Seq(EventType)
          /\ q = <<>> => k = n + 1
          /\ \A i \in 1 .. Len(q) : q[i].id = n - Len(q) + i /\ q[i].id > 0 /\ q[i].kind = "phase"
          /\ q # <<>> => q[1].id = k
      <4> DEFINE m == n + 1 - k
      <4>0. q = [i \in 1 .. m |-> Agent!PhaseEvent(k + i - 1)]  BY <3>2
      <4>1. m \in Nat /\ m <= n  BY <3>2
      <4>2. ASSUME NEW i \in 1 .. m
            PROVE  q[i] \in EventType /\ q[i].id = k + i - 1 /\ q[i].id > 0 /\ q[i].kind = "phase" /\ k + i - 1 = n - m + i
        <5>1. k + i - 1 \in 0 .. MaxEvents /\ k + i - 1 > 0 /\ k + i - 1 = n - m + i  BY <3>2
        <5> HIDE DEF m
        <5>2. q[i] = [id |-> k + i - 1, kind |-> "phase", set |-> {}]  BY <4>0 DEF Agent!PhaseEvent
        <5> QED  BY <5>1, <5>2 DEF EventType
      <4> HIDE DEF m
      <4>3. q \in Seq(EventType) /\ Len(q) = m
        <5>1. DOMAIN q = 1 .. m  BY <4>0
        <5>2. q = [i \in 1 .. m |-> q[i]]  BY <4>0
        <5>3. \A i \in 1 .. m : q[i] \in EventType  BY <4>2
        <5>4. q \in [1 .. m -> EventType]  BY <5>1, <5>2, <5>3, Zenon
        <5>5. q \in Seq(EventType)
          <6>1. Seq(EventType) = UNION {[1 .. j -> EventType] : j \in Nat}  BY SeqDef, Zenon
          <6>2. \E j \in Nat : q \in [1 .. j -> EventType]  BY <4>1, <5>4, Zenon
          <6> QED  BY <6>1, <6>2, Zenon
        <5>6. Len(q) = m  BY <4>1, <5>1, <5>5, LenProperties
        <5> QED  BY <5>5, <5>6
      <4>4. q = <<>> => m = 0
        BY <4>3, EmptySeq
      <4>5. q # <<>> => 1 \in 1 .. m  BY <4>1, <4>3, EmptySeq
      <4>6. q # <<>> => q[1].id = k
        <5> HAVE q # <<>>
        <5>1. q[1].id = k + 1 - 1  BY <4>2, <4>5
        <5> QED  BY <5>1
      <4>7. m = 0 => k = n + 1  BY <3>2 DEF m
      <4>8. m = n + 1 - k  BY DEF m
      <4> QED  BY <4>2, <4>3, <4>4, <4>6, <4>7, <4>8
    <3> QED  BY <3>3 DEF n, q
  <2>2. sent' = <<>> => lastEventId' = Len(log')  BY <1>0, <1>1, <1>6, <2>1
  <2>3. sent' # <<>> => sent'[1].kind = "phase"
    <3> HAVE sent' # <<>>
    <3>1. Len(sent') \in Nat \ {0}  BY <2>1, EmptySeq
    <3>2. 1 \in 1 .. Len(sent')  BY <3>1
    <3> QED  BY <2>1, <3>2
  <2>4. sent' # <<>> => sent'[1].id <= lastEventId' + 1  BY <1>0, <1>1, <1>6, <2>1
  <2>5. \A i \in 1 .. Len(sent') : sent'[i].id = Len(log') - Len(sent') + i  BY <1>1, <2>1
  <2> QED  BY <1>0, <1>1, <1>4, <2>1, <2>2, <2>3, <2>4, <2>5, AgentJoins DEF B
<1>7. CASE lastEventId > 0 /\ sent' = [i \in 1..(Len(log) - lastEventId) |-> Agent!PhaseEvent(lastEventId + i)]
  <2>1. lastEventId + 1 \in 1 .. Len(log) + 1 /\ Len(log) + 1 - (lastEventId + 1) = Len(log) - lastEventId
        /\ \A i \in 1 .. Len(log) - lastEventId : (lastEventId + 1) + i - 1 = lastEventId + i
    BY <1>0
  <2>2. sent' = [i \in 1 .. Len(log) + 1 - (lastEventId + 1) |-> Agent!PhaseEvent((lastEventId + 1) + i - 1)]
    BY <1>7, <2>1
  <2> QED  BY <1>6, <2>1, <2>2
<1>8. CASE lastEventId > 0 /\ sent' = [i \in 1..(Len(log) + 1 - lastEventId) |-> Agent!PhaseEvent(lastEventId + i - 1)]
  <2>1. lastEventId \in 1 .. Len(log) + 1  BY <1>0, <1>8
  <2> QED  BY <1>6, <1>8, <2>1
<1> QED  BY <1>5, <1>7, <1>8 DEF Agent!Accepts

(* What is left of the events, when the first of them is taken. *)
LEMMA RestFollows ==
  ASSUME AgentInv, sent # <<>>, sent' = Tail(sent)
  PROVE  /\ Len(sent) \in Nat \ {0} /\ 1 \in 1 .. Len(sent)
         /\ sent' \in Seq(EventType) /\ Len(sent') = Len(sent) - 1
         /\ \A i \in 1 .. Len(sent') : /\ sent'[i].id = Len(log) - Len(sent') + i
                                       /\ sent'[i].kind = "phase" /\ sent'[i].id > 0
                                       /\ sent'[i].id = sent[1].id + i
<1>0. /\ Len(log) \in Nat /\ sent \in Seq(EventType) /\ Len(sent) \in Nat
      /\ \A i \in 1 .. Len(sent) : /\ sent[i].id = Len(log) - Len(sent) + i
                                   /\ sent[i].kind = "phase" => sent[i].id > 0
                                   /\ i > 1 => sent[i].kind = "phase"
  BY AgentParts
<1>1. Len(sent) \in Nat \ {0} /\ 1 \in 1 .. Len(sent)  BY <1>0, EmptySeq
<1>2. /\ sent' \in Seq(EventType) /\ Len(sent') = Len(sent) - 1
      /\ \A i \in 1 .. Len(sent) - 1 : sent'[i] = sent[i + 1]
  BY <1>0, <1>1
<1>3. sent[1].id = Len(log) - Len(sent) + 1  BY <1>0, <1>1
<1>4. ASSUME NEW i \in 1 .. Len(sent')
      PROVE  /\ sent'[i].id = Len(log) - Len(sent') + i /\ sent'[i].kind = "phase" /\ sent'[i].id > 0
             /\ sent'[i].id = sent[1].id + i
  <2>1. i + 1 \in 1 .. Len(sent) /\ i + 1 > 1 /\ sent'[i] = sent[i + 1]  BY <1>1, <1>2
  <2>2. sent'[i].id = Len(log) - Len(sent) + (i + 1) /\ sent'[i].kind = "phase" /\ sent'[i].id > 0
    BY <1>0, <2>1
  <2>3. Len(log) - Len(sent) + (i + 1) = Len(log) - Len(sent') + i /\ Len(log) - Len(sent) + (i + 1) = sent[1].id + i
    BY <1>0, <1>1, <1>2, <1>3
  <2> QED  BY <2>2, <2>3
<1> QED  BY <1>1, <1>2, <1>4

LEMMA RefusesKeeps ==
  ASSUME AgentInv, Agent!Refuses
  PROVE  AgentInv'
<1> USE AgentBounds
<1>0. /\ log \in Seq(Agent!Phases) /\ Len(log) \in Nat /\ Len(log) <= MaxEvents
      /\ lastEventId \in Nat /\ lastEventId <= Len(log) /\ active \subseteq Requests /\ cuts \in 0 .. MaxCuts
      /\ active = Agent!ActiveAt[lastEventId]
      /\ sent # <<>> => sent[1] \in EventType /\ Head(sent) = sent[1]
  <2>1. sent \in Seq(EventType)  BY AgentParts
  <2>2. sent # <<>> => sent[1] \in EventType /\ Head(sent) = sent[1]  BY <2>1
  <2> QED  BY <2>2, AgentParts
<1>1. /\ sent # <<>> /\ Head(sent).id <= lastEventId /\ link' = "closing" /\ sent' = Tail(sent)
      /\ UNCHANGED <<log, lastEventId, active, cuts>>
  BY DEF Agent!Refuses
<1>2. Agent!ActiveAt' = Agent!ActiveAt  BY <1>1, SameReplay
<1>3. sent[1].id \in Nat /\ sent[1].id <= lastEventId  BY <1>0, <1>1 DEF EventType
<1>4. /\ sent' \in Seq(EventType) /\ Len(sent') \in Nat
      /\ \A i \in 1 .. Len(sent') : /\ sent'[i].id = Len(log') - Len(sent') + i
                                    /\ sent'[i].kind = "phase" /\ sent'[i].id > 0
                                    /\ sent'[i].id = sent[1].id + i
  BY <1>1, RestFollows
<1>5. sent' # <<>> => sent'[1].kind = "phase" /\ sent'[1].id <= lastEventId' + 1
  <2> HAVE sent' # <<>>
  <2>1. 1 \in 1 .. Len(sent')
    <3>1. Len(sent') \in Nat \ {0}  BY <1>4, EmptySeq
    <3> QED  BY <3>1
  <2>2. sent'[1].kind = "phase" /\ sent'[1].id = sent[1].id + 1  BY <1>4, <2>1
  <2> QED  BY <1>0, <1>1, <1>3, <2>2
<1>6. active' = Agent!ActiveAt'[lastEventId'] /\ lastEventId' \in 0 .. Len(log')  BY <1>0, <1>1, <1>2
<1> QED  BY <1>0, <1>1, <1>4, <1>5, <1>6, AgentJoins

LEMMA AppliesKeeps ==
  ASSUME AgentInv, Agent!Applies
  PROVE  AgentInv'
<1> USE AgentBounds
<1> DEFINE A == Agent!ActiveAt
           B == Agent!ActiveAt'
           e == sent[1]
<1>0. /\ log \in Seq(Agent!Phases) /\ Len(log) \in Nat /\ Len(log) <= MaxEvents
      /\ link \in {"off", "asked", "open", "closing", "waits"} /\ sent \in Seq(EventType) /\ Len(sent) \in Nat
      /\ lastEventId \in Nat /\ lastEventId <= Len(log) /\ active \subseteq Requests /\ cuts \in 0 .. MaxCuts
      /\ active = A[lastEventId]
      /\ link \notin {"open", "closing"} => sent = <<>>
      /\ \A i \in 1 .. Len(sent) :
           /\ sent[i] \in EventType
           /\ sent[i].id = Len(log) - Len(sent) + i
           /\ sent[i].kind = "phase" => sent[i].id > 0
           /\ i > 1 => sent[i].kind = "phase"
      /\ sent # <<>> /\ sent[1].kind = "snapshot" => sent[1].set = A[sent[1].id]
      /\ sent # <<>> /\ sent[1].kind # "snapshot" => sent[1].id <= lastEventId + 1
  BY AgentParts
<1>1. sent # <<>> /\ sent' = Tail(sent) /\ UNCHANGED <<log, link, cuts>> /\ Head(sent) = e
  BY <1>0 DEF Agent!Applies
<1>2. B = A  BY <1>1, SameReplay
<1>3. Replays(log, A)  BY ActiveReplays
<1>4. Len(sent) \in Nat \ {0} /\ 1 \in 1 .. Len(sent)  BY <1>0, <1>1, EmptySeq
<1>5. /\ e \in EventType /\ e.id = Len(log) - Len(sent) + 1 /\ e.id \in 0 .. MaxEvents /\ e.id <= Len(log)
      /\ e.kind = "phase" => e.id > 0
      /\ e.kind = "snapshot" => e.set = A[e.id]
      /\ e.kind # "snapshot" => e.id <= lastEventId + 1
      /\ e.kind \in {"snapshot", "phase"}
  <2>1. e \in EventType /\ e.id = Len(log) - Len(sent) + 1 /\ (e.kind = "phase" => e.id > 0)  BY <1>0, <1>4
  <2>2. e.id \in 0 .. MaxEvents /\ e.kind \in {"snapshot", "phase"}  BY <2>1 DEF EventType
  <2>3. e.id <= Len(log)  BY <1>0, <1>4, <2>1
  <2> QED  BY <1>0, <1>1, <2>1, <2>2, <2>3
<1>6. /\ lastEventId' = e.id
      /\ \/ e.kind = "snapshot" /\ active' = e.set
         \/ e.kind # "snapshot" /\ e.id > lastEventId /\ active' = After(log[e.id], active)
  BY <1>1 DEF Agent!Applies, Agent!ApplySnapshot, Agent!ApplyPhase, After
<1> HIDE DEF A, B, e
<1>7. active' = A[e.id]
  <2>1. CASE e.kind = "snapshot"  BY <1>5, <1>6, <2>1
  <2>2. CASE e.kind # "snapshot"
    <3>1. e.id = lastEventId + 1 /\ e.id \in 1 .. MaxEvents /\ e.id - 1 = lastEventId
      <4> DEFINE n == e.id
      <4>1. lastEventId \in Nat /\ n \in 0 .. MaxEvents /\ n > lastEventId /\ n <= lastEventId + 1
        BY <1>0, <1>5, <1>6, <2>2
      <4> HIDE DEF n
      <4>2. n = lastEventId + 1 /\ n \in 1 .. MaxEvents /\ n - 1 = lastEventId  BY <4>1
      <4> QED  BY <4>2 DEF n
    <3>2. A[e.id] = After(log[e.id], A[e.id - 1])  BY <1>0, <1>3, <1>5, <3>1, ReplayFacts
    <3> QED  BY <1>0, <1>6, <2>2, <3>1, <3>2
  <2> QED  BY <2>1, <2>2
<1>8. active' \subseteq Requests  BY <1>0, <1>3, <1>5, <1>7, ReplayFacts
<1>9. /\ sent' \in Seq(EventType) /\ Len(sent') = Len(sent) - 1
      /\ \A i \in 1 .. Len(sent') : /\ sent'[i].id = Len(log') - Len(sent') + i
                                    /\ sent'[i].kind = "phase" /\ sent'[i].id > 0
                                    /\ sent'[i].id = e.id + i
  BY <1>1, RestFollows DEF e
<1>11. sent' = <<>> => lastEventId' = Len(log')
  <2> HAVE sent' = <<>>
  <2>1. Len(sent') = 0  BY EmptySeq
  <2>2. Len(sent) = 1  BY <1>4, <1>9, <2>1
  <2>3. e.id = Len(log)  BY <1>0, <1>5, <2>2
  <2> QED  BY <1>1, <1>6, <2>3
<1>12. sent' # <<>> => sent'[1].kind = "phase" /\ sent'[1].id <= lastEventId' + 1
  <2> HAVE sent' # <<>>
  <2>1. Len(sent') \in Nat \ {0}  BY <1>9, EmptySeq
  <2>2. 1 \in 1 .. Len(sent')  BY <2>1
  <2>3. sent'[1].id = e.id + 1 /\ sent'[1].kind = "phase"  BY <1>9, <2>2
  <2> QED  BY <1>5, <1>6, <2>3
<1>13. link \in {"open", "closing"}  BY <1>0, <1>1
<1>14. lastEventId' \in 0 .. Len(log') /\ active' = B[lastEventId']  BY <1>0, <1>1, <1>2, <1>5, <1>6, <1>7
<1>15. /\ log' \in Seq(Agent!Phases) /\ Len(log') <= MaxEvents /\ link' \in {"off", "asked", "open", "closing", "waits"}
       /\ cuts' \in 0 .. MaxCuts /\ link' \in {"open", "closing"}
  BY <1>0, <1>1, <1>13
<1> QED  BY <1>8, <1>9, <1>11, <1>12, <1>14, <1>15, AgentJoins DEF B

LEMMA AgentSteps ==
  ASSUME AgentInv, Agent!Next
  PROVE  AgentInv'
<1> USE AgentBounds
<1>0. /\ log \in Seq(Agent!Phases) /\ Len(log) \in Nat /\ Len(log) <= MaxEvents
      /\ link \in {"off", "asked", "open", "closing", "waits"}
      /\ lastEventId \in Nat /\ lastEventId <= Len(log) /\ active \subseteq Requests /\ cuts \in 0 .. MaxCuts
      /\ active = Agent!ActiveAt[lastEventId]
      /\ link \notin {"open", "closing"} => sent = <<>>
  BY AgentParts
<1>1. ASSUME log' = log, lastEventId' = lastEventId, active' = active, cuts' \in 0 .. MaxCuts,
             link' \in {"asked", "waits"}, sent' = <<>>
      PROVE  AgentInv'
  <2>1. Agent!ActiveAt' = Agent!ActiveAt  BY <1>1, SameReplay
  <2>2. sent' \in Seq(EventType) /\ Len(sent') = 0  BY <1>1
  <2>3. active' = Agent!ActiveAt'[lastEventId'] /\ lastEventId' \in 0 .. Len(log')  BY <1>0, <1>1, <2>1
  <2> QED  BY <1>0, <1>1, <2>2, <2>3, AgentJoins
<1>2. ASSUME NEW p \in Agent!Phases, Agent!Emits(p) PROVE AgentInv'
  BY <1>2, EmitsKeeps
<1>3. CASE Agent!Accepts  BY <1>3, AcceptsKeeps
<1>4. CASE Agent!StartFeed  BY <1>0, <1>1, <1>4 DEF Agent!StartFeed
<1>5. CASE Agent!BreaksFeed
  <2>1. cuts' \in 0 .. MaxCuts  BY <1>0, <1>5 DEF Agent!BreaksFeed
  <2> QED  BY <1>1, <1>5, <2>1 DEF Agent!BreaksFeed
<1>6. CASE Agent!Reconnects  BY <1>0, <1>1, <1>6 DEF Agent!Reconnects
<1>7. CASE Agent!StopFeed
  <2>1. /\ cuts' \in 0 .. MaxCuts /\ link' = "off" /\ sent' = <<>> /\ log' = <<>> /\ lastEventId' = 0 /\ active' = {}
    BY <1>0, <1>7 DEF Agent!StopFeed
  <2>2. log' \in Seq(Agent!Phases) /\ Len(log') = 0 /\ sent' \in Seq(EventType) /\ Len(sent') = 0  BY <2>1
  <2>3. Agent!ActiveAt'[0] = {}  BY <2>2, ActiveReplays, ReplayFacts
  <2> QED  BY <2>1, <2>2, <2>3, AgentJoins
<1>8. CASE Agent!Applies  BY <1>8, AppliesKeeps
<1>9. CASE Agent!Refuses  BY <1>9, RefusesKeeps
<1>10. CASE Agent!Closes  BY <1>0, <1>1, <1>10 DEF Agent!Closes
<1> QED  BY <1>2, <1>3, <1>4, <1>5, <1>6, <1>7, <1>8, <1>9, <1>10 DEF Agent!Next

LEMMA AgentStays ==
  ASSUME AgentInv, UNCHANGED agentVars, cuts' \in 0 .. MaxCuts
  PROVE  AgentInv'
<1>1. log' = log /\ link' = link /\ sent' = sent /\ lastEventId' = lastEventId /\ active' = active  BY DEF agentVars
<1>2. Agent!ActiveAt' = Agent!ActiveAt  BY <1>1, SameReplay
<1>3. Agent!TypeOK'  BY <1>1 DEF AgentInv, Agent!TypeOK
<1>4. Agent!ActiveIsTrue'  BY <1>1, <1>2 DEF AgentInv, Agent!ActiveIsTrue
<1> QED  BY <1>1, <1>2, <1>3, <1>4 DEF AgentInv

------------------------------------------------------------------------------
(* The stream of the parts.                                                   *)

Chunks == Seq(0 .. MaxChunks)
PartEvent == [kind : {"user", "echo", "photo", "delta", "idle"}, t : Parts!Turns, n : 0 .. MaxChunks]

(* The order in which OpenCode speaks, of an event and of a turn. *)
Rank(e) == IF e.kind = "user" THEN 0 ELSE IF e.kind = "echo" THEN 1 ELSE IF e.kind = "idle" THEN 3 ELSE 2
StepRank(s) == IF s = "user" THEN 0 ELSE IF s = "echo" THEN 1 ELSE IF s = "idle" THEN 3 ELSE IF s = "over" THEN 4 ELSE 2

(* The length of the answer that an event under way leaves, and the one before it. *)
Told(e) == IF e.kind = "idle" THEN size[turn] ELSE e.n
Before(i) == IF i = 1 THEN Len(lastText[turn]) ELSE Told(wire[i - 1])

TurnsInOrder ==
  /\ \A t \in Parts!Turns : (t < turn => step[t] = "over") /\ (t > turn => step[t] = "none" /\ size[t] = 0 /\ parts[t] = <<>>)
  /\ turn > 0 => step[turn] # "none"
  /\ on => turn > 0
  /\ turn > 0 /\ step[turn] \in {"user", "echo", "photo"} => size[turn] = 0

WireInOrder ==
  /\ wire # <<>> => turn > 0 /\ linked /\ step[turn] # "user"
  /\ \A i \in 1 .. Len(wire) :
       /\ wire[i].t = turn /\ Rank(wire[i]) <= StepRank(step[turn])
       /\ wire[i].kind = "idle" => step[turn] = "over"
  /\ \A i, j \in 1 .. Len(wire) : i < j => Rank(wire[i]) <= Rank(wire[j])

(* What the user wrote is not said again once the answer has begun. *)
LateText ==
  turn > 0 /\ lastText[turn] # <<>> =>
    StepRank(step[turn]) > 1 /\ \A i \in 1 .. Len(wire) : Rank(wire[i]) > 1

SuffixIsKept == turn > 0 => Parts!IsSuffix(lastText[turn], out)

(* Of a turn whose stream was not cut, nothing is lost: what is displayed and *)
(* what is under way make up all that OpenCode said.                          *)
Uncut == turn > 0 /\ "cut" \notin spoiled

ShownSoFar == linked /\ out = lastText[turn] /\ out = Parts!Text(Len(out)) /\ Len(out) <= size[turn]

RestIsComing ==
  /\ parts[turn] = out
  /\ \A i \in 1 .. Len(wire) :
       /\ Told(wire[i]) = Before(i) + (IF wire[i].kind = "delta" THEN 1 ELSE 0)
       /\ Told(wire[i]) <= size[turn]
  /\ size[turn] = Before(Len(wire) + 1)
  /\ echo # turn => step[turn] = "user" \/ (wire # <<>> /\ wire[1].kind = "user")

NothingLost ==
  Uncut =>
    /\ ShownSoFar
    /\ on => RestIsComing
    /\ ~on /\ "early" \notin spoiled => step[turn] = "over" /\ Len(out) = size[turn]

PartsInv == Parts!TypeOK /\ TurnsInOrder /\ WireInOrder /\ LateText /\ SuffixIsKept /\ NothingLost

LEMMA PartsBounds == MaxTurns \in Nat /\ MaxChunks \in Nat /\ MaxCuts \in Nat
  BY SeparateAssumption DEF Parts!PartAssumption

LEMMA TextFacts ==
  ASSUME NEW n \in Nat
  PROVE  /\ Parts!Text(n) \in Seq(Nat) /\ Len(Parts!Text(n)) = n
         /\ \A i \in 1 .. n : Parts!Text(n)[i] = i
         /\ n <= MaxChunks => Parts!Text(n) \in Chunks
         /\ Append(Parts!Text(n), n + 1) = Parts!Text(n + 1)
<1> DEFINE s == Parts!Text(n)
<1>1. s \in Seq(Nat) /\ Len(s) = n /\ \A i \in 1 .. n : s[i] = i  BY DEF Parts!Text
<1>2. ASSUME n <= MaxChunks PROVE s \in Chunks
  <2>1. \A i \in 1 .. n : i \in 0 .. MaxChunks  BY <1>2, PartsBounds
  <2> QED  BY <2>1 DEF Parts!Text, Chunks
<1>3. Append(s, n + 1) = Parts!Text(n + 1)
  <2> DEFINE u == Append(s, n + 1)
             v == Parts!Text(n + 1)
  <2>1. v \in Seq(Nat) /\ Len(v) = n + 1 /\ \A i \in 1 .. n + 1 : v[i] = i  BY DEF Parts!Text
  <2> HIDE DEF s, v
  <2>2. u \in Seq(Nat) /\ Len(u) = n + 1 /\ u[n + 1] = n + 1 /\ \A i \in 1 .. n : u[i] = s[i]
    BY <1>1
  <2> HIDE DEF u
  <2>3. ASSUME NEW i \in 1 .. n + 1 PROVE u[i] = v[i]
    <3>1. i = n + 1 \/ i \in 1 .. n  OBVIOUS
    <3> QED  BY <1>1, <2>1, <2>2, <3>1
  <2>4. u = v  BY <2>1, <2>2, <2>3, SeqEqual
  <2> QED  BY <2>4 DEF u, v, s
<1> QED  BY <1>1, <1>2, <1>3

LEMMA PrefixMeans ==
  ASSUME NEW A, NEW s \in Seq(A), NEW t \in Seq(A)
  PROVE  Parts!IsPrefix(s, t) <=> Len(s) <= Len(t) /\ \A i \in 1 .. Len(s) : s[i] = t[i]
<1> DEFINE m == Len(s)
           a == SubSeq(s, 1, m)
           b == SubSeq(t, 1, m)
<1>1. m \in Nat /\ Len(t) \in Nat  OBVIOUS
<1>2. CASE m <= Len(t)
  <2>1. a \in Seq(A) /\ Len(a) = m /\ \A i \in 1 .. m : a[i] = s[i]  BY <1>1
  <2>2. b \in Seq(A) /\ Len(b) = m /\ \A i \in 1 .. m : b[i] = t[i]  BY <1>1, <1>2
  <2> HIDE DEF a, b
  <2>3. a = b <=> \A i \in 1 .. m : s[i] = t[i]
    <3>1. ASSUME \A i \in 1 .. m : s[i] = t[i] PROVE a = b  BY <2>1, <2>2, <3>1, SeqEqual
    <3> QED  BY <2>1, <2>2, <3>1
  <2> QED  BY <1>2, <2>3 DEF a, b, Parts!IsPrefix
<1>3. CASE ~ (m <= Len(t))  BY <1>3 DEF Parts!IsPrefix
<1> QED  BY <1>2, <1>3

LEMMA SuffixMeans ==
  ASSUME NEW A, NEW s \in Seq(A), NEW t \in Seq(A)
  PROVE  Parts!IsSuffix(s, t) <=> Len(s) <= Len(t) /\ \A i \in 1 .. Len(s) : s[i] = t[Len(t) - Len(s) + i]
<1> DEFINE m == Len(s)
           n == Len(t)
           u == Parts!Reverse(s)
           v == Parts!Reverse(t)
<1>1. m \in Nat /\ n \in Nat  OBVIOUS
<1>2. u \in Seq(A) /\ Len(u) = m /\ \A i \in 1 .. m : u[i] = s[m - i + 1]  BY <1>1 DEF Parts!Reverse
<1>3. v \in Seq(A) /\ Len(v) = n /\ \A i \in 1 .. n : v[i] = t[n - i + 1]  BY <1>1 DEF Parts!Reverse
<1> HIDE DEF u, v
<1>4. Parts!IsPrefix(u, v) <=> m <= n /\ \A i \in 1 .. m : u[i] = v[i]
  BY <1>2, <1>3, PrefixMeans
<1> HIDE DEF m, n
<1>5. ASSUME m <= n
      PROVE  (\A i \in 1 .. m : u[i] = v[i]) <=> (\A i \in 1 .. m : s[i] = t[n - m + i])
  <2>1. ASSUME \A i \in 1 .. m : u[i] = v[i], NEW i \in 1 .. m PROVE s[i] = t[n - m + i]
    <3>1. m - i + 1 \in 1 .. m /\ m - i + 1 \in 1 .. n /\ m - (m - i + 1) + 1 = i /\ n - (m - i + 1) + 1 = n - m + i
      BY <1>1, <1>5
    <3>2. u[m - i + 1] = v[m - i + 1]  BY <2>1, <3>1
    <3>3. u[m - i + 1] = s[m - (m - i + 1) + 1] /\ v[m - i + 1] = t[n - (m - i + 1) + 1]  BY <1>2, <1>3, <3>1
    <3> QED  BY <3>1, <3>2, <3>3
  <2>2. ASSUME \A i \in 1 .. m : s[i] = t[n - m + i], NEW i \in 1 .. m PROVE u[i] = v[i]
    <3>1. m - i + 1 \in 1 .. m /\ i \in 1 .. n /\ n - m + (m - i + 1) = n - i + 1
      BY <1>1, <1>5
    <3>2. s[m - i + 1] = t[n - m + (m - i + 1)]  BY <2>2, <3>1
    <3> QED  BY <1>2, <1>3, <3>1, <3>2
  <2> QED  BY <2>1, <2>2
<1> QED  BY <1>4, <1>5 DEF u, v, m, n, Parts!IsSuffix

(* renderTextDelta(): what was displayed of a part is completed, or the part  *)
(* is displayed again; in both cases its text is what is displayed last.      *)
LEMMA RenderedFacts ==
  ASSUME NEW A, NEW last \in Seq(A), NEW text \in Seq(A), NEW o \in Seq(A), Parts!IsSuffix(last, o),
         NEW rest, Parts!IsPrefix(last, text) => rest = SubSeq(text, Len(last) + 1, Len(text)),
         ~ Parts!IsPrefix(last, text) => rest = text
  PROVE  /\ o \o rest \in Seq(A)
         /\ Parts!IsSuffix(text, o \o rest)
         /\ o = last /\ Parts!IsPrefix(last, text) => o \o rest = text
<1> DEFINE m == Len(last)
           n == Len(text)
           k == Len(o)
<1>1. m \in Nat /\ n \in Nat /\ k \in Nat  OBVIOUS
<1>2. m <= k /\ \A i \in 1 .. m : last[i] = o[k - m + i]  BY SuffixMeans
<1>3. CASE Parts!IsPrefix(last, text)
  <2>1. m <= n /\ \A i \in 1 .. m : last[i] = text[i]  BY <1>3, PrefixMeans
  <2>2. rest = SubSeq(text, m + 1, n)  BY <1>3
  <2>3. rest \in Seq(A) /\ Len(rest) = n - m /\ \A i \in 1 .. n - m : rest[i] = text[m + i]
    <3>1. rest \in Seq(A)  BY <1>1, <2>1, <2>2
    <3>2. Len(rest) = n - m  BY <1>1, <2>1, <2>2
    <3>3. \A i \in 1 .. n - m : rest[i] = text[m + i]  BY <1>1, <2>1, <2>2
    <3> QED  BY <3>1, <3>2, <3>3
  <2> DEFINE u == o \o rest
  <2>4. /\ u \in Seq(A) /\ Len(u) = k + (n - m)
        /\ \A i \in 1 .. k : u[i] = o[i]
        /\ \A i \in 1 .. n - m : u[k + i] = rest[i]
    <3>1. u \in Seq(A) /\ Len(u) = k + (n - m)
      <4>1. rest \in Seq(A) /\ o \in Seq(A)  BY <2>3
      <4>2. u \in Seq(A)  BY <4>1
      <4>3. Len(u) = Len(o) + Len(rest)  BY <4>1
      <4> QED  BY <2>3, <4>2, <4>3
    <3>2. \A i \in 1 .. k : u[i] = o[i]  BY <1>1, <2>3
    <3>3. \A i \in 1 .. n - m : u[k + i] = rest[i]  BY <1>1, <2>1, <2>3
    <3> QED  BY <3>1, <3>2, <3>3
  <2> HIDE DEF u, m, n, k
  <2>5. n <= Len(u) /\ \A i \in 1 .. n : text[i] = u[Len(u) - n + i]
    <3>1. n <= Len(u)  BY <1>1, <1>2, <2>1, <2>4
    <3>2. ASSUME NEW i \in 1 .. n PROVE text[i] = u[Len(u) - n + i]
      <4>1. CASE i \in 1 .. m
        <5>1. Len(u) - n + i = k - m + i /\ k - m + i \in 1 .. k  BY <1>1, <1>2, <2>1, <2>4, <4>1
        <5>2. u[k - m + i] = o[k - m + i]  BY <2>4, <5>1
        <5> QED  BY <1>2, <2>1, <4>1, <5>1, <5>2
      <4>2. CASE i \notin 1 .. m
        <5>1. i - m \in 1 .. n - m /\ Len(u) - n + i = k + (i - m) /\ m + (i - m) = i  BY <1>1, <1>2, <2>1, <2>4, <4>2
        <5>2. u[k + (i - m)] = rest[i - m] /\ rest[i - m] = text[m + (i - m)]  BY <2>3, <2>4, <5>1
        <5> QED  BY <5>1, <5>2
      <4> QED  BY <4>1, <4>2
    <3> QED  BY <3>1, <3>2
  <2>6. Parts!IsSuffix(text, u)
    <3>1. n = Len(text)  BY DEF n
    <3> QED  BY <2>4, <2>5, <3>1, SuffixMeans
  <2>7. ASSUME o = last PROVE u = text
    <3>1. k = m  BY <2>7 DEF k, m
    <3>2. Len(u) = n /\ n = Len(text)  BY <1>1, <2>1, <2>4, <3>1 DEF n
    <3>3. \A i \in 1 .. n : text[i] = u[i]
      <4> TAKE i \in 1 .. n
      <4>1. Len(u) - n + i = i  BY <1>1, <3>2
      <4> QED  BY <2>5, <4>1
    <3> QED  BY <2>4, <3>2, <3>3, SeqEqual
  <2> QED  BY <2>4, <2>6, <2>7 DEF u
<1>4. CASE ~ Parts!IsPrefix(last, text)
  <2>1. rest = text  BY <1>4
  <2> DEFINE u == o \o text
  <2>2. u \in Seq(A) /\ Len(u) = k + n /\ \A i \in 1 .. n : u[k + i] = text[i]
    <3>1. u \in Seq(A) /\ Len(u) = k + n  BY <1>1
    <3>2. \A i \in 1 .. n : u[k + i] = text[i]  BY <1>1
    <3> QED  BY <3>1, <3>2
  <2> HIDE DEF u
  <2>3. n <= Len(u) /\ \A i \in 1 .. n : text[i] = u[Len(u) - n + i]
    <3>1. Len(u) - n = k  BY <1>1, <2>2
    <3> QED  BY <1>1, <2>2, <3>1
  <2>4. Parts!IsSuffix(text, u)  BY <2>2, <2>3, SuffixMeans
  <2> QED  BY <1>4, <2>1, <2>2, <2>4 DEF u
<1> QED  BY <1>3, <1>4

(* The type invariant, conjunct by conjunct. *)
PartTypes ==
  /\ step \in [Parts!Turns -> {"none", "user", "echo", "photo", "deltas", "idle", "over"}]
  /\ size \in [Parts!Turns -> 0 .. MaxChunks] /\ linked \in BOOLEAN
  /\ wire \in Seq(PartEvent)
  /\ parts \in [0 .. MaxTurns -> Chunks] /\ lastText \in [0 .. MaxTurns -> Chunks] /\ out \in Chunks
  /\ turn \in 0 .. MaxTurns /\ on \in BOOLEAN /\ echo \in 0 .. MaxTurns
  /\ spoiled \subseteq {"cut", "early"} /\ cuts \in 0 .. MaxCuts

LEMMA TypesAre == Parts!TypeOK <=> PartTypes
  BY DEF Parts!TypeOK, PartTypes, PartEvent, Chunks

LEMMA Numbers ==
  /\ MaxTurns \in Nat /\ MaxChunks \in Nat /\ MaxCuts \in Nat /\ Parts!Turns = 1 .. MaxTurns
  /\ \A t \in 0 .. MaxTurns : t > 0 => t \in Parts!Turns
  /\ \A t \in Parts!Turns : t \in 0 .. MaxTurns /\ t > 0 /\ t \in Nat
  BY PartsBounds DEF Parts!Turns

LEMMA FreshFacts == Parts!Fresh \in [0 .. MaxTurns -> Chunks] /\ \A t \in 0 .. MaxTurns : Parts!Fresh[t] = <<>>
<1>1. <<>> \in Chunks  BY DEF Chunks
<1> QED  BY <1>1 DEF Parts!Fresh

LEMMA EmptyIsSuffix ==
  ASSUME NEW A, NEW t \in Seq(A)
  PROVE  Parts!IsSuffix(<<>>, t)
<1> DEFINE s == <<>>
<1>1. s \in Seq(A) /\ Len(s) = 0 /\ Len(t) \in Nat  OBVIOUS
<1> HIDE DEF s
<1>2. Len(s) <= Len(t) /\ \A i \in 1 .. Len(s) : s[i] = t[Len(t) - Len(s) + i]  BY <1>1
<1>3. Parts!IsSuffix(s, t)  BY <1>1, <1>2, SuffixMeans
<1> QED  BY <1>3 DEF s

(* The text so far is a beginning of the text. *)
LEMMA TextGrows ==
  ASSUME NEW m \in Nat, NEW n \in Nat, m <= n
  PROVE  Parts!IsPrefix(Parts!Text(m), Parts!Text(n))
<1>1. /\ Parts!Text(m) \in Seq(Nat) /\ Len(Parts!Text(m)) = m /\ \A i \in 1 .. m : Parts!Text(m)[i] = i
  BY TextFacts
<1>2. /\ Parts!Text(n) \in Seq(Nat) /\ Len(Parts!Text(n)) = n /\ \A i \in 1 .. n : Parts!Text(n)[i] = i
  BY TextFacts
<1>3. \A i \in 1 .. m : Parts!Text(m)[i] = Parts!Text(n)[i]  BY <1>1, <1>2
<1> QED  BY <1>1, <1>2, <1>3, PrefixMeans

LEMMA PartsStarts == Parts!Init => PartsInv
<1> SUFFICES ASSUME Parts!Init PROVE PartsInv  OBVIOUS
<1> USE Numbers
<1>1. /\ turn = 0 /\ on = FALSE /\ wire = <<>> /\ out = <<>> /\ echo = 0 /\ spoiled = {} /\ cuts = 0 /\ linked = FALSE
      /\ step = [t \in Parts!Turns |-> "none"] /\ size = [t \in Parts!Turns |-> 0]
      /\ parts = Parts!Fresh /\ lastText = Parts!Fresh
  BY DEF Parts!Init
<1>2. PartTypes
  <2>1. wire \in Seq(PartEvent) /\ out \in Chunks  BY <1>1 DEF Chunks
  <2> QED  BY <1>1, <2>1, FreshFacts DEF PartTypes
<1>3. TurnsInOrder  BY <1>1, FreshFacts DEF TurnsInOrder
<1>4. Len(wire) = 0  BY <1>1
<1>5. WireInOrder  BY <1>1, <1>4 DEF WireInOrder
<1>6. ~ (turn > 0)  BY <1>1
<1>7. LateText /\ SuffixIsKept /\ NothingLost  BY <1>6 DEF LateText, SuffixIsKept, NothingLost, Uncut
<1> QED  BY <1>2, <1>3, <1>5, <1>7, TypesAre DEF PartsInv

LEMMA PartsMean == PartsInv => Parts!TypeOK /\ Parts!AnswerIsShown
<1> SUFFICES ASSUME PartsInv PROVE Parts!TypeOK /\ Parts!AnswerIsShown  OBVIOUS
<1> USE Numbers
<1>1. PartTypes /\ SuffixIsKept /\ NothingLost /\ Parts!TypeOK  BY TypesAre DEF PartsInv
<1>2. ASSUME turn > 0, "cut" \notin spoiled
      PROVE  /\ out = lastText[turn] /\ Parts!IsPrefix(out, Parts!Text(size[turn]))
             /\ ~on /\ "early" \notin spoiled => out = Parts!Text(size[turn])
  <2>1. ShownSoFar /\ (~on /\ "early" \notin spoiled => Len(out) = size[turn])
    BY <1>1, <1>2 DEF NothingLost, Uncut
  <2>2. Len(out) \in Nat /\ size[turn] \in Nat
    <3>1. size[turn] \in 0 .. MaxChunks /\ out \in Chunks  BY <1>1, <1>2 DEF PartTypes
    <3> QED  BY <3>1 DEF Chunks
  <2>3. out = lastText[turn] /\ out = Parts!Text(Len(out)) /\ Len(out) <= size[turn]  BY <2>1 DEF ShownSoFar
  <2>4. Parts!IsPrefix(Parts!Text(Len(out)), Parts!Text(size[turn]))  BY <2>2, <2>3, TextGrows
  <2> QED  BY <2>1, <2>3, <2>4
<1>3. turn > 0 => Parts!IsSuffix(lastText[turn], out)  BY <1>1 DEF SuffixIsKept
<1> QED  BY <1>1, <1>2, <1>3 DEF Parts!AnswerIsShown

(* What OpenCode says: the next event of the turn that is under way. *)
LEMMA SaidFacts ==
  ASSUME PartsInv, NEW t \in Parts!Turns, Parts!OpenCode(t)
  PROVE  \E e \in PartEvent, to \in {"echo", "photo", "deltas", "idle", "over"} :
           /\ turn > 0 /\ t = turn /\ turn \in Parts!Turns
           /\ step' = [step EXCEPT ![turn] = to] /\ step[turn] # "over"
           /\ wire' = IF linked THEN Append(wire, e) ELSE <<>>
           /\ e.t = turn /\ Rank(e) = StepRank(step[turn]) /\ StepRank(step[turn]) <= StepRank(to)
           /\ e.kind = "idle" <=> to = "over"
           /\ step[turn] = "user" => e.kind = "user"
           /\ size' \in [Parts!Turns -> 0 .. MaxChunks] /\ (\A u \in Parts!Turns : u # turn => size'[u] = size[u])
           /\ size'[turn] = size[turn] + (IF e.kind = "delta" THEN 1 ELSE 0)
           /\ e.kind # "idle" => e.n = size'[turn]
           /\ to \in {"echo", "photo"} => size'[turn] = 0
           /\ UNCHANGED <<linked, parts, turn, on, out, lastText, echo, spoiled, cuts>>
<1> USE Numbers
<1>0. PartTypes /\ TurnsInOrder  BY TypesAre DEF PartsInv
<1>1. \E from, to, e : Parts!Says(t, from, to, e) /\ from \notin {"none", "over"}
  BY DEF Parts!OpenCode
<1>2. step[t] \notin {"none", "over"} /\ UNCHANGED <<linked, parts, turn, on, out, lastText, echo, spoiled, cuts>>
  BY <1>1 DEF Parts!Says
<1>3. t = turn /\ turn > 0 /\ turn \in Parts!Turns
  <2>1. turn \in Nat /\ t \in Nat  BY <1>0 DEF PartTypes
  <2>2. ~ (t < turn) /\ ~ (t > turn)  BY <1>0, <1>2 DEF TurnsInOrder
  <2> QED  BY <2>1, <2>2
<1>4. size[turn] \in 0 .. MaxChunks /\ (step[turn] \in {"user", "echo", "photo"} => size[turn] = 0)
  BY <1>0, <1>3 DEF PartTypes, TurnsInOrder
<1>5. ASSUME NEW k \in {"user", "echo", "photo", "delta", "idle"}, NEW n \in 0 .. MaxChunks
      PROVE  /\ Parts!Event(k, t, n) \in PartEvent
             /\ Parts!Event(k, t, n).kind = k /\ Parts!Event(k, t, n).t = t /\ Parts!Event(k, t, n).n = n
  BY DEF Parts!Event, PartEvent
<1>6. 0 \in 0 .. MaxChunks  OBVIOUS
<1>7. ASSUME NEW from, NEW to \in {"echo", "photo", "deltas", "idle", "over"},
             NEW k \in {"user", "echo", "photo", "delta", "idle"}, NEW n \in 0 .. MaxChunks,
             Parts!Says(t, from, to, Parts!Event(k, t, n)),
             Rank(Parts!Event(k, t, n)) = StepRank(from), StepRank(from) <= StepRank(to),
             k = "idle" <=> to = "over", from = "user" => k = "user",
             size' \in [Parts!Turns -> 0 .. MaxChunks], \A u \in Parts!Turns : u # turn => size'[u] = size[u],
             size'[turn] = size[turn] + (IF k = "delta" THEN 1 ELSE 0),
             k # "idle" => n = size'[turn], to \in {"echo", "photo"} => size'[turn] = 0
      PROVE  \E e \in PartEvent, s \in {"echo", "photo", "deltas", "idle", "over"} :
           /\ turn > 0 /\ t = turn /\ turn \in Parts!Turns
           /\ step' = [step EXCEPT ![turn] = s] /\ step[turn] # "over"
           /\ wire' = IF linked THEN Append(wire, e) ELSE <<>>
           /\ e.t = turn /\ Rank(e) = StepRank(step[turn]) /\ StepRank(step[turn]) <= StepRank(s)
           /\ e.kind = "idle" <=> s = "over"
           /\ step[turn] = "user" => e.kind = "user"
           /\ size' \in [Parts!Turns -> 0 .. MaxChunks] /\ (\A u \in Parts!Turns : u # turn => size'[u] = size[u])
           /\ size'[turn] = size[turn] + (IF e.kind = "delta" THEN 1 ELSE 0)
           /\ e.kind # "idle" => e.n = size'[turn]
           /\ s \in {"echo", "photo"} => size'[turn] = 0
           /\ UNCHANGED <<linked, parts, turn, on, out, lastText, echo, spoiled, cuts>>
  <2> DEFINE e == Parts!Event(k, t, n)
  <2>1. e \in PartEvent /\ e.kind = k /\ e.t = turn /\ e.n = n  BY <1>3, <1>5
  <2>2. /\ step[turn] = from /\ step' = [step EXCEPT ![turn] = to]
        /\ wire' = IF linked THEN Append(wire, e) ELSE <<>>
    BY <1>3, <1>7 DEF Parts!Says
  <2>3. Rank(e) = StepRank(step[turn]) /\ StepRank(step[turn]) <= StepRank(to)  BY <1>7, <2>2
  <2>4. step[turn] # "over"  BY <1>2, <1>3
  <2> HIDE DEF e
  <2> e \in PartEvent  BY <2>1
  <2> WITNESS e \in PartEvent, to \in {"echo", "photo", "deltas", "idle", "over"}
  <2> QED  BY <1>2, <1>3, <1>7, <2>1, <2>2, <2>3, <2>4
<1>8. size' = size =>
        /\ size' \in [Parts!Turns -> 0 .. MaxChunks] /\ (\A u \in Parts!Turns : u # turn => size'[u] = size[u])
        /\ size'[turn] = size[turn] + 0 /\ size'[turn] = size[turn]
  BY <1>0, <1>4 DEF PartTypes
<1>9. CASE Parts!Says(t, "user", "echo", Parts!Event("user", t, 0)) /\ UNCHANGED size
  <2>1. step[turn] = "user"  BY <1>3, <1>9 DEF Parts!Says
  <2>2. Rank(Parts!Event("user", t, 0)) = StepRank("user") /\ StepRank("user") <= StepRank("echo")
    BY <1>5, <1>6 DEF Rank, StepRank
  <2> QED  BY <1>4, <1>6, <1>7, <1>8, <1>9, <2>1, <2>2
<1>10. CASE Parts!Says(t, "echo", "photo", Parts!Event("echo", t, 0)) /\ UNCHANGED size
  <2>1. step[turn] = "echo"  BY <1>3, <1>10 DEF Parts!Says
  <2>2. Rank(Parts!Event("echo", t, 0)) = StepRank("echo") /\ StepRank("echo") <= StepRank("photo")
    BY <1>5, <1>6 DEF Rank, StepRank
  <2> QED  BY <1>4, <1>6, <1>7, <1>8, <1>10, <2>1, <2>2
<1>11. CASE Parts!Says(t, "photo", "deltas", Parts!Event("photo", t, 0)) /\ UNCHANGED size
  <2>1. step[turn] = "photo"  BY <1>3, <1>11 DEF Parts!Says
  <2>2. Rank(Parts!Event("photo", t, 0)) = StepRank("photo") /\ StepRank("photo") <= StepRank("deltas")
    BY <1>5, <1>6 DEF Rank, StepRank
  <2> QED  BY <1>4, <1>6, <1>7, <1>8, <1>11, <2>1, <2>2
<1>12. CASE /\ size[t] < MaxChunks /\ size' = [size EXCEPT ![t] = @ + 1]
            /\ Parts!Says(t, "deltas", "deltas", Parts!Event("delta", t, size'[t]))
  <2>1. size[turn] + 1 \in 0 .. MaxChunks  BY <1>3, <1>4, <1>12
  <2>2. /\ size' \in [Parts!Turns -> 0 .. MaxChunks] /\ (\A u \in Parts!Turns : u # turn => size'[u] = size[u])
        /\ size'[turn] = size[turn] + 1 /\ size'[turn] \in 0 .. MaxChunks /\ size'[t] = size'[turn]
    BY <1>0, <1>3, <1>12, <2>1 DEF PartTypes
  <2>3. Rank(Parts!Event("delta", t, size'[t])) = StepRank("deltas") /\ StepRank("deltas") <= StepRank("deltas")
    BY <1>5, <2>2 DEF Rank, StepRank
  <2> QED  BY <1>7, <1>12, <2>2, <2>3
<1>13. CASE Parts!Says(t, "deltas", "idle", Parts!Event("photo", t, size[t])) /\ UNCHANGED size
  <2>1. size[t] \in 0 .. MaxChunks /\ size[t] = size[turn]  BY <1>3, <1>4
  <2>2. Rank(Parts!Event("photo", t, size[t])) = StepRank("deltas") /\ StepRank("deltas") <= StepRank("idle")
    BY <1>5, <2>1 DEF Rank, StepRank
  <2> QED  BY <1>7, <1>8, <1>13, <2>1, <2>2
<1>14. CASE Parts!Says(t, "idle", "over", Parts!Event("idle", t, 0)) /\ UNCHANGED size
  <2>1. Rank(Parts!Event("idle", t, 0)) = StepRank("idle") /\ StepRank("idle") <= StepRank("over")
    BY <1>5, <1>6 DEF Rank, StepRank
  <2> QED  BY <1>6, <1>7, <1>8, <1>14, <2>1
<1> QED  BY <1>9, <1>10, <1>11, <1>12, <1>13, <1>14 DEF Parts!OpenCode

LEMMA RankFacts ==
  /\ \A e : Rank(e) \in Nat /\ Rank(e) \in 0 .. 3
  /\ \A s : StepRank(s) \in Nat /\ StepRank(s) \in 0 .. 4
  BY DEF Rank, StepRank

LEMMA OpenCodeKeeps ==
  ASSUME PartsInv, NEW t \in Parts!Turns, Parts!OpenCode(t)
  PROVE  PartsInv'
<1> USE Numbers
<1>0. PartTypes /\ TurnsInOrder /\ WireInOrder /\ LateText /\ SuffixIsKept /\ NothingLost
  BY TypesAre DEF PartsInv
<1>1. PICK e \in PartEvent, to \in {"echo", "photo", "deltas", "idle", "over"} :
           /\ turn > 0 /\ t = turn /\ turn \in Parts!Turns
           /\ step' = [step EXCEPT ![turn] = to] /\ step[turn] # "over"
           /\ wire' = IF linked THEN Append(wire, e) ELSE <<>>
           /\ e.t = turn /\ Rank(e) = StepRank(step[turn]) /\ StepRank(step[turn]) <= StepRank(to)
           /\ e.kind = "idle" <=> to = "over"
           /\ step[turn] = "user" => e.kind = "user"
           /\ size' \in [Parts!Turns -> 0 .. MaxChunks] /\ (\A u \in Parts!Turns : u # turn => size'[u] = size[u])
           /\ size'[turn] = size[turn] + (IF e.kind = "delta" THEN 1 ELSE 0)
           /\ e.kind # "idle" => e.n = size'[turn]
           /\ to \in {"echo", "photo"} => size'[turn] = 0
           /\ UNCHANGED <<linked, parts, turn, on, out, lastText, echo, spoiled, cuts>>
  BY SaidFacts
<1> DEFINE n == Len(wire)
<1>2. n \in Nat /\ wire \in Seq(PartEvent) /\ turn \in Nat /\ turn > 0 /\ turn \in Parts!Turns
  BY <1>0, <1>1 DEF PartTypes
<1>3. linked => Len(wire') = n + 1 /\ wire' # <<>> /\ wire' \in Seq(PartEvent) /\ wire'[n + 1] = e /\ \A i \in 1 .. n : wire'[i] = wire[i]
  <2> SUFFICES ASSUME linked
               PROVE  Len(wire') = n + 1 /\ wire' # <<>> /\ wire' \in Seq(PartEvent) /\ wire'[n + 1] = e /\ \A i \in 1 .. n : wire'[i] = wire[i]
    OBVIOUS
  <2>1. wire' = Append(wire, e)  BY <1>1
  <2>2. wire' \in Seq(PartEvent) /\ Len(wire') = n + 1  BY <1>2, <2>1
  <2>3. wire'[n + 1] = e /\ \A i \in 1 .. n : wire'[i] = wire[i]  BY <1>2, <2>1
  <2> QED  BY <1>2, <2>2, <2>3
<1>4. ~linked => Len(wire') = 0 /\ wire' = <<>> /\ wire' \in Seq(PartEvent)
  BY <1>1
<1> HIDE DEF n
<1>5. \A i \in 1 .. Len(wire') : (i \in 1 .. n /\ wire'[i] = wire[i]) \/ (i = n + 1 /\ wire'[i] = e)
  BY <1>2, <1>3, <1>4
<1>6. \A u \in Parts!Turns : step'[u] = IF u = turn THEN to ELSE step[u]
  BY <1>0, <1>1 DEF PartTypes
<1>7. step'[turn] = to /\ to # "user" /\ step[turn] # "over" /\ turn' = turn  BY <1>1, <1>6
<1>8. size[turn] \in Nat /\ size'[turn] \in Nat /\ size[turn] <= size'[turn]
  <2>1. size[turn] \in 0 .. MaxChunks /\ size'[turn] \in 0 .. MaxChunks  BY <1>0, <1>1 DEF PartTypes
  <2> QED  BY <1>1, <2>1
<1>9. Rank(e) \in Nat /\ StepRank(to) \in Nat /\ StepRank(step[turn]) \in Nat /\ \A x : Rank(x) \in Nat  BY RankFacts
<1>10. PartTypes'
  <2>1. step' \in [Parts!Turns -> {"none", "user", "echo", "photo", "deltas", "idle", "over"}]  BY <1>0, <1>1 DEF PartTypes
  <2>2. wire' \in Seq(PartEvent)  BY <1>3, <1>4
  <2>3. linked' \in BOOLEAN /\ on' \in BOOLEAN  BY <1>0, <1>1 DEF PartTypes
  <2> QED  BY <1>0, <1>1, <2>1, <2>2, <2>3 DEF PartTypes
<1>11. TurnsInOrder'
  <2>1. \A u \in Parts!Turns : (u < turn => step'[u] = "over") /\ (u > turn => step'[u] = "none" /\ size'[u] = 0 /\ parts'[u] = <<>>)
    BY <1>0, <1>1, <1>2, <1>6 DEF TurnsInOrder
  <2> QED  BY <1>0, <1>1, <1>7, <2>1 DEF TurnsInOrder
<1>12. WireInOrder'
  <2>1. wire' # <<>> => turn' > 0 /\ linked' /\ step'[turn'] # "user"  BY <1>1, <1>2, <1>4, <1>7
  <2>2. ASSUME NEW i \in 1 .. Len(wire')
        PROVE  wire'[i].t = turn /\ Rank(wire'[i]) <= StepRank(to) /\ (wire'[i].kind = "idle" => to = "over")
    <3>1. CASE i \in 1 .. n /\ wire'[i] = wire[i]
      <4>1. wire[i].t = turn /\ Rank(wire[i]) <= StepRank(step[turn]) /\ wire[i].kind # "idle"
        BY <1>0, <1>1, <3>1 DEF WireInOrder, n
      <4> QED  BY <1>1, <1>9, <3>1, <4>1
    <3>2. CASE wire'[i] = e  BY <1>1, <3>2
    <3> QED  BY <1>5, <3>1, <3>2
  <2>3. ASSUME NEW i \in 1 .. Len(wire'), NEW j \in 1 .. Len(wire'), i < j
        PROVE  Rank(wire'[i]) <= Rank(wire'[j])
    <3>1. i \in 1 .. n /\ wire'[i] = wire[i]  BY <1>2, <1>3, <1>4, <1>5, <2>3
    <3>2. CASE j \in 1 .. n /\ wire'[j] = wire[j]  BY <1>0, <2>3, <3>1, <3>2 DEF WireInOrder, n
    <3>3. CASE wire'[j] = e
      <4>1. Rank(wire[i]) <= StepRank(step[turn])  BY <1>0, <3>1 DEF WireInOrder, n
      <4> QED  BY <1>1, <3>1, <3>3, <4>1
    <3> QED  BY <1>5, <3>2, <3>3
  <2> QED  BY <1>7, <2>1, <2>2, <2>3 DEF WireInOrder, Rank, StepRank
<1>13. LateText'
  <2> SUFFICES ASSUME lastText[turn] # <<>>
               PROVE  StepRank(to) > 1 /\ \A i \in 1 .. Len(wire') : Rank(wire'[i]) > 1
    BY <1>1, <1>7 DEF LateText, Rank, StepRank
  <2>1. StepRank(step[turn]) > 1 /\ \A i \in 1 .. n : Rank(wire[i]) > 1  BY <1>0, <1>1 DEF LateText, n
  <2>2. StepRank(to) > 1 /\ Rank(e) > 1  BY <1>1, <1>9, <2>1
  <2> QED  BY <1>5, <2>1, <2>2
<1>14. SuffixIsKept'  BY <1>0, <1>1 DEF SuffixIsKept, Parts!IsSuffix, Parts!Reverse, Parts!IsPrefix
<1>15. NothingLost'
  <2> SUFFICES ASSUME Uncut
               PROVE  ShownSoFar' /\ (on \/ "early" \in spoiled) /\ (on => RestIsComing')
    <3>1. on' = on /\ spoiled' = spoiled /\ turn' = turn  BY <1>1
    <3>2. Uncut' => Uncut  BY <3>1 DEF Uncut
    <3>3. on <=> on'  BY <3>1
    <3>4. "early" \in spoiled => "early" \in spoiled'  BY <3>1
    <3> QED  BY <3>2, <3>3, <3>4 DEF NothingLost
  <2>0. ShownSoFar /\ (on \/ "early" \in spoiled)  BY <1>0, <1>7 DEF NothingLost
  <2>1. ShownSoFar'
    <3>1. Len(out) \in Nat  BY <1>0 DEF PartTypes, Chunks
    <3> QED  BY <1>1, <1>8, <2>0, <3>1 DEF ShownSoFar
  <2>2. ASSUME on PROVE RestIsComing'
    <3>1. RestIsComing  BY <1>0, <2>2 DEF NothingLost
    <3>2. linked  BY <2>0 DEF ShownSoFar
    <3> DEFINE ToldN(x) == IF x.kind = "idle" THEN size'[turn] ELSE x.n
               BeforeN(i) == IF i = 1 THEN Len(lastText[turn]) ELSE ToldN(wire'[i - 1])
    <3>4. ASSUME NEW i \in 1 .. n
          PROVE  ToldN(wire'[i]) = Told(wire[i]) /\ wire'[i] = wire[i] /\ Told(wire[i]) \in Nat
      <4>1. wire[i].kind # "idle" /\ wire[i] \in PartEvent  BY <1>0, <1>2, <1>7 DEF WireInOrder, n
      <4>2. wire'[i] = wire[i]  BY <1>3, <3>2
      <4> QED  BY <4>1, <4>2 DEF Told, PartEvent
    <3>5. ASSUME NEW i \in 1 .. n + 1 PROVE BeforeN(i) = Before(i)
      <4>1. CASE i = 1  BY <4>1 DEF Before
      <4>2. CASE i # 1
        <5>1. i - 1 \in 1 .. n  BY <1>2, <4>2
        <5> QED  BY <3>4, <4>2, <5>1 DEF Before
      <4> QED  BY <4>1, <4>2
    <3>6. ToldN(e) = size'[turn] /\ ToldN(wire'[n + 1]) = size'[turn] /\ wire'[n + 1] = e
      BY <1>1, <1>3, <3>2
    <3>7. size[turn] = Before(n + 1)  BY <3>1 DEF RestIsComing, n
    <3>8. ASSUME NEW i \in 1 .. Len(wire')
          PROVE  /\ ToldN(wire'[i]) = BeforeN(i) + (IF wire'[i].kind = "delta" THEN 1 ELSE 0)
                 /\ ToldN(wire'[i]) <= size'[turn]
      <4>1. CASE i \in 1 .. n
        <5>1. Told(wire[i]) = Before(i) + (IF wire[i].kind = "delta" THEN 1 ELSE 0) /\ Told(wire[i]) <= size[turn]
          BY <3>1, <4>1 DEF RestIsComing, n
        <5>2. i \in 1 .. n + 1  BY <1>2, <4>1
        <5> HIDE DEF ToldN, BeforeN
        <5> QED  BY <1>8, <3>4, <3>5, <4>1, <5>1, <5>2
      <4>2. CASE i = n + 1
        <5>1. BeforeN(n + 1) = size[turn]  BY <1>2, <3>5, <3>7
        <5> HIDE DEF ToldN, BeforeN
        <5> QED  BY <1>1, <1>8, <3>6, <4>2, <5>1
      <4> QED  BY <1>5, <4>1, <4>2
    <3>9. size'[turn] = BeforeN(Len(wire') + 1)
      <4>1. Len(wire') + 1 # 1 /\ Len(wire') + 1 - 1 = n + 1  BY <1>2, <1>3, <3>2
      <4> QED  BY <3>6, <4>1
    <3>10. echo # turn => wire' # <<>> /\ wire'[1].kind = "user"
      <4> SUFFICES ASSUME echo # turn PROVE wire'[1].kind = "user"  BY <1>3, <3>2
      <4>1. step[turn] = "user" \/ (wire # <<>> /\ wire[1].kind = "user")  BY <3>1 DEF RestIsComing
      <4>2. CASE step[turn] = "user"
        <5>1. wire = <<>>  BY <1>0, <4>2 DEF WireInOrder
        <5>2. n + 1 = 1  BY <5>1 DEF n
        <5> QED  BY <1>1, <1>3, <3>2, <4>2, <5>2
      <4>3. CASE wire # <<>> /\ wire[1].kind = "user"
        <5>1. 1 \in 1 .. n  BY <1>2, <4>3 DEF n
        <5> QED  BY <3>4, <4>3, <5>1
      <4> QED  BY <4>1, <4>2, <4>3
    <3>11. parts' = parts /\ out' = out /\ echo' = echo /\ lastText' = lastText  BY <1>1
    <3>12. parts[turn] = out  BY <3>1 DEF RestIsComing
    <3>13. RestIsComing'
      BY <1>7, <3>8, <3>9, <3>10, <3>11, <3>12 DEF RestIsComing, Told, Before
    <3> QED  BY <3>13
  <2> QED  BY <2>0, <2>1, <2>2
<1> QED  BY <1>10, <1>11, <1>12, <1>13, <1>14, <1>15 DEF PartsInv, PartTypes, Parts!TypeOK, PartEvent, Chunks

(* What the chat receives is the first event under way. *)
LEMMA HeadFacts ==
  ASSUME PartTypes, WireInOrder, wire # <<>>, wire' = Tail(wire)
  PROVE  /\ Head(wire) = wire[1] /\ Head(wire) \in PartEvent /\ Head(wire).t = turn
         /\ turn > 0 /\ turn \in Parts!Turns /\ step[turn] # "user" /\ linked
         /\ Len(wire) \in Nat /\ 1 \in 1 .. Len(wire) /\ wire \in Seq(PartEvent)
         /\ wire' \in Seq(PartEvent) /\ Len(wire') = Len(wire) - 1
         /\ \A i \in 1 .. Len(wire') : i + 1 \in 1 .. Len(wire) /\ wire'[i] = wire[i + 1]
<1> USE Numbers
<1>1. wire \in Seq(PartEvent) /\ turn \in 0 .. MaxTurns  BY DEF PartTypes
<1>2. Len(wire) \in Nat /\ 1 \in 1 .. Len(wire) /\ Head(wire) = wire[1] /\ wire[1] \in PartEvent  BY <1>1
<1>3. turn > 0 /\ linked /\ step[turn] # "user" /\ wire[1].t = turn  BY <1>2 DEF WireInOrder
<1>4. wire' \in Seq(PartEvent) /\ Len(wire') = Len(wire) - 1  BY <1>1
<1>5. \A i \in 1 .. Len(wire') : wire'[i] = wire[i + 1]  BY <1>1, <1>4
<1>6. \A i \in 1 .. Len(wire') : i + 1 \in 1 .. Len(wire)  BY <1>2, <1>4
<1> QED  BY <1>1, <1>2, <1>3, <1>4, <1>5, <1>6

(* What is left under way stays in order, and, of a turn whose stream was not *)
(* cut, goes on from what is displayed.                                       *)
LEMMA HandledKeeps ==
  ASSUME PartsInv, wire # <<>>, wire' = Tail(wire), UNCHANGED <<step, size, linked, turn, spoiled, cuts>>,
         parts' \in [0 .. MaxTurns -> Chunks], lastText' \in [0 .. MaxTurns -> Chunks], out' \in Chunks,
         on' \in BOOLEAN, echo' \in 0 .. MaxTurns,
         \A u \in Parts!Turns : u > turn => parts'[u] = <<>>,
         on' => on,
         lastText'[turn] # <<>> => lastText[turn] # <<>> \/ Rank(Head(wire)) > 1,
         Parts!IsSuffix(lastText'[turn], out'),
         Uncut =>
           /\ out' = lastText'[turn] /\ out' = Parts!Text(Len(out')) /\ Len(out') <= size[turn]
           /\ on' => parts'[turn] = out' /\ Len(lastText'[turn]) = Told(Head(wire)) /\ echo' = turn
           /\ ~on' /\ "early" \notin spoiled => step[turn] = "over" /\ Len(out') = size[turn]
  PROVE  PartsInv'
<1> USE Numbers
<1>0. PartTypes /\ TurnsInOrder /\ WireInOrder /\ LateText /\ SuffixIsKept /\ NothingLost
  BY TypesAre DEF PartsInv
<1>1. step' = step /\ size' = size /\ linked' = linked /\ turn' = turn /\ spoiled' = spoiled /\ cuts' = cuts  OBVIOUS
<1> DEFINE e == Head(wire)
           n == Len(wire)
<1>2. /\ e = wire[1] /\ e.t = turn /\ turn > 0 /\ turn \in Parts!Turns /\ step[turn] # "user" /\ linked
      /\ n \in Nat /\ 1 \in 1 .. n
      /\ wire' \in Seq(PartEvent) /\ Len(wire') = n - 1
      /\ \A i \in 1 .. Len(wire') : i + 1 \in 1 .. n /\ wire'[i] = wire[i + 1]
  BY <1>0, HeadFacts
<1> HIDE DEF e, n
<1>3. PartTypes'
  <2>1. linked' \in BOOLEAN  BY <1>0, <1>1 DEF PartTypes
  <2> QED  BY <1>0, <1>1, <1>2, <2>1 DEF PartTypes
<1>4. TurnsInOrder'
  <2>1. on' => turn > 0  BY <1>2
  <2> QED  BY <1>0, <1>1, <2>1 DEF TurnsInOrder
<1>5. \A x : Rank(x) \in Nat  BY RankFacts
<1>6. WireInOrder'
  <2>1. ASSUME NEW i \in 1 .. Len(wire')
        PROVE  /\ wire'[i].t = turn /\ Rank(wire'[i]) <= StepRank(step[turn])
               /\ wire'[i].kind = "idle" => step[turn] = "over"
    BY <1>0, <1>2 DEF WireInOrder, n
  <2>2. ASSUME NEW i \in 1 .. Len(wire'), NEW j \in 1 .. Len(wire'), i < j
        PROVE  Rank(wire'[i]) <= Rank(wire'[j])
    <3>1. i + 1 < j + 1 /\ i + 1 \in 1 .. n /\ j + 1 \in 1 .. n  BY <1>2, <2>2
    <3>2. Rank(wire[i + 1]) <= Rank(wire[j + 1])  BY <1>0, <3>1 DEF WireInOrder, n
    <3> QED  BY <1>2, <3>2
  <2>3. turn' > 0 /\ linked' /\ step'[turn'] # "user"  BY <1>1, <1>2
  <2> QED  BY <1>1, <2>1, <2>2, <2>3 DEF WireInOrder, Rank, StepRank
<1>7. LateText'
  <2> SUFFICES ASSUME lastText'[turn] # <<>>
               PROVE  StepRank(step[turn]) > 1 /\ \A i \in 1 .. Len(wire') : Rank(wire'[i]) > 1
    BY <1>1 DEF LateText, Rank, StepRank
  <2>1. CASE lastText[turn] # <<>>
    <3>1. StepRank(step[turn]) > 1 /\ \A i \in 1 .. n : Rank(wire[i]) > 1  BY <1>0, <1>2, <2>1 DEF LateText, n
    <3> QED  BY <1>2, <3>1
  <2>2. CASE Rank(e) > 1
    <3>1. Rank(wire[1]) > 1 /\ Rank(wire[1]) <= StepRank(step[turn])  BY <1>0, <1>2, <2>2 DEF WireInOrder, n
    <3>2. StepRank(step[turn]) > 1
      <4>1. StepRank(step[turn]) \in Nat  BY RankFacts
      <4> QED  BY <1>5, <3>1, <4>1
    <3>3. ASSUME NEW i \in 1 .. Len(wire') PROVE Rank(wire'[i]) > 1
      <4>1. 1 < i + 1 /\ i + 1 \in 1 .. n  BY <1>2
      <4>2. Rank(wire[1]) <= Rank(wire[i + 1])  BY <1>0, <1>2, <4>1 DEF WireInOrder, n
      <4>3. Rank(wire[i + 1]) > 1  BY <1>5, <3>1, <4>2
      <4> QED  BY <1>2, <4>3
    <3> QED  BY <3>2, <3>3
  <2> QED  BY <2>1, <2>2 DEF e
<1>8. SuffixIsKept'
  <2>1. Parts!IsSuffix(lastText[turn], out)'  BY <1>1 DEF Parts!IsSuffix, Parts!IsPrefix, Parts!Reverse
  <2> QED  BY <2>1 DEF SuffixIsKept
<1>9. NothingLost'
  <2> SUFFICES ASSUME Uncut
               PROVE  /\ ShownSoFar' /\ (on' => RestIsComing')
                      /\ ~on' /\ "early" \notin spoiled' => step'[turn'] = "over" /\ Len(out') = size'[turn']
    <3>1. Uncut' => Uncut  BY <1>1 DEF Uncut
    <3> QED  BY <3>1 DEF NothingLost
  <2>1. ShownSoFar'
    <3>1. Parts!Text(Len(out))' = Parts!Text(Len(out'))  BY DEF Parts!Text
    <3> QED  BY <1>1, <1>2, <3>1 DEF ShownSoFar
  <2>2. ~on' /\ "early" \notin spoiled' => step'[turn'] = "over" /\ Len(out') = size'[turn']  BY <1>1
  <2>3. ASSUME on' PROVE RestIsComing'
    <3>1. RestIsComing  BY <1>0, <2>3 DEF NothingLost
    <3>2. parts'[turn] = out' /\ Len(lastText'[turn]) = Told(e) /\ echo' = turn  BY <2>3 DEF e
    <3> DEFINE BeforeN(i) == IF i = 1 THEN Len(lastText'[turn]) ELSE Told(wire'[i - 1])
    <3>3. ASSUME NEW i \in 1 .. n PROVE BeforeN(i) = Before(i + 1)
      <4>1. Before(i + 1) = Told(wire[i])
        <5>1. i + 1 # 1 /\ i + 1 - 1 = i  BY <1>2
        <5> QED  BY <5>1 DEF Before
      <4>2. CASE i = 1  BY <1>2, <3>2, <4>1, <4>2
      <4>3. CASE i # 1
        <5>1. i - 1 \in 1 .. Len(wire') /\ i - 1 + 1 = i  BY <1>2, <4>3
        <5>2. wire'[i - 1] = wire[i]  BY <1>2, <5>1
        <5> QED  BY <4>1, <4>3, <5>2
      <4> QED  BY <4>2, <4>3
    <3>4. ASSUME NEW i \in 1 .. Len(wire')
          PROVE  /\ Told(wire'[i]) = BeforeN(i) + (IF wire'[i].kind = "delta" THEN 1 ELSE 0)
                 /\ Told(wire'[i]) <= size[turn]
      <4>1. i \in 1 .. n /\ i + 1 \in 1 .. n /\ wire'[i] = wire[i + 1]  BY <1>2
      <4>2. /\ Told(wire[i + 1]) = Before(i + 1) + (IF wire[i + 1].kind = "delta" THEN 1 ELSE 0)
            /\ Told(wire[i + 1]) <= size[turn]
        BY <3>1, <4>1 DEF RestIsComing, n
      <4> HIDE DEF BeforeN
      <4> QED  BY <3>3, <4>1, <4>2
    <3>5. size[turn] = BeforeN(Len(wire') + 1)
      <4>1. size[turn] = Before(n + 1)  BY <3>1 DEF RestIsComing, n
      <4>2. Len(wire') + 1 = n /\ n \in 1 .. n  BY <1>2
      <4> HIDE DEF BeforeN
      <4> QED  BY <3>3, <4>1, <4>2
    <3>6. parts'[turn'] = out' /\ echo' = turn'  BY <1>1, <3>2
    <3>7. ASSUME NEW i \in 1 .. Len(wire')
          PROVE  /\ Told(wire[i])' = Before(i)' + (IF wire'[i].kind = "delta" THEN 1 ELSE 0)
                 /\ Told(wire[i])' <= size'[turn']
      <4>1. Told(wire[i])' = Told(wire'[i])  BY <1>1 DEF Told
      <4>2. Before(i)' = BeforeN(i)  BY <1>1 DEF Told, Before
      <4> HIDE DEF BeforeN
      <4> QED  BY <1>1, <3>4, <4>1, <4>2
    <3>8. size'[turn'] = Before(Len(wire) + 1)'  BY <1>1, <3>5 DEF Told, Before
    <3> QED  BY <3>6, <3>7, <3>8 DEF RestIsComing
  <2> QED  BY <2>1, <2>2, <2>3
<1> QED  BY <1>3, <1>4, <1>6, <1>7, <1>8, <1>9 DEF PartsInv, PartTypes, Parts!TypeOK, PartEvent, Chunks

(* renderTextDelta() of a part of the turn. *)
LEMMA RenderKeeps ==
  ASSUME PartTypes, turn > 0, turn \in Parts!Turns, Parts!IsSuffix(lastText[turn], out),
         NEW text \in Chunks, Parts!Render(turn, text)
  PROVE  /\ out' \in Chunks /\ lastText' \in [0 .. MaxTurns -> Chunks]
         /\ Parts!IsSuffix(lastText'[turn], out')
         /\ on => lastText'[turn] = text
         /\ ~on => out' = out /\ lastText' = lastText
         /\ on /\ out = lastText[turn] /\ Parts!IsPrefix(out, text) => out' = text
<1> USE Numbers
<1>1. /\ lastText \in [0 .. MaxTurns -> Chunks] /\ turn \in 0 .. MaxTurns /\ lastText[turn] \in Chunks /\ out \in Chunks
      /\ on \in BOOLEAN
  BY DEF PartTypes
<1>2. CASE ~on
  <2>1. out' = out /\ lastText' = lastText  BY <1>2 DEF Parts!Render
  <2> QED  BY <1>1, <1>2, <2>1
<1>3. CASE on
  <2> DEFINE last == lastText[turn]
             rest == IF Parts!IsPrefix(last, text) THEN SubSeq(text, Len(last) + 1, Len(text)) ELSE text
             o == out
             A == 0 .. MaxChunks
  <2>1. lastText' = [lastText EXCEPT ![turn] = text] /\ out' = o \o rest  BY <1>3 DEF Parts!Render
  <2>2. lastText'[turn] = text /\ lastText' \in [0 .. MaxTurns -> Chunks]  BY <1>1, <2>1
  <2>3. o \in Seq(A) /\ last \in Seq(A) /\ text \in Seq(A) /\ Parts!IsSuffix(last, o)
    BY <1>1 DEF Chunks
  <2>4. /\ Parts!IsPrefix(last, text) => rest = SubSeq(text, Len(last) + 1, Len(text))
        /\ ~ Parts!IsPrefix(last, text) => rest = text
    OBVIOUS
  <2> HIDE DEF last, o, rest, A
  <2>5. /\ o \o rest \in Seq(A) /\ Parts!IsSuffix(text, o \o rest)
        /\ o = last /\ Parts!IsPrefix(last, text) => o \o rest = text
    BY <2>3, <2>4, RenderedFacts
  <2>6. on /\ out = lastText[turn] /\ Parts!IsPrefix(out, text) => out' = text
    BY <2>1, <2>5 DEF o, last
  <2>7. out' \in Chunks /\ Parts!IsSuffix(lastText'[turn], out')  BY <2>1, <2>2, <2>5 DEF Chunks, A
  <2> QED  BY <1>3, <2>2, <2>6, <2>7
<1> QED  BY <1>1, <1>2, <1>3

LEMMA HandleKeeps ==
  ASSUME PartsInv, Parts!Handle
  PROVE  PartsInv'
<1> USE Numbers
<1>0. PartTypes /\ TurnsInOrder /\ WireInOrder /\ LateText /\ SuffixIsKept /\ NothingLost
  BY TypesAre DEF PartsInv
<1> DEFINE e == Head(wire)
<1>1. wire # <<>> /\ wire' = Tail(wire) /\ UNCHANGED <<step, size, linked, turn, spoiled, cuts>>
  BY DEF Parts!Handle
<1>2. /\ e = wire[1] /\ e \in PartEvent /\ e.t = turn /\ turn > 0 /\ turn \in Parts!Turns /\ step[turn] # "user"
      /\ Len(wire) \in Nat /\ 1 \in 1 .. Len(wire)
  BY <1>0, <1>1, HeadFacts
<1>3. /\ parts \in [0 .. MaxTurns -> Chunks] /\ lastText \in [0 .. MaxTurns -> Chunks] /\ out \in Chunks
      /\ on \in BOOLEAN /\ echo \in 0 .. MaxTurns /\ turn \in 0 .. MaxTurns /\ turn # 0
      /\ \A u \in Parts!Turns : u > turn => parts[u] = <<>>
      /\ Parts!IsSuffix(lastText[turn], out)
      /\ e.n \in 0 .. MaxChunks /\ e.n \in Nat
  BY <1>0, <1>2 DEF PartTypes, TurnsInOrder, SuffixIsKept, PartEvent
<1>4. ASSUME Uncut
      PROVE  /\ out = lastText[turn] /\ out = Parts!Text(Len(out)) /\ Len(out) <= size[turn] /\ Len(out) \in Nat
             /\ on => /\ parts[turn] = out
                      /\ Told(e) = Len(out) + (IF e.kind = "delta" THEN 1 ELSE 0) /\ Told(e) <= size[turn]
                      /\ e.kind # "user" => echo = turn
             /\ ~on /\ "early" \notin spoiled => step[turn] = "over" /\ Len(out) = size[turn]
  <2>1. ShownSoFar /\ (on => RestIsComing) /\ (~on /\ "early" \notin spoiled => step[turn] = "over" /\ Len(out) = size[turn])
    BY <1>0, <1>4 DEF NothingLost
  <2>2. Len(out) \in Nat  BY <1>3 DEF Chunks
  <2>3. ASSUME on
        PROVE  /\ parts[turn] = out
               /\ Told(e) = Len(out) + (IF e.kind = "delta" THEN 1 ELSE 0) /\ Told(e) <= size[turn]
               /\ e.kind # "user" => echo = turn
    <3>1. RestIsComing  BY <2>1, <2>3
    <3>2. Before(1) = Len(out)  BY <2>1 DEF Before, ShownSoFar
    <3>3. /\ Told(wire[1]) = Before(1) + (IF wire[1].kind = "delta" THEN 1 ELSE 0) /\ Told(wire[1]) <= size[turn]
          /\ parts[turn] = out
      BY <1>2, <3>1 DEF RestIsComing
    <3>4. e.kind # "user" => echo = turn  BY <1>1, <1>2, <3>1 DEF RestIsComing
    <3> QED  BY <1>2, <3>2, <3>3, <3>4
  <2> QED  BY <2>1, <2>2, <2>3 DEF ShownSoFar
<1> HIDE DEF e
<1>5. CASE e.kind = "user" /\ echo' = (IF on THEN e.t ELSE echo) /\ UNCHANGED <<parts, on, out, lastText>>
  <2>1. echo' \in 0 .. MaxTurns /\ (on => echo' = turn)  BY <1>2, <1>3, <1>5
  <2>2. parts' = parts /\ on' = on /\ out' = out /\ lastText' = lastText  BY <1>5
  <2>3. Uncut =>
           /\ out' = lastText'[turn] /\ out' = Parts!Text(Len(out')) /\ Len(out') <= size[turn]
           /\ on' => parts'[turn] = out' /\ Len(lastText'[turn]) = Told(e) /\ echo' = turn
           /\ ~on' /\ "early" \notin spoiled => step[turn] = "over" /\ Len(out') = size[turn]
    BY <1>4, <1>5, <2>1, <2>2
  <2> QED  BY <1>1, <1>3, <2>1, <2>2, <2>3, HandledKeeps DEF e
<1>6. CASE e.kind = "echo" /\ (IF echo = e.t THEN UNCHANGED <<out, lastText>> ELSE Parts!Render(0, <<0>>))
           /\ UNCHANGED <<parts, on, echo>>
  <2>1. parts' = parts /\ on' = on /\ echo' = echo  BY <1>6
  <2>2. Rank(e) = 1  BY <1>6 DEF Rank
  <2>3. lastText[turn] = <<>>  BY <1>0, <1>2, <2>2 DEF LateText
  <2>4. Uncut /\ on => echo = turn  BY <1>4, <1>6
  <2>5. /\ out' \in Chunks /\ lastText' \in [0 .. MaxTurns -> Chunks] /\ lastText'[turn] = lastText[turn]
        /\ echo = turn \/ ~on => out' = out
    <3>1. CASE UNCHANGED <<out, lastText>>  BY <1>3, <3>1
    <3>2. CASE on /\ echo # turn /\ Parts!Render(0, <<0>>)
      <4> DEFINE text == <<0>>
                 rest == IF Parts!IsPrefix(lastText[0], text) THEN SubSeq(text, Len(lastText[0]) + 1, Len(text)) ELSE text
                 o == out
      <4>1. lastText' = [lastText EXCEPT ![0] = text] /\ out' = o \o rest  BY <3>2 DEF Parts!Render
      <4>2. 0 \in 0 .. MaxTurns /\ text \in Seq(0 .. MaxChunks) /\ o \in Seq(0 .. MaxChunks) /\ lastText[0] \in Seq(0 .. MaxChunks)
        BY <1>3 DEF Chunks
      <4>3. rest \in Seq(0 .. MaxChunks)
        <5> HIDE DEF text
        <5>1. Len(lastText[0]) \in Nat /\ Len(text) \in Nat  BY <4>2
        <5>2. CASE Parts!IsPrefix(lastText[0], text)
          <6>1. Len(lastText[0]) + 1 \in 1 .. Len(text) + 1  BY <4>2, <5>1, <5>2, PrefixMeans
          <6>2. SubSeq(text, Len(lastText[0]) + 1, Len(text)) \in Seq(0 .. MaxChunks)  BY <4>2, <5>1, <6>1
          <6> QED  BY <5>2, <6>2
        <5> QED  BY <4>2, <5>2
      <4> HIDE DEF text, rest, o
      <4>4. out' \in Chunks  BY <4>1, <4>2, <4>3 DEF Chunks
      <4>5. lastText' \in [0 .. MaxTurns -> Chunks] /\ lastText'[turn] = lastText[turn]  BY <1>3, <4>1, <4>2 DEF Chunks
      <4> QED  BY <3>2, <4>4, <4>5
    <3>3. CASE ~on /\ Parts!Render(0, <<0>>)  BY <1>3, <3>3 DEF Parts!Render
    <3> QED  BY <1>2, <1>3, <1>6, <3>1, <3>2, <3>3
  <2>6. Parts!IsSuffix(lastText'[turn], out')
    <3>1. out' \in Seq(0 .. MaxChunks)  BY <2>5 DEF Chunks
    <3> QED  BY <2>3, <2>5, <3>1, EmptyIsSuffix
  <2>7. Uncut =>
           /\ out' = lastText'[turn] /\ out' = Parts!Text(Len(out')) /\ Len(out') <= size[turn]
           /\ on' => parts'[turn] = out' /\ Len(lastText'[turn]) = Told(e) /\ echo' = turn
           /\ ~on' /\ "early" \notin spoiled => step[turn] = "over" /\ Len(out') = size[turn]
    <3> SUFFICES ASSUME Uncut
                 PROVE  /\ out' = lastText'[turn] /\ out' = Parts!Text(Len(out')) /\ Len(out') <= size[turn]
                        /\ on' => parts'[turn] = out' /\ Len(lastText'[turn]) = Told(e) /\ echo' = turn
                        /\ ~on' /\ "early" \notin spoiled => step[turn] = "over" /\ Len(out') = size[turn]
      OBVIOUS
    <3>1. out' = out  BY <1>3, <2>4, <2>5
    <3> QED  BY <1>4, <1>6, <2>1, <2>4, <2>5, <3>1
  <2>8. lastText'[turn] # <<>> => lastText[turn] # <<>>  BY <2>5
  <2> QED  BY <1>1, <1>3, <2>1, <2>5, <2>6, <2>7, <2>8, HandledKeeps DEF e
<1>7. ASSUME NEW text \in Chunks, e.kind \in {"photo", "delta"}, parts' = [parts EXCEPT ![turn] = text], Parts!Render(turn, text),
             UNCHANGED <<on, echo>>,
             Uncut /\ on => text = Parts!Text(Told(e))
      PROVE  PartsInv'
  <2>1. /\ out' \in Chunks /\ lastText' \in [0 .. MaxTurns -> Chunks] /\ Parts!IsSuffix(lastText'[turn], out')
        /\ on => lastText'[turn] = text
        /\ ~on => out' = out /\ lastText' = lastText
        /\ on /\ out = lastText[turn] /\ Parts!IsPrefix(out, text) => out' = text
    BY <1>0, <1>2, <1>3, <1>7, RenderKeeps
  <2>2. /\ parts' \in [0 .. MaxTurns -> Chunks] /\ parts'[turn] = text
        /\ \A u \in Parts!Turns : u > turn => parts'[u] = <<>>
    <3>1. \A u \in Parts!Turns : u > turn => u # turn /\ u \in 0 .. MaxTurns  BY <1>3
    <3> QED  BY <1>3, <1>7, <3>1
  <2>3. on' = on /\ echo' = echo  BY <1>7
  <2>4. Rank(e) > 1  BY <1>7 DEF Rank
  <2>5. ASSUME Uncut
        PROVE  /\ out' = lastText'[turn] /\ out' = Parts!Text(Len(out')) /\ Len(out') <= size[turn]
               /\ on' => parts'[turn] = out' /\ Len(lastText'[turn]) = Told(e) /\ echo' = turn
               /\ ~on' /\ "early" \notin spoiled => step[turn] = "over" /\ Len(out') = size[turn]
    <3>1. CASE on
      <4>1. /\ out = lastText[turn] /\ out = Parts!Text(Len(out)) /\ Len(out) \in Nat
            /\ Told(e) = Len(out) + (IF e.kind = "delta" THEN 1 ELSE 0) /\ Told(e) <= size[turn] /\ echo = turn
        BY <1>4, <1>7, <2>5, <3>1
      <4>2. Told(e) \in Nat /\ Len(out) <= Told(e)
        <5>1. (IF e.kind = "delta" THEN 1 ELSE 0) \in 0 .. 1  OBVIOUS
        <5> DEFINE d == IF e.kind = "delta" THEN 1 ELSE 0
                   l == Len(out)
                   b == Told(e)
        <5>2. b = l + d /\ l \in Nat /\ d \in 0 .. 1  BY <4>1, <5>1
        <5> HIDE DEF b, d, l
        <5>3. b \in Nat /\ l <= b  BY <5>2
        <5> QED  BY <5>3 DEF b, l
      <4>3. text = Parts!Text(Told(e))  BY <1>7, <2>5, <3>1
      <4>4. Parts!IsPrefix(Parts!Text(Len(out)), Parts!Text(Told(e)))  BY <4>1, <4>2, TextGrows
      <4>5. Parts!IsPrefix(out, text)  BY <4>1, <4>3, <4>4
      <4>6. out' = text /\ lastText'[turn] = text  BY <2>1, <3>1, <4>1, <4>5
      <4>7. Len(text) = Told(e)  BY <4>2, <4>3, TextFacts
      <4> QED  BY <2>2, <2>3, <3>1, <4>1, <4>3, <4>6, <4>7
    <3>2. CASE ~on  BY <1>4, <2>1, <2>3, <2>5, <3>2
    <3> QED  BY <1>3, <3>1, <3>2
  <2> QED  BY <1>1, <1>3, <2>1, <2>2, <2>3, <2>4, <2>5, HandledKeeps DEF e
<1>8. CASE e.kind = "photo" /\ parts' = [parts EXCEPT ![e.t] = Parts!Text(e.n)] /\ Parts!Render(e.t, parts'[e.t])
           /\ UNCHANGED <<on, echo>>
  <2> DEFINE text == Parts!Text(e.n)
  <2>1. text \in Chunks
    <3>1. e.n <= MaxChunks  BY <1>3
    <3> QED  BY <1>3, <3>1, TextFacts
  <2>2. Told(e) = e.n  BY <1>8 DEF Told
  <2> HIDE DEF text
  <2>3. parts' = [parts EXCEPT ![turn] = text] /\ Parts!Render(turn, parts'[turn])  BY <1>2, <1>8 DEF text
  <2>4. parts'[turn] = text  BY <1>3, <2>3
  <2>5. Parts!Render(turn, text)  BY <2>3, <2>4
  <2>6. text = Parts!Text(Told(e))  BY <2>2 DEF text
  <2> QED  BY <1>7, <1>8, <2>1, <2>3, <2>5, <2>6
<1>9. CASE e.kind = "delta" /\ parts' = [parts EXCEPT ![e.t] = Append(@, e.n)] /\ Parts!Render(e.t, parts'[e.t])
           /\ UNCHANGED <<on, echo>>
  <2> DEFINE text == Append(parts[turn], e.n)
  <2>1. text \in Chunks  BY <1>3 DEF Chunks
  <2>2. Uncut /\ on => text = Parts!Text(Told(e))
    <3> SUFFICES ASSUME Uncut, on PROVE text = Parts!Text(Told(e))  OBVIOUS
    <3>1. parts[turn] = Parts!Text(Len(out)) /\ Told(e) = Len(out) + 1 /\ Len(out) \in Nat  BY <1>4, <1>9
    <3>2. Told(e) = e.n  BY <1>9 DEF Told
    <3>3. Append(Parts!Text(Len(out)), Len(out) + 1) = Parts!Text(Len(out) + 1)  BY <3>1, TextFacts
    <3> QED  BY <3>1, <3>2, <3>3
  <2>3. parts' = [parts EXCEPT ![turn] = text] /\ Parts!Render(turn, parts'[turn])  BY <1>2, <1>9
  <2> HIDE DEF text
  <2>4. parts'[turn] = text  BY <1>3, <2>3
  <2>5. Parts!Render(turn, text)  BY <2>3, <2>4
  <2> QED  BY <1>7, <1>9, <2>1, <2>2, <2>3, <2>5
<1>10. CASE /\ e.kind = "idle"
            /\ IF on /\ e.t = turn THEN on' = FALSE /\ parts' = Parts!Fresh ELSE UNCHANGED <<on, parts>>
            /\ UNCHANGED <<out, lastText, echo>>
  <2>1. out' = out /\ lastText' = lastText /\ echo' = echo  BY <1>10
  <2>2. CASE on
    <3>1. on' = FALSE /\ parts' = Parts!Fresh  BY <1>2, <1>10, <2>2
    <3>2. /\ parts' \in [0 .. MaxTurns -> Chunks] /\ on' \in BOOLEAN
          /\ \A u \in Parts!Turns : u > turn => parts'[u] = <<>>
      BY <3>1, FreshFacts
    <3>3. step[turn] = "over"  BY <1>0, <1>2, <1>10 DEF WireInOrder
    <3>4. Told(e) = size[turn]  BY <1>10 DEF Told
    <3>5. ASSUME Uncut PROVE Len(out) = size[turn] /\ out = lastText[turn] /\ out = Parts!Text(Len(out)) /\ Len(out) <= size[turn]
      BY <1>4, <1>10, <2>2, <3>4, <3>5
    <3>6. Uncut =>
           /\ out' = lastText'[turn] /\ out' = Parts!Text(Len(out')) /\ Len(out') <= size[turn]
           /\ on' => parts'[turn] = out' /\ Len(lastText'[turn]) = Told(e) /\ echo' = turn
           /\ ~on' /\ "early" \notin spoiled => step[turn] = "over" /\ Len(out') = size[turn]
      BY <2>1, <3>1, <3>3, <3>5
    <3> QED  BY <1>1, <1>3, <2>1, <2>2, <3>1, <3>2, <3>6, HandledKeeps DEF e
  <2>3. CASE ~on
    <3>1. on' = on /\ parts' = parts  BY <1>10, <2>3
    <3>2. Uncut =>
           /\ out' = lastText'[turn] /\ out' = Parts!Text(Len(out')) /\ Len(out') <= size[turn]
           /\ on' => parts'[turn] = out' /\ Len(lastText'[turn]) = Told(e) /\ echo' = turn
           /\ ~on' /\ "early" \notin spoiled => step[turn] = "over" /\ Len(out') = size[turn]
      BY <1>4, <2>1, <2>3, <3>1
    <3> QED  BY <1>1, <1>3, <2>1, <3>1, <3>2, HandledKeeps DEF e
  <2> QED  BY <1>3, <2>2, <2>3
<1> QED  BY <1>5, <1>6, <1>8, <1>9, <1>10 DEF Parts!Handle, e

LEMMA AskKeeps ==
  ASSUME PartsInv, Parts!Ask
  PROVE  PartsInv'
<1> USE Numbers
<1>0. PartTypes /\ TurnsInOrder /\ WireInOrder /\ LateText /\ SuffixIsKept /\ NothingLost
  BY TypesAre DEF PartsInv
<1>1. /\ ~on /\ turn < MaxTurns /\ wire = <<>> /\ \A t \in 1 .. turn : step[t] = "over"
      /\ turn' = turn + 1 /\ on' = TRUE /\ step' = [step EXCEPT ![turn + 1] = "user"]
      /\ out' = <<>> /\ lastText' = Parts!Fresh /\ echo' = 0
      /\ spoiled' = (IF linked THEN {} ELSE {"cut"})
      /\ size' = size /\ wire' = wire /\ linked' = linked /\ parts' = parts /\ cuts' = cuts
  BY DEF Parts!Ask
<1> DEFINE m == turn + 1
<1>2. turn \in Nat /\ m \in 1 .. MaxTurns /\ m \in 0 .. MaxTurns /\ m > turn /\ m # 0 /\ m > 0 /\ m \in Nat
  BY <1>0, <1>1 DEF PartTypes
<1>3. m \in Parts!Turns /\ turn' = m /\ step' = [step EXCEPT ![m] = "user"]  BY <1>1, <1>2
<1> HIDE DEF m
<1>4. size[m] = 0 /\ parts[m] = <<>> /\ lastText'[m] = <<>>  BY <1>0, <1>1, <1>2, <1>3, FreshFacts DEF TurnsInOrder
<1>5. step'[m] = "user" /\ \A t \in Parts!Turns : t # m => step'[t] = step[t]  BY <1>0, <1>3 DEF PartTypes
<1>6. Len(wire') = 0 /\ wire' = <<>>  BY <1>1
<1>7. PartTypes'
  <2>1. step' \in [Parts!Turns -> {"none", "user", "echo", "photo", "deltas", "idle", "over"}]  BY <1>0, <1>3 DEF PartTypes
  <2>2. out' \in Chunks /\ wire' \in Seq(PartEvent)  BY <1>1 DEF Chunks
  <2>3. on' \in BOOLEAN /\ linked' \in BOOLEAN  BY <1>0, <1>1 DEF PartTypes
  <2>4. spoiled' \subseteq {"cut", "early"}  BY <1>1
  <2>5. turn' \in 0 .. MaxTurns /\ echo' \in 0 .. MaxTurns  BY <1>1, <1>2, <1>3
  <2>6. lastText' \in [0 .. MaxTurns -> Chunks]  BY <1>1, FreshFacts
  <2> QED  BY <1>0, <1>1, <2>1, <2>2, <2>3, <2>4, <2>5, <2>6 DEF PartTypes
<1>8. TurnsInOrder'
  <2>1. ASSUME NEW t \in Parts!Turns
        PROVE  (t < m => step'[t] = "over") /\ (t > m => step'[t] = "none" /\ size[t] = 0 /\ parts[t] = <<>>)
    <3>1. t < m => t \in 1 .. turn /\ t # m  BY <1>2 DEF m
    <3>2. t > m => t > turn /\ t # m  BY <1>2 DEF m
    <3> QED  BY <1>0, <1>1, <1>5, <3>1, <3>2 DEF TurnsInOrder
  <2> QED  BY <1>1, <1>2, <1>3, <1>4, <1>5, <2>1 DEF TurnsInOrder
<1>9. WireInOrder'
  <2>1. \A i \in 1 .. Len(wire') : FALSE  BY <1>6
  <2> QED  BY <1>6, <2>1 DEF WireInOrder
<1>10. LateText'  BY <1>3, <1>4 DEF LateText
<1>11. SuffixIsKept'
  <2>1. Parts!IsSuffix(<<>>, <<>>)
    <3>1. <<>> \in Seq(Nat)  OBVIOUS
    <3> QED  BY <3>1, EmptyIsSuffix
  <2>2. Parts!IsSuffix(lastText[turn], out)' = Parts!IsSuffix(lastText'[m], out')
    BY <1>3 DEF Parts!IsSuffix, Parts!IsPrefix, Parts!Reverse
  <2> QED  BY <1>1, <1>4, <2>1, <2>2 DEF SuffixIsKept
<1>12. NothingLost'
  <2> SUFFICES ASSUME Uncut' PROVE ShownSoFar' /\ RestIsComing'
    BY <1>1 DEF NothingLost
  <2>1. linked'  BY <1>1 DEF Uncut
  <2>2. Parts!Text(0) = <<>>
    <3>1. Parts!Text(0) \in Seq(Nat) /\ Len(Parts!Text(0)) = 0  BY TextFacts
    <3> QED  BY <3>1, EmptySeq
  <2>3. Len(out') = 0 /\ Len(lastText'[m]) = 0  BY <1>1, <1>4
  <2>4. Parts!Text(Len(out))' = <<>>  BY <2>2, <2>3 DEF Parts!Text
  <2>5. ShownSoFar'  BY <1>1, <1>3, <1>4, <2>1, <2>3, <2>4 DEF ShownSoFar
  <2>6. Before(Len(wire) + 1)' = 0
    <3>1. Len(wire') + 1 = 1  BY <1>6
    <3> QED  BY <1>3, <2>3, <3>1 DEF Before
  <2>7. \A i \in 1 .. Len(wire') : FALSE  BY <1>6
  <2> QED  BY <1>1, <1>3, <1>4, <1>5, <2>5, <2>6, <2>7 DEF RestIsComing
<1> QED  BY <1>7, <1>8, <1>9, <1>10, <1>11, <1>12 DEF PartsInv, PartTypes, Parts!TypeOK, PartEvent, Chunks

(* The turn is settled before its stream says that it is over. *)
LEMMA SettledKeeps ==
  ASSUME PartsInv, on' = FALSE, parts' = Parts!Fresh, spoiled' \subseteq {"cut", "early"},
         UNCHANGED <<step, size, wire, linked, turn, out, lastText, echo, cuts>>,
         "cut" \in spoiled => "cut" \in spoiled',
         "early" \in spoiled'
  PROVE  PartsInv'
<1>0. PartTypes /\ TurnsInOrder /\ WireInOrder /\ LateText /\ SuffixIsKept /\ NothingLost
  BY TypesAre DEF PartsInv
<1>1. /\ step' = step /\ size' = size /\ wire' = wire /\ linked' = linked /\ turn' = turn /\ out' = out
      /\ lastText' = lastText /\ echo' = echo /\ cuts' = cuts
  OBVIOUS
<1>2. PartTypes'
  <2>1. on' \in BOOLEAN /\ linked' \in BOOLEAN  BY <1>0, <1>1 DEF PartTypes
  <2> QED  BY <1>0, <1>1, <2>1, FreshFacts, Numbers DEF PartTypes
<1>3. TurnsInOrder'
  <2>1. \A t \in Parts!Turns : parts'[t] = <<>>  BY FreshFacts, Numbers
  <2> QED  BY <1>0, <1>1, <2>1 DEF TurnsInOrder
<1>4. WireInOrder' /\ LateText' /\ SuffixIsKept'
  <2>1. WireInOrder'  BY <1>0, <1>1 DEF WireInOrder, Rank, StepRank
  <2>2. LateText'  BY <1>0, <1>1 DEF LateText, Rank, StepRank
  <2>3. SuffixIsKept'  BY <1>0, <1>1 DEF SuffixIsKept, Parts!IsSuffix, Parts!IsPrefix, Parts!Reverse
  <2> QED  BY <2>1, <2>2, <2>3
<1>5. NothingLost'
  <2>1. Uncut' => Uncut /\ "early" \in spoiled'  BY <1>1 DEF Uncut
  <2>2. ShownSoFar => ShownSoFar'  BY <1>1 DEF ShownSoFar, Parts!Text
  <2> QED  BY <1>0, <2>1, <2>2 DEF NothingLost
<1> QED  BY <1>2, <1>3, <1>4, <1>5 DEF PartsInv, PartTypes, Parts!TypeOK, PartEvent, Chunks

LEMMA CutKeeps ==
  ASSUME PartsInv, Parts!CutWire \/ Parts!Relink
  PROVE  PartsInv'
<1> USE Numbers
<1>0. PartTypes /\ TurnsInOrder /\ WireInOrder /\ LateText /\ SuffixIsKept /\ NothingLost
  BY TypesAre DEF PartsInv
<1>1. /\ step' = step /\ size' = size /\ parts' = parts /\ turn' = turn /\ on' = on /\ out' = out
      /\ lastText' = lastText /\ echo' = echo
  BY DEF Parts!CutWire, Parts!Relink
<1>2. /\ wire' = <<>> /\ linked' \in BOOLEAN /\ spoiled' \subseteq {"cut", "early"} /\ cuts' \in 0 .. MaxCuts
      /\ "cut" \in spoiled' \/ (~linked /\ spoiled' = spoiled)
  <2>1. CASE Parts!CutWire
    <3>1. cuts' = cuts + 1 /\ cuts < MaxCuts /\ cuts \in 0 .. MaxCuts  BY <1>0, <2>1 DEF PartTypes, Parts!CutWire
    <3>2. cuts' \in 0 .. MaxCuts  BY <3>1
    <3>3. linked' = FALSE /\ wire' = <<>> /\ spoiled' = spoiled \cup {"cut"}  BY <2>1 DEF Parts!CutWire
    <3>4. spoiled' \subseteq {"cut", "early"} /\ "cut" \in spoiled'  BY <1>0, <3>3 DEF PartTypes
    <3>5. linked' \in BOOLEAN  BY <3>3
    <3> QED  BY <3>2, <3>3, <3>4, <3>5
  <2>2. CASE Parts!Relink
    <3>1. ~linked /\ linked' = TRUE /\ wire' = wire /\ spoiled' = spoiled /\ cuts' = cuts  BY <2>2 DEF Parts!Relink
    <3>2. wire = <<>>  BY <1>0, <3>1 DEF WireInOrder
    <3> QED  BY <1>0, <3>1, <3>2 DEF PartTypes
  <2> QED  BY <2>1, <2>2
<1>3. Len(wire') = 0  BY <1>2
<1>4. PartTypes'
  <2>1. on' \in BOOLEAN  BY <1>0, <1>1 DEF PartTypes
  <2>2. wire' \in Seq(PartEvent)  BY <1>2
  <2> QED  BY <1>0, <1>1, <1>2, <2>1, <2>2 DEF PartTypes
<1>5. TurnsInOrder'  BY <1>0, <1>1 DEF TurnsInOrder
<1>6. \A i \in 1 .. Len(wire') : FALSE  BY <1>3
<1>7. WireInOrder'  BY <1>2, <1>6 DEF WireInOrder
<1>8. LateText'  BY <1>0, <1>1, <1>6 DEF LateText, StepRank
<1>9. SuffixIsKept'  BY <1>0, <1>1 DEF SuffixIsKept, Parts!IsSuffix, Parts!IsPrefix, Parts!Reverse
<1>10. ~ Uncut'
  <2>1. Uncut' => Uncut /\ ~linked  BY <1>1, <1>2 DEF Uncut
  <2> QED  BY <1>0, <2>1 DEF NothingLost, ShownSoFar
<1>11. NothingLost'  BY <1>10 DEF NothingLost
<1> QED  BY <1>4, <1>5, <1>7, <1>8, <1>9, <1>11 DEF PartsInv, PartTypes, Parts!TypeOK, PartEvent, Chunks

LEMMA PartsSteps == PartsInv /\ Parts!Next => PartsInv'
<1> SUFFICES ASSUME PartsInv, Parts!Next PROVE PartsInv'  OBVIOUS
<1>0. spoiled \subseteq {"cut", "early"}  BY TypesAre DEF PartsInv, PartTypes
<1>1. ASSUME NEW t \in Parts!Turns, Parts!OpenCode(t) PROVE PartsInv'  BY <1>1, OpenCodeKeeps
<1>2. CASE Parts!Handle  BY <1>2, HandleKeeps
<1>3. CASE Parts!Ask  BY <1>3, AskKeeps
<1>4. CASE Parts!EndsEarly
  <2>1. /\ on' = FALSE /\ parts' = Parts!Fresh /\ spoiled' = spoiled \cup {"early"}
        /\ UNCHANGED <<step, size, wire, linked, turn, out, lastText, echo, cuts>>
    BY <1>4 DEF Parts!EndsEarly
  <2> QED  BY <1>0, <2>1, SettledKeeps
<1>5. CASE Parts!CutWire  BY <1>5, CutKeeps
<1>6. CASE Parts!Relink  BY <1>6, CutKeeps
<1> QED  BY <1>1, <1>2, <1>3, <1>4, <1>5, <1>6 DEF Parts!Next

LEMMA PartsStays == PartsInv /\ UNCHANGED partVars /\ cuts' \in 0 .. MaxCuts => PartsInv'
<1> SUFFICES ASSUME PartsInv, UNCHANGED partVars, cuts' \in 0 .. MaxCuts PROVE PartsInv'  OBVIOUS
<1>0. PartTypes /\ TurnsInOrder /\ WireInOrder /\ LateText /\ SuffixIsKept /\ NothingLost
  BY TypesAre DEF PartsInv
<1>1. /\ step' = step /\ size' = size /\ wire' = wire /\ linked' = linked /\ parts' = parts /\ turn' = turn /\ on' = on
      /\ out' = out /\ lastText' = lastText /\ echo' = echo /\ spoiled' = spoiled
  BY DEF partVars
<1>2. PartTypes'
  <2>1. on' \in BOOLEAN /\ linked' \in BOOLEAN  BY <1>0, <1>1 DEF PartTypes
  <2> QED  BY <1>0, <1>1, <2>1 DEF PartTypes
<1>3. TurnsInOrder' /\ WireInOrder' /\ LateText' /\ SuffixIsKept'
  BY <1>0, <1>1 DEF TurnsInOrder, WireInOrder, LateText, SuffixIsKept, Rank, StepRank, Parts!IsSuffix, Parts!IsPrefix, Parts!Reverse
<1>4. Uncut' <=> Uncut  BY <1>1 DEF Uncut
<1>5. ShownSoFar' <=> ShownSoFar  BY <1>1 DEF ShownSoFar, Parts!Text
<1>6. RestIsComing' <=> RestIsComing  BY <1>1 DEF RestIsComing, Told, Before
<1>7. NothingLost'
  <2>1. on' = on /\ spoiled' = spoiled /\ step'[turn'] = step[turn] /\ Len(out') = Len(out) /\ size'[turn'] = size[turn]
    BY <1>1
  <2>2. on' <=> on  BY <2>1
  <2> QED  BY <1>0, <1>4, <1>5, <1>6, <2>1, <2>2 DEF NothingLost
<1> QED  BY <1>2, <1>3, <1>7 DEF PartsInv, PartTypes, Parts!TypeOK, PartEvent, Chunks

------------------------------------------------------------------------------
(* The registration of the model.                                             *)

WireType == [generation : 1 .. generation, of : [swarm : Swarms, url : Registration!Urls],
             at : {"token", "register", "registered", "assign"}]

(* The call that still has to register the swarm of now. *)
Coming == \E w \in wires : Registration!Current(w) /\ w.at \in {"token", "register"}

Outdated == \E w \in wires : ~Registration!Current(w) /\ w.at = "registered"

ModelIsRight == Registration!Usable(front) /\ model = Registration!Wiring(front)

(* One call of each generation, that of now being about the front of now. *)
WiresAreFenced ==
  /\ wires \subseteq WireType
  /\ \A v, w \in wires : v.generation = w.generation => v = w
  /\ \A w \in wires : Registration!Current(w) => Registration!Usable(front) /\ w.of = Registration!Wiring(front)
  /\ \A w \in wires : Registration!Current(w) /\ w.at = "registered" => model # None

(* Whatever is wrong with the model, a call is under way that will see to it. *)
ModelFollows ==
  /\ registered /\ model = None => Coming
  /\ ~registered /\ model # None => \E w \in wires : w.at = "registered"
  /\ model # None /\ ~ModelIsRight => Coming \/ Outdated
  /\ failures = 0 /\ Registration!Usable(front) => model # None \/ Coming

Flags ==
  /\ front \in Registration!Fronts /\ started \in BOOLEAN /\ registered \in BOOLEAN /\ assigned \in BOOLEAN
  /\ generation \in 0 .. MaxSyncs /\ pushes \in 0 .. MaxPushes /\ failures \in 0 .. MaxFailures

RegistrationInv == Flags /\ WiresAreFenced /\ ModelFollows

LEMMA RegistrationBounds ==
  /\ MaxPushes \in Nat /\ MaxSyncs \in Nat /\ MaxFailures \in Nat
  /\ None \notin [swarm : Swarms, url : Registration!Urls]
  BY SeparateAssumption DEF Registration!RegistrationAssumption

LEMMA RegistrationStarts == Registration!Init => RegistrationInv
<1> SUFFICES ASSUME Registration!Init PROVE RegistrationInv  OBVIOUS
<1>1. Flags
  <2>1. front \in Registration!Fronts  BY DEF Registration!Init, Registration!Fronts
  <2>2. started \in BOOLEAN /\ registered \in BOOLEAN /\ assigned \in BOOLEAN  BY DEF Registration!Init
  <2>3. generation \in 0 .. MaxSyncs /\ pushes \in 0 .. MaxPushes /\ failures \in 0 .. MaxFailures
    BY RegistrationBounds DEF Registration!Init
  <2> QED  BY <2>1, <2>2, <2>3 DEF Flags
<1>2. ~Registration!Usable(front)  BY DEF Registration!Init, Registration!Usable
<1>3. wires = {} /\ registered = FALSE /\ model = None  BY DEF Registration!Init
<1>4. WiresAreFenced  BY <1>3 DEF WiresAreFenced
<1>5. ModelFollows  BY <1>2, <1>3 DEF ModelFollows
<1> QED  BY <1>1, <1>4, <1>5 DEF RegistrationInv

(* A call of syncModelRegistration(): the calls under way before are all      *)
(* outdated, and one is under way if the swarm of now may serve.              *)
LEMMA SyncFacts ==
  ASSUME RegistrationInv, front' \in Registration!Fronts, NEW ws \in SUBSET wires,
         Registration!SyncModelRegistration(front', ws)
  PROVE  /\ generation' \in 0 .. MaxSyncs
         /\ wires' \subseteq WireType'
         /\ \A v, w \in wires' : v.generation = w.generation => v = w
         /\ \A w \in wires' : Registration!Current(w)' => Registration!Usable(front)' /\ w.of = Registration!Wiring(front)' /\ w.at = "token"
         /\ Registration!Usable(front)' => Coming'
         /\ \A w \in ws : w \in wires' /\ ~Registration!Current(w)'
<1> USE RegistrationBounds DEF Registration!Current
<1>1. /\ generation \in 0 .. MaxSyncs /\ generation < MaxSyncs /\ generation' = generation + 1
      /\ generation' \in 1 .. MaxSyncs /\ 1 .. generation \subseteq 1 .. generation' /\ generation' \in 1 .. generation'
  BY DEF RegistrationInv, Flags, Registration!SyncModelRegistration
<1>2. ws \subseteq WireType /\ ws \subseteq wires  BY DEF RegistrationInv, WiresAreFenced
<1>3. ws \subseteq WireType'  BY <1>1, <1>2 DEF WireType
<1>4. \A w \in ws : w.generation # generation'
  <2> TAKE w \in ws
  <2>1. w.generation \in 1 .. generation  BY <1>2 DEF WireType
  <2> QED  BY <1>1, <2>1
<1>5. \A v, w \in ws : v.generation = w.generation => v = w  BY <1>2 DEF RegistrationInv, WiresAreFenced
<1>6. CASE Registration!Usable(front)'
  <2> DEFINE new == [generation |-> generation', of |-> Registration!Wiring(front'), at |-> "token"]
  <2>1. wires' = ws \cup {new}  BY <1>6 DEF Registration!SyncModelRegistration
  <2>2. new \in WireType'
    <3>1. front'.active \in Swarms /\ front'.url \in Registration!Urls
      BY <1>6 DEF Registration!Usable, Registration!Fronts
    <3>2. Registration!Wiring(front') \in [swarm : Swarms, url : Registration!Urls]
      BY <3>1 DEF Registration!Wiring
    <3> QED  BY <1>1, <3>2 DEF WireType
  <2>3. new.generation = generation' /\ new.of = Registration!Wiring(front)' /\ new.at = "token"
    BY DEF Registration!Wiring
  <2> HIDE DEF new
  <2>4. Coming'  BY <2>1, <2>3 DEF Coming
  <2> QED  BY <1>1, <1>3, <1>4, <1>5, <1>6, <2>1, <2>2, <2>3, <2>4
<1>7. CASE ~Registration!Usable(front)'
  <2>1. wires' = ws  BY <1>7 DEF Registration!SyncModelRegistration
  <2> QED  BY <1>1, <1>3, <1>4, <1>5, <1>7, <2>1
<1> QED  BY <1>6, <1>7

(* The same with what it does at once. *)
LEMMA SyncKeeps ==
  ASSUME RegistrationInv, front' \in Registration!Fronts, Registration!Sync(front'),
         started' \in BOOLEAN, pushes' \in 0 .. MaxPushes, UNCHANGED <<assigned, failures>>
  PROVE  RegistrationInv'
<1>1. Registration!SyncModelRegistration(front', wires)  BY DEF Registration!Sync
<1>2. /\ generation' \in 0 .. MaxSyncs
      /\ wires' \subseteq WireType'
      /\ \A v, w \in wires' : v.generation = w.generation => v = w
      /\ \A w \in wires' : Registration!Current(w)' => Registration!Usable(front)' /\ w.of = Registration!Wiring(front)' /\ w.at = "token"
      /\ Registration!Usable(front)' => Coming'
      /\ \A w \in wires : w \in wires' /\ ~Registration!Current(w)'
  <2>1. wires \in SUBSET wires  OBVIOUS
  <2> QED  BY <1>1, <2>1, SyncFacts
<1>3. \/ Registration!Usable(front)' /\ UNCHANGED <<registered, model>>
      \/ /\ ~Registration!Usable(front)'
         /\ registered' = FALSE /\ model' = IF registered THEN None ELSE model
  BY DEF Registration!Sync, Registration!UnregisterModel
<1>4. Flags'  BY <1>2, <1>3 DEF RegistrationInv, Flags
<1>5. WiresAreFenced'  BY <1>2 DEF WiresAreFenced
<1>6. ModelFollows /\ registered \in BOOLEAN  BY DEF RegistrationInv, Flags
<1>7. ModelFollows'
  <2>1. CASE Registration!Usable(front)' /\ UNCHANGED <<registered, model>>
    <3>1. ~registered' /\ model' # None => \E w \in wires' : w.at = "registered"
      BY <1>2, <1>6, <2>1 DEF ModelFollows
    <3> QED  BY <1>2, <2>1, <3>1 DEF ModelFollows
  <2>2. CASE ~Registration!Usable(front)' /\ registered' = FALSE /\ model' = IF registered THEN None ELSE model
    <3>1. model' # None => \E w \in wires : w.at = "registered"  BY <1>6, <2>2 DEF ModelFollows
    <3>2. model' # None => (\E w \in wires' : w.at = "registered") /\ Outdated'
      BY <1>2, <3>1 DEF Outdated
    <3> QED  BY <2>2, <3>2 DEF ModelFollows
  <2> QED  BY <1>3, <2>1, <2>2
<1> QED  BY <1>4, <1>5, <1>7 DEF RegistrationInv

(* A call that goes on, or ends, with the others left alone.                  *)
LEMMA MoveFacts ==
  ASSUME RegistrationInv, NEW w \in wires, UNCHANGED <<generation, front>>,
         NEW at \in {"token", "register", "registered", "assign"},
         Registration!Goes(w, at) \/ Registration!Leaves(w)
  PROVE  /\ wires' \subseteq WireType'
         /\ \A u, v \in wires' : u.generation = v.generation => u = v
         /\ \A v \in wires : v # w => v \in wires'
         /\ \A v \in wires' : v \in wires \ {w} \/ v = [w EXCEPT !.at = at]
         /\ Registration!Goes(w, at) => [w EXCEPT !.at = at] \in wires'
         /\ \A v : Registration!Current(v)' <=> Registration!Current(v)
         /\ [w EXCEPT !.at = at].of = w.of /\ [w EXCEPT !.at = at].generation = w.generation /\ [w EXCEPT !.at = at].at = at
         /\ WiresAreFenced
<1> DEFINE moved == [w EXCEPT !.at = at]
<1>1. wires \subseteq WireType /\ WireType' = WireType /\ WiresAreFenced
  BY DEF RegistrationInv, WiresAreFenced, WireType
<1>2. moved \in WireType /\ moved.of = w.of /\ moved.generation = w.generation /\ moved.at = at
  BY <1>1 DEF WireType
<1>3. \A v, u \in wires : u.generation = v.generation => u = v  BY <1>1 DEF WiresAreFenced
<1>4. wires' = (wires \ {w}) \cup {moved} \/ wires' = wires \ {w}
  BY DEF Registration!Goes, Registration!Leaves
<1>5. Registration!Goes(w, at) => moved \in wires'  BY DEF Registration!Goes
<1> HIDE DEF moved
<1>6. \A u, v \in wires' : u.generation = v.generation => u = v  BY <1>2, <1>3, <1>4
<1>7. \A v : Registration!Current(v)' <=> Registration!Current(v)  BY DEF Registration!Current
<1> QED  BY <1>1, <1>2, <1>4, <1>5, <1>6, <1>7 DEF moved

LEMMA CallKeeps ==
  ASSUME RegistrationInv, NEW w \in wires, Registration!Wire(w)
  PROVE  RegistrationInv'
<1> USE RegistrationBounds
<1>0. /\ Flags /\ WiresAreFenced /\ ModelFollows /\ w \in WireType
      /\ w.at \in {"token", "register", "registered", "assign"} /\ w.of \in [swarm : Swarms, url : Registration!Urls]
  BY DEF RegistrationInv, WiresAreFenced, WireType
<1>a. ASSUME Registration!Current(w), NEW v \in wires, Registration!Current(v) PROVE v = w
  BY <1>0, <1>a DEF WiresAreFenced, Registration!Current
<1>1. CASE Registration!TokenReady(w)
  <2>1. /\ w.at = "token" /\ UNCHANGED <<front, started, generation, registered, model, assigned, pushes, failures>>
        /\ \/ Registration!Current(w) /\ Registration!Goes(w, "register")
           \/ ~Registration!Current(w) /\ Registration!Leaves(w)
    BY <1>1 DEF Registration!TokenReady
  <2> DEFINE moved == [w EXCEPT !.at = "register"]
  <2>2. /\ wires' \subseteq WireType'
        /\ \A u, v \in wires' : u.generation = v.generation => u = v
        /\ \A v \in wires : v # w => v \in wires'
        /\ \A v \in wires' : v \in wires \ {w} \/ v = moved
        /\ Registration!Goes(w, "register") => moved \in wires'
        /\ \A v : Registration!Current(v)' <=> Registration!Current(v)
        /\ moved.of = w.of /\ moved.generation = w.generation /\ moved.at = "register"
    BY <2>1, MoveFacts
  <2> HIDE DEF moved
  <2>3. Registration!Current(moved) <=> Registration!Current(w)  BY <2>2 DEF Registration!Current
  <2>4. Coming => Coming'
    <3> SUFFICES ASSUME NEW v \in wires, Registration!Current(v), v.at \in {"token", "register"} PROVE Coming'
      BY DEF Coming
    <3>1. CASE v = w  BY <2>1, <2>2, <2>3, <3>1 DEF Coming
    <3>2. CASE v # w  BY <2>2, <3>2 DEF Coming
    <3> QED  BY <3>1, <3>2
  <2>5. /\ Outdated => Outdated'
        /\ (\E v \in wires : v.at = "registered") => \E v \in wires' : v.at = "registered"
    BY <2>1, <2>2 DEF Outdated
  <2>6. WiresAreFenced'  BY <1>0, <2>1, <2>2, <2>3 DEF WiresAreFenced
  <2>7. ModelFollows'  BY <1>0, <2>1, <2>4, <2>5 DEF ModelFollows, ModelIsRight
  <2> QED  BY <1>0, <2>1, <2>6, <2>7 DEF RegistrationInv, Flags
<1>2. CASE Registration!Registers(w)
  <2>1. /\ w.at = "register" /\ Registration!Goes(w, "registered") /\ model' = w.of
        /\ UNCHANGED <<front, started, generation, registered, assigned, pushes, failures>>
    BY <1>2 DEF Registration!Registers
  <2> DEFINE moved == [w EXCEPT !.at = "registered"]
  <2>2. /\ wires' \subseteq WireType'
        /\ \A u, v \in wires' : u.generation = v.generation => u = v
        /\ \A v \in wires' : v \in wires \ {w} \/ v = moved
        /\ moved \in wires'
        /\ \A v : Registration!Current(v)' <=> Registration!Current(v)
        /\ moved.of = w.of /\ moved.generation = w.generation /\ moved.at = "registered"
    BY <2>1, MoveFacts
  <2> HIDE DEF moved
  <2>3. Registration!Current(moved) <=> Registration!Current(w)  BY <2>2 DEF Registration!Current
  <2>4. model' # None  BY <1>0, <2>1
  <2>5. WiresAreFenced'  BY <1>0, <2>1, <2>2, <2>3, <2>4 DEF WiresAreFenced
  <2>6. ModelIsRight' \/ Outdated'
    <3>1. CASE Registration!Current(w)  BY <1>0, <2>1, <3>1 DEF WiresAreFenced, ModelIsRight
    <3>2. CASE ~Registration!Current(w)  BY <2>2, <2>3, <3>2 DEF Outdated
    <3> QED  BY <3>1, <3>2
  <2>7. ModelFollows'  BY <2>2, <2>4, <2>6 DEF ModelFollows
  <2> QED  BY <1>0, <2>1, <2>5, <2>7 DEF RegistrationInv, Flags
<1>3. CASE Registration!WireFails(w)
  <2>1. /\ w.at \in {"token", "register"} /\ failures' \in 1 .. MaxFailures /\ Registration!Leaves(w)
        /\ UNCHANGED <<front, started, generation, assigned, pushes>>
        /\ \/ Registration!Current(w) /\ registered' = FALSE /\ model' = (IF registered THEN None ELSE model)
           \/ ~Registration!Current(w) /\ UNCHANGED <<registered, model>>
    BY <1>0, <1>3 DEF Registration!WireFails, Registration!UnregisterModel, Flags
  <2>2. /\ wires' \subseteq WireType'
        /\ \A u, v \in wires' : u.generation = v.generation => u = v
        /\ \A v \in wires : v # w => v \in wires'
        /\ \A v : Registration!Current(v)' <=> Registration!Current(v)
    BY <2>1, MoveFacts
  <2>3. wires' = wires \ {w}  BY <2>1 DEF Registration!Leaves
  <2>4. /\ Outdated => Outdated'
        /\ (\E v \in wires : v.at = "registered") => \E v \in wires' : v.at = "registered"
    BY <2>1, <2>2 DEF Outdated
  <2>5. registered \in BOOLEAN /\ failures' # 0  BY <1>0, <2>1 DEF Flags
  <2>6. CASE Registration!Current(w) /\ registered' = FALSE /\ model' = (IF registered THEN None ELSE model)
    <3>1. \A v \in wires' : ~Registration!Current(v)'  BY <1>a, <2>2, <2>3, <2>6
    <3>2. WiresAreFenced'  BY <2>2, <3>1 DEF WiresAreFenced
    <3>3. model' # None => \E v \in wires' : v.at = "registered"  BY <1>0, <2>4, <2>6 DEF ModelFollows
    <3>4. model' # None => Outdated'  BY <3>1, <3>3 DEF Outdated
    <3>5. ModelFollows'  BY <2>5, <2>6, <3>3, <3>4 DEF ModelFollows
    <3>6. failures' \in 0 .. MaxFailures  BY <2>1
    <3>7. registered' \in BOOLEAN  BY <2>6
    <3> QED  BY <1>0, <2>1, <3>2, <3>5, <3>6, <3>7 DEF RegistrationInv, Flags
  <2>7. CASE ~Registration!Current(w) /\ UNCHANGED <<registered, model>>
    <3>1. WiresAreFenced'  BY <1>0, <2>1, <2>2, <2>3, <2>7 DEF WiresAreFenced
    <3>2. Coming => Coming'  BY <2>2, <2>7 DEF Coming
    <3>3. ModelFollows'  BY <1>0, <2>1, <2>4, <2>5, <2>7, <3>2 DEF ModelFollows, ModelIsRight
    <3> QED  BY <1>0, <2>1, <2>7, <3>1, <3>3 DEF RegistrationInv, Flags
  <2> QED  BY <2>1, <2>6, <2>7
<1>4. CASE Registration!Overtaken(w)
  <2>1. /\ Registration!SyncModelRegistration(front, wires \ {w})
        /\ UNCHANGED <<front, started, assigned, pushes, failures>>
        /\ \/ Registration!Usable(front) /\ registered' = TRUE /\ UNCHANGED model
           \/ ~Registration!Usable(front) /\ registered' = FALSE /\ model' = None
    BY <1>4 DEF Registration!Overtaken
  <2>2. front' = front /\ front' \in Registration!Fronts  BY <1>0, <2>1 DEF Flags
  <2>3. Registration!SyncModelRegistration(front', wires \ {w})  BY <2>1, <2>2
  <2>4. wires \ {w} \in SUBSET wires  OBVIOUS
  <2>5. /\ generation' \in 0 .. MaxSyncs
        /\ wires' \subseteq WireType'
        /\ \A u, v \in wires' : u.generation = v.generation => u = v
        /\ \A v \in wires' : Registration!Current(v)' => Registration!Usable(front)' /\ v.of = Registration!Wiring(front)' /\ v.at = "token"
        /\ Registration!Usable(front)' => Coming'
    <3> DEFINE ws == wires \ {w}
    <3>1. Registration!SyncModelRegistration(front', ws) /\ ws \in SUBSET wires  BY <2>3, <2>4
    <3> HIDE DEF ws
    <3> QED  BY <2>2, <3>1, SyncFacts
  <2>6. Registration!Usable(front)' <=> Registration!Usable(front)  BY <2>2 DEF Registration!Usable
  <2>7. WiresAreFenced'  BY <2>5 DEF WiresAreFenced
  <2>8. ModelFollows'  BY <2>1, <2>5, <2>6 DEF ModelFollows
  <2> QED  BY <1>0, <2>1, <2>5, <2>7, <2>8 DEF RegistrationInv, Flags
<1>5. CASE Registration!Returned(w)
  <2>1. /\ w.at = "registered" /\ Registration!Current(w) /\ registered' = TRUE /\ assigned' = TRUE
        /\ Registration!Goes(w, "assign") \/ Registration!Leaves(w)
        /\ UNCHANGED <<front, started, generation, model, pushes, failures>>
    BY <1>5 DEF Registration!Returned
  <2> DEFINE moved == [w EXCEPT !.at = "assign"]
  <2>2. /\ wires' \subseteq WireType'
        /\ \A u, v \in wires' : u.generation = v.generation => u = v
        /\ \A v \in wires : v # w => v \in wires'
        /\ \A v \in wires' : v \in wires \ {w} \/ v = moved
        /\ \A v : Registration!Current(v)' <=> Registration!Current(v)
        /\ moved.of = w.of /\ moved.generation = w.generation /\ moved.at = "assign"
    BY <2>1, MoveFacts
  <2> HIDE DEF moved
  <2>3. Registration!Current(moved) <=> Registration!Current(w)  BY <2>2 DEF Registration!Current
  <2>4. model # None /\ ~Coming  BY <1>0, <1>a, <2>1 DEF WiresAreFenced, Coming
  <2>5. Outdated => Outdated'  BY <2>1, <2>2 DEF Outdated
  <2>6. WiresAreFenced'  BY <1>0, <2>1, <2>2, <2>3 DEF WiresAreFenced
  <2>7. ModelFollows'  BY <1>0, <2>1, <2>4, <2>5 DEF ModelFollows, ModelIsRight
  <2> QED  BY <1>0, <2>1, <2>6, <2>7 DEF RegistrationInv, Flags
<1>6. CASE Registration!Assigned(w)
  <2>1. /\ w.at = "assign" /\ Registration!Leaves(w)
        /\ assigned' \in BOOLEAN /\ failures' \in 0 .. MaxFailures /\ (failures' = 0 => failures = 0)
        /\ UNCHANGED <<front, started, generation, registered, model, pushes>>
    <3>1. w.at = "assign" /\ Registration!Leaves(w) /\ UNCHANGED <<front, started, generation, registered, model, pushes>>
      BY <1>6 DEF Registration!Assigned
    <3>2. CASE UNCHANGED <<assigned, failures>>
      BY <1>0, <3>1, <3>2 DEF Flags
    <3>3. CASE assigned' = FALSE /\ failures < MaxFailures /\ failures' = failures + 1
      <4>1. failures \in 0 .. MaxFailures  BY <1>0 DEF Flags
      <4>2. failures' \in 0 .. MaxFailures /\ failures' # 0  BY <3>3, <4>1
      <4>3. assigned' \in BOOLEAN  BY <3>3
      <4> QED  BY <3>1, <4>2, <4>3
    <3> QED  BY <1>6, <3>2, <3>3 DEF Registration!Assigned
  <2>2. /\ wires' \subseteq WireType'
        /\ \A u, v \in wires' : u.generation = v.generation => u = v
        /\ \A v \in wires : v # w => v \in wires'
        /\ \A v : Registration!Current(v)' <=> Registration!Current(v)
    BY <2>1, MoveFacts
  <2>3. wires' = wires \ {w}  BY <2>1 DEF Registration!Leaves
  <2>4. (Coming => Coming') /\ (Outdated => Outdated')
        /\ ((\E v \in wires : v.at = "registered") => \E v \in wires' : v.at = "registered")
    BY <2>1, <2>2 DEF Coming, Outdated
  <2>5. WiresAreFenced'  BY <1>0, <2>1, <2>2, <2>3 DEF WiresAreFenced
  <2>6. ModelFollows'  BY <1>0, <2>1, <2>4 DEF ModelFollows, ModelIsRight
  <2> QED  BY <1>0, <2>1, <2>5, <2>6 DEF RegistrationInv, Flags
<1> QED  BY <1>1, <1>2, <1>3, <1>4, <1>5, <1>6 DEF Registration!Wire

LEMMA RegistrationSteps ==
  ASSUME RegistrationInv, Registration!Next
  PROVE  RegistrationInv'
<1> USE RegistrationBounds
<1>0. Flags  BY DEF RegistrationInv
<1>1. CASE Registration!Pushed
  <2>1. Registration!Sync(front') /\ UNCHANGED <<started, assigned, failures>> /\ pushes' \in 0 .. MaxPushes
    BY <1>0, <1>1 DEF Registration!Pushed, Flags
  <2>2. front' \in Registration!Fronts
    BY <1>0, <1>1 DEF Registration!Pushed, Registration!Fronts, Flags
  <2>3. started' \in BOOLEAN  BY <1>0, <2>1 DEF Flags
  <2> QED  BY <2>1, <2>2, <2>3, SyncKeeps
<1>2. CASE Registration!Snapshot
  <2>1. Registration!Sync(front') /\ front' \in Registration!Fronts /\ UNCHANGED <<assigned, failures>>
        /\ pushes' \in 0 .. MaxPushes /\ started' \in BOOLEAN
    BY <1>0, <1>2 DEF Registration!Snapshot, Flags
  <2> QED  BY <2>1, SyncKeeps
<1>3. CASE Registration!NoSnapshot
  <2>1. /\ failures' \in 1 .. MaxFailures /\ started' \in BOOLEAN
        /\ UNCHANGED <<front, generation, wires, registered, model, assigned, pushes>>
    BY <1>0, <1>3 DEF Registration!NoSnapshot, Flags
  <2>2. WiresAreFenced'
    BY <2>1 DEF RegistrationInv, WiresAreFenced, WireType, Registration!Current, Registration!Usable, Registration!Wiring
  <2>3. (Coming <=> Coming') /\ (Outdated <=> Outdated') /\ (ModelIsRight <=> ModelIsRight')
    BY <2>1 DEF Coming, Outdated, ModelIsRight, Registration!Current, Registration!Usable, Registration!Wiring
  <2>4. failures' # 0  BY <2>1
  <2>5. ModelFollows'  BY <2>1, <2>3, <2>4 DEF RegistrationInv, ModelFollows
  <2> QED  BY <1>0, <2>1, <2>2, <2>5 DEF RegistrationInv, Flags
<1>4. ASSUME NEW w \in wires, Registration!Wire(w) PROVE RegistrationInv'
  BY <1>4, CallKeeps
<1> QED  BY <1>1, <1>2, <1>3, <1>4 DEF Registration!Next

LEMMA RegistrationStays ==
  ASSUME RegistrationInv, UNCHANGED modelVars
  PROVE  RegistrationInv'
  BY DEF RegistrationInv, modelVars, Flags, WiresAreFenced, ModelFollows, WireType, Coming, Outdated, ModelIsRight,
     Registration!Current, Registration!Usable, Registration!Wiring

LEMMA RegistrationMeans == RegistrationInv => ModelIsCurrent
<1> SUFFICES ASSUME RegistrationInv PROVE ModelIsCurrent  OBVIOUS
<1>1. Flags /\ WiresAreFenced /\ ModelFollows  BY DEF RegistrationInv
<1>2. \A w \in wires : w.generation \in 1 .. generation /\ w.at \in {"token", "register", "registered", "assign"}
  BY <1>1 DEF WiresAreFenced, WireType
<1>3. Registration!TypeOK
  <2>1. {started, registered, assigned} \subseteq BOOLEAN  BY <1>1 DEF Flags
  <2> QED  BY <1>1, <1>2, <2>1 DEF Flags, Registration!TypeOK
<1>4. ASSUME \A w \in wires : w.at = "assign"
      PROVE  /\ ~Coming /\ ~Outdated /\ ~ \E w \in wires : w.at = "registered"
  BY <1>4 DEF Coming, Outdated
<1>5. registered \in BOOLEAN  BY <1>1 DEF Flags
<1>6. Registration!ModelIsCurrent
  BY <1>1, <1>4, <1>5 DEF ModelFollows, ModelIsRight, Registration!ModelIsCurrent
<1> QED  BY <1>3, <1>6 DEF ModelIsCurrent

------------------------------------------------------------------------------
(* The stage of Maestro.                                                      *)

(* While no two terminals were awaited at once: the one that is awaited is of *)
(* the agent that is selected, unless this one has no terminal, and no other  *)
(* is on the stage.                                                           *)
OneAwaited ==
  ~crossed => \A a \in Shells : opening[a] > 0 =>
    /\ opening[a] = 1 /\ terminal = None
    /\ selected \in Shells => selected = a
    /\ \A b \in Shells : opening[b] > 0 => a = b

StageInv ==
  /\ Stage!StageIsSelected
  /\ listed \subseteq Shells \cup Talks
  /\ sending.at # "none" => sending.of \in Talks
  /\ OneAwaited

StageParts ==
  /\ selected \in listed \cup {None} /\ loads \in [Talks -> 0 .. MaxOpens]
  /\ opening \in [Shells -> 0 .. MaxOpens] /\ {loading, refresh, crossed} \subseteq BOOLEAN
  /\ sending \in [of : Talks \cup {None}, at : {"none", "send", "load"}]
  /\ attached \in [Shells -> 0 .. MaxOpens] /\ terminal \in Shells \cup {None}

LEMMA StageBounds ==
  /\ Shells \cap Talks = {} /\ None \notin Shells /\ None \notin Talks
  /\ MaxOpens \in Nat
  BY SeparateAssumption DEF Stage!StageAssumption

LEMMA StageStarts == Stage!Init => StageInv
<1> SUFFICES ASSUME Stage!Init PROVE StageInv  OBVIOUS
<1>1. {loading, refresh, crossed} \subseteq BOOLEAN /\ ~crossed  BY DEF Stage!Init
<1>2. /\ selected \in listed \cup {None} /\ loads \in [Talks -> 0 .. MaxOpens]
      /\ opening \in [Shells -> 0 .. MaxOpens] /\ attached \in [Shells -> 0 .. MaxOpens]
      /\ sending \in [of : Talks \cup {None}, at : {"none", "send", "load"}] /\ terminal \in Shells \cup {None}
  BY StageBounds DEF Stage!Init, Stage!NoReply
<1>3. Stage!ConversationIsSelected  BY StageBounds DEF Stage!Init, Stage!ConversationIsSelected
<1>4. Stage!TerminalIsSelected  BY StageBounds DEF Stage!Init, Stage!TerminalIsSelected
<1>5. OneAwaited  BY DEF Stage!Init, OneAwaited
<1>6. listed = {} /\ sending.at = "none" /\ terminal = None  BY DEF Stage!Init, Stage!NoReply
<1> QED  BY <1>1, <1>2, <1>3, <1>4, <1>5, <1>6 DEF StageInv, Stage!StageIsSelected

(* The terminals, when EnsureTerminal() asks for another one or opens it.     *)
LEMMA EnsureKeeps ==
  ASSUME StageInv, NEW a \in Shells, Stage!EnsureTerminal(a), selected' = a
  PROVE  /\ opening' \in [Shells -> 0 .. MaxOpens] /\ attached' \in [Shells -> 0 .. MaxOpens]
         /\ terminal' \in Shells \cup {None} /\ crossed' \in BOOLEAN
         /\ OneAwaited' /\ Stage!TerminalIsSelected'
<1> USE StageBounds
<1>0. /\ opening \in [Shells -> 0 .. MaxOpens] /\ attached \in [Shells -> 0 .. MaxOpens]
      /\ terminal \in Shells \cup {None} /\ crossed \in BOOLEAN
      /\ OneAwaited /\ Stage!TerminalIsSelected
  BY DEF StageInv, Stage!StageIsSelected
<1>1. CASE terminal = a
  <2>1. UNCHANGED <<opening, terminal, attached, crossed>>
    BY <1>1 DEF Stage!EnsureTerminal, Stage!stage
  <2>2. ~crossed => \A b \in Shells : ~ (opening[b] > 0)
    BY <1>0, <1>1 DEF OneAwaited
  <2>3. OneAwaited'  BY <2>1, <2>2 DEF OneAwaited
  <2>4. Stage!TerminalIsSelected'  BY <1>0, <1>1, <2>1 DEF Stage!TerminalIsSelected
  <2> QED  BY <1>0, <2>1, <2>3, <2>4
<1>2. CASE terminal # a
  <2>1. /\ attached' = Stage!DetachTerminal /\ terminal' = None
        /\ opening[a] < MaxOpens /\ opening' = [opening EXCEPT ![a] = @ + 1]
        /\ crossed' = (crossed \/ \E o \in Shells : opening[o] > 0)
    BY <1>2 DEF Stage!EnsureTerminal
  <2>2. /\ attached' \in [Shells -> 0 .. MaxOpens]
        /\ ~crossed => \A b \in Shells : attached'[b] = 0
    <3>1. CASE terminal = None
      <4>1. \A b \in Shells : attached[b] \in 0 .. MaxOpens /\ b # None  BY <1>0
      <4> QED  BY <1>0, <2>1, <3>1, <4>1 DEF Stage!DetachTerminal, Stage!TerminalIsSelected
    <3>2. CASE terminal # None
      <4> DEFINE m == IF attached[terminal] > 0 THEN attached[terminal] - 1 ELSE 0
      <4>1. terminal \in Shells /\ attached[terminal] \in 0 .. MaxOpens /\ attached' = [attached EXCEPT ![terminal] = m]
        BY <1>0, <2>1, <3>2 DEF Stage!DetachTerminal
      <4>2. m \in 0 .. MaxOpens /\ (attached[terminal] <= 1 => m = 0)  BY <4>1
      <4>3. ~crossed => /\ attached[terminal] <= 1
                        /\ \A b \in Shells : b # terminal => attached[b] = 0
        <5>1. \A b \in Shells : attached[b] \in 0 .. MaxOpens  BY <1>0
        <5> QED  BY <1>0, <4>1, <5>1 DEF Stage!TerminalIsSelected
      <4> HIDE DEF m
      <4> QED  BY <1>0, <4>1, <4>2, <4>3
    <3> QED  BY <3>1, <3>2
  <2>3. opening' \in [Shells -> 0 .. MaxOpens] /\ opening'[a] = opening[a] + 1
        /\ \A b \in Shells : b # a => opening'[b] = opening[b]
    <3>1. opening[a] \in 0 .. MaxOpens /\ opening[a] + 1 \in 0 .. MaxOpens  BY <1>0, <2>1
    <3> QED  BY <1>0, <2>1, <3>1
  <2>4. ~crossed' => ~crossed /\ \A o \in Shells : opening[o] = 0
    <3>1. ~crossed' => ~crossed /\ \A o \in Shells : ~ (opening[o] > 0)
      BY <2>1, Zenon
    <3>2. \A o \in Shells : opening[o] \in 0 .. MaxOpens  BY <1>0
    <3> QED  BY <3>1, <3>2
  <2>5. crossed' \in BOOLEAN  BY <2>1
  <2>6. OneAwaited'
    <3> SUFFICES ASSUME ~crossed', NEW b \in Shells, opening'[b] > 0
                 PROVE  b = a /\ opening'[b] = 1 /\ terminal' = None
      BY DEF OneAwaited
    <3> QED  BY <2>1, <2>3, <2>4
  <2>7. Stage!TerminalIsSelected'
    BY <2>1, <2>2, <2>4 DEF Stage!TerminalIsSelected
  <2> QED  BY <2>1, <2>2, <2>3, <2>5, <2>6, <2>7
<1> QED  BY <1>1, <1>2

(* The conversation, when another one is read. *)
LEMMA LoadKeeps ==
  ASSUME NEW a \in Talks, loads \in [Talks -> 0 .. MaxOpens], Stage!LoadMessages(a)
  PROVE  /\ loads' \in [Talks -> 0 .. MaxOpens] /\ loads'[a] > 0 /\ loading' = TRUE
         /\ \A b \in Talks : loads[b] > 0 => loads'[b] > 0
<1>1. loads[a] \in 0 .. MaxOpens /\ loads[a] + 1 \in 0 .. MaxOpens /\ loads' = [loads EXCEPT ![a] = @ + 1]
  BY StageBounds DEF Stage!LoadMessages
<1> QED  BY <1>1 DEF Stage!LoadMessages

(* Nobody with a terminal is selected in place of the one that was.           *)
LEMMA OtherKeeps ==
  ASSUME StageInv, UNCHANGED <<opening, terminal, attached, crossed>>,
         selected' = selected \/ selected' \notin Shells
  PROVE  OneAwaited' /\ Stage!TerminalIsSelected'
  BY DEF StageInv, Stage!StageIsSelected, OneAwaited, Stage!TerminalIsSelected

LEMMA SelectKeeps ==
  ASSUME StageInv, NEW a \in Shells \cup Talks, Stage!Select(a), a \in listed', listed' \subseteq Shells \cup Talks,
         UNCHANGED sending, refresh' \in BOOLEAN
  PROVE  StageInv'
<1> USE StageBounds
<1>0. StageParts /\ (sending.at # "none" => sending.of \in Talks)
      /\ Stage!ConversationIsSelected
  BY DEF StageInv, Stage!StageIsSelected, StageParts
<1>1. selected' = a /\ messages' = None  BY DEF Stage!Select
<1>2. CASE a \in Shells
  <2>1. Stage!EnsureTerminal(a) /\ loads' = loads /\ loading' = loading
    BY <1>2 DEF Stage!Select
  <2>2. /\ opening' \in [Shells -> 0 .. MaxOpens] /\ attached' \in [Shells -> 0 .. MaxOpens]
        /\ terminal' \in Shells \cup {None} /\ crossed' \in BOOLEAN
        /\ OneAwaited' /\ Stage!TerminalIsSelected'
    BY <1>1, <1>2, <2>1, EnsureKeeps
  <2>3. Stage!ConversationIsSelected'  BY <1>1, <1>2 DEF Stage!ConversationIsSelected
  <2>4. {loading', refresh', crossed'} \subseteq BOOLEAN  BY <1>0, <2>1, <2>2 DEF StageParts
  <2> QED  BY <1>0, <1>1, <2>1, <2>2, <2>3, <2>4 DEF StageInv, StageParts, Stage!StageIsSelected
<1>3. CASE a \in Talks /\ a \notin Shells
  <2>1. Stage!LoadMessages(a) /\ UNCHANGED <<opening, terminal, attached, crossed>>
    BY <1>3 DEF Stage!Select, Stage!stage
  <2>2. loads' \in [Talks -> 0 .. MaxOpens] /\ loads'[a] > 0 /\ loading' = TRUE
    BY <1>0, <1>3, <2>1, LoadKeeps DEF StageParts
  <2>3. Stage!ConversationIsSelected'  BY <1>1, <2>2 DEF Stage!ConversationIsSelected
  <2>4. OneAwaited' /\ Stage!TerminalIsSelected'  BY <1>1, <1>3, <2>1, OtherKeeps
  <2>5. {loading', refresh', crossed'} \subseteq BOOLEAN  BY <1>0, <2>1, <2>2 DEF StageParts
  <2> QED  BY <1>0, <1>1, <2>1, <2>2, <2>3, <2>4, <2>5 DEF StageInv, StageParts, Stage!StageIsSelected
<1> QED  BY <1>2, <1>3

LEMMA StageSteps ==
  ASSUME StageInv, Stage!Next
  PROVE  StageInv'
<1> USE StageBounds
<1>0. StageParts /\ (sending.at # "none" => sending.of \in Talks)
      /\ listed \subseteq Shells \cup Talks
      /\ Stage!ConversationIsSelected /\ Stage!TerminalIsSelected /\ OneAwaited
  BY DEF StageInv, Stage!StageIsSelected, StageParts
<1>1. ASSUME NEW agents \in SUBSET (Shells \cup Talks), Stage!OnSnapshot(agents) PROVE StageInv'
  <2> DEFINE kept == IF selected \in agents THEN selected ELSE None
  <2>1. listed' = agents /\ sending' = sending  BY <1>1 DEF Stage!OnSnapshot
  <2>2. ASSUME NEW first \in agents, Stage!Select(first), refresh' = refresh PROVE StageInv'
    <3>1. refresh' \in BOOLEAN  BY <1>0, <2>2 DEF StageParts
    <3> QED  BY <2>1, <2>2, <3>1, SelectKeeps
  <2>3. ASSUME selected' = kept, messages' = (IF kept = selected THEN messages ELSE None),
               refresh' \in {refresh, TRUE}, UNCHANGED <<loads, loading, opening, terminal, attached, crossed>>
        PROVE  StageInv'
    <3>1. selected' = selected \/ selected' \notin Shells  BY <2>3
    <3>2. OneAwaited' /\ Stage!TerminalIsSelected'  BY <2>3, <3>1, OtherKeeps
    <3>3. Stage!ConversationIsSelected'
      BY <1>0, <2>3 DEF Stage!ConversationIsSelected
    <3>4. {loading', refresh', crossed'} \subseteq BOOLEAN  BY <1>0, <2>3 DEF StageParts
    <3>5. selected' \in listed' \cup {None}  BY <2>1, <2>3
    <3> QED  BY <1>0, <2>1, <2>3, <3>2, <3>3, <3>4, <3>5 DEF StageInv, StageParts, Stage!StageIsSelected
  <2>4. \/ \E first \in agents : Stage!Select(first) /\ refresh' = refresh
        \/ /\ selected' = kept /\ messages' = (IF kept = selected THEN messages ELSE None)
           /\ refresh' \in {refresh, TRUE} /\ UNCHANGED <<loads, loading, opening, terminal, attached, crossed>>
    BY <1>1 DEF Stage!OnSnapshot, Stage!stage
  <2> HIDE DEF kept
  <2> QED  BY <2>2, <2>3, <2>4
<1>2. ASSUME NEW a \in Shells \cup Talks, Stage!Clicks(a) PROVE StageInv'
  <2>1. Stage!Select(a) /\ a \in listed' /\ UNCHANGED <<listed, refresh, sending>>
    BY <1>2 DEF Stage!Clicks
  <2>2. refresh' \in BOOLEAN /\ listed' \subseteq Shells \cup Talks  BY <1>0, <2>1 DEF StageParts
  <2> QED  BY <2>1, <2>2, SelectKeeps
<1>3. ASSUME NEW a \in Talks, Stage!Loaded(a) PROVE StageInv'
  <2>1. /\ loads[a] > 0 /\ loads' = [loads EXCEPT ![a] = @ - 1] /\ loading' = FALSE
        /\ messages' = (IF selected = a THEN a ELSE messages)
        /\ sending' \in {sending, Stage!NoReply}
        /\ UNCHANGED <<listed, selected, refresh, opening, terminal, attached, crossed>>
    BY <1>3 DEF Stage!Loaded, Stage!stage
  <2>2. loads' \in [Talks -> 0 .. MaxOpens] /\ \A b \in Talks : b # a => loads'[b] = loads[b]
    <3>1. loads[a] \in 0 .. MaxOpens /\ loads[a] - 1 \in 0 .. MaxOpens  BY <1>0, <2>1 DEF StageParts
    <3> QED  BY <1>0, <2>1, <3>1 DEF StageParts
  <2>3. Stage!ConversationIsSelected'
    BY <1>0, <2>1, <2>2 DEF Stage!ConversationIsSelected
  <2>4. sending' \in [of : Talks \cup {None}, at : {"none", "send", "load"}] /\ (sending'.at # "none" => sending'.of \in Talks)
    BY <1>0, <2>1 DEF StageParts, Stage!NoReply
  <2>5. OneAwaited' /\ Stage!TerminalIsSelected'  BY <2>1, OtherKeeps
  <2>6. {loading', refresh', crossed'} \subseteq BOOLEAN  BY <1>0, <2>1 DEF StageParts
  <2> QED  BY <1>0, <2>1, <2>2, <2>3, <2>4, <2>5, <2>6 DEF StageInv, StageParts, Stage!StageIsSelected
<1>4. ASSUME NEW a \in Shells, Stage!Opened(a) PROVE StageInv'
  <2>1. /\ opening[a] > 0 /\ opening' = [opening EXCEPT ![a] = @ - 1] /\ attached[a] < MaxOpens
        /\ terminal' = a /\ attached' = [attached EXCEPT ![a] = @ + 1]
        /\ UNCHANGED <<listed, selected, messages, loads, loading, refresh, sending, crossed>>
    BY <1>4 DEF Stage!Opened, Stage!conversation
  <2>2. opening[a] \in 1 .. MaxOpens /\ opening[a] - 1 \in 0 .. MaxOpens /\ attached[a] \in 0 .. MaxOpens
        /\ attached[a] + 1 \in 1 .. MaxOpens
    BY <1>0, <2>1 DEF StageParts
  <2>3. /\ opening' \in [Shells -> 0 .. MaxOpens] /\ opening'[a] = opening[a] - 1
        /\ \A b \in Shells : b # a => opening'[b] = opening[b]
    BY <1>0, <2>1, <2>2 DEF StageParts
  <2>4. /\ attached' \in [Shells -> 0 .. MaxOpens] /\ attached'[a] = attached[a] + 1
        /\ \A b \in Shells : b # a => attached'[b] = attached[b]
    BY <1>0, <2>1, <2>2 DEF StageParts
  <2>5. ~crossed => /\ opening[a] = 1 /\ terminal = None /\ (selected \in Shells => selected = a)
                    /\ \A b \in Shells : opening[b] > 0 => a = b
    BY <1>0, <2>1 DEF OneAwaited
  <2>6. ~crossed => \A b \in Shells : ~ (opening'[b] > 0)
    BY <2>3, <2>5
  <2>7. OneAwaited'  BY <2>1, <2>6 DEF OneAwaited
  <2>8. Stage!TerminalIsSelected'
    <3>1. ~crossed => \A b \in Shells : attached[b] = 0
      <4>1. \A b \in Shells : attached[b] \in 0 .. MaxOpens /\ b # None  BY <1>0 DEF StageParts
      <4> QED  BY <1>0, <2>5, <4>1 DEF Stage!TerminalIsSelected
    <3> QED  BY <2>1, <2>4, <2>5, <3>1 DEF Stage!TerminalIsSelected
  <2>9. Stage!ConversationIsSelected'  BY <1>0, <2>1 DEF Stage!ConversationIsSelected
  <2> QED  BY <1>0, <2>1, <2>3, <2>4, <2>7, <2>8, <2>9 DEF StageInv, StageParts, Stage!StageIsSelected
<1>5. ASSUME NEW a \in Shells, Stage!OpenFails(a) PROVE StageInv'
  <2>1. /\ opening[a] > 0 /\ opening' = [opening EXCEPT ![a] = @ - 1]
        /\ UNCHANGED <<listed, selected, messages, loads, loading, refresh, sending, terminal, attached, crossed>>
    BY <1>5 DEF Stage!OpenFails, Stage!conversation
  <2>2. opening[a] \in 1 .. MaxOpens /\ opening[a] - 1 \in 0 .. MaxOpens  BY <1>0, <2>1 DEF StageParts
  <2>3. /\ opening' \in [Shells -> 0 .. MaxOpens] /\ opening'[a] = opening[a] - 1
        /\ \A b \in Shells : b # a => opening'[b] = opening[b]
    BY <1>0, <2>1, <2>2 DEF StageParts
  <2>5. ~crossed => opening[a] = 1 /\ terminal = None /\ \A b \in Shells : opening[b] > 0 => a = b
    BY <1>0, <2>1 DEF OneAwaited
  <2>6. ~crossed => \A b \in Shells : ~ (opening'[b] > 0)
    BY <2>3, <2>5
  <2>7. OneAwaited'  BY <2>1, <2>6 DEF OneAwaited
  <2>8. Stage!TerminalIsSelected'
    BY <1>0, <2>1, <2>5 DEF Stage!TerminalIsSelected
  <2>9. Stage!ConversationIsSelected'  BY <1>0, <2>1 DEF Stage!ConversationIsSelected
  <2> QED  BY <1>0, <2>1, <2>3, <2>7, <2>8, <2>9 DEF StageInv, StageParts, Stage!StageIsSelected
<1>6. ASSUME loads' \in [Talks -> 0 .. MaxOpens], \A b \in Talks : loads[b] > 0 => loads'[b] > 0,
             loading' \in BOOLEAN, refresh' \in BOOLEAN,
             sending' \in [of : Talks \cup {None}, at : {"none", "send", "load"}], sending'.at # "none" => sending'.of \in Talks,
             UNCHANGED <<listed, selected, messages, opening, terminal, attached, crossed>>
      PROVE  StageInv'
  <2>1. Stage!ConversationIsSelected'  BY <1>0, <1>6 DEF Stage!ConversationIsSelected
  <2>2. OneAwaited' /\ Stage!TerminalIsSelected'  BY <1>6, OtherKeeps
  <2>3. {loading', refresh', crossed'} \subseteq BOOLEAN  BY <1>0, <1>6 DEF StageParts
  <2> QED  BY <1>0, <1>6, <2>1, <2>2, <2>3 DEF StageInv, StageParts, Stage!StageIsSelected
<1>7. CASE Stage!Refreshes
  <2>1. UNCHANGED <<listed, selected, messages, sending, opening, terminal, attached, crossed>> /\ refresh' = FALSE
    BY <1>7 DEF Stage!Refreshes, Stage!stage
  <2>2. \/ selected \in Talks /\ Stage!LoadMessages(selected)
        \/ UNCHANGED <<loads, loading>>
    BY <1>7 DEF Stage!Refreshes
  <2>3. CASE selected \in Talks /\ Stage!LoadMessages(selected)
    <3>1. /\ loads' \in [Talks -> 0 .. MaxOpens] /\ loading' = TRUE
          /\ \A b \in Talks : loads[b] > 0 => loads'[b] > 0
      BY <1>0, <2>3, LoadKeeps DEF StageParts
    <3> QED  BY <1>0, <1>6, <2>1, <3>1 DEF StageParts
  <2>4. CASE UNCHANGED <<loads, loading>>
    <3>1. loading' \in BOOLEAN  BY <1>0, <2>4 DEF StageParts
    <3> QED  BY <1>0, <1>6, <2>1, <2>4, <3>1 DEF StageParts
  <2> QED  BY <2>2, <2>3, <2>4
<1>8. refresh \in BOOLEAN /\ loading \in BOOLEAN  BY <1>0 DEF StageParts
<1>9. CASE Stage!SendReply
  <2>1. UNCHANGED <<listed, selected, messages, loads, loading, refresh, opening, terminal, attached, crossed>>
    BY <1>9 DEF Stage!SendReply, Stage!stage, Stage!conversation
  <2>2. sending' \in [of : Talks \cup {None}, at : {"none", "send", "load"}] /\ sending'.of \in Talks
    BY <1>9 DEF Stage!SendReply
  <2> QED  BY <1>0, <1>6, <1>8, <2>1, <2>2 DEF StageParts
<1>10. CASE Stage!Sent
  <2>1. /\ sending.at = "send" /\ Stage!LoadMessages(sending.of) /\ sending' = [sending EXCEPT !.at = "load"]
        /\ UNCHANGED <<listed, selected, messages, refresh, opening, terminal, attached, crossed>>
    BY <1>10 DEF Stage!Sent, Stage!stage
  <2>2. sending.of \in Talks  BY <1>0, <2>1
  <2>3. /\ loads' \in [Talks -> 0 .. MaxOpens] /\ loading' = TRUE
        /\ \A b \in Talks : loads[b] > 0 => loads'[b] > 0
    BY <1>0, <2>1, <2>2, LoadKeeps DEF StageParts
  <2>4. sending' \in [of : Talks \cup {None}, at : {"none", "send", "load"}] /\ sending'.of \in Talks
    BY <1>0, <2>1, <2>2 DEF StageParts
  <2> QED  BY <1>6, <1>8, <2>1, <2>3, <2>4
<1>11. CASE Stage!SendFails
  <2>1. UNCHANGED <<listed, selected, messages, loads, loading, refresh, opening, terminal, attached, crossed>>
    BY <1>11 DEF Stage!SendFails, Stage!stage, Stage!conversation
  <2>2. sending' \in [of : Talks \cup {None}, at : {"none", "send", "load"}] /\ sending'.at = "none"
    BY <1>11 DEF Stage!SendFails, Stage!NoReply
  <2> QED  BY <1>0, <1>6, <1>8, <2>1, <2>2 DEF StageParts
<1>12. ASSUME NEW a \in Shells, Stage!ShellEnds(a) PROVE StageInv'
  <2>1. /\ attached' = [attached EXCEPT ![a] = 0]
        /\ UNCHANGED <<listed, selected, messages, loads, loading, refresh, sending, opening, terminal, crossed>>
    BY <1>12 DEF Stage!ShellEnds, Stage!conversation
  <2>2. /\ attached' \in [Shells -> 0 .. MaxOpens] /\ attached'[a] = 0
        /\ \A b \in Shells : b # a => attached'[b] = attached[b]
    BY <1>0, <2>1 DEF StageParts
  <2>3. OneAwaited'  BY <1>0, <2>1 DEF OneAwaited
  <2>4. Stage!TerminalIsSelected'  BY <1>0, <2>1, <2>2 DEF Stage!TerminalIsSelected
  <2>5. Stage!ConversationIsSelected'  BY <1>0, <2>1 DEF Stage!ConversationIsSelected
  <2> QED  BY <1>0, <2>1, <2>2, <2>3, <2>4, <2>5 DEF StageInv, StageParts, Stage!StageIsSelected
<1> QED  BY <1>1, <1>2, <1>3, <1>4, <1>5, <1>7, <1>9, <1>10, <1>11, <1>12 DEF Stage!Next

LEMMA StageStays ==
  ASSUME StageInv, UNCHANGED stageVars
  PROVE  StageInv'
  BY DEF StageInv, stageVars, OneAwaited, Stage!StageIsSelected, Stage!ConversationIsSelected, Stage!TerminalIsSelected

------------------------------------------------------------------------------
(* The storage of the models.                                                 *)

(* What is so of 0, and of each number whose predecessor it is so of. *)
LEMMA UpTo ==
  ASSUME NEW N \in Nat, NEW G, 0 \in G, \A n \in 1 .. N : n - 1 \in G => n \in G
  PROVE  N \in G
<1> DEFINE Bad == {n \in 0 .. N : n \notin G}
<1>1. Bad = {}
  <2> SUFFICES ASSUME Bad # {} PROVE FALSE  OBVIOUS
  <2>1. PICK n \in Bad : \A m \in Bad : n <= m
    <3>1. Bad \in SUBSET Nat  OBVIOUS
    <3> HIDE DEF Bad
    <3> QED  BY <3>1, Least
  <2>2. n \in 1 .. N /\ n - 1 \in 0 .. N /\ ~ (n <= n - 1)  OBVIOUS
  <2> QED  BY <2>1, <2>2
<1>2. N \in 0 .. N  OBVIOUS
<1> QED  BY <1>1, <1>2

(* What Collect computes, one element after the other. *)
LEMMA CollectSteps ==
  ASSUME NEW A, NEW s \in Seq(A), NEW refused
  PROVE  \E f : /\ Storage!Collect(s, refused) = f[Len(s)]
                /\ f[0] = <<>>
                /\ \A n \in 1 .. Len(s) :
                     f[n] = IF s[n] \in refused \cup Storage!Range(f[n - 1]) THEN f[n - 1] ELSE Append(f[n - 1], s[n])
<1> DEFINE N == Len(s)
           next(r, n) == IF s[n] \in refused \cup Storage!Range(r) THEN r ELSE Append(r, s[n])
           Def(f, k) == f = [n \in 0 .. k |-> IF n = 0 THEN <<>>
                                              ELSE IF s[n] \in refused \cup Storage!Range(f[n - 1]) THEN f[n - 1]
                                              ELSE Append(f[n - 1], s[n])]
           G == {k \in 0 .. N : \E f : Def(f, k)}
<1>1. N \in Nat  OBVIOUS
<1>2. 0 \in G
  <2> DEFINE f == [n \in 0 .. 0 |-> <<>>]
  <2>1. Def(f, 0)
    <3>1. \A n \in 0 .. 0 : n = 0  OBVIOUS
    <3> QED  BY <3>1
  <2>2. 0 \in 0 .. N  BY <1>1
  <2> QED  BY <2>1, <2>2
<1>3. ASSUME NEW k \in 1 .. N, k - 1 \in G PROVE k \in G
  <2>1. k \in 0 .. N /\ k # 0 /\ k - 1 \in 0 .. N /\ k - 1 < k /\ k \in Nat  BY <1>1
  <2>2. PICK g : Def(g, k - 1)  BY <1>3
  <2> DEFINE f == [n \in 0 .. k |-> IF n = k THEN next(g[k - 1], k) ELSE g[n]]
             d(n) == IF n = 0 THEN <<>> ELSE next(f[n - 1], n)
  <2>3. f = [n \in 0 .. k |-> d(n)]
    <3>1. ASSUME NEW n \in 0 .. k PROVE f[n] = d(n)
      <4> HIDE DEF next
      <4>1. CASE n = k
        <5>1. k - 1 \in 0 .. k /\ k - 1 # k  BY <2>1
        <5>2. f[k - 1] = g[k - 1]  BY <5>1
        <5> QED  BY <2>1, <4>1, <5>2
      <4>2. CASE n # k
        <5>1. n \in 0 .. k - 1 /\ (n # 0 => n - 1 \in 0 .. k /\ n - 1 # k)
          BY <2>1, <4>2
        <5>2. n # 0 => f[n - 1] = g[n - 1]  BY <5>1
        <5>3. g[n] = IF n = 0 THEN <<>> ELSE next(g[n - 1], n)
          BY <2>2, <5>1 DEF next
        <5>4. f[n] = g[n]  BY <4>2
        <5> HIDE DEF f
        <5> QED  BY <5>2, <5>3, <5>4
      <4> QED  BY <4>1, <4>2
    <3>2. f = [n \in 0 .. k |-> f[n]]  OBVIOUS
    <3> HIDE DEF f, d
    <3> QED  BY <3>1, <3>2
  <2>4. Def(f, k)
    <3> HIDE DEF f
    <3> QED  BY <2>3
  <2> HIDE DEF f, Def
  <2> QED  BY <2>1, <2>4
<1>4. \E f : Def(f, N)
  <2>1. N \in G
    <3> HIDE DEF G, N
    <3> QED  BY <1>1, <1>2, <1>3, UpTo
  <2> QED  BY <2>1
<1> DEFINE h == CHOOSE f : Def(f, N)
<1>5. Storage!Collect(s, refused) = h[N]
  BY Zenon DEF Storage!Collect
<1>6. Def(h, N)
  BY <1>4, Zenon
<1> HIDE DEF h
<1>7. h[0] = <<>>
  BY <1>1, <1>6
<1>8. ASSUME NEW n \in 1 .. N
      PROVE h[n] = IF s[n] \in refused \cup Storage!Range(h[n - 1]) THEN h[n - 1] ELSE Append(h[n - 1], s[n])
  <2>1. n \in 0 .. N /\ n # 0  BY <1>1
  <2> QED  BY <1>6, <2>1
<1> QED  BY <1>5, <1>7, <1>8

LEMMA AppendInjects ==
  ASSUME NEW A, NEW t \in Seq(A), NEW e \in A, Storage!IsInjective(t), e \notin Storage!Range(t)
  PROVE  Append(t, e) \in Seq(A) /\ Len(Append(t, e)) = Len(t) + 1 /\ Storage!IsInjective(Append(t, e))
<1> DEFINE n == Len(t)
           u == Append(t, e)
<1>1. n \in Nat /\ DOMAIN t = 1 .. n /\ u \in Seq(A) /\ Len(u) = n + 1 /\ DOMAIN u = 1 .. n + 1
  OBVIOUS
<1>2. \A i \in 1 .. n : u[i] = t[i] /\ u[i] # e
  <2>1. \A i \in 1 .. n : u[i] = t[i]  OBVIOUS
  <2>2. \A i \in 1 .. n : t[i] # e  BY <1>1 DEF Storage!Range
  <2> QED  BY <2>1, <2>2
<1>3. u[n + 1] = e  OBVIOUS
<1>4. \A a, b \in 1 .. n : t[a] = t[b] => a = b  BY <1>1 DEF Storage!IsInjective
<1> HIDE DEF n, u
<1>5. ASSUME NEW a \in 1 .. n + 1, NEW b \in 1 .. n + 1, u[a] = u[b] PROVE a = b
  <2>1. a \in 1 .. n \/ a = n + 1  BY <1>1
  <2>2. b \in 1 .. n \/ b = n + 1  BY <1>1
  <2> QED  BY <1>2, <1>3, <1>4, <1>5, <2>1, <2>2
<1>6. Storage!IsInjective(u)  BY <1>1, <1>5 DEF Storage!IsInjective
<1> QED  BY <1>1, <1>6 DEF u, n

(* readExtraRoots() keeps of a list what is not refused, each once. *)
LEMMA CollectFacts ==
  ASSUME NEW A, NEW refused, NEW s \in Seq(A \cup refused)
  PROVE  /\ Storage!Collect(s, refused) \in Seq(A)
         /\ Storage!IsInjective(Storage!Collect(s, refused))
         /\ Len(Storage!Collect(s, refused)) <= Len(s)
<1> DEFINE N == Len(s)
<1>1. PICK f : /\ Storage!Collect(s, refused) = f[N]
               /\ f[0] = <<>>
               /\ \A n \in 1 .. N :
                    f[n] = IF s[n] \in refused \cup Storage!Range(f[n - 1]) THEN f[n - 1] ELSE Append(f[n - 1], s[n])
  BY CollectSteps
<1> DEFINE Good(n) == f[n] \in Seq(A) /\ Storage!IsInjective(f[n]) /\ Len(f[n]) <= n
           G == {n \in 0 .. N : Good(n)}
<1>2. N \in Nat /\ \A n \in 1 .. N : s[n] \in A \cup refused  OBVIOUS
<1>3. 0 \in G
  <2>1. Storage!IsInjective(<<>>)  BY DEF Storage!IsInjective
  <2>2. 0 \in 0 .. N  BY <1>2
  <2>3. f[0] \in Seq(A) /\ Len(f[0]) <= 0  BY <1>1, EmptySeq
  <2> QED  BY <1>1, <2>1, <2>2, <2>3
<1>4. ASSUME NEW n \in 1 .. N, n - 1 \in G PROVE n \in G
  <2>1. n \in 0 .. N /\ n \in Nat /\ n - 1 \in Nat  BY <1>2
  <2>2. Good(n - 1)  BY <1>4
  <2>3. CASE s[n] \in refused \cup Storage!Range(f[n - 1])
    <3>1. f[n] = f[n - 1]  BY <1>1, <2>3
    <3>2. Len(f[n]) \in Nat  BY <2>2, <3>1
    <3> QED  BY <2>1, <2>2, <3>1, <3>2
  <2>4. CASE s[n] \notin refused \cup Storage!Range(f[n - 1])
    <3>1. f[n] = Append(f[n - 1], s[n])  BY <1>1, <2>4
    <3>2. s[n] \in A /\ s[n] \notin Storage!Range(f[n - 1])  BY <1>2, <2>4
    <3>3. f[n] \in Seq(A) /\ Len(f[n]) = Len(f[n - 1]) + 1 /\ Storage!IsInjective(f[n])
      BY <2>2, <3>1, <3>2, AppendInjects
    <3>4. Len(f[n - 1]) \in Nat  BY <2>2
    <3> QED  BY <2>1, <2>2, <3>3, <3>4
  <2> QED  BY <2>3, <2>4
<1>5. N \in G
  <2> HIDE DEF G, N
  <2> QED  BY <1>2, <1>3, <1>4, UpTo
<1> QED  BY <1>1, <1>5

(* A list that has each location once, and none that is refused, is kept. *)
LEMMA CollectAll ==
  ASSUME NEW A, NEW refused, NEW s \in Seq(A), A \cap refused = {}, Storage!IsInjective(s)
  PROVE  Storage!Collect(s, refused) = s
<1> DEFINE N == Len(s)
<1>1. PICK f : /\ Storage!Collect(s, refused) = f[N]
               /\ f[0] = <<>>
               /\ \A n \in 1 .. N :
                    f[n] = IF s[n] \in refused \cup Storage!Range(f[n - 1]) THEN f[n - 1] ELSE Append(f[n - 1], s[n])
  BY CollectSteps
<1> DEFINE Good(n) == f[n] \in Seq(A) /\ Len(f[n]) = n /\ \A j \in 1 .. n : f[n][j] = s[j]
           G == {n \in 0 .. N : Good(n)}
<1>2. N \in Nat /\ DOMAIN s = 1 .. N /\ \A n \in 1 .. N : s[n] \in A  OBVIOUS
<1>3. 0 \in G
  <2>1. 0 \in 0 .. N  BY <1>2
  <2>2. f[0] \in Seq(A) /\ Len(f[0]) = 0  BY <1>1, EmptySeq
  <2>3. \A j \in 1 .. 0 : f[0][j] = s[j]  OBVIOUS
  <2> HIDE DEF N
  <2> QED  BY <2>1, <2>2, <2>3
<1>4. ASSUME NEW n \in 1 .. N, n - 1 \in G PROVE n \in G
  <2>1. n \in 0 .. N /\ n \in Nat /\ n - 1 \in Nat  BY <1>2
  <2>2. Good(n - 1)  BY <1>4
  <2>3. s[n] \in A /\ s[n] \notin refused  BY <1>2
  <2>4. s[n] \notin Storage!Range(f[n - 1])
    <3> SUFFICES ASSUME NEW j \in DOMAIN f[n - 1], f[n - 1][j] = s[n] PROVE FALSE
      BY DEF Storage!Range
    <3>1. j \in 1 .. n - 1  BY <2>2
    <3>2. s[j] = s[n] /\ j \in DOMAIN s /\ n \in DOMAIN s /\ j # n  BY <1>2, <2>1, <2>2, <3>1
    <3> QED  BY <3>2 DEF Storage!IsInjective
  <2>5. f[n] = Append(f[n - 1], s[n])  BY <1>1, <2>3, <2>4
  <2>6. f[n] \in Seq(A) /\ Len(f[n]) = n - 1 + 1 /\ f[n][n - 1 + 1] = s[n] /\ \A j \in 1 .. n - 1 : f[n][j] = f[n - 1][j]
    BY <2>2, <2>3, <2>5
  <2>7. n - 1 + 1 = n /\ \A j \in 1 .. n : j \in 1 .. n - 1 \/ j = n  BY <2>1
  <2>8. Len(f[n]) = n /\ f[n][n] = s[n]  BY <2>6, <2>7
  <2>9. \A j \in 1 .. n : f[n][j] = s[j]  BY <2>2, <2>6, <2>7, <2>8
  <2> QED  BY <2>1, <2>6, <2>8, <2>9
<1>5. N \in G
  <2> HIDE DEF G, N
  <2> QED  BY <1>2, <1>3, <1>4, UpTo
<1>6. f[N] = s
  <2>1. f[N] \in Seq(A) /\ Len(f[N]) = Len(s) /\ \A j \in 1 .. Len(f[N]) : f[N][j] = s[j]  BY <1>5
  <2> QED  BY <2>1, SeqEqual
<1> QED  BY <1>1, <1>6

LEMMA RemoveAtFacts ==
  ASSUME NEW A, NEW s \in Seq(A), NEW i \in 1 .. Len(s)
  PROVE  /\ Storage!RemoveAt(s, i) \in Seq(A)
         /\ Len(Storage!RemoveAt(s, i)) = Len(s) - 1
         /\ \A j \in 1 .. Len(s) - 1 : Storage!RemoveAt(s, i)[j] = IF j < i THEN s[j] ELSE s[j + 1]
<1> DEFINE N == Len(s)
           a == SubSeq(s, 1, i - 1)
           b == SubSeq(s, i + 1, N)
<1>1. N \in Nat /\ i \in Nat /\ i >= 1 /\ i <= N  OBVIOUS
<1>2. a \in Seq(A) /\ Len(a) = i - 1 /\ \A j \in 1 .. i - 1 : a[j] = s[j]
  <2>1. \A j \in 1 .. i - 1 : j \in 1 .. N  BY <1>1
  <2>2. \A j \in 1 .. N : s[j] \in A  OBVIOUS
  <2>3. a = [j \in 1 .. i - 1 |-> s[j]]  OBVIOUS
  <2>4. i - 1 \in Nat  BY <1>1
  <2> HIDE DEF a, N
  <2> QED  BY <2>1, <2>2, <2>3, <2>4
<1>3. b \in Seq(A) /\ Len(b) = N - i /\ \A j \in 1 .. N - i : b[j] = s[i + j]
  <2>1. \A j \in 1 .. N - i : i + j \in 1 .. N  BY <1>1
  <2>2. \A j \in 1 .. N : s[j] \in A  OBVIOUS
  <2>3. b = [j \in 1 .. N - i |-> s[i + j]]
    <3>1. b = [j \in 1 .. N - (i + 1) + 1 |-> s[i + 1 + j - 1]]  OBVIOUS
    <3>2. N - (i + 1) + 1 = N - i /\ \A j \in 1 .. N - i : i + 1 + j - 1 = i + j  BY <1>1
    <3> HIDE DEF b, N
    <3> QED  BY <3>1, <3>2
  <2>4. N - i \in Nat  BY <1>1
  <2> HIDE DEF b, N
  <2> QED  BY <2>1, <2>2, <2>3, <2>4
<1>4. Storage!RemoveAt(s, i) = a \o b  BY DEF Storage!RemoveAt
<1> HIDE DEF a, b
<1>5. /\ a \o b \in Seq(A) /\ Len(a \o b) = Len(a) + Len(b)
      /\ \A j \in 1 .. Len(a) + Len(b) : (a \o b)[j] = IF j <= Len(a) THEN a[j] ELSE b[j - Len(a)]
  BY <1>2, <1>3, ConcatProperties
<1>6. Len(a) + Len(b) = N - 1  BY <1>1, <1>2, <1>3
<1> HIDE DEF N
<1>7. ASSUME NEW j \in 1 .. N - 1 PROVE (a \o b)[j] = IF j < i THEN s[j] ELSE s[j + 1]
  <2>1. CASE j < i
    <3>1. j <= Len(a) /\ j \in 1 .. i - 1  BY <1>1, <1>2, <2>1
    <3> QED  BY <1>2, <1>5, <1>6, <2>1, <3>1
  <2>2. CASE ~ (j < i)
    <3>1. ~ (j <= Len(a)) /\ j - Len(a) \in 1 .. N - i /\ i + (j - Len(a)) = j + 1  BY <1>1, <1>2, <2>2
    <3>2. b[j - Len(a)] = s[j + 1]  BY <1>3, <3>1
    <3> QED  BY <1>5, <1>6, <2>2, <3>1, <3>2
  <2> QED  BY <2>1, <2>2
<1> QED  BY <1>4, <1>5, <1>6, <1>7 DEF N

(* Of a list that has each location once, the one that is refused goes. *)
LEMMA CollectOne ==
  ASSUME NEW A, NEW s \in Seq(A), NEW i \in 1 .. Len(s), Storage!IsInjective(s)
  PROVE  Storage!Collect(s, {s[i]}) = Storage!RemoveAt(s, i)
<1> DEFINE N == Len(s)
           refused == {s[i]}
<1>1. PICK f : /\ Storage!Collect(s, refused) = f[N]
               /\ f[0] = <<>>
               /\ \A n \in 1 .. N :
                    f[n] = IF s[n] \in refused \cup Storage!Range(f[n - 1]) THEN f[n - 1] ELSE Append(f[n - 1], s[n])
  BY CollectSteps
<1> DEFINE Good(n) == /\ f[n] \in Seq(A)
                      /\ n < i => Len(f[n]) = n
                      /\ ~ (n < i) => Len(f[n]) = n - 1
                      /\ \A j \in 1 .. Len(f[n]) : /\ j < i => f[n][j] = s[j]
                                                   /\ ~ (j < i) => f[n][j] = s[j + 1]
           G == {n \in 0 .. N : Good(n)}
<1>2. N \in Nat /\ DOMAIN s = 1 .. N /\ i \in 1 .. N /\ i \in Nat /\ \A n \in 1 .. N : s[n] \in A  OBVIOUS
<1>3. 0 \in G
  <2>1. 0 \in 0 .. N /\ 0 < i  BY <1>2
  <2>2. f[0] \in Seq(A) /\ Len(f[0]) = 0  BY <1>1, EmptySeq
  <2>3. 1 .. 0 = {}  OBVIOUS
  <2> HIDE DEF N
  <2> QED  BY <2>1, <2>2, <2>3
<1>4. ASSUME NEW n \in 1 .. N, n - 1 \in G PROVE n \in G
  <2> DEFINE t == f[n - 1]
  <2>1. n \in 0 .. N /\ n \in Nat /\ n >= 1 /\ n \in DOMAIN s  BY <1>2
  <2>2. /\ t \in Seq(A)
        /\ n - 1 < i => Len(t) = n - 1
        /\ ~ (n - 1 < i) => Len(t) = n - 2
        /\ \A j \in 1 .. Len(t) : (j < i => t[j] = s[j]) /\ (~ (j < i) => t[j] = s[j + 1])
    <3>1. Good(n - 1)  BY <1>4
    <3>2. n - 1 - 1 = n - 2  BY <2>1
    <3> HIDE DEF N
    <3> QED  BY <3>1, <3>2
  <2>3. f[n] = IF s[n] \in refused \cup Storage!Range(t) THEN t ELSE Append(t, s[n])  BY <1>1
  <2>4. Len(t) \in Nat /\ DOMAIN t = 1 .. Len(t)  BY <2>2, LenProperties
  <2>5. s[n] \in refused <=> n = i  BY <1>2, <2>1 DEF Storage!IsInjective
  <2> HIDE DEF t, N, refused
  <2>6. CASE n = i
    <3>1. f[n] = t  BY <2>3, <2>5, <2>6
    <3>2. Len(t) = n - 1 /\ ~ (n < i)  BY <1>2, <2>1, <2>2, <2>6
    <3> QED  BY <2>1, <2>2, <3>1, <3>2
  <2>7. CASE n # i
    <3>1. s[n] \notin Storage!Range(t)
      <4> SUFFICES ASSUME NEW j \in 1 .. Len(t), t[j] = s[n] PROVE FALSE
        BY <2>4 DEF Storage!Range
      <4>1. PICK k \in {j, j + 1} : t[j] = s[k] /\ k \in 1 .. N /\ k # n
        <5>1. CASE j < i
          <6>1. j \in 1 .. N /\ j # n  BY <1>2, <2>1, <2>2, <2>4, <2>7, <5>1
          <6> QED  BY <2>2, <5>1, <6>1
        <5>2. CASE ~ (j < i)
          <6>1. ~ (n - 1 < i)  BY <1>2, <2>1, <2>2, <2>4, <2>7, <5>2
          <6>2. j + 1 \in 1 .. N /\ j + 1 # n  BY <1>2, <2>1, <2>2, <2>4, <2>7, <5>2, <6>1
          <6> QED  BY <2>2, <5>2, <6>2
        <5> QED  BY <5>1, <5>2
      <4> QED  BY <1>2, <2>1, <4>1 DEF Storage!IsInjective
    <3>2. f[n] = Append(t, s[n])  BY <2>3, <2>5, <2>7, <3>1
    <3>3. s[n] \in A  BY <1>2
    <3>4. /\ f[n] \in Seq(A) /\ Len(f[n]) = Len(t) + 1 /\ f[n][Len(t) + 1] = s[n]
          /\ \A j \in 1 .. Len(t) : f[n][j] = t[j]
      BY <2>2, <3>2, <3>3
    <3>5. CASE n < i
      <4>1. Len(t) = n - 1 /\ Len(t) + 1 = n  BY <1>2, <2>1, <2>2, <3>5
      <4>2. \A j \in 1 .. n : j < i /\ (j \in 1 .. Len(t) \/ j = n)  BY <1>2, <2>1, <3>5, <4>1
      <4>3. Len(f[n]) = n /\ f[n][n] = s[n]  BY <3>4, <4>1
      <4>4. \A j \in 1 .. n : f[n][j] = s[j]  BY <2>2, <3>4, <4>2, <4>3
      <4> QED  BY <2>1, <3>4, <3>5, <4>2, <4>3, <4>4
    <3>6. CASE ~ (n < i)
      <4>1. Len(t) = n - 2 /\ Len(t) + 1 = n - 1 /\ ~ (n - 1 < i) /\ n - 1 + 1 = n  BY <1>2, <2>1, <2>2, <2>7, <3>6
      <4>2. \A j \in 1 .. n - 1 : j \in 1 .. Len(t) \/ j = n - 1  BY <2>1, <4>1
      <4>3. Len(f[n]) = n - 1 /\ f[n][n - 1] = s[n - 1 + 1]  BY <3>4, <4>1
      <4>4. ASSUME NEW j \in 1 .. n - 1
            PROVE (j < i => f[n][j] = s[j]) /\ (~ (j < i) => f[n][j] = s[j + 1])
        <5>1. CASE j \in 1 .. Len(t)  BY <2>2, <3>4, <5>1
        <5>2. CASE j = n - 1  BY <4>1, <4>3, <5>2
        <5> QED  BY <4>2, <5>1, <5>2
      <4> QED  BY <2>1, <3>4, <3>6, <4>3, <4>4
    <3> QED  BY <3>5, <3>6
  <2> QED  BY <2>6, <2>7
<1>5. N \in G
  <2> HIDE DEF G, N
  <2> QED  BY <1>2, <1>3, <1>4, UpTo
<1>6. f[N] = Storage!RemoveAt(s, i)
  <2> DEFINE r == Storage!RemoveAt(s, i)
  <2>1. /\ f[N] \in Seq(A) /\ Len(f[N]) = N - 1
        /\ \A j \in 1 .. N - 1 : (j < i => f[N][j] = s[j]) /\ (~ (j < i) => f[N][j] = s[j + 1])
    <3>1. Good(N)  BY <1>5
    <3>2. ~ (N < i)
      <4> HIDE DEF N
      <4> QED  BY <1>2
    <3> HIDE DEF N
    <3> QED  BY <3>1, <3>2
  <2>2. r \in Seq(A) /\ Len(r) = N - 1 /\ \A j \in 1 .. N - 1 : r[j] = IF j < i THEN s[j] ELSE s[j + 1]
    BY RemoveAtFacts
  <2> HIDE DEF r, N
  <2>3. \A j \in 1 .. Len(f[N]) : f[N][j] = r[j]  BY <2>1, <2>2
  <2>4. Len(f[N]) = Len(r)  BY <2>1, <2>2
  <2> QED  BY <2>1, <2>2, <2>3, <2>4, SeqEqual DEF r
<1> QED  BY <1>1, <1>6

LEMMA RemoveAtInjects ==
  ASSUME NEW A, NEW s \in Seq(A), NEW i \in 1 .. Len(s), Storage!IsInjective(s)
  PROVE  Storage!IsInjective(Storage!RemoveAt(s, i))
<1> DEFINE N == Len(s)
           r == Storage!RemoveAt(s, i)
<1>1. N \in Nat /\ DOMAIN s = 1 .. N /\ i \in 1 .. N  OBVIOUS
<1>2. r \in Seq(A) /\ Len(r) = N - 1 /\ \A j \in 1 .. N - 1 : r[j] = IF j < i THEN s[j] ELSE s[j + 1]
  BY RemoveAtFacts
<1>3. DOMAIN r = 1 .. N - 1
  <2> HIDE DEF r, N
  <2> QED  BY <1>2, LenProperties
<1>4. \A a, b \in 1 .. N : s[a] = s[b] => a = b  BY <1>1 DEF Storage!IsInjective
<1> HIDE DEF r, N
<1>5. ASSUME NEW a \in 1 .. N - 1, NEW b \in 1 .. N - 1, r[a] = r[b] PROVE a = b
  <2>1. a \in 1 .. N /\ b \in 1 .. N /\ a + 1 \in 1 .. N /\ b + 1 \in 1 .. N  BY <1>1
  <2>2. CASE a < i /\ b < i  BY <1>2, <1>4, <1>5, <2>1, <2>2
  <2>3. CASE a < i /\ ~ (b < i)
    <3>1. a = b + 1  BY <1>2, <1>4, <1>5, <2>1, <2>3
    <3> QED  BY <1>1, <2>3, <3>1
  <2>4. CASE ~ (a < i) /\ b < i
    <3>1. a + 1 = b  BY <1>2, <1>4, <1>5, <2>1, <2>4
    <3> QED  BY <1>1, <2>4, <3>1
  <2>5. CASE ~ (a < i) /\ ~ (b < i)
    <3>1. a + 1 = b + 1  BY <1>2, <1>4, <1>5, <2>1, <2>5
    <3> QED  BY <3>1
  <2> QED  BY <2>2, <2>3, <2>4, <2>5
<1>6. Storage!IsInjective(r)  BY <1>3, <1>5 DEF Storage!IsInjective
<1> QED  BY <1>6 DEF r

LEMMA StorageBounds ==
  /\ Primary \notin Roots /\ Invalid \notin Roots /\ "restart" \notin Windows
  /\ FilesFound \subseteq Seq(Roots \cup {Invalid})
  /\ MaxExtraLocations \in Nat /\ MaxCalls \in Nat /\ MaxRestarts \in Nat /\ MaxStorageFaults \in Nat
BY SeparateAssumption DEF Storage!StorageAssumption

(* What is read of a file, whatever the user made of it. *)
LEMMA ListingFacts ==
  ASSUME NEW raw \in Seq(Roots \cup {Invalid})
  PROVE  /\ Storage!ReadExtraRoots(raw) \in Seq(Roots)
         /\ Storage!IsInjective(Storage!ReadExtraRoots(raw))
         /\ Len(Storage!ReadExtraRoots(raw)) <= MaxExtraLocations
<1> DEFINE m == IF Len(raw) < MaxExtraLocations THEN Len(raw) ELSE MaxExtraLocations
           s == SubSeq(raw, 1, m)
<1>1. Len(raw) \in Nat  OBVIOUS
<1>2. m \in Nat /\ m <= Len(raw) /\ m <= MaxExtraLocations  BY <1>1, StorageBounds
<1>3. s \in Seq(Roots \cup {Invalid}) /\ Len(s) = m
  <2>1. s = [j \in 1 .. m |-> raw[j]]
    <3> HIDE DEF m
    <3> QED  BY <1>2
  <2>2. \A j \in 1 .. m : j \in 1 .. Len(raw)
    <3> HIDE DEF m
    <3> QED  BY <1>1, <1>2
  <2>3. \A j \in 1 .. Len(raw) : raw[j] \in Roots \cup {Invalid}  OBVIOUS
  <2> HIDE DEF m, s
  <2> QED  BY <1>2, <2>1, <2>2, <2>3
<1>4. Storage!ReadExtraRoots(raw) = Storage!Collect(s, {Invalid})  BY DEF Storage!ReadExtraRoots
<1> DEFINE k == Storage!Collect(s, {Invalid})
<1> HIDE DEF s, m
<1>5. k \in Seq(Roots) /\ Storage!IsInjective(k) /\ Len(k) <= Len(s)  BY <1>3, CollectFacts
<1> HIDE DEF k
<1>6. Len(k) \in Nat  BY <1>5, LenProperties
<1>7. Len(k) <= MaxExtraLocations  BY <1>2, <1>3, <1>5, <1>6, StorageBounds
<1> QED  BY <1>4, <1>5, <1>7 DEF k

(* What was written is read again. *)
LEMMA ListingSame ==
  ASSUME NEW s \in Seq(Roots), Storage!IsInjective(s), Len(s) <= MaxExtraLocations
  PROVE  Storage!ReadExtraRoots(s) = s
<1> DEFINE m == IF Len(s) < MaxExtraLocations THEN Len(s) ELSE MaxExtraLocations
<1>1. m = Len(s)
  <2>1. Len(s) \in Nat  OBVIOUS
  <2> QED  BY <2>1, StorageBounds
<1>2. SubSeq(s, 1, Len(s)) = s  OBVIOUS
<1>3. Storage!ReadExtraRoots(s) = Storage!Collect(SubSeq(s, 1, m), {Invalid})  BY DEF Storage!ReadExtraRoots
<1>4. Roots \cap {Invalid} = {}  BY StorageBounds
<1>5. Storage!Collect(s, {Invalid}) = s  BY <1>4, CollectAll
<1> HIDE DEF m
<1> QED  BY <1>1, <1>2, <1>3, <1>5

CallType == [at : {"idle", "changed", "publishes"}] \cup [at : {"examines"}, root : Roots \cup {Primary}]
Publication == [by : Storage!Publisher, list : Seq(Roots), overtaken : BOOLEAN]

StorageTypes == Storage!TypeOK /\ call \in [Windows -> CallType] /\ publishing \in Seq(Publication)

(* A window that publishes has begun to once. *)
BegunOnce ==
  /\ \A i \in 1 .. Len(publishing) : publishing[i].by \in Windows => call[publishing[i].by].at = "publishes"
  /\ \A i, j \in 1 .. Len(publishing) : publishing[i].by = publishing[j].by /\ publishing[i].by # "restart" => i = j

(* No call is about to publish, and no write lost the file. *)
AtRest == (renames \/ storageFaults = 0) /\ \A w \in Windows : call[w].at # "changed"

(* The last of the publications has what is kept, or was overtaken. *)
LastIsStored ==
  AtRest => /\ publishing = <<>> => shown = Storage!Listed \/ late
            /\ publishing # <<>> => \/ publishing[Len(publishing)].list = Storage!Listed
                                    \/ publishing[Len(publishing)].overtaken

StorageInv == StorageTypes /\ BegunOnce /\ Storage!LocationsAreKept /\ LastIsStored

LEMMA ListedFacts ==
  ASSUME file \in Seq(Roots \cup {Invalid})
  PROVE  /\ Storage!Listed \in Seq(Roots) /\ Storage!IsInjective(Storage!Listed)
         /\ Len(Storage!Listed) <= MaxExtraLocations
BY ListingFacts DEF Storage!Listed

LEMMA ListedNext ==
  ASSUME file' \in Seq(Roots \cup {Invalid}), file' \notin FilesFound => Len(file') <= MaxExtraLocations
  PROVE  /\ Storage!Listed' \in Seq(Roots) /\ Storage!IsInjective(Storage!Listed')
         /\ Len(Storage!Listed') <= MaxExtraLocations /\ Storage!LocationsAreKept'
<1>1. Storage!Listed' = Storage!ReadExtraRoots(file')  BY DEF Storage!Listed
<1> DEFINE l == Storage!ReadExtraRoots(file')
<1>2. l \in Seq(Roots) /\ Storage!IsInjective(l) /\ Len(l) <= MaxExtraLocations  BY ListingFacts
<1>3. Primary \notin Storage!Range(l)
  <2>1. DOMAIN l = 1 .. Len(l) /\ \A i \in 1 .. Len(l) : l[i] \in Roots
    <3> HIDE DEF l
    <3> QED  BY <1>2, LenProperties
  <2> QED  BY <2>1, StorageBounds DEF Storage!Range
<1> HIDE DEF l
<1>4. Storage!Listed' = l  BY <1>1 DEF l
<1> QED  BY <1>2, <1>3, <1>4 DEF Storage!LocationsAreKept

(* writeExtraRoots(): all or nothing, but where the old file must go first. *)
LEMMA WriteFacts ==
  ASSUME StorageInv, NEW roots \in Seq(Roots), Storage!IsInjective(roots), Len(roots) <= MaxExtraLocations,
         Storage!WriteExtraRoots(roots)
  PROVE  /\ file' \in Seq(Roots \cup {Invalid}) /\ Storage!LocationsAreKept'
         /\ storageFaults' \in 0 .. MaxStorageFaults /\ (storageFaults' = 0 => storageFaults = 0)
         /\ storageFaults' = storageFaults => Storage!Listed' = roots
         /\ storageFaults' # storageFaults => /\ storageFaults' # 0
                                              /\ renames => file' = file /\ Storage!Listed' = Storage!Listed
                                              /\ ~ renames => Storage!Listed' = <<>>
<1> DEFINE Files == Seq(Roots \cup {Invalid})
<1>1. /\ file \in Files /\ (file \notin FilesFound => Len(file) <= MaxExtraLocations)
      /\ storageFaults \in 0 .. MaxStorageFaults
  BY DEF StorageInv, StorageTypes, Storage!TypeOK, Storage!LocationsAreKept
<1>2. roots \in Files
  <2>1. roots \in [1 .. Len(roots) -> Roots] /\ Len(roots) \in Nat  BY LenProperties
  <2>2. roots \in [1 .. Len(roots) -> Roots \cup {Invalid}]  BY <2>1
  <2> QED  BY <2>1, <2>2, SeqDef
<1>3. <<>> \in Files /\ <<>> \in Seq(Roots) /\ Len(<<>>) <= MaxExtraLocations /\ Storage!IsInjective(<<>>)
  <2>1. Len(<<>>) = 0 /\ <<>> \in Files /\ <<>> \in Seq(Roots)  BY EmptySeq
  <2>2. Storage!IsInjective(<<>>)  BY DEF Storage!IsInjective
  <2> HIDE DEF Files
  <2> QED  BY <2>1, <2>2, StorageBounds
<1>4. Storage!Listed = Storage!ReadExtraRoots(file) /\ Storage!Listed' = Storage!ReadExtraRoots(file')
  BY DEF Storage!Listed
<1>5. Storage!ReadExtraRoots(roots) = roots  BY ListingSame
<1>6. Storage!ReadExtraRoots(<<>>) = <<>>
  <2> DEFINE e == <<>>
  <2> HIDE DEF e
  <2>1. e \in Seq(Roots) /\ Len(e) <= MaxExtraLocations /\ Storage!IsInjective(e)  BY <1>3 DEF e
  <2>2. Storage!ReadExtraRoots(e) = e  BY <2>1, ListingSame
  <2> QED  BY <2>2 DEF e
<1>7. CASE file' = roots /\ UNCHANGED storageFaults
  <2>1. Storage!LocationsAreKept'
    <3> HIDE DEF Files
    <3> QED  BY <1>2, <1>7, ListedNext DEF Files
  <2> QED  BY <1>1, <1>2, <1>4, <1>5, <1>7, <2>1
<1>8. CASE /\ storageFaults < MaxStorageFaults /\ storageFaults' = storageFaults + 1
           /\ file' = IF renames THEN file ELSE <<>>
  <2>1. file' \in Files /\ (file' \notin FilesFound => Len(file') <= MaxExtraLocations)
    <3> HIDE DEF Files
    <3> QED  BY <1>1, <1>3, <1>8
  <2>2. Storage!LocationsAreKept'
    <3> QED  BY <2>1, ListedNext
  <2>3. /\ storageFaults' \in 0 .. MaxStorageFaults /\ storageFaults' # 0 /\ storageFaults' # storageFaults
        /\ (storageFaults' = 0 => storageFaults = 0)
    BY <1>1, <1>8, StorageBounds
  <2>4. renames => file' = file /\ Storage!Listed' = Storage!Listed  BY <1>4, <1>8
  <2>5. ~ renames => Storage!Listed' = <<>>  BY <1>4, <1>6, <1>8
  <2> HIDE DEF Files
  <2> QED  BY <2>1, <2>2, <2>3, <2>4, <2>5 DEF Files
<1> QED  BY <1>7, <1>8 DEF Storage!WriteExtraRoots

(* A call of a window that does not publish goes on, and may have written. *)
LEMMA CallMoves ==
  ASSUME StorageInv, NEW w \in Windows, NEW c \in CallType,
         call[w].at \in {"idle", "examines"}, c.at # "publishes", call' = [call EXCEPT ![w] = c],
         UNCHANGED <<renames, publishing, shown, late, restarts>>,
         file' \in Seq(Roots \cup {Invalid}), Storage!LocationsAreKept',
         calls' \in 0 .. MaxCalls, storageFaults' \in 0 .. MaxStorageFaults, storageFaults' = 0 => storageFaults = 0,
         c.at = "changed" \/ Storage!Listed' = Storage!Listed \/ (~ renames /\ storageFaults' # 0)
  PROVE  StorageInv'
<1>1. /\ Storage!TypeOK /\ call \in [Windows -> CallType] /\ publishing \in Seq(Publication)
      /\ BegunOnce /\ LastIsStored
  BY DEF StorageInv, StorageTypes
<1>2. call' \in [Windows -> CallType] /\ call'[w] = c /\ \A v \in Windows : v # w => call'[v] = call[v]
  BY <1>1
<1>3. publishing' = publishing /\ publishing' \in Seq(Publication)  BY <1>1
<1>4. Storage!TypeOK'
  <2>1. \A x \in CallType : x.at \in {"idle", "examines", "changed", "publishes"}  BY DEF CallType
  <2>2. \A v \in Windows : call'[v].at \in {"idle", "examines", "changed", "publishes"}
    BY <1>2, <2>1
  <2>3. /\ shown' = shown /\ late' = late /\ renames' = renames /\ restarts' = restarts  OBVIOUS
  <2>4. /\ shown \in Seq(Roots) /\ {renames, late} \subseteq BOOLEAN /\ restarts \in 0 .. MaxRestarts
        /\ \A i \in DOMAIN publishing : publishing[i].by \in Storage!Publisher
    BY <1>1 DEF Storage!TypeOK
  <2>5. {renames', late'} \subseteq BOOLEAN
    BY <2>4
  <2> QED  BY <1>3, <2>2, <2>3, <2>4, <2>5 DEF Storage!TypeOK
<1>5. BegunOnce'
  <2>1. \A i \in 1 .. Len(publishing) : publishing[i].by \in Windows => call[publishing[i].by].at = "publishes"
    BY <1>1 DEF BegunOnce
  <2>2. \A i, j \in 1 .. Len(publishing) : publishing[i].by = publishing[j].by /\ publishing[i].by # "restart" => i = j
    BY <1>1 DEF BegunOnce
  <2>3. \A i \in 1 .. Len(publishing) : publishing[i].by \in Windows => call'[publishing[i].by].at = "publishes"
    BY <1>2, <2>1
  <2> QED  BY <1>3, <2>2, <2>3 DEF BegunOnce
<1>6. LastIsStored'
  <2> SUFFICES ASSUME AtRest'
               PROVE  (/\ publishing = <<>> => shown = Storage!Listed \/ late
                       /\ publishing # <<>> => \/ publishing[Len(publishing)].list = Storage!Listed
                                               \/ publishing[Len(publishing)].overtaken)'
    BY DEF LastIsStored
  <2>1. (renames' \/ storageFaults' = 0) /\ \A v \in Windows : call'[v].at # "changed"  BY DEF AtRest
  <2>2. Storage!Listed' = Storage!Listed  BY <1>2, <2>1
  <2>3. AtRest
    <3>1. renames \/ storageFaults = 0  BY <2>1
    <3>2. \A v \in Windows : call[v].at # "changed"  BY <1>2, <2>1
    <3> QED  BY <3>1, <3>2 DEF AtRest
  <2> QED  BY <1>1, <2>2, <2>3 DEF LastIsStored
<1> QED  BY <1>2, <1>3, <1>4, <1>5, <1>6 DEF StorageInv, StorageTypes

(* Nothing is written. *)
LEMMA FileStays ==
  ASSUME StorageInv, file' = file
  PROVE  /\ file' \in Seq(Roots \cup {Invalid}) /\ Storage!LocationsAreKept' /\ Storage!Listed' = Storage!Listed
         /\ Storage!OneAtATime
BY DEF StorageInv, StorageTypes, Storage!TypeOK, Storage!LocationsAreKept, Storage!Listed, Storage!OneAtATime

LEMMA CallKinds ==
  ASSUME StorageInv, NEW w \in Windows
  PROVE  /\ [at |-> "idle"] \in CallType /\ [at |-> "changed"] \in CallType /\ [at |-> "publishes"] \in CallType
         /\ \A r \in Roots \cup {Primary} : [at |-> "examines", root |-> r] \in CallType
         /\ call[w].at = "examines" => call[w].root \in Roots \cup {Primary}
<1>1. call[w] \in CallType  BY DEF StorageInv, StorageTypes
<1> QED  BY <1>1 DEF CallType

LEMMA AddParentKeeps ==
  ASSUME StorageInv, NEW w \in Windows, Storage!AddParent(w)
  PROVE  StorageInv' /\ Storage!OneAtATime
<1> DEFINE r == call[w].root
           l == Storage!Listed
<1>1. call[w].at = "examines" /\ UNCHANGED <<renames, publishing, shown, late, calls, restarts>>
  BY DEF Storage!AddParent
<1>2. calls \in 0 .. MaxCalls /\ storageFaults \in 0 .. MaxStorageFaults /\ file \in Seq(Roots \cup {Invalid})
  BY DEF StorageInv, StorageTypes, Storage!TypeOK
<1>3. /\ [at |-> "idle"] \in CallType /\ [at |-> "changed"] \in CallType /\ r \in Roots \cup {Primary}
      /\ [at |-> "idle"].at = "idle" /\ [at |-> "changed"].at = "changed"
  BY <1>1, CallKinds
<1>4. CASE file' = file /\ storageFaults' = storageFaults
           /\ (call' = [call EXCEPT ![w] = [at |-> "changed"]] \/ call' = [call EXCEPT ![w] = [at |-> "idle"]])
  <2>1. StorageInv'
    <3>1. file' \in Seq(Roots \cup {Invalid}) /\ Storage!LocationsAreKept' /\ Storage!Listed' = l
      BY <1>4, FileStays
    <3>2. PICK c \in {[at |-> "changed"], [at |-> "idle"]} : call' = [call EXCEPT ![w] = c]  BY <1>4
    <3>3. c \in CallType /\ c.at # "publishes"  BY <1>3, <3>2
    <3>4. calls' \in 0 .. MaxCalls /\ storageFaults' \in 0 .. MaxStorageFaults
      BY <1>1, <1>2, <1>4
    <3> HIDE DEF l
    <3> QED  BY <1>1, <1>4, <3>1, <3>2, <3>3, <3>4, CallMoves DEF l
  <2> QED  BY <1>4, <2>1, FileStays
<1>5. CASE /\ r # Primary /\ r \notin Storage!Range(l) /\ Len(l) < MaxExtraLocations
           /\ Storage!WriteExtraRoots(Append(l, r)) /\ Storage!Wrote(w)
  <2> DEFINE n == Append(l, r)
  <2>1. l \in Seq(Roots) /\ Storage!IsInjective(l) /\ Len(l) <= MaxExtraLocations /\ Len(l) \in Nat
    BY <1>2, ListedFacts
  <2>2. r \in Roots  BY <1>3, <1>5
  <2> HIDE DEF l, r
  <2>3. n \in Seq(Roots) /\ Len(n) = Len(l) + 1 /\ Storage!IsInjective(n)  BY <1>5, <2>1, <2>2, AppendInjects
  <2>4. Len(n) <= MaxExtraLocations  BY <1>5, <2>1, <2>3, StorageBounds
  <2>5. Storage!WriteExtraRoots(n)  BY <1>5
  <2> HIDE DEF n
  <2>6. /\ file' \in Seq(Roots \cup {Invalid}) /\ Storage!LocationsAreKept'
        /\ storageFaults' \in 0 .. MaxStorageFaults /\ (storageFaults' = 0 => storageFaults = 0)
        /\ storageFaults' = storageFaults => Storage!Listed' = n
        /\ storageFaults' # storageFaults => /\ storageFaults' # 0
                                             /\ renames => file' = file /\ Storage!Listed' = Storage!Listed
                                             /\ ~ renames => Storage!Listed' = <<>>
    BY <2>3, <2>4, <2>5, WriteFacts
  <2>7. PICK c \in {[at |-> "changed"], [at |-> "idle"]} :
          call' = [call EXCEPT ![w] = c] /\ (storageFaults' = storageFaults => c = [at |-> "changed"])
    BY <1>5 DEF Storage!Wrote, Storage!Idle
  <2>8. c \in CallType /\ c.at # "publishes" /\ (storageFaults' = storageFaults => c.at = "changed")  BY <1>3, <2>7
  <2>9. c.at = "changed" \/ Storage!Listed' = Storage!Listed \/ (~ renames /\ storageFaults' # 0)  BY <2>6, <2>8
  <2>10. calls' \in 0 .. MaxCalls  BY <1>1, <1>2
  <2>11. StorageInv'  BY <1>1, <2>6, <2>7, <2>8, <2>9, <2>10, CallMoves
  <2>12. Storage!OneAtATime
    <3>1. storageFaults' = storageFaults => \E q \in Roots : Storage!Listed' = Append(Storage!Listed, q)
      BY <2>2, <2>6 DEF n, l
    <3> QED  BY <2>6, <3>1 DEF Storage!OneAtATime
  <2> QED  BY <2>11, <2>12
<1>6. Len(l) >= MaxExtraLocations \/ Len(l) < MaxExtraLocations
  <2>1. Len(l) \in Nat  BY <1>2, ListedFacts
  <2> QED  BY <2>1, StorageBounds
<1> HIDE DEF l, r
<1>7. \/ call' = [call EXCEPT ![w] = [at |-> "changed"]] /\ UNCHANGED <<file, storageFaults>>
      \/ call' = [call EXCEPT ![w] = [at |-> "idle"]] /\ UNCHANGED <<file, storageFaults>>
      \/ /\ r # Primary /\ r \notin Storage!Range(l) /\ ~ (Len(l) >= MaxExtraLocations)
         /\ Storage!WriteExtraRoots(Append(l, r)) /\ Storage!Wrote(w)
  BY DEF Storage!AddParent, Storage!Idle, l, r
<1> QED  BY <1>4, <1>5, <1>6, <1>7

LEMMA RemoveLocationKeeps ==
  ASSUME StorageInv, NEW w \in Windows, NEW r \in Roots, Storage!RemoveLocation(w, r)
  PROVE  StorageInv' /\ Storage!OneAtATime
<1> DEFINE l == Storage!Listed
<1>1. /\ call[w] = [at |-> "idle"] /\ calls < MaxCalls /\ calls' = calls + 1
      /\ UNCHANGED <<renames, publishing, shown, late, restarts>>
  BY DEF Storage!RemoveLocation, Storage!Idle
<1>2. calls \in 0 .. MaxCalls /\ storageFaults \in 0 .. MaxStorageFaults /\ file \in Seq(Roots \cup {Invalid})
  BY DEF StorageInv, StorageTypes, Storage!TypeOK
<1>3. /\ [at |-> "idle"] \in CallType /\ [at |-> "changed"] \in CallType
      /\ [at |-> "idle"].at = "idle" /\ [at |-> "changed"].at = "changed"
  BY CallKinds
<1>4. calls' \in 0 .. MaxCalls /\ call[w].at = "idle"  BY <1>1, <1>2, StorageBounds
<1>5. CASE UNCHANGED <<file, call, storageFaults>>
  <2>1. call' = [call EXCEPT ![w] = [at |-> "idle"]]
    <3>1. call \in [Windows -> CallType]  BY DEF StorageInv, StorageTypes
    <3> QED  BY <1>1, <1>5, <3>1
  <2>2. file' \in Seq(Roots \cup {Invalid}) /\ Storage!LocationsAreKept' /\ Storage!Listed' = Storage!Listed
        /\ Storage!OneAtATime
    BY <1>5, FileStays
  <2>3. storageFaults' = storageFaults  BY <1>5
  <2>4. StorageInv'
    <3> DEFINE c == [at |-> "idle"]
    <3>1. c \in CallType /\ c.at # "publishes" /\ call' = [call EXCEPT ![w] = c]  BY <1>3, <2>1
    <3> HIDE DEF c
    <3>2. call[w].at \in {"idle", "examines"} /\ storageFaults' \in 0 .. MaxStorageFaults
          /\ (storageFaults' = 0 => storageFaults = 0)
      BY <1>2, <1>4, <2>3
    <3> QED  BY <1>1, <1>4, <2>2, <3>1, <3>2, CallMoves
  <2> QED  BY <2>2, <2>4
<1>6. CASE /\ r \in Storage!Range(l)
           /\ Storage!WriteExtraRoots(Storage!Collect(l, {r})) /\ Storage!Wrote(w)
  <2>1. l \in Seq(Roots) /\ Storage!IsInjective(l) /\ Len(l) <= MaxExtraLocations /\ Len(l) \in Nat
    BY <1>2, ListedFacts
  <2> HIDE DEF l
  <2>2. PICK i \in 1 .. Len(l) : l[i] = r
    <3>1. DOMAIN l = 1 .. Len(l)  BY <2>1
    <3> QED  BY <1>6, <3>1 DEF Storage!Range
  <2> DEFINE n == Storage!RemoveAt(l, i)
  <2>3. n = Storage!Collect(l, {r})  BY <2>1, <2>2, CollectOne
  <2>4. n \in Seq(Roots) /\ Len(n) = Len(l) - 1 /\ Storage!IsInjective(n)
    BY <2>1, <2>2, RemoveAtFacts, RemoveAtInjects
  <2>5. Len(n) <= MaxExtraLocations
    <3> HIDE DEF n
    <3> QED  BY <2>1, <2>4, StorageBounds
  <2>6. Storage!WriteExtraRoots(n)  BY <1>6, <2>3
  <2> HIDE DEF n
  <2>7. /\ file' \in Seq(Roots \cup {Invalid}) /\ Storage!LocationsAreKept'
        /\ storageFaults' \in 0 .. MaxStorageFaults /\ (storageFaults' = 0 => storageFaults = 0)
        /\ storageFaults' = storageFaults => Storage!Listed' = n
        /\ storageFaults' # storageFaults => /\ storageFaults' # 0
                                             /\ renames => file' = file /\ Storage!Listed' = Storage!Listed
                                             /\ ~ renames => Storage!Listed' = <<>>
    BY <2>4, <2>5, <2>6, WriteFacts
  <2>8. PICK c \in {[at |-> "changed"], [at |-> "idle"]} :
          call' = [call EXCEPT ![w] = c] /\ (storageFaults' = storageFaults => c = [at |-> "changed"])
    BY <1>6 DEF Storage!Wrote, Storage!Idle
  <2>9. c \in CallType /\ c.at # "publishes" /\ (storageFaults' = storageFaults => c.at = "changed")  BY <1>3, <2>8
  <2>10. c.at = "changed" \/ Storage!Listed' = Storage!Listed \/ (~ renames /\ storageFaults' # 0)  BY <2>7, <2>9
  <2>11. StorageInv'  BY <1>1, <1>4, <2>7, <2>8, <2>9, <2>10, CallMoves
  <2>12. Storage!OneAtATime
    <3>1. i \in DOMAIN Storage!Listed
      <4>1. DOMAIN l = 1 .. Len(l)  BY <2>1
      <4> QED  BY <2>2, <4>1 DEF l
    <3>2. storageFaults' = storageFaults => Storage!Listed' = Storage!RemoveAt(Storage!Listed, i)
      BY <2>7 DEF n, l
    <3> QED  BY <2>7, <3>1, <3>2 DEF Storage!OneAtATime
  <2> QED  BY <2>11, <2>12
<1> HIDE DEF l
<1>7. \/ UNCHANGED <<file, call, storageFaults>>
      \/ /\ r \in Storage!Range(l)
         /\ Storage!WriteExtraRoots(Storage!Collect(l, {r})) /\ Storage!Wrote(w)
  BY DEF Storage!RemoveLocation, l
<1> QED  BY <1>5, <1>6, <1>7

LEMMA StorageStarts == Storage!Init => StorageInv
<1> SUFFICES ASSUME Storage!Init PROVE StorageInv  OBVIOUS
<1>1. /\ file \in FilesFound /\ renames \in BOOLEAN /\ call = [w \in Windows |-> [at |-> "idle"]]
      /\ publishing = <<>> /\ shown = Storage!Listed /\ late = FALSE
      /\ calls = 0 /\ restarts = 0 /\ storageFaults = 0
  BY DEF Storage!Init, Storage!Idle
<1>2. file \in Seq(Roots \cup {Invalid})  BY <1>1, StorageBounds
<1>3. /\ Storage!Listed \in Seq(Roots) /\ Storage!IsInjective(Storage!Listed)
      /\ Len(Storage!Listed) <= MaxExtraLocations
  BY <1>2, ListedFacts
<1>4. publishing \in Seq(Publication) /\ Len(publishing) = 0  BY <1>1, EmptySeq
<1>5. DOMAIN publishing = {} /\ 1 .. Len(publishing) = {}  BY <1>1, <1>4
<1>6. call \in [Windows -> CallType]
  <2>1. [at |-> "idle"] \in CallType  BY DEF CallType
  <2> QED  BY <1>1, <2>1
<1>7. Storage!TypeOK
  <2>1. \A w \in Windows : call[w].at = "idle"  BY <1>1
  <2>2. {renames, late} \subseteq BOOLEAN  BY <1>1
  <2> QED  BY <1>1, <1>2, <1>3, <1>5, <2>1, <2>2, StorageBounds DEF Storage!TypeOK
<1>8. Storage!LocationsAreKept
  <2>1. Primary \notin Storage!Range(Storage!Listed)
    <3> DEFINE l == Storage!Listed
    <3> HIDE DEF l
    <3>1. DOMAIN l = 1 .. Len(l) /\ \A i \in 1 .. Len(l) : l[i] \in Roots  BY <1>3, LenProperties DEF l
    <3>2. Primary \notin Storage!Range(l)  BY <3>1, StorageBounds DEF Storage!Range
    <3> QED  BY <3>2 DEF l
  <2> QED  BY <1>1, <1>3, <2>1 DEF Storage!LocationsAreKept
<1>9. BegunOnce  BY <1>5 DEF BegunOnce
<1>10. LastIsStored  BY <1>1 DEF LastIsStored
<1> QED  BY <1>4, <1>6, <1>7, <1>8, <1>9, <1>10 DEF StorageInv, StorageTypes

LEMMA AddLocationKeeps ==
  ASSUME StorageInv, NEW w \in Windows, NEW r \in Roots \cup {Primary}, Storage!AddLocation(w, r)
  PROVE  StorageInv' /\ Storage!OneAtATime
<1> DEFINE c == [at |-> "examines", root |-> r]
<1>1. /\ call[w] = [at |-> "idle"] /\ calls < MaxCalls /\ calls' = calls + 1 /\ call' = [call EXCEPT ![w] = c]
      /\ UNCHANGED <<file, renames, publishing, shown, late, restarts, storageFaults>>
  BY DEF Storage!AddLocation, Storage!Idle
<1>2. calls \in 0 .. MaxCalls /\ storageFaults \in 0 .. MaxStorageFaults
  BY DEF StorageInv, StorageTypes, Storage!TypeOK
<1>3. c \in CallType /\ c.at # "publishes"  BY CallKinds
<1>4. call[w].at \in {"idle", "examines"}  BY <1>1
<1>5. calls' \in 0 .. MaxCalls /\ storageFaults' \in 0 .. MaxStorageFaults /\ (storageFaults' = 0 => storageFaults = 0)
  BY <1>1, <1>2, StorageBounds
<1>6. file' \in Seq(Roots \cup {Invalid}) /\ Storage!LocationsAreKept' /\ Storage!Listed' = Storage!Listed
      /\ Storage!OneAtATime
  BY <1>1, FileStays
<1> HIDE DEF c
<1>7. StorageInv'  BY <1>1, <1>3, <1>4, <1>5, <1>6, CallMoves
<1> QED  BY <1>6, <1>7

LEMMA NotUsableKeeps ==
  ASSUME StorageInv, NEW w \in Windows, Storage!NotUsable(w)
  PROVE  StorageInv' /\ Storage!OneAtATime
<1> DEFINE c == [at |-> "idle"]
<1>1. /\ call[w].at = "examines" /\ call' = [call EXCEPT ![w] = c]
      /\ storageFaults < MaxStorageFaults /\ storageFaults' = storageFaults + 1
      /\ UNCHANGED <<file, renames, publishing, shown, late, calls, restarts>>
  BY DEF Storage!NotUsable, Storage!Idle
<1>2. calls \in 0 .. MaxCalls /\ storageFaults \in 0 .. MaxStorageFaults
  BY DEF StorageInv, StorageTypes, Storage!TypeOK
<1>3. c \in CallType /\ c.at # "publishes"  BY CallKinds
<1>5. calls' \in 0 .. MaxCalls /\ storageFaults' \in 0 .. MaxStorageFaults /\ (storageFaults' = 0 => storageFaults = 0)
  BY <1>1, <1>2, StorageBounds
<1>6. file' \in Seq(Roots \cup {Invalid}) /\ Storage!LocationsAreKept' /\ Storage!Listed' = Storage!Listed
      /\ Storage!OneAtATime
  BY <1>1, FileStays
<1> HIDE DEF c
<1>7. StorageInv'  BY <1>1, <1>3, <1>5, <1>6, CallMoves
<1> QED  BY <1>6, <1>7

(* A publication begins, of a window that has changed the list or of the restart. *)
LEMMA PublicationKeeps ==
  ASSUME StorageInv, NEW by \in Storage!Publisher,
         publishing' = Append(publishing, [by |-> by, list |-> Storage!Listed, overtaken |-> FALSE]),
         UNCHANGED <<file, renames, shown, late, calls, storageFaults>>, restarts' \in 0 .. MaxRestarts,
         \/ by = "restart" /\ call' = call
         \/ by \in Windows /\ call[by].at = "changed" /\ call' = [call EXCEPT ![by] = [at |-> "publishes"]]
  PROVE  StorageInv' /\ Storage!OneAtATime
<1> DEFINE n == Len(publishing)
           p == [by |-> by, list |-> Storage!Listed, overtaken |-> FALSE]
<1>1. /\ Storage!TypeOK /\ call \in [Windows -> CallType] /\ publishing \in Seq(Publication) /\ BegunOnce
  BY DEF StorageInv, StorageTypes
<1>2. /\ file' \in Seq(Roots \cup {Invalid}) /\ Storage!LocationsAreKept' /\ Storage!Listed' = Storage!Listed
      /\ Storage!OneAtATime
  BY FileStays
<1>3. Storage!Listed \in Seq(Roots)  BY <1>1, ListedFacts DEF Storage!TypeOK
<1>4. p \in Publication /\ p.by = by /\ p.list = Storage!Listed  BY <1>3 DEF Publication
<1> HIDE DEF p
<1>5. /\ publishing' \in Seq(Publication) /\ Len(publishing') = n + 1 /\ n \in Nat
      /\ publishing'[n + 1] = p /\ \A i \in 1 .. n : publishing'[i] = publishing[i] /\ publishing[i] \in Publication
  BY <1>1, <1>4 DEF p
<1>6. 1 .. n + 1 = 1 .. n \cup {n + 1}  BY <1>5
<1> HIDE DEF n
<1>7. call' \in [Windows -> CallType]
  <2>1. [at |-> "publishes"] \in CallType  BY DEF CallType
  <2> QED  BY <1>1, <2>1
<1>8. \A i \in 1 .. n : publishing[i].by \in Windows => call[publishing[i].by].at = "publishes"
  BY <1>1 DEF BegunOnce, n
<1>9. \A i \in 1 .. n : publishing[i].by # by \/ by = "restart"
  <2> SUFFICES ASSUME NEW i \in 1 .. n, publishing[i].by = by, by # "restart" PROVE FALSE  OBVIOUS
  <2>1. by \in Windows /\ call[by].at = "changed"  OBVIOUS
  <2> QED  BY <1>8, <2>1
<1>10. \A i \in 1 .. n + 1 : publishing'[i].by \in Windows => call'[publishing'[i].by].at = "publishes"
  <2>1. ASSUME NEW i \in 1 .. n, publishing[i].by \in Windows PROVE call'[publishing[i].by].at = "publishes"
    <3>1. call[publishing[i].by].at = "publishes"  BY <1>8, <2>1
    <3> QED  BY <1>1, <2>1, <3>1
  <2>2. by \in Windows => call'[by].at = "publishes"
    <3>1. "restart" \notin Windows  BY StorageBounds
    <3> QED  BY <1>1, <3>1
  <2> QED  BY <1>4, <1>5, <1>6, <2>1, <2>2
<1>11. \A i, j \in 1 .. n + 1 :
         publishing'[i].by = publishing'[j].by /\ publishing'[i].by # "restart" => i = j
  <2>1. \A i, j \in 1 .. n : publishing[i].by = publishing[j].by /\ publishing[i].by # "restart" => i = j
    BY <1>1 DEF BegunOnce, n
  <2> QED  BY <1>4, <1>5, <1>6, <1>9, <2>1
<1>12. BegunOnce'  BY <1>5, <1>10, <1>11 DEF BegunOnce
<1>13. Storage!TypeOK'
  <2>1. \A x \in CallType : x.at \in {"idle", "examines", "changed", "publishes"}  BY DEF CallType
  <2>2. \A v \in Windows : call'[v].at \in {"idle", "examines", "changed", "publishes"}
    BY <1>7, <2>1
  <2>3. DOMAIN publishing' = 1 .. n + 1  BY <1>5, LenProperties
  <2>4. \A i \in 1 .. n + 1 : publishing'[i].by \in Storage!Publisher
    BY <1>4, <1>5, <1>6 DEF Publication
  <2>5. /\ shown' = shown /\ late' = late /\ renames' = renames /\ calls' = calls /\ storageFaults' = storageFaults
        /\ shown \in Seq(Roots) /\ {renames, late} \subseteq BOOLEAN
        /\ calls \in 0 .. MaxCalls /\ storageFaults \in 0 .. MaxStorageFaults
    BY <1>1 DEF Storage!TypeOK
  <2>6. {renames', late'} \subseteq BOOLEAN  BY <2>5
  <2> QED  BY <1>2, <2>2, <2>3, <2>4, <2>5, <2>6 DEF Storage!TypeOK
<1>14. LastIsStored'
  <2>1. publishing' # <<>> /\ publishing'[Len(publishing')].list = Storage!Listed'
    <3>1. publishing' # <<>>  BY <1>5, EmptySeq
    <3> QED  BY <1>2, <1>4, <1>5, <3>1
  <2> QED  BY <2>1 DEF LastIsStored
<1> QED  BY <1>2, <1>5, <1>7, <1>12, <1>13, <1>14 DEF StorageInv, StorageTypes

(* One of them ends, with its list pushed or nothing.                        *)
LEMMA EndedKeeps ==
  ASSUME StorageInv, NEW i \in DOMAIN publishing, Storage!Ended(i),
         UNCHANGED <<file, renames, calls, restarts>>,
         storageFaults' \in 0 .. MaxStorageFaults, storageFaults' = 0 => storageFaults = 0,
         \/ shown' = publishing[i].list /\ late' = publishing[i].overtaken
         \/ shown' = shown /\ late' = TRUE
  PROVE  StorageInv' /\ Storage!OneAtATime
<1> DEFINE n == Len(publishing)
           q == [j \in DOMAIN publishing |->
                   IF j < i THEN [publishing[j] EXCEPT !.overtaken = TRUE] ELSE publishing[j]]
<1>1. /\ Storage!TypeOK /\ call \in [Windows -> CallType] /\ publishing \in Seq(Publication)
      /\ BegunOnce /\ LastIsStored
  BY DEF StorageInv, StorageTypes
<1>2. /\ file' \in Seq(Roots \cup {Invalid}) /\ Storage!LocationsAreKept' /\ Storage!Listed' = Storage!Listed
      /\ Storage!OneAtATime
  BY FileStays
<1>3. /\ publishing' = Storage!RemoveAt(q, i)
      /\ (publishing[i].by = "restart" => call' = call)
      /\ (publishing[i].by # "restart" => call' = [call EXCEPT ![publishing[i].by] = [at |-> "idle"]])
  BY DEF Storage!Ended, Storage!Idle
<1>4. n \in Nat /\ DOMAIN publishing = 1 .. n /\ i \in 1 .. n /\ \A j \in 1 .. n : publishing[j] \in Publication
  BY <1>1
<1>5. \A x \in Publication : /\ x.by \in Storage!Publisher /\ x.list \in Seq(Roots) /\ x.overtaken \in BOOLEAN
                             /\ [x EXCEPT !.overtaken = TRUE] \in Publication
                             /\ [x EXCEPT !.overtaken = TRUE].by = x.by
                             /\ [x EXCEPT !.overtaken = TRUE].overtaken = TRUE
  BY DEF Publication
<1> HIDE DEF n
<1>6. /\ q \in Seq(Publication) /\ Len(q) = n
      /\ \A j \in 1 .. n : /\ q[j].by = publishing[j].by
                           /\ j < i => q[j].overtaken = TRUE
                           /\ ~ (j < i) => q[j] = publishing[j]
  <2>1. \A j \in 1 .. n : q[j] = IF j < i THEN [publishing[j] EXCEPT !.overtaken = TRUE] ELSE publishing[j]
    BY <1>4
  <2>2. q \in [1 .. n -> Publication]  BY <1>4, <1>5
  <2>3. q \in Seq(Publication) /\ Len(q) = n
    <3> HIDE DEF q
    <3> QED  BY <1>4, <2>2
  <2> HIDE DEF q
  <2>4. ASSUME NEW j \in 1 .. n
        PROVE  /\ q[j].by = publishing[j].by
               /\ j < i => q[j].overtaken = TRUE
               /\ ~ (j < i) => q[j] = publishing[j]
    <3>1. publishing[j] \in Publication  BY <1>4
    <3>2. CASE j < i
      <4>1. q[j] = [publishing[j] EXCEPT !.overtaken = TRUE]  BY <2>1, <3>2
      <4> QED  BY <1>5, <3>1, <3>2, <4>1
    <3>3. CASE ~ (j < i)
      <4>1. q[j] = publishing[j]  BY <2>1, <3>3
      <4> QED  BY <3>3, <4>1
    <3> QED  BY <3>2, <3>3
  <2> QED  BY <2>3, <2>4
<1> HIDE DEF q
<1>7. /\ publishing' \in Seq(Publication) /\ Len(publishing') = n - 1
      /\ \A j \in 1 .. n - 1 : publishing'[j] = IF j < i THEN q[j] ELSE q[j + 1]
  BY <1>3, <1>4, <1>6, RemoveAtFacts
(* Where in the list a publication was that is left. *)
<1> DEFINE old(j) == IF j < i THEN j ELSE j + 1
<1>8. \A j \in 1 .. n - 1 : old(j) \in 1 .. n /\ old(j) # i  BY <1>4
<1>9. \A j, k \in 1 .. n - 1 : old(j) = old(k) => j = k  BY <1>4
<1>10. \A j \in 1 .. n - 1 : publishing'[j].by = publishing[old(j)].by
  <2> SUFFICES ASSUME NEW j \in 1 .. n - 1 PROVE publishing'[j].by = publishing[old(j)].by  OBVIOUS
  <2>1. publishing'[j] = q[old(j)] /\ old(j) \in 1 .. n  BY <1>7, <1>8
  <2> HIDE DEF old
  <2> QED  BY <1>6, <2>1
<1> HIDE DEF old
<1>11. \A j \in 1 .. n : publishing[j].by \in Windows => call[publishing[j].by].at = "publishes"
  BY <1>1 DEF BegunOnce, n
<1>12. \A j, k \in 1 .. n : publishing[j].by = publishing[k].by /\ publishing[j].by # "restart" => j = k
  BY <1>1 DEF BegunOnce, n
<1>13. publishing[i].by # "restart" => publishing[i].by \in Windows
  BY <1>4, <1>5 DEF Storage!Publisher
<1>14. /\ call' \in [Windows -> CallType]
       /\ \A v \in Windows : v # publishing[i].by => call'[v] = call[v]
  <2>1. [at |-> "idle"] \in CallType  BY DEF CallType
  <2> QED  BY <1>1, <1>3, <1>13, <2>1
<1>15. BegunOnce'
  <2>1. ASSUME NEW j \in 1 .. n - 1, publishing'[j].by \in Windows
        PROVE  call'[publishing'[j].by].at = "publishes"
    <3>1. publishing'[j].by = publishing[old(j)].by /\ old(j) \in 1 .. n /\ old(j) # i  BY <1>8, <1>10
    <3>2. publishing[old(j)].by # "restart"  BY <2>1, <3>1, StorageBounds
    <3>3. publishing[old(j)].by # publishing[i].by  BY <1>4, <1>12, <3>1, <3>2
    <3>4. call[publishing[old(j)].by].at = "publishes"  BY <1>11, <2>1, <3>1
    <3> QED  BY <1>14, <2>1, <3>1, <3>3, <3>4
  <2>2. ASSUME NEW j \in 1 .. n - 1, NEW k \in 1 .. n - 1,
               publishing'[j].by = publishing'[k].by, publishing'[j].by # "restart"
        PROVE  j = k
    <3>1. publishing[old(j)].by = publishing[old(k)].by /\ publishing[old(j)].by # "restart"  BY <1>10, <2>2
    <3>2. old(j) = old(k)  BY <1>8, <1>12, <3>1
    <3> QED  BY <1>9, <3>2
  <2> QED  BY <1>7, <2>1, <2>2 DEF BegunOnce
<1>16. Storage!TypeOK'
  <2>1. \A x \in CallType : x.at \in {"idle", "examines", "changed", "publishes"}  BY DEF CallType
  <2>2. \A v \in Windows : call'[v].at \in {"idle", "examines", "changed", "publishes"}
    BY <1>14, <2>1
  <2>3. DOMAIN publishing' = 1 .. n - 1  BY <1>7, LenProperties
  <2>4. \A j \in 1 .. n - 1 : publishing'[j].by \in Storage!Publisher
    BY <1>4, <1>5, <1>8, <1>10
  <2>5. /\ renames' = renames /\ calls' = calls /\ restarts' = restarts
        /\ renames \in BOOLEAN /\ shown \in Seq(Roots)
        /\ calls \in 0 .. MaxCalls /\ restarts \in 0 .. MaxRestarts
    BY <1>1 DEF Storage!TypeOK
  <2>6. shown' \in Seq(Roots) /\ late' \in BOOLEAN
    <3>1. CASE shown' = publishing[i].list /\ late' = publishing[i].overtaken
      <4>1. publishing[i] \in Publication  BY <1>4
      <4>2. publishing[i].list \in Seq(Roots) /\ publishing[i].overtaken \in BOOLEAN  BY <1>5, <4>1
      <4> QED  BY <3>1, <4>2, Zenon
    <3>2. CASE shown' = shown /\ late' = TRUE
      <4>1. shown' \in Seq(Roots)  BY <2>5, <3>2
      <4> QED  BY <3>2, <4>1, Zenon
    <3> QED  BY <3>1, <3>2
  <2>7. {renames', late'} \subseteq BOOLEAN  BY <2>5, <2>6
  <2> QED  BY <1>2, <2>2, <2>3, <2>4, <2>5, <2>6, <2>7 DEF Storage!TypeOK
<1>17. LastIsStored'
  <2> SUFFICES ASSUME AtRest'
               PROVE  (/\ publishing = <<>> => shown = Storage!Listed \/ late
                       /\ publishing # <<>> => \/ publishing[Len(publishing)].list = Storage!Listed
                                               \/ publishing[Len(publishing)].overtaken)'
    BY DEF LastIsStored
  <2>1. (renames' \/ storageFaults' = 0) /\ \A v \in Windows : call'[v].at # "changed"  BY DEF AtRest
  <2>2. AtRest
    <3>1. \A v \in Windows : call[v].at # "changed"
      <4> SUFFICES ASSUME NEW v \in Windows, call[v].at = "changed" PROVE FALSE  OBVIOUS
      <4>1. v # publishing[i].by  BY <1>4, <1>11
      <4> QED  BY <1>14, <2>1, <4>1
    <3> QED  BY <1>3, <2>1, <3>1 DEF AtRest
  <2>3. publishing[n].list = Storage!Listed \/ publishing[n].overtaken
    <3>1. publishing # <<>>  BY <1>4, EmptySeq
    <3> QED  BY <1>1, <2>2, <3>1 DEF LastIsStored, n
  <2>4. CASE n = 1
    <3>1. i = n /\ Len(publishing') = 0  BY <1>4, <1>7, <2>4
    <3>2. publishing' = <<>>  BY <1>7, <3>1
    <3> QED  BY <1>2, <1>3, <2>3, <3>1, <3>2
  <2>5. CASE n # 1
    <3>1. n - 1 \in 1 .. n - 1 /\ n - 1 \in 1 .. n /\ n \in 1 .. n /\ n - 1 + 1 = n  BY <1>4, <2>5
    <3>2. publishing' # <<>>  BY <1>7, <3>1, EmptySeq
    <3>3. publishing'[n - 1] = IF n - 1 < i THEN q[n - 1] ELSE q[n]  BY <1>7, <3>1
    <3>4. CASE n - 1 < i
      <4>1. publishing'[n - 1].overtaken = TRUE  BY <1>6, <3>1, <3>3, <3>4
      <4> QED  BY <1>7, <3>2, <4>1
    <3>5. CASE ~ (n - 1 < i)
      <4>1. ~ (n < i)  BY <1>4, <3>5
      <4>2. publishing'[n - 1] = publishing[n]  BY <1>6, <3>1, <3>3, <3>5, <4>1
      <4> QED  BY <1>2, <1>7, <2>3, <3>2, <4>2
    <3> QED  BY <3>4, <3>5
  <2> QED  BY <2>4, <2>5
<1> QED  BY <1>2, <1>7, <1>14, <1>15, <1>16, <1>17 DEF StorageInv, StorageTypes

(* A change of which no list was pushed: those that are measured are older.  *)
LEMMA NotMeasuredKeeps ==
  ASSUME StorageInv, NEW w \in Windows, Storage!NotMeasured(w)
  PROVE  StorageInv' /\ Storage!OneAtATime
<1> DEFINE n == Len(publishing)
<1>1. /\ Storage!TypeOK /\ call \in [Windows -> CallType] /\ publishing \in Seq(Publication) /\ BegunOnce
  BY DEF StorageInv, StorageTypes
<1>2. /\ file' \in Seq(Roots \cup {Invalid}) /\ Storage!LocationsAreKept' /\ Storage!Listed' = Storage!Listed
      /\ Storage!OneAtATime
  BY FileStays DEF Storage!NotMeasured
<1>3. /\ call[w].at = "changed" /\ storageFaults < MaxStorageFaults /\ storageFaults' = storageFaults + 1
      /\ call' = [call EXCEPT ![w] = [at |-> "idle"]] /\ late' = TRUE
      /\ publishing' = [j \in DOMAIN publishing |-> [publishing[j] EXCEPT !.overtaken = TRUE]]
      /\ UNCHANGED <<renames, shown, calls, restarts>>
  BY DEF Storage!NotMeasured, Storage!Idle
<1>4. n \in Nat /\ DOMAIN publishing = 1 .. n /\ \A j \in 1 .. n : publishing[j] \in Publication
  BY <1>1
<1> HIDE DEF n
<1>5. \A x \in Publication : /\ x.by \in Storage!Publisher
                             /\ [x EXCEPT !.overtaken = TRUE] \in Publication
                             /\ [x EXCEPT !.overtaken = TRUE].by = x.by
                             /\ [x EXCEPT !.overtaken = TRUE].overtaken = TRUE
  BY DEF Publication
<1>6. \A j \in 1 .. n : /\ publishing'[j] \in Publication /\ publishing'[j].by = publishing[j].by
                         /\ publishing'[j].by \in Storage!Publisher /\ publishing'[j].overtaken = TRUE
  <2> SUFFICES ASSUME NEW j \in 1 .. n
               PROVE  /\ publishing'[j] \in Publication /\ publishing'[j].by = publishing[j].by
                      /\ publishing'[j].by \in Storage!Publisher /\ publishing'[j].overtaken = TRUE
    OBVIOUS
  <2>1. publishing[j] \in Publication /\ publishing'[j] = [publishing[j] EXCEPT !.overtaken = TRUE]
    BY <1>3, <1>4
  <2> QED  BY <1>5, <2>1
<1>7. publishing' \in Seq(Publication) /\ Len(publishing') = n /\ DOMAIN publishing' = 1 .. n
  <2>1. publishing' = [j \in 1 .. n |-> publishing'[j]]  BY <1>3, <1>4
  <2>2. publishing' \in [1 .. n -> Publication]  BY <1>6, <2>1
  <2> QED  BY <1>4, <2>2
<1>8. /\ call' \in [Windows -> CallType] /\ call'[w].at = "idle"
      /\ \A v \in Windows : v # w => call'[v] = call[v]
  <2>1. [at |-> "idle"] \in CallType  BY DEF CallType
  <2> QED  BY <1>1, <1>3, <2>1
<1>9. BegunOnce'
  <2>1. /\ \A j \in 1 .. n : publishing[j].by \in Windows => call[publishing[j].by].at = "publishes"
        /\ \A j, k \in 1 .. n : publishing[j].by = publishing[k].by /\ publishing[j].by # "restart" => j = k
    BY <1>1 DEF BegunOnce, n
  <2>2. ASSUME NEW j \in 1 .. n, publishing'[j].by \in Windows PROVE call'[publishing'[j].by].at = "publishes"
    <3>1. publishing'[j].by = publishing[j].by  BY <1>6
    <3>2. call[publishing[j].by].at = "publishes"  BY <2>1, <2>2, <3>1
    <3>3. publishing[j].by # w  BY <1>3, <3>2
    <3> QED  BY <1>8, <2>2, <3>1, <3>2, <3>3
  <2> QED  BY <1>6, <1>7, <2>1, <2>2 DEF BegunOnce
<1>10. Storage!TypeOK'
  <2>1. \A x \in CallType : x.at \in {"idle", "examines", "changed", "publishes"}  BY DEF CallType
  <2>2. \A v \in Windows : call'[v].at \in {"idle", "examines", "changed", "publishes"}  BY <1>8, <2>1
  <2>3. /\ renames \in BOOLEAN /\ shown \in Seq(Roots)
        /\ calls \in 0 .. MaxCalls /\ restarts \in 0 .. MaxRestarts /\ storageFaults \in 0 .. MaxStorageFaults
    BY <1>1 DEF Storage!TypeOK
  <2>4. storageFaults' \in 0 .. MaxStorageFaults  BY <1>3, <2>3, StorageBounds
  <2>5. {renames', late'} \subseteq BOOLEAN  BY <1>3, <2>3
  <2> QED  BY <1>2, <1>3, <1>6, <1>7, <2>2, <2>3, <2>4, <2>5 DEF Storage!TypeOK
<1>11. LastIsStored'
  <2>1. publishing' # <<>> => publishing'[Len(publishing')].overtaken = TRUE
    <3> HAVE publishing' # <<>>
    <3>1. n \in 1 .. n  BY <1>4, <1>7, EmptySeq
    <3> QED  BY <1>6, <1>7, <3>1
  <2> QED  BY <1>3, <2>1 DEF LastIsStored
<1> QED  BY <1>2, <1>7, <1>8, <1>9, <1>10, <1>11 DEF StorageInv, StorageTypes

(* A call changes one location, whatever the others do meanwhile. *)
LEMMA StorageSteps == StorageInv /\ Storage!Next => StorageInv' /\ Storage!OneAtATime
<1> SUFFICES ASSUME StorageInv, Storage!Next PROVE StorageInv' /\ Storage!OneAtATime  OBVIOUS
<1>1. ASSUME NEW w \in Windows, NEW r \in Roots \cup {Primary}, Storage!AddLocation(w, r)
      PROVE  StorageInv' /\ Storage!OneAtATime
  BY <1>1, AddLocationKeeps
<1>2. ASSUME NEW w \in Windows, NEW r \in Roots, Storage!RemoveLocation(w, r)
      PROVE  StorageInv' /\ Storage!OneAtATime
  BY <1>2, RemoveLocationKeeps
<1>3. ASSUME NEW w \in Windows, Storage!NotUsable(w) \/ Storage!AddParent(w) \/ Storage!Publishes(w) \/ Storage!NotMeasured(w)
      PROVE  StorageInv' /\ Storage!OneAtATime
  <2>1. CASE Storage!NotUsable(w)  BY <2>1, NotUsableKeeps
  <2>2. CASE Storage!AddParent(w)  BY <2>2, AddParentKeeps
  <2>3. CASE Storage!Publishes(w)
    <3>1. /\ call[w].at = "changed" /\ call' = [call EXCEPT ![w] = [at |-> "publishes"]]
          /\ publishing' = Append(publishing, [by |-> w, list |-> Storage!Listed, overtaken |-> FALSE])
          /\ UNCHANGED <<file, renames, shown, late, calls, restarts, storageFaults>>
      BY <2>3 DEF Storage!Publishes
    <3>2. w \in Storage!Publisher /\ restarts' \in 0 .. MaxRestarts
      BY <3>1 DEF Storage!Publisher, StorageInv, StorageTypes, Storage!TypeOK
    <3> QED  BY <3>1, <3>2, PublicationKeeps
  <2>4. CASE Storage!NotMeasured(w)  BY <2>4, NotMeasuredKeeps
  <2> QED  BY <1>3, <2>1, <2>2, <2>3, <2>4
<1>4. CASE Storage!RestartEnds
  <2>1. /\ restarts < MaxRestarts /\ restarts' = restarts + 1 /\ call' = call
        /\ publishing' = Append(publishing, [by |-> "restart", list |-> Storage!Listed, overtaken |-> FALSE])
        /\ UNCHANGED <<file, renames, shown, late, calls, storageFaults>>
    BY <1>4 DEF Storage!RestartEnds
  <2>2. restarts \in 0 .. MaxRestarts  BY DEF StorageInv, StorageTypes, Storage!TypeOK
  <2>3. "restart" \in Storage!Publisher /\ restarts' \in 0 .. MaxRestarts
    BY <2>1, <2>2, StorageBounds DEF Storage!Publisher
  <2> QED  BY <2>1, <2>3, PublicationKeeps
<1>5. ASSUME NEW i \in DOMAIN publishing, Storage!Published(i) \/ Storage!PublishFails(i)
      PROVE  StorageInv' /\ Storage!OneAtATime
  <2>1. storageFaults \in 0 .. MaxStorageFaults  BY DEF StorageInv, StorageTypes, Storage!TypeOK
  <2>2. CASE Storage!Published(i)
    <3>1. /\ Storage!Ended(i) /\ UNCHANGED <<file, renames, calls, restarts>> /\ storageFaults' = storageFaults
          /\ shown' = publishing[i].list /\ late' = publishing[i].overtaken
      BY <2>2 DEF Storage!Published
    <3> QED  BY <2>1, <3>1, EndedKeeps
  <2>3. CASE Storage!PublishFails(i)
    <3>1. /\ Storage!Ended(i) /\ UNCHANGED <<file, renames, calls, restarts>> /\ shown' = shown /\ late' = TRUE
          /\ storageFaults < MaxStorageFaults /\ storageFaults' = storageFaults + 1
      BY <2>3 DEF Storage!PublishFails
    <3>2. storageFaults' \in 0 .. MaxStorageFaults /\ storageFaults' # 0  BY <2>1, <3>1, StorageBounds
    <3> QED  BY <3>1, <3>2, EndedKeeps
  <2> QED  BY <1>5, <2>2, <2>3
<1> QED  BY <1>1, <1>2, <1>3, <1>4, <1>5 DEF Storage!Next

LEMMA StorageStays ==
  ASSUME StorageInv, UNCHANGED storageVars
  PROVE  StorageInv' /\ Storage!OneAtATime
<1>1. /\ file' = file /\ renames' = renames /\ call' = call /\ publishing' = publishing /\ shown' = shown
      /\ late' = late /\ calls' = calls /\ restarts' = restarts /\ storageFaults' = storageFaults
  BY DEF storageVars
<1>2. StorageTypes'  BY <1>1 DEF StorageInv, StorageTypes, Storage!TypeOK
<1>3. BegunOnce' /\ Storage!LocationsAreKept' /\ LastIsStored'
  BY <1>1 DEF StorageInv, BegunOnce, Storage!LocationsAreKept, LastIsStored, AtRest, Storage!Listed
<1> QED  BY <1>1, <1>2, <1>3 DEF StorageInv, Storage!OneAtATime

LEMMA StorageMeans == StorageInv => Storage!TypeOK /\ Storage!LocationsAreKept /\ Storage!ShownIsStored
BY DEF StorageInv, StorageTypes, LastIsStored, AtRest, Storage!ShownIsStored

------------------------------------------------------------------------------
(* The account token, and the root that is trusted.                          *)

Holding == [at : {"idle", "read", "create", "write", "lost"},
            cached : Token!Drawn \cup {Token!Nothing, Token!Given}, life : 1 .. MaxLives]

(* One process at most writes the file it created; one that is busy has no    *)
(* token yet.                                                                 *)
TokenInv ==
  /\ holder \in [Processes -> Holding] /\ tokenFile \in Token!Drawn \cup {Token!Absent, Token!Unwritten}
  /\ Token!IdentityIsOne
  /\ \A p, q \in Processes : holder[p].at = "write" /\ holder[q].at = "write" => p = q
  /\ \A p \in Processes : /\ holder[p].at = "write" => tokenFile = Token!Unwritten
                          /\ holder[p].at # "idle" => holder[p].cached = Token!Nothing

TokenKeeps ==
  /\ Token!InFile => UNCHANGED tokenFile
  /\ \A p \in Processes :
       holder[p].cached # Token!Nothing /\ holder'[p].life = holder[p].life
         => holder'[p].cached = holder[p].cached

LEMMA TokenBound == MaxLives \in Nat \ {0}
BY SeparateAssumption DEF Token!TokenAssumption

LEMMA TokenKinds ==
  /\ Token!Nothing \notin Token!Drawn /\ Token!Given \notin Token!Drawn /\ Token!Nothing # Token!Given
  /\ Token!Absent \notin Token!Drawn /\ Token!Unwritten \notin Token!Drawn /\ Token!Absent # Token!Unwritten
<1>1. \A x \in Token!Drawn : x.kind = "drawn"  BY DEF Token!Drawn
<1>2. /\ Token!Nothing.kind = "nothing" /\ Token!Given.kind = "given"
      /\ Token!Absent.kind = "absent" /\ Token!Unwritten.kind = "unwritten"
  BY DEF Token!Nothing, Token!Given, Token!Absent, Token!Unwritten
<1> QED  BY <1>1, <1>2

LEMMA TokenStarts == Token!Init => TokenInv
<1> SUFFICES ASSUME Token!Init PROVE TokenInv  OBVIOUS
<1>1. /\ tokenFile = Token!Absent /\ apart = {}
      /\ holder = [p \in Processes |-> [at |-> "idle", cached |-> Token!Nothing, life |-> 1]]
  BY DEF Token!Init
<1>2. [at |-> "idle", cached |-> Token!Nothing, life |-> 1] \in Holding
  BY TokenBound DEF Holding
<1>3. holder \in [Processes -> Holding]  BY <1>1, <1>2
<1>4. \A p \in Processes : holder[p].at = "idle" /\ holder[p].cached = Token!Nothing  BY <1>1
<1> QED  BY <1>1, <1>3, <1>4, TokenKinds DEF TokenInv, Token!IdentityIsOne

(* One process moves, with what it has of the file. *)
LEMMA HolderMoves ==
  ASSUME TokenInv, NEW p \in Processes, NEW at \in {"idle", "read", "create", "write", "lost"},
         NEW token \in Token!Drawn \cup {Token!Nothing, Token!Given},
         holder' = [holder EXCEPT ![p] = [at |-> at, cached |-> token, life |-> holder[p].life]],
         holder[p].cached = Token!Nothing, at # "idle" => token = Token!Nothing,
         apart \subseteq apart', apart' \subseteq apart \cup {p},
         tokenFile' \in Token!Drawn \cup {Token!Absent, Token!Unwritten},
         \/ tokenFile' = tokenFile /\ at # "write"
         \/ tokenFile = Token!Absent /\ tokenFile' = Token!Unwritten
         \/ holder[p].at = "write" /\ at # "write",
         token \in Token!Drawn /\ p \notin apart' => token = tokenFile'
  PROVE  TokenInv' /\ TokenKeeps
<1>1. /\ holder \in [Processes -> Holding] /\ tokenFile \in Token!Drawn \cup {Token!Absent, Token!Unwritten}
      /\ \A q \in Processes : holder[q].cached \in Token!Drawn /\ q \notin apart => holder[q].cached = tokenFile
      /\ \A q, r \in Processes : holder[q].at = "write" /\ holder[r].at = "write" => q = r
      /\ \A q \in Processes : /\ holder[q].at = "write" => tokenFile = Token!Unwritten
                              /\ holder[q].at # "idle" => holder[q].cached = Token!Nothing
  BY DEF TokenInv, Token!IdentityIsOne
<1> DEFINE h == [at |-> at, cached |-> token, life |-> holder[p].life]
<1>2. h \in Holding /\ h.at = at /\ h.cached = token /\ h.life = holder[p].life
  <2>1. holder[p].life \in 1 .. MaxLives  BY <1>1 DEF Holding
  <2> QED  BY <2>1 DEF Holding
<1> HIDE DEF h
<1>3. /\ holder' \in [Processes -> Holding] /\ holder'[p] = h
      /\ \A q \in Processes : q # p => holder'[q] = holder[q]
  BY <1>1, <1>2 DEF h
(* Where the file changes, nobody has a token of it. *)
<1>4. tokenFile' = tokenFile \/ tokenFile \notin Token!Drawn  BY <1>1, TokenKinds
<1>5. Token!IdentityIsOne'
  <2>1. ASSUME NEW q \in Processes, holder'[q].cached \in Token!Drawn, q \notin apart'
        PROVE  holder'[q].cached = tokenFile'
    <3>1. CASE q = p  BY <1>2, <1>3, <2>1, <3>1
    <3>2. CASE q # p
      <4>1. holder[q].cached = tokenFile /\ holder[q].cached \in Token!Drawn  BY <1>1, <1>3, <2>1, <3>2
      <4> QED  BY <1>3, <1>4, <3>2, <4>1
    <3> QED  BY <3>1, <3>2
  <2> QED  BY <2>1 DEF Token!IdentityIsOne
<1>6. at = "write" => tokenFile = Token!Absent /\ tokenFile' = Token!Unwritten  BY <1>1, TokenKinds
<1>7. at = "write" => \A q \in Processes : holder[q].at # "write"  BY <1>1, <1>6, TokenKinds
<1>8. \A q, r \in Processes : holder'[q].at = "write" /\ holder'[r].at = "write" => q = r
  BY <1>1, <1>2, <1>3, <1>7
<1>9. ASSUME NEW q \in Processes
      PROVE  /\ holder'[q].at = "write" => tokenFile' = Token!Unwritten
             /\ holder'[q].at # "idle" => holder'[q].cached = Token!Nothing
  <2>1. CASE q = p  BY <1>2, <1>3, <1>6, <2>1
  <2>2. CASE q # p
    <3>1. holder'[q] = holder[q]  BY <1>3, <2>2
    <3>2. holder[q].at = "write" => tokenFile' = tokenFile \/ tokenFile = Token!Absent  BY <1>1, <2>2
    <3> QED  BY <1>1, <3>1, <3>2, TokenKinds
  <2> QED  BY <2>1, <2>2
<1>10. TokenKeeps
  <2>1. Token!InFile => tokenFile' = tokenFile  BY <1>4 DEF Token!InFile
  <2>2. ASSUME NEW q \in Processes, holder[q].cached # Token!Nothing PROVE holder'[q].cached = holder[q].cached
    BY <1>3, <2>2
  <2> QED  BY <2>1, <2>2 DEF TokenKeeps
<1> QED  BY <1>3, <1>5, <1>8, <1>9, <1>10 DEF TokenInv

LEMMA DeathKeeps ==
  ASSUME TokenInv, NEW p \in Processes, Token!Dies(p)
  PROVE  TokenInv' /\ TokenKeeps
<1>1. /\ holder \in [Processes -> Holding] /\ tokenFile \in Token!Drawn \cup {Token!Absent, Token!Unwritten}
      /\ \A q \in Processes : holder[q].cached \in Token!Drawn /\ q \notin apart => holder[q].cached = tokenFile
      /\ \A q, r \in Processes : holder[q].at = "write" /\ holder[r].at = "write" => q = r
      /\ \A q \in Processes : /\ holder[q].at = "write" => tokenFile = Token!Unwritten
                              /\ holder[q].at # "idle" => holder[q].cached = Token!Nothing
  BY DEF TokenInv, Token!IdentityIsOne
<1> DEFINE h == [at |-> "idle", cached |-> Token!Nothing, life |-> holder[p].life + 1]
<1>2. /\ holder[p].life < MaxLives /\ holder' = [holder EXCEPT ![p] = h]
      /\ apart' = apart \ {p} /\ tokenFile' = tokenFile
  BY DEF Token!Dies
<1>3. holder[p].life \in 1 .. MaxLives  BY <1>1 DEF Holding
<1>4. holder[p].life + 1 \in 1 .. MaxLives /\ holder[p].life + 1 # holder[p].life  BY <1>2, <1>3, TokenBound
<1>5. h \in Holding /\ h.at = "idle" /\ h.cached = Token!Nothing /\ h.life = holder[p].life + 1
  BY <1>4 DEF Holding
<1> HIDE DEF h
<1>6. /\ holder' \in [Processes -> Holding] /\ holder'[p] = h
      /\ \A q \in Processes : q # p => holder'[q] = holder[q]
  BY <1>1, <1>2, <1>5
<1>7. Token!IdentityIsOne'
  <2>1. ASSUME NEW q \in Processes, holder'[q].cached \in Token!Drawn, q \notin apart'
        PROVE  holder'[q].cached = tokenFile'
    <3>1. q # p  BY <1>5, <1>6, <2>1, TokenKinds
    <3> QED  BY <1>1, <1>2, <1>6, <2>1, <3>1
  <2> QED  BY <2>1 DEF Token!IdentityIsOne
<1>8. /\ \A q, r \in Processes : holder'[q].at = "write" /\ holder'[r].at = "write" => q = r
      /\ \A q \in Processes : /\ holder'[q].at = "write" => tokenFile' = Token!Unwritten
                              /\ holder'[q].at # "idle" => holder'[q].cached = Token!Nothing
  BY <1>1, <1>2, <1>5, <1>6
<1>9. TokenKeeps
  <2>1. ASSUME NEW q \in Processes, holder'[q].life = holder[q].life PROVE holder'[q].cached = holder[q].cached
    <3>1. q # p  BY <1>4, <1>5, <1>6, <2>1
    <3> QED  BY <1>6, <3>1
  <2> QED  BY <1>2, <2>1 DEF TokenKeeps
<1> QED  BY <1>1, <1>2, <1>6, <1>7, <1>8, <1>9 DEF TokenInv

LEMMA TokenSteps == TokenInv /\ Token!Next => TokenInv' /\ TokenKeeps
<1> SUFFICES ASSUME TokenInv, NEW p \in Processes,
                    \/ Token!Called(p) \/ Token!ReadsToken(p) \/ Token!Throws(p) \/ Token!Creates(p) \/ Token!Writes(p)
                    \/ Token!WriteFails(p) \/ Token!Lost(p) \/ Token!Dies(p)
             PROVE  TokenInv' /\ TokenKeeps
  BY DEF Token!Next
<1> DEFINE Ats == {"idle", "read", "create", "write", "lost"}
           Tokens == Token!Drawn \cup {Token!Nothing, Token!Given}
           Moved(at, token) == holder' = [holder EXCEPT ![p] = [at |-> at, cached |-> token, life |-> holder[p].life]]
<1>1. /\ holder \in [Processes -> Holding] /\ tokenFile \in Token!Drawn \cup {Token!Absent, Token!Unwritten}
      /\ holder[p].at # "idle" => holder[p].cached = Token!Nothing
      /\ holder[p].at = "write" => tokenFile = Token!Unwritten
  BY DEF TokenInv
<1>2. holder[p] \in Holding /\ holder[p] = [at |-> holder[p].at, cached |-> holder[p].cached, life |-> holder[p].life]
  BY <1>1 DEF Holding
<1>3. Token!Own(p) \in Token!Drawn  BY <1>2 DEF Holding, Token!Own, Token!Drawn
<1>4. ASSUME NEW at, Token!Goes(p, at) PROVE Moved(at, holder[p].cached)
  <2>1. [holder[p] EXCEPT !.at = at] = [at |-> at, cached |-> holder[p].cached, life |-> holder[p].life]
    BY <1>2
  <2>2. holder' = [holder EXCEPT ![p] = [holder[p] EXCEPT !.at = at]]  BY <1>4 DEF Token!Goes
  <2> QED  BY <2>1, <2>2
<1>5. ASSUME NEW token, Token!Caches(p, token) PROVE Moved("idle", token)
  <2>1. [[holder[p] EXCEPT !.at = "idle"] EXCEPT !.cached = token]
          = [at |-> "idle", cached |-> token, life |-> holder[p].life]
    <3>1. PICK a, c, n : holder[p] = [at |-> a, cached |-> c, life |-> n]  BY <1>2
    <3> DEFINE y == [holder[p] EXCEPT !.at = "idle"]
    <3>2. y = [at |-> "idle", cached |-> c, life |-> n]  BY <3>1
    <3>3. holder[p].life = n  BY <3>1
    <3> HIDE DEF y
    <3>4. [y EXCEPT !.cached = token] = [at |-> "idle", cached |-> token, life |-> n]  BY <3>2
    <3> QED  BY <3>3, <3>4 DEF y
  <2>2. holder' = [holder EXCEPT ![p] = [[holder[p] EXCEPT !.at = "idle"] EXCEPT !.cached = token]]
    BY <1>1, <1>5 DEF Token!Caches
  <2> QED  BY <2>1, <2>2
<1> HIDE DEF Moved
<1>6. ASSUME NEW at \in Ats, at # "write", Moved(at, Token!Nothing), holder[p].cached = Token!Nothing,
             tokenFile' = tokenFile, apart' = apart
      PROVE  TokenInv' /\ TokenKeeps
  BY <1>1, <1>6, HolderMoves, TokenKinds DEF Moved
<1>7. ASSUME NEW token \in Tokens, Moved("idle", token), holder[p].cached = Token!Nothing,
             tokenFile' = tokenFile,
             \/ apart' = apart /\ (token \in Token!Drawn => token = tokenFile)
             \/ apart' = apart \cup {p}
      PROVE  TokenInv' /\ TokenKeeps
  BY <1>1, <1>7, HolderMoves DEF Moved
<1>8. CASE Token!Called(p)
  <2>1. holder[p].cached = Token!Nothing /\ tokenFile' = tokenFile /\ apart' = apart  BY <1>8 DEF Token!Called
  <2>2. CASE Token!Caches(p, Token!Given)
    <3>1. Moved("idle", Token!Given)  BY <1>5, <2>2
    <3> QED  BY <1>7, <2>1, <3>1, TokenKinds
  <2>3. CASE Token!Goes(p, "create")
    <3>1. Moved("create", Token!Nothing)  BY <1>4, <2>1, <2>3
    <3> QED  BY <1>6, <2>1, <3>1
  <2>4. CASE Token!Goes(p, "read")
    <3>1. Moved("read", Token!Nothing)  BY <1>4, <2>1, <2>4
    <3> QED  BY <1>6, <2>1, <3>1
  <2> QED  BY <1>8, <2>2, <2>3, <2>4 DEF Token!Called
<1>9. CASE Token!ReadsToken(p)
  <2>1. /\ holder[p].at = "read" /\ tokenFile \in Token!Drawn /\ Token!Caches(p, tokenFile)
        /\ tokenFile' = tokenFile /\ apart' = apart
    BY <1>9 DEF Token!ReadsToken, Token!InFile
  <2>2. Moved("idle", tokenFile)  BY <1>5, <2>1
  <2> QED  BY <1>1, <1>7, <2>1, <2>2
<1>10. CASE Token!Throws(p)
  <2>1. holder[p].cached = Token!Nothing /\ Token!Goes(p, "idle") /\ tokenFile' = tokenFile /\ apart' = apart
    BY <1>1, <1>10 DEF Token!Throws
  <2>2. Moved("idle", Token!Nothing)  BY <1>4, <2>1
  <2> QED  BY <1>6, <2>1, <2>2
<1>11. CASE Token!Creates(p)
  <2>1. holder[p].cached = Token!Nothing /\ apart' = apart  BY <1>1, <1>11 DEF Token!Creates
  <2>2. CASE tokenFile = Token!Absent /\ tokenFile' = Token!Unwritten /\ Token!Goes(p, "write")
    <3>1. Moved("write", Token!Nothing)  BY <1>4, <2>1, <2>2
    <3> QED  BY <2>1, <2>2, <3>1, HolderMoves, TokenKinds DEF Moved
  <2>3. CASE tokenFile' = tokenFile /\ Token!Goes(p, "lost")
    <3>1. Moved("lost", Token!Nothing)  BY <1>4, <2>1, <2>3
    <3> QED  BY <1>6, <2>1, <2>3, <3>1
  <2> QED  BY <1>11, <2>2, <2>3 DEF Token!Creates
<1>12. CASE Token!Writes(p)
  <2> DEFINE own == Token!Own(p)
  <2>1. /\ holder[p].at = "write" /\ holder[p].cached = Token!Nothing /\ apart' = apart
        /\ tokenFile' = own /\ Token!Caches(p, own)
    BY <1>1, <1>12 DEF Token!Writes
  <2>2. own \in Token!Drawn  BY <1>3
  <2> HIDE DEF own
  <2>3. Moved("idle", own)  BY <1>5, <2>1
  <2> QED  BY <2>1, <2>2, <2>3, HolderMoves DEF Moved
<1>13. CASE Token!WriteFails(p)
  <2> DEFINE own == Token!Own(p)
  <2>1. /\ holder[p].cached = Token!Nothing /\ apart' = apart \cup {p}
        /\ tokenFile' = tokenFile /\ Token!Caches(p, own)
    BY <1>1, <1>13 DEF Token!WriteFails
  <2>2. own \in Token!Drawn  BY <1>3
  <2> HIDE DEF own
  <2>3. Moved("idle", own)  BY <1>5, <2>1
  <2> QED  BY <1>7, <2>1, <2>2, <2>3
<1>14. CASE Token!Lost(p)
  <2> DEFINE own == Token!Own(p)
  <2>1. holder[p].cached = Token!Nothing /\ tokenFile' = tokenFile  BY <1>1, <1>14 DEF Token!Lost
  <2>2. CASE tokenFile \in Token!Drawn /\ Token!Caches(p, tokenFile) /\ apart' = apart
    <3>1. Moved("idle", tokenFile)  BY <1>5, <2>2
    <3> QED  BY <1>7, <2>1, <2>2, <3>1
  <2>3. CASE Token!Caches(p, own) /\ apart' = apart \cup {p}
    <3>1. own \in Token!Drawn  BY <1>3
    <3> HIDE DEF own
    <3>2. Moved("idle", own)  BY <1>5, <2>3
    <3> QED  BY <1>7, <2>1, <2>3, <3>1, <3>2
  <2> QED  BY <1>14, <2>2, <2>3 DEF Token!Lost, Token!InFile
<1>15. CASE Token!Dies(p)  BY <1>15, DeathKeeps
<1> QED  BY <1>8, <1>9, <1>10, <1>11, <1>12, <1>13, <1>14, <1>15

LEMMA TokenStays ==
  ASSUME TokenInv, UNCHANGED tokenVars
  PROVE  TokenInv'
BY DEF TokenInv, tokenVars, Token!IdentityIsOne

(* Only where a file is removed before it is replaced is one replaced so. *)
TrustInv ==
  /\ damages \in Nat /\ prep \in [Launchers -> {"idle", "fetch", "replace", "rename", "ready"}]
  /\ \A p \in Launchers : prep[p] = "replace" => windows

TrustKeeps ==
  /\ \A p \in Launchers : prep[p] # "ready" /\ prep'[p] = "ready" => root' = "pinned"
  /\ root = "pinned" /\ damages' = damages =>
       root' = "pinned" \/ (windows /\ root' = "absent")

LEMMA TrustStarts == Trust!Init => TrustInv
BY DEF Trust!Init, TrustInv

LEMMA TrustSteps == TrustInv /\ Trust!Next => TrustInv' /\ TrustKeeps
<1> SUFFICES ASSUME TrustInv, Trust!Next PROVE TrustInv' /\ TrustKeeps  OBVIOUS
<1>1. CASE Trust!Damage
  <2>1. damages' = damages + 1 /\ damages \in Nat  BY <1>1 DEF Trust!Damage, TrustInv
  <2>2. damages' # damages /\ damages' \in Nat  BY <2>1
  <2> QED  BY <1>1, <2>2 DEF Trust!Damage, TrustInv, TrustKeeps
<1>2. ASSUME NEW p \in Launchers, NEW at \in {"idle", "fetch", "replace", "rename", "ready"}, Trust!Goes(p, at),
             windows' = windows, damages' = damages, at = "replace" => windows,
             at = "ready" => root' = "pinned",
             root' \in {root, "pinned"} \/ (windows /\ root' = "absent")
      PROVE  TrustInv' /\ TrustKeeps
  <2>1. prep' \in [Launchers -> {"idle", "fetch", "replace", "rename", "ready"}]
    BY <1>2 DEF TrustInv, Trust!Goes
  <2>2. prep'[p] = at /\ \A q \in Launchers : q # p => prep'[q] = prep[q]
    BY <1>2 DEF TrustInv, Trust!Goes
  <2> QED  BY <1>2, <2>1, <2>2 DEF TrustInv, TrustKeeps
<1>3. ASSUME NEW p \in Launchers, Trust!Prepares(p) PROVE TrustInv' /\ TrustKeeps
  BY <1>2, <1>3 DEF Trust!Prepares
<1>4. ASSUME NEW p \in Launchers, Trust!FetchFails(p) \/ Trust!WriteFails(p) \/ Trust!Leaves(p)
      PROVE TrustInv' /\ TrustKeeps
  BY <1>2, <1>4 DEF Trust!FetchFails, Trust!WriteFails, Trust!Leaves
<1>5. ASSUME NEW p \in Launchers, Trust!Fetched(p) PROVE TrustInv' /\ TrustKeeps
  BY <1>2, <1>5 DEF Trust!Fetched
<1>6. ASSUME NEW p \in Launchers, Trust!Replaces(p) PROVE TrustInv' /\ TrustKeeps
  <2>1. windows  BY <1>6 DEF Trust!Replaces, TrustInv
  <2> QED  BY <1>2, <1>6, <2>1 DEF Trust!Replaces
<1>7. ASSUME NEW p \in Launchers, Trust!RenamesRoot(p) PROVE TrustInv' /\ TrustKeeps
  BY <1>2, <1>7 DEF Trust!RenamesRoot
<1> QED  BY <1>1, <1>3, <1>4, <1>5, <1>6, <1>7 DEF Trust!Next

LEMMA TrustStays ==
  ASSUME TrustInv, UNCHANGED trustVars
  PROVE  TrustInv'
BY DEF TrustInv, trustVars

------------------------------------------------------------------------------
(* The parts together.                                                        *)

SeparateInv == RegistryInv /\ AgentInv /\ PartsInv /\ RegistrationInv /\ StageInv

LEMMA SeparateStarts == Init => SeparateInv
<1> SUFFICES ASSUME Init PROVE SeparateInv  OBVIOUS
<1>1. Registry!Init /\ Agent!Init /\ Parts!Init /\ Registration!Init /\ Stage!Init  BY DEF Init
<1> QED  BY <1>1, RegistryStarts, AgentStarts, PartsStarts, RegistrationStarts, StageStarts DEF SeparateInv

(* The number of cuts is in its bound whichever of the streams is followed.   *)
LEMMA CutsAreBounded ==
  /\ RegistryInv => cuts \in 0 .. MaxCuts
  /\ AgentInv => cuts \in 0 .. MaxCuts
  /\ PartsInv => cuts \in 0 .. MaxCuts
<1>1. RegistryInv => cuts \in 0 .. MaxCuts  BY DEF RegistryInv, Registry!TypeOK
<1>2. AgentInv => cuts \in 0 .. MaxCuts  BY DEF AgentInv, Agent!TypeOK
<1>3. PartsInv => cuts \in 0 .. MaxCuts  BY DEF PartsInv, Parts!TypeOK
<1> QED  BY <1>1, <1>2, <1>3

LEMMA StreamsStay ==
  ASSUME SeparateInv, UNCHANGED streamVars
  PROVE  RegistryInv' /\ AgentInv' /\ PartsInv'
<1>1. RegistryInv /\ AgentInv /\ PartsInv  BY DEF SeparateInv
<1>2. cuts' = cuts /\ UNCHANGED registryVars /\ UNCHANGED agentVars /\ UNCHANGED partVars  BY DEF streamVars
<1>3. cuts' \in 0 .. MaxCuts  BY <1>1, <1>2, CutsAreBounded
<1> QED  BY <1>1, <1>2, <1>3, RegistryStays, AgentStays, PartsStays

LEMMA SeparateSteps == SeparateInv /\ [Next]_vars => SeparateInv'
<1> SUFFICES ASSUME SeparateInv, [Next]_vars PROVE SeparateInv'  OBVIOUS
<1>0. RegistryInv /\ AgentInv /\ PartsInv /\ RegistrationInv /\ StageInv  BY DEF SeparateInv
<1>1. CASE Registry!Next /\ UNCHANGED <<agentVars, partVars, modelVars, stageVars>>
  <2>1. RegistryInv' /\ cuts' \in 0 .. MaxCuts
    <3>1. RegistryInv'  BY <1>0, <1>1, RegistrySteps
    <3> QED  BY <3>1 DEF RegistryInv, Registry!TypeOK
  <2> QED  BY <1>0, <1>1, <2>1, AgentStays, PartsStays, RegistrationStays, StageStays DEF SeparateInv
<1>2. CASE Agent!Next /\ UNCHANGED <<registryVars, partVars, modelVars, stageVars>>
  <2>1. AgentInv' /\ cuts' \in 0 .. MaxCuts
    <3>1. AgentInv'  BY <1>0, <1>2, AgentSteps
    <3> QED  BY <3>1 DEF AgentInv, Agent!TypeOK
  <2> QED  BY <1>0, <1>2, <2>1, RegistryStays, PartsStays, RegistrationStays, StageStays DEF SeparateInv
<1>3. CASE Parts!Next /\ UNCHANGED <<registryVars, agentVars, modelVars, stageVars>>
  <2>1. PartsInv' /\ cuts' \in 0 .. MaxCuts
    <3>1. PartsInv'  BY <1>0, <1>3, PartsSteps
    <3> QED  BY <3>1 DEF PartsInv, Parts!TypeOK
  <2> QED  BY <1>0, <1>3, <2>1, RegistryStays, AgentStays, RegistrationStays, StageStays DEF SeparateInv
<1>4. CASE Registration!Next /\ UNCHANGED <<streamVars, stageVars>>
  <2>1. RegistrationInv'  BY <1>0, <1>4, RegistrationSteps
  <2> QED  BY <1>0, <1>4, <2>1, StreamsStay, StageStays DEF SeparateInv
<1>5. CASE Stage!Next /\ UNCHANGED <<streamVars, modelVars>>
  <2>1. StageInv'  BY <1>0, <1>5, StageSteps
  <2> QED  BY <1>0, <1>5, <2>1, StreamsStay, RegistrationStays DEF SeparateInv
<1>6. CASE UNCHANGED <<streamVars, modelVars, stageVars>>
  BY <1>0, <1>6, StreamsStay, RegistrationStays, StageStays DEF SeparateInv
<1>7. CASE OneOfFirst /\ UNCHANGED laterVars
  <2>1. UNCHANGED stageVars  BY <1>7 DEF laterVars
  <2> QED  BY <1>1, <1>2, <1>3, <1>4, <1>6, <1>7, <2>1 DEF OneOfFirst
<1>8. CASE OneOfLater /\ UNCHANGED firstVars
  <2>1. UNCHANGED <<streamVars, modelVars>>  BY <1>8 DEF firstVars
  <2> QED  BY <1>5, <1>6, <1>8, <2>1 DEF OneOfLater
<1>9. CASE UNCHANGED vars
  <2>1. UNCHANGED <<streamVars, modelVars, stageVars>>  BY <1>9 DEF vars, firstVars, laterVars
  <2> QED  BY <1>6, <2>1
<1> QED  BY <1>7, <1>8, <1>9 DEF Next

(* In every behaviour the three streams, the registration and the stage keep  *)
(* the invariants above, whichever of the parts it follows.                   *)
THEOREM SeparateHolds == Spec => []SeparateInv
<1> QED  BY SeparateStarts, SeparateSteps, PTL DEF Spec

(* The list of the swarms is the last one, pushed or polled for; the requests *)
(* that count as active are those that are, after any number of cuts.         *)
THEOREM FeedsHold == Spec => []FeedsAreCurrent
<1>1. SeparateInv => FeedsAreCurrent
  BY DEF SeparateInv, RegistryInv, AgentInv, FeedsAreCurrent
<1> QED  BY <1>1, SeparateHolds, PTL

(* The answer that is displayed is the text of the engine, whole when the     *)
(* idle of its own uncut stream ended it (renderTextDelta(), finishTurn()),   *)
(* and what the stage shows is of the agent that is selected.                 *)
THEOREM ScreensHold == Spec => []ScreensAreTrue
<1>1. SeparateInv => ScreensAreTrue
  <2>1. PartsInv => Parts!TypeOK /\ Parts!AnswerIsShown  BY PartsMean
  <2>2. StageInv => Stage!StageIsSelected  BY DEF StageInv
  <2> QED  BY <2>1, <2>2 DEF SeparateInv, ScreensAreTrue
<1> QED  BY <1>1, SeparateHolds, PTL

(* The model that Theia has is the swarm that may serve now, or is about to   *)
(* be, however the pushes and the calls interleave.                           *)
THEOREM ModelHolds == Spec => []ModelIsCurrent
<1>1. SeparateInv => ModelIsCurrent  BY RegistrationMeans DEF SeparateInv
<1> QED  BY <1>1, SeparateHolds, PTL

FilesInv == StorageInv /\ TokenInv /\ TrustInv

LEMMA FilesStart == Init => FilesInv
<1> SUFFICES ASSUME Init PROVE FilesInv  OBVIOUS
<1>1. Storage!Init /\ Token!Init /\ Trust!Init  BY DEF Init
<1> QED  BY <1>1, StorageStarts, TokenStarts, TrustStarts DEF FilesInv

LEMMA FilesSteps ==
  FilesInv /\ [Next]_vars =>
    /\ FilesInv'
    /\ [Storage!OneAtATime]_(Storage!vars) /\ [TokenKeeps]_(Token!vars) /\ [TrustKeeps]_(Trust!vars)
<1> SUFFICES ASSUME FilesInv, [Next]_vars
             PROVE  /\ FilesInv'
                    /\ [Storage!OneAtATime]_(Storage!vars) /\ [TokenKeeps]_(Token!vars) /\ [TrustKeeps]_(Trust!vars)
  OBVIOUS
<1>1. StorageInv /\ TokenInv /\ TrustInv  BY DEF FilesInv
<1>2. Storage!vars = storageVars /\ Token!vars = tokenVars /\ Trust!vars = trustVars
  BY DEF Storage!vars, Token!vars, Trust!vars, storageVars, tokenVars, trustVars
<1>3. UNCHANGED storageVars <=> UNCHANGED Storage!vars
  BY DEF Storage!vars, storageVars
<1>4. UNCHANGED tokenVars <=> UNCHANGED Token!vars
  BY DEF Token!vars, tokenVars
<1>5. UNCHANGED trustVars <=> UNCHANGED Trust!vars
  BY DEF Trust!vars, trustVars
<1>6. CASE Storage!Next /\ UNCHANGED <<tokenVars, trustVars>>
  BY <1>1, <1>4, <1>5, <1>6, StorageSteps, TokenStays, TrustStays DEF FilesInv
<1>7. CASE Token!Next /\ UNCHANGED <<storageVars, trustVars>>
  BY <1>1, <1>3, <1>5, <1>7, StorageStays, TokenSteps, TrustStays DEF FilesInv
<1>8. CASE Trust!Next /\ UNCHANGED <<storageVars, tokenVars>>
  BY <1>1, <1>3, <1>4, <1>8, StorageStays, TokenStays, TrustSteps DEF FilesInv
<1>9. CASE UNCHANGED <<storageVars, tokenVars, trustVars>>
  BY <1>1, <1>3, <1>4, <1>5, <1>9, StorageStays, TokenStays, TrustStays DEF FilesInv
<1>10. CASE OneOfFirst /\ UNCHANGED laterVars
  <2>1. UNCHANGED <<tokenVars, trustVars>>  BY <1>10 DEF laterVars
  <2> QED  BY <1>6, <1>9, <1>10, <2>1 DEF OneOfFirst
<1>11. CASE OneOfLater /\ UNCHANGED firstVars
  <2>1. UNCHANGED storageVars  BY <1>11 DEF firstVars
  <2> QED  BY <1>7, <1>8, <1>9, <1>11, <2>1 DEF OneOfLater
<1>12. CASE UNCHANGED vars
  <2>1. UNCHANGED <<storageVars, tokenVars, trustVars>>  BY <1>12 DEF vars, firstVars, laterVars
  <2> QED  BY <1>9, <2>1
<1> QED  BY <1>10, <1>11, <1>12 DEF Next

(* Calls of several windows change the list of the storage one location at a  *)
(* time and what is shown is what is kept; the processes of a user share one  *)
(* identity and keep it; a worker starts on the root that is expected.        *)
THEOREM FilesHold == Spec => FilesAreSound
<1>1. FilesInv => Storage!TypeOK /\ Storage!LocationsAreKept /\ Storage!ShownIsStored
  BY StorageMeans DEF FilesInv
<1>2. FilesInv => Token!IdentityIsOne /\ holder \in [Processes -> Holding]
  BY DEF FilesInv, TokenInv
<1>3. Spec => []FilesInv
  BY FilesStart, FilesSteps, PTL DEF Spec
<1>4. Spec => Storage!StorageIsSound
  BY <1>1, <1>3, FilesSteps, PTL DEF Spec, Storage!StorageIsSound
<1>5. Spec => [](Token!IdentityIsOne /\ holder \in [Processes -> Holding])
  BY <1>2, <1>3, PTL
<1>6. Spec => Token!IdentityIsKept
  BY <1>3, FilesSteps, PTL DEF Spec, Token!IdentityIsKept, TokenKeeps
<1>7. Spec => Trust!RootIsPinned
  BY <1>3, FilesSteps, PTL DEF Spec, Trust!RootIsPinned, TrustKeeps
<1>8. Spec => Token!TokenIsShared
  BY <1>5, <1>6, PTL DEF Token!TokenIsShared, Holding
<1> QED  BY <1>4, <1>7, <1>8, PTL DEF FilesAreSound
==============================================================================
