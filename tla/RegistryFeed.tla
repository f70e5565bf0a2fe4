---------------------------- MODULE RegistryFeed ----------------------------
(***************************************************************************)
(* RegistryFeed: the list of the swarms, pushed by the stream of the       *)
(* registry and polled while there is no stream.  Lists are numbered in    *)
(* the order in which the registry publishes them.  The feed is started    *)
(* once and never stopped by the program.                                  *)
(***************************************************************************)
EXTENDS Naturals, Sequences

CONSTANTS MaxChanges, MaxCuts   \* bounds: changes of the list, breaks of the stream

RegistryAssumption == MaxChanges \in Nat \ {0} /\ MaxCuts \in Nat

VARIABLES
  now,      \* the list of the registry (external)
  cache,    \* cache and lastJson
  stream,   \* "off", "first" or "asked" again, "open", or "waits" for the backoff
  pushed,   \* the events under way
  poll,     \* the poll: "no", "asked", "answered"
  answer,   \* with this list
  timer,    \* pollTimer is armed
  overtaken,   \* history: the last list emitted is a poll's, older than the one before
  cuts

vars == <<now, cache, stream, pushed, poll, answer, timer, overtaken, cuts>>

(* start(): a first poll and the stream. *)
Start ==
  /\ stream = "off"
  /\ stream' = "first" /\ poll' = "asked"
  /\ UNCHANGED <<now, cache, pushed, answer, timer, overtaken, cuts>>

(* External: the registry pushes every change. *)
Change ==
  /\ now < MaxChanges /\ now' = now + 1
  /\ pushed' = IF stream = "open" THEN Append(pushed, now') ELSE pushed
  /\ UNCHANGED <<cache, stream, poll, answer, timer, overtaken, cuts>>

(* Fault: the stream takes over as soon as it is asked for. *)
ConnectsEarly ==
  /\ stream = "waits" /\ stream' = "asked" /\ timer' = FALSE
  /\ UNCHANGED <<now, cache, pushed, poll, answer, overtaken, cuts>>

(* The backoff is over. *)
Connects ==
  /\ stream = "waits" /\ stream' = "asked"
  /\ UNCHANGED <<now, cache, pushed, poll, answer, timer, overtaken, cuts>>

(* The poll stops once the stream has answered.  Its first event is the list  *)
(* of now: nothing else says what changed since the last poll.                *)
Opened ==
  /\ stream \in {"first", "asked"} /\ stream' = "open" /\ timer' = FALSE
  /\ pushed' = <<now>>
  /\ UNCHANGED <<now, cache, poll, answer, overtaken, cuts>>

(* Refused, unreachable, ended or cut: what was under way is lost. *)
Breaks ==
  /\ stream \in {"first", "asked", "open"} /\ cuts < MaxCuts
  /\ cuts' = cuts + 1
  /\ stream' = "waits" /\ pushed' = <<>> /\ timer' = TRUE
  /\ UNCHANGED <<now, cache, poll, answer, overtaken>>

(* Fault: what is pushed while a poll is under way is left to the poll. *)
ReceivedUnlessPolling ==
  /\ pushed # <<>> /\ pushed' = Tail(pushed)
  /\ cache' = IF poll = "no" THEN Head(pushed) ELSE cache
  /\ overtaken' = FALSE
  /\ UNCHANGED <<now, stream, poll, answer, timer, cuts>>

(* handleData(), emit() *)
Received ==
  /\ pushed # <<>> /\ pushed' = Tail(pushed)
  /\ cache' = Head(pushed) /\ overtaken' = FALSE
  /\ UNCHANGED <<now, stream, poll, answer, timer, cuts>>

(* Every 15 s: the previous poll, which is aborted after 3 s, is over. *)
Ticks ==
  /\ timer /\ poll = "no" /\ poll' = "asked"
  /\ UNCHANGED <<now, cache, stream, pushed, answer, timer, overtaken, cuts>>

PollServed ==
  /\ poll = "asked" /\ poll' = "answered" /\ answer' = now
  /\ UNCHANGED <<now, cache, stream, pushed, timer, overtaken, cuts>>

(* pollOnce(): the answer is emitted, whatever was pushed since. *)
PollEnds ==
  /\ poll = "answered" /\ poll' = "no"
  /\ cache' = answer /\ answer' = 0 /\ overtaken' = (answer < cache)
  /\ UNCHANGED <<now, stream, pushed, timer, cuts>>

PollFails ==
  /\ poll # "no" /\ poll' = "no" /\ answer' = 0
  /\ UNCHANGED <<now, cache, stream, pushed, timer, overtaken, cuts>>

Init ==
  /\ now = 1 /\ cache = 0 /\ stream = "off" /\ pushed = <<>>
  /\ poll = "no" /\ answer = 0 /\ timer = FALSE
  /\ overtaken = FALSE /\ cuts = 0

Next ==
  \/ Start \/ Change \/ Connects \/ Opened \/ Breaks \/ Received
  \/ Ticks \/ PollServed \/ PollEnds \/ PollFails

Spec == Init /\ [][Next]_vars

TypeOK ==
  /\ now \in 1..MaxChanges /\ cache \in 0..now /\ answer \in 0..now
  /\ stream \in {"off", "first", "asked", "open", "waits"} /\ pushed \in Seq(1..now)
  /\ poll \in {"no", "asked", "answered"} /\ {timer, overtaken} \subseteq BOOLEAN /\ cuts \in 0..MaxCuts

(* From the first failure on, the list is pushed or it is polled: the poll is *)
(* given up only when the stream that replaces it is there.                   *)
KeepsLooking == stream \in {"asked", "waits"} => timer

(* Connected, with all that was pushed received, the feed has the last list:  *)
(* a failed poll, a cut or the switch from one to the other loses no change.  *)
(* The exception is a poll that was answered before the last event and        *)
(* arrives after it: it is emitted, and stays until the next change.          *)
CacheIsCurrent == stream = "open" /\ pushed = <<>> => cache = now \/ overtaken
==============================================================================
