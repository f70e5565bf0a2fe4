----------------------------- MODULE PartStream -----------------------------
(***************************************************************************)
(* The text of an answer, from the stream of OpenCode to the chat:         *)
(* FabiCodePartAccumulator makes the deltas cumulative, and the invocation *)
(* of the chat adds what it has not rendered yet.  One chat; a text is the *)
(* sequence of the chunks it is made of, 0 being the text of the user.     *)
(***************************************************************************)
EXTENDS Naturals, Sequences, SequencesExt

CONSTANTS MaxTurns, MaxChunks, MaxCuts   \* bounds: prompts, chunks of an answer, cuts

PartAssumption == {MaxTurns, MaxChunks, MaxCuts} \subseteq Nat

Turns == 1..MaxTurns

VARIABLES
  step,      \* OpenCode: where each turn is (external)
  size,      \* the chunks of its answer so far
  wire,      \* the events under way
  linked,    \* the stream is connected
  parts,     \* the accumulator: the text of the answer of each turn
  turn, on,  \* the invocation, and whether it is not settled
  out,       \* the content of its response
  lastText,      \* lastText, for the user's part (index 0) and for each answer
  echo,      \* userMessageId: the turn it belongs to
  spoiled,   \* what happened to this turn: "cut", or ended "early"
  cuts

vars == <<step, size, wire, linked, parts, turn, on, out, lastText, echo, spoiled, cuts>>

Text(n) == [i \in 1..n |-> i]
Fresh == [i \in 0..MaxTurns |-> <<>>]

------------------------------------------------------------------------------
(* OpenCode (external): the message of the user, its part, a photograph of    *)
(* the empty answer, the deltas, the final photograph, the idle.              *)

Says(t, from, to, e) ==
  /\ step[t] = from /\ step' = [step EXCEPT ![t] = to]
  /\ wire' = IF linked THEN Append(wire, e) ELSE <<>>
  /\ UNCHANGED <<linked, parts, turn, on, out, lastText, echo, spoiled, cuts>>

Event(kind, t, n) == [kind |-> kind, t |-> t, n |-> n]

OpenCode(t) ==
  \/ Says(t, "user", "echo", Event("user", t, 0)) /\ UNCHANGED size
  \/ Says(t, "echo", "photo", Event("echo", t, 0)) /\ UNCHANGED size
  \/ Says(t, "photo", "deltas", Event("photo", t, 0)) /\ UNCHANGED size
  \/ /\ size[t] < MaxChunks /\ size' = [size EXCEPT ![t] = @ + 1]
     /\ Says(t, "deltas", "deltas", Event("delta", t, size'[t]))
  \/ Says(t, "deltas", "idle", Event("photo", t, size[t])) /\ UNCHANGED size
  \/ Says(t, "idle", "over", Event("idle", t, 0)) /\ UNCHANGED size

------------------------------------------------------------------------------
(* The chat *)

(* Fault: the whole text is added each time. *)
RenderAll(i, text) ==
  IF ~on THEN UNCHANGED <<out, lastText>>
  ELSE /\ lastText' = [lastText EXCEPT ![i] = text]
       /\ out' = out \o text

(* renderTextDelta(): what follows what was rendered of this part, or all of  *)
(* it when it does not begin that way.                                        *)
Render(i, text) ==
  IF ~on THEN UNCHANGED <<out, lastText>>
  ELSE /\ lastText' = [lastText EXCEPT ![i] = text]
       /\ out' = out \o (IF IsPrefix(lastText[i], text) THEN SubSeq(text, Len(lastText[i]) + 1, Len(text))
                         ELSE text)

(* handleEvent(), remember(), append(); finishTurn() clears the session. *)
Handle ==
  /\ wire # <<>> /\ wire' = Tail(wire)
  /\ LET e == Head(wire)
     IN \/ /\ e.kind = "user" /\ echo' = IF on THEN e.t ELSE echo
           /\ UNCHANGED <<parts, on, out, lastText>>
        \/ /\ e.kind = "echo"
           /\ IF echo = e.t THEN UNCHANGED <<out, lastText>> ELSE Render(0, <<0>>)
           /\ UNCHANGED <<parts, on, echo>>
        \/ /\ e.kind = "photo"
           /\ parts' = [parts EXCEPT ![e.t] = Text(e.n)] /\ Render(e.t, parts'[e.t])
           /\ UNCHANGED <<on, echo>>
        \/ /\ e.kind = "delta"
           /\ parts' = [parts EXCEPT ![e.t] = Append(@, e.n)] /\ Render(e.t, parts'[e.t])
           /\ UNCHANGED <<on, echo>>
        \/ /\ e.kind = "idle"
           /\ IF on /\ e.t = turn THEN on' = FALSE /\ parts' = Fresh ELSE UNCHANGED <<on, parts>>
           /\ UNCHANGED <<out, lastText, echo>>
  /\ UNCHANGED <<step, size, linked, turn, spoiled, cuts>>

(* invoke(), and the prompt.  Bound: the turn before is over in OpenCode too, *)
(* and what it said was received.  (What an aborted turn still says would be  *)
(* rendered in the next answer: nothing tells the two apart.)                 *)
Ask ==
  /\ ~on /\ turn < MaxTurns /\ wire = <<>> /\ \A t \in 1..turn : step[t] = "over"
  /\ turn' = turn + 1 /\ on' = TRUE
  /\ step' = [step EXCEPT ![turn'] = "user"]
  /\ out' = <<>> /\ lastText' = Fresh /\ echo' = 0
  /\ spoiled' = IF linked THEN {} ELSE {"cut"}
  /\ UNCHANGED <<size, wire, linked, parts, cuts>>

(* finishTurn(), not from the idle of the stream: a cancellation, a session    *)
(* error, an engine that is started anew, or a status, which is read over      *)
(* another connection after each acknowledgement and each link, and may be     *)
(* answered while the last deltas are still under way.                         *)
EndsEarly ==
  /\ on /\ on' = FALSE
  /\ parts' = Fresh /\ spoiled' = spoiled \cup {"early"}
  /\ UNCHANGED <<step, size, wire, linked, turn, out, lastText, echo, cuts>>

CutWire ==
  /\ linked /\ cuts < MaxCuts /\ cuts' = cuts + 1
  /\ linked' = FALSE /\ wire' = <<>> /\ spoiled' = spoiled \cup {"cut"}
  /\ UNCHANGED <<step, size, parts, turn, on, out, lastText, echo>>

Relink ==
  /\ ~linked /\ linked' = TRUE
  /\ UNCHANGED <<step, size, wire, parts, turn, on, out, lastText, echo, spoiled, cuts>>

Init ==
  /\ step = [t \in Turns |-> "none"] /\ size = [t \in Turns |-> 0]
  /\ wire = <<>> /\ linked = FALSE /\ parts = Fresh
  /\ turn = 0 /\ on = FALSE /\ out = <<>> /\ lastText = Fresh /\ echo = 0
  /\ spoiled = {} /\ cuts = 0

Next ==
  \/ \E t \in Turns : OpenCode(t)
  \/ Handle \/ Ask \/ EndsEarly \/ CutWire \/ Relink

Spec == Init /\ [][Next]_vars

TypeOK ==
  /\ step \in [Turns -> {"none", "user", "echo", "photo", "deltas", "idle", "over"}]
  /\ size \in [Turns -> 0..MaxChunks] /\ linked \in BOOLEAN
  /\ wire \in Seq([kind : {"user", "echo", "photo", "delta", "idle"}, t : Turns, n : 0..MaxChunks])
  /\ {parts, lastText} \subseteq [0..MaxTurns -> Seq(0..MaxChunks)] /\ out \in Seq(0..MaxChunks)
  /\ turn \in 0..MaxTurns /\ on \in BOOLEAN /\ echo \in 0..MaxTurns
  /\ spoiled \subseteq {"cut", "early"} /\ cuts \in 0..MaxCuts

(* The answer that is displayed is the text of OpenCode, in order, each chunk *)
(* once, without what the user wrote, and all of it when the turn was ended   *)
(* by the idle that its own stream brought.  A turn that was ended otherwise  *)
(* shows a beginning of it.  A cut may repeat a part of it, but what was last *)
(* said of the answer is then all there, at the end.                          *)
AnswerIsShown ==
  turn > 0 =>
    /\ IsSuffix(lastText[turn], out)
    /\ "cut" \notin spoiled =>
         /\ out = lastText[turn] /\ IsPrefix(out, Text(size[turn]))
         /\ ~on /\ "early" \notin spoiled => out = Text(size[turn])
==============================================================================
