---------------------------- MODULE MaestroStage ----------------------------
(***************************************************************************)
(* The stage of the MaestroWidget: beside the list of the agents, the      *)
(* conversation of the one that is selected, or its terminal, a second one *)
(* attached to the same shell.  Conversations and terminals are awaited,   *)
(* while the user and the snapshots select other agents.                   *)
(***************************************************************************)
EXTENDS Naturals, FiniteSets

CONSTANTS
  Shells,    \* agents in a terminal
  Talks,     \* agents of the chat engine
  None,
  MaxShows,  \* bound: clicks and snapshots
  MaxOpens   \* bound: awaits under way of one kind for one agent, terminals of it on the stage

StageAssumption == Shells \cap Talks = {} /\ None \notin Shells \cup Talks /\ {MaxShows, MaxOpens} \subseteq Nat

VARIABLES
  listed,     \* the agents of the last snapshot
  selected,
  messages,   \* the agent whose conversation is shown
  loads,      \* calls of getConversation() under way
  loading,    \* loadingMessages
  refresh,    \* the timer of the next load
  sending,    \* the reply under way: that of an agent, sent or loaded again
  opening,    \* calls of ensureTerminal() that wait for a terminal
  terminal,   \* the agent of the terminal that the widget holds
  attached,   \* how many terminals of each agent are on the stage, in its page
  crossed,    \* a terminal was opened while another one was awaited
  shows

vars == <<listed, selected, messages, loads, loading, refresh, sending,
          opening, terminal, attached, crossed, shows>>

conversation == <<messages, loads, loading>>
stage == <<opening, terminal, attached, crossed>>
Shows == shows < MaxShows /\ shows' = shows + 1
NoReply == [of |-> None, at |-> "none"]

------------------------------------------------------------------------------
LoadMessages(a) ==
  /\ loads[a] < MaxOpens /\ loads' = [loads EXCEPT ![a] = @ + 1]
  /\ loading' = TRUE

(* Fault: the terminal that was shown stays under the next one. *)
DetachForgets == attached

(* detachTerminal(), whose terminal may be on the stage no more. *)
DetachTerminal ==
  IF terminal = None THEN attached
  ELSE [attached EXCEPT ![terminal] = IF @ > 0 THEN @ - 1 ELSE 0]

EnsureTerminal(a) ==
  IF terminal = a THEN UNCHANGED stage
  ELSE /\ attached' = DetachTerminal /\ terminal' = None
       /\ opening[a] < MaxOpens /\ opening' = [opening EXCEPT ![a] = @ + 1]
       /\ crossed' = (crossed \/ \E o \in Shells : opening[o] > 0)

Select(a) ==
  /\ selected' = a /\ messages' = None
  /\ IF a \in Shells THEN EnsureTerminal(a) /\ UNCHANGED <<loads, loading>>
                     ELSE LoadMessages(a) /\ UNCHANGED stage

Clicks(a) ==
  /\ Shows /\ a \in listed /\ Select(a)
  /\ UNCHANGED <<listed, refresh, sending>>

(* onSnapshot(): another agent is selected for the one that is gone; the     *)
(* conversation of one that generates or waits is read again.                *)
OnSnapshot(agents) ==
  LET kept == IF selected \in agents THEN selected ELSE None IN
    /\ Shows /\ listed' = agents
    /\ \/ /\ kept = None /\ \E first \in agents : Select(first)
          /\ UNCHANGED refresh
       \/ /\ kept # None \/ agents = {}
          /\ selected' = kept /\ messages' = (IF kept = selected THEN messages ELSE None)
          /\ refresh' \in {refresh} \cup (IF kept \in Talks THEN {TRUE} ELSE {})
          /\ UNCHANGED <<loads, loading, stage>>
    /\ UNCHANGED sending

(* detailRefreshTimer *)
Refreshes ==
  /\ refresh /\ refresh' = FALSE
  /\ IF selected \in Talks /\ ~loading THEN LoadMessages(selected) ELSE UNCHANGED <<loads, loading>>
  /\ UNCHANGED <<shows, listed, selected, messages, sending, stage>>

(* Fault: the answer is shown whichever agent is selected by now. *)
LoadedUnasked(a) ==
  /\ loads[a] > 0 /\ loads' = [loads EXCEPT ![a] = @ - 1] /\ loading' = FALSE
  /\ messages' = a
  /\ sending' \in {sending} \cup (IF sending = [of |-> a, at |-> "load"] THEN {NoReply} ELSE {})
  /\ UNCHANGED <<shows, listed, selected, refresh, stage>>

(* getConversation() answers, with no message when it failed; the load that   *)
(* sendReply() awaits is one of those under way.                              *)
Loaded(a) ==
  /\ loads[a] > 0 /\ loads' = [loads EXCEPT ![a] = @ - 1] /\ loading' = FALSE
  /\ messages' = IF selected = a THEN a ELSE messages
  /\ LET its == sending = [of |-> a, at |-> "load"] IN
       IF its /\ loads[a] = 1 THEN sending' = NoReply
       ELSE sending' \in {sending} \cup (IF its THEN {NoReply} ELSE {})
  /\ UNCHANGED <<shows, listed, selected, refresh, stage>>

SendReply ==
  /\ selected \in Talks \cap listed /\ sending = NoReply
  /\ sending' = [of |-> selected, at |-> "send"]
  /\ UNCHANGED <<shows, listed, selected, conversation, refresh, stage>>

Sent ==
  /\ sending.at = "send" /\ LoadMessages(sending.of) /\ sending' = [sending EXCEPT !.at = "load"]
  /\ UNCHANGED <<shows, listed, selected, messages, refresh, stage>>

SendFails ==
  /\ sending.at = "send" /\ sending' = NoReply
  /\ UNCHANGED <<shows, listed, selected, conversation, refresh, stage>>

(* newTerminal() and start() have answered: what the widget holds is replaced *)
(* without being looked at.                                                   *)
Opened(a) ==
  /\ opening[a] > 0 /\ opening' = [opening EXCEPT ![a] = @ - 1] /\ attached[a] < MaxOpens
  /\ terminal' = a /\ attached' = [attached EXCEPT ![a] = @ + 1]
  /\ UNCHANGED <<shows, listed, selected, conversation, refresh, sending, crossed>>

(* The program of a terminal ends: its widgets dispose of themselves, and the *)
(* MaestroWidget, which is not told, keeps the key of the one that it held.   *)
ShellEnds(a) ==
  /\ attached[a] > 0 /\ attached' = [attached EXCEPT ![a] = 0]
  /\ UNCHANGED <<shows, listed, selected, conversation, refresh, sending, opening, terminal, crossed>>

OpenFails(a) ==
  /\ opening[a] > 0 /\ opening' = [opening EXCEPT ![a] = @ - 1]
  /\ UNCHANGED <<shows, listed, selected, conversation, refresh, sending, terminal, attached, crossed>>

------------------------------------------------------------------------------
Init ==
  /\ listed = {} /\ selected = None /\ messages = None
  /\ loads = [a \in Talks |-> 0] /\ loading = FALSE /\ refresh = FALSE /\ sending = NoReply
  /\ opening = [a \in Shells |-> 0] /\ terminal = None
  /\ attached = [a \in Shells |-> 0] /\ crossed = FALSE /\ shows = 0

Next ==
  \/ \E agents \in SUBSET (Shells \cup Talks) : OnSnapshot(agents)
  \/ \E a \in Shells \cup Talks : Clicks(a)
  \/ \E a \in Talks : Loaded(a)
  \/ \E a \in Shells : Opened(a) \/ OpenFails(a) \/ ShellEnds(a)
  \/ Refreshes \/ SendReply \/ Sent \/ SendFails

Spec == Init /\ [][Next]_vars

------------------------------------------------------------------------------
(* The conversation on the stage is that of the agent that is selected, or it *)
(* is being read: no answer that was asked for another one is shown, and none *)
(* that is awaited is forgotten.                                              *)
ConversationIsSelected ==
  /\ messages \in {None, selected}
  /\ selected \in Talks /\ messages = None => loads[selected] > 0

(* As long as no two terminals were awaited at once: the stage has the one    *)
(* that the widget holds, unless its program ended, and no other, and once    *)
(* nothing is awaited it is the one of the agent that is selected, if this    *)
(* one has a terminal.                                                        *)
TerminalIsSelected ==
  ~crossed =>
    /\ \A a \in Shells : attached[a] <= IF terminal = a THEN 1 ELSE 0
    /\ selected \in Shells /\ (\A a \in Shells : opening[a] = 0) => terminal \in {None, selected}

StageIsSelected ==
  /\ selected \in listed \cup {None} /\ loads \in [Talks -> 0..MaxOpens]
  /\ opening \in [Shells -> 0..MaxOpens] /\ {loading, refresh, crossed} \subseteq BOOLEAN
  /\ sending \in [of : Talks \cup {None}, at : {"none", "send", "load"}]
  /\ attached \in [Shells -> 0..MaxOpens] /\ terminal \in Shells \cup {None}
  /\ ConversationIsSelected /\ TerminalIsSelected
=============================================================================
