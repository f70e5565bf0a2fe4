---------------------------- MODULE Interactions ----------------------------
(***************************************************************************)
(* The permissions and the questions of the chat.  OpenCode asks; the      *)
(* events of its stream and the lists that are read again after each       *)
(* connection and each renderer are published by FabiCodeServiceImpl, once *)
(* per request, answered at once for a chat in automatic mode, else        *)
(* offered to the renderer, where the invocation of the chat shows a card. *)
(***************************************************************************)
EXTENDS Naturals, Sequences, FiniteSets

CONSTANTS
  Chats,        \* root sessions
  Tasks,        \* sessions that OpenCode makes for sub-tasks
  ParentOf,     \* the chat of each
  Permissions, Questions,
  SessionOf,    \* the session that asks for each request
  MaxAsked,     \* bound: requests
  MaxPrompts,   \* bound: prompts
  MaxReads,     \* bound: lists under way at once
  MaxMishaps    \* bound: cuts, renderers, engines and answers that are lost

Requests == Permissions \cup Questions

ASSUME InteractionsAssumption ==
  /\ ParentOf \in [Tasks -> Chats] /\ Tasks \cap Chats = {}
  /\ SessionOf \in [Requests -> Chats \cup Tasks]
  /\ {MaxAsked, MaxPrompts, MaxReads, MaxMishaps} \subseteq Nat

VARIABLES
  asked, pending,   \* OpenCode: the requests so far, those that wait for an answer
  stream, open,     \* the events under way, whether the stream is connected
  renderer,         \* "none" so far, "live", or "gone": the client is of a renderer that left
  published,        \* published...Ids
  policy,           \* permissionPolicies
  failed,           \* chats whose last prompt failed before it set its policy
  pubs,             \* publications that await an answer
  lists,            \* the calls of reconcilePendingInteractions()
  offered,          \* what this renderer was told, under the chat it belongs to
  missed,           \* a list or a resolution that it depended on failed
  turn,             \* the invocation of each chat, and the mode it was made with
  sent,             \* the prompts under way to the backend
  cards,            \* the requests shown on a card
  prompts, mishaps

engine == <<asked, pending, stream, open>>
policies == <<policy, failed>>
backend == <<renderer, published, policies, pubs, lists>>
frontend == <<offered, missed, turn, sent, cards>>
bounds == <<prompts, mishaps>>
vars == <<engine, backend, frontend, bounds>>

Reads == 1..MaxReads
NoRead == [at |-> "no", got |-> {}]

Root(s) == IF s \in Tasks THEN ParentOf[s] ELSE s
ChatOf(r) == Root(SessionOf[r])

Mishap == mishaps < MaxMishaps /\ mishaps' = mishaps + 1

------------------------------------------------------------------------------
(* OpenCode (external) *)

Emit(events) == stream' = IF open THEN stream \o events ELSE <<>>

(* A task may go on after the idle of its chat. *)
EngineAsks(r) ==
  /\ r \notin asked /\ Cardinality(asked) < MaxAsked /\ policy[ChatOf(r)] # "none"
  /\ asked' = asked \cup {r} /\ pending' = pending \cup {r}
  /\ Emit(<<[kind |-> "asked", r |-> r]>>)
  /\ UNCHANGED <<open, backend, frontend, bounds>>

(* The request is answered, given up or aborted. *)
Settle(r) ==
  /\ pending' = pending \ {r}
  /\ Emit(<<[kind |-> "replied", r |-> r]>>)
  /\ UNCHANGED <<asked, open>>

Withdraws(r) == r \in pending /\ Settle(r) /\ UNCHANGED <<backend, frontend, bounds>>

------------------------------------------------------------------------------
(* publishPermission(), publishQuestion() *)

(* What is not published yet; a question waits for the first renderer. *)
NewPubs(rs, by) ==
  {[r |-> r, by |-> by, at |-> "resolve"] :
     r \in {x \in rs \ published : x \in Questions => renderer # "none"}}

(* client.onPermissionAsked(), client.onQuestionAsked(): the invocation of    *)
(* the chat takes it, if there is one.                                        *)
Offer(r, root) ==
  IF renderer = "none" THEN UNCHANGED <<published, offered, missed, cards>>
  ELSE /\ published' = published \cup {r}
       /\ offered' = IF renderer = "live" /\ root = ChatOf(r) THEN offered \cup {r} ELSE offered
       /\ missed' = IF root # ChatOf(r) THEN missed \cup {r} ELSE missed
       /\ cards' = IF renderer = "live" /\ root \in Chats /\ turn[root].on
                   THEN cards \cup {r} ELSE cards

(* automaticPermissionReply(): "auto" stands for that mode with an agent that *)
(* is not plan, "ask" for the others.                                         *)
Automatic(r, root) == r \in Permissions /\ root \in Chats /\ policy[root] = "auto"

Decide(p, root) ==
  IF Automatic(p.r, root)
  THEN /\ published' = published \cup {p.r}
       /\ pubs' = (pubs \ {p}) \cup {[p EXCEPT !.at = "reply"]}
       /\ UNCHANGED <<offered, missed, cards>>
  ELSE Offer(p.r, root) /\ pubs' = pubs \ {p}

(* resolveRootSessionId(): the parent of a task is known, or is asked for.    *)
Resolves(p) ==
  /\ p \in pubs /\ p.at = "resolve"
  /\ Decide(p, ChatOf(p.r))
  /\ UNCHANGED <<engine, renderer, policies, lists, turn, sent, bounds>>

ResolveFails(p) ==
  /\ p \in pubs /\ p.at = "resolve" /\ SessionOf[p.r] \in Tasks
  /\ Mishap
  /\ Decide(p, SessionOf[p.r])
  /\ UNCHANGED <<engine, renderer, policies, lists, turn, sent, prompts>>

(* The automatic answer is taken, if the request still waits; the answer to   *)
(* the answer may be lost.                                                    *)
ReplyServed(p) ==
  /\ p \in pubs /\ p.at = "reply"
  /\ IF p.r \in pending THEN Settle(p.r) ELSE UNCHANGED engine
  /\ \/ /\ p.r \in pending
        /\ pubs' = pubs \ {p} /\ UNCHANGED mishaps
     \/ /\ pubs' = (pubs \ {p}) \cup {[p EXCEPT !.at = "refused"]}
        /\ IF p.r \in pending THEN Mishap ELSE UNCHANGED mishaps
  /\ UNCHANGED <<renderer, published, policies, lists, frontend, prompts>>

ReplyLost(p) ==
  /\ p \in pubs /\ p.at = "reply" /\ Mishap
  /\ pubs' = (pubs \ {p}) \cup {[p EXCEPT !.at = "refused"]}
  /\ UNCHANGED <<engine, renderer, published, policies, lists, frontend, prompts>>

(* It was refused or lost: the dialog. *)
FallsBack(p) ==
  /\ p \in pubs /\ p.at = "refused"
  /\ pubs' = pubs \ {p}
  /\ IF renderer = "none"
     THEN published' = published \ {p.r} /\ UNCHANGED <<offered, missed, cards>>
     ELSE Offer(p.r, ChatOf(p.r))
  /\ UNCHANGED <<engine, renderer, policies, lists, turn, sent, bounds>>

------------------------------------------------------------------------------
(* The stream: openEventStream(), handleEvent() *)

Delivers ==
  /\ stream # <<>>
  /\ stream' = Tail(stream)
  /\ LET e == Head(stream)
     IN IF e.kind = "asked"
        THEN pubs' = pubs \cup NewPubs({e.r}, 0) /\ UNCHANGED published
        ELSE published' = published \ {e.r} /\ UNCHANGED pubs
  /\ UNCHANGED <<asked, pending, open, renderer, policies, lists, frontend, bounds>>

Cut ==
  /\ open /\ Mishap
  /\ open' = FALSE /\ stream' = <<>>
  /\ UNCHANGED <<asked, pending, backend, frontend, prompts>>

(* reconcilePendingInteractions() starts. *)
FreeReads == {l \in Reads : lists[l].at = "no" /\ \A p \in pubs : p.by # l}
ReadAgain ==
  /\ FreeReads # {}
  /\ lists' = [lists EXCEPT ![CHOOSE l \in FreeReads : TRUE].at = "asked"]

(* Fault: the interactions are not read again. *)
ConnectForgets ==
  /\ ~open
  /\ open' = TRUE
  /\ UNCHANGED <<asked, pending, stream, backend, frontend, bounds>>

Connect ==
  /\ ~open
  /\ open' = TRUE /\ ReadAgain
  /\ UNCHANGED <<asked, pending, stream, renderer, published, policies, pubs, frontend, bounds>>

ListServed(l) ==
  /\ lists[l].at = "asked"
  /\ lists' = [lists EXCEPT ![l] = [at |-> "served", got |-> pending]]
  /\ missed' = missed \ (pending \ published)
  /\ UNCHANGED <<engine, renderer, published, policies, pubs, offered, turn, sent, cards, bounds>>

(* The permissions first; the questions once each of them is published. *)
ListArrives(l) ==
  /\ lists[l].at = "served"
  /\ lists' = [lists EXCEPT ![l] = [at |-> "questions", got |-> @.got \cap Questions]]
  /\ pubs' = pubs \cup NewPubs(lists[l].got \cap Permissions, l)
  /\ UNCHANGED <<engine, renderer, published, policies, frontend, bounds>>

ListGoesOn(l) ==
  /\ lists[l].at = "questions" /\ \A p \in pubs : p.by # l
  /\ lists' = [lists EXCEPT ![l] = NoRead]
  /\ pubs' = pubs \cup NewPubs(lists[l].got, l)
  /\ UNCHANGED <<engine, renderer, published, policies, frontend, bounds>>

(* Nothing asks again before the next connection or renderer. *)
ListFails(l) ==
  /\ lists[l].at \in {"asked", "served"} /\ Mishap
  /\ lists' = [lists EXCEPT ![l] = NoRead]
  /\ missed' = missed \cup (pending \ offered)
  /\ UNCHANGED <<engine, renderer, published, policies, pubs, offered, turn, sent, cards, prompts>>

------------------------------------------------------------------------------
(* The renderer: setClient(), and invoke() of the agent of the chat *)

RendererLeaves ==
  /\ renderer = "live" /\ Mishap
  /\ renderer' = "gone"
  /\ offered' = {} /\ cards' = {}
  /\ turn' = [c \in Chats |-> [turn[c] EXCEPT !.on = FALSE]]
  /\ UNCHANGED <<engine, published, policies, pubs, lists, missed, sent, prompts>>

(* Fault: what the previous renderer was told is not told again. *)
AttachKeeps ==
  /\ renderer # "live"
  /\ renderer' = "live" /\ ReadAgain
  /\ UNCHANGED <<engine, published, policies, pubs, frontend, bounds>>

Attach ==
  /\ renderer # "live"
  /\ renderer' = "live" /\ published' = {} /\ ReadAgain
  /\ UNCHANGED <<engine, policies, pubs, frontend, bounds>>

(* Bound: not again before the previous prompt reached the backend.           *)
Invoke(c, mode) ==
  /\ renderer = "live" /\ ~turn[c].on /\ c \notin sent /\ prompts < MaxPrompts
  /\ prompts' = prompts + 1
  /\ turn' = [turn EXCEPT ![c] = [on |-> TRUE, mode |-> mode]]
  /\ sent' = sent \cup {c}
  /\ UNCHANGED <<engine, backend, offered, missed, cards, mishaps>>

(* Fault: the policy of a chat is set by its first prompt. *)
PromptOnce(c) ==
  /\ c \in sent /\ sent' = sent \ {c}
  /\ policy' = [policy EXCEPT ![c] = IF @ = "none" THEN turn[c].mode ELSE @]
  /\ failed' = failed \ {c}
  /\ UNCHANGED <<engine, renderer, published, pubs, lists, offered, missed, turn, cards, bounds>>

(* prompt(), once ensureCurrentServer() let it through. *)
Prompt(c) ==
  /\ c \in sent /\ sent' = sent \ {c}
  /\ policy' = [policy EXCEPT ![c] = turn[c].mode]
  /\ failed' = failed \ {c}
  /\ UNCHANGED <<engine, renderer, published, pubs, lists, offered, missed, turn, cards, bounds>>

(* ensureCurrentServer() rejects, and so does prompt(): the policy stays.     *)
PromptFails(c) ==
  /\ c \in sent /\ sent' = sent \ {c} /\ Mishap
  /\ failed' = failed \cup {c}
  /\ UNCHANGED <<engine, renderer, published, policy, pubs, lists, offered, missed, turn, cards, prompts>>

(* ensureCurrentServer(), of a prompt or of createSession(), starts OpenCode  *)
(* anew: the policies are forgotten, the turns that were accepted end, and    *)
(* the publications under way will find no request.                           *)
Relaunches ==
  /\ renderer = "live" \/ sent # {}
  /\ Mishap
  /\ policy' = [c \in Chats |-> "none"] /\ failed' = {}
  /\ turn' = [c \in Chats |-> [turn[c] EXCEPT !.on = @ /\ c \in sent]]
  /\ cards' = {r \in cards : ChatOf(r) \in sent}
  /\ pending' = {} /\ stream' = <<>> /\ open' = FALSE
  /\ published' = {}
  /\ UNCHANGED <<asked, renderer, pubs, lists, offered, missed, sent, prompts>>

(* finish(), after onTurnDone, a prompt that failed or a cancellation. *)
Finish(c) ==
  /\ turn[c].on
  /\ turn' = [turn EXCEPT ![c].on = FALSE]
  /\ cards' = {r \in cards : ChatOf(r) # c}
  /\ UNCHANGED <<engine, backend, offered, missed, sent, bounds>>

(* The user chooses, on a card or in the picker: replyPermission(),           *)
(* replyQuestion() or rejectQuestion(), best effort.                          *)
Choose(r) ==
  /\ r \in cards /\ cards' = cards \ {r}
  /\ \/ /\ IF r \in pending THEN Settle(r) ELSE UNCHANGED engine
        /\ UNCHANGED mishaps
     \/ Mishap /\ UNCHANGED engine
  /\ UNCHANGED <<backend, offered, missed, turn, sent, prompts>>

------------------------------------------------------------------------------
Init ==
  /\ asked = {} /\ pending = {} /\ stream = <<>> /\ open = FALSE
  /\ renderer = "none" /\ published = {}
  /\ policy = [c \in Chats |-> "none"] /\ failed = {}
  /\ pubs = {} /\ lists = [l \in Reads |-> NoRead]
  /\ offered = {} /\ missed = {} /\ cards = {}
  /\ turn = [c \in Chats |-> [on |-> FALSE, mode |-> "ask"]] /\ sent = {}
  /\ prompts = 0 /\ mishaps = 0

(* What the event loops and the requests do by themselves. *)
Answered ==
  \/ \E p \in pubs : Resolves(p) \/ ReplyServed(p) \/ FallsBack(p)
  \/ \E l \in Reads : ListServed(l) \/ ListArrives(l) \/ ListGoesOn(l)

Trouble ==
  \/ \E p \in pubs : ResolveFails(p) \/ ReplyLost(p)
  \/ \E l \in Reads : ListFails(l)
  \/ Cut \/ RendererLeaves \/ Relaunches

Turn(c) ==
  \/ \E mode \in {"ask", "auto"} : Invoke(c, mode)
  \/ Prompt(c) \/ PromptFails(c) \/ Finish(c)

Next ==
  \/ \E r \in Requests : EngineAsks(r) \/ Withdraws(r) \/ Choose(r)
  \/ Answered \/ Trouble
  \/ Delivers \/ Connect \/ Attach
  \/ \E c \in Chats : Turn(c)

Spec == Init /\ [][Next]_vars

------------------------------------------------------------------------------
(* Properties *)

TypeOK ==
  /\ pending \subseteq asked /\ asked \subseteq Requests
  /\ stream \in Seq([kind : {"asked", "replied"}, r : Requests]) /\ open \in BOOLEAN
  /\ renderer \in {"none", "live", "gone"}
  /\ {published, offered, missed, cards} \subseteq SUBSET Requests
  /\ policy \in [Chats -> {"none", "ask", "auto"}] /\ failed \subseteq Chats
  /\ pubs \subseteq [r : Requests, by : Reads \cup {0}, at : {"resolve", "reply", "refused"}]
  /\ lists \in [Reads -> [at : {"no", "asked", "served", "questions"}, got : SUBSET Requests]]
  /\ turn \in [Chats -> [on : BOOLEAN, mode : {"ask", "auto"}]] /\ sent \subseteq Chats
  /\ prompts \in 0..MaxPrompts /\ mishaps \in 0..MaxMishaps
  /\ \A r \in cards : turn[ChatOf(r)].on

(* On the way to the renderer: an event, a publication or a list that is      *)
(* under way, or that the next connection or renderer will ask for.           *)
OnItsWay(r) ==
  \/ ~open \/ renderer # "live"
  \/ \E i \in DOMAIN stream : stream[i] = [kind |-> "asked", r |-> r]
  \/ \E p \in pubs : p.r = r
  \/ \E l \in Reads : lists[l].at = "asked" \/ r \in lists[l].got

(* A request that waits for an answer is never forgotten by a cut, a new      *)
(* renderer or an automatic answer that was lost: this renderer was told of   *)
(* it, or will be, unless the list that would have said it failed.            *)
PendingIsOffered ==
  /\ TypeOK
  /\ \A r \in pending : r \in offered \cup missed \/ OnItsWay(r)

(* An automatic answer is sent for the chat that asks, itself or through a    *)
(* task of it, and only while automatic is what its last prompt chose: a chat *)
(* never lends its mode to another, and a return to asking takes effect when  *)
(* prompt() is past ensureCurrentServer(), or never if that fails.            *)
AllowedIsChosen ==
  [][\A p \in pubs' \ pubs : p.at = "reply" =>
       turn[ChatOf(p.r)].mode = "auto" \/ ChatOf(p.r) \in sent \cup failed]_vars
==============================================================================
