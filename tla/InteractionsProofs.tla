------------------------- MODULE InteractionsProofs -------------------------
(***************************************************************************)
(* The requests and the automatic answers of the chats, proved for any     *)
(* chats, tasks and requests: no request that waits is forgotten, and a    *)
(* chat never lends its mode to another.                                   *)
(***************************************************************************)
EXTENDS Interactions, TLAPS

Events == [kind : {"asked", "replied"}, r : Requests]

EngineTypes ==
  /\ pending \subseteq asked /\ asked \subseteq Requests
  /\ stream \in Seq(Events) /\ open \in BOOLEAN

PubTypes ==
  /\ renderer \in {"none", "live", "gone"} /\ published \subseteq Requests
  /\ pubs \subseteq [r : Requests, by : Reads \cup {0}, at : {"resolve", "reply", "refused"}]

ReadTypes ==
  lists \in [Reads -> [at : {"no", "asked", "served", "questions"}, got : SUBSET Requests]]

TurnTypes ==
  /\ turn \in [Chats -> [on : BOOLEAN, mode : {"ask", "auto"}]]
  /\ policy \in [Chats -> {"none", "ask", "auto"}]
  /\ {sent, failed} \subseteq SUBSET Chats

CardTypes ==
  /\ {offered, missed, cards} \subseteq SUBSET Requests
  /\ \A r \in cards : turn[ChatOf(r)].on

BoundTypes == prompts \in 0..MaxPrompts /\ mishaps \in 0..MaxMishaps

(* Nothing speaks of a request that was not asked. *)
KnownWereAsked ==
  /\ published \subseteq asked
  /\ \A p \in pubs : p.r \in asked
  /\ \A i \in DOMAIN stream : stream[i].r \in asked
  /\ \A l \in Reads : lists[l].got \subseteq asked

(* What is not published again was said to this renderer, or is being. *)
PublishedIsSaid ==
  \A r \in pending \cap published :
    r \in offered \cup missed \/ renderer # "live" \/ \E p \in pubs : p.r = r

PendingIsSaid == \A r \in pending : r \in offered \cup missed \/ OnItsWay(r)

(* A chat whose policy is automatic was prompted in that mode last, or its    *)
(* next prompt is under way or failed before it could say otherwise.          *)
PolicyIsChosen ==
  \A c \in Chats : policy[c] = "auto" => turn[c].mode = "auto" \/ c \in sent \cup failed

Types == EngineTypes /\ PubTypes /\ ReadTypes /\ TurnTypes /\ CardTypes /\ BoundTypes

(* The inductive invariant. *)
IInv == Types /\ KnownWereAsked /\ PublishedIsSaid /\ PendingIsSaid /\ PolicyIsChosen

USE DEF policies

------------------------------------------------------------------------------
(* The event stream *)

(* An event is lost while the stream is down, and comes last otherwise. *)
LEMMA Emitting ==
  ASSUME stream \in Seq(Events), NEW e \in Events, Emit(<<e>>)
  PROVE  /\ stream' \in Seq(Events)
         /\ open => /\ \E i \in DOMAIN stream' : stream'[i] = e
                    /\ \A i \in DOMAIN stream : i \in DOMAIN stream' /\ stream'[i] = stream[i]
         /\ \A i \in DOMAIN stream' : stream'[i] = e \/ (i \in DOMAIN stream /\ stream'[i] = stream[i])
  <1>1. CASE open
    <2>1. stream' = stream \o <<e>>
      BY <1>1 DEF Emit
    <2>2. Len(stream') = Len(stream) + 1 /\ stream'[Len(stream) + 1] = e
      BY <2>1
    <2> QED BY <1>1, <2>1, <2>2
  <1>2. CASE ~open
    BY <1>2 DEF Emit
  <1> QED BY <1>1, <1>2

(* Settling a request leaves what is said of the others. *)
LEMMA Settling ==
  ASSUME IInv, NEW r \in Requests, Settle(r)
  PROVE  /\ EngineTypes'
         /\ pending' = pending \ {r} /\ UNCHANGED <<asked, open>>
         /\ \A i \in DOMAIN stream' : stream'[i].r \in asked \cup {r}
         /\ open => \A i \in DOMAIN stream : i \in DOMAIN stream' /\ stream'[i] = stream[i]
  <1> DEFINE e == [kind |-> "replied", r |-> r]
  <1>1. e \in Events /\ Emit(<<e>>) /\ e.r = r
    BY DEF Settle, Events
  <1> HIDE DEF e
  <1> QED BY <1>1, Emitting DEF Settle, IInv, Types, EngineTypes, KnownWereAsked

------------------------------------------------------------------------------
(* The lists *)

(* A list is asked for, in a place that no other uses. *)
LEMMA ReadAgains ==
  ASSUME Types, ReadAgain
  PROVE  /\ ReadTypes'
         /\ \E l \in Reads : lists'[l].at = "asked"
         /\ \A l \in Reads : lists'[l].got = lists[l].got
  <1>1. PICK f \in Reads : lists' = [lists EXCEPT ![f].at = "asked"]
    BY DEF ReadAgain, FreeReads
  <1> QED BY <1>1 DEF Types, ReadTypes

------------------------------------------------------------------------------
(* publishPermission(), publishQuestion() *)

(* Nothing but the publications and what they change of the renderer. *)
PubsChange == UNCHANGED <<engine, renderer, policies, lists, turn, sent, prompts>> /\ mishaps' \in 0..MaxMishaps

LEMMA NewPubsAre ==
  ASSUME NEW rs, NEW by \in Reads \cup {0}, rs \subseteq Requests
  PROVE  /\ NewPubs(rs, by) \subseteq [r : Requests, by : Reads \cup {0}, at : {"resolve"}]
         /\ \A p \in NewPubs(rs, by) : p.r \in rs
         /\ \A r \in rs \ published :
              (r \in Questions => renderer # "none") => \E p \in NewPubs(rs, by) : p.r = r
  <1> DEFINE new == {x \in rs \ published : x \in Questions => renderer # "none"}
             pub(r) == [r |-> r, by |-> by, at |-> "resolve"]
  <1>1. NewPubs(rs, by) = {pub(r) : r \in new}
    BY DEF NewPubs
  <1>2. \A r \in Requests : pub(r).r = r /\ pub(r) \in [r : Requests, by : Reads \cup {0}, at : {"resolve"}]
    OBVIOUS
  <1>3. new \subseteq rs
    OBVIOUS
  <1>4. \A r \in rs \ published : (r \in Questions => renderer # "none") => r \in new
    OBVIOUS
  <1> HIDE DEF new, pub
  <1> QED BY <1>1, <1>2, <1>3, <1>4

(* What becomes of a publication: the renderer was told of the request, or    *)
(* left, or its answer is awaited, and another request is not affected.       *)
LEMMA Publishing ==
  ASSUME IInv, PubsChange, NEW p \in pubs,
         published \ {p.r} \subseteq published', published' \subseteq published \cup {p.r},
         PubTypes', CardTypes',
         \A q \in pubs \ {p} : q \in pubs', \A q \in pubs' : q \in pubs \/ q.r = p.r,
         offered \subseteq offered', missed \subseteq missed',
         p.r \in offered' \cup missed' \/ renderer # "live" \/ \E q \in pubs' : q.r = p.r
  PROVE  IInv'
  <1> USE DEF PubsChange, engine
  <1>1. Types'
    BY DEF IInv, Types, EngineTypes, ReadTypes, TurnTypes, BoundTypes
  <1>2. KnownWereAsked'
    BY DEF IInv, KnownWereAsked
  <1>3. ASSUME NEW r \in pending, r \in offered \cup missed \/ renderer # "live" \/ \E q \in pubs : q.r = r
        PROVE  r \in offered' \cup missed' \/ renderer # "live" \/ \E q \in pubs' : q.r = r
    BY <1>3
  <1>4. PublishedIsSaid'
    BY <1>3 DEF IInv, PublishedIsSaid
  <1>5. PendingIsSaid'
    BY <1>3 DEF IInv, PendingIsSaid, OnItsWay
  <1>6. PolicyIsChosen'
    BY DEF IInv, PolicyIsChosen
  <1> QED BY <1>1, <1>2, <1>4, <1>5, <1>6 DEF IInv

(* automaticPermissionReply() answers, or the renderer is told. *)
LEMMA Deciding ==
  ASSUME IInv, PubsChange, NEW p \in pubs, NEW root \in Chats \cup Tasks, Decide(p, root),
         root = ChatOf(p.r) \/ root \in Tasks
  PROVE  IInv'
  <1>1. p \in [r : Requests, by : Reads \cup {0}, at : {"resolve", "reply", "refused"}]
    BY DEF IInv, Types, PubTypes
  <1>2. ChatOf(p.r) \in Chats
    BY <1>1, InteractionsAssumption DEF ChatOf, Root
  <1>3. CASE Automatic(p.r, root)
    <2> DEFINE q == [p EXCEPT !.at = "reply"]
    <2>1. q \in [r : Requests, by : Reads \cup {0}, at : {"resolve", "reply", "refused"}] /\ q.r = p.r
      BY <1>1
    <2>2. /\ published' = published \cup {p.r} /\ pubs' = (pubs \ {p}) \cup {q}
          /\ UNCHANGED <<offered, missed, cards>>
      BY <1>3 DEF Decide
    <2> HIDE DEF q
    <2>3. PubTypes' /\ CardTypes'
      BY <1>1, <2>1, <2>2 DEF IInv, Types, PubTypes, CardTypes, PubsChange
    <2> QED BY <2>1, <2>2, <2>3, Publishing
  <1>4. CASE ~Automatic(p.r, root)
    <2>1. Offer(p.r, root) /\ pubs' = pubs \ {p}
      BY <1>4 DEF Decide
    <2>2. CASE renderer = "none"
      <3>1. UNCHANGED <<published, offered, missed, cards>>
        BY <2>1, <2>2 DEF Offer
      <3>2. PubTypes' /\ CardTypes'
        BY <2>1, <3>1 DEF IInv, Types, PubTypes, CardTypes, PubsChange
      <3> QED BY <2>1, <2>2, <3>1, <3>2, Publishing
    <2>3. CASE renderer # "none"
      <3>1. /\ published' = published \cup {p.r}
            /\ offered' = IF renderer = "live" /\ root = ChatOf(p.r) THEN offered \cup {p.r} ELSE offered
            /\ missed' = IF root # ChatOf(p.r) THEN missed \cup {p.r} ELSE missed
            /\ cards' = IF renderer = "live" /\ root \in Chats /\ turn[root].on
                        THEN cards \cup {p.r} ELSE cards
        BY <2>1, <2>3 DEF Offer
      <3>2. PubTypes' /\ {offered', missed', cards'} \subseteq SUBSET Requests
        BY <1>1, <2>1, <3>1 DEF IInv, Types, PubTypes, CardTypes, PubsChange
      <3>3. \A r \in cards' : turn'[ChatOf(r)].on
        BY <1>2, <3>1, InteractionsAssumption DEF IInv, Types, CardTypes, PubsChange
      <3>4. CardTypes'
        BY <3>2, <3>3 DEF CardTypes
      <3> QED BY <2>1, <3>1, <3>2, <3>4, Publishing
    <2> QED BY <2>2, <2>3
  <1> QED BY <1>3, <1>4

LEMMA ResolvesIInv ==
  ASSUME IInv, NEW p \in pubs, Resolves(p) \/ ResolveFails(p) PROVE IInv'
  <1>1. PubsChange
    BY InteractionsAssumption DEF Resolves, ResolveFails, PubsChange, Mishap, bounds, IInv, Types, BoundTypes
  <1>2. ChatOf(p.r) \in Chats
    BY InteractionsAssumption DEF IInv, Types, PubTypes, ChatOf, Root
  <1> QED BY <1>1, <1>2, Deciding DEF Resolves, ResolveFails

(* A publication that comes back from OpenCode was refused or lost. *)
LEMMA Refusing ==
  ASSUME IInv, NEW p \in pubs
  PROVE  /\ [p EXCEPT !.at = "refused"] \in [r : Requests, by : Reads \cup {0}, at : {"resolve", "reply", "refused"}]
         /\ [p EXCEPT !.at = "refused"].r = p.r
         /\ p.r \in Requests
  BY DEF IInv, Types, PubTypes

LEMMA ReplyServedIInv ==
  ASSUME IInv, NEW p \in pubs, ReplyServed(p) PROVE IInv'
  <1> DEFINE q == [p EXCEPT !.at = "refused"]
  <1>1. q \in [r : Requests, by : Reads \cup {0}, at : {"resolve", "reply", "refused"}] /\ q.r = p.r /\ p.r \in Requests
    BY Refusing
  <1>2. /\ pubs' = pubs \ {p} \/ pubs' = (pubs \ {p}) \cup {q}
        /\ p.r \notin pending => pubs' = (pubs \ {p}) \cup {q}
        /\ UNCHANGED <<renderer, published, policies, lists, frontend, prompts>>
        /\ mishaps' = mishaps \/ (mishaps < MaxMishaps /\ mishaps' = mishaps + 1)
        /\ IF p.r \in pending THEN Settle(p.r) ELSE UNCHANGED engine
    BY DEF ReplyServed, Mishap
  <1> HIDE DEF q
  <1>3. /\ EngineTypes' /\ pending' = pending \ {p.r} /\ UNCHANGED <<asked, open>>
        /\ \A i \in DOMAIN stream' : stream'[i].r \in asked
        /\ open => \A i \in DOMAIN stream : i \in DOMAIN stream' /\ stream'[i] = stream[i]
    <2>1. CASE p.r \in pending
      <3>1. p.r \in asked
        BY <2>1 DEF IInv, Types, EngineTypes
      <3> QED BY <1>1, <1>2, <2>1, <3>1, Settling
    <2>2. CASE p.r \notin pending
      BY <1>2, <2>2 DEF engine, IInv, Types, EngineTypes, KnownWereAsked
    <2> QED BY <2>1, <2>2
  <1>4. mishaps' \in 0..MaxMishaps
    BY <1>2, InteractionsAssumption DEF IInv, Types, BoundTypes
  <1>5. Types'
    BY <1>1, <1>2, <1>3, <1>4 DEF frontend, IInv, Types, PubTypes, ReadTypes, TurnTypes, CardTypes, BoundTypes
  <1>6. KnownWereAsked'
    <2>1. \A z \in pubs' : z.r \in asked
      BY <1>1, <1>2 DEF IInv, KnownWereAsked
    <2> QED BY <1>2, <1>3, <2>1 DEF IInv, KnownWereAsked
  <1>7. \A r \in pending' : (\E z \in pubs : z.r = r) => \E z \in pubs' : z.r = r
    BY <1>2, <1>3
  <1>8. PublishedIsSaid'
    BY <1>2, <1>3, <1>7 DEF frontend, IInv, PublishedIsSaid
  <1>9. ASSUME NEW r \in pending', open, \E i \in DOMAIN stream : stream[i] = [kind |-> "asked", r |-> r]
         PROVE  \E i \in DOMAIN stream' : stream'[i] = [kind |-> "asked", r |-> r]
    BY <1>3, <1>9
  <1>10. PendingIsSaid'
    <2> SUFFICES ASSUME NEW r \in pending', r \notin offered' \cup missed', open', renderer' = "live"
                 PROVE  OnItsWay(r)'
      BY DEF PendingIsSaid, OnItsWay
    <2>1. OnItsWay(r) /\ open /\ renderer = "live"
      BY <1>2, <1>3 DEF frontend, IInv, PendingIsSaid
    <2> QED BY <1>2, <1>7, <1>9, <2>1 DEF OnItsWay
  <1>11. PolicyIsChosen'
    BY <1>2 DEF frontend, IInv, PolicyIsChosen
  <1> QED BY <1>5, <1>6, <1>8, <1>10, <1>11 DEF IInv

LEMMA ReplyLostIInv ==
  ASSUME IInv, NEW p \in pubs, ReplyLost(p) PROVE IInv'
  <1> DEFINE q == [p EXCEPT !.at = "refused"]
  <1>1. q \in [r : Requests, by : Reads \cup {0}, at : {"resolve", "reply", "refused"}] /\ q.r = p.r /\ p.r \in Requests
    BY Refusing
  <1>2. /\ pubs' = (pubs \ {p}) \cup {q}
        /\ UNCHANGED <<engine, renderer, published, policies, lists, frontend, prompts>>
        /\ mishaps < MaxMishaps /\ mishaps' = mishaps + 1
    BY DEF ReplyLost, Mishap
  <1> HIDE DEF q
  <1>3. PubsChange
    BY <1>2, InteractionsAssumption DEF PubsChange, frontend, IInv, Types, BoundTypes
  <1>4. PubTypes' /\ CardTypes'
    BY <1>1, <1>2 DEF frontend, IInv, Types, PubTypes, CardTypes
  <1> QED BY <1>1, <1>2, <1>3, <1>4, Publishing DEF frontend

LEMMA FallsBackIInv ==
  ASSUME IInv, NEW p \in pubs, FallsBack(p) PROVE IInv'
  <1>1. PubsChange /\ pubs' = pubs \ {p}
    BY InteractionsAssumption DEF FallsBack, PubsChange, bounds, IInv, Types, BoundTypes
  <1>2. p.r \in Requests /\ ChatOf(p.r) \in Chats
    BY InteractionsAssumption DEF IInv, Types, PubTypes, ChatOf, Root
  <1>3. CASE renderer = "none"
    <2>1. published' = published \ {p.r} /\ UNCHANGED <<offered, missed, cards>>
      BY <1>3 DEF FallsBack
    <2>2. PubTypes' /\ CardTypes'
      BY <1>1, <2>1 DEF IInv, Types, PubTypes, CardTypes, PubsChange
    <2> QED BY <1>1, <1>3, <2>1, <2>2, Publishing
  <1>4. CASE renderer # "none"
    <2>1. /\ published' = published \cup {p.r}
          /\ offered' = (IF renderer = "live" THEN offered \cup {p.r} ELSE offered)
          /\ UNCHANGED missed
          /\ cards' = IF renderer = "live" /\ turn[ChatOf(p.r)].on THEN cards \cup {p.r} ELSE cards
      BY <1>2, <1>4 DEF FallsBack, Offer
    <2>2. PubTypes' /\ CardTypes'
      BY <1>1, <1>2, <2>1 DEF IInv, Types, PubTypes, CardTypes, PubsChange
    <2> QED BY <1>1, <2>1, <2>2, Publishing
  <1> QED BY <1>3, <1>4

------------------------------------------------------------------------------
(* OpenCode and its stream *)

LEMMA EngineAsksIInv ==
  ASSUME IInv, NEW r \in Requests, EngineAsks(r) PROVE IInv'
  <1> DEFINE e == [kind |-> "asked", r |-> r]
  <1>1. e \in Events /\ Emit(<<e>>) /\ e.r = r
    BY DEF EngineAsks, Events
  <1>2. /\ asked' = asked \cup {r} /\ pending' = pending \cup {r} /\ r \notin asked
        /\ UNCHANGED <<open, backend, frontend, bounds>>
    BY DEF EngineAsks
  <1>3. /\ stream' \in Seq(Events)
        /\ open => /\ \E i \in DOMAIN stream' : stream'[i] = e
                   /\ \A i \in DOMAIN stream : i \in DOMAIN stream' /\ stream'[i] = stream[i]
        /\ \A i \in DOMAIN stream' : stream'[i] = e \/ (i \in DOMAIN stream /\ stream'[i] = stream[i])
    BY <1>1, Emitting DEF IInv, Types, EngineTypes
  <1>4. Types'
    BY <1>2, <1>3 DEF backend, frontend, bounds, IInv, Types, EngineTypes, PubTypes, ReadTypes, TurnTypes, CardTypes, BoundTypes
  <1>5. KnownWereAsked'
    <2>1. \A i \in DOMAIN stream' : stream'[i].r \in asked'
      BY <1>1, <1>2, <1>3 DEF IInv, KnownWereAsked
    <2> QED BY <1>2, <2>1 DEF backend, IInv, KnownWereAsked
  <1>6. PublishedIsSaid'
    BY <1>2 DEF backend, frontend, IInv, PublishedIsSaid, KnownWereAsked
  <1>7. PendingIsSaid'
    <2>1. OnItsWay(r)'
      BY <1>2, <1>3 DEF OnItsWay
    <2>2. ASSUME NEW x \in pending, OnItsWay(x) PROVE OnItsWay(x)'
      BY <1>2, <1>3, <2>2 DEF backend, OnItsWay
    <2> QED BY <1>2, <2>1, <2>2 DEF frontend, IInv, PendingIsSaid
  <1>8. PolicyIsChosen'
    BY <1>2 DEF backend, frontend, IInv, PolicyIsChosen
  <1> QED BY <1>4, <1>5, <1>6, <1>7, <1>8 DEF IInv

(* A request that is settled, by the user or by OpenCode, is owed nothing. *)
LEMMA SettledIInv ==
  ASSUME IInv, NEW r \in pending, Settle(r), cards' \subseteq cards,
         UNCHANGED <<backend, offered, missed, turn, sent, bounds>>
  PROVE  IInv'
  <1>1. /\ EngineTypes' /\ pending' = pending \ {r} /\ UNCHANGED <<asked, open>>
        /\ \A i \in DOMAIN stream' : stream'[i].r \in asked
        /\ open => \A i \in DOMAIN stream : i \in DOMAIN stream' /\ stream'[i] = stream[i]
    BY Settling DEF IInv, Types, EngineTypes
  <1>2. Types'
    BY <1>1 DEF backend, bounds, IInv, Types, PubTypes, ReadTypes, TurnTypes, CardTypes, BoundTypes
  <1>3. KnownWereAsked'
    BY <1>1 DEF backend, IInv, KnownWereAsked
  <1>4. PublishedIsSaid'
    BY <1>1 DEF backend, IInv, PublishedIsSaid
  <1>5. PendingIsSaid'
    <2>1. ASSUME NEW x \in pending, OnItsWay(x) PROVE OnItsWay(x)'
      BY <1>1, <2>1 DEF backend, OnItsWay
    <2> QED BY <1>1, <2>1 DEF IInv, PendingIsSaid
  <1>6. PolicyIsChosen'
    BY DEF backend, IInv, PolicyIsChosen
  <1> QED BY <1>2, <1>3, <1>4, <1>5, <1>6 DEF IInv

LEMMA DeliversIInv ==
  ASSUME IInv, Delivers PROVE IInv'
  <1> DEFINE e == Head(stream)
  <1>1. /\ stream # <<>> /\ stream' = Tail(stream)
        /\ UNCHANGED <<asked, pending, open, renderer, policies, lists, frontend, bounds>>
    BY DEF Delivers
  <1>2. /\ stream' \in Seq(Events) /\ e \in Events /\ e = stream[1] /\ 1 \in DOMAIN stream
        /\ \A i \in DOMAIN stream' : i + 1 \in DOMAIN stream /\ stream'[i] = stream[i + 1]
        /\ \A i \in DOMAIN stream : i = 1 \/ (i - 1 \in DOMAIN stream' /\ stream'[i - 1] = stream[i])
    BY <1>1 DEF IInv, Types, EngineTypes
  <1>3. e.r \in Requests /\ e.r \in asked
    BY <1>2 DEF Events, IInv, KnownWereAsked
  <1>4. IF e.kind = "asked" THEN pubs' = pubs \cup NewPubs({e.r}, 0) /\ UNCHANGED published
        ELSE published' = published \ {e.r} /\ UNCHANGED pubs
    BY DEF Delivers
  <1> HIDE DEF e
  <1>5. /\ NewPubs({e.r}, 0) \subseteq [r : Requests, by : Reads \cup {0}, at : {"resolve"}]
        /\ \A p \in NewPubs({e.r}, 0) : p.r = e.r
        /\ e.r \notin published => ((e.r \in Questions => renderer # "none") => \E p \in NewPubs({e.r}, 0) : p.r = e.r)
    BY <1>3, NewPubsAre
  <1>6. Types'
    <2>1. \A p \in NewPubs({e.r}, 0) :
            p \in [r : Requests, by : Reads \cup {0}, at : {"resolve", "reply", "refused"}]
      BY <1>5
    <2>2. PubTypes'
      BY <1>1, <1>4, <2>1 DEF IInv, Types, PubTypes
    <2> QED BY <1>1, <1>2, <2>2 DEF frontend, bounds, IInv, Types, EngineTypes, ReadTypes, TurnTypes, CardTypes, BoundTypes
  <1>7. KnownWereAsked'
    <2>1. \A p \in pubs' : p.r \in asked
      BY <1>3, <1>4, <1>5 DEF IInv, KnownWereAsked
    <2>2. \A i \in DOMAIN stream' : stream'[i].r \in asked
      BY <1>2 DEF IInv, KnownWereAsked
    <2> QED BY <1>1, <1>4, <2>1, <2>2 DEF IInv, KnownWereAsked
  <1>8. pubs \subseteq pubs' /\ published' \subseteq published
    BY <1>4
  <1>9. PublishedIsSaid'
    BY <1>1, <1>8 DEF frontend, IInv, PublishedIsSaid
  <1>10. PendingIsSaid'
    <2> SUFFICES ASSUME NEW r \in pending, r \notin offered \cup missed, open, renderer = "live",
                        ~\E p \in pubs' : p.r = r, ~\E l \in Reads : lists[l].at = "asked" \/ r \in lists[l].got
                 PROVE  \E i \in DOMAIN stream' : stream'[i] = [kind |-> "asked", r |-> r]
      BY <1>1 DEF frontend, PendingIsSaid, OnItsWay
    <2>1. r \notin published
      BY <1>8 DEF IInv, PublishedIsSaid
    <2>2. PICK i \in DOMAIN stream : stream[i] = [kind |-> "asked", r |-> r]
      BY <1>8 DEF IInv, PendingIsSaid, OnItsWay
    <2>3. CASE i = 1
      <3>1. e.kind = "asked" /\ e.r = r
        BY <1>2, <2>2, <2>3
      <3> QED BY <1>4, <1>5, <2>1, <3>1
    <2> QED BY <1>2, <2>2, <2>3
  <1>11. PolicyIsChosen'
    BY <1>1 DEF frontend, IInv, PolicyIsChosen
  <1> QED BY <1>6, <1>7, <1>9, <1>10, <1>11 DEF IInv

(* An action that leaves what is said of the requests alone. *)
LEMMA Unsaid ==
  ASSUME IInv, UNCHANGED <<engine, renderer, published, pubs, lists, offered, missed>>,
         TurnTypes', CardTypes', BoundTypes', PolicyIsChosen'
  PROVE  IInv'
  <1>1. Types'
    BY DEF engine, IInv, Types, EngineTypes, PubTypes, ReadTypes
  <1>2. KnownWereAsked' /\ PublishedIsSaid'
    BY DEF engine, IInv, KnownWereAsked, PublishedIsSaid
  <1>3. PendingIsSaid'
    BY DEF engine, IInv, PendingIsSaid, OnItsWay
  <1> QED BY <1>1, <1>2, <1>3 DEF IInv

LEMMA WithdrawsIInv ==
  ASSUME IInv, NEW r \in Requests, Withdraws(r) \/ Choose(r) PROVE IInv'
  <1>1. CASE Withdraws(r)
    BY <1>1, SettledIInv DEF Withdraws, frontend
  <1>2. CASE Choose(r) /\ r \in pending /\ UNCHANGED mishaps /\ Settle(r)
    BY <1>2, SettledIInv DEF Choose, bounds
  <1>3. CASE Choose(r) /\ UNCHANGED engine
    <2>1. /\ cards' = cards \ {r} /\ UNCHANGED <<backend, offered, missed, turn, sent, prompts>>
          /\ mishaps' = mishaps \/ (mishaps < MaxMishaps /\ mishaps' = mishaps + 1)
      BY <1>3 DEF Choose, Mishap
    <2>2. TurnTypes' /\ CardTypes' /\ PolicyIsChosen'
      BY <2>1 DEF backend, IInv, Types, TurnTypes, CardTypes, PolicyIsChosen
    <2>3. BoundTypes'
      BY <2>1, InteractionsAssumption DEF IInv, Types, BoundTypes
    <2> QED BY <1>3, <2>1, <2>2, <2>3, Unsaid DEF backend
  <1> QED BY <1>1, <1>2, <1>3 DEF Choose

(* While the stream is down, the next connection will read all of them. *)
LEMMA CutIInv ==
  ASSUME IInv, Cut PROVE IInv'
  <1>1. /\ open /\ open' = FALSE /\ stream' = <<>> /\ mishaps < MaxMishaps /\ mishaps' = mishaps + 1
        /\ UNCHANGED <<asked, pending, backend, frontend, prompts>>
    BY DEF Cut, Mishap
  <1>2. Types'
    <2>1. <<>> \in Seq(Events)
      OBVIOUS
    <2>2. EngineTypes'
      BY <1>1, <2>1 DEF IInv, Types, EngineTypes
    <2>3. BoundTypes'
      BY <1>1, InteractionsAssumption DEF IInv, Types, BoundTypes
    <2> QED BY <1>1, <2>2, <2>3 DEF backend, frontend, IInv, Types, PubTypes, ReadTypes, TurnTypes, CardTypes
  <1>3. KnownWereAsked' /\ PublishedIsSaid'
    BY <1>1 DEF backend, frontend, IInv, KnownWereAsked, PublishedIsSaid
  <1>4. PendingIsSaid'
    BY <1>1 DEF PendingIsSaid, OnItsWay
  <1>5. PolicyIsChosen'
    BY <1>1 DEF backend, frontend, IInv, PolicyIsChosen
  <1> QED BY <1>2, <1>3, <1>4, <1>5 DEF IInv

(* A connection and a new renderer ask for a list, that will say them all. *)
LEMMA AskingAgain ==
  ASSUME IInv, Connect \/ Attach PROVE IInv'
  <1>1. /\ ReadAgain /\ UNCHANGED <<asked, pending, stream, policies, pubs, frontend, bounds>>
        /\ published' = published \/ published' = {}
        /\ \/ ~open /\ open' = TRUE /\ UNCHANGED <<renderer, published>>
           \/ renderer # "live" /\ renderer' = "live" /\ published' = {} /\ UNCHANGED open
    BY DEF Connect, Attach, engine
  <1>2. /\ ReadTypes'
        /\ \E l \in Reads : lists'[l].at = "asked"
        /\ \A l \in Reads : lists'[l].got = lists[l].got
    BY <1>1, ReadAgains DEF IInv
  <1>3. Types'
    BY <1>1, <1>2 DEF frontend, bounds, IInv, Types, EngineTypes, PubTypes, TurnTypes, CardTypes, BoundTypes
  <1>4. KnownWereAsked' /\ PublishedIsSaid'
    BY <1>1, <1>2 DEF frontend, IInv, KnownWereAsked, PublishedIsSaid
  <1>5. PendingIsSaid'
    BY <1>2 DEF PendingIsSaid, OnItsWay
  <1>6. PolicyIsChosen'
    BY <1>1 DEF frontend, IInv, PolicyIsChosen
  <1> QED BY <1>2, <1>3, <1>4, <1>5, <1>6 DEF IInv

------------------------------------------------------------------------------
(* reconcilePendingInteractions() *)

LEMMA ListServedIInv ==
  ASSUME IInv, NEW l \in Reads, ListServed(l) PROVE IInv'
  <1>1. /\ lists[l].at = "asked" /\ lists' = [lists EXCEPT ![l] = [at |-> "served", got |-> pending]]
        /\ missed' = missed \ (pending \ published)
        /\ UNCHANGED <<engine, renderer, published, policies, pubs, offered, turn, sent, cards, bounds>>
    BY DEF ListServed
  <1>2. \A k \in Reads : lists'[k] = IF k = l THEN [at |-> "served", got |-> pending] ELSE lists[k]
    BY <1>1 DEF IInv, Types, ReadTypes
  <1>3. Types'
    BY <1>1 DEF engine, bounds, IInv, Types, EngineTypes, PubTypes, ReadTypes, TurnTypes, CardTypes, BoundTypes
  <1>4. KnownWereAsked'
    BY <1>1, <1>2 DEF engine, IInv, KnownWereAsked, Types, EngineTypes
  <1>5. PublishedIsSaid'
    BY <1>1 DEF engine, IInv, PublishedIsSaid
  <1>6. PendingIsSaid'
    BY <1>1, <1>2 DEF engine, PendingIsSaid, OnItsWay
  <1>7. PolicyIsChosen'
    BY <1>1 DEF IInv, PolicyIsChosen
  <1> QED BY <1>3, <1>4, <1>5, <1>6, <1>7 DEF IInv

(* What a list has is published, or kept for later. *)
LEMMA ListMoves ==
  ASSUME IInv, NEW l \in Reads, NEW now, NEW later, lists[l].at # "asked",
         lists[l].got = now \cup later,
         NEW at \in {"no", "questions"}, lists' = [lists EXCEPT ![l] = [at |-> at, got |-> later]],
         pubs' = pubs \cup NewPubs(now, l),
         UNCHANGED <<engine, renderer, published, policies, frontend, bounds>>
  PROVE  IInv'
  <1>1. now \subseteq Requests /\ later \subseteq Requests /\ now \subseteq asked /\ later \subseteq asked
    BY DEF IInv, Types, ReadTypes, KnownWereAsked
  <1>2. \A k \in Reads : lists'[k] = IF k = l THEN [at |-> at, got |-> later] ELSE lists[k]
    BY DEF IInv, Types, ReadTypes
  <1>3. /\ \A p \in NewPubs(now, l) :
             /\ p \in [r : Requests, by : Reads \cup {0}, at : {"resolve", "reply", "refused"}]
             /\ p.r \in now
        /\ \A r \in now \ published :
             (r \in Questions => renderer # "none") => \E p \in NewPubs(now, l) : p.r = r
    BY <1>1, NewPubsAre
  <1>4. Types'
    <2>1. PubTypes'
      BY <1>3 DEF IInv, Types, PubTypes
    <2>2. ReadTypes'
      BY <1>1 DEF IInv, Types, ReadTypes
    <2> QED BY <2>1, <2>2 DEF engine, frontend, bounds, IInv, Types, EngineTypes, TurnTypes, CardTypes, BoundTypes
  <1>5. KnownWereAsked'
    <2>1. \A p \in pubs' : p.r \in asked
      BY <1>1, <1>3 DEF IInv, KnownWereAsked
    <2> QED BY <1>1, <1>2, <2>1 DEF engine, IInv, KnownWereAsked
  <1>6. PublishedIsSaid'
    BY DEF engine, frontend, IInv, PublishedIsSaid
  <1>7. PendingIsSaid'
    <2> SUFFICES ASSUME NEW r \in pending, r \notin offered \cup missed, open, renderer = "live",
                        ~\E p \in pubs' : p.r = r, ~OnItsWay(r)'
                 PROVE  FALSE
      BY DEF engine, frontend, PendingIsSaid, OnItsWay
    <2>1. r \notin published
      BY DEF IInv, PublishedIsSaid
    <2>2. r \notin now
      BY <1>3, <2>1
    <2>3. OnItsWay(r)
      BY DEF IInv, PendingIsSaid
    <2>4. r \notin later
      BY <1>2 DEF OnItsWay
    <2> QED BY <1>2, <2>2, <2>3, <2>4 DEF engine, OnItsWay
  <1>8. PolicyIsChosen'
    BY DEF frontend, IInv, PolicyIsChosen
  <1> QED BY <1>4, <1>5, <1>6, <1>7, <1>8 DEF IInv

(* The permissions, then the questions. *)
LEMMA ListArrivesIInv ==
  ASSUME IInv, NEW l \in Reads, ListArrives(l) \/ ListGoesOn(l) PROVE IInv'
  <1>1. CASE ListArrives(l)
    <2>1. lists[l].got \subseteq Permissions \cup Questions
      BY DEF IInv, Types, ReadTypes, Requests
    <2>2. lists[l].got = (lists[l].got \cap Permissions) \cup (lists[l].got \cap Questions)
      BY <2>1
    <2> QED BY <1>1, <2>2, ListMoves DEF ListArrives
  <1>2. CASE ListGoesOn(l)
    <2>1. lists[l].got = lists[l].got \cup {}
      OBVIOUS
    <2> QED BY <1>2, <2>1, ListMoves DEF ListGoesOn, NoRead
  <1> QED BY <1>1, <1>2

LEMMA ListFailsIInv ==
  ASSUME IInv, NEW l \in Reads, ListFails(l) PROVE IInv'
  <1>1. /\ lists[l].at \in {"asked", "served"} /\ lists' = [lists EXCEPT ![l] = [at |-> "no", got |-> {}]]
        /\ missed' = missed \cup (pending \ offered)
        /\ mishaps < MaxMishaps /\ mishaps' = mishaps + 1
        /\ UNCHANGED <<engine, renderer, published, policies, pubs, offered, turn, sent, cards, prompts>>
    BY DEF ListFails, Mishap, NoRead
  <1>2. \A k \in Reads : lists'[k] = IF k = l THEN [at |-> "no", got |-> {}] ELSE lists[k]
    BY <1>1 DEF IInv, Types, ReadTypes
  <1>3. Types'
    BY <1>1, InteractionsAssumption
       DEF engine, IInv, Types, EngineTypes, PubTypes, ReadTypes, TurnTypes, CardTypes, BoundTypes
  <1>4. KnownWereAsked'
    BY <1>1, <1>2 DEF engine, IInv, KnownWereAsked
  <1>5. PublishedIsSaid' /\ PendingIsSaid'
    BY <1>1 DEF engine, PublishedIsSaid, PendingIsSaid
  <1>6. PolicyIsChosen'
    BY <1>1 DEF IInv, PolicyIsChosen
  <1> QED BY <1>3, <1>4, <1>5, <1>6 DEF IInv

------------------------------------------------------------------------------
(* The renderer and its invocations *)

(* The next renderer is told of everything again. *)
LEMMA RendererLeavesIInv ==
  ASSUME IInv, RendererLeaves PROVE IInv'
  <1>1. /\ renderer = "live" /\ renderer' = "gone" /\ offered' = {} /\ cards' = {}
        /\ turn' = [c \in Chats |-> [turn[c] EXCEPT !.on = FALSE]]
        /\ mishaps < MaxMishaps /\ mishaps' = mishaps + 1
        /\ UNCHANGED <<engine, published, policies, pubs, lists, missed, sent, prompts>>
    BY DEF RendererLeaves, Mishap
  <1>2. /\ turn' \in [Chats -> [on : BOOLEAN, mode : {"ask", "auto"}]]
        /\ \A c \in Chats : turn'[c].mode = turn[c].mode
    BY <1>1 DEF IInv, Types, TurnTypes
  <1>3. Types'
    <2>1. BoundTypes'
      BY <1>1, InteractionsAssumption DEF IInv, Types, BoundTypes
    <2> QED BY <1>1, <1>2, <2>1 DEF engine, IInv, Types, EngineTypes, PubTypes, ReadTypes, TurnTypes, CardTypes
  <1>4. KnownWereAsked' /\ PublishedIsSaid' /\ PendingIsSaid'
    BY <1>1 DEF engine, IInv, KnownWereAsked, PublishedIsSaid, PendingIsSaid, OnItsWay
  <1>5. PolicyIsChosen'
    BY <1>1, <1>2 DEF IInv, PolicyIsChosen
  <1> QED BY <1>3, <1>4, <1>5 DEF IInv

LEMMA InvokeIInv ==
  ASSUME IInv, NEW c \in Chats, NEW mode \in {"ask", "auto"}, Invoke(c, mode) PROVE IInv'
  <1>1. /\ turn' = [turn EXCEPT ![c] = [on |-> TRUE, mode |-> mode]]
        /\ sent' = sent \cup {c} /\ prompts < MaxPrompts /\ prompts' = prompts + 1
        /\ UNCHANGED <<engine, backend, offered, missed, cards, mishaps>>
    BY DEF Invoke
  <1>2. TurnTypes' /\ \A o \in Chats : turn'[o] = IF o = c THEN [on |-> TRUE, mode |-> mode] ELSE turn[o]
    BY <1>1 DEF backend, IInv, Types, TurnTypes
  <1>3. PolicyIsChosen'
    BY <1>1, <1>2 DEF backend, IInv, PolicyIsChosen
  <1>4. BoundTypes'
    BY <1>1, InteractionsAssumption DEF IInv, Types, BoundTypes
  <1>5. CardTypes'
    <2>1. \A r \in Requests : ChatOf(r) \in Chats
      BY InteractionsAssumption DEF ChatOf, Root
    <2> QED BY <1>1, <1>2, <2>1 DEF IInv, Types, CardTypes
  <1> QED BY <1>1, <1>2, <1>3, <1>4, <1>5, Unsaid DEF backend

LEMMA PromptIInv ==
  ASSUME IInv, NEW c \in Chats, Prompt(c) PROVE IInv'
  <1>1. /\ policy' = [policy EXCEPT ![c] = turn[c].mode] /\ sent' = sent \ {c} /\ failed' = failed \ {c}
        /\ UNCHANGED <<engine, renderer, published, pubs, lists, offered, missed, turn, cards, bounds>>
    BY DEF Prompt
  <1>2. TurnTypes' /\ \A o \in Chats : policy'[o] = IF o = c THEN turn[c].mode ELSE policy[o]
    BY <1>1 DEF IInv, Types, TurnTypes
  <1>3. PolicyIsChosen'
    BY <1>1, <1>2 DEF IInv, PolicyIsChosen
  <1>4. CardTypes' /\ BoundTypes'
    BY <1>1 DEF bounds, IInv, Types, CardTypes, BoundTypes
  <1> QED BY <1>1, <1>2, <1>3, <1>4, Unsaid

(* The policy stays, and so does the excuse. *)
LEMMA PromptFailsIInv ==
  ASSUME IInv, NEW c \in Chats, PromptFails(c) PROVE IInv'
  <1>1. /\ sent' = sent \ {c} /\ failed' = failed \cup {c} /\ mishaps < MaxMishaps /\ mishaps' = mishaps + 1
        /\ UNCHANGED <<engine, renderer, published, policy, pubs, lists, offered, missed, turn, cards, prompts>>
    BY DEF PromptFails, Mishap
  <1>2. TurnTypes' /\ CardTypes' /\ PolicyIsChosen'
    BY <1>1 DEF IInv, Types, TurnTypes, CardTypes, PolicyIsChosen
  <1>3. BoundTypes'
    BY <1>1, InteractionsAssumption DEF IInv, Types, BoundTypes
  <1> QED BY <1>1, <1>2, <1>3, Unsaid

(* OpenCode starts anew: it waits for nothing. *)
LEMMA RelaunchesIInv ==
  ASSUME IInv, Relaunches PROVE IInv'
  <1>1. /\ mishaps < MaxMishaps /\ mishaps' = mishaps + 1
        /\ policy' = [x \in Chats |-> "none"] /\ failed' = {}
        /\ turn' = [x \in Chats |-> [turn[x] EXCEPT !.on = turn[x].on /\ x \in sent]]
        /\ cards' = {r \in cards : ChatOf(r) \in sent}
        /\ pending' = {} /\ stream' = <<>> /\ open' = FALSE /\ published' = {}
        /\ UNCHANGED <<asked, renderer, pubs, lists, offered, missed, sent, prompts>>
    BY DEF Relaunches, Mishap
  <1>2. ASSUME NEW x \in Chats, NEW b \in BOOLEAN
        PROVE  /\ [turn[x] EXCEPT !.on = b] \in [on : BOOLEAN, mode : {"ask", "auto"}]
               /\ [turn[x] EXCEPT !.on = b].mode = turn[x].mode
               /\ [turn[x] EXCEPT !.on = b].on = b
    BY DEF IInv, Types, TurnTypes
  <1>3. \A x \in Chats : (turn[x].on /\ x \in sent) \in BOOLEAN
    OBVIOUS
  <1>4. \A x \in Chats : /\ turn'[x] \in [on : BOOLEAN, mode : {"ask", "auto"}]
                         /\ turn'[x].mode = turn[x].mode
                         /\ turn'[x].on = (turn[x].on /\ x \in sent)
    BY <1>1, <1>2, <1>3
  <1>5. TurnTypes'
    BY <1>1, <1>4 DEF IInv, Types, TurnTypes
  <1>6. CardTypes'
    <2>1. \A r \in Requests : ChatOf(r) \in Chats
      BY InteractionsAssumption DEF ChatOf, Root
    <2> QED BY <1>1, <1>4, <2>1 DEF IInv, Types, CardTypes
  <1>7. Types'
    <2>1. <<>> \in Seq(Events)
      OBVIOUS
    <2>2. EngineTypes'
      BY <1>1, <2>1 DEF IInv, Types, EngineTypes
    <2>3. BoundTypes'
      BY <1>1, InteractionsAssumption DEF IInv, Types, BoundTypes
    <2> QED BY <1>1, <1>5, <1>6, <2>2, <2>3 DEF IInv, Types, PubTypes, ReadTypes
  <1>8. KnownWereAsked' /\ PublishedIsSaid' /\ PendingIsSaid'
    BY <1>1 DEF IInv, KnownWereAsked, PublishedIsSaid, PendingIsSaid
  <1>9. PolicyIsChosen'
    BY <1>1, <1>4 DEF IInv, PolicyIsChosen
  <1> QED BY <1>7, <1>8, <1>9 DEF IInv

LEMMA FinishIInv ==
  ASSUME IInv, NEW c \in Chats, Finish(c) PROVE IInv'
  <1>1. /\ turn' = [turn EXCEPT ![c].on = FALSE] /\ cards' = {r \in cards : ChatOf(r) # c}
        /\ UNCHANGED <<engine, backend, offered, missed, sent, bounds>>
    BY DEF Finish
  <1>2. TurnTypes' /\ \A o \in Chats : turn'[o].mode = turn[o].mode /\ (o # c => turn'[o] = turn[o])
    BY <1>1 DEF backend, IInv, Types, TurnTypes
  <1>3. PolicyIsChosen'
    BY <1>1, <1>2 DEF backend, IInv, PolicyIsChosen
  <1>4. BoundTypes'
    BY <1>1 DEF bounds, IInv, Types, BoundTypes
  <1>5. CardTypes'
    <2>1. \A r \in Requests : ChatOf(r) \in Chats
      BY InteractionsAssumption DEF ChatOf, Root
    <2> QED BY <1>1, <1>2, <2>1 DEF IInv, Types, CardTypes
  <1> QED BY <1>1, <1>2, <1>3, <1>4, <1>5, Unsaid DEF backend

------------------------------------------------------------------------------
(* The theorems *)

LEMMA InitIInv == Init => IInv
  <1> SUFFICES ASSUME Init PROVE IInv
    OBVIOUS
  <1>1. EngineTypes /\ PubTypes
    <2>1. <<>> \in Seq(Events)
      OBVIOUS
    <2> QED BY <2>1 DEF Init, EngineTypes, PubTypes
  <1>2. ReadTypes /\ \A l \in Reads : lists[l] = NoRead
    BY DEF Init, ReadTypes, NoRead
  <1>3. TurnTypes /\ CardTypes /\ BoundTypes
    BY InteractionsAssumption DEF Init, TurnTypes, CardTypes, BoundTypes
  <1>4. KnownWereAsked /\ PublishedIsSaid /\ PendingIsSaid
    <2>1. DOMAIN stream = {}
      BY DEF Init
    <2> QED BY <1>2, <2>1 DEF Init, KnownWereAsked, PublishedIsSaid, PendingIsSaid, NoRead
  <1>5. PolicyIsChosen
    BY DEF Init, PolicyIsChosen
  <1> QED BY <1>1, <1>2, <1>3, <1>4, <1>5 DEF IInv, Types

LEMMA StepIInv == IInv /\ [Next]_vars => IInv'
  <1> SUFFICES ASSUME IInv, [Next]_vars PROVE IInv'
    OBVIOUS
  <1>1. CASE UNCHANGED vars
    BY <1>1, Unsaid DEF vars, engine, backend, frontend, bounds,
       IInv, Types, TurnTypes, CardTypes, BoundTypes, PolicyIsChosen
  <1>2. CASE Next
    BY <1>2, EngineAsksIInv, WithdrawsIInv, DeliversIInv, CutIInv, AskingAgain, ListServedIInv,
       ListArrivesIInv, ListFailsIInv, RendererLeavesIInv, InvokeIInv, PromptIInv, PromptFailsIInv,
       RelaunchesIInv, FinishIInv, ResolvesIInv, ReplyServedIInv, ReplyLostIInv, FallsBackIInv
       DEF Next, Answered, Trouble, Turn
  <1> QED BY <1>1, <1>2

(* The inductive invariant: what is published was said, what waits is said or  *)
(* on its way, and the policy of a chat is what its last prompt asked for,     *)
(* unless that prompt failed in ensureCurrentServer() or is still under way.   *)
THEOREM Inductive == Spec => []IInv
  BY InitIInv, StepIInv, PTL DEF Spec

(* The variables hold what the code puts there, and a card belongs to an       *)
(* invocation that runs (invoke() and finish() of the agent).                  *)
THEOREM Typed == Spec => []TypeOK
  <1>1. IInv => TypeOK
    BY DEF IInv, Types, EngineTypes, PubTypes, ReadTypes, TurnTypes, CardTypes, BoundTypes, TypeOK, Events
  <1> QED BY <1>1, Inductive, PTL

(* Whatever is cut, lost, reloaded or answered meanwhile, a request that waits *)
(* was offered to this renderer or will be, by publishPermission(),            *)
(* publishQuestion() or the list that reconcilePendingInteractions() reads.    *)
THEOREM PendingAreOffered == Spec => []PendingIsOffered
  <1>1. IInv /\ TypeOK => PendingIsOffered
    BY DEF IInv, PendingIsSaid, PendingIsOffered
  <1> QED BY <1>1, Inductive, Typed, PTL

(* The automatic answer is that of the chat that is asked for. *)
LEMMA Answering ==
  ASSUME IInv, NEW p \in pubs, NEW root, Decide(p, root)
  PROVE  \A q \in pubs' \ pubs : q.r = p.r /\ root \in Chats /\ policy[root] = "auto"
  <1> DEFINE q == [p EXCEPT !.at = "reply"]
  <1>1. q.r = p.r
    BY DEF IInv, Types, PubTypes
  <1>2. pubs' \subseteq pubs \cup {q} /\ (pubs' \subseteq pubs \/ Automatic(p.r, root))
    BY DEF Decide
  <1> HIDE DEF q
  <1> QED BY <1>1, <1>2 DEF Automatic

(* automaticPermissionReply() answers for the chat that asks, itself or       *)
(* through a task, and only in the mode of its last prompt, but for a prompt  *)
(* that has not set its policy, because it is under way or failed.            *)
THEOREM AnswersAreChosen == Spec => AllowedIsChosen
  <1> DEFINE Chosen == \A p \in pubs' \ pubs : p.at = "reply" =>
                         turn[ChatOf(p.r)].mode = "auto" \/ ChatOf(p.r) \in sent \cup failed
             OfMode == \A p \in pubs' \ pubs : p.at = "reply" =>
                         ChatOf(p.r) \in Chats /\ policy[ChatOf(p.r)] = "auto"
  <1>1. ASSUME IInv, [Next]_vars PROVE OfMode
    <2>1. ASSUME NEW p \in pubs, Resolves(p)
          PROVE  OfMode
      BY <1>1, <2>1, Answering DEF Resolves
    <2>2. ASSUME NEW p \in pubs, ResolveFails(p)
          PROVE  OfMode
      <3>1. Decide(p, SessionOf[p.r]) /\ SessionOf[p.r] \in Tasks
        BY <2>2 DEF ResolveFails
      <3> QED BY <1>1, <3>1, Answering, InteractionsAssumption
    <2>3. ASSUME NEW p \in pubs, ReplyServed(p) \/ ReplyLost(p) \/ FallsBack(p)
          PROVE  OfMode
      <3>1. pubs' \subseteq pubs \cup {[p EXCEPT !.at = "refused"]}
        BY <2>3 DEF ReplyServed, ReplyLost, FallsBack
      <3>2. [p EXCEPT !.at = "refused"].at = "refused"
        BY <1>1 DEF IInv, Types, PubTypes
      <3> QED BY <3>1, <3>2
    <2>4. CASE Delivers \/ \E l \in Reads : ListArrives(l) \/ ListGoesOn(l)
      <3>1. UNCHANGED pubs \/ \E rs, by : pubs' = pubs \cup NewPubs(rs, by)
        BY <2>4 DEF Delivers, ListArrives, ListGoesOn
      <3>2. \A rs, by : \A p \in NewPubs(rs, by) : p.at = "resolve"
        BY DEF NewPubs
      <3> QED BY <3>1, <3>2
    <2>5. CASE \/ \E r \in Requests : EngineAsks(r) \/ Withdraws(r) \/ Choose(r)
               \/ Connect \/ Attach \/ Cut \/ RendererLeaves \/ Relaunches
               \/ \E l \in Reads : ListServed(l) \/ ListFails(l)
               \/ \E c \in Chats : Turn(c)
               \/ UNCHANGED vars
      <3>1. UNCHANGED pubs
        BY <2>5 DEF EngineAsks, Withdraws, Choose, Connect, Attach, Cut, RendererLeaves, ListServed,
           ListFails, Turn, Invoke, Prompt, PromptFails, Relaunches, Finish, vars, backend
      <3> QED BY <3>1
    <2> QED BY <1>1, <2>1, <2>2, <2>3, <2>4, <2>5 DEF Next, Answered, Trouble
  <1>2. IInv /\ OfMode => Chosen
    BY DEF IInv, PolicyIsChosen
  <1>3. IInv /\ [Next]_vars => [Chosen]_vars
    BY <1>1, <1>2
  <1> QED BY <1>3, Inductive, PTL DEF Spec, AllowedIsChosen

=============================================================================
