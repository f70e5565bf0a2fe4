-------------------------- MODULE CodeTurnsProofs --------------------------
(***************************************************************************)
(* The safety of CodeTurns for any number of calls, sessions, workspaces,  *)
(* reconciliations, troubles and events in flight.                         *)
(*                                                                         *)
(* The inductive invariant IInv is the conjunction of the properties the   *)
(* runs check with two more facts.  FreshIsUnsettled: a call that has not  *)
(* created its waiter yet has no outcome; without it nothing says that the *)
(* waiter which Prompt creates is unsettled.  ReadsAreAccepted: only an    *)
(* acknowledged prompt is reconciled, and a prompt() that awaits its own   *)
(* reconciliation awaits nothing else.                                     *)
(*                                                                         *)
(* EndsArePast, the invariant of the last part, is about what the service  *)
(* learns of the end of a turn, in any order of the stream and the         *)
(* answers; it needs that no two calls share a session.                    *)
(***************************************************************************)
EXTENDS CodeTurns, TLAPS

Early == {"new", "ensure"}

FreshIsUnsettled ==
  \A p \in Prompts : pc[p] \in Early => outcome[p] = "none"

ReadsAreAccepted ==
  \A p \in Prompts, c \in Callers : reads[p][c] \notin {"none", "lost"} =>
    p \in accepted /\ (c = "prompt" => pc[p] = "reconcile")

TurnInv == NoCallLeftBehind /\ HeldIsUnsettled /\ FreshIsUnsettled /\ PublishedIsTrue

IInv == TypeOK /\ TurnInv /\ ReadsAreAccepted

(* A step in which no call creates its waiter. *)
PcKept ==
  \A p \in Prompts : /\ pc'[p] \in Early => pc[p] \in Early
                     /\ pc'[p] \notin Early \cup {"returned"} => pc[p] \notin Early \cup {"returned"}

(* What such a step does to the turns, the closing of the IDE aside. *)
TurnsStep ==
  \/ UNCHANGED turnVars
  \/ \E S \in SUBSET Sessions, why \in Outcomes \ {"none"} : FinishTurns(S, why)
  \/ \E s \in Sessions : SetGenerating(s) /\ UNCHANGED <<waiters, outcome>>

------------------------------------------------------------------------------
(* The operators the actions are built from *)

(* setStatus() publishes a set of sessions and one of three activities. *)
LEMMA SummaryTyped ==
  \A w, ph : Summary(w, ph) \in [turns : SUBSET Sessions,
                                 activity : {"idle", "preparing", "generating"}]
  BY DEF Summary

(* finishTurn() keeps the types. *)
LEMMA FinishTurnsTyped ==
  ASSUME TurnTypes, NEW S, NEW why \in Outcomes, FinishTurns(S, why)
  PROVE  TurnTypes'
  BY SummaryTyped, PromptsAssumption DEF FinishTurns, TurnTypes

(* waitForTurn() keeps the types. *)
LEMMA WaitForTurnTyped ==
  ASSUME TurnTypes, NEW p \in Prompts, WaitForTurn(p)
  PROVE  TurnTypes'
  BY SummaryTyped, PromptsAssumption DEF WaitForTurn, TurnTypes, Outcomes

(* The stream stays a sequence of events whatever the engine emits. *)
LEMMA EmittedTyped ==
  ASSUME StreamTypes, NEW s \in Sessions, NEW kinds \in Seq(Kinds)
  PROVE  Emitted(s, kinds) \in Seq(Event)
<1>1. [i \in 1..Len(kinds) |-> [session |-> s, kind |-> kinds[i]]] \in Seq(Event)
  BY DEF Event
<1>. QED
  BY <1>1 DEF StreamTypes, Emitted

(* Firing controllers keeps the types. *)
LEMMA FireControllersTyped ==
  ASSUME AbortTypes, NEW S \in SUBSET Sessions, FireControllers(S)
  PROVE  /\ inflight' \in [Sessions -> Prompts \cup {NoPrompt}]
         /\ signalled' \subseteq Prompts
  BY DEF AbortTypes, FireControllers

(* The two kinds of write to the reconciliations keep their type. *)
LEMMA ReadsTyped ==
  ASSUME CallTypes
  PROVE  /\ \A p \in Prompts, c \in Callers, stage \in ReadStage :
              [reads EXCEPT ![p][c] = stage] \in [Prompts -> [Callers -> ReadStage]]
         /\ \A p \in Prompts, c \in Callers :
              Started(reads[p], c) \in [Callers -> ReadStage]
         /\ \A p \in Prompts, c \in Callers :
              [reads EXCEPT ![p] = Started(reads[p], c)] \in [Prompts -> [Callers -> ReadStage]]
         /\ [p \in Prompts |-> [c \in Callers |->
               IF reads[p][c] \in {"status", "history"} THEN "failed" ELSE reads[p][c]]]
              \in [Prompts -> [Callers -> ReadStage]]
  BY DEF CallTypes, ReadStage, Started

(* The sequences the model writes out are typed. *)
LEMMA LiteralsTyped ==
  /\ <<>> \in Seq(Event)
  /\ <<"busy">> \in Seq(Kinds) /\ <<"part">> \in Seq(Kinds)
  /\ <<"idle", "idle">> \in Seq(Kinds) /\ <<"error", "idle">> \in Seq(Kinds)
  BY DEF Kinds

(* The loss of the sidecar keeps the types. *)
LEMMA LoseServerTyped ==
  ASSUME CallTypes, AbortTypes, NEW returned, LoseServer(returned)
  PROVE  /\ pc' \in [Prompts -> Calls]
         /\ reads' \in [Prompts -> [Callers -> ReadStage]]
         /\ run' \in [Prompts -> Runs]
         /\ aborting' \in [Sessions -> {"none", "sent", "answered"}]
         /\ stream' \in Seq(Event)
<1>1. pc' \in [Prompts -> Calls]
  BY DEF LoseServer, CallTypes, Calls
<1>2. reads' \in [Prompts -> [Callers -> ReadStage]]
  BY ReadsTyped DEF LoseServer
<1>3. run' \in [Prompts -> Runs]
  BY DEF LoseServer, CallTypes, Runs
<1>4. aborting' \in [Sessions -> {"none", "sent", "answered"}]
  BY DEF LoseServer, AbortTypes
<1>5. stream' \in Seq(Event)
  BY LiteralsTyped DEF LoseServer
<1>. QED
  BY <1>1, <1>2, <1>3, <1>4, <1>5

------------------------------------------------------------------------------
(* Types *)

(* The initial state is typed. *)
LEMMA InitTyped == Init => TypeOK
<1>. SUFFICES ASSUME Init PROVE TypeOK
  OBVIOUS
<1>1. CallTypes
  BY DEF Init, CallTypes, Calls, ReadStage, Runs
<1>2. TurnTypes
  BY DEF Init, TurnTypes, Outcomes
<1>3. AbortTypes
  BY DEF Init, AbortTypes
<1>4. ServerTypes
  BY DEF Init, ServerTypes
<1>5. StreamTypes
  BY LiteralsTyped DEF Init, StreamTypes
<1>. QED
  BY <1>1, <1>2, <1>3, <1>4, <1>5 DEF TypeOK

(* Every step keeps the types. *)
LEMMA NextTyped == TypeOK /\ [Next]_vars => TypeOK'
<1>. SUFFICES ASSUME CallTypes, TurnTypes, AbortTypes, ServerTypes, StreamTypes, [Next]_vars
              PROVE  TypeOK'
  BY DEF TypeOK
<1>. USE DEF vars, turnVars, flagVars, abortVars, sseVars, serverVars
<1>1. ASSUME NEW p \in Prompts, Ask(p) PROVE TypeOK'
  <2>1. CallTypes'
    BY <1>1 DEF Ask, Calls, CallTypes
  <2>2. TurnTypes' /\ AbortTypes' /\ ServerTypes' /\ StreamTypes'
    BY <1>1 DEF Ask, TurnTypes, AbortTypes, ServerTypes, StreamTypes
  <2>. QED
    BY <2>1, <2>2 DEF TypeOK
<1>2. ASSUME NEW p \in Prompts, Refused(p) PROVE TypeOK'
  <2>1. CallTypes'
    BY <1>2 DEF Refused, Calls, CallTypes
  <2>2. StreamTypes'
    BY <1>2 DEF Refused, Trouble, StreamTypes
  <2>3. TurnTypes' /\ AbortTypes' /\ ServerTypes'
    BY <1>2 DEF Refused, TurnTypes, AbortTypes, ServerTypes
  <2>. QED
    BY <2>1, <2>2, <2>3 DEF TypeOK
<1>3. ASSUME NEW p \in Prompts, Prompt(p) PROVE TypeOK'
  <2>1. CallTypes'
    BY <1>3 DEF Prompt, Calls, CallTypes
  <2>2. TurnTypes'
    BY <1>3, WaitForTurnTyped DEF Prompt, TurnTypes
  <2>3. AbortTypes'
    BY <1>3, PromptsAssumption DEF Prompt, AbortTypes
  <2>4. ServerTypes'
    BY <1>3 DEF Prompt, ServerTypes
  <2>5. StreamTypes'
    BY <1>3, PromptsAssumption, LiteralsTyped DEF Prompt, StreamTypes
  <2>. QED
    BY <2>1, <2>2, <2>3, <2>4, <2>5 DEF TypeOK
<1>4. ASSUME NEW p \in Prompts, NotReady(p) PROVE TypeOK'
  <2>1. CallTypes'
    BY <1>4 DEF NotReady, Calls, CallTypes
  <2>2. TurnTypes' /\ AbortTypes' /\ ServerTypes' /\ StreamTypes'
    BY <1>4 DEF NotReady, TurnTypes, AbortTypes, ServerTypes, StreamTypes
  <2>. QED
    BY <2>1, <2>2 DEF TypeOK
<1>5. ASSUME NEW p \in Prompts, Snapshot(p) PROVE TypeOK'
  <2>1. CallTypes'
    BY <1>5 DEF Snapshot, Reject, AssistantMessages, Calls, CallTypes
  <2>2. TurnTypes'
    BY <1>5, FinishTurnsTyped DEF Snapshot, Reject, Outcomes, TurnTypes
  <2>3. AbortTypes'
    BY <1>5, PromptsAssumption DEF Snapshot, Reject, AbortTypes
  <2>4. ServerTypes' /\ StreamTypes'
    BY <1>5 DEF Snapshot, Reject, ServerTypes, StreamTypes
  <2>. QED
    BY <2>1, <2>2, <2>3, <2>4 DEF TypeOK
<1>6. ASSUME NEW p \in Prompts, Acknowledged(p) PROVE TypeOK'
  <2>1. CallTypes'
  <3>1. CASE waiters[SessionOf[p]] = p
    <4>1. reads' = [reads EXCEPT ![p] = Started(reads[p], "prompt")]
      BY <1>6, <3>1 DEF Acknowledged
    <4>2. reads' \in [Prompts -> [Callers -> ReadStage]]
      BY <4>1, ReadsTyped DEF Callers, ReadStage
    <4>. QED
      BY <1>6, <3>1, <4>2 DEF Acknowledged, Calls, CallTypes
  <3>2. CASE waiters[SessionOf[p]] # p
    BY <1>6, <3>2 DEF Acknowledged, Calls, CallTypes
  <3>. QED
    BY <3>1, <3>2
  <2>2. TurnTypes' /\ AbortTypes' /\ ServerTypes' /\ StreamTypes'
    BY <1>6 DEF Acknowledged, TurnTypes, AbortTypes, ServerTypes, StreamTypes
  <2>. QED
    BY <2>1, <2>2 DEF TypeOK
<1>7. ASSUME NEW p \in Prompts, Catch(p) PROVE TypeOK'
  <2>1. CallTypes'
    BY <1>7 DEF Catch, Reject, Calls, CallTypes
  <2>2. TurnTypes'
    BY <1>7, FinishTurnsTyped DEF Catch, Reject, Outcomes, TurnTypes
  <2>3. AbortTypes'
    BY <1>7, PromptsAssumption DEF Catch, Reject, AbortTypes
  <2>4. ServerTypes' /\ StreamTypes'
    BY <1>7 DEF Catch, Reject, ServerTypes, StreamTypes
  <2>. QED
    BY <2>1, <2>2, <2>3, <2>4 DEF TypeOK
<1>8. ASSUME NEW p \in Prompts, Return(p) PROVE TypeOK'
  <2>1. CallTypes'
    BY <1>8 DEF Return, Calls, CallTypes
  <2>2. AbortTypes'
    BY <1>8, PromptsAssumption DEF Return, AbortTypes
  <2>3. TurnTypes' /\ ServerTypes' /\ StreamTypes'
    BY <1>8 DEF Return, TurnTypes, ServerTypes, StreamTypes
  <2>. QED
    BY <2>1, <2>2, <2>3 DEF TypeOK
<1>9. ASSUME NEW p \in Prompts, EngineReceive(p) PROVE TypeOK'
  <2>1. CallTypes'
    BY <1>9 DEF EngineReceive, Calls, Runs, CallTypes
  <2>2. TurnTypes' /\ AbortTypes' /\ ServerTypes' /\ StreamTypes'
    BY <1>9 DEF EngineReceive, TurnTypes, AbortTypes, ServerTypes, StreamTypes
  <2>. QED
    BY <2>1, <2>2 DEF TypeOK
<1>10. ASSUME NEW p \in Prompts, NEW from, NEW to \in Runs, NEW kinds \in Seq(Kinds),
             Advance(p, from, to, kinds)
      PROVE  TypeOK'
  <2>1. CallTypes'
    BY <1>10 DEF Advance, CallTypes
  <2>2. StreamTypes'
    BY <1>10, EmittedTyped, PromptsAssumption DEF Advance, StreamTypes
  <2>3. TurnTypes' /\ AbortTypes' /\ ServerTypes'
    BY <1>10 DEF Advance, TurnTypes, AbortTypes, ServerTypes
  <2>. QED
    BY <2>1, <2>2, <2>3 DEF TypeOK
<1>11. ASSUME NEW p \in Prompts, EngineStart(p) \/ EngineAnswer(p) \/ EngineComplete(p) \/ EngineFail(p)
       PROVE  TypeOK'
  BY <1>11, <1>10, LiteralsTyped DEF EngineStart, EngineAnswer, EngineComplete, EngineFail, Runs
<1>12. ASSUME NEW p \in Prompts, NEW c \in Callers, ServeRead(p, c) PROVE TypeOK'
  <2>1. CallTypes'
  <3>2. \A stage \in {"active", "early", "absent", "completed", "incomplete"} :
          [reads EXCEPT ![p][c] = stage] \in [Prompts -> [Callers -> ReadStage]]
    BY ReadsTyped DEF ReadStage
  <3>1. reads' \in [Prompts -> [Callers -> ReadStage]]
    BY <1>12, <3>2 DEF ServeRead
  <3>. QED
    BY <1>12, <3>1 DEF ServeRead, CallTypes
  <2>2. TurnTypes' /\ AbortTypes' /\ ServerTypes' /\ StreamTypes'
    BY <1>12 DEF ServeRead, TurnTypes, AbortTypes, ServerTypes, StreamTypes
  <2>. QED
    BY <2>1, <2>2 DEF TypeOK
<1>13. ASSUME NEW p \in Prompts, NEW c \in Callers, RefuseRead(p, c) PROVE TypeOK'
  <2>1. CallTypes'
    BY <1>13, ReadsTyped DEF RefuseRead, ReadStage, CallTypes
  <2>2. StreamTypes'
    BY <1>13 DEF RefuseRead, Trouble, StreamTypes
  <2>3. TurnTypes' /\ AbortTypes' /\ ServerTypes'
    BY <1>13 DEF RefuseRead, TurnTypes, AbortTypes, ServerTypes
  <2>. QED
    BY <2>1, <2>2, <2>3 DEF TypeOK
<1>14. ASSUME NEW p \in Prompts, NEW c \in Callers, ClassifyStatus(p, c) PROVE TypeOK'
  <2>1. CallTypes'
  <3>. DEFINE R == [Prompts -> [Callers -> ReadStage]]
  <3>2. [reads EXCEPT ![p][c] = "none"] \in R /\ [reads EXCEPT ![p][c] = "history"] \in R
    BY ReadsTyped DEF ReadStage
  <3>1. reads' \in [Prompts -> [Callers -> ReadStage]]
    BY <1>14, <3>2 DEF ClassifyStatus, EndRead
  <3>. QED
    BY <1>14, <3>1 DEF ClassifyStatus, EndRead, Calls, CallTypes
  <2>2. TurnTypes'
    BY <1>14, FinishTurnsTyped DEF ClassifyStatus, EndRead, Outcomes, TurnTypes
  <2>3. AbortTypes' /\ ServerTypes' /\ StreamTypes'
    BY <1>14 DEF ClassifyStatus, EndRead, AbortTypes, ServerTypes, StreamTypes
  <2>. QED
    BY <2>1, <2>2, <2>3 DEF TypeOK
<1>15. ASSUME NEW p \in Prompts, NEW c \in Callers, ReadHistory(p, c) PROVE TypeOK'
  <2>1. CallTypes'
    BY <1>15, ReadsTyped DEF ReadHistory, EndRead, Calls, ReadStage, CallTypes
  <2>2. TurnTypes'
    BY <1>15, FinishTurnsTyped DEF ReadHistory, EndRead, Outcomes, TurnTypes
  <2>3. AbortTypes' /\ ServerTypes' /\ StreamTypes'
    BY <1>15 DEF ReadHistory, EndRead, AbortTypes, ServerTypes, StreamTypes
  <2>. QED
    BY <2>1, <2>2, <2>3 DEF TypeOK
<1>16. ASSUME NEW p \in Prompts, NEW c \in Callers, ReadFailed(p, c) PROVE TypeOK'
  <2>1. CallTypes'
    BY <1>16, ReadsTyped DEF ReadFailed, Calls, ReadStage, CallTypes
  <2>2. TurnTypes' /\ AbortTypes' /\ ServerTypes' /\ StreamTypes'
    BY <1>16 DEF ReadFailed, TurnTypes, AbortTypes, ServerTypes, StreamTypes
  <2>. QED
    BY <2>1, <2>2 DEF TypeOK
<1>17. ASSUME NEW s \in Sessions, ReceiveBusy(s) PROVE TypeOK'
  <2>1. CallTypes'
    BY <1>17 DEF ReceiveBusy, Receive, TurnTypes, MarkActive, Waiting, CallTypes
  <2>2. StreamTypes'
    BY <1>17 DEF ReceiveBusy, Receive, StreamTypes
  <2>3. TurnTypes' /\ AbortTypes' /\ ServerTypes'
    BY <1>17 DEF ReceiveBusy, Receive, TurnTypes, AbortTypes, ServerTypes
  <2>. QED
    BY <2>1, <2>2, <2>3 DEF TypeOK
<1>18. ASSUME NEW s \in Sessions, ReceivePart(s) PROVE TypeOK'
  <2>1. CallTypes'
    BY <1>18 DEF ReceivePart, Receive, TurnTypes, MarkActive, Waiting, CallTypes
  <2>2. TurnTypes'
    BY <1>18, SummaryTyped DEF ReceivePart, Receive, SetGenerating, TurnTypes
  <2>3. StreamTypes'
    BY <1>18 DEF ReceivePart, Receive, StreamTypes
  <2>4. AbortTypes' /\ ServerTypes'
    BY <1>18 DEF ReceivePart, Receive, AbortTypes, ServerTypes
  <2>. QED
    BY <2>1, <2>2, <2>3, <2>4 DEF TypeOK
<1>19. ASSUME NEW s \in Sessions, ReceiveIdle(s) PROVE TypeOK'
  <2>1. CallTypes'
  <3>1. reads' \in [Prompts -> [Callers -> ReadStage]]
    <4>1. ASSUME NEW c \in Callers, Waiting(s),
                 reads' = [reads EXCEPT ![waiters[s]] = Started(reads[waiters[s]], c)]
          PROVE  reads' \in [Prompts -> [Callers -> ReadStage]]
      BY <4>1, ReadsTyped DEF TurnTypes, Waiting
    <4>2. CASE UNCHANGED reads
      BY <4>2 DEF CallTypes
    <4>. QED
      BY <1>19, <4>1, <4>2 DEF ReceiveIdle, Callers
  <3>. QED
    BY <1>19, <3>1 DEF ReceiveIdle, Receive, CallTypes
  <2>2. TurnTypes'
    BY <1>19, FinishTurnsTyped DEF ReceiveIdle, Receive, Outcomes, TurnTypes
  <2>3. StreamTypes'
    BY <1>19 DEF ReceiveIdle, Receive, StreamTypes
  <2>4. AbortTypes' /\ ServerTypes'
    BY <1>19 DEF ReceiveIdle, Receive, AbortTypes, ServerTypes
  <2>. QED
    BY <2>1, <2>2, <2>3, <2>4 DEF TypeOK
<1>20. ASSUME NEW s \in Sessions, ReceiveError(s) PROVE TypeOK'
  <2>1. TurnTypes'
    BY <1>20, FinishTurnsTyped DEF ReceiveError, Receive, Outcomes, TurnTypes
  <2>2. StreamTypes'
    BY <1>20 DEF ReceiveError, Receive, StreamTypes
  <2>3. CallTypes' /\ AbortTypes' /\ ServerTypes'
    BY <1>20 DEF ReceiveError, Receive, CallTypes, AbortTypes, ServerTypes
  <2>. QED
    BY <2>1, <2>2, <2>3 DEF TypeOK
<1>21. ASSUME NEW s \in Sessions, Abort(s) PROVE TypeOK'
  <2>1. CallTypes'
    BY <1>21 DEF Abort, Calls, CallTypes
  <2>2. TurnTypes'
    BY <1>21, FinishTurnsTyped DEF Abort, Outcomes, TurnTypes
  <2>3. AbortTypes'
    BY <1>21, FireControllersTyped DEF Abort, AbortTypes
  <2>4. StreamTypes'
    BY <1>21 DEF Abort, Trouble, StreamTypes
  <2>5. ServerTypes'
    BY <1>21 DEF Abort, ServerTypes
  <2>. QED
    BY <2>1, <2>2, <2>3, <2>4, <2>5 DEF TypeOK
<1>22. ASSUME NEW s \in Sessions, EngineAbort(s) PROVE TypeOK'
  <2>1. CallTypes'
    BY <1>22 DEF EngineAbort, Runs, CallTypes
  <2>2. AbortTypes'
    BY <1>22 DEF EngineAbort, AbortTypes
  <2>3. StreamTypes'
    BY <1>22, EmittedTyped, LiteralsTyped DEF EngineAbort, StreamTypes
  <2>4. TurnTypes' /\ ServerTypes'
    BY <1>22 DEF EngineAbort, TurnTypes, ServerTypes
  <2>. QED
    BY <2>1, <2>2, <2>3, <2>4 DEF TypeOK
<1>23. ASSUME NEW s \in Sessions, AbortReturn(s) PROVE TypeOK'
  <2>1. TurnTypes'
    BY <1>23, FinishTurnsTyped DEF AbortReturn, Outcomes, TurnTypes
  <2>2. AbortTypes'
    BY <1>23 DEF AbortReturn, AbortTypes
  <2>3. StreamTypes'
    BY <1>23 DEF AbortReturn, Trouble, StreamTypes
  <2>4. CallTypes' /\ ServerTypes'
    BY <1>23 DEF AbortReturn, CallTypes, ServerTypes
  <2>. QED
    BY <2>1, <2>2, <2>3, <2>4 DEF TypeOK
<1>24. CASE Connect
  <2>1. CallTypes'
    BY <1>24, ReadsTyped DEF Connect, Callers, CallTypes
  <2>2. ServerTypes'
    BY <1>24 DEF Connect, ServerTypes
  <2>3. TurnTypes' /\ AbortTypes' /\ StreamTypes'
    BY <1>24 DEF Connect, TurnTypes, AbortTypes, StreamTypes
  <2>. QED
    BY <2>1, <2>2, <2>3 DEF TypeOK
<1>25. CASE Cut
  <2>1. ServerTypes'
    BY <1>25 DEF Cut, ServerTypes
  <2>2. StreamTypes'
    BY <1>25, LiteralsTyped DEF Cut, Trouble, StreamTypes
  <2>3. CallTypes' /\ TurnTypes' /\ AbortTypes'
    BY <1>25 DEF Cut, CallTypes, TurnTypes, AbortTypes
  <2>. QED
    BY <2>1, <2>2, <2>3 DEF TypeOK
<1>26. CASE Crash
  <2>1. CallTypes'
    BY <1>26, LoseServerTyped DEF Crash, CallTypes
  <2>2. TurnTypes'
    BY <1>26, FinishTurnsTyped DEF Crash, Outcomes, TurnTypes
  <2>3. AbortTypes'
    BY <1>26, LoseServerTyped DEF Crash, AbortTypes
  <2>4. ServerTypes'
    BY <1>26 DEF Crash, LoseServer, ServerTypes
  <2>5. StreamTypes'
    BY <1>26, LoseServerTyped DEF Crash, Trouble, StreamTypes
  <2>. QED
    BY <2>1, <2>2, <2>3, <2>4, <2>5 DEF TypeOK
<1>27. CASE Reconfigure
  <2>1. CallTypes'
    BY <1>27, LoseServerTyped DEF Reconfigure, CallTypes
  <2>2. TurnTypes'
    BY <1>27, FinishTurnsTyped DEF Reconfigure, Outcomes, TurnTypes
  <2>3. AbortTypes'
    BY <1>27, LoseServerTyped, FireControllersTyped DEF Reconfigure, AbortTypes
  <2>4. ServerTypes'
    BY <1>27 DEF Reconfigure, LoseServer, ServerTypes
  <2>5. StreamTypes'
    BY <1>27, LoseServerTyped DEF Reconfigure, Trouble, StreamTypes
  <2>. QED
    BY <2>1, <2>2, <2>3, <2>4, <2>5 DEF TypeOK
<1>28. CASE Restart
  <2>1. ServerTypes'
    BY <1>28 DEF Restart, ServerTypes
  <2>2. CallTypes' /\ TurnTypes' /\ AbortTypes' /\ StreamTypes'
    BY <1>28 DEF Restart, CallTypes, TurnTypes, AbortTypes, StreamTypes
  <2>. QED
    BY <2>1, <2>2 DEF TypeOK
<1>29. CASE Stop
  <2>1. CallTypes'
    BY <1>29 DEF Stop, Calls, CallTypes
  <2>2. TurnTypes'
    BY <1>29 DEF Stop, Outcomes, TurnTypes
  <2>3. AbortTypes'
    BY <1>29, FireControllersTyped DEF Stop, AbortTypes
  <2>4. ServerTypes'
    BY <1>29 DEF Stop, ServerTypes
  <2>5. StreamTypes'
    BY <1>29, LiteralsTyped DEF Stop, StreamTypes
  <2>. QED
    BY <2>1, <2>2, <2>3, <2>4, <2>5 DEF TypeOK
<1>30. CASE ServerExit
  <2>1. CallTypes'
    BY <1>30, LoseServerTyped DEF ServerExit, CallTypes
  <2>2. TurnTypes'
    BY <1>30, SummaryTyped DEF ServerExit, TurnTypes
  <2>3. AbortTypes'
    BY <1>30, LoseServerTyped DEF ServerExit, AbortTypes
  <2>4. ServerTypes'
    BY <1>30 DEF ServerExit, LoseServer, ServerTypes
  <2>5. StreamTypes'
    BY <1>30, LoseServerTyped DEF ServerExit, StreamTypes
  <2>. QED
    BY <2>1, <2>2, <2>3, <2>4, <2>5 DEF TypeOK
<1>31. CASE UNCHANGED vars
  BY <1>31 DEF TypeOK, CallTypes, TurnTypes, AbortTypes, ServerTypes, StreamTypes
<1>32. ASSUME NEW p \in Prompts, Post(p) PROVE TypeOK'
  <2>1. CallTypes'
    BY <1>32 DEF Post, Reject, Calls, CallTypes
  <2>2. TurnTypes'
    BY <1>32, FinishTurnsTyped DEF Post, Reject, Outcomes, TurnTypes
  <2>3. AbortTypes'
    BY <1>32, PromptsAssumption DEF Post, Reject, AbortTypes
  <2>4. ServerTypes' /\ StreamTypes'
    BY <1>32 DEF Post, ServerTypes, StreamTypes
  <2>. QED
    BY <2>1, <2>2, <2>3, <2>4 DEF TypeOK
<1>33. ASSUME NEW p \in Prompts, Unready(p) PROVE TypeOK'
  BY <1>33 DEF Unready, Calls, CallTypes, TurnTypes, AbortTypes, ServerTypes, StreamTypes, TypeOK
<1>. QED
  <2>1. ASSUME NEW p \in Prompts, Call(p) PROVE TypeOK'
    BY <2>1, <1>3, <1>4, <1>5, <1>6, <1>7, <1>8, <1>32, <1>33 DEF Call
  <2>2. ASSUME NEW p \in Prompts, Engine(p) PROVE TypeOK'
    BY <2>2, <1>9, <1>11 DEF Engine
  <2>3. ASSUME NEW p \in Prompts, NEW c \in Callers, Read(p, c) PROVE TypeOK'
    BY <2>3, <1>12, <1>14, <1>15, <1>16 DEF Read
  <2>4. ASSUME NEW s \in Sessions, Deliver(s) PROVE TypeOK'
    BY <2>4, <1>17, <1>18, <1>19, <1>20 DEF Deliver
  <2>. QED
    BY <2>1, <2>2, <2>3, <2>4, <1>1, <1>2, <1>11, <1>13, <1>21, <1>22, <1>23, <1>24, <1>25,
       <1>26, <1>27, <1>28, <1>29, <1>30, <1>31 DEF Next

------------------------------------------------------------------------------
(* Turns *)

(* A step that settles turns, or none, and creates no waiter leaves no call   *)
(* behind, settles no waiter twice and publishes what it did.                 *)
LEMMA TurnsKept ==
  ASSUME TypeOK, TurnInv, PcKept, TurnsStep, stopping' = stopping
  PROVE  TurnInv'
<1>. USE PromptsAssumption DEF TypeOK, CallTypes, TurnTypes, TurnInv, Early
<1>1. CASE UNCHANGED turnVars
  BY <1>1 DEF turnVars, PcKept, NoCallLeftBehind, HeldIsUnsettled, FreshIsUnsettled,
              PublishedIsTrue, Waiting, Summary
<1>2. ASSUME NEW S \in SUBSET Sessions, NEW why \in Outcomes \ {"none"}, FinishTurns(S, why)
      PROVE  TurnInv'
  <2>1. NoCallLeftBehind'
    BY <1>2 DEF FinishTurns, PcKept, NoCallLeftBehind
  <2>2. HeldIsUnsettled'
    BY <1>2 DEF FinishTurns, PcKept, HeldIsUnsettled, Waiting
  <2>3. FreshIsUnsettled'
    BY <1>2 DEF FinishTurns, PcKept, FreshIsUnsettled, HeldIsUnsettled, Waiting
  <2>4. PublishedIsTrue'
    <3>1. (\A s \in Sessions : phases[s] = "none" <=> ~Waiting(s))'
      BY <1>2 DEF FinishTurns, PublishedIsTrue, Waiting
    <3>2. CASE \E s \in S : Waiting(s)
      BY <1>2, <3>1, <3>2 DEF FinishTurns, PublishedIsTrue, Summary
    <3>3. CASE ~\E s \in S : Waiting(s)
      <4>1. UNCHANGED <<waiters, phases, info>>
        BY <1>2, <3>3 DEF FinishTurns, Waiting
      <4>. QED
        BY <4>1 DEF PublishedIsTrue, Waiting, Summary
    <3>. QED
      BY <3>2, <3>3
  <2>. QED
    BY <2>1, <2>2, <2>3, <2>4
<1>3. ASSUME NEW s \in Sessions, SetGenerating(s), UNCHANGED <<waiters, outcome>>
      PROVE  TurnInv'
  <2>1. NoCallLeftBehind' /\ HeldIsUnsettled' /\ FreshIsUnsettled'
    BY <1>3 DEF PcKept, NoCallLeftBehind, HeldIsUnsettled, FreshIsUnsettled, Waiting
  <2>2. PublishedIsTrue'
    <3>1. CASE Waiting(s) /\ phases[s] # "generating"
      BY <1>3, <3>1 DEF SetGenerating, PublishedIsTrue, Waiting, Summary
    <3>2. CASE ~(Waiting(s) /\ phases[s] # "generating")
      <4>1. UNCHANGED <<phases, info>>
        BY <1>3, <3>2 DEF SetGenerating
      <4>. QED
        BY <1>3, <4>1 DEF PublishedIsTrue, Waiting, Summary
    <3>. QED
      BY <3>1, <3>2
  <2>. QED
    BY <2>1, <2>2
<1>. QED
  BY <1>1, <1>2, <1>3 DEF TurnsStep

(* waitForTurn() settles the waiter it replaces and holds the new one. *)
LEMMA PromptTurns ==
  ASSUME TypeOK, TurnInv, NEW p \in Prompts, Prompt(p)
  PROVE  TurnInv'
<1>. USE PromptsAssumption DEF TypeOK, CallTypes, TurnTypes, TurnInv, Early
<1>1. NoCallLeftBehind'
  BY DEF Prompt, WaitForTurn, NoCallLeftBehind
<1>2. HeldIsUnsettled'
  <2>. SUFFICES ASSUME NEW t \in Sessions, Waiting(t)'
                PROVE  /\ SessionOf[waiters'[t]] = t
                       /\ outcome'[waiters'[t]] = "none"
                       /\ pc'[waiters'[t]] \notin {"new", "ensure"}
    BY DEF HeldIsUnsettled
  <2>1. CASE t = SessionOf[p]
    <3>1. waiters'[t] = p /\ pc'[p] = "snapshot" /\ outcome[p] = "none"
      BY <2>1 DEF Prompt, WaitForTurn, FreshIsUnsettled
    <3>2. waiters[t] # p
      BY <3>1, <2>1 DEF Prompt, HeldIsUnsettled, Waiting
    <3>3. outcome'[p] = "none"
      BY <2>1, <3>1, <3>2 DEF Prompt, WaitForTurn
    <3>. QED
      BY <2>1, <3>1, <3>3
  <2>2. CASE t # SessionOf[p]
    <3>1. waiters'[t] = waiters[t] /\ Waiting(t)
      BY <2>2 DEF Prompt, WaitForTurn, Waiting
    <3>2. SessionOf[waiters[t]] = t /\ outcome[waiters[t]] = "none" /\ pc[waiters[t]] \notin Early
      BY <3>1 DEF HeldIsUnsettled
    <3>3. waiters[t] # p /\ waiters[t] # waiters[SessionOf[p]]
      BY <2>2, <3>1, <3>2 DEF HeldIsUnsettled, Waiting
    <3>. QED
      BY <3>1, <3>2, <3>3 DEF Prompt, WaitForTurn, Waiting
  <2>. QED
    BY <2>1, <2>2
<1>3. FreshIsUnsettled'
  <2>. SUFFICES ASSUME NEW q \in Prompts, pc'[q] \in Early PROVE outcome'[q] = "none"
    BY DEF FreshIsUnsettled
  <2>1. pc[q] \in Early /\ outcome[q] = "none"
    BY DEF Prompt, FreshIsUnsettled
  <2>2. waiters[SessionOf[p]] # q
    BY <2>1 DEF HeldIsUnsettled, Waiting
  <2>. QED
    BY <2>1, <2>2 DEF Prompt, WaitForTurn
<1>4. PublishedIsTrue'
  BY DEF Prompt, WaitForTurn, PublishedIsTrue, Waiting, Summary, serverVars
<1>. QED
  BY <1>1, <1>2, <1>3, <1>4

(* onStop() resolves every waiter and forgets it; what is published stays. *)
LEMMA StopTurns ==
  ASSUME TypeOK, TurnInv, Stop
  PROVE  TurnInv'
<1>. USE PromptsAssumption DEF TypeOK, CallTypes, TurnTypes, TurnInv, Early, Stop
<1>1. NoCallLeftBehind'
  BY DEF NoCallLeftBehind, Interrupted
<1>2. HeldIsUnsettled'
  BY DEF HeldIsUnsettled, Waiting
<1>3. FreshIsUnsettled'
  BY DEF FreshIsUnsettled, HeldIsUnsettled, Waiting, Interrupted
<1>4. PublishedIsTrue'
  BY DEF PublishedIsTrue, Waiting
<1>. QED
  BY <1>1, <1>2, <1>3, <1>4

------------------------------------------------------------------------------
(* The inductive invariant *)

(* The initial state satisfies it. *)
LEMMA InitIInv == Init => IInv
<1>. SUFFICES ASSUME Init PROVE IInv
  OBVIOUS
<1>1. TypeOK
  BY InitTyped
<1>2. TurnInv
  BY DEF Init, TurnInv, NoCallLeftBehind, HeldIsUnsettled, FreshIsUnsettled, PublishedIsTrue,
         Waiting, Summary
<1>3. ReadsAreAccepted
  BY DEF Init, ReadsAreAccepted
<1>. QED
  BY <1>1, <1>2, <1>3 DEF IInv

(* Every step preserves it. *)
LEMMA NextIInv == IInv /\ [Next]_vars => IInv'
<1>. SUFFICES ASSUME TypeOK, TurnInv, ReadsAreAccepted, [Next]_vars
              PROVE  TurnInv' /\ ReadsAreAccepted'
  BY NextTyped DEF IInv
<1>. USE DEF vars, turnVars, flagVars, abortVars, sseVars, serverVars
<1>0. pc \in [Prompts -> Calls] /\ reads \in [Prompts -> [Callers -> ReadStage]]
  BY DEF TypeOK, CallTypes
<1>1. ASSUME NEW p \in Prompts, Ask(p) PROVE TurnInv' /\ ReadsAreAccepted'
  <2>1. PcKept
    BY <1>1, <1>0 DEF PcKept, Early, Ask
  <2>2. TurnsStep /\ stopping' = stopping
    BY <1>1 DEF TurnsStep, Outcomes, Ask
  <2>3. TurnInv'
    BY <2>1, <2>2, TurnsKept
  <2>4. ReadsAreAccepted'
    BY <1>1, <1>0 DEF ReadsAreAccepted, Ask
  <2>. QED
    BY <2>3, <2>4
<1>2. ASSUME NEW p \in Prompts, Refused(p) PROVE TurnInv' /\ ReadsAreAccepted'
  <2>1. PcKept
    BY <1>2, <1>0 DEF PcKept, Early, Refused
  <2>2. TurnsStep /\ stopping' = stopping
    BY <1>2 DEF TurnsStep, Outcomes, Refused
  <2>3. TurnInv'
    BY <2>1, <2>2, TurnsKept
  <2>4. ReadsAreAccepted'
    BY <1>2, <1>0 DEF ReadsAreAccepted, Refused
  <2>. QED
    BY <2>3, <2>4
<1>3. ASSUME NEW p \in Prompts, Prompt(p) PROVE TurnInv' /\ ReadsAreAccepted'
  <2>1. TurnInv'
    BY <1>3, PromptTurns
  <2>2. ReadsAreAccepted'
    BY <1>3, <1>0 DEF ReadsAreAccepted, Prompt
  <2>. QED
    BY <2>1, <2>2
<1>4. ASSUME NEW p \in Prompts, NotReady(p) PROVE TurnInv' /\ ReadsAreAccepted'
  <2>1. PcKept
    BY <1>4, <1>0 DEF PcKept, Early, NotReady
  <2>2. TurnsStep /\ stopping' = stopping
    BY <1>4 DEF TurnsStep, Outcomes, NotReady
  <2>3. TurnInv'
    BY <2>1, <2>2, TurnsKept
  <2>4. ReadsAreAccepted'
    BY <1>4, <1>0 DEF ReadsAreAccepted, NotReady
  <2>. QED
    BY <2>3, <2>4
<1>5. ASSUME NEW p \in Prompts, Snapshot(p) PROVE TurnInv' /\ ReadsAreAccepted'
  <2>1. PcKept
    BY <1>5, <1>0 DEF PcKept, Early, Snapshot, Reject
  <2>2. TurnsStep /\ stopping' = stopping
    BY <1>5, PromptsAssumption DEF TurnsStep, Outcomes, Snapshot, Reject
  <2>3. TurnInv'
    BY <2>1, <2>2, TurnsKept
  <2>4. ReadsAreAccepted'
    BY <1>5, <1>0 DEF ReadsAreAccepted, Snapshot, Reject
  <2>. QED
    BY <2>3, <2>4
<1>6. ASSUME NEW p \in Prompts, Acknowledged(p) PROVE TurnInv' /\ ReadsAreAccepted'
  <2>1. PcKept
    BY <1>6, <1>0 DEF PcKept, Early, Acknowledged
  <2>2. TurnsStep /\ stopping' = stopping
    BY <1>6 DEF TurnsStep, Outcomes, Acknowledged
  <2>3. TurnInv'
    BY <2>1, <2>2, TurnsKept
  <2>4. ReadsAreAccepted'
    BY <1>6, <1>0 DEF ReadsAreAccepted, Acknowledged, Started
  <2>. QED
    BY <2>3, <2>4
<1>7. ASSUME NEW p \in Prompts, Catch(p) PROVE TurnInv' /\ ReadsAreAccepted'
  <2>1. PcKept
    BY <1>7, <1>0 DEF PcKept, Early, Catch, Reject
  <2>2. TurnsStep /\ stopping' = stopping
    BY <1>7, PromptsAssumption DEF TurnsStep, Outcomes, Catch, Reject
  <2>3. TurnInv'
    BY <2>1, <2>2, TurnsKept
  <2>4. ReadsAreAccepted'
    BY <1>7, <1>0 DEF ReadsAreAccepted, Catch, Reject
  <2>. QED
    BY <2>3, <2>4
<1>8. ASSUME NEW p \in Prompts, Return(p) PROVE TurnInv' /\ ReadsAreAccepted'
  <2>1. PcKept
    BY <1>8, <1>0 DEF PcKept, Early, Return
  <2>2. TurnsStep /\ stopping' = stopping
    BY <1>8 DEF TurnsStep, Outcomes, Return
  <2>3. TurnInv'
    BY <2>1, <2>2, TurnsKept
  <2>4. ReadsAreAccepted'
    BY <1>8, <1>0 DEF ReadsAreAccepted, Return
  <2>. QED
    BY <2>3, <2>4
<1>9. ASSUME NEW p \in Prompts, EngineReceive(p) PROVE TurnInv' /\ ReadsAreAccepted'
  <2>1. PcKept
    BY <1>9, <1>0 DEF PcKept, Early, EngineReceive
  <2>2. TurnsStep /\ stopping' = stopping
    BY <1>9 DEF TurnsStep, Outcomes, EngineReceive
  <2>3. TurnInv'
    BY <2>1, <2>2, TurnsKept
  <2>4. ReadsAreAccepted'
    BY <1>9, <1>0 DEF ReadsAreAccepted, EngineReceive
  <2>. QED
    BY <2>3, <2>4
<1>10. ASSUME NEW p \in Prompts, NEW from, NEW to, NEW kinds, Advance(p, from, to, kinds)
      PROVE  TurnInv' /\ ReadsAreAccepted'
  <2>1. PcKept
    BY <1>10, <1>0 DEF PcKept, Early, Advance
  <2>2. TurnsStep /\ stopping' = stopping
    BY <1>10 DEF TurnsStep, Outcomes, Advance
  <2>3. TurnInv'
    BY <2>1, <2>2, TurnsKept
  <2>4. ReadsAreAccepted'
    BY <1>10, <1>0 DEF ReadsAreAccepted, Advance
  <2>. QED
    BY <2>3, <2>4
<1>11. ASSUME NEW p \in Prompts, EngineStart(p) \/ EngineAnswer(p) \/ EngineComplete(p) \/ EngineFail(p)
       PROVE  TurnInv' /\ ReadsAreAccepted'
  BY <1>11, <1>10 DEF EngineStart, EngineAnswer, EngineComplete, EngineFail
<1>12. ASSUME NEW p \in Prompts, NEW c \in Callers, ServeRead(p, c)
      PROVE  TurnInv' /\ ReadsAreAccepted'
  <2>1. PcKept
    BY <1>12, <1>0 DEF PcKept, Early, ServeRead
  <2>2. TurnsStep /\ stopping' = stopping
    BY <1>12 DEF TurnsStep, Outcomes, ServeRead
  <2>3. TurnInv'
    BY <2>1, <2>2, TurnsKept
  <2>4. ReadsAreAccepted'
    BY <1>12, <1>0 DEF ReadsAreAccepted, ServeRead
  <2>. QED
    BY <2>3, <2>4
<1>13. ASSUME NEW p \in Prompts, NEW c \in Callers, RefuseRead(p, c)
      PROVE  TurnInv' /\ ReadsAreAccepted'
  <2>1. PcKept
    BY <1>13, <1>0 DEF PcKept, Early, RefuseRead
  <2>2. TurnsStep /\ stopping' = stopping
    BY <1>13 DEF TurnsStep, Outcomes, RefuseRead
  <2>3. TurnInv'
    BY <2>1, <2>2, TurnsKept
  <2>4. ReadsAreAccepted'
    BY <1>13, <1>0 DEF ReadsAreAccepted, RefuseRead
  <2>. QED
    BY <2>3, <2>4
<1>14. ASSUME NEW p \in Prompts, NEW c \in Callers, ClassifyStatus(p, c)
      PROVE  TurnInv' /\ ReadsAreAccepted'
  <2>1. PcKept
    BY <1>14, <1>0 DEF PcKept, Early, ReadsAreAccepted, ClassifyStatus, EndRead
  <2>2. TurnsStep /\ stopping' = stopping
    BY <1>14, PromptsAssumption DEF TurnsStep, Outcomes, ClassifyStatus, EndRead
  <2>3. TurnInv'
    BY <2>1, <2>2, TurnsKept
  <2>4. ReadsAreAccepted'
    BY <1>14, <1>0 DEF ReadsAreAccepted, ClassifyStatus, EndRead
  <2>. QED
    BY <2>3, <2>4
<1>15. ASSUME NEW p \in Prompts, NEW c \in Callers, ReadHistory(p, c)
      PROVE  TurnInv' /\ ReadsAreAccepted'
  <2>1. PcKept
    BY <1>15, <1>0 DEF PcKept, Early, ReadsAreAccepted, ReadHistory, EndRead
  <2>2. TurnsStep /\ stopping' = stopping
    BY <1>15, PromptsAssumption DEF TurnsStep, Outcomes, ReadHistory, EndRead
  <2>3. TurnInv'
    BY <2>1, <2>2, TurnsKept
  <2>4. ReadsAreAccepted'
    BY <1>15, <1>0 DEF ReadsAreAccepted, ReadHistory, EndRead
  <2>. QED
    BY <2>3, <2>4
<1>16. ASSUME NEW p \in Prompts, NEW c \in Callers, ReadFailed(p, c)
      PROVE  TurnInv' /\ ReadsAreAccepted'
  <2>1. PcKept
    BY <1>16, <1>0 DEF PcKept, Early, ReadsAreAccepted, ReadFailed
  <2>2. TurnsStep /\ stopping' = stopping
    BY <1>16 DEF TurnsStep, Outcomes, ReadFailed
  <2>3. TurnInv'
    BY <2>1, <2>2, TurnsKept
  <2>4. ReadsAreAccepted'
    BY <1>16, <1>0 DEF ReadsAreAccepted, ReadFailed
  <2>. QED
    BY <2>3, <2>4
<1>17. ASSUME NEW s \in Sessions, ReceiveBusy(s) PROVE TurnInv' /\ ReadsAreAccepted'
  <2>1. PcKept
    BY <1>17, <1>0 DEF PcKept, Early, ReceiveBusy, Receive
  <2>2. TurnsStep /\ stopping' = stopping
    BY <1>17 DEF TurnsStep, Outcomes, ReceiveBusy, Receive
  <2>3. TurnInv'
    BY <2>1, <2>2, TurnsKept
  <2>4. ReadsAreAccepted'
    BY <1>17, <1>0 DEF ReadsAreAccepted, ReceiveBusy, Receive
  <2>. QED
    BY <2>3, <2>4
<1>18. ASSUME NEW s \in Sessions, ReceivePart(s) PROVE TurnInv' /\ ReadsAreAccepted'
  <2>1. PcKept
    BY <1>18, <1>0 DEF PcKept, Early, ReceivePart, Receive
  <2>2. TurnsStep /\ stopping' = stopping
    BY <1>18 DEF TurnsStep, Outcomes, ReceivePart, Receive
  <2>3. TurnInv'
    BY <2>1, <2>2, TurnsKept
  <2>4. ReadsAreAccepted'
    BY <1>18, <1>0 DEF ReadsAreAccepted, ReceivePart, Receive
  <2>. QED
    BY <2>3, <2>4
<1>19. ASSUME NEW s \in Sessions, ReceiveIdle(s) PROVE TurnInv' /\ ReadsAreAccepted'
  <2>1. PcKept
    BY <1>19, <1>0 DEF PcKept, Early, ReceiveIdle, Receive
  <2>2. TurnsStep /\ stopping' = stopping
    BY <1>19 DEF TurnsStep, Outcomes, ReceiveIdle, Receive
  <2>3. TurnInv'
    BY <2>1, <2>2, TurnsKept
  <2>4. ReadsAreAccepted'
    BY <1>19, <1>0 DEF ReadsAreAccepted, ReceiveIdle, Receive, TypeOK, TurnTypes, Waiting, Callers, Started
  <2>. QED
    BY <2>3, <2>4
<1>20. ASSUME NEW s \in Sessions, ReceiveError(s) PROVE TurnInv' /\ ReadsAreAccepted'
  <2>1. PcKept
    BY <1>20, <1>0 DEF PcKept, Early, ReceiveError, Receive
  <2>2. TurnsStep /\ stopping' = stopping
    BY <1>20 DEF TurnsStep, Outcomes, ReceiveError, Receive
  <2>3. TurnInv'
    BY <2>1, <2>2, TurnsKept
  <2>4. ReadsAreAccepted'
    BY <1>20, <1>0 DEF ReadsAreAccepted, ReceiveError, Receive
  <2>. QED
    BY <2>3, <2>4
<1>21. ASSUME NEW s \in Sessions, Abort(s) PROVE TurnInv' /\ ReadsAreAccepted'
  <2>1. PcKept
    BY <1>21, <1>0 DEF PcKept, Early, Abort, Interrupted
  <2>2. TurnsStep /\ stopping' = stopping
    BY <1>21 DEF TurnsStep, Outcomes, Abort
  <2>3. TurnInv'
    BY <2>1, <2>2, TurnsKept
  <2>4. ReadsAreAccepted'
    BY <1>21, <1>0 DEF ReadsAreAccepted, Abort, Interrupted
  <2>. QED
    BY <2>3, <2>4
<1>22. ASSUME NEW s \in Sessions, EngineAbort(s) PROVE TurnInv' /\ ReadsAreAccepted'
  <2>1. PcKept
    BY <1>22, <1>0 DEF PcKept, Early, EngineAbort
  <2>2. TurnsStep /\ stopping' = stopping
    BY <1>22 DEF TurnsStep, Outcomes, EngineAbort
  <2>3. TurnInv'
    BY <2>1, <2>2, TurnsKept
  <2>4. ReadsAreAccepted'
    BY <1>22, <1>0 DEF ReadsAreAccepted, EngineAbort
  <2>. QED
    BY <2>3, <2>4
<1>23. ASSUME NEW s \in Sessions, AbortReturn(s) PROVE TurnInv' /\ ReadsAreAccepted'
  <2>1. PcKept
    BY <1>23, <1>0 DEF PcKept, Early, AbortReturn
  <2>2. TurnsStep /\ stopping' = stopping
    BY <1>23 DEF TurnsStep, Outcomes, AbortReturn
  <2>3. TurnInv'
    BY <2>1, <2>2, TurnsKept
  <2>4. ReadsAreAccepted'
    BY <1>23, <1>0 DEF ReadsAreAccepted, AbortReturn
  <2>. QED
    BY <2>3, <2>4
<1>24. CASE Connect
  <2>1. PcKept
    BY <1>24, <1>0 DEF PcKept, Early, Connect
  <2>2. TurnsStep /\ stopping' = stopping
    BY <1>24 DEF TurnsStep, Outcomes, Connect
  <2>3. TurnInv'
    BY <2>1, <2>2, TurnsKept
  <2>4. ReadsAreAccepted'
    BY <1>24, <1>0 DEF ReadsAreAccepted, Connect, Held, Started
  <2>. QED
    BY <2>3, <2>4
<1>25. CASE Cut
  <2>1. PcKept
    BY <1>25, <1>0 DEF PcKept, Early, Cut
  <2>2. TurnsStep /\ stopping' = stopping
    BY <1>25 DEF TurnsStep, Outcomes, Cut
  <2>3. TurnInv'
    BY <2>1, <2>2, TurnsKept
  <2>4. ReadsAreAccepted'
    BY <1>25, <1>0 DEF ReadsAreAccepted, Cut
  <2>. QED
    BY <2>3, <2>4
<1>26. CASE Crash
  <2>1. PcKept
    BY <1>26, <1>0 DEF PcKept, Early, Crash, LoseServer, Requesting
  <2>2. TurnsStep /\ stopping' = stopping
    BY <1>26 DEF TurnsStep, Outcomes, Crash, LoseServer
  <2>3. TurnInv'
    BY <2>1, <2>2, TurnsKept
  <2>4. ReadsAreAccepted'
    BY <1>26, <1>0 DEF ReadsAreAccepted, Crash, LoseServer, Requesting
  <2>. QED
    BY <2>3, <2>4
<1>27. CASE Reconfigure
  <2>1. PcKept
    BY <1>27, <1>0 DEF PcKept, Early, Reconfigure, LoseServer, Requesting
  <2>2. TurnsStep /\ stopping' = stopping
    BY <1>27 DEF TurnsStep, Outcomes, Reconfigure, LoseServer
  <2>3. TurnInv'
    BY <2>1, <2>2, TurnsKept
  <2>4. ReadsAreAccepted'
    BY <1>27, <1>0 DEF ReadsAreAccepted, Reconfigure, LoseServer, Requesting, Interrupted
  <2>. QED
    BY <2>3, <2>4
<1>28. CASE Restart
  <2>1. PcKept
    BY <1>28, <1>0 DEF PcKept, Early, Restart
  <2>2. TurnsStep /\ stopping' = stopping
    BY <1>28 DEF TurnsStep, Outcomes, Restart
  <2>3. TurnInv'
    BY <2>1, <2>2, TurnsKept
  <2>4. ReadsAreAccepted'
    BY <1>28, <1>0 DEF ReadsAreAccepted, Restart
  <2>. QED
    BY <2>3, <2>4
<1>29. CASE Stop
  <2>1. TurnInv'
    BY <1>29, StopTurns
  <2>2. ReadsAreAccepted'
    BY <1>29, <1>0 DEF ReadsAreAccepted, Stop, Interrupted
  <2>. QED
    BY <2>1, <2>2
<1>30. CASE ServerExit
  <2>1. NoCallLeftBehind' /\ HeldIsUnsettled' /\ FreshIsUnsettled'
    <3>1. PcKept /\ UNCHANGED <<waiters, outcome>>
      BY <1>30, <1>0 DEF ServerExit, LoseServer, Requesting, PcKept, Early
    <3>. QED
      BY <3>1 DEF PcKept, TurnInv, NoCallLeftBehind, HeldIsUnsettled, FreshIsUnsettled, Waiting,
                  Early, TypeOK, TurnTypes
  <2>2. PublishedIsTrue'
    BY <1>30 DEF ServerExit, LoseServer, TurnInv, PublishedIsTrue, Waiting
  <2>3. ReadsAreAccepted'
    BY <1>30, <1>0 DEF ServerExit, LoseServer, Requesting, ReadsAreAccepted
  <2>. QED
    BY <2>1, <2>2, <2>3 DEF TurnInv
<1>31. CASE UNCHANGED vars
  <2>1. PcKept
    BY <1>31, <1>0 DEF PcKept, Early, vars
  <2>2. TurnsStep /\ stopping' = stopping
    BY <1>31 DEF TurnsStep, Outcomes, vars
  <2>3. TurnInv'
    BY <2>1, <2>2, TurnsKept
  <2>4. ReadsAreAccepted'
    BY <1>31, <1>0 DEF ReadsAreAccepted, vars
  <2>. QED
    BY <2>3, <2>4
<1>32. ASSUME NEW p \in Prompts, Post(p) PROVE TurnInv' /\ ReadsAreAccepted'
  <2>1. PcKept
    BY <1>32, <1>0 DEF PcKept, Early, Post, Reject
  <2>2. TurnsStep /\ stopping' = stopping
    BY <1>32, PromptsAssumption DEF TurnsStep, Outcomes, Post, Reject
  <2>3. TurnInv'
    BY <2>1, <2>2, TurnsKept
  <2>4. ReadsAreAccepted'
    BY <1>32, <1>0 DEF ReadsAreAccepted, Post, Reject
  <2>. QED
    BY <2>3, <2>4
<1>33. ASSUME NEW p \in Prompts, Unready(p) PROVE TurnInv' /\ ReadsAreAccepted'
  <2>1. PcKept
    BY <1>33, <1>0 DEF PcKept, Early, Unready
  <2>2. TurnsStep /\ stopping' = stopping
    BY <1>33, PromptsAssumption DEF TurnsStep, Outcomes, Unready
  <2>3. TurnInv'
    BY <2>1, <2>2, TurnsKept
  <2>4. ReadsAreAccepted'
    BY <1>33, <1>0 DEF ReadsAreAccepted, Unready
  <2>. QED
    BY <2>3, <2>4
<1>. QED
  <2>1. ASSUME NEW p \in Prompts, Call(p) PROVE TurnInv' /\ ReadsAreAccepted'
    BY <2>1, <1>3, <1>4, <1>5, <1>6, <1>7, <1>8, <1>32, <1>33 DEF Call
  <2>2. ASSUME NEW p \in Prompts, Engine(p) PROVE TurnInv' /\ ReadsAreAccepted'
    BY <2>2, <1>9, <1>11 DEF Engine
  <2>3. ASSUME NEW p \in Prompts, NEW c \in Callers, Read(p, c) PROVE TurnInv' /\ ReadsAreAccepted'
    BY <2>3, <1>12, <1>14, <1>15, <1>16 DEF Read
  <2>4. ASSUME NEW s \in Sessions, Deliver(s) PROVE TurnInv' /\ ReadsAreAccepted'
    BY <2>4, <1>17, <1>18, <1>19, <1>20 DEF Deliver
  <2>. QED
    BY <2>1, <2>2, <2>3, <2>4, <1>1, <1>2, <1>11, <1>13, <1>21, <1>22, <1>23, <1>24, <1>25,
       <1>26, <1>27, <1>28, <1>29, <1>30, <1>31 DEF Next

------------------------------------------------------------------------------

(* IInv holds of every reachable state. *)
THEOREM Inductive == Spec => []IInv
  BY InitIInv, NextIInv, PTL DEF Spec

(* The variables hold what the code puts there. *)
THEOREM Typed == Spec => []TypeOK
<1>1. IInv => TypeOK
  BY DEF IInv
<1>. QED
  BY <1>1, Inductive, PTL

(* A call of prompt() past waitForTurn() still holds the waiter of its session *)
(* or its promise is resolved: `await done` never waits on a waiter that       *)
(* turnWaiters has forgotten.                                                  *)
THEOREM CallsAreKept == Spec => []NoCallLeftBehind
<1>1. IInv => NoCallLeftBehind
  BY DEF IInv, TurnInv
<1>. QED
  BY <1>1, Inductive, PTL

(* finishTurn() settles a turn once: a waiter that is held was never settled. *)
THEOREM SettledOnce == Spec => []HeldIsUnsettled
<1>1. IInv => HeldIsUnsettled
  BY DEF IInv, TurnInv
<1>. QED
  BY <1>1, Inductive, PTL

(* Until the IDE closes, the activity the frontend was last told is the one of *)
(* the waiters and phases the service holds.                                   *)
THEOREM ActivityIsTrue == Spec => []PublishedIsTrue
<1>1. IInv => PublishedIsTrue
  BY DEF IInv, TurnInv
<1>. QED
  BY <1>1, Inductive, PTL

------------------------------------------------------------------------------
(* One call of prompt() in a session: what is reported complete is complete.  *)

Through(p) == run[p] \in {"done", "dead"}

Unsent == {"new", "ensure", "snapshot", "snapped", "post"}

(* What is not sent does not run, and what is acknowledged was sent. *)
SentAreRuns ==
  \A p \in Prompts : /\ pc[p] \in Unsent => run[p] = "none"
                     /\ pc[p] = "posted" \/ p \in accepted => run[p] # "none"

(* The idles on the stream are of runs that are over. *)
EventsArePast ==
  \A i \in 1..Len(stream), p \in Prompts :
    SessionOf[p] = stream[i].session /\ stream[i].kind = "idle" => Through(p)

(* The answers on the way are past too, unless the absence is an early one. *)
AnswersArePast ==
  \A p \in Prompts, c \in Callers : reads[p][c] \in {"absent", "completed"} => Through(p)

EndsArePast == SentAreRuns /\ EventsArePast /\ AnswersArePast /\ NoPrematureIdle

(* Runs only go on. *)
RunsGoOn ==
  \A p \in Prompts : /\ Through(p) => Through(p)'
                     /\ run[p] # "none" => run'[p] # "none"

(* A step that takes no evidence of an end from the sidecar, and reports no    *)
(* end but what is past.                                                      *)
PastKept ==
  /\ RunsGoOn
  /\ \A p \in Prompts : pc'[p] \in Unsent => pc[p] \in Unsent /\ run'[p] = run[p]
  /\ \A p \in Prompts : pc'[p] = "posted" => pc[p] = "posted" \/ run'[p] # "none"
  /\ \A p \in accepted' : p \in accepted \/ pc[p] = "posted"
  /\ \A p \in Prompts : outcome'[p] = "idle" => outcome[p] = "idle" \/ Through(p)
  /\ \A p \in Prompts, c \in Callers :
       reads'[p][c] \in {"absent", "completed"} => reads'[p][c] = reads[p][c]

(* The stream gets no event. *)
StreamKept == \A i \in 1..Len(stream') : \E j \in 1..Len(stream) : stream'[i] = stream[j]

LEMMA PastIsKept ==
  ASSUME TypeOK', EndsArePast, PastKept, EventsArePast'
  PROVE  EndsArePast'
<1>1. SentAreRuns'
  BY DEF EndsArePast, PastKept, RunsGoOn, SentAreRuns, TypeOK, CallTypes
<1>3. AnswersArePast'
  BY DEF EndsArePast, PastKept, RunsGoOn, AnswersArePast
<1>5. NoPrematureIdle'
  BY DEF EndsArePast, PastKept, RunsGoOn, NoPrematureIdle, Through
<1>. QED
  BY <1>1, <1>3, <1>5 DEF EndsArePast

LEMMA EventsKept ==
  ASSUME EventsArePast, RunsGoOn, StreamKept
  PROVE  EventsArePast'
BY DEF EventsArePast, RunsGoOn, StreamKept

(* What is left of the stream is what it was. *)
LEMMA StreamsKept ==
  ASSUME StreamTypes
  PROVE  /\ stream' = stream => StreamKept
         /\ stream' = <<>> => StreamKept
         /\ stream # <<>> /\ stream' = Tail(stream) => StreamKept
<1>1. stream \in Seq(Event)
  BY DEF StreamTypes
<1>2. ASSUME stream # <<>>, stream' = Tail(stream) PROVE StreamKept
  <2>1. Len(stream) \in Nat /\ Len(stream) # 0 /\ Len(stream') = Len(stream) - 1
    BY <1>1, <1>2
  <2>2. \A i \in 1..Len(stream') : stream'[i] = stream[i + 1] /\ i + 1 \in 1..Len(stream)
    BY <1>1, <1>2, <2>1
  <2>. QED
    BY <2>2 DEF StreamKept
<1>3. ASSUME stream' = <<>> PROVE StreamKept
  BY <1>3 DEF StreamKept
<1>. QED
  BY <1>2, <1>3 DEF StreamKept

(* The events the engine emits are past if they are past for its session. *)
LEMMA EventsEmitted ==
  ASSUME StreamTypes, EventsArePast, RunsGoOn, NEW s \in Sessions, NEW kinds \in Seq(Kinds),
         stream' = Emitted(s, kinds),
         \A p \in Prompts, j \in 1..Len(kinds) :
           SessionOf[p] = s /\ kinds[j] = "idle" => Through(p)'
  PROVE  EventsArePast'
<1>. DEFINE new == [i \in 1..Len(kinds) |-> [session |-> s, kind |-> kinds[i]]]
<1>1. stream \in Seq(Event) /\ new \in Seq(Event) /\ Len(new) = Len(kinds)
  BY DEF StreamTypes, Event
<1>2. CASE stream' = stream
  BY <1>2, EventsKept DEF StreamKept
<1>3. CASE stream' = stream \o new
  <2>1. \A i \in 1..Len(stream') : \/ \E j \in 1..Len(stream) : stream'[i] = stream[j]
                                   \/ \E j \in 1..Len(kinds) : stream'[i] = new[j]
    <3>. SUFFICES ASSUME NEW i \in 1..Len(stream')
                  PROVE  \/ \E j \in 1..Len(stream) : stream'[i] = stream[j]
                         \/ \E j \in 1..Len(kinds) : stream'[i] = new[j]
      OBVIOUS
    <3>. HIDE DEF new
    <3>4. Len(stream) \in Nat /\ Len(new) \in Nat /\ Len(stream \o new) = Len(stream) + Len(new)
      BY <1>1
    <3>1. Len(stream') = Len(stream) + Len(kinds) /\ Len(stream) \in Nat /\ Len(kinds) \in Nat
      BY <1>1, <1>3, <3>4
    <3>2. CASE i <= Len(stream)
      BY <1>1, <1>3, <3>1, <3>2
    <3>3. CASE i > Len(stream)
      <4>1. i - Len(stream) \in 1..Len(kinds) /\ stream'[i] = new[i - Len(stream)]
        BY <1>1, <1>3, <3>1, <3>3
      <4>. QED
        BY <4>1
    <3>. QED
      BY <3>1, <3>2, <3>3
  <2>2. \A j \in 1..Len(kinds) : new[j] = [session |-> s, kind |-> kinds[j]]
    OBVIOUS
  <2>. HIDE DEF new
  <2>3. ASSUME NEW i \in 1..Len(stream'), NEW p \in Prompts, SessionOf[p] = stream'[i].session
        PROVE  stream'[i].kind = "idle" => Through(p)'
    <3>1. CASE \E j \in 1..Len(stream) : stream'[i] = stream[j]
      BY <2>3, <3>1 DEF EventsArePast, RunsGoOn
    <3>2. CASE \E j \in 1..Len(kinds) : stream'[i] = new[j]
      <4>1. PICK j \in 1..Len(kinds) : stream'[i] = new[j]
        BY <3>2
      <4>3. stream'[i] = [session |-> s, kind |-> kinds[j]]
        BY <4>1, <2>2
      <4>2. stream'[i].session = s /\ stream'[i].kind = kinds[j]
        BY <4>3
      <4>. QED
        BY <2>3, <4>2
    <3>. QED
      BY <2>1, <3>1, <3>2
  <2>. QED
    BY <2>3 DEF EventsArePast
<1>. QED
  BY <1>2, <1>3 DEF Emitted

(* The loss of the sidecar ends the runs, and answers nothing. *)
LEMMA LossKeepsPast ==
  ASSUME TypeOK, SentAreRuns, NEW returned, LoseServer(returned)
  PROVE  /\ RunsGoOn /\ StreamKept
         /\ \A p \in Prompts : pc'[p] \in Unsent => pc[p] \in Unsent /\ run'[p] = run[p]
         /\ \A p \in Prompts : pc'[p] = "posted" => pc[p] = "posted"
         /\ \A p \in Prompts, c \in Callers :
              reads'[p][c] \in {"absent", "completed"} => reads'[p][c] = reads[p][c]
<1>1. pc \in [Prompts -> Calls] /\ reads \in [Prompts -> [Callers -> ReadStage]] /\ run \in [Prompts -> Runs]
      /\ StreamTypes
  BY DEF TypeOK, CallTypes
<1>2. RunsGoOn
  BY <1>1 DEF LoseServer, RunsGoOn, Through
<1>3. StreamKept
  BY <1>1, StreamsKept DEF LoseServer
<1>4. \A p \in Prompts : pc'[p] \in Unsent => pc[p] \in Unsent /\ run'[p] = run[p]
  BY <1>1 DEF LoseServer, Unsent, SentAreRuns, Requesting
<1>5. \A p \in Prompts : pc'[p] = "posted" => pc[p] = "posted"
  BY <1>1 DEF LoseServer, Requesting
<1>6. \A p \in Prompts, c \in Callers :
        reads'[p][c] \in {"absent", "completed"} => reads'[p][c] = reads[p][c]
  BY <1>1 DEF LoseServer
<1>. QED
  BY <1>2, <1>3, <1>4, <1>5, <1>6

(* The next event of the stream is past like the others. *)
LEMMA ReceivedIsPast ==
  ASSUME StreamTypes, EventsArePast, NEW s \in Sessions, Receive(s, "idle")
  PROVE  \A p \in Prompts : SessionOf[p] = s => Through(p)
<1>1. stream \in Seq(Event) /\ stream # <<>>
  BY DEF StreamTypes, Receive
<1>2. 1 \in 1..Len(stream) /\ Head(stream) = stream[1]
  BY <1>1
<1>3. stream[1] = [session |-> s, kind |-> "idle"]
  BY <1>2 DEF Receive
<1>4. stream[1].session = s /\ stream[1].kind = "idle"
  BY <1>3
<1>. QED
  BY <1>2, <1>4 DEF EventsArePast

------------------------------------------------------------------------------

(* What the service learns of an end is past, and with one call in each       *)
(* session it is about that call.                                             *)
LEMMA PastStep ==
  ASSUME \A p, q \in Prompts : SessionOf[p] = SessionOf[q] => p = q,
         TypeOK, TypeOK', HeldIsUnsettled, ReadsAreAccepted, EndsArePast, [Next]_vars
  PROVE  EndsArePast'
<1>. USE DEF turnVars, flagVars, abortVars, sseVars, serverVars
<1>1. /\ pc \in [Prompts -> Calls] /\ reads \in [Prompts -> [Callers -> ReadStage]]
      /\ run \in [Prompts -> Runs] /\ waiters \in [Sessions -> Prompts \cup {NoPrompt}]
      /\ outcome \in [Prompts -> Outcomes] /\ accepted \subseteq Prompts /\ StreamTypes
      /\ SessionOf \in [Prompts -> Sessions] /\ NoPrompt \notin Prompts
  BY PromptsAssumption DEF TypeOK, CallTypes, TurnTypes
<1>2. SentAreRuns /\ EventsArePast /\ AnswersArePast /\ NoPrematureIdle
  BY DEF EndsArePast
<1>3. ASSUME PastKept, StreamKept PROVE EndsArePast'
  BY <1>2, <1>3, PastIsKept, EventsKept DEF PastKept
<1>4. ASSUME NEW p \in Prompts, Ask(p) PROVE EndsArePast'
  <2>1. PastKept
    BY <1>4, <1>1, <1>2 DEF Ask, PastKept, RunsGoOn, Through, Unsent
  <2>2. StreamKept
    BY <1>4, <1>1, StreamsKept DEF Ask
  <2>. QED
    BY <2>1, <2>2, <1>3
<1>5. ASSUME NEW p \in Prompts, Refused(p) PROVE EndsArePast'
  <2>1. PastKept
    BY <1>5, <1>1, <1>2 DEF Refused, PastKept, RunsGoOn, Through, Unsent
  <2>2. StreamKept
    BY <1>5, <1>1, StreamsKept DEF Refused
  <2>. QED
    BY <2>1, <2>2, <1>3
<1>6. ASSUME NEW p \in Prompts, Prompt(p) PROVE EndsArePast'
  <2>1. PastKept
    BY <1>6, <1>1, <1>2 DEF Prompt, WaitForTurn, PastKept, RunsGoOn, Through, Unsent
  <2>2. StreamKept
    BY <1>6, <1>1, StreamsKept DEF Prompt, WaitForTurn
  <2>. QED
    BY <2>1, <2>2, <1>3
<1>7. ASSUME NEW p \in Prompts, NotReady(p) PROVE EndsArePast'
  <2>1. PastKept
    BY <1>7, <1>1, <1>2 DEF NotReady, PastKept, RunsGoOn, Through, Unsent
  <2>2. StreamKept
    BY <1>7, <1>1, StreamsKept DEF NotReady
  <2>. QED
    BY <2>1, <2>2, <1>3
<1>8. ASSUME NEW p \in Prompts, Snapshot(p) PROVE EndsArePast'
  <2>1. PastKept
    BY <1>8, <1>1, <1>2 DEF Snapshot, PastKept, RunsGoOn, Through, Unsent
  <2>2. StreamKept
    BY <1>8, <1>1, StreamsKept DEF Snapshot
  <2>. QED
    BY <2>1, <2>2, <1>3
<1>9. ASSUME NEW p \in Prompts, Post(p) PROVE EndsArePast'
  <2>1. PastKept
    BY <1>9, <1>1, <1>2 DEF Post, Reject, FinishTurns, PastKept, RunsGoOn, Through, Unsent
  <2>2. StreamKept
    BY <1>9, <1>1, StreamsKept DEF Post, Reject, FinishTurns
  <2>. QED
    BY <2>1, <2>2, <1>3
<1>10. ASSUME NEW p \in Prompts, Unready(p) PROVE EndsArePast'
  <2>1. PastKept
    BY <1>10, <1>1, <1>2 DEF Unready, PastKept, RunsGoOn, Through, Unsent
  <2>2. StreamKept
    BY <1>10, <1>1, StreamsKept DEF Unready
  <2>. QED
    BY <2>1, <2>2, <1>3
<1>11. ASSUME NEW p \in Prompts, Acknowledged(p) PROVE EndsArePast'
  <2>1. PastKept
    BY <1>11, <1>1, <1>2 DEF Acknowledged, Started, PastKept, RunsGoOn, Through, Unsent
  <2>2. StreamKept
    BY <1>11, <1>1, StreamsKept DEF Acknowledged, Started
  <2>. QED
    BY <2>1, <2>2, <1>3
<1>12. ASSUME NEW p \in Prompts, Catch(p) PROVE EndsArePast'
  <2>1. PastKept
    BY <1>12, <1>1, <1>2 DEF Catch, Reject, FinishTurns, PastKept, RunsGoOn, Through, Unsent
  <2>2. StreamKept
    BY <1>12, <1>1, StreamsKept DEF Catch, Reject, FinishTurns
  <2>. QED
    BY <2>1, <2>2, <1>3
<1>13. ASSUME NEW p \in Prompts, Return(p) PROVE EndsArePast'
  <2>1. PastKept
    BY <1>13, <1>1, <1>2 DEF Return, PastKept, RunsGoOn, Through, Unsent
  <2>2. StreamKept
    BY <1>13, <1>1, StreamsKept DEF Return
  <2>. QED
    BY <2>1, <2>2, <1>3
<1>14. ASSUME NEW p \in Prompts, EngineReceive(p) PROVE EndsArePast'
  <2>1. PastKept
    BY <1>14, <1>1, <1>2 DEF EngineReceive, SentAreRuns, PastKept, RunsGoOn, Through, Unsent
  <2>2. StreamKept
    BY <1>14, <1>1, StreamsKept DEF EngineReceive, SentAreRuns
  <2>. QED
    BY <2>1, <2>2, <1>3
<1>15. ASSUME NEW p \in Prompts, NEW c \in Callers, RefuseRead(p, c) PROVE EndsArePast'
  <2>1. PastKept
    BY <1>15, <1>1, <1>2 DEF RefuseRead, PastKept, RunsGoOn, Through, Unsent
  <2>2. StreamKept
    BY <1>15, <1>1, StreamsKept DEF RefuseRead
  <2>. QED
    BY <2>1, <2>2, <1>3
<1>16. ASSUME NEW p \in Prompts, NEW c \in Callers, ClassifyStatus(p, c) PROVE EndsArePast'
  <2>3. UNCHANGED <<run, accepted>> /\ RunsGoOn
    BY <1>16 DEF ClassifyStatus, RunsGoOn, Through
  <2>4. \A q \in Prompts : pc'[q] \in Unsent \cup {"posted"} => pc'[q] = pc[q]
    BY <1>16, <1>1 DEF ClassifyStatus, EndRead, Unsent
  <2>5. \A q \in Prompts, d \in Callers :
          reads'[q][d] \in {"absent", "completed"} => reads'[q][d] = reads[q][d]
    BY <1>16, <1>1 DEF ClassifyStatus, EndRead
  <2>6. \A q \in Prompts : outcome'[q] = "idle" => outcome[q] = "idle" \/ Through(q)
    BY <1>16, <1>1, <1>2 DEF ClassifyStatus, FinishTurns, AnswersArePast
  <2>1. PastKept
    BY <2>3, <2>4, <2>5, <2>6 DEF PastKept, Unsent
  <2>2. StreamKept
    BY <1>16, <1>1, StreamsKept DEF ClassifyStatus, EndRead, FinishTurns, AnswersArePast
  <2>. QED
    BY <2>1, <2>2, <1>3
<1>17. ASSUME NEW p \in Prompts, NEW c \in Callers, ReadHistory(p, c) PROVE EndsArePast'
  <2>1. PastKept
    BY <1>17, <1>1, <1>2 DEF ReadHistory, EndRead, FinishTurns, AnswersArePast, PastKept, RunsGoOn, Through, Unsent
  <2>2. StreamKept
    BY <1>17, <1>1, StreamsKept DEF ReadHistory, EndRead, FinishTurns, AnswersArePast
  <2>. QED
    BY <2>1, <2>2, <1>3
<1>18. ASSUME NEW p \in Prompts, NEW c \in Callers, ReadFailed(p, c) PROVE EndsArePast'
  <2>1. PastKept
    BY <1>18, <1>1, <1>2 DEF ReadFailed, PastKept, RunsGoOn, Through, Unsent
  <2>2. StreamKept
    BY <1>18, <1>1, StreamsKept DEF ReadFailed
  <2>. QED
    BY <2>1, <2>2, <1>3
<1>19. ASSUME NEW s \in Sessions, ReceiveBusy(s) PROVE EndsArePast'
  <2>1. PastKept
    BY <1>19, <1>1, <1>2 DEF ReceiveBusy, Receive, MarkActive, PastKept, RunsGoOn, Through, Unsent
  <2>2. StreamKept
    BY <1>19, <1>1, StreamsKept DEF ReceiveBusy, Receive, MarkActive
  <2>. QED
    BY <2>1, <2>2, <1>3
<1>20. ASSUME NEW s \in Sessions, ReceivePart(s) PROVE EndsArePast'
  <2>1. PastKept
    BY <1>20, <1>1, <1>2 DEF ReceivePart, Receive, MarkActive, SetGenerating, PastKept, RunsGoOn, Through, Unsent
  <2>2. StreamKept
    BY <1>20, <1>1, StreamsKept DEF ReceivePart, Receive, MarkActive, SetGenerating
  <2>. QED
    BY <2>1, <2>2, <1>3
<1>21. ASSUME NEW s \in Sessions, ReceiveIdle(s) PROVE EndsArePast'
  <2>3. Receive(s, "idle")
    BY <1>21 DEF ReceiveIdle
  <2>4. \A p \in Prompts : SessionOf[p] = s => Through(p)
    BY <2>3, <1>1, <1>2, ReceivedIsPast
  <2>5. UNCHANGED <<pc, run, accepted>>
    BY <2>3 DEF Receive
  <2>6. Waiting(s) => waiters[s] \in Prompts /\ SessionOf[waiters[s]] = s
    BY <1>1 DEF HeldIsUnsettled, Waiting
  <2>7. RunsGoOn
    BY <2>5 DEF RunsGoOn, Through
  <2>8. \A p \in Prompts : outcome'[p] = "idle" => outcome[p] = "idle" \/ Through(p)
    BY <1>21, <2>4, <1>1 DEF ReceiveIdle, FinishTurns
  <2>9. \A p \in Prompts, c \in Callers :
          reads'[p][c] \in {"absent", "completed"} => reads'[p][c] = reads[p][c]
    <3>1. CASE UNCHANGED reads
      BY <3>1
    <3>2. ASSUME NEW d \in Callers, Waiting(s),
                 reads' = [reads EXCEPT ![waiters[s]] = Started(reads[waiters[s]], d)]
          PROVE  \A p \in Prompts, c \in Callers :
                   reads'[p][c] \in {"absent", "completed"} => reads'[p][c] = reads[p][c]
      BY <3>2, <2>6, <1>1 DEF Started
    <3>. QED
      BY <1>21, <3>1, <3>2 DEF ReceiveIdle, Callers
  <2>1. PastKept
    BY <2>5, <2>7, <2>8, <2>9 DEF PastKept
  <2>2. StreamKept
    BY <2>3, <1>1, StreamsKept DEF Receive
  <2>. QED
    BY <2>1, <2>2, <1>3
<1>22. ASSUME NEW s \in Sessions, ReceiveError(s) PROVE EndsArePast'
  <2>1. PastKept
    BY <1>22, <1>1, <1>2 DEF ReceiveError, Receive, FinishTurns, PastKept, RunsGoOn, Through, Unsent
  <2>2. StreamKept
    BY <1>22, <1>1, StreamsKept DEF ReceiveError, Receive, FinishTurns
  <2>. QED
    BY <2>1, <2>2, <1>3
<1>23. ASSUME NEW s \in Sessions, Abort(s) PROVE EndsArePast'
  <2>1. PastKept
    BY <1>23, <1>1, <1>2 DEF Abort, FinishTurns, Interrupted, PastKept, RunsGoOn, Through, Unsent
  <2>2. StreamKept
    BY <1>23, <1>1, StreamsKept DEF Abort, FinishTurns, Interrupted
  <2>. QED
    BY <2>1, <2>2, <1>3
<1>24. ASSUME NEW s \in Sessions, AbortReturn(s) PROVE EndsArePast'
  <2>1. PastKept
    BY <1>24, <1>1, <1>2 DEF AbortReturn, FinishTurns, PastKept, RunsGoOn, Through, Unsent
  <2>2. StreamKept
    BY <1>24, <1>1, StreamsKept DEF AbortReturn, FinishTurns
  <2>. QED
    BY <2>1, <2>2, <1>3
<1>25. CASE Connect
  <2>1. PastKept
    BY <1>25, <1>1, <1>2 DEF Connect, Started, PastKept, RunsGoOn, Through, Unsent
  <2>2. StreamKept
    BY <1>25, <1>1, StreamsKept DEF Connect, Started
  <2>. QED
    BY <2>1, <2>2, <1>3
<1>26. CASE Cut
  <2>1. PastKept
    BY <1>26, <1>1, <1>2 DEF Cut, PastKept, RunsGoOn, Through, Unsent
  <2>2. StreamKept
    BY <1>26, <1>1, StreamsKept DEF Cut
  <2>. QED
    BY <2>1, <2>2, <1>3
<1>27. CASE Crash
  <2>3. LoseServer({})
    BY <1>27 DEF Crash
  <2>4. RunsGoOn /\ StreamKept
        /\ (\A p \in Prompts : pc'[p] \in Unsent => pc[p] \in Unsent /\ run'[p] = run[p])
        /\ (\A p \in Prompts : pc'[p] = "posted" => pc[p] = "posted")
        /\ (\A p \in Prompts, c \in Callers :
               reads'[p][c] \in {"absent", "completed"} => reads'[p][c] = reads[p][c])
    BY <2>3, <1>2, LossKeepsPast
  <2>1. PastKept
    BY <1>27, <2>4, <1>1 DEF Crash, FinishTurns, PastKept
  <2>. QED
    BY <2>1, <2>4, <1>3
<1>28. CASE Reconfigure
  <2>3. LoseServer(Interrupted(Sessions))
    BY <1>28 DEF Reconfigure
  <2>4. RunsGoOn /\ StreamKept
        /\ (\A p \in Prompts : pc'[p] \in Unsent => pc[p] \in Unsent /\ run'[p] = run[p])
        /\ (\A p \in Prompts : pc'[p] = "posted" => pc[p] = "posted")
        /\ (\A p \in Prompts, c \in Callers :
               reads'[p][c] \in {"absent", "completed"} => reads'[p][c] = reads[p][c])
    BY <2>3, <1>2, LossKeepsPast
  <2>1. PastKept
    BY <1>28, <2>4, <1>1 DEF Reconfigure, FinishTurns, PastKept
  <2>. QED
    BY <2>1, <2>4, <1>3
<1>29. CASE Restart
  <2>1. PastKept
    BY <1>29, <1>1, <1>2 DEF Restart, PastKept, RunsGoOn, Through, Unsent
  <2>2. StreamKept
    BY <1>29, <1>1, StreamsKept DEF Restart
  <2>. QED
    BY <2>1, <2>2, <1>3
<1>30. CASE Stop
  <2>1. PastKept
    BY <1>30, <1>1, <1>2 DEF Stop, Interrupted, PastKept, RunsGoOn, Through, Unsent
  <2>2. StreamKept
    BY <1>30, <1>1, StreamsKept DEF Stop, Interrupted
  <2>. QED
    BY <2>1, <2>2, <1>3
<1>31. CASE ServerExit
  <2>3. LoseServer({})
    BY <1>31 DEF ServerExit
  <2>4. RunsGoOn /\ StreamKept
        /\ (\A p \in Prompts : pc'[p] \in Unsent => pc[p] \in Unsent /\ run'[p] = run[p])
        /\ (\A p \in Prompts : pc'[p] = "posted" => pc[p] = "posted")
        /\ (\A p \in Prompts, c \in Callers :
               reads'[p][c] \in {"absent", "completed"} => reads'[p][c] = reads[p][c])
    BY <2>3, <1>2, LossKeepsPast
  <2>1. PastKept
    BY <1>31, <2>4, <1>1 DEF ServerExit, PastKept
  <2>. QED
    BY <2>1, <2>4, <1>3
<1>32. CASE UNCHANGED vars
  <2>1. PastKept
    BY <1>32, <1>1, <1>2 DEF vars, PastKept, RunsGoOn, Through, Unsent
  <2>2. StreamKept
    BY <1>32, <1>1, StreamsKept DEF vars
  <2>. QED
    BY <2>1, <2>2, <1>3
<1>40. ASSUME NEW p \in Prompts, NEW from, NEW to, NEW kinds \in Seq(Kinds), Advance(p, from, to, kinds),
              <<from, to>> \in {<<"queued", "busy">>, <<"busy", "answering">>, <<"answering", "done">>, <<"busy", "done">>},
              \A j \in 1..Len(kinds) : kinds[j] = "idle" => to = "done"
       PROVE  EndsArePast'
  <2>1. run[p] = from /\ run' = [run EXCEPT ![p] = to] /\ stream' = Emitted(SessionOf[p], kinds)
        /\ UNCHANGED <<pc, accepted, reads, outcome>>
    BY <1>40 DEF Advance
  <2>2. PastKept
    BY <2>1, <1>40, <1>1, <1>2 DEF PastKept, RunsGoOn, Through, Unsent, SentAreRuns
  <2>3. to = "done" => Through(p)'
    BY <2>1, <1>40, <1>1 DEF Through
  <2>4. EventsArePast'
    BY <2>1, <2>2, <2>3, <1>40, <1>1, <1>2, EventsEmitted DEF PastKept
  <2>. QED
    BY <2>2, <2>4, PastIsKept
<1>41. ASSUME NEW p \in Prompts, EngineStart(p) \/ EngineAnswer(p) \/ EngineComplete(p) \/ EngineFail(p)
       PROVE  EndsArePast'
  <2>1. /\ \A j \in 1..Len(<<"busy">>) : <<"busy">>[j] = "busy"
        /\ \A j \in 1..Len(<<"part">>) : <<"part">>[j] = "part"
    OBVIOUS
  <2>2. CASE EngineStart(p)
    BY <2>1, <2>2, <1>40, LiteralsTyped DEF EngineStart
  <2>3. CASE EngineAnswer(p)
    BY <2>1, <2>3, <1>40, LiteralsTyped DEF EngineAnswer
  <2>4. CASE EngineComplete(p)
    BY <2>4, <1>40, LiteralsTyped DEF EngineComplete
  <2>5. CASE EngineFail(p)
    BY <2>5, <1>40, LiteralsTyped DEF EngineFail
  <2>. QED
    BY <1>41, <2>2, <2>3, <2>4, <2>5
<1>42. ASSUME NEW s \in Sessions, EngineAbort(s) PROVE EndsArePast'
  <2>1. PastKept
    BY <1>42, <1>1, <1>2 DEF EngineAbort, PastKept, RunsGoOn, Through, Unsent, SentAreRuns
  <2>2. CASE ~Running(s)
    <3>1. StreamKept
      BY <1>42, <1>1, <2>2, StreamsKept DEF EngineAbort
    <3>. QED
      BY <2>1, <3>1, <1>3
  <2>3. CASE Running(s)
    <3>1. \A p \in Prompts : SessionOf[p] = s => Through(p)'
      BY <1>42, <1>1, <2>3 DEF EngineAbort, Running, Through
    <3>2. stream' = Emitted(s, <<"idle", "idle">>)
      BY <1>42, <2>3 DEF EngineAbort
    <3>3. EventsArePast'
      BY <2>1, <3>1, <3>2, <1>1, <1>2, EventsEmitted, LiteralsTyped DEF PastKept
    <3>. QED
      BY <2>1, <3>3, PastIsKept
  <2>. QED
    BY <2>2, <2>3
<1>43. ASSUME NEW p \in Prompts, NEW c \in Callers, ServeRead(p, c) PROVE EndsArePast'
  <2>1. UNCHANGED <<pc, run, stream, accepted, outcome>>
    BY <1>43 DEF ServeRead
  <2>3. \A q \in Prompts, d \in Callers : ~(q = p /\ d = c) => reads'[q][d] = reads[q][d]
    BY <1>43, <1>1 DEF ServeRead
  <2>4. \A q \in Prompts : SessionOf[q] = SessionOf[p] => q = p
    OBVIOUS
  <2>5. reads'[p][c] \in {"absent", "completed"} => Through(p)
    <3>1. CASE reads[p][c] = "status"
      <4>1. reads'[p][c] = IF Running(SessionOf[p]) THEN "active"
                           ELSE IF run[p] = "queued" THEN "early" ELSE "absent"
        BY <1>43, <1>1, <3>1 DEF ServeRead
      <4>2. Running(SessionOf[p]) <=> run[p] \in {"busy", "answering"}
        BY <2>4 DEF Running
      <4>3. run[p] # "none"
        BY <3>1, <1>2 DEF ReadsAreAccepted, SentAreRuns
      <4>. QED
        BY <4>1, <4>2, <4>3, <1>1 DEF Through, Runs
    <3>2. CASE reads[p][c] = "history"
      <4>1. reads'[p][c] = IF NewCompletedMessage(p) THEN "completed" ELSE "incomplete"
        BY <1>43, <1>1, <3>2 DEF ServeRead
      <4>2. NewCompletedMessage(p) => run[p] = "done"
        BY <2>4 DEF NewCompletedMessage, AssistantMessages
      <4>. QED
        BY <4>1, <4>2 DEF Through
    <3>. QED
      BY <1>43, <3>1, <3>2 DEF ServeRead
  <2>6. AnswersArePast'
    BY <2>1, <2>3, <2>5, <1>2 DEF AnswersArePast, Through
  <2>8. SentAreRuns' /\ EventsArePast' /\ NoPrematureIdle'
    BY <2>1, <1>2 DEF SentAreRuns, EventsArePast, NoPrematureIdle, Through
  <2>. QED
    BY <2>6, <2>8 DEF EndsArePast
<1>. QED
  <2>1. ASSUME NEW p \in Prompts, Call(p) PROVE EndsArePast'
    BY <2>1, <1>6, <1>7, <1>8, <1>9, <1>10, <1>11, <1>12, <1>13 DEF Call
  <2>2. ASSUME NEW p \in Prompts, Engine(p) PROVE EndsArePast'
    BY <2>2, <1>14, <1>41 DEF Engine
  <2>3. ASSUME NEW p \in Prompts, NEW c \in Callers, Read(p, c) PROVE EndsArePast'
    BY <2>3, <1>43, <1>16, <1>17, <1>18 DEF Read
  <2>4. ASSUME NEW s \in Sessions, Deliver(s) PROVE EndsArePast'
    BY <2>4, <1>19, <1>20, <1>21, <1>22 DEF Deliver
  <2>. QED
    BY <2>1, <2>2, <2>3, <2>4, <1>4, <1>5, <1>15, <1>23, <1>42, <1>24, <1>25, <1>26, <1>27, <1>28, <1>29, <1>30, <1>31, <1>32, <1>41 DEF Next

LEMMA InitPast == Init => EndsArePast
  BY DEF Init, EndsArePast, SentAreRuns, EventsArePast, AnswersArePast, NoPrematureIdle

(* With one call of prompt() in each session, whatever the service may learn  *)
(* of the end of a turn, in an idle event, an absence or a completed message, *)
(* is of a turn that is over, in every order in which the stream and the      *)
(* answers reach it, but for an absence that was answered before the turn     *)
(* began.                                                                     *)
THEOREM LearnedIsPast ==
  ASSUME \A p, q \in Prompts : SessionOf[p] = SessionOf[q] => p = q
  PROVE  Spec => []EndsArePast
<1>1. IInv /\ EndsArePast /\ [Next]_vars => (IInv /\ EndsArePast)'
  BY NextIInv, PastStep DEF IInv, TurnInv
<1>. QED
  BY <1>1, InitIInv, InitPast, PTL DEF Spec

(* Then a turn is reported complete only when the engine is through with it,  *)
(* whatever is lost, refused, cut, overtaken or restarted meanwhile, unless   *)
(* such an early absence settles it (handleTurnIdle, reconcileTurn,           *)
(* classifyOpenCodeTurnStatus).                                               *)
THEOREM CompleteIsComplete ==
  ASSUME \A p, q \in Prompts : SessionOf[p] = SessionOf[q] => p = q
  PROVE  Spec => []NoPrematureIdle
<1>1. EndsArePast => NoPrematureIdle
  BY DEF EndsArePast
<1>. QED
  BY <1>1, LearnedIsPast, PTL

==============================================================================
