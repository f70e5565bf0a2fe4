---------------------------- MODULE AccountToken ----------------------------
(***************************************************************************)
(* getAccountToken(): the identity under which this computer contributes   *)
(* and consumes, in one file that every process of the user reads, or      *)
(* creates.  A call is synchronous, so that what interleaves is what two   *)
(* processes do to the file.  Tokens are compared without their case.      *)
(***************************************************************************)
EXTENDS Naturals

CONSTANTS
  Processes,   \* backends of the IDE, and the CLI
  MaxLives     \* bound: starts of each process

TokenAssumption == MaxLives \in Nat \ {0}

VARIABLES
  tokenFile,   \* Absent, Unwritten: created and empty so far, or a token
  given,       \* FABI_ACCOUNT_TOKEN in the environment of a process
  holder,      \* where each process is, what it has cached, how often it was started
  apart        \* the processes that keep a token that is not the file's

vars == <<tokenFile, given, holder, apart>>

(* The token that a process draws if it has to. *)
Own(p) == [kind |-> "drawn", of |-> p, life |-> holder[p].life]
Drawn == [kind : {"drawn"}, of : Processes, life : 1..MaxLives]
Absent == [kind |-> "absent"]
Unwritten == [kind |-> "unwritten"]
Nothing == [kind |-> "nothing"]   \* cached
Given == [kind |-> "given"]
InFile == tokenFile \in Drawn

Goes(p, at) == holder' = [holder EXCEPT ![p].at = at]
Caches(p, token) == holder' = [holder EXCEPT ![p].at = "idle", ![p].cached = token]

------------------------------------------------------------------------------
(* The environment comes first, then a file that exists, then a new token. *)
Called(p) ==
  /\ holder[p].at = "idle" /\ holder[p].cached = Nothing
  /\ \/ given[p] = "valid" /\ Caches(p, Given)
     \/ given[p] = "none" /\ Goes(p, IF tokenFile = Absent THEN "create" ELSE "read")
  /\ UNCHANGED <<tokenFile, given, apart>>

ReadsToken(p) ==
  /\ holder[p].at = "read" /\ InFile /\ Caches(p, tokenFile)
  /\ UNCHANGED <<tokenFile, given, apart>>

(* A file that is not a token, or cannot be read: the call throws. *)
Throws(p) ==
  /\ holder[p].at \in {"read", "lost"} /\ Goes(p, "idle")
  /\ UNCHANGED <<tokenFile, given, apart>>

(* Fault: the file is created whether or not another process has done so. *)
CreatesOver(p) ==
  /\ holder[p].at = "create"
  /\ tokenFile' = Unwritten /\ Goes(p, "write")
  /\ UNCHANGED <<given, apart>>

(* writeFileSync() with the flag wx begins by an exclusive creation. *)
Creates(p) ==
  /\ holder[p].at = "create"
  /\ IF tokenFile = Absent THEN tokenFile' = Unwritten /\ Goes(p, "write")
                             ELSE UNCHANGED tokenFile /\ Goes(p, "lost")
  /\ UNCHANGED <<given, apart>>

Writes(p) ==
  /\ holder[p].at = "write" /\ tokenFile' = Own(p) /\ Caches(p, Own(p))
  /\ UNCHANGED <<given, apart>>

(* No directory, no permission, no space: the token is of this session only. *)
WriteFails(p) ==
  /\ holder[p].at \in {"create", "write"} /\ Caches(p, Own(p)) /\ apart' = apart \cup {p}
  /\ UNCHANGED <<tokenFile, given>>

(* Fault: the process that lost the creation keeps the token it drew. *)
LostInvents(p) ==
  /\ holder[p].at = "lost" /\ Caches(p, Own(p))
  /\ apart' = IF InFile THEN apart ELSE apart \cup {p}
  /\ UNCHANGED <<tokenFile, given>>

(* EEXIST: the token of the winner, if it is written by now. *)
Lost(p) ==
  /\ holder[p].at = "lost"
  /\ IF InFile THEN Caches(p, tokenFile) /\ UNCHANGED apart
               ELSE Caches(p, Own(p)) /\ apart' = apart \cup {p}
  /\ UNCHANGED <<tokenFile, given>>

Dies(p) ==
  /\ holder[p].life < MaxLives
  /\ holder' = [holder EXCEPT ![p] = [at |-> "idle", cached |-> Nothing, life |-> @.life + 1]]
  /\ apart' = apart \ {p}
  /\ UNCHANGED <<tokenFile, given>>

------------------------------------------------------------------------------
Init ==
  /\ tokenFile = Absent /\ apart = {}
  /\ given \in [Processes -> {"none", "valid", "invalid"}]
  /\ holder = [p \in Processes |-> [at |-> "idle", cached |-> Nothing, life |-> 1]]

Next == \E p \in Processes :
  \/ Called(p) \/ ReadsToken(p) \/ Throws(p) \/ Creates(p) \/ Writes(p) \/ WriteFails(p)
  \/ Lost(p) \/ Dies(p)

Spec == Init /\ [][Next]_vars

------------------------------------------------------------------------------
(* Two processes that start together end with one identity, that of the file: *)
(* but where it could not be written, or was not written yet when the loser   *)
(* of the creation read it.                                                   *)
IdentityIsOne ==
  \A p \in Processes :
    holder[p].cached \in Drawn /\ p \notin apart => holder[p].cached = tokenFile

(* An identity that was written or taken is kept, by the file for ever and by *)
(* a process until it ends: the worker and the client never part.             *)
IdentityIsKept ==
  [][/\ InFile => UNCHANGED tokenFile
     /\ \A p \in Processes :
          holder[p].cached # Nothing /\ holder'[p].life = holder[p].life
            => holder'[p].cached = holder[p].cached]_vars

TokenIsShared == [](IdentityIsOne /\ holder \in [Processes ->
                      [at : {"idle", "read", "create", "write", "lost"},
                       cached : Drawn \cup {Nothing, Given}, life : 1..MaxLives]])
                 /\ IdentityIsKept
=============================================================================
