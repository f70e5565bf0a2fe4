--------------------------- MODULE ActiveRuntime ---------------------------
(***************************************************************************)
(* What the installation of the local engine promises to the rest of the   *)
(* application: the files of the engine are replaced as a whole.  Only a   *)
(* mishap, a process that dies in the middle or a roll-back that fails,    *)
(* loses some of them, and even then no two releases are ever mixed.       *)
(***************************************************************************)
EXTENDS Naturals

CONSTANTS Paths, Releases, Absent

VARIABLES
  files,    \* the release that each managed path comes from
  mishaps   \* how many times an installation was cut short

Of(r) == [Paths -> {r, Absent}]

Init ==
  /\ \E r \in Releases : files \in {[p \in Paths |-> r], [p \in Paths |-> Absent]}
  /\ mishaps = 0

Replace ==
  /\ \E r \in Releases : files' = [p \in Paths |-> r]
  /\ UNCHANGED mishaps

Break ==
  /\ \E r \in Releases : files' \in Of(r)
  /\ mishaps' = mishaps + 1

Next == Replace \/ Break

Spec == Init /\ [][Next]_<<files, mishaps>>

==============================================================================
