----------------------------- MODULE MCCodeTurns -----------------------------
(* Instances of CodeTurns: two calls in one session, or a session per call in *)
(* one workspace or in two.                                                   *)
EXTENDS CodeTurns, TLC

CONSTANTS p1, p2, s1, s2, d1, d2

OneSession    == [p \in Prompts |-> s1]
SessionEach   == [p \in Prompts |-> IF p = p1 THEN s1 ELSE s2]
OneDirectory  == [s \in Sessions |-> d1]
DirectoryEach == [s \in Sessions |-> IF s = s1 THEN d1 ELSE d2]

Symmetry == Permutations(Prompts)
==============================================================================
