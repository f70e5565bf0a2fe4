--------------------------- MODULE MCInteractions ---------------------------
(* Two chats; a task of the first asks for a permission, the second asks a  *)
(* question.                                                                *)
EXTENDS Interactions

CONSTANTS a, b, k, p, q

MCParentOf == [t \in {k} |-> a]
MCSessionOf == [r \in {p, q} |-> IF r = p THEN k ELSE b]
==============================================================================
