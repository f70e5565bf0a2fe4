------------------------------- MODULE MCSpaces -------------------------------
(* Instances of Spaces for TLC. *)
EXTENDS Spaces

CONSTANTS i1, i2, i3, i4

(* No file; a file from before Maestro existed; a file where Maestro was moved. *)
MCLegacyFiles ==
  {NoFile,
   [EmptyStore EXCEPT !.spaces = <<i1>>, !.recency = <<i1>>, !.active = i1],
   [EmptyStore EXCEPT !.spaces = <<i2, i1, Maestro>>, !.recency = <<i1, Maestro, i2>>, !.active = Maestro]}

==============================================================================
