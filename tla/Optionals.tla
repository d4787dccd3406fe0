------------------------------- MODULE Optionals -------------------------------
(***************************************************************************)
(* Values that may be absent: the "| None" of the program's types.         *)
(***************************************************************************)
EXTENDS Integers

CONSTANT None \* Python's None

ASSUME NoneAssumption == None \notin Int

Optional(S) == S \cup {None}
=============================================================================
