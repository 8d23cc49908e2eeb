----------------------------- MODULE MCTaskFlow -----------------------------
(***************************************************************************)
(* TaskFlow for TLC: a flow of nodes a and c, to which b may be added      *)
(* between them and d in the place of a.                                   *)
(***************************************************************************)
EXTENDS TaskFlow, TLC

CONSTANTS a, b, c, d

MCNodes == {a, b, c, d}
MCId    == a :> 1 @@ b :> 2 @@ c :> 3 @@ d :> 1
MCFirst == {a, c}
=============================================================================
