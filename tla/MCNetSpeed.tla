----------------------------- MODULE MCNetSpeed -----------------------------
(***************************************************************************)
(* NetSpeed for TLC: an average in POOR, one in MODERATE that is not yet   *)
(* well outside POOR, and one that is.                                     *)
(***************************************************************************)
EXTENDS NetSpeed

MCAverages == {100, 160, 300}
=============================================================================
