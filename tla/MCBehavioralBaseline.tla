------------------------- MODULE MCBehavioralBaseline --------------------------
(***************************************************************************)
(* One host whose feature takes three values, of which one lies apart, and *)
(* a window that soon holds less than was learned.                         *)
(***************************************************************************)
EXTENDS BehavioralBaseline

===============================================================================
