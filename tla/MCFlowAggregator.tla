--------------------------- MODULE MCFlowAggregator ----------------------------
(***************************************************************************)
(* Three 5-tuples for a dict of two; timestamps that leave a gap below, at *)
(* and above the timeout, in every order.                                  *)
(***************************************************************************)
EXTENDS FlowAggregator, TLC

KeySymmetry == Permutations(Keys)

===============================================================================
