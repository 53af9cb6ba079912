---------------------------- MODULE MCIpfixDecoder -----------------------------
(***************************************************************************)
(* Two exporters, in one domain or in two; layouts of two and of three     *)
(* octets, so that a set read with the wrong one gives too few or too many *)
(* records.  A message announces or withdraws a template, or has two data  *)
(* sets, or breaks off between them.                                       *)
(***************************************************************************)
EXTENDS IpfixDecoder, TLC

TwoLayouts == {[size |-> 2, flow |-> TRUE], [size |-> 3, flow |-> TRUE]}

MessageShapes ==
  {<<"template">>, <<"data", "data">>, <<"template", "data", "broken", "data">>}

ExporterSymmetry == Permutations(Exporters) \cup Permutations(Domains)

===============================================================================
