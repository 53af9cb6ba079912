--------------------------- MODULE MCWindowStore ----------------------------
(* A small instance of WindowStore for TLC. *)
EXTENDS WindowStore, TLC

\* Every host may send any timestamp, in any order, naive or aware.
MCFlow == [src : Hosts, ts : {0, 1, 3}, aware : BOOLEAN]

HostSymmetry == Permutations(Hosts)
=============================================================================
