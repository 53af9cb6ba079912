--------------------------------- MODULE MCApi ---------------------------------
(* Small instances of Api for TLC. *)
EXTENDS Api

CONSTANTS i1, i2, u1, u2, s1, s2, h1, h2, th

\* Two ingests with ids of their own; a capture of two events, and one of a single
\* event whose id is that of a packet of the first, as with every pair of captures.
MCBody ==
  [t \in Calls |->
     CASE t = i1 -> <<"a">>
       [] t = i2 -> <<"b">>
       [] t = u1 -> <<"pcap-0", "pcap-1">>
       [] t = u2 -> <<"pcap-0">>]

\* The second packet of the first capture is of another host.
MCSender == [e \in {"a", "b", "pcap-0", "pcap-1"} |-> IF e \in {"b", "pcap-1"} THEN h2 ELSE h1]

\* An earlier process has left the alert of an event nobody sends again.
MCPersisted == <<[flow |-> "old", threat |-> th]>>
MCNothing == <<>>
===============================================================================
