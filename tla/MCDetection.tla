------------------------------ MODULE MCDetection ------------------------------
(***************************************************************************)
(* Two mixtures of traffic.  One source floods with SYNs to ever new hosts *)
(* and ports, with large UDP packets to one of them and with UDP flows     *)
(* that carry the flag of a SYN, and polls at intervals of five seconds.   *)
(* Or six others send large UDP packets to one destination.                *)
(***************************************************************************)
EXTENDS Detection

CONSTANTS h0, h1, h2, h3, h4, h5, h6

Kind(h) == [src |-> h, syn |-> FALSE, udp |-> FALSE, dns |-> FALSE, dst |-> "victim",
            port |-> "123", packets |-> 1, bytes |-> 60, direction |-> "unknown",
            gap |-> 0]

Large(h) == [Kind(h) EXCEPT !.udp = TRUE, !.packets = 100, !.bytes = 6000,
                            !.direction = "out"]

OneHostsKinds ==
  {[Kind(h0) EXCEPT !.syn = TRUE, !.dst = "each", !.port = "each", !.direction = "in"],
   [Large(h0) EXCEPT !.syn = TRUE, !.port = "each"],
   Large(h0),
   [Kind(h0) EXCEPT !.udp = TRUE, !.dns = TRUE, !.gap = 5]}

ManyHosts == {h1, h2, h3, h4, h5, h6}
ManyHostsKinds == {Large(h) : h \in ManyHosts}

MCHosts == {h0} \cup ManyHosts
MCKinds == OneHostsKinds \cup ManyHostsKinds
MCMixtures == {OneHostsKinds, ManyHostsKinds}

\* 20 events of the six, so that in one common window their rules would be heard.
MCMaxEvents ==
  [h \in MCHosts |-> CASE h = h0 -> 16 [] h = h1 -> 10 [] OTHER -> 2]

Forest(threat, score) == Result("random_forest", threat, score)

\* Nothing; a class of the forest alone, just counting or more; one that a rule may
\* report as well; one that a metadata rule reports as well.
MCFindings ==
  {{}, {Forest("volumetric_ddos", 500)}, {Forest("recon_port_scan", 633)},
   {Forest("dga_domain", 620), Result("dga", "dga_domain", 510)},
   {Result("dns_tunnel", "dns_tunneling", 640)}}

===============================================================================
