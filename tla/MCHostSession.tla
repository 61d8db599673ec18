---------------------------- MODULE MCHostSession ----------------------------
(* Hosts for TLC: those with the usual sysctls, a resolver and no swap but    *)
(* that of /etc/fstab, and all.                                               *)
EXTENDS HostSession

UsualHosts ==
  {h \in OriginalHosts : h.swap \subseteq Fstab /\ h.timestamps /\ h.icmp /\ h.resolv = "own"}
AllHosts == OriginalHosts
=============================================================================
