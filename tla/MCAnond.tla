------------------------------- MODULE MCAnond -------------------------------
(* A small instance of Packets for TLC.                                       *)
EXTENDS Packets, TLC

(* No guard reads the exemptions, and no property of this run but the type    *)
(* invariant, and the log is read only while a bring-up waits for Tor, which  *)
(* begins by emptying it: states that differ in them elsewhere behave alike.  *)
View ==
  <<armed, armed6, tor, log100 /\ \E p \in Writers : pc[p] = "wait", i2pd, pinned, file, pub,
    pc, cmdVars, conn>>
=============================================================================
