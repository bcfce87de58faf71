----------------------------- MODULE MCCmdLink -----------------------------
(***************************************************************************)
(* CmdLink on a small instance.                                            *)
(***************************************************************************)
EXTENDS CmdLink

CONSTANTS p1, p2, t1, t2, t3

\* Everybody is allowed, a network is excluded, and allowed again by the last rule.
MCAcl ==
  << [allow |-> TRUE,  hosts |-> {t1, t2, t3}],
     [allow |-> FALSE, hosts |-> {t2, t3}],
     [allow |-> TRUE,  hosts |-> {t2, t3}] >>
=============================================================================
