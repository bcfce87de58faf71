------------------------------ MODULE CmdLink ------------------------------
(***************************************************************************)
(* The two ways of a command: CSendCtrlCmd::SendCmdStream                  *)
(* (Common/SendCtrlCmd.cpp) hands a command to SendPipe or to SendTCP, and *)
(* so to CPipeServer (CmdPipe.tla) or CTCPServer (CmdTcp.tla).             *)
(***************************************************************************)
EXTENDS CmdPipe, CmdTcp

VARIABLE tcpFlag   \* CSendCtrlCmd::tcpFlag, set before the first command

linkVars == <<tcpFlag, cpVars, ctVars>>

LinkInit == tcpFlag \in BOOLEAN /\ CPInit /\ CTInit

SendCmdStream ==
  \/ ~tcpFlag /\ CPNext /\ UNCHANGED <<tcpFlag, ctVars>>
  \/ tcpFlag /\ CTNext /\ UNCHANGED <<tcpFlag, cpVars>>

\* In the mode that is not used nothing the fairness speaks of is ever enabled.
LinkSpec == LinkInit /\ [][SendCmdStream]_linkVars /\ CPFairness /\ CTFairness
=============================================================================
