------------------------------- MODULE Chains -------------------------------
(***************************************************************************)
(* The two protocols that order commands on a chain of certified blocks,   *)
(* chained HotStuff and the chain of Multichain DuoBFT.  A behaviour is a  *)
(* behaviour of one of them; the variables of the other keep their initial *)
(* values.                                                                 *)
(***************************************************************************)
EXTENDS ChainHotstuff

CONSTANTS Nodes, Primary, MaxFaults, Cmds, Meta, NoCmd, RequestHeight

VARIABLES protocol, asked, cmdQueue, blockchain, pacemaker, scheduled, node, verifiedVotes

Duo == INSTANCE ChainDuoBft

ASSUME ChainsAssumption == Duo!DuoAssumption

duoVars == <<asked, cmdQueue, blockchain, pacemaker, scheduled, node, verifiedVotes>>

ChainsInit == protocol \in {"chainhotstuff", "chainduobft"} /\ Init /\ Duo!Init

ChainsNext ==
    /\ UNCHANGED protocol
    /\ \/ protocol = "chainhotstuff" /\ Next /\ UNCHANGED duoVars
       \/ protocol = "chainduobft" /\ Duo!Next /\ UNCHANGED vars

ChainsSpec == ChainsInit /\ [][ChainsNext]_<<protocol, vars, duoVars>>

-----------------------------------------------------------------------------
(* Properties *)

\* A leader proposes each height of a chain once, of HotStuff's and of both in DuoBFT,
\* whichever of requests and certificates beat the pacemaker, and in whatever order.
OnePerHeight == OneProposal /\ Duo!OneBlock

\* Both chains of DuoBFT execute what they have to before they come to rest.
ChainExecuted == Duo!ChainExecuted
=============================================================================
