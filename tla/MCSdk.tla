------------------------------- MODULE MCSdk -------------------------------
(***************************************************************************)
(* What is built from packages/sdk: clients that submit transactions, or   *)
(* the agent, which takes a submission for one call of its own.  The two   *)
(* share no state, so a behaviour is of one of them and the other stays as *)
(* it began.                                                               *)
(***************************************************************************)
EXTENDS TxSubmit, AgentTreasury

VARIABLE program

AgentAtRest ==
  /\ chain.coll = CHOOSE held \in CollsBefore : TRUE
  /\ chain.price = CHOOSE p \in Prices : TRUE

SdkInit ==
  /\ Init /\ AgentInit
  /\ (program = "submit" /\ AgentAtRest) \/ program = "agent"

SdkNext ==
  /\ \/ program = "submit" /\ Next /\ UNCHANGED agentVars
     \/ program = "agent" /\ AgentNext /\ UNCHANGED vars
  /\ UNCHANGED program

SdkSpec ==
  /\ SdkInit /\ [][SdkNext]_<<program, vars, agentVars>>
  /\ program = "submit" => SubmitFair
=============================================================================
