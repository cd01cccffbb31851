---------------------------- MODULE MCOperations ----------------------------
(***************************************************************************)
(* What the operators run: the deployment and the handover of the vaults,  *)
(* or the monitor.  The two share no state, so a behaviour is of one of    *)
(* them and the other stays as it began.                                   *)
(***************************************************************************)
EXTENDS VaultFactory, Monitor

VARIABLE task

FactoryAtRest == FactoryInit /\ wasm = CHOOSE w \in Wasms : TRUE
MonitorAtRest ==
  /\ Init
  /\ chain.price = CHOOSE p \in Prices : TRUE
  /\ chain.nav = CHOOSE n \in Navs : TRUE
  /\ chain.held = CHOOSE u \in Holdings : TRUE

OperationsInit ==
  \/ task = "deploy" /\ FactoryInit /\ MonitorAtRest
  \/ task = "watch" /\ Init /\ FactoryAtRest

OperationsNext ==
  /\ \/ task = "deploy" /\ FactoryNext /\ UNCHANGED vars
     \/ task = "watch" /\ Next /\ UNCHANGED factoryVars
  /\ UNCHANGED task

OperationsSpec ==
  /\ OperationsInit /\ [][OperationsNext]_<<task, vars, factoryVars>>
  /\ task = "watch" => WF_vars(Cycle)
=============================================================================
