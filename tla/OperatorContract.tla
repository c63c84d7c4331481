--------------------------- MODULE OperatorContract ---------------------------
(***************************************************************************)
(* An Operator contract as a whole: its accounts (Operator) and its nodes  *)
(* (OperatorNodes).  A transaction is about one of the halves, and they    *)
(* share no variable.  So each is explored while the other one is as it    *)
(* was deployed: their interleavings would show nothing else.              *)
(***************************************************************************)
EXTENDS SlashingReport, OperatorNodes

contractVars == <<vars, nodeVars>>

ContractInit == Init /\ NodesInit

AccountsAsDeployed == income = 0 /\ op.queue = <<>>

NodesAsDeployed == fleet = NoFleet /\ streamExists /\ controllers = {AccountOwner}

ContractNext ==
    \/ NodesAsDeployed /\ Next /\ UNCHANGED nodeVars
    \/ AccountsAsDeployed /\ NodesNext /\ UNCHANGED vars

ContractSpec == ContractInit /\ [][ContractNext]_contractVars
===============================================================================
