------------------------------ MODULE Registries ------------------------------
(***************************************************************************)
(* The stream and storage registries, which see the registered nodes as a  *)
(* set (StreamRegistry), next to the linked list that keeps them           *)
(* (NodeRegistry).  They share no variable: each is explored while the     *)
(* other one is as it was deployed.                                        *)
(***************************************************************************)
EXTENDS StreamRegistry, NodeRegistry

registriesVars == <<registryVars, listVars>>

RegistriesInit == RegistryInit /\ ListInit

StreamsAsDeployed == version = [s \in Streams |-> 0] /\ now = 1 /\ nodes = {} /\ removed = {}

ListAsDeployed == list = EmptyList /\ registered = <<>> /\ ~requiresWhitelist
                  /\ whitelist = [n \in NodeAccounts |-> "None"]

RegistriesNext ==
    \/ ListAsDeployed /\ StreamNext /\ UNCHANGED listVars
    \/ StreamsAsDeployed /\ ListNext /\ UNCHANGED registryVars

RegistriesSpec == RegistriesInit /\ [][RegistriesNext]_registriesVars
===============================================================================
