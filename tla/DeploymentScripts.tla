-------------------------- MODULE DeploymentScripts --------------------------
(***************************************************************************)
(* The scripts that deploy the contracts, connect them with each other and *)
(* hand their administration over (packages/network-contracts/scripts and  *)
(* packages/dev-chain-fast), as sequences of steps: Deployment runs them.  *)
(*                                                                         *)
(* What contracts keep is written as triples <<contract, field, value>>:   *)
(* <<"StreamrConfig", "ADMIN", "me">> says that the script's wallet has    *)
(* that role there.  A value is the name of a contract, "me" (the wallet   *)
(* that runs the script), "target" (its argument), or stands for itself.   *)
(* Left out: gas, waiting, logging, the upgrades plugin's own manifest,    *)
(* and all that the contracts do besides access control and settings.      *)
(***************************************************************************)
EXTENDS Naturals, Sequences, FiniteSets

CONSTANT
    Owner       \* environment variable OWNER: "newAdmin", or "nobody" if not set

OperatorPolicies == {"DefaultDelegationPolicy", "DefaultExchangeRatePolicy",
                     "DefaultUndelegationPolicy"}
SponsorshipPolicies == {"MaxOperatorsJoinPolicy", "StakeWeightedAllocationPolicy",
                        "DefaultLeavePolicy", "VoteKickPolicy"}
Templates == {"OperatorTemplate", "NodeModule", "QueueModule", "StakeModule"}

\* The three Operator contracts of the development chain.
Operators == {"Operator", "FlaggingOperator", "FlaggedOperator"}

Contracts == OperatorPolicies \cup SponsorshipPolicies \cup Templates \cup Operators \cup
    {"DATA", "ENS", "FIFSRegistrar", "PublicResolver", "StreamRegistry", "ENSCacheV2",
     "TrackerRegistry", "NodeRegistry", "StreamStorageRegistry", "StreamrConfig",
     "OperatorFactory", "SponsorshipFactory", "SponsorshipTemplate", "Sponsorship",
     "OperatorContractOnlyJoinPolicy", "ProjectRegistryV1", "ProjectStakingV1",
     "MarketplaceV4", "RemoteMarketplaceV1"}

-----------------------------------------------------------------------------
(* The contracts' access control. *)

\* The roles that initialize gives to its sender.
InitialRoles(c) ==
    CASE c = "StreamrConfig" -> {"ADMIN", "UPGRADER", "CONFIGURATOR"}
      [] c \in {"OperatorFactory", "SponsorshipFactory"} -> {"ADMIN"}
      [] c \in {"StreamRegistry", "ProjectRegistryV1"} -> {"DEFAULT_ADMIN"}
      [] c = "ProjectStakingV1" -> {"DEFAULT_ADMIN", "UPGRADER"}
      [] c \in {"ENSCacheV2", "MarketplaceV4", "RemoteMarketplaceV1"} -> {"OWNER"}
      [] OTHER -> {}

\* The role whose holders grant and revoke roles.
RoleAdmin(c) ==
    CASE c \in {"StreamrConfig", "OperatorFactory", "SponsorshipFactory"} -> "ADMIN"
      [] c \in Operators -> "OWNER"
      [] OTHER -> "DEFAULT_ADMIN"

\* What a contract's setters ask of their sender.
SetterNeeds(c) ==
    CASE c = "StreamrConfig" -> {<<c, "CONFIGURATOR", "me">>}
      [] c \in {"OperatorFactory", "SponsorshipFactory"} -> {<<c, "ADMIN", "me">>}
      [] c = "StreamRegistry" -> {<<c, "TRUSTED", "me">>}
      [] c \in {"ENSCacheV2", "NodeRegistry", "MarketplaceV4", "RemoteMarketplaceV1"} ->
             {<<c, "OWNER", "me">>}
      [] OTHER -> {}

\* The role that _authorizeUpgrade asks for.
UpgradeNeeds(c) ==
    CASE c \in {"StreamRegistry", "ProjectRegistryV1"} -> {<<c, "TRUSTED", "me">>}
      [] c = "StreamStorageRegistry" -> {<<"StreamRegistry", "TRUSTED", "me">>}
      [] c \in {"StreamrConfig", "ProjectStakingV1"} -> {<<c, "UPGRADER", "me">>}
      [] OTHER -> {<<c, "OWNER", "me">>}

-----------------------------------------------------------------------------
(* The steps scripts are made of, each given as a sequence.  A step looks  *)
(* something up, deploys a contract or sends a transaction; it fails when  *)
(* the contract's address is not known or something it needs is not there. *)

Step(kind, c, needs, clears, drops, adds) ==
    <<[kind |-> kind, of |-> c, needs |-> needs,
       clears |-> clears, drops |-> drops, adds |-> adds, skip |-> 0]>>

Of(c, links) == {<<c, l[1], l[2]>> : l \in links}
Given(c) == {<<c, role, "me">> : role \in InitialRoles(c)}

\* if (ADDRESS && getCode(ADDRESS) !== "0x") { use it } else { steps }
Unless(c, steps) ==
    <<[Step("unless", c, {}, {}, {}, {})[1] EXCEPT !.skip = Len(steps)]>> \o steps
Require(c) == Step("check", c, {}, {}, {}, {})
RequireRole(c, role) == Step("check", c, {<<c, role, "me">>}, {}, {}, {})
RequireLink(c, field, to) == Step("check", c, {<<c, field, to>>}, {}, {}, {})

Deploy(c) == Step("deploy", c, {}, {}, {}, {})
DeployEach(cs) == [i \in DOMAIN cs |-> Deploy(cs[i])[1]]
DeployProxy(c, links) == Step("deploy", c, {}, {}, {}, Given(c) \cup Of(c, links))
Initialize(c, links) == Step("send", c, {}, {}, {}, Given(c) \cup Of(c, links))
DeployAndInitialize(c, links) == Deploy(c) \o Initialize(c, links)

Set(c, field, to) == Step("send", c, SetterNeeds(c), {<<c, field>>}, {}, {<<c, field, to>>})
Trust(c, policies) == Step("send", c, SetterNeeds(c), {}, {}, {<<c, "trusts", p>> : p \in policies})
Grant(c, role, to) ==
    Step("send", c, {<<c, RoleAdmin(c), "me">>}, {}, {}, {<<c, role, to>>})
Revoke(c, role, from) ==
    Step("send", c, {<<c, RoleAdmin(c), "me">>}, {}, {<<c, role, from>>}, {})
Upgrade(c) == Step("send", c, UpgradeNeeds(c), {}, {}, {<<c, "upgraded", "yes">>})
Call(c, needs, adds) == Step("send", c, needs, {}, {}, adds)

-----------------------------------------------------------------------------
(* deployStreamrContracts: the stream, storage and node registries. *)

BaseRegistry ==
    Unless("DATA", Deploy("DATA")) \o
    Unless("StreamRegistry", DeployProxy("StreamRegistry", {}))

\* A plausible mistake: the cache is set, but may not create streams.
BaseENSCacheNotTrusted ==
    Unless("ENSCacheV2",
        DeployProxy("ENSCacheV2", {<<"streamRegistry", "StreamRegistry">>})
            \o Grant("StreamRegistry", "TRUSTED", "me")
            \o Set("StreamRegistry", "ensCache", "ENSCacheV2"))

BaseENSCache ==
    LET steps == DeployProxy("ENSCacheV2", {<<"streamRegistry", "StreamRegistry">>})
            \o Grant("StreamRegistry", "TRUSTED", "me")
            \o Set("StreamRegistry", "ensCache", "ENSCacheV2")
            \o Grant("StreamRegistry", "TRUSTED", "ENSCacheV2")
            \o (IF Owner = "nobody" THEN <<>> ELSE Grant("StreamRegistry", "TRUSTED", Owner))
    IN Unless("ENSCacheV2", steps)

BaseStorage ==
    Unless("StreamStorageRegistry",
        DeployProxy("NodeRegistry", {<<"OWNER", IF Owner = "nobody" THEN "me" ELSE Owner>>})
            \o DeployProxy("StreamStorageRegistry", {<<"streamRegistry", "StreamRegistry">>,
                                                     <<"nodeRegistry", "NodeRegistry">>}))

(* deployTokenomicsContracts.  The check that StreamrConfig refers to the  *)
(* StreamRegistry is made when it is found; just deployed, it always does. *)

ConfigSteps ==
    Require("DATA") \o Require("StreamRegistry") \o
    Unless("StreamrConfig", DeployProxy("StreamrConfig", {<<"reviewPeriod", "default">>})
        \o Set("StreamrConfig", "streamRegistry", "StreamRegistry")) \o
    RequireLink("StreamrConfig", "streamRegistry", "StreamRegistry")

FactoryLinks == {<<"token", "DATA">>, <<"streamrConfig", "StreamrConfig">>}
TemplateLinks == {<<"template", t>> : t \in Templates}

\* A plausible mistake: the factory is announced before it trusts the policies.
OperatorFactoryStepsAnnouncedEarly ==
    Unless("OperatorFactory",
        DeployEach(<<"DefaultDelegationPolicy", "DefaultExchangeRatePolicy",
                     "DefaultUndelegationPolicy", "NodeModule", "QueueModule",
                     "StakeModule", "OperatorTemplate">>)
        \o DeployProxy("OperatorFactory", FactoryLinks \cup TemplateLinks)
        \o Set("StreamrConfig", "operatorFactory", "OperatorFactory")
        \o Trust("OperatorFactory", OperatorPolicies))

OperatorFactorySteps ==
    Unless("OperatorFactory",
        DeployEach(<<"DefaultDelegationPolicy", "DefaultExchangeRatePolicy",
                     "DefaultUndelegationPolicy", "NodeModule", "QueueModule",
                     "StakeModule", "OperatorTemplate">>)
        \o DeployProxy("OperatorFactory", FactoryLinks \cup TemplateLinks)
        \o Trust("OperatorFactory", OperatorPolicies)
        \o Set("StreamrConfig", "operatorFactory", "OperatorFactory"))

SponsorshipFactorySteps ==
    Unless("SponsorshipFactory",
        DeployEach(<<"MaxOperatorsJoinPolicy", "OperatorContractOnlyJoinPolicy",
                     "StakeWeightedAllocationPolicy", "DefaultLeavePolicy", "VoteKickPolicy",
                     "SponsorshipTemplate">>)
        \o DeployProxy("SponsorshipFactory",
                       FactoryLinks \cup {<<"template", "SponsorshipTemplate">>})
        \o Trust("SponsorshipFactory", SponsorshipPolicies)
        \o Set("StreamrConfig", "operatorContractOnlyJoinPolicy", "OperatorContractOnlyJoinPolicy")
        \o Set("StreamrConfig", "sponsorshipFactory", "SponsorshipFactory"))

(* handOverAdminRolesTo.ts, setTrusted.ts and the upgrade scripts. *)

HandoverChecks ==
    RequireRole("StreamRegistry", "DEFAULT_ADMIN") \o RequireRole("StreamrConfig", "ADMIN")
    \o RequireRole("OperatorFactory", "ADMIN") \o RequireRole("SponsorshipFactory", "ADMIN")

HandoverGrants ==
    Set("StreamrConfig", "protocolFeeBeneficiary", "target")
    \o Grant("StreamrConfig", "ADMIN", "target")
    \o Grant("StreamrConfig", "CONFIGURATOR", "target")
    \o Grant("StreamrConfig", "UPGRADER", "target")

\* A plausible mistake: the right to upgrade is not given up.
HandoverRevokesAdminOnly == Revoke("StreamrConfig", "ADMIN", "me")

HandoverRevokes ==
    Revoke("StreamrConfig", "UPGRADER", "me") \o Revoke("StreamrConfig", "ADMIN", "me")

\* A plausible mistake: the old administrator gives its role up first.
PassAdminRevokingFirst(c, role) == Revoke(c, role, "me") \o Grant(c, role, "target")

PassAdmin(c, role) == Grant(c, role, "target") \o Revoke(c, role, "me")

HandoverSteps(keepConfigurator) ==
    HandoverChecks \o HandoverGrants
    \o (IF keepConfigurator THEN <<>> ELSE Revoke("StreamrConfig", "CONFIGURATOR", "me"))
    \o HandoverRevokes
    \o PassAdmin("OperatorFactory", "ADMIN") \o PassAdmin("SponsorshipFactory", "ADMIN")
    \o PassAdmin("StreamRegistry", "DEFAULT_ADMIN")

SetTrustedSteps ==
    RequireRole("StreamRegistry", "DEFAULT_ADMIN") \o Grant("StreamRegistry", "TRUSTED", "target")

OperatorTemplateSteps ==
    Require("OperatorFactory")
    \o DeployEach(<<"OperatorTemplate", "NodeModule", "QueueModule", "StakeModule">>)
    \o Step("send", "OperatorFactory", SetterNeeds("OperatorFactory"),
            {<<"OperatorFactory", "template">>}, {}, Of("OperatorFactory", TemplateLinks))

VoteKickPolicySteps ==
    Require("SponsorshipFactory") \o Deploy("VoteKickPolicy") \o Trust("SponsorshipFactory", {"VoteKickPolicy"})

UndelegationPolicySteps ==
    Require("OperatorFactory") \o Deploy("DefaultUndelegationPolicy")
    \o Trust("OperatorFactory", {"DefaultUndelegationPolicy"})

StreamrConfigUpgradeSteps == Require("StreamrConfig") \o Upgrade("StreamrConfig")
StreamRegistryUpgradeSteps == Require("StreamRegistry") \o Upgrade("StreamRegistry")
StorageRegistryUpgradeSteps == Upgrade("StreamStorageRegistry")
EnsScriptSteps ==
    Require("ENS") \o Require("ENSCacheV2") \o Set("ENSCacheV2", "streamrScript", "newScript")
SetConfigSteps == Require("StreamrConfig") \o Set("StreamrConfig", "reviewPeriod", "other")

-----------------------------------------------------------------------------
(* hub/: projects and the marketplaces. *)

ProjectRegistrySteps ==
    Require("StreamRegistry")
    \o DeployProxy("ProjectRegistryV1", {<<"streamRegistry", "StreamRegistry">>})

ProjectStakingSteps ==
    Require("ProjectRegistryV1") \o Require("DATA")
    \o DeployProxy("ProjectStakingV1", {<<"projectRegistry", "ProjectRegistryV1">>, <<"token", "DATA">>})

MarketplaceSteps ==
    Require("ProjectRegistryV1")
    \o DeployProxy("MarketplaceV4", {<<"projectRegistry", "ProjectRegistryV1">>})
    \o Set("MarketplaceV4", "mailbox", "mailbox")
    \o Grant("ProjectRegistryV1", "TRUSTED", "MarketplaceV4")

HubSteps ==
    ProjectRegistrySteps \o ProjectStakingSteps \o MarketplaceSteps

RemoteMarketplaceSteps ==
    Require("MarketplaceV4") \o DeployProxy("RemoteMarketplaceV1", {})
    \o Set("RemoteMarketplaceV1", "recipient", "MarketplaceV4")

ProjectRegistryUpgradeSteps == Require("ProjectRegistryV1") \o Upgrade("ProjectRegistryV1")
ProjectStakingUpgradeSteps == Require("ProjectStakingV1") \o Upgrade("ProjectStakingV1")
RemoteMarketplaceUpgradeSteps == Require("RemoteMarketplaceV1") \o Upgrade("RemoteMarketplaceV1")

-----------------------------------------------------------------------------
(* dev-chain-fast: the whole environment, with a Sponsorship and three     *)
(* Operators, one of which is flagged and voted out.                       *)

Balance(who) == <<"DATA", "balance", who>>

DevENS ==
    DeployEach(<<"ENS", "FIFSRegistrar">>)
    \o Call("ENS", {}, {<<"ENS", "owner of eth", "FIFSRegistrar">>})
    \o Deploy("PublicResolver")

RegisterName(owner) ==
    Call("FIFSRegistrar", {<<"ENS", "owner of eth", "FIFSRegistrar">>},
         {<<"ENS", "owner of name", owner>>})
    \o Call("ENS", {<<"ENS", "owner of name", owner>>},
            {<<"ENS", "resolver of name", "PublicResolver">>})

DevTracker == DeployAndInitialize("TrackerRegistry", {<<"OWNER", "me">>})
DevNodeRegistry == DeployAndInitialize("NodeRegistry", {<<"OWNER", "me">>, <<"node", "storageNode">>})

DevStreamRegistry ==
    DeployAndInitialize("StreamRegistry", {})
    \o Call("StreamRegistry", {}, {<<"StreamRegistry", "stream", "assignments">>})
    \o Call("StreamRegistry", {<<"StreamRegistry", "stream", "assignments">>},
            {<<"StreamRegistry", "public", "assignments">>})

DevENSCache ==
    DeployAndInitialize("ENSCacheV2", {<<"streamRegistry", "StreamRegistry">>,
                                       <<"streamrScript", "script">>})
    \o Grant("StreamRegistry", "TRUSTED", "me")
    \o Set("StreamRegistry", "ensCache", "ENSCacheV2")
    \o Grant("StreamRegistry", "TRUSTED", "ENSCacheV2")

DevStorage ==
    DeployAndInitialize("StreamStorageRegistry", {<<"streamRegistry", "StreamRegistry">>,
                                                  <<"nodeRegistry", "NodeRegistry">>})

DevConfig ==
    DeployAndInitialize("StreamrConfig", {<<"reviewPeriod", "default">>})
    \o Set("StreamrConfig", "streamRegistry", "StreamRegistry")

DevSponsorshipFactory ==
    DeployEach(<<"OperatorContractOnlyJoinPolicy", "MaxOperatorsJoinPolicy",
                 "StakeWeightedAllocationPolicy", "DefaultLeavePolicy", "VoteKickPolicy",
                 "SponsorshipTemplate">>)
    \o DeployAndInitialize("SponsorshipFactory",
                           FactoryLinks \cup {<<"template", "SponsorshipTemplate">>})
    \o Trust("SponsorshipFactory", SponsorshipPolicies)
    \o Set("StreamrConfig", "operatorContractOnlyJoinPolicy", "OperatorContractOnlyJoinPolicy")
    \o Set("StreamrConfig", "sponsorshipFactory", "SponsorshipFactory")
    \o Call("DATA", {}, {Balance("me")})

DevOperatorFactory ==
    DeployEach(<<"OperatorTemplate", "DefaultDelegationPolicy", "DefaultExchangeRatePolicy",
                 "DefaultUndelegationPolicy", "NodeModule", "QueueModule", "StakeModule">>)
    \o DeployAndInitialize("OperatorFactory", FactoryLinks \cup TemplateLinks)
    \o Trust("OperatorFactory", OperatorPolicies)
    \o Set("StreamrConfig", "operatorFactory", "OperatorFactory")

DevPreload == Call("DATA", {}, {Balance(w) : w \in {"me", "wallet2", "wallet3"}})

DevStream ==
    Call("StreamRegistry", {}, {<<"StreamRegistry", "stream", "testStream">>})
    \o Call("StreamRegistry", {<<"StreamRegistry", "stream", "testStream">>},
            {<<"StreamRegistry", "subscriber", "TEST">>})

DevSponsorship ==
    Step("deploy", "Sponsorship",
         {<<"StreamrConfig", "streamRegistry", "StreamRegistry">>,
          <<"StreamRegistry", "stream", "testStream">>,
          <<"StreamrConfig", "operatorContractOnlyJoinPolicy", "OperatorContractOnlyJoinPolicy">>}
         \cup {<<"SponsorshipFactory", "trusts", p>> : p \in SponsorshipPolicies \ {"DefaultLeavePolicy"}},
         {}, {}, {<<"SponsorshipFactory", "deployed", "Sponsorship">>})

DevSponsor == Call("Sponsorship", {Balance("me")}, {<<"Sponsorship", "sponsored", "yes">>})

DevDelegate(op, from) ==
    Call("DATA", {Balance(from), <<"OperatorFactory", "deployed", op>>}, {<<op, "delegator", from>>})

DevStake(op) ==
    Call(op, {<<op, "delegator", "me">>, <<"OperatorFactory", "deployed", op>>,
              <<"StreamrConfig", "operatorFactory", "OperatorFactory">>},
         {<<op, "stakedInto", "Sponsorship">>})

DevOperator(op, owner) ==
    Step("deploy", op, {<<"OperatorFactory", "trusts", p>> : p \in OperatorPolicies}, {}, {},
         {<<op, "OWNER", owner>>, <<"OperatorFactory", "deployed", op>>})
    \o (IF owner = "me" THEN <<>>
        ELSE DevDelegate(op, owner) \o DevDelegate(op, "me") \o DevStake(op))
    \o Call(op, {<<op, "OWNER", owner>>}, {<<op, "node", owner>>})
    \o Call(op, {<<op, "OWNER", owner>>}, {<<op, "CONTROLLER", "wallet5">>})

DevFlag ==
    Call("Sponsorship", {<<op, "stakedInto", "Sponsorship">> : op \in Operators},
         {<<"Sponsorship", "flagged", "FlaggedOperator">>, <<"Sponsorship", "reviewer", "Operator">>})
    \o Step("send", "Sponsorship",      \* the only reviewer's vote settles the flag
            {<<"Sponsorship", "flagged", "FlaggedOperator">>, <<"Sponsorship", "reviewer", "Operator">>,
             <<"StreamrConfig", "reviewPeriod", "zero">>},
            {<<"Sponsorship", "flagged">>, <<"Sponsorship", "reviewer">>},
            {<<"FlaggedOperator", "stakedInto", "Sponsorship">>}, {})

DevFlagVoteWithdraw ==
    Set("StreamrConfig", "reviewPeriod", "zero") \o DevFlag
    \o Set("StreamrConfig", "reviewPeriod", "default")
    \o Call("Operator", {<<"Operator", "stakedInto", "Sponsorship">>}, {})

DevSponsorshipAndOperators ==
    DevStream \o DevSponsorship \o DevSponsor
    \o DevOperator("Operator", "me") \o DevDelegate("Operator", "me") \o DevStake("Operator")
    \o DevOperator("FlaggingOperator", "wallet2") \o DevOperator("FlaggedOperator", "wallet3")
    \o DevFlagVoteWithdraw

DevProjectRegistry ==
    DeployAndInitialize("ProjectRegistryV1", {<<"streamRegistry", "StreamRegistry">>})
DevMarketplace ==
    DeployAndInitialize("MarketplaceV4", {<<"projectRegistry", "ProjectRegistryV1">>})
DevProjectStaking ==
    DeployAndInitialize("ProjectStakingV1",
        {<<"projectRegistry", "ProjectRegistryV1">>, <<"token", "DATA">>})

DevEnvironment ==
    DevENS
    \o DevTracker \o DevNodeRegistry \o DevStreamRegistry \o DevENSCache \o DevStorage
    \o DevConfig \o DevSponsorshipFactory \o DevOperatorFactory \o DevPreload

DevHub == DevProjectRegistry \o DevMarketplace \o DevProjectStaking

DevChainSteps ==
    Deploy("DATA") \o DevEnvironment \o DevSponsorshipAndOperators \o RegisterName("me") \o DevHub
    \o Call("ProjectRegistryV1", {}, {<<"ProjectRegistryV1", "project", p>> : p \in {"1", "2", "3", "4", "5"}})
    \o Set("StreamrConfig", "minimumDelegationSeconds", "one")

(* Scripts that use what is deployed. *)

\* registerENSName.ts
RegisterNameSteps ==
    Require("ENS") \o Require("FIFSRegistrar") \o Require("PublicResolver") \o RegisterName("me")

DelegateSteps == Require("DATA") \o Require("Operator") \o DevDelegate("Operator", "me")

UnstakeSteps ==
    Require("DATA") \o Require("OperatorFactory") \o Require("Operator")
    \o Step("send", "Operator", {<<"Operator", "OWNER", "me">>, <<"Operator", "stakedInto", "Sponsorship">>},
            {<<"Operator", "stakedInto">>}, {}, {})

RegisterNodeSteps ==
    Call("StreamRegistry", {}, {<<"StreamRegistry", "stream", "test">>})
    \o Call("NodeRegistry", SetterNeeds("NodeRegistry"), {<<"NodeRegistry", "node", "node">>})
    \o Call("StreamStorageRegistry",
            {<<"StreamRegistry", "stream", "test">>, <<"NodeRegistry", "node", "node">>},
            {<<"StreamStorageRegistry", "pair", "node">>})

RemoveNodeSteps ==
    Step("send", "StreamStorageRegistry", {<<"StreamStorageRegistry", "pair", "node">>},
         {}, {<<"StreamStorageRegistry", "pair", "node">>}, {})

-----------------------------------------------------------------------------

Steps ==
    [deployBase        |-> BaseRegistry \o BaseENSCache \o BaseStorage,
     deployTokenomics  |-> ConfigSteps \o OperatorFactorySteps \o SponsorshipFactorySteps,
     handover          |-> HandoverSteps(FALSE),
     handoverKeeping   |-> HandoverSteps(TRUE),
     setTrusted        |-> SetTrustedSteps,
     operatorTemplate  |-> OperatorTemplateSteps,
     voteKickPolicy    |-> VoteKickPolicySteps,
     undelegationPolicy |-> UndelegationPolicySteps,
     upgradeConfig     |-> StreamrConfigUpgradeSteps,
     upgradeRegistry   |-> StreamRegistryUpgradeSteps,
     upgradeStorage    |-> StorageRegistryUpgradeSteps,
     ensScript         |-> EnsScriptSteps,
     setConfig         |-> SetConfigSteps,
     hub               |-> HubSteps,
     remoteMarketplace |-> RemoteMarketplaceSteps,
     upgradeProjects   |-> ProjectRegistryUpgradeSteps,
     upgradeStaking    |-> ProjectStakingUpgradeSteps,
     upgradeRemote     |-> RemoteMarketplaceUpgradeSteps,
     devChain          |-> DevChainSteps,
     registerName      |-> RegisterNameSteps,
     delegate          |-> DelegateSteps,
     unstake           |-> UnstakeSteps,
     registerNode      |-> RegisterNodeSteps,
     removeNode        |-> RemoveNodeSteps]
=============================================================================
