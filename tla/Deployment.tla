------------------------------ MODULE Deployment ------------------------------
(***************************************************************************)
(* Running the scripts of DeploymentScripts.  Every transaction of a       *)
(* script is a step of its own, so a script that stops halfway leaves the  *)
(* chain as it was then; the next one starts from the addresses that have  *)
(* been copied to @streamr/config from what earlier ones printed.  After a *)
(* script that stopped halfway that is any part of them; after one that    *)
(* ended, all of them are assumed to have been copied.                     *)
(*                                                                         *)
(* Instances of contracts and accounts are both written <<name, number>>.  *)
(***************************************************************************)
EXTENDS DeploymentScripts

CONSTANTS
    Networks,       \* which networks are looked at: {"public", "dev", "hub"}
    MaxRuns,        \* how many scripts are started
    MaxCrashes      \* how many of them are interrupted

ASSUME ParametersAssumption ==
    /\ Owner \in {"nobody", "newAdmin"}
    /\ Networks \subseteq {"public", "dev", "hub"}
    /\ MaxRuns \in Nat
    /\ MaxCrashes \in Nat

VARIABLES
    network,        \* the network the scripts are run on
    chain,          \* [copies: instances deployed, links: what they keep]
    config,         \* the addresses in @streamr/config: 0 for none
    run,            \* the script that is running, if any
    past            \* the script that just reached its end, and counters

vars == <<network, chain, config, run, past>>

Accounts == {"deployer", "newAdmin"}

Idle == [script |-> "none", at |-> 0, by |-> "none", to |-> "none",
         bound |-> [c \in Contracts |-> 0]]

Nobodys == [script |-> "none", by |-> "none", to |-> "none"]

Scripts(net) ==
    CASE net = "dev" -> {"devChain", "registerName", "delegate", "unstake", "registerNode",
                         "removeNode", "upgradeStorage", "ensScript", "setConfig"}
      [] net = "hub" -> {"hub", "remoteMarketplace", "upgradeProjects", "upgradeStaking",
                         "upgradeRemote"}
      [] OTHER -> {"deployBase", "deployTokenomics", "handover", "handoverKeeping", "setTrusted",
                   "operatorTemplate", "voteKickPolicy", "undelegationPolicy",
                   "upgradeConfig", "upgradeRegistry"}

TakesTarget == {"handover", "handoverKeeping", "setTrusted"}

\* The addresses a script prints that scripts read from @streamr/config.
Printed(net) ==
    IF net = "public"
    THEN {"DATA", "StreamRegistry", "ENSCacheV2", "StreamStorageRegistry",
          "StreamrConfig", "OperatorFactory", "SponsorshipFactory"}
    ELSE Contracts

\* The hub scripts are run where streams and the token already are.
Present(net) == IF net = "hub" THEN {"DATA", "StreamRegistry"} ELSE {}

Init ==
    /\ network \in Networks
    /\ chain = [copies |-> [c \in Contracts |-> IF c \in Present(network) THEN 1 ELSE 0],
                links |-> {}]
    /\ config = chain.copies
    /\ run = Idle
    /\ past = [last |-> Nobodys, runs |-> 0, crashes |-> 0, trouble |-> FALSE]

-----------------------------------------------------------------------------

Step1 == Steps[run.script][run.at]
Running == run # Idle /\ run.at <= Len(Steps[run.script])

\* The contracts a run knows once it has deployed what the step deploys.
Bound == IF Step1.kind = "deploy"
         THEN [run.bound EXCEPT ![Step1.of] = chain.copies[Step1.of] + 1]
         ELSE run.bound

Value(v) == CASE v = "me" -> <<run.by, 0>>
              [] v = "target" -> <<run.to, 0>>
              [] v \in Contracts -> <<v, Bound[v]>>
              [] OTHER -> <<v, 0>>

Triples(ts) == {<<Value(t[1]), t[2], Value(t[3])>> : t \in ts}
Fields(fs) == {<<Value(f[1]), f[2]>> : f \in fs}

CanBeDone == Bound[Step1.of] > 0 /\ Triples(Step1.needs) \subseteq chain.links

Start(script, by, to) ==
    /\ run = Idle
    /\ past.runs < MaxRuns
    /\ script \in Scripts(network)
    /\ script = "devChain" => past.runs = 0         \* the chain is started afresh for it
    /\ IF script \in TakesTarget
       THEN to \in Accounts /\ (script # "setTrusted" => to # by)
       ELSE to = "none"
    /\ network # "public" => by = "deployer"
    /\ run' = [script |-> script, at |-> 1, by |-> by, to |-> to, bound |-> config]
    /\ past' = [past EXCEPT !.runs = @ + 1, !.last = Nobodys]
    /\ UNCHANGED <<network, chain, config>>

\* An address from the config that has code saves deploying the contract.
LookUp ==
    /\ Running
    /\ Step1.kind = "unless"
    /\ run' = [run EXCEPT !.at =
                   run.at + 1 + IF run.bound[Step1.of] > 0 THEN Step1.skip ELSE 0]
    /\ UNCHANGED <<network, chain, config, past>>

Check ==
    /\ Running
    /\ Step1.kind = "check"
    /\ CanBeDone
    /\ run' = [run EXCEPT !.at = run.at + 1]
    /\ UNCHANGED <<network, chain, config, past>>

Transact ==
    /\ Running
    /\ Step1.kind \in {"deploy", "send"}
    /\ CanBeDone
    /\ chain' =
        [copies |-> [chain.copies EXCEPT ![Step1.of] =
                        IF Step1.kind = "deploy" THEN chain.copies[Step1.of] + 1
                                                 ELSE chain.copies[Step1.of]],
         links |-> ({l \in chain.links : <<l[1], l[2]>> \notin Fields(Step1.clears)}
                       \ Triples(Step1.drops)) \cup Triples(Step1.adds)]
    /\ run' = [run EXCEPT !.at = run.at + 1, !.bound = Bound]
    /\ UNCHANGED <<network, config, past>>

\* The addresses in the config after those of known have been copied there.
Copied(known) == [c \in Contracts |-> IF c \in known THEN run.bound[c] ELSE config[c]]

News == {c \in Printed(network) : run.bound[c] # config[c]}

\* The development chain's addresses are printed at the very end.
NewsSoFar == IF network = "dev" THEN {} ELSE News

\* The last line of main: "All done!" or the output file.
Finish ==
    /\ run # Idle
    /\ ~Running
    /\ config' = Copied(News)
    /\ past' = [past EXCEPT !.last = [script |-> run.script, by |-> run.by, to |-> run.to]]
    /\ run' = Idle
    /\ UNCHANGED <<network, chain>>

Interrupted ==
    /\ \E known \in SUBSET NewsSoFar : config' = Copied(known)
    /\ run' = Idle
    /\ UNCHANGED <<network, chain>>

\* A step throws: main's catch prints the error.
Throw ==
    /\ Running
    /\ Step1.kind # "unless"
    /\ ~CanBeDone
    /\ past' = [past EXCEPT !.trouble = TRUE]
    /\ Interrupted

\* The process or its connection is lost.
Crash ==
    /\ Running
    /\ past.crashes < MaxCrashes
    /\ past' = [past EXCEPT !.trouble = TRUE, !.crashes = @ + 1]
    /\ Interrupted

Next ==
    \/ \E script \in DOMAIN Steps, by \in Accounts, to \in Accounts \cup {"none"} :
           Start(script, by, to)
    \/ LookUp
    \/ Check
    \/ Transact
    \/ Finish
    \/ Throw
    \/ Crash

Spec == Init /\ [][Next]_vars

-----------------------------------------------------------------------------

Instances(c) == {<<c, n>> : n \in 1..chain.copies[c]}
Kept(i, field) == {l[3] : l \in {k \in chain.links : k[1] = i /\ k[2] = field}}
Initialized(i) == \E l \in chain.links : l[1] = i
Current(c) == <<c, config[c]>>

\* KnownFactoriesAreReady: at every moment, in the middle of a script and after
\* any interrupted ones, a factory that StreamrConfig names refers back to that
\* StreamrConfig, has its templates and trusts the policies its contracts need;
\* naming the SponsorshipFactory comes after naming the join policy that keeps
\* others than Operators out.  Contracts that look a factory up in
\* StreamrConfig never find one that cannot deploy.
KnownFactoriesAreReady ==
    \A conf \in Instances("StreamrConfig") :
        /\ \A f \in Kept(conf, "operatorFactory") :
            /\ conf \in Kept(f, "streamrConfig")
            /\ OperatorPolicies \subseteq {p[1] : p \in Kept(f, "trusts")}
            /\ Templates = {t[1] : t \in Kept(f, "template")}
        /\ \A f \in Kept(conf, "sponsorshipFactory") :
            /\ conf \in Kept(f, "streamrConfig")
            /\ SponsorshipPolicies \subseteq {p[1] : p \in Kept(f, "trusts")}
            /\ Kept(conf, "operatorContractOnlyJoinPolicy") # {}

AdminOf == [StreamrConfig |-> "ADMIN", OperatorFactory |-> "ADMIN",
            SponsorshipFactory |-> "ADMIN", StreamRegistry |-> "DEFAULT_ADMIN"]

\* AdminsRemain: whatever scripts are run, by whichever administrator, and
\* wherever they are interrupted, somebody can still administer every
\* initialized contract: handing over never leaves one without.
AdminsRemain ==
    \A c \in DOMAIN AdminOf : \A i \in Instances(c) :
        Initialized(i) =>
            \E a \in Accounts : <<a, 0>> \in Kept(i, AdminOf[c])

\* HandoverIsComplete: after a handover that reached its end the new
\* administrator has every role of the ones it names and the old one has none,
\* but for the CONFIGURATOR role where it was asked to keep it.
HandoverIsComplete ==
    LET me == <<past.last.by, 0>>
        target == <<past.last.to, 0>>
        held == {<<Current(c), AdminOf[c]>> : c \in DOMAIN AdminOf} \cup
                {<<Current("StreamrConfig"), r>> : r \in {"CONFIGURATOR", "UPGRADER"}}
        kept == IF past.last.script = "handoverKeeping"
                THEN {<<Current("StreamrConfig"), "CONFIGURATOR">>} ELSE {}
    IN (run = Idle /\ past.last.script \in {"handover", "handoverKeeping"})
        => /\ \A h \in held : target \in Kept(h[1], h[2])
           /\ \A h \in held : me \in Kept(h[1], h[2]) <=> h \in kept
           /\ Kept(Current("StreamrConfig"), "protocolFeeBeneficiary") = {target}

\* How the contracts that the config names are to refer to each other.
Wiring ==
    {<<"StreamRegistry", "ensCache", "ENSCacheV2">>, <<"StreamRegistry", "TRUSTED", "ENSCacheV2">>,
     <<"ENSCacheV2", "streamRegistry", "StreamRegistry">>,
     <<"StreamStorageRegistry", "streamRegistry", "StreamRegistry">>,
     <<"StreamrConfig", "streamRegistry", "StreamRegistry">>,
     <<"StreamrConfig", "operatorFactory", "OperatorFactory">>,
     <<"OperatorFactory", "streamrConfig", "StreamrConfig">>,
     <<"OperatorFactory", "token", "DATA">>,
     <<"StreamrConfig", "sponsorshipFactory", "SponsorshipFactory">>,
     <<"SponsorshipFactory", "streamrConfig", "StreamrConfig">>,
     <<"SponsorshipFactory", "token", "DATA">>,
     <<"ProjectRegistryV1", "streamRegistry", "StreamRegistry">>,
     <<"MarketplaceV4", "projectRegistry", "ProjectRegistryV1">>,
     <<"ProjectStakingV1", "projectRegistry", "ProjectRegistryV1">>} \cup
    IF network = "hub" THEN {<<"ProjectRegistryV1", "TRUSTED", "MarketplaceV4">>} ELSE {}

\* FinishedMeansWired: as long as every script reached its end, the contracts
\* the config names refer to each other, whoever ran which scripts and in
\* whatever order; and the development chain is left with the review period it
\* had, the flagged Operator out and the others in.
FinishedMeansWired ==
    (run = Idle /\ ~past.trouble) =>
        /\ \A w \in Wiring :
            (config[w[1]] > 0 /\ config[w[3]] > 0) =>
                Current(w[3]) \in Kept(Current(w[1]), w[2])
        /\ past.last.script = "devChain" =>
            /\ Kept(Current("StreamrConfig"), "reviewPeriod") = {<<"default", 0>>}
            /\ \A op \in Operators :
                (op = "FlaggedOperator") <=> Kept(Current(op), "stakedInto") = {}
=============================================================================
