--------------------------- MODULE SlashingReport ---------------------------
(***************************************************************************)
(* analyzeSlashings.ts: which delegator lost how much in a slashing,       *)
(* worked out afterwards from what the subgraph shows of the operator in   *)
(* the block before it and in the block after it.  The snapshots are the   *)
(* stores before and after the step, as if nothing else happened to the    *)
(* operator in these blocks.                                               *)
(***************************************************************************)
EXTENDS Operator

\* mul of utils/bigint.ts: an amount times a decimal, rounded down
Mul(amount, rate) == (amount * rate[1]) \div rate[2]

\* The division of bigints rounds towards zero.
DividedBy(a, b) == IF a >= 0 THEN a \div b ELSE -((-a) \div b)

TokensIn(snapshot, h) ==
    IF h \in DOMAIN snapshot.delegations
    THEN snapshot.delegations[h].operatorTokenBalanceWei ELSE 0

ProRataOfAll(before, after, amount) ==
    [h \in DOMAIN before.delegations |->
        DividedBy(amount * TokensIn(before, h), before.operatorTokenTotalSupplyWei)]

OwnerFirstOfSupply(before, after, amount) ==
    LET others    == DOMAIN before.delegations \ {Owner}
        held      == before.operatorTokenTotalSupplyWei
        ownerLost == Mul(TokensIn(before, Owner) - TokensIn(after, Owner), before.exchangeRate)
    IN  IF TokensIn(after, Owner) > 0
        THEN [h \in {Owner} |-> amount]
        ELSE [h \in DOMAIN before.delegations |->
                IF h = Owner THEN ownerLost
                ELSE DividedBy((amount - ownerLost) * TokensIn(before, h), held)]

\* The owner pays first, with operator tokens; what these were not worth is lost by
\* the others in proportion to their tokens.
OwnerFirst(before, after, amount) ==
    LET others    == DOMAIN before.delegations \ {Owner}
        held      == SumFunctionOnSet([h \in others |-> TokensIn(before, h)], others)
        ownerLost == Mul(TokensIn(before, Owner) - TokensIn(after, Owner), before.exchangeRate)
    IN  IF TokensIn(after, Owner) > 0
        THEN [h \in {Owner} |-> amount]
        ELSE [h \in DOMAIN before.delegations |->
                IF h = Owner THEN ownerLost
                ELSE DividedBy((amount - ownerLost) * TokensIn(before, h), held)]

\* splitSlashing: DATA lost, by delegator.  If the owner had no tokens to lose, all
\* share alike; if anyone else lost tokens, there is no report.
SplitSlashing(before, after, amount) ==
    LET slashed == {h \in DOMAIN before.delegations : TokensIn(after, h) < TokensIn(before, h)}
    IN  CASE slashed = {}      -> ProRataOfAll(before, after, amount)
          [] slashed = {Owner} -> OwnerFirst(before, after, amount)
          [] OTHER             -> <<>>

-----------------------------------------------------------------------------
(* Properties *)

Slashing(s, amount) ==
    SlashedInSponsorship(s, amount) \/ KickedOut(s, amount, NoLosses, 0)

Worth(accounts, h) == TokensToData(accounts, accounts.tokens[h])

Lost(h) == Worth(op, h) - Worth(op', h)

Reported(rows, h) == IF h \in DOMAIN rows THEN rows[h] ELSE 0

\* Rounding: at most one operator token's worth, and what the divisions round off.
Tolerance == TokensToData(op, 1) + 2

\* The report says of every delegator what the contract says: how much less DATA its
\* operator tokens are worth after the slashing.  Only where DATA came in untold, the
\* rate shown is too low to tell.
LossesAreReported ==
    [][(stakeAt' # stakeAt /\ store.exchangeRate = <<ValueOf(op), Supply(op)>>)
        => \A s \in DOMAIN stakeAt, amount \in SlashAmounts :
             Slashing(s, amount)
              => LET rows == SplitSlashing(store, store', amount)
                 IN  \A h \in Holders : Reported(rows, h) - Lost(h) \in -Tolerance .. Tolerance]_vars

=============================================================================
