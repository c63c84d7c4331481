----------------------- MODULE StakeWeightedAllocation -----------------------
(***************************************************************************)
(* How a Sponsorship shares its income: StakeWeightedAllocationPolicy with *)
(* the calls Sponsorship.sol makes to it.  The policy keeps an integral of *)
(* income per stake and a reference point for each operator, brought up to *)
(* date only when something changes; every action is one transaction.      *)
(*                                                                         *)
(* The integral is an integer scaled by Scale (1e36 in the code), so it    *)
(* rounds down; getEarningsWei adds RoundUp (1e25) to make up for that.    *)
(* Timestamps appear as elapsed, the seconds since lastUpdateTimestamp.    *)
(***************************************************************************)
EXTENDS Integers, FiniteSets, Functions

CONSTANTS Operators,
          MinOperatorCount,
          IncomePerSecond,
          Scale, RoundUp,
          Stakes,              \* what an operator may stake or reduce its stake to
          SponsorAmounts,      \* what may be sponsored at once
          FairScale,           \* a common multiple of the possible total stakes
          MaxElapsed,          \* bound: seconds between two transactions
          MaxSponsored         \* bound: what may be sponsored in total

ASSUME AllocationAssumption ==
    /\ IsFiniteSet(Operators)
    /\ MinOperatorCount \in Nat \ {0}
    /\ IncomePerSecond \in Nat
    /\ Scale \in Nat \ {0} /\ RoundUp \in 0 .. (Scale - 1)
    /\ Stakes \subseteq Nat \ {0} /\ SponsorAmounts \subseteq Nat \ {0}
    /\ FairScale \in Nat \ {0}
    /\ \A staked \in [Operators -> Stakes \cup {0}] :
          SumFunction(staked) # 0 => FairScale % SumFunction(staked) = 0
    /\ MaxElapsed \in Nat /\ MaxSponsored \in Nat

VARIABLES fund,       \* the Sponsorship's accounts and the policy's LocalStorage
          elapsed,    \* seconds since the last update
          due,        \* history: each operator's exact share since its last payout
          roundings,  \* history: how many payouts have dropped a fraction of a token
          stranded,   \* history: earnings nobody was paid, see Leave
          sponsored,  \* history: all that was ever sponsored
          allocated   \* history: how much of it has been allocated, to the second

history == <<due, roundings, stranded, sponsored, allocated>>
vars == <<fund, elapsed, due, roundings, stranded, sponsored, allocated>>

EmptyFund ==
    [staked |-> [o \in Operators |-> 0], joined |-> {},
     remaining |-> 0, earnings |-> 0,
     cumulative |-> 0,                                 \* cumulativeIncomePerStake
     reference |-> [o \in Operators |-> 0],            \* cumulativeReference
     before |-> [o \in Operators |-> 0],               \* earningsBeforeReferenceUpdateTimes1e36
     defaulted |-> FALSE,                              \* defaultedWei > 0
     lastTotalStake |-> 0, lastRemaining |-> 0, lastWasRunning |-> FALSE]

TotalStake(a) == SumFunction(a.staked)
Running(a) == Cardinality(a.joined) >= MinOperatorCount

Smaller(x, y) == IF x < y THEN x ELSE y

\* Without the limit of what is left.
NewAllocationsUnlimited(a, seconds) ==
    IF a.lastWasRunning THEN IncomePerSecond * seconds ELSE 0

\* calculateSinceLastUpdate: what is allocated, at most all that is left
NewAllocations(a, seconds) ==
    IF a.lastWasRunning THEN Smaller(IncomePerSecond * seconds, a.lastRemaining) ELSE 0

NewDefaults(a, seconds) ==
    IF a.lastWasRunning THEN IncomePerSecond * seconds - NewAllocations(a, seconds) ELSE 0

\* What the allocations add to the income per stake.
PerStake(a, seconds) ==
    IF NewAllocations(a, seconds) = 0 THEN 0
    ELSE (NewAllocations(a, seconds) * Scale) \div a.lastTotalStake

\* Remembers what was left before this update's allocations.
UpdateRemembersEarly(a, seconds) ==
    LET new == NewAllocations(a, seconds)
    IN  [a EXCEPT !.defaulted = @ \/ NewDefaults(a, seconds) > 0,
                  !.earnings = @ + new,
                  !.remaining = @ - new,
                  !.cumulative = @ + PerStake(a, seconds),
                  !.lastRemaining = a.remaining,
                  !.lastTotalStake = TotalStake(a),
                  !.lastWasRunning = Running(a)]

\* update(): move the allocated funds to earnings, remember the inputs of the
\* next update, as they are in the middle of the calling transaction
Update(a, seconds) ==
    LET new == NewAllocations(a, seconds)
    IN  [a EXCEPT !.defaulted = @ \/ NewDefaults(a, seconds) > 0,
                  !.earnings = @ + new,
                  !.remaining = @ - new,
                  !.cumulative = @ + PerStake(a, seconds),
                  !.lastRemaining = a.remaining - new,
                  !.lastTotalStake = TotalStake(a),
                  !.lastWasRunning = Running(a)]

\* Without RoundUp, 10/3 * 3 is 9.
EarningsRoundedDown(a, o, seconds) ==
    IF a.staked[o] = 0 THEN 0
    ELSE (a.before[o] + a.staked[o] * (a.cumulative + PerStake(a, seconds) - a.reference[o]))
           \div Scale

\* getEarningsWei
Earnings(a, o, seconds) ==
    IF a.staked[o] = 0 THEN 0
    ELSE (a.before[o] + a.staked[o] * (a.cumulative + PerStake(a, seconds) - a.reference[o])
            + RoundUp) \div Scale

\* Moves the reference point without saving the earnings so far.
OnStakeChangeForgetful(a, o, oldStake, seconds) ==
    LET u == Update(a, seconds) IN [u EXCEPT !.reference[o] = u.cumulative]

\* onStakeChange, after the stake has changed from oldStake
OnStakeChange(a, o, oldStake, seconds) ==
    LET u == Update(a, seconds)
    IN  [u EXCEPT !.before[o] = @ + oldStake * (u.cumulative - u.reference[o]),
                  !.reference[o] = u.cumulative]

\* Keeps the unpaid earnings from before the reference point, though paid out.
OnWithdrawKeepsBefore(a, o, seconds) ==
    LET u == Update(a, seconds)
    IN  [u EXCEPT !.earnings = @ - Earnings(u, o, 0), !.reference[o] = u.cumulative]

\* onWithdraw.  The fraction that is not paid is dropped.
OnWithdraw(a, o, seconds) ==
    LET u == Update(a, seconds)
    IN  [u EXCEPT !.earnings = @ - Earnings(u, o, 0),
                  !.reference[o] = u.cumulative,
                  !.before[o] = 0]

\* onJoin and onLeave, after the operator has been counted in or out
OnJoin(a, o, seconds) ==
    LET u == Update(a, seconds) IN [u EXCEPT !.reference[o] = u.cumulative]

OnLeave(a, o, seconds) ==
    [Update(a, seconds) EXCEPT !.reference[o] = 0, !.before[o] = 0]

Init ==
    /\ fund = EmptyFund
    /\ elapsed = 0
    /\ due = [o \in Operators |-> 0]
    /\ roundings = 0 /\ stranded = 0
    /\ sponsored = 0 /\ allocated = 0

-----------------------------------------------------------------------------

\* A transaction ends; the policy has been updated in it.  A subtraction below
\* zero would have reverted it: TypeOK shows that none of them does.
Commit(a) == fund' = a /\ elapsed' = 0

\* _addSponsorship with new tokens: they are there for the next update, and an
\* insolvency is over.  (Without new tokens onSponsor returns at once.)
Sponsor(amount) ==
    /\ sponsored + amount <= MaxSponsored
    /\ Commit([Update([fund EXCEPT !.remaining = @ + amount], elapsed)
                 EXCEPT !.defaulted = FALSE])
    /\ sponsored' = sponsored + amount
    /\ UNCHANGED <<due, roundings, stranded, allocated>>

\* _stake of a new operator
Join(o, stake) ==
    /\ fund.staked[o] = 0
    /\ Commit(OnJoin([fund EXCEPT !.staked[o] = stake, !.joined = @ \cup {o}], o, elapsed))
    /\ UNCHANGED history

\* _stake of more, or reduceStakeTo or _slash to less
ChangeStake(o, stake) ==
    /\ o \in fund.joined
    /\ stake # fund.staked[o]
    /\ Commit(OnStakeChange([fund EXCEPT !.staked[o] = stake], o, fund.staked[o], elapsed))
    /\ UNCHANGED history

\* The history of a payout: the operator has been paid its share, rounded down.
PaidOut(o) ==
    /\ due' = [due EXCEPT ![o] = 0]
    /\ roundings' = roundings + IF due[o] % FairScale = 0 THEN 0 ELSE 1
    /\ UNCHANGED <<sponsored, allocated>>

\* withdraw
Withdraw(o) ==
    /\ o \in fund.joined
    /\ Commit(OnWithdraw(fund, o, elapsed))
    /\ PaidOut(o)
    /\ UNCHANGED stranded

\* _removeOperator, when what it slashes (and _kick before it) has left the
\* operator some stake or none.  An operator without stake has no earnings any
\* more: they stay in earningsWei, but belong to nobody.
Leave(o, stake) ==
    LET slashes == stake # fund.staked[o]
        slashed == IF slashes
                   THEN OnStakeChange([fund EXCEPT !.staked[o] = stake], o, fund.staked[o], elapsed)
                   ELSE fund
        paid    == OnWithdraw(slashed, o, IF slashes THEN 0 ELSE elapsed)
    IN  /\ o \in fund.joined
        /\ stake <= fund.staked[o]
        /\ Commit(OnLeave([paid EXCEPT !.staked[o] = 0, !.joined = @ \ {o}], o, 0))
        /\ PaidOut(o)
        /\ stranded' = stranded + IF stake = 0 THEN Earnings(fund, o, elapsed) ELSE 0

\* A second passes.  The history shares out the income of that second exactly.
Tick ==
    LET income == IF Running(fund) THEN Smaller(IncomePerSecond, sponsored - allocated) ELSE 0
    IN  /\ elapsed < MaxElapsed
        /\ elapsed' = elapsed + 1
        /\ due' = IF income = 0 THEN due
                  ELSE [o \in Operators |->
                          due[o] + income * fund.staked[o] * (FairScale \div TotalStake(fund))]
        /\ allocated' = allocated + income
        /\ UNCHANGED <<fund, roundings, stranded, sponsored>>

Next ==
    \/ \E amount \in SponsorAmounts : Sponsor(amount)
    \/ \E o \in Operators, stake \in Stakes : Join(o, stake)
    \/ \E o \in Operators, stake \in Stakes : ChangeStake(o, stake)
    \/ \E o \in Operators : Withdraw(o)
    \/ \E o \in Operators, stake \in Stakes \cup {0} : Leave(o, stake)
    \/ Tick

Spec == Init /\ [][Next]_vars

-----------------------------------------------------------------------------
(* Properties *)

TypeOK ==
    /\ fund.staked \in [Operators -> Nat] /\ fund.joined \subseteq Operators
    /\ fund.remaining \in Nat /\ fund.earnings \in Nat
    /\ fund.cumulative \in Nat
    /\ fund.reference \in [Operators -> Nat] /\ fund.before \in [Operators -> Nat]
    /\ fund.defaulted \in BOOLEAN /\ fund.lastWasRunning \in BOOLEAN
    /\ fund.lastTotalStake \in Nat /\ fund.lastRemaining \in Nat
    /\ elapsed \in 0 .. MaxElapsed
    /\ due \in [Operators -> Nat]
    /\ roundings \in Nat /\ stranded \in Nat
    /\ sponsored \in 0 .. MaxSponsored /\ allocated \in 0 .. sponsored

\* Each operator's earnings are its exact share of the income since its last
\* payout, second by second, rounded down to a whole token: whenever it is asked,
\* however stakes, operators and sponsorship have changed in between.
EarningsAreFair ==
    \A o \in fund.joined : Earnings(fund, o, elapsed) = due[o] \div FairScale

\* All operators could withdraw now: earningsWei covers their earnings, so that
\* no withdrawal is reverted by the subtraction from it.
EarningsAreCovered ==
    SumFunction([o \in fund.joined |-> Earnings(fund, o, elapsed)])
        <= Update(fund, elapsed).earnings

\* Income is never lost on its way to the operators: what earningsWei holds is
\* their earnings, less than a token for every fraction dropped in a payout or
\* pending, and what Leave strands.
EarningsReachOperators ==
    Update(fund, elapsed).earnings
        <= SumFunction([o \in fund.joined |-> Earnings(fund, o, elapsed)])
             + roundings + Cardinality(fund.joined) + stranded

\* The inputs kept for the next update are the current ones, and the tokens that
\* are not allocated yet are exact to the second; an insolvency means none are.
UpdatesAreTimely ==
    /\ fund.lastRemaining = fund.remaining
    /\ fund.lastTotalStake = TotalStake(fund)
    /\ fund.lastWasRunning = Running(fund)
    /\ fund.remaining - NewAllocations(fund, elapsed) = sponsored - allocated
    /\ fund.defaulted => fund.remaining = 0

\* "Get both stake and allocations out" (Sponsorship.sol:249): an operator that
\* leaves is paid the earnings it had.
LeavingPaysEarnings ==
    [][\A o \in fund.joined :
         o \notin fund'.joined =>
           fund'.earnings = Update(fund, elapsed).earnings - Earnings(fund, o, elapsed)]_vars

=============================================================================
