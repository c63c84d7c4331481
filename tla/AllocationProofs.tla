--------------------------- MODULE AllocationProofs ---------------------------
(***************************************************************************)
(* What StakeWeightedAllocation promises for any operators, stakes and     *)
(* amounts: no subtraction underflows, the inputs kept for the next update *)
(* are the current ones, and all operators can withdraw what they are told *)
(* they have earned.                                                       *)
(*                                                                         *)
(* getEarningsWei rounds up, by less than RoundUp over Scale of a token,   *)
(* so that payouts may take that much more than was allocated each.  The   *)
(* accounts are shown to bear it as long as there were FewPayouts: 10^11   *)
(* that dropped a fraction, with the code's 1e25 and 1e36.                 *)
(***************************************************************************)
EXTENDS StakeWeightedAllocation, SumProofs, FiniteSetTheorems, TLAPS

Funds ==
    [staked : [Operators -> Nat], joined : SUBSET Operators,
     remaining : Nat, earnings : Int, cumulative : Nat,
     reference : [Operators -> Nat], before : [Operators -> Nat], defaulted : BOOLEAN,
     lastTotalStake : Nat, lastRemaining : Nat, lastWasRunning : BOOLEAN]

\* What o has earned since its last payout, scaled, before rounding up.
Accrued(a, o, seconds) ==
    a.before[o] + a.staked[o] * (a.cumulative + PerStake(a, seconds) - a.reference[o])

\* Each transaction leaves the inputs of the next update as they are now.
Timely(a) ==
    /\ a.lastRemaining = a.remaining
    /\ a.lastTotalStake = TotalStake(a)
    /\ a.lastWasRunning = Running(a)
    /\ a.defaulted => a.remaining = 0

Placed(a, o) ==
    /\ a.staked[o] \in Stakes \cup {0}
    /\ o \in a.joined <=> a.staked[o] # 0
    /\ a.reference[o] <= a.cumulative

FundInv ==
    /\ fund \in Funds
    /\ \A o \in Operators : Placed(fund, o)
    /\ Timely(fund)

HistoryInv ==
    /\ elapsed \in 0 .. MaxElapsed
    /\ due \in [Operators -> Nat]
    /\ roundings \in Nat /\ stranded \in Nat
    /\ sponsored \in 0 .. MaxSponsored /\ allocated \in Nat
    /\ fund.remaining - NewAllocations(fund, elapsed) = sponsored - allocated

\* How many parts of FairScale a unit of stake has in each token of income
Share(a) == IF TotalStake(a) = 0 THEN 0 ELSE FairScale \div TotalStake(a)

\* Nobody has accrued more than its exact share: up to the last update the integral
\* rounds down; what has been allocated since is shared out when the integral is updated.
FairInv ==
    \A o \in Operators :
        FairScale * Accrued(fund, o, 0)
          + Scale * (NewAllocations(fund, elapsed) * (fund.staked[o] * Share(fund)))
            <= Scale * due[o]

\* The exact shares are covered, but for what was rounded up in earlier payouts.
CoverInv ==
    Scale * SumFunctionOnSet(due, Operators)
        <= FairScale * (Scale * (fund.earnings + NewAllocations(fund, elapsed))
                          + RoundUp * roundings)

\* What all payouts so far, and one more of each operator, may have rounded up
\* is less than a token.
FewPayouts == RoundUp * (roundings + Cardinality(Operators)) < Scale

IInv ==
    /\ FundInv
    /\ HistoryInv
    /\ FairInv
    /\ CoverInv
    /\ FewPayouts => fund.earnings \in Nat

-----------------------------------------------------------------------------
(* Arithmetic *)

LEMMA DivisionIs ==
    ASSUME NEW x \in Nat, NEW d \in Nat \ {0}
    PROVE  /\ x \div d \in Nat
           /\ d * (x \div d) <= x
           /\ x % d = 0 => d * (x \div d) = x
<1> DEFINE q == x \div d
           r == x % d
<1>1. /\ q \in Int /\ r \in Int
      /\ x = d * q + r
      /\ 0 <= r /\ r < d
  OBVIOUS
<1> HIDE DEF q, r
<1>2. d * (q + 1) > 0
  <2>1. d * (q + 1) = d * q + d
    BY <1>1
  <2> QED
    BY <1>1, <2>1
<1>3. q + 1 > 0
  BY <1>1, <1>2
<1> QED
  BY <1>1, <1>3 DEF q, r

-----------------------------------------------------------------------------
(* The handlers *)

LEMMA FundTypes ==
    ASSUME NEW a \in Funds, NEW o \in Operators
    PROVE  /\ a.staked \in [Operators -> Nat] /\ a.staked[o] \in Nat
           /\ a.reference \in [Operators -> Nat] /\ a.reference[o] \in Nat
           /\ a.before \in [Operators -> Nat] /\ a.before[o] \in Nat
           /\ a.cumulative \in Nat /\ a.remaining \in Nat /\ a.earnings \in Int
           /\ a.lastRemaining \in Nat /\ a.lastTotalStake \in Nat
           /\ a.joined \subseteq Operators
  BY DEF Funds

LEMMA TotalStakeIs ==
    ASSUME NEW a \in Funds
    PROVE  /\ TotalStake(a) = SumFunctionOnSet(a.staked, Operators)
           /\ TotalStake(a) \in Nat
           /\ \A o \in Operators : a.staked[o] <= TotalStake(a)
<1>1. a.staked \in [Operators -> Nat] /\ IsFiniteSet(Operators)
  BY AllocationAssumption DEF Funds
<1>2. TotalStake(a) = SumFunctionOnSet(a.staked, Operators)
  BY <1>1, SumOverDomain DEF TotalStake
<1>3. \A o \in Operators : a.staked[o] \in Nat
  BY <1>1
<1> QED
  BY <1>1, <1>2, <1>3, SumOfNaturals

LEMMA AllocationsAre ==
    ASSUME NEW a \in Funds, NEW seconds \in Nat
    PROVE  /\ NewAllocations(a, seconds) \in Nat
           /\ NewAllocations(a, seconds) <= a.lastRemaining
           /\ seconds = 0 => NewAllocations(a, seconds) = 0
           /\ ~a.lastWasRunning => NewAllocations(a, seconds) = 0
           /\ NewDefaults(a, seconds) > 0 => NewAllocations(a, seconds) = a.lastRemaining
<1> DEFINE income == IncomePerSecond * seconds
<1>1. income \in Nat /\ (seconds = 0 => income = 0) /\ a.lastRemaining \in Nat
  BY AllocationAssumption DEF Funds
<1>2. /\ NewAllocations(a, seconds) = IF a.lastWasRunning THEN Smaller(income, a.lastRemaining) ELSE 0
      /\ NewDefaults(a, seconds) = IF a.lastWasRunning
                                   THEN income - NewAllocations(a, seconds) ELSE 0
  BY DEF NewAllocations, NewDefaults
<1> HIDE DEF income
<1> QED
  BY <1>1, <1>2 DEF Smaller

LEMMA PerStakeIs ==
    ASSUME NEW a \in Funds, NEW seconds \in Nat,
           NewAllocations(a, seconds) # 0 => a.lastTotalStake # 0
    PROVE  /\ PerStake(a, seconds) \in Nat
           /\ NewAllocations(a, seconds) = 0 => PerStake(a, seconds) = 0
           /\ a.lastTotalStake * PerStake(a, seconds) <= NewAllocations(a, seconds) * Scale
<1> DEFINE n == NewAllocations(a, seconds)
           T == a.lastTotalStake
<1>1. n \in Nat /\ T \in Nat /\ Scale \in Nat /\ n * Scale \in Nat
  BY AllocationsAre, FundTypes, AllocationAssumption DEF Funds
<1>2. PerStake(a, seconds) = IF n = 0 THEN 0 ELSE (n * Scale) \div T
  BY DEF PerStake
<1>3. n # 0 => T # 0
  OBVIOUS
<1> HIDE DEF n, T
<1>4. CASE n = 0
  <2>1. PerStake(a, seconds) = 0 /\ T * 0 = 0
    BY <1>1, <1>2, <1>4
  <2> QED
    BY <1>1, <2>1 DEF n, T
<1>5. CASE n # 0
  <2>1. T \in Nat \ {0}
    BY <1>1, <1>3, <1>5
  <2>2. PerStake(a, seconds) = (n * Scale) \div T
    BY <1>2, <1>5
  <2>3. /\ (n * Scale) \div T \in Nat
        /\ T * ((n * Scale) \div T) <= n * Scale
    BY <1>1, <2>1, DivisionIs
  <2> QED
    BY <1>5, <2>2, <2>3 DEF n, T
<1> QED
  BY <1>4, <1>5

\* Only what is kept for the next update decides what is allocated.
LEMMA SameInputs ==
    ASSUME NEW a, NEW b, NEW seconds,
           b.lastRemaining = a.lastRemaining, b.lastTotalStake = a.lastTotalStake,
           b.lastWasRunning = a.lastWasRunning
    PROVE  /\ NewAllocations(b, seconds) = NewAllocations(a, seconds)
           /\ NewDefaults(b, seconds) = NewDefaults(a, seconds)
           /\ PerStake(b, seconds) = PerStake(a, seconds)
  BY DEF NewAllocations, NewDefaults, PerStake

\* An update can be made: the stake it divides by is there.
Updatable(a, seconds) ==
    /\ a \in Funds /\ seconds \in Nat
    /\ a.lastRemaining <= a.remaining
    /\ NewAllocations(a, seconds) # 0 => a.lastTotalStake # 0

\* What every handler does in its update, whatever it does to one operator's earnings.
Moved(a, b, seconds) ==
    /\ b \in Funds
    /\ b.staked = a.staked /\ b.joined = a.joined
    /\ b.remaining = a.remaining - NewAllocations(a, seconds)
    /\ b.cumulative = a.cumulative + PerStake(a, seconds)
    /\ b.lastRemaining = b.remaining
    /\ b.lastTotalStake = TotalStake(a)
    /\ b.lastWasRunning = Running(a)
    /\ b.defaulted = (a.defaulted \/ NewDefaults(a, seconds) > 0)

Updated(a, u, seconds) ==
    /\ Moved(a, u, seconds)
    /\ u.reference = a.reference /\ u.before = a.before
    /\ u.earnings = a.earnings + NewAllocations(a, seconds)

LEMMA UpdateIs ==
    ASSUME NEW a, NEW seconds, Updatable(a, seconds)
    PROVE  Updated(a, Update(a, seconds), seconds)
<1> DEFINE n == NewAllocations(a, seconds)
           p == PerStake(a, seconds)
           T == TotalStake(a)
           r == Running(a)
           d == NewDefaults(a, seconds) > 0
           u == Update(a, seconds)
<1>1. /\ a \in Funds /\ seconds \in Nat
      /\ n \in Nat /\ n <= a.remaining /\ p \in Nat /\ T \in Nat
  <2>1. a \in Funds /\ seconds \in Nat
    BY DEF Updatable
  <2>2. n \in Nat /\ n <= a.lastRemaining /\ a.lastRemaining <= a.remaining
    BY <2>1, AllocationsAre DEF Updatable
  <2>3. a.lastRemaining \in Nat /\ a.remaining \in Nat
    BY <2>1 DEF Funds
  <2> QED
    BY <2>1, <2>2, <2>3, PerStakeIs, TotalStakeIs DEF Updatable
<1>2. r \in BOOLEAN /\ d \in BOOLEAN
  BY DEF Running
<1>3. u = [a EXCEPT !.defaulted = a.defaulted \/ d,
                    !.earnings = a.earnings + n,
                    !.remaining = a.remaining - n,
                    !.cumulative = a.cumulative + p,
                    !.lastRemaining = a.remaining - n,
                    !.lastTotalStake = T,
                    !.lastWasRunning = r]
  BY DEF Update
<1> DEFINE dd == a.defaulted \/ d
<1>4. dd \in BOOLEAN
  OBVIOUS
<1> HIDE DEF n, p, T, r, d, u, dd
<1>5. a.remaining - n \in Nat /\ a.earnings + n \in Int /\ a.cumulative + p \in Nat
  BY <1>1, FundTypes DEF Funds
<1>6. u = [staked |-> a.staked, joined |-> a.joined, remaining |-> a.remaining - n,
           earnings |-> a.earnings + n, cumulative |-> a.cumulative + p,
           reference |-> a.reference, before |-> a.before, defaulted |-> dd,
           lastTotalStake |-> T, lastRemaining |-> a.remaining - n, lastWasRunning |-> r]
  BY <1>1, <1>3 DEF Funds, dd
<1>7. u \in Funds
  BY <1>1, <1>2, <1>4, <1>5, <1>6 DEF Funds
<1> QED
  BY <1>6, <1>7 DEF Updated, Moved, n, p, T, r, d, dd, u


\* The next update of the same second allocates nothing.
LEMMA NothingAtOnce ==
    ASSUME NEW a \in Funds
    PROVE  /\ NewAllocations(a, 0) = 0 /\ PerStake(a, 0) = 0
           /\ ~(NewDefaults(a, 0) > 0)
<1>1. NewAllocations(a, 0) = 0
  BY AllocationsAre
<1>2. PerStake(a, 0) = 0
  BY <1>1 DEF PerStake
<1>3. NewDefaults(a, 0) = 0
  BY <1>1, AllocationAssumption DEF NewDefaults
<1> QED
  BY <1>1, <1>2, <1>3

LEMMA UpdatableAtOnce ==
    ASSUME NEW a \in Funds, a.lastRemaining <= a.remaining
    PROVE  Updatable(a, 0)
  BY NothingAtOnce DEF Updatable

LEMMA AccruedIsNat ==
    ASSUME NEW a \in Funds, NEW seconds, Updatable(a, seconds), NEW o \in Operators,
           a.reference[o] <= a.cumulative
    PROVE  Accrued(a, o, seconds) \in Nat
<1> DEFINE c == a.cumulative + PerStake(a, seconds) - a.reference[o]
<1>1. /\ a.staked[o] \in Nat /\ a.before[o] \in Nat /\ a.cumulative \in Nat
      /\ a.reference[o] \in Nat
  BY FundTypes
<1>2. PerStake(a, seconds) \in Nat
  BY PerStakeIs DEF Updatable
<1>3. c \in Nat
  BY <1>1, <1>2
<1>4. Accrued(a, o, seconds) = a.before[o] + a.staked[o] * c
  BY DEF Accrued
<1> HIDE DEF c
<1>5. a.staked[o] * c \in Nat
  BY <1>1, <1>3
<1> QED
  BY <1>1, <1>4, <1>5

\* What is paid exceeds what has accrued by less than RoundUp allows.
LEMMA EarningsAre ==
    ASSUME NEW a \in Funds, NEW seconds, Updatable(a, seconds), NEW o \in Operators,
           a.reference[o] <= a.cumulative
    PROVE  /\ Earnings(a, o, seconds) \in Nat
           /\ Scale * Earnings(a, o, seconds) <= Accrued(a, o, seconds) + RoundUp
<1> DEFINE x == Accrued(a, o, seconds) + RoundUp
           e == Earnings(a, o, seconds)
<1>1. x \in Nat /\ Scale \in Nat \ {0}
  BY AccruedIsNat, AllocationAssumption
<1>2. e = IF a.staked[o] = 0 THEN 0 ELSE x \div Scale
  BY DEF Earnings, Accrued
<1> HIDE DEF x, e
<1>3. x \div Scale \in Nat /\ Scale * (x \div Scale) <= x
  BY <1>1, DivisionIs
<1>4. Scale * 0 = 0
  BY <1>1
<1>5. e \in Nat /\ Scale * e <= x
  BY <1>1, <1>2, <1>3, <1>4
<1> QED
  BY <1>5 DEF x, e

\* An update moves what was pending into the integral: nothing is earned or lost by it.
LEMMA UpdateKeepsAccrued ==
    ASSUME NEW a, NEW u, NEW seconds, Updatable(a, seconds), Updated(a, u, seconds),
           NEW o \in Operators
    PROVE  /\ Accrued(u, o, 0) = Accrued(a, o, seconds)
           /\ Earnings(u, o, 0) = Earnings(a, o, seconds)
<1>1. /\ u \in Funds /\ u.staked = a.staked /\ u.before = a.before /\ u.reference = a.reference
      /\ u.cumulative = a.cumulative + PerStake(a, seconds)
  BY DEF Updated, Moved
<1>2. PerStake(u, 0) = 0 /\ u.cumulative \in Nat
  BY <1>1, NothingAtOnce, FundTypes DEF Funds
<1> DEFINE now == u.cumulative + PerStake(u, 0) - u.reference[o]
           then == a.cumulative + PerStake(a, seconds) - a.reference[o]
<1>3. /\ a.cumulative \in Nat /\ a.reference[o] \in Nat /\ PerStake(a, seconds) \in Nat
  BY PerStakeIs, FundTypes DEF Updatable
<1>4. /\ Accrued(u, o, 0) = u.before[o] + u.staked[o] * now
      /\ Accrued(a, o, seconds) = a.before[o] + a.staked[o] * then
  BY Zenon DEF Accrued
<1>5. now = then
  BY <1>1, <1>2, <1>3
<1> HIDE DEF now, then
<1>6. Accrued(u, o, 0) = Accrued(a, o, seconds)
  BY <1>1, <1>4, <1>5
<1>7. /\ Earnings(u, o, 0) = IF u.staked[o] = 0 THEN 0
                             ELSE (Accrued(u, o, 0) + RoundUp) \div Scale
      /\ Earnings(a, o, seconds) = IF a.staked[o] = 0 THEN 0
                                   ELSE (Accrued(a, o, seconds) + RoundUp) \div Scale
  BY DEF Earnings, Accrued
<1> QED
  BY <1>1, <1>6, <1>7

LEMMA OnJoinIs ==
    ASSUME NEW a, NEW seconds, Updatable(a, seconds), NEW o \in Operators
    PROVE  LET b == OnJoin(a, o, seconds)
           IN  /\ Moved(a, b, seconds)
               /\ b.reference = [a.reference EXCEPT ![o] = b.cumulative]
               /\ b.before = a.before
               /\ b.earnings = a.earnings + NewAllocations(a, seconds)
<1> DEFINE u == Update(a, seconds)
           c == u.cumulative
           b == OnJoin(a, o, seconds)
<1>1. Updated(a, u, seconds)
  BY UpdateIs
<1>2. b = [u EXCEPT !.reference[o] = c]
  BY DEF OnJoin
<1> HIDE DEF u, b
<1>3. /\ u \in Funds /\ c \in Nat
  BY <1>1 DEF Updated, Moved, Funds
<1> HIDE DEF c
<1>4. /\ b \in Funds
      /\ b.staked = u.staked /\ b.joined = u.joined /\ b.remaining = u.remaining
      /\ b.earnings = u.earnings /\ b.cumulative = u.cumulative /\ b.before = u.before
      /\ b.defaulted = u.defaulted /\ b.lastTotalStake = u.lastTotalStake
      /\ b.lastRemaining = u.lastRemaining /\ b.lastWasRunning = u.lastWasRunning
      /\ b.reference = [u.reference EXCEPT ![o] = c]
  BY <1>2, <1>3 DEF Funds
<1> QED
  BY <1>1, <1>4 DEF Updated, Moved, b, c

LEMMA OnStakeChangeIs ==
    ASSUME NEW a, NEW seconds, Updatable(a, seconds), NEW o \in Operators,
           NEW oldStake \in Nat, a.reference[o] <= a.cumulative
    PROVE  LET b == OnStakeChange(a, o, oldStake, seconds)
           IN  /\ Moved(a, b, seconds)
               /\ b.reference = [a.reference EXCEPT ![o] = b.cumulative]
               /\ b.before = [a.before EXCEPT ![o] =
                                a.before[o] + oldStake * (b.cumulative - a.reference[o])]
               /\ b.earnings = a.earnings + NewAllocations(a, seconds)
<1> DEFINE u == Update(a, seconds)
           c == u.cumulative
           x == u.before[o] + oldStake * (u.cumulative - u.reference[o])
           b == OnStakeChange(a, o, oldStake, seconds)
<1>1. Updated(a, u, seconds)
  BY UpdateIs
<1>2. b = [u EXCEPT !.before[o] = x, !.reference[o] = c]
  BY DEF OnStakeChange
<1> HIDE DEF u, b
<1>3. /\ u \in Funds /\ c \in Nat /\ u.before = a.before /\ u.reference = a.reference
      /\ u.before[o] \in Nat /\ u.reference[o] \in Nat
  BY <1>1 DEF Updated, Moved, Funds
<1>4. u.cumulative - u.reference[o] \in Nat
  <2>1. a \in Funds /\ a.cumulative \in Nat /\ PerStake(a, seconds) \in Nat
    BY PerStakeIs, FundTypes DEF Updatable
  <2>2. u.cumulative = a.cumulative + PerStake(a, seconds)
    BY <1>1 DEF Updated, Moved
  <2> QED
    BY <1>3, <2>1, <2>2
<1>5. x \in Nat
  <2> DEFINE w == u.cumulative - u.reference[o]
  <2>1. w \in Nat
    BY <1>4
  <2> HIDE DEF w
  <2>2. oldStake * w \in Nat
    BY <2>1
  <2> QED
    BY <1>3, <2>2 DEF w
<1>6. x = a.before[o] + oldStake * (c - a.reference[o])
  BY <1>3
<1> HIDE DEF c, x
<1>7. /\ b \in Funds
      /\ b.staked = u.staked /\ b.joined = u.joined /\ b.remaining = u.remaining
      /\ b.earnings = u.earnings /\ b.cumulative = u.cumulative
      /\ b.defaulted = u.defaulted /\ b.lastTotalStake = u.lastTotalStake
      /\ b.lastRemaining = u.lastRemaining /\ b.lastWasRunning = u.lastWasRunning
      /\ b.reference = [u.reference EXCEPT ![o] = c] /\ b.before = [u.before EXCEPT ![o] = x]
  BY <1>2, <1>3, <1>5 DEF Funds
<1> QED
  BY <1>1, <1>6, <1>7 DEF Updated, Moved, b, c

LEMMA OnWithdrawIs ==
    ASSUME NEW a, NEW seconds, Updatable(a, seconds), NEW o \in Operators,
           a.reference[o] <= a.cumulative
    PROVE  LET b == OnWithdraw(a, o, seconds)
           IN  /\ Moved(a, b, seconds)
               /\ b.reference = [a.reference EXCEPT ![o] = b.cumulative]
               /\ b.before = [a.before EXCEPT ![o] = 0]
               /\ b.earnings = a.earnings + NewAllocations(a, seconds) - Earnings(a, o, seconds)
<1> DEFINE u == Update(a, seconds)
           c == u.cumulative
           x == u.earnings - Earnings(u, o, 0)
           b == OnWithdraw(a, o, seconds)
<1>1. Updated(a, u, seconds)
  BY UpdateIs
<1>2. b = [u EXCEPT !.earnings = x, !.reference[o] = c, !.before[o] = 0]
  BY DEF OnWithdraw
<1> HIDE DEF u, b
<1>3. /\ u \in Funds /\ c \in Nat /\ u.before = a.before /\ u.reference = a.reference
      /\ u.earnings \in Int
  BY <1>1 DEF Updated, Moved, Funds
<1>4. Earnings(u, o, 0) = Earnings(a, o, seconds)
  BY <1>1, UpdateKeepsAccrued
<1>5. Earnings(a, o, seconds) \in Nat
  BY EarningsAre DEF Updatable
<1>6. x \in Int /\ x = a.earnings + NewAllocations(a, seconds) - Earnings(a, o, seconds)
  <2>1. u.earnings = a.earnings + NewAllocations(a, seconds)
    BY <1>1 DEF Updated
  <2>2. a.earnings \in Int /\ NewAllocations(a, seconds) \in Int
    BY AllocationsAre, FundTypes DEF Updatable
  <2> QED
    BY <1>3, <1>4, <1>5, <2>1, <2>2
<1> HIDE DEF c, x
<1>7. /\ b \in Funds
      /\ b.staked = u.staked /\ b.joined = u.joined /\ b.remaining = u.remaining
      /\ b.earnings = x /\ b.cumulative = u.cumulative
      /\ b.defaulted = u.defaulted /\ b.lastTotalStake = u.lastTotalStake
      /\ b.lastRemaining = u.lastRemaining /\ b.lastWasRunning = u.lastWasRunning
      /\ b.reference = [u.reference EXCEPT ![o] = c] /\ b.before = [u.before EXCEPT ![o] = 0]
  BY <1>2, <1>3, <1>6 DEF Funds
<1> QED
  BY <1>1, <1>3, <1>6, <1>7 DEF Updated, Moved, b, c

LEMMA OnLeaveIs ==
    ASSUME NEW a, NEW seconds, Updatable(a, seconds), NEW o \in Operators
    PROVE  LET b == OnLeave(a, o, seconds)
           IN  /\ Moved(a, b, seconds)
               /\ b.reference = [a.reference EXCEPT ![o] = 0]
               /\ b.before = [a.before EXCEPT ![o] = 0]
               /\ b.earnings = a.earnings + NewAllocations(a, seconds)
<1> DEFINE u == Update(a, seconds)
           b == OnLeave(a, o, seconds)
<1>1. Updated(a, u, seconds)
  BY UpdateIs
<1>2. b = [u EXCEPT !.reference[o] = 0, !.before[o] = 0]
  BY DEF OnLeave
<1> HIDE DEF u, b
<1>3. u \in Funds
  BY <1>1 DEF Updated, Moved
<1>4. /\ b \in Funds
      /\ b.staked = u.staked /\ b.joined = u.joined /\ b.remaining = u.remaining
      /\ b.earnings = u.earnings /\ b.cumulative = u.cumulative
      /\ b.defaulted = u.defaulted /\ b.lastTotalStake = u.lastTotalStake
      /\ b.lastRemaining = u.lastRemaining /\ b.lastWasRunning = u.lastWasRunning
      /\ b.reference = [u.reference EXCEPT ![o] = 0] /\ b.before = [u.before EXCEPT ![o] = 0]
  BY <1>2, <1>3 DEF Funds
<1> QED
  BY <1>1, <1>4 DEF Updated, Moved, b

-----------------------------------------------------------------------------
(* The arithmetic of shares and payouts *)

LEMMA CancelFactor ==
    ASSUME NEW c \in Nat \ {0}, NEW x \in Int, NEW y \in Int, c * x <= c * y
    PROVE  x <= y
<1>1. CASE x <= y
  BY <1>1
<1>2. CASE x >= y + 1
  <2>1. c * x >= c * (y + 1) /\ c * (y + 1) = c * y + c
    BY <1>2
  <2> QED
    BY <2>1
<1> QED
  BY <1>1, <1>2

\* What T units of stake get at p each is at most n, so st of them get their share of it.
LEMMA SharesOfIntegral ==
    ASSUME NEW T \in Nat, NEW share \in Nat, NEW p \in Nat, NEW n \in Nat, NEW st \in Nat,
           NEW sc \in Nat, T * p <= n * sc
    PROVE  (T * share) * (st * p) <= sc * (n * (st * share))
<1> DEFINE k == st * share
           lhs == T * p
           rhs == n * sc
<1>1. k \in Nat /\ lhs \in Nat /\ rhs \in Nat /\ lhs <= rhs
  OBVIOUS
<1>2. (T * share) * (st * p) = lhs * k /\ sc * (n * (st * share)) = rhs * k
  OBVIOUS
<1> HIDE DEF k, lhs, rhs
<1>3. lhs * k <= rhs * k
  BY <1>1
<1> QED
  BY <1>2, <1>3

\* Without a fraction to round up, the exact share is paid at most.
LEMMA WholeSharesPaid ==
    ASSUME NEW sc \in Nat \ {0}, NEW up \in 0 .. (sc - 1), NEW k \in Nat, NEW q \in Nat,
           sc * k <= sc * q + up
    PROVE  k <= q
<1>1. sc * (q + 1) = sc * q + sc
  OBVIOUS
<1>2. CASE k >= q + 1
  <2>1. sc * k >= sc * (q + 1)
    BY <1>2
  <2>2. sc * q \in Nat /\ sc * k \in Nat
    OBVIOUS
  <2> QED
    BY <1>1, <2>1, <2>2
<1> QED
  BY <1>2

LEMMA PayoutAgainstShare ==
    ASSUME NEW sc \in Nat \ {0}, NEW fs \in Nat \ {0}, NEW up \in 0 .. (sc - 1),
           NEW k \in Nat, NEW accrued \in Nat, NEW d \in Nat,
           sc * k <= accrued + up, fs * accrued <= sc * d
    PROVE  /\ fs * (sc * k) <= sc * d + fs * up
           /\ d % fs = 0 => fs * (sc * k) <= sc * d
<1>1. fs * (sc * k) <= sc * d + fs * up
  <2> DEFINE x == sc * k
             y == fs * accrued
  <2>1. x \in Nat /\ x <= accrued + up
    OBVIOUS
  <2> HIDE DEF x
  <2>2. fs * x <= fs * (accrued + up) /\ fs * (accrued + up) = y + fs * up
    BY <2>1
  <2>3. y \in Nat /\ fs * up \in Nat /\ sc * d \in Nat /\ y <= sc * d /\ fs * x \in Nat
    BY <2>1
  <2> HIDE DEF y
  <2>4. fs * x <= sc * d + fs * up
    BY <2>2, <2>3
  <2> QED
    BY <2>4 DEF x
<1>2. ASSUME d % fs = 0
      PROVE  fs * (sc * k) <= sc * d
  <2> DEFINE q == d \div fs
  <2>1. q \in Nat /\ d = fs * q
    BY <1>2, DivisionIs
  <2> HIDE DEF q
  <2>2. sc * d + fs * up = fs * (sc * q + up)
    BY <2>1
  <2>3. sc * k <= sc * q + up
    <3>1. sc * k \in Int /\ sc * q + up \in Int
      BY <2>1
    <3> QED
      BY <1>1, <2>2, <3>1, CancelFactor
  <2>4. k <= q
    BY <2>1, <2>3, WholeSharesPaid
  <2>5. fs * k <= fs * q
    BY <2>1, <2>4
  <2> DEFINE x == fs * k
  <2>6. x \in Nat /\ x <= d
    BY <2>1, <2>5
  <2>7. fs * (sc * k) = sc * x
    OBVIOUS
  <2> HIDE DEF x
  <2>8. sc * x <= sc * d
    BY <2>6
  <2> QED
    BY <2>7, <2>8
<1> QED
  BY <1>1, <1>2

\* Taking a payout k and the share d it was for from both sides of CoverInv
LEMMA CoverAfterPayout ==
    ASSUME NEW sc \in Nat, NEW fs \in Nat, NEW up \in Nat, NEW sum \in Nat, NEW d \in Nat,
           NEW e \in Int, NEW k \in Nat, NEW r \in Nat, NEW more \in {0, 1},
           sc * sum <= fs * (sc * e + up * r),
           fs * (sc * k) <= sc * d + fs * (up * more)
    PROVE  sc * (sum - d) <= fs * (sc * (e - k) + up * (r + more))
<1>1. sc * (sum - d) = sc * sum - sc * d
  OBVIOUS
<1>2. sc * (e - k) + up * (r + more) = ((sc * e + up * r) - sc * k) + up * more
  <2>1. sc * (e - k) = sc * e - sc * k /\ up * (r + more) = up * r + up * more
    OBVIOUS
  <2> QED
    BY <2>1
<1> DEFINE x == sc * e + up * r
           y == sc * k
           z == up * more
<1>3. x \in Int /\ y \in Int /\ z \in Int
  OBVIOUS
<1>4. sc * (e - k) + up * (r + more) = (x - y) + z
  BY <1>2
<1>5. sc * sum <= fs * x /\ fs * y <= sc * d + fs * z
  OBVIOUS
<1> HIDE DEF x, y, z
<1>6. fs * ((x - y) + z) = (fs * x - fs * y) + fs * z
  BY <1>3
<1>7. fs * x \in Int /\ fs * y \in Int /\ fs * z \in Int /\ sc * sum \in Int /\ sc * d \in Int
  BY <1>3
<1> QED
  BY <1>1, <1>4, <1>5, <1>6, <1>7

\* As long as it is less than a token, what was rounded up does not matter.
LEMMA TokensCover ==
    ASSUME NEW sc \in Nat \ {0}, NEW fs \in Nat \ {0}, NEW up \in Nat, NEW sum \in Nat,
           NEW e \in Int, NEW paid \in Nat, NEW r \in Nat, NEW n \in Nat,
           sc * sum <= fs * (sc * e + up * r),
           fs * (sc * paid) <= sc * sum + fs * (up * n),
           up * (r + n) < sc
    PROVE  paid <= e
<1> DEFINE x == sc * e + up * r
           y == sc * paid
           z == up * n
<1>1. x \in Int /\ y \in Nat /\ z \in Nat /\ up * r \in Nat /\ sc * e \in Int
  OBVIOUS
<1>2. sc * sum <= fs * x /\ fs * y <= sc * sum + fs * z
  OBVIOUS
<1>3. up * (r + n) = up * r + z
  OBVIOUS
<1> HIDE DEF y, z
<1>4. fs * (x + z) = fs * x + fs * z
  BY <1>1
<1>5. fs * y <= fs * (x + z)
  <2>1. fs * x \in Int /\ fs * y \in Int /\ fs * z \in Int /\ sc * sum \in Int
    BY <1>1
  <2> HIDE DEF x
  <2> QED
    BY <1>2, <1>4, <2>1
<1>6. y <= x + z
  <2> HIDE DEF x
  <2> QED
    BY <1>1, <1>5, CancelFactor
<1>7. y < sc * e + sc
  BY <1>1, <1>3, <1>6
<1>8. CASE paid >= e + 1
  <2>1. sc * paid >= sc * (e + 1) /\ sc * (e + 1) = sc * e + sc
    BY <1>8
  <2> QED
    BY <1>1, <1>7, <2>1 DEF y
<1> QED
  BY <1>8

-----------------------------------------------------------------------------
(* The state between two transactions *)

LEMMA RunningHasStake ==
    ASSUME NEW a \in Funds, \A o \in Operators : Placed(a, o), Running(a)
    PROVE  TotalStake(a) # 0
<1>1. a.joined # {}
  <2>1. Cardinality({}) = 0
    BY FS_EmptySet
  <2>2. Cardinality(a.joined) >= MinOperatorCount /\ MinOperatorCount \in Nat \ {0}
    BY AllocationAssumption DEF Running
  <2>3. ASSUME a.joined = {}
        PROVE  FALSE
    <3>1. Cardinality(a.joined) = 0
      BY <2>1, <2>3
    <3> QED
      BY <2>2, <3>1
  <2> QED
    BY <2>3
<1>2. PICK o \in Operators : o \in a.joined
  BY <1>1 DEF Funds
<1>3. a.staked[o] # 0 /\ a.staked[o] \in Nat
  BY <1>2, FundTypes DEF Placed
<1> QED
  BY <1>3, TotalStakeIs

\* FairScale is a multiple of every total stake there may be.
LEMMA ShareIs ==
    ASSUME NEW a \in Funds, \A o \in Operators : Placed(a, o)
    PROVE  /\ Share(a) \in Nat
           /\ TotalStake(a) # 0 => TotalStake(a) * Share(a) = FairScale
<1> DEFINE T == TotalStake(a)
<1>1. T \in Nat /\ FairScale \in Nat
  BY TotalStakeIs, AllocationAssumption
<1>2. a.staked \in [Operators -> Stakes \cup {0}]
  BY DEF Funds, Placed
<1>3. T # 0 => FairScale % T = 0
  BY <1>2, AllocationAssumption DEF TotalStake
<1>4. Share(a) = IF T = 0 THEN 0 ELSE FairScale \div T
  BY DEF Share
<1> HIDE DEF T
<1>5. T # 0 => /\ FairScale \div T \in Nat
               /\ T * (FairScale \div T) = FairScale
  BY <1>1, <1>3, DivisionIs
<1> QED
  BY <1>1, <1>4, <1>5 DEF T

LEMMA FundIsUpdatable ==
    ASSUME FundInv, NEW seconds \in Nat
    PROVE  /\ Updatable(fund, seconds)
           /\ NewAllocations(fund, seconds) \in Nat
           /\ NewAllocations(fund, seconds) <= fund.remaining
           /\ NewAllocations(fund, seconds) # 0 => TotalStake(fund) # 0
           /\ PerStake(fund, seconds) \in Nat
<1>1. /\ fund \in Funds /\ fund.lastRemaining = fund.remaining
      /\ fund.lastTotalStake = TotalStake(fund)
      /\ fund.lastWasRunning = Running(fund)
      /\ fund.remaining \in Nat
  BY DEF FundInv, Timely, Funds
<1>2. NewAllocations(fund, seconds) # 0 => Running(fund)
  BY <1>1, AllocationsAre
<1>3. Running(fund) => TotalStake(fund) # 0
  BY <1>1, RunningHasStake DEF FundInv
<1>4. Updatable(fund, seconds)
  BY <1>1, <1>2, <1>3 DEF Updatable
<1>5. PerStake(fund, seconds) \in Nat
  BY <1>1, <1>2, <1>3, PerStakeIs
<1> QED
  BY <1>1, <1>2, <1>3, <1>4, <1>5, AllocationsAre

\* Nobody has accrued more than its exact share, at any second.
LEMMA AccruedIsFair ==
    ASSUME FundInv, HistoryInv, FairInv, NEW o \in Operators
    PROVE  /\ Accrued(fund, o, elapsed) \in Nat
           /\ FairScale * Accrued(fund, o, elapsed) <= Scale * due[o]
<1> DEFINE N == NewAllocations(fund, elapsed)
           P == PerStake(fund, elapsed)
           T == TotalStake(fund)
           S == Share(fund)
           st == fund.staked[o]
           was == Accrued(fund, o, 0)
           is == Accrued(fund, o, elapsed)
<1>1. elapsed \in Nat
  BY AllocationAssumption DEF HistoryInv
<1>2. /\ Updatable(fund, elapsed) /\ fund \in Funds
      /\ N \in Nat /\ P \in Nat /\ T \in Nat /\ (N # 0 => T # 0)
  BY <1>1, FundIsUpdatable, TotalStakeIs DEF FundInv
<1>3. st \in Nat /\ S \in Nat /\ (T # 0 => T * S = FairScale)
  BY <1>2, FundTypes, ShareIs DEF FundInv
<1>4. T * P <= N * Scale /\ (N = 0 => P = 0)
  BY <1>1, <1>2, PerStakeIs DEF FundInv, Timely
<1>5. is = was + st * P /\ was \in Nat /\ is \in Nat
  <2> DEFINE c == fund.cumulative - fund.reference[o]
             b == fund.before[o]
  <2>1. PerStake(fund, 0) = 0
    BY <1>2, NothingAtOnce
  <2>2. /\ fund.cumulative \in Nat /\ fund.reference[o] \in Nat /\ fund.before[o] \in Nat
        /\ fund.reference[o] <= fund.cumulative
    BY <1>2, FundTypes DEF FundInv, Placed
  <2>3. c \in Nat /\ b \in Nat
    BY <2>2
  <2>4. /\ fund.cumulative + PerStake(fund, 0) - fund.reference[o] = c
        /\ fund.cumulative + PerStake(fund, elapsed) - fund.reference[o] = c + P
    BY <1>2, <2>1, <2>2
  <2>5. was = b + st * c /\ is = b + st * (c + P)
    BY <2>4 DEF Accrued
  <2> HIDE DEF b, c, P, st, was, is
  <2>6. st * (c + P) = st * c + st * P /\ st * c \in Nat /\ st * P \in Nat
    BY <1>2, <1>3, <2>3
  <2> QED
    BY <2>3, <2>5, <2>6
<1>6. FairScale * was + Scale * (N * (st * S)) <= Scale * due[o]
  BY DEF FairInv
<1>7. due[o] \in Nat /\ Scale \in Nat /\ FairScale \in Nat
  BY AllocationAssumption DEF HistoryInv
<1> HIDE DEF N, P, T, S, st, was, is
<1>8. FairScale * (st * P) <= Scale * (N * (st * S))
  <2>1. CASE N = 0
    <3>1. st * 0 = 0 /\ FairScale * 0 = 0 /\ 0 * (st * S) = 0 /\ Scale * 0 = 0
      BY <1>3, <1>7
    <3> QED
      BY <1>4, <2>1, <3>1
  <2>2. CASE N # 0
    <3>1. (T * S) * (st * P) <= Scale * (N * (st * S))
      BY <1>2, <1>3, <1>4, <1>7, SharesOfIntegral
    <3> QED
      BY <1>2, <1>3, <2>2, <3>1
  <2> QED
    BY <2>1, <2>2
<1>9. FairScale * is = FairScale * was + FairScale * (st * P)
  <2> DEFINE x == st * P
  <2>1. x \in Nat
    BY <1>2, <1>3
  <2>2. is = was + x
    BY <1>5
  <2> HIDE DEF x
  <2>3. FairScale * (was + x) = FairScale * was + FairScale * x
    BY <1>5, <1>7, <2>1
  <2> QED
    BY <2>2, <2>3 DEF x
<1>10. FairScale * is <= Scale * due[o]
  <2> DEFINE x == st * P
             y == N * (st * S)
  <2>1. x \in Nat /\ y \in Nat
    BY <1>2, <1>3
  <2>2. FairScale * x <= Scale * y /\ FairScale * was + Scale * y <= Scale * due[o]
        /\ FairScale * is = FairScale * was + FairScale * x
    BY <1>6, <1>8, <1>9
  <2> HIDE DEF x, y
  <2>3. /\ FairScale * x \in Nat /\ Scale * y \in Nat /\ FairScale * was \in Nat
        /\ Scale * due[o] \in Nat
    BY <1>5, <1>7, <2>1
  <2> QED
    BY <2>2, <2>3
<1> QED
  BY <1>5, <1>10 DEF is

\* What a payout of now would take, and what it would take from the share
LEMMA PayoutNow ==
    ASSUME FundInv, HistoryInv, FairInv, NEW o \in Operators
    PROVE  LET k == Earnings(fund, o, elapsed)
           IN  /\ k \in Nat
               /\ FairScale * (Scale * k) <= Scale * due[o] + FairScale * RoundUp
               /\ due[o] % FairScale = 0 => FairScale * (Scale * k) <= Scale * due[o]
<1> DEFINE k == Earnings(fund, o, elapsed)
           acc == Accrued(fund, o, elapsed)
           d == due[o]
<1>1. Updatable(fund, elapsed) /\ fund \in Funds /\ fund.reference[o] <= fund.cumulative
  BY FundIsUpdatable, AllocationAssumption DEF FundInv, HistoryInv, Placed
<1>2. k \in Nat /\ Scale * k <= acc + RoundUp
  BY <1>1, EarningsAre
<1>3. acc \in Nat /\ FairScale * acc <= Scale * d
  BY AccruedIsFair
<1>4. d \in Nat /\ Scale \in Nat \ {0} /\ FairScale \in Nat \ {0} /\ RoundUp \in 0 .. (Scale - 1)
  BY AllocationAssumption DEF HistoryInv
<1> HIDE DEF k, acc, d
<1>5. /\ FairScale * (Scale * k) <= Scale * d + FairScale * RoundUp
      /\ d % FairScale = 0 => FairScale * (Scale * k) <= Scale * d
  BY <1>2, <1>3, <1>4, PayoutAgainstShare
<1> QED
  BY <1>2, <1>5 DEF k, d

LEMMA DueIs ==
    ASSUME HistoryInv
    PROVE  /\ SumFunctionOnSet(due, Operators) \in Nat
           /\ \A o \in Operators : due[o] \in Nat /\ due[o] <= SumFunctionOnSet(due, Operators)
<1>1. IsFiniteSet(Operators) /\ \A o \in Operators : due[o] \in Nat
  BY AllocationAssumption DEF HistoryInv
<1> QED
  BY <1>1, SumOfNaturals

\* Each operator can be paid what it is told it has earned.
LEMMA CanBePaid ==
    ASSUME IInv, FewPayouts, NEW o \in Operators
    PROVE  Earnings(fund, o, elapsed) <= fund.earnings + NewAllocations(fund, elapsed)
<1> DEFINE k == Earnings(fund, o, elapsed)
           sum == SumFunctionOnSet(due, Operators)
           e == fund.earnings + NewAllocations(fund, elapsed)
<1>1. FundInv /\ HistoryInv /\ FairInv /\ CoverInv
  BY DEF IInv
<1>2. k \in Nat /\ FairScale * (Scale * k) <= Scale * due[o] + FairScale * RoundUp
  BY <1>1, PayoutNow
<1>3. sum \in Nat /\ due[o] \in Nat /\ due[o] <= sum
  BY <1>1, DueIs
<1>4. e \in Int
  BY <1>1, FundIsUpdatable, FundTypes, AllocationAssumption DEF FundInv, HistoryInv
<1>5. Scale * sum <= FairScale * (Scale * e + RoundUp * roundings)
  BY <1>1 DEF CoverInv
<1>6. /\ Scale \in Nat \ {0} /\ FairScale \in Nat \ {0} /\ RoundUp \in Nat /\ roundings \in Nat
  BY <1>1, AllocationAssumption DEF HistoryInv
<1>7. Cardinality(Operators) \in Nat /\ Cardinality(Operators) >= 1
  <2>1. IsFiniteSet(Operators)
    BY AllocationAssumption
  <2>2. Cardinality(Operators) \in Nat /\ Cardinality(Operators) # 0
    BY <2>1, FS_CardinalityType, FS_EmptySet
  <2> QED
    BY <2>2
<1>8. RoundUp * (roundings + 1) < Scale
  <2> DEFINE c == Cardinality(Operators)
  <2>1. RoundUp * (roundings + c) < Scale
    BY DEF FewPayouts
  <2>2. c \in Nat /\ c >= 1
    BY <1>7
  <2> HIDE DEF c
  <2>3. RoundUp * (roundings + 1) <= RoundUp * (roundings + c)
    BY <1>6, <2>2
  <2>4. RoundUp * (roundings + 1) \in Nat /\ RoundUp * (roundings + c) \in Nat
    BY <1>6, <2>2
  <2> QED
    BY <1>6, <2>1, <2>3, <2>4
<1> HIDE DEF k, sum, e
<1>9. FairScale * (Scale * k) <= Scale * sum + FairScale * (RoundUp * 1)
  <2>1. Scale * due[o] <= Scale * sum
    BY <1>3, <1>6
  <2>2. /\ Scale * due[o] \in Nat /\ Scale * sum \in Nat /\ FairScale * RoundUp \in Nat
        /\ FairScale * (Scale * k) \in Nat /\ RoundUp * 1 = RoundUp
    BY <1>2, <1>3, <1>6
  <2> QED
    BY <1>2, <2>1, <2>2
<1>10. k <= e
  BY <1>2, <1>3, <1>4, <1>5, <1>6, <1>8, <1>9, TokensCover
<1> QED
  BY <1>10 DEF k, e


-----------------------------------------------------------------------------
(* What a transaction leaves *)

LEMMA MovedIsTimely ==
    ASSUME NEW a, NEW b, NEW seconds \in Nat, Moved(a, b, seconds),
           a \in Funds, a.lastRemaining = a.remaining, a.defaulted => a.remaining = 0
    PROVE  Timely(b)
<1> DEFINE n == NewAllocations(a, seconds)
<1>1. /\ n \in Nat /\ n <= a.remaining /\ a.remaining \in Nat
      /\ NewDefaults(a, seconds) > 0 => n = a.remaining
  BY AllocationsAre, FundTypes DEF Funds
<1>2. TotalStake(b) = TotalStake(a) /\ Running(b) = Running(a)
  BY DEF Moved, TotalStake, Running
<1>3. /\ b.remaining = a.remaining - n
      /\ b.defaulted = (a.defaulted \/ NewDefaults(a, seconds) > 0)
      /\ b.lastRemaining = b.remaining
      /\ b.lastTotalStake = TotalStake(a)
      /\ b.lastWasRunning = Running(a)
  BY DEF Moved
<1> HIDE DEF n
<1>4. ASSUME b.defaulted
      PROVE  b.remaining = 0
  <2>1. CASE a.defaulted
    BY <1>1, <1>3, <2>1
  <2>2. CASE NewDefaults(a, seconds) > 0
    BY <1>1, <1>3, <2>2
  <2> QED
    BY <1>3, <1>4, <2>1, <2>2
<1> QED
  BY <1>2, <1>3, <1>4 DEF Timely

\* What is needed of a fund between two handlers of a transaction.
Movable(a, seconds) ==
    /\ Updatable(a, seconds)
    /\ a.lastRemaining = a.remaining
    /\ a.defaulted => a.remaining = 0
    /\ \A o \in Operators : a.reference[o] <= a.cumulative

LEMMA MovedIsMovable ==
    ASSUME NEW a, NEW b, NEW seconds, Movable(a, seconds), Moved(a, b, seconds),
           \A o \in Operators : \/ b.reference[o] = a.reference[o]
                                \/ b.reference[o] = b.cumulative
                                \/ b.reference[o] = 0
    PROVE  /\ Movable(b, 0) /\ Timely(b)
           /\ b.cumulative = a.cumulative + PerStake(a, seconds)
           /\ \A o \in Operators : b.reference[o] <= b.cumulative
<1>1. /\ Updatable(a, seconds) /\ a \in Funds /\ seconds \in Nat /\ b \in Funds
  BY DEF Movable, Updatable, Moved
<1>2. Timely(b)
  BY <1>1, MovedIsTimely DEF Movable
<1>3. PerStake(a, seconds) \in Nat /\ a.cumulative \in Nat /\ b.cumulative \in Nat
  BY <1>1, PerStakeIs DEF Updatable, Funds
<1>4. b.cumulative = a.cumulative + PerStake(a, seconds)
  BY DEF Moved
<1>5. ASSUME NEW o \in Operators
      PROVE  b.reference[o] <= b.cumulative
  <2>1. a.reference[o] \in Nat /\ a.reference[o] <= a.cumulative
    BY <1>1, FundTypes DEF Movable
  <2> QED
    BY <1>3, <1>4, <2>1
<1>6. Updatable(b, 0)
  <2>1. b.lastRemaining \in Nat /\ b.lastRemaining = b.remaining
    BY <1>1, <1>2 DEF Timely, Funds
  <2> QED
    BY <1>1, <2>1, UpdatableAtOnce
<1> QED
  BY <1>2, <1>4, <1>5, <1>6 DEF Movable, Timely

\* Everybody that the handler was not called for has the same share.
LEMMA MovedKeepsAccrued ==
    ASSUME NEW a, NEW b, NEW seconds, Updatable(a, seconds), Moved(a, b, seconds),
           NEW o \in Operators, a.reference[o] <= a.cumulative,
           b.reference[o] = a.reference[o], b.before[o] = a.before[o]
    PROVE  Accrued(b, o, 0) = Accrued(a, o, seconds)
<1>1. /\ a \in Funds /\ b \in Funds /\ b.staked = a.staked
      /\ b.cumulative = a.cumulative + PerStake(a, seconds)
  BY DEF Moved, Updatable
<1>2. /\ PerStake(b, 0) = 0 /\ PerStake(a, seconds) \in Nat
      /\ a.cumulative \in Nat /\ a.reference[o] \in Nat
  BY <1>1, NothingAtOnce, PerStakeIs, FundTypes DEF Updatable
<1> DEFINE now == b.cumulative + PerStake(b, 0) - b.reference[o]
           then == a.cumulative + PerStake(a, seconds) - a.reference[o]
<1>3. /\ Accrued(b, o, 0) = b.before[o] + b.staked[o] * now
      /\ Accrued(a, o, seconds) = a.before[o] + a.staked[o] * then
  BY Zenon DEF Accrued
<1>4. now = then
  BY <1>1, <1>2
<1> HIDE DEF now, then
<1> QED
  BY <1>1, <1>3, <1>4

\* At its reference point an operator has what was saved before.
LEMMA AccruedAtReference ==
    ASSUME NEW b \in Funds, NEW o \in Operators, b.reference[o] = b.cumulative
    PROVE  Accrued(b, o, 0) = b.before[o]
<1>1. /\ PerStake(b, 0) = 0 /\ b.staked[o] \in Nat /\ b.before[o] \in Nat /\ b.cumulative \in Nat
  BY NothingAtOnce, FundTypes
<1> DEFINE now == b.cumulative + PerStake(b, 0) - b.reference[o]
<1>2. Accrued(b, o, 0) = b.before[o] + b.staked[o] * now
  BY Zenon DEF Accrued
<1>3. now = 0
  BY <1>1
<1> HIDE DEF now
<1>4. b.staked[o] * 0 = 0
  BY <1>1
<1> QED
  BY <1>1, <1>2, <1>3, <1>4

LEMMA AccruedWithoutStake ==
    ASSUME NEW b \in Funds, NEW o \in Operators, NEW seconds, Updatable(b, seconds),
           b.staked[o] = 0
    PROVE  Accrued(b, o, seconds) = b.before[o]
<1> DEFINE now == b.cumulative + PerStake(b, seconds) - b.reference[o]
<1>1. /\ PerStake(b, seconds) \in Nat /\ b.cumulative \in Nat /\ b.reference[o] \in Nat
      /\ b.before[o] \in Nat
  BY PerStakeIs, FundTypes DEF Updatable
<1>2. Accrued(b, o, seconds) = b.before[o] + b.staked[o] * now
  BY Zenon DEF Accrued
<1>3. now \in Int
  BY <1>1
<1> HIDE DEF now
<1>4. 0 * now = 0
  BY <1>3
<1> QED
  BY <1>1, <1>2, <1>4


-----------------------------------------------------------------------------
(* The actions *)

\* A transaction shares nothing out: what operators have accrued stays, or is paid.
LEMMA FairAfter ==
    ASSUME FundInv, HistoryInv, FairInv, FundInv', elapsed' = 0,
           \A o \in Operators :
             \/ /\ Accrued(fund', o, 0) = Accrued(fund, o, elapsed)
                /\ due'[o] = due[o]
             \/ /\ Accrued(fund', o, 0) = 0
                /\ due'[o] \in Nat
    PROVE  FairInv'
<1>1. NewAllocations(fund', 0) = 0 /\ Share(fund') \in Nat /\ fund' \in Funds
  BY NothingAtOnce, ShareIs DEF FundInv
<1>2. ASSUME NEW o \in Operators
      PROVE  FairScale * Accrued(fund', o, 0)
               + Scale * (0 * (fund'.staked[o] * Share(fund'))) <= Scale * due'[o]
  <2> DEFINE new == Accrued(fund', o, 0)
             st == fund'.staked[o]
             S == Share(fund')
  <2>1. FairScale * new <= Scale * due'[o] /\ FairScale * new \in Int
    <3>1. CASE new = Accrued(fund, o, elapsed) /\ due'[o] = due[o]
      <4>1. Accrued(fund, o, elapsed) \in Nat /\ FairScale \in Nat
        BY AccruedIsFair, AllocationAssumption
      <4> QED
        BY <3>1, <4>1, AccruedIsFair
    <3>2. CASE new = 0 /\ due'[o] \in Nat
      <4>1. FairScale * 0 = 0 /\ Scale * due'[o] \in Nat
        BY <3>2, AllocationAssumption
      <4> QED
        BY <3>2, <4>1
    <3> QED
      BY <3>1, <3>2
  <2>2. st \in Nat /\ S \in Nat
    BY <1>1, FundTypes
  <2> HIDE DEF new, st, S
  <2>3. Scale * (0 * (st * S)) = 0
    <3>1. st * S \in Nat /\ Scale \in Nat
      BY <2>2, AllocationAssumption
    <3> QED
      BY <3>1
  <2>4. FairScale * new + Scale * (0 * (st * S)) = FairScale * new
    BY <2>1, <2>3
  <2> QED
    BY <2>1, <2>4 DEF new, st, S
<1> QED
  BY <1>1, <1>2 DEF FairInv

LEMMA CoverAfter ==
    ASSUME HistoryInv, CoverInv, FundInv', elapsed' = 0, due' = due, roundings' = roundings,
           fund'.earnings = fund.earnings + NewAllocations(fund, elapsed)
    PROVE  CoverInv'
<1>1. NewAllocations(fund', 0) = 0 /\ fund'.earnings \in Int
  BY NothingAtOnce DEF FundInv, Funds
<1>2. fund'.earnings + 0 = fund'.earnings
  BY <1>1
<1> QED
  BY <1>1, <1>2 DEF CoverInv

\* The exact shares after a payout
LEMMA DueAfterPayout ==
    ASSUME HistoryInv, NEW o \in Operators, due' = [due EXCEPT ![o] = 0]
    PROVE  /\ due' \in [Operators -> Nat]
           /\ SumFunctionOnSet(due', Operators) = SumFunctionOnSet(due, Operators) - due[o]
<1> DEFINE new == [due EXCEPT ![o] = 0]
<1>1. new \in [Operators -> Nat] /\ due \in [Operators -> Nat]
  BY DEF HistoryInv
<1>2. IsFiniteSet(Operators)
  BY AllocationAssumption
<1>3. /\ \A p \in Operators : due[p] \in Int /\ new[p] \in Int
      /\ \A p \in Operators \ {o} : new[p] = due[p]
      /\ new[o] = 0
  BY <1>1
<1>4. due' = new
  OBVIOUS
<1> HIDE DEF new
<1>5. SumFunctionOnSet(new, Operators) = SumFunctionOnSet(due, Operators) - due[o] + new[o]
  BY <1>2, <1>3, SumChangesAtOne
<1>6. SumFunctionOnSet(due, Operators) \in Int
  BY DueIs
<1>7. SumFunctionOnSet(due', Operators) = SumFunctionOnSet(new, Operators)
  BY <1>4
<1>8. SumFunctionOnSet(new, Operators) = SumFunctionOnSet(due, Operators) - due[o]
  BY <1>3, <1>5, <1>6
<1> QED
  BY <1>1, <1>4, <1>7, <1>8

LEMMA CoverAfterPayingOut ==
    ASSUME FundInv, HistoryInv, FairInv, CoverInv, FundInv', elapsed' = 0,
           NEW o \in Operators, PaidOut(o), NEW k \in Nat,
           k = Earnings(fund, o, elapsed) \/ k = 0,
           fund'.earnings = fund.earnings + NewAllocations(fund, elapsed) - k
    PROVE  CoverInv'
<1> DEFINE sum == SumFunctionOnSet(due, Operators)
           d == due[o]
           e == fund.earnings + NewAllocations(fund, elapsed)
           more == IF d % FairScale = 0 THEN 0 ELSE 1
<1>1. /\ SumFunctionOnSet(due', Operators) = sum - d
      /\ roundings' = roundings + more
  BY DueAfterPayout DEF PaidOut
<1>2. /\ sum \in Nat /\ d \in Nat /\ roundings \in Nat /\ more \in {0, 1}
      /\ Scale \in Nat /\ FairScale \in Nat /\ RoundUp \in Nat
  BY DueIs, AllocationAssumption DEF HistoryInv
<1>3. e \in Int
  BY FundIsUpdatable, FundTypes, AllocationAssumption DEF FundInv, HistoryInv
<1>4. Scale * sum <= FairScale * (Scale * e + RoundUp * roundings)
  BY DEF CoverInv
<1>5. FairScale * (Scale * k) <= Scale * d + FairScale * (RoundUp * more)
  <2>1. CASE k = Earnings(fund, o, elapsed)
    <3>1. /\ FairScale * (Scale * k) <= Scale * d + FairScale * RoundUp
          /\ d % FairScale = 0 => FairScale * (Scale * k) <= Scale * d
      BY <2>1, PayoutNow
    <3>2. more = IF d % FairScale = 0 THEN 0 ELSE 1
      OBVIOUS
    <3>3. /\ RoundUp * 0 = 0 /\ RoundUp * 1 = RoundUp /\ FairScale * 0 = 0
          /\ Scale * d + 0 = Scale * d
      BY <1>2
    <3> HIDE DEF d, more
    <3> QED
      BY <3>1, <3>2, <3>3
  <2>2. CASE k = 0
    <3>1. FairScale * (Scale * 0) = 0
      BY <1>2
    <3> HIDE DEF d, more
    <3>2. Scale * d \in Nat /\ FairScale * (RoundUp * more) \in Nat
      <4>1. more \in Nat
        BY <1>2
      <4>2. RoundUp * more \in Nat
        BY <1>2, <4>1
      <4> QED
        BY <1>2, <4>2
    <3> QED
      BY <2>2, <3>1, <3>2
  <2> QED
    BY <2>1, <2>2
<1>6. NewAllocations(fund', 0) = 0 /\ fund'.earnings = e - k /\ fund'.earnings \in Int
  <2>1. fund' \in Funds /\ fund \in Funds
    BY DEF FundInv
  <2>2. NewAllocations(fund, elapsed) \in Nat /\ fund.earnings \in Int
    BY <2>1, FundIsUpdatable, FundTypes, AllocationAssumption DEF HistoryInv
  <2> QED
    BY <2>1, <2>2, NothingAtOnce DEF Funds
<1> HIDE DEF sum, d, e, more
<1>7. Scale * (sum - d) <= FairScale * (Scale * (e - k) + RoundUp * (roundings + more))
  BY <1>2, <1>3, <1>4, <1>5, CoverAfterPayout
<1>8. fund'.earnings + 0 = e - k
  BY <1>3, <1>6
<1> QED
  BY <1>1, <1>6, <1>7, <1>8 DEF CoverInv

LEMMA SmallerRounding ==
    ASSUME NEW up \in Nat, NEW r \in Nat, NEW later \in Nat, NEW c \in Nat, NEW sc \in Nat,
           r <= later, up * (later + c) < sc
    PROVE  up * (r + c) < sc
<1>1. up * (r + c) <= up * (later + c) /\ up * (r + c) \in Nat /\ up * (later + c) \in Nat
  OBVIOUS
<1> QED
  BY <1>1

\* There are never fewer payouts than before.
LEMMA FewerBefore ==
    ASSUME HistoryInv, FewPayouts', roundings' \in Nat, roundings <= roundings'
    PROVE  FewPayouts
<1>1. /\ Cardinality(Operators) \in Nat /\ RoundUp \in Nat /\ roundings \in Nat
      /\ Scale \in Nat
  BY AllocationAssumption, FS_CardinalityType DEF HistoryInv
<1>2. RoundUp * (roundings' + Cardinality(Operators)) < Scale
  BY DEF FewPayouts
<1>3. RoundUp * (roundings + Cardinality(Operators)) < Scale
  BY <1>1, <1>2, SmallerRounding
<1> QED
  BY <1>3 DEF FewPayouts


LEMMA QuietStep ==
    ASSUME IInv, FundInv', elapsed' = 0, UNCHANGED <<due, roundings, stranded, allocated>>,
           sponsored' \in 0 .. MaxSponsored,
           fund'.remaining - sponsored' =
             fund.remaining - NewAllocations(fund, elapsed) - sponsored,
           fund'.earnings = fund.earnings + NewAllocations(fund, elapsed),
           \A o \in Operators : Accrued(fund', o, 0) = Accrued(fund, o, elapsed)
    PROVE  IInv'
<1>1. FundInv /\ HistoryInv /\ FairInv /\ CoverInv
  BY DEF IInv
<1>2. FairInv'
  BY <1>1, FairAfter
<1>3. CoverInv'
  BY <1>1, CoverAfter
<1>4. /\ NewAllocations(fund, elapsed) \in Nat /\ fund.remaining \in Nat
      /\ fund'.remaining \in Nat
  BY <1>1, FundIsUpdatable, FundTypes, AllocationAssumption DEF FundInv, HistoryInv, Funds
<1>5. HistoryInv'
  <2>1. NewAllocations(fund', 0) = 0
    BY NothingAtOnce DEF FundInv
  <2>2. /\ sponsored \in Int /\ allocated \in Nat /\ sponsored' \in Int
        /\ fund.remaining - NewAllocations(fund, elapsed) = sponsored - allocated
    BY <1>1, AllocationAssumption DEF HistoryInv
  <2>3. fund'.remaining - 0 = sponsored' - allocated
    BY <1>4, <2>2
  <2>4. elapsed' \in 0 .. MaxElapsed
    BY AllocationAssumption
  <2> QED
    BY <1>1, <2>1, <2>3, <2>4 DEF HistoryInv
<1>6. FewPayouts' => fund'.earnings \in Nat
  <2>1. FewPayouts' => FewPayouts
    BY DEF FewPayouts
  <2> QED
    BY <1>4, <2>1 DEF IInv
<1> QED
  BY <1>2, <1>3, <1>5, <1>6 DEF IInv

LEMMA PayoutStep ==
    ASSUME IInv, FundInv', elapsed' = 0, NEW o \in Operators, PaidOut(o), stranded' \in Nat,
           NEW k \in Nat, k = Earnings(fund, o, elapsed) \/ k = 0,
           fund'.remaining = fund.remaining - NewAllocations(fund, elapsed),
           fund'.earnings = fund.earnings + NewAllocations(fund, elapsed) - k,
           Accrued(fund', o, 0) = 0,
           \A p \in Operators \ {o} : Accrued(fund', p, 0) = Accrued(fund, p, elapsed)
    PROVE  IInv'
<1>1. FundInv /\ HistoryInv /\ FairInv /\ CoverInv
  BY DEF IInv
<1>2. due' = [due EXCEPT ![o] = 0] /\ due \in [Operators -> Nat]
  BY <1>1 DEF PaidOut, HistoryInv
<1>3. FairInv'
  <2>1. ASSUME NEW p \in Operators
        PROVE  \/ /\ Accrued(fund', p, 0) = Accrued(fund, p, elapsed)
                  /\ due'[p] = due[p]
               \/ /\ Accrued(fund', p, 0) = 0
                  /\ due'[p] \in Nat
    BY <1>2
  <2> QED
    BY <1>1, <2>1, FairAfter
<1>4. CoverInv'
  BY <1>1, CoverAfterPayingOut
<1>5. /\ NewAllocations(fund, elapsed) \in Nat /\ fund.remaining \in Nat
      /\ fund'.remaining \in Nat /\ fund.earnings \in Int
  BY <1>1, FundIsUpdatable, FundTypes, AllocationAssumption DEF FundInv, HistoryInv, Funds
<1>6. roundings' \in Nat /\ roundings <= roundings'
  <2>1. roundings' = roundings + IF due[o] % FairScale = 0 THEN 0 ELSE 1
    BY DEF PaidOut
  <2>2. roundings \in Nat
    BY <1>1 DEF HistoryInv
  <2> QED
    BY <2>1, <2>2
<1>7. HistoryInv'
  <2>1. NewAllocations(fund', 0) = 0
    BY NothingAtOnce DEF FundInv
  <2>2. fund'.remaining - 0 = sponsored - allocated
    BY <1>1, <1>5 DEF HistoryInv
  <2>3. elapsed' \in 0 .. MaxElapsed
    BY AllocationAssumption
  <2>4. due' \in [Operators -> Nat]
    BY <1>2
  <2>5. sponsored' = sponsored /\ allocated' = allocated
    BY DEF PaidOut
  <2> QED
    BY <1>1, <1>6, <2>1, <2>2, <2>3, <2>4, <2>5 DEF HistoryInv
<1>8. ASSUME FewPayouts'
      PROVE  fund'.earnings \in Nat
  <2>1. FewPayouts
    BY <1>1, <1>6, <1>8, FewerBefore
  <2>2. /\ fund.earnings \in Nat
        /\ Earnings(fund, o, elapsed) <= fund.earnings + NewAllocations(fund, elapsed)
    BY <2>1, CanBePaid DEF IInv
  <2>3. k <= fund.earnings + NewAllocations(fund, elapsed)
    BY <1>5, <2>2
  <2> QED
    BY <1>5, <2>2, <2>3
<1> QED
  BY <1>3, <1>4, <1>7, <1>8 DEF IInv

\* The fund as a transaction finds it
LEMMA FundNow ==
    ASSUME IInv
    PROVE  /\ FundInv /\ HistoryInv /\ elapsed \in Nat
           /\ fund \in Funds /\ Movable(fund, elapsed)
           /\ sponsored \in 0 .. MaxSponsored
<1>1. /\ FundInv /\ HistoryInv /\ elapsed \in Nat
  BY AllocationAssumption DEF IInv, HistoryInv
<1>2. fund \in Funds /\ Updatable(fund, elapsed) /\ sponsored \in 0 .. MaxSponsored
  BY <1>1, FundIsUpdatable DEF FundInv, HistoryInv
<1> QED
  BY <1>1, <1>2 DEF Movable, FundInv, Timely, Placed

LEMMA SponsorKeeps ==
    ASSUME IInv, NEW amount \in SponsorAmounts, Sponsor(amount)
    PROVE  IInv'
<1> DEFINE a == [fund EXCEPT !.remaining = fund.remaining + amount]
           u == Update(a, elapsed)
           b == [u EXCEPT !.defaulted = FALSE]
           n == NewAllocations(fund, elapsed)
<1>1. /\ FundInv /\ HistoryInv /\ elapsed \in Nat /\ fund \in Funds /\ Movable(fund, elapsed)
      /\ sponsored \in 0 .. MaxSponsored
      /\ amount \in Nat /\ MaxSponsored \in Nat
  BY FundNow, AllocationAssumption
<1>2. /\ a \in Funds
      /\ a.staked = fund.staked /\ a.joined = fund.joined /\ a.earnings = fund.earnings
      /\ a.remaining = fund.remaining + amount /\ a.cumulative = fund.cumulative
      /\ a.reference = fund.reference /\ a.before = fund.before
      /\ a.lastTotalStake = fund.lastTotalStake /\ a.lastRemaining = fund.lastRemaining
      /\ a.lastWasRunning = fund.lastWasRunning
  BY <1>1 DEF Funds
<1>3. fund' = b /\ elapsed' = 0
  BY DEF Sponsor, Commit
<1> HIDE DEF a
<1>4. /\ NewAllocations(a, elapsed) = n
      /\ PerStake(a, elapsed) = PerStake(fund, elapsed)
  BY <1>2, SameInputs
<1>5. Updatable(a, elapsed)
  <2>1. fund.remaining \in Nat /\ fund.lastRemaining = fund.remaining
    BY <1>1, FundTypes DEF Movable, Funds
  <2>2. n # 0 => fund.lastTotalStake # 0
    BY <1>1 DEF Movable, Updatable
  <2> QED
    BY <1>1, <1>2, <1>4, <2>1, <2>2 DEF Updatable
<1>6. Updated(a, u, elapsed)
  BY <1>5, UpdateIs
<1>7. \A o \in Operators : Accrued(u, o, 0) = Accrued(a, o, elapsed)
  BY <1>5, <1>6, UpdateKeepsAccrued
<1> HIDE DEF u
<1>8. u \in Funds
  BY <1>6 DEF Updated, Moved
<1>9. /\ b \in Funds
      /\ b.staked = u.staked /\ b.joined = u.joined /\ b.earnings = u.earnings
      /\ b.remaining = u.remaining /\ b.cumulative = u.cumulative
      /\ b.reference = u.reference /\ b.before = u.before /\ b.defaulted = FALSE
      /\ b.lastTotalStake = u.lastTotalStake /\ b.lastRemaining = u.lastRemaining
      /\ b.lastWasRunning = u.lastWasRunning
  BY <1>8 DEF Funds
<1> HIDE DEF b
<1>10. Timely(b)
  <2>1. TotalStake(b) = TotalStake(a) /\ Running(b) = Running(a)
    BY <1>6, <1>9 DEF Updated, Moved, TotalStake, Running
  <2> QED
    BY <1>6, <1>9, <2>1 DEF Updated, Moved, Timely
<1>11. \A o \in Operators : Placed(b, o)
  <2>1. PerStake(fund, elapsed) \in Nat
    BY <1>1, FundIsUpdatable
  <2>2. b.cumulative = fund.cumulative + PerStake(fund, elapsed) /\ b.reference = fund.reference
        /\ b.staked = fund.staked /\ b.joined = fund.joined
    BY <1>2, <1>4, <1>6, <1>9 DEF Updated, Moved
  <2>3. ASSUME NEW o \in Operators
        PROVE  Placed(b, o)
    <3>1. Placed(fund, o) /\ fund.reference[o] \in Nat /\ fund.cumulative \in Nat
      BY <1>1, FundTypes DEF FundInv
    <3>2. fund.reference[o] <= b.cumulative
      BY <2>1, <2>2, <3>1 DEF Placed
    <3> QED
      BY <2>2, <3>1, <3>2 DEF Placed
  <2> QED
    BY <2>3
<1>12. FundInv'
  BY <1>3, <1>9, <1>10, <1>11 DEF FundInv
<1>13. ASSUME NEW o \in Operators
       PROVE  Accrued(b, o, 0) = Accrued(fund, o, elapsed)
  <2>1. PerStake(b, 0) = PerStake(u, 0)
    BY <1>8, <1>9, NothingAtOnce
  <2>2. Accrued(b, o, 0) = Accrued(u, o, 0)
    BY <1>9, <2>1 DEF Accrued
  <2>3. Accrued(a, o, elapsed) = Accrued(fund, o, elapsed)
    BY <1>2, <1>4 DEF Accrued
  <2> QED
    BY <1>7, <2>2, <2>3
<1>14. b.earnings = fund.earnings + n
  BY <1>2, <1>4, <1>6, <1>9 DEF Updated
<1>15. b.remaining = (fund.remaining + amount) - n
  BY <1>2, <1>4, <1>6, <1>9 DEF Updated, Moved
<1>16. sponsored' = sponsored + amount /\ sponsored + amount <= MaxSponsored
       /\ UNCHANGED <<due, roundings, stranded, allocated>>
  BY DEF Sponsor
<1>17. sponsored' \in 0 .. MaxSponsored
  BY <1>1, <1>16
<1>18. fund'.remaining - sponsored' = fund.remaining - n - sponsored
  <2>1. n \in Nat /\ fund.remaining \in Nat /\ sponsored \in Nat
    BY <1>1, FundIsUpdatable, FundTypes DEF Funds
  <2> QED
    BY <1>1, <1>3, <1>15, <1>16, <2>1
<1> QED
  BY <1>3, <1>12, <1>13, <1>14, <1>16, <1>17, <1>18, QuietStep


\* a with another stake of o, and J the operators that have joined
Restaked(a, o, stake, J) == [a EXCEPT !.staked[o] = stake, !.joined = J]

LEMMA RestakedIs ==
    ASSUME NEW a, NEW seconds, Movable(a, seconds), NEW o \in Operators, NEW stake \in Nat,
           NEW J \in SUBSET Operators
    PROVE  LET c == Restaked(a, o, stake, J)
           IN  /\ Movable(c, seconds)
               /\ c \in Funds
               /\ c.staked = [a.staked EXCEPT ![o] = stake] /\ c.joined = J
               /\ c.remaining = a.remaining /\ c.earnings = a.earnings
               /\ c.cumulative = a.cumulative
               /\ c.reference = a.reference /\ c.before = a.before
               /\ NewAllocations(c, seconds) = NewAllocations(a, seconds)
               /\ PerStake(c, seconds) = PerStake(a, seconds)
<1> DEFINE c == Restaked(a, o, stake, J)
<1>1. a \in Funds /\ Updatable(a, seconds)
  BY DEF Movable, Updatable
<1>2. /\ c \in Funds
      /\ c.staked = [a.staked EXCEPT ![o] = stake] /\ c.joined = J
      /\ c.remaining = a.remaining /\ c.earnings = a.earnings
      /\ c.cumulative = a.cumulative
      /\ c.reference = a.reference /\ c.before = a.before
      /\ c.lastRemaining = a.lastRemaining /\ c.lastTotalStake = a.lastTotalStake
      /\ c.lastWasRunning = a.lastWasRunning /\ c.defaulted = a.defaulted
  BY <1>1 DEF Restaked, Funds
<1> HIDE DEF c
<1>3. /\ NewAllocations(c, seconds) = NewAllocations(a, seconds)
      /\ PerStake(c, seconds) = PerStake(a, seconds)
  BY <1>2, SameInputs
<1>4. Movable(c, seconds)
  BY <1>2, <1>3 DEF Movable, Updatable
<1> QED
  BY <1>2, <1>3, <1>4 DEF c

\* In the middle of a transaction of o: nobody else's stake or share has changed
\* between a, with so many seconds to account for, and b, with as many left.
Serves(a, b, o, seconds, left) ==
    /\ Movable(a, seconds) /\ Movable(b, left)
    /\ b.remaining - NewAllocations(b, left) = a.remaining - NewAllocations(a, seconds)
    /\ \A p \in Operators \ {o} :
         /\ b.staked[p] = a.staked[p]
         /\ p \in b.joined <=> p \in a.joined
         /\ Accrued(b, p, left) = Accrued(a, p, seconds)

LEMMA ServesAgain ==
    ASSUME NEW a, NEW b, NEW c, NEW o, NEW s, NEW t, NEW u,
           Serves(a, b, o, s, t), Serves(b, c, o, t, u)
    PROVE  Serves(a, c, o, s, u)
  BY DEF Serves

LEMMA RestakedServes ==
    ASSUME NEW a, NEW seconds, Movable(a, seconds), NEW o \in Operators, NEW stake \in Nat,
           NEW J \in SUBSET Operators, J \ {o} = a.joined \ {o}
    PROVE  Serves(a, Restaked(a, o, stake, J), o, seconds, seconds)
<1> DEFINE c == Restaked(a, o, stake, J)
<1>1. /\ Movable(c, seconds)
      /\ c \in Funds
      /\ c.staked = [a.staked EXCEPT ![o] = stake] /\ c.joined = J
      /\ c.remaining = a.remaining /\ c.cumulative = a.cumulative
      /\ c.reference = a.reference /\ c.before = a.before
      /\ NewAllocations(c, seconds) = NewAllocations(a, seconds)
      /\ PerStake(c, seconds) = PerStake(a, seconds)
  BY RestakedIs
<1> HIDE DEF c
<1>2. a.staked \in [Operators -> Nat]
  BY FundTypes DEF Movable, Updatable
<1>3. ASSUME NEW p \in Operators \ {o}
      PROVE  /\ c.staked[p] = a.staked[p]
             /\ p \in c.joined <=> p \in a.joined
             /\ Accrued(c, p, seconds) = Accrued(a, p, seconds)
  <2>1. c.staked[p] = a.staked[p] /\ (p \in c.joined <=> p \in a.joined)
    BY <1>1, <1>2
  <2>2. Accrued(c, p, seconds) = Accrued(a, p, seconds)
    BY <1>1, <2>1 DEF Accrued
  <2> QED
    BY <2>1, <2>2
<1>4. c.remaining - NewAllocations(c, seconds) = a.remaining - NewAllocations(a, seconds)
  BY <1>1
<1>5. Serves(a, c, o, seconds, seconds)
  BY <1>1, <1>3, <1>4 DEF Serves
<1> QED
  BY <1>5 DEF c

\* A handler has been called for o.
Handles(a, b, o, seconds) ==
    /\ Moved(a, b, seconds)
    /\ b.reference[o] = b.cumulative \/ b.reference[o] = 0
    /\ \A p \in Operators \ {o} : b.reference[p] = a.reference[p] /\ b.before[p] = a.before[p]

LEMMA HandlerServes ==
    ASSUME NEW a, NEW b, NEW seconds, NEW o \in Operators, Movable(a, seconds),
           Handles(a, b, o, seconds)
    PROVE  Serves(a, b, o, seconds, 0) /\ Timely(b)
<1>1. /\ Moved(a, b, seconds) /\ Updatable(a, seconds) /\ b \in Funds
      /\ b.staked = a.staked /\ b.joined = a.joined
      /\ b.remaining = a.remaining - NewAllocations(a, seconds)
  BY DEF Handles, Movable, Moved
<1>2. \A p \in Operators : \/ b.reference[p] = a.reference[p]
                           \/ b.reference[p] = b.cumulative
                           \/ b.reference[p] = 0
  BY DEF Handles
<1>3. Movable(b, 0) /\ Timely(b)
  BY <1>1, <1>2, MovedIsMovable
<1>4. ASSUME NEW p \in Operators \ {o}
      PROVE  Accrued(b, p, 0) = Accrued(a, p, seconds)
  <2>1. /\ p \in Operators /\ a.reference[p] <= a.cumulative
        /\ b.reference[p] = a.reference[p] /\ b.before[p] = a.before[p]
    BY DEF Handles, Movable
  <2> QED
    BY <1>1, <2>1, MovedKeepsAccrued
<1>5. b.remaining - NewAllocations(b, 0) = a.remaining - NewAllocations(a, seconds)
  <2>1. NewAllocations(b, 0) = 0 /\ b.remaining \in Nat
    BY <1>1, NothingAtOnce, FundTypes DEF Funds
  <2> QED
    BY <1>1, <2>1
<1> QED
  BY <1>1, <1>3, <1>4, <1>5 DEF Serves

\* The fund that the transaction leaves
LEMMA ServedFund ==
    ASSUME FundInv, NEW b, NEW o \in Operators, NEW seconds, NEW left,
           Serves(fund, b, o, seconds, left), Timely(b),
           b.staked[o] \in Stakes \cup {0}, o \in b.joined <=> b.staked[o] # 0
    PROVE  /\ b \in Funds
           /\ \A p \in Operators : Placed(b, p)
<1>1. b \in Funds /\ \A p \in Operators : b.reference[p] <= b.cumulative
  BY DEF Serves, Movable, Updatable
<1>2. ASSUME NEW p \in Operators
      PROVE  Placed(b, p)
  <2>1. Placed(fund, p)
    BY DEF FundInv
  <2>2. CASE p = o
    BY <1>1, <2>2 DEF Placed
  <2>3. CASE p # o
    <3>1. b.staked[p] = fund.staked[p] /\ (p \in b.joined <=> p \in fund.joined)
      BY <2>3 DEF Serves
    <3> QED
      BY <1>1, <2>1, <3>1 DEF Placed
  <2> QED
    BY <2>2, <2>3
<1> QED
  BY <1>1, <1>2

\* A transaction that pays nothing, nor sponsors
LEMMA ServedQuietly ==
    ASSUME IInv, NEW o \in Operators, Serves(fund, fund', o, elapsed, 0), Timely(fund'),
           fund'.staked[o] \in Stakes \cup {0}, o \in fund'.joined <=> fund'.staked[o] # 0,
           elapsed' = 0, UNCHANGED history,
           fund'.earnings = fund.earnings + NewAllocations(fund, elapsed),
           Accrued(fund', o, 0) = Accrued(fund, o, elapsed)
    PROVE  IInv'
<1>1. /\ FundInv /\ HistoryInv /\ elapsed \in Nat /\ fund \in Funds
      /\ sponsored \in 0 .. MaxSponsored
  BY FundNow
<1>2. fund' \in Funds /\ \A p \in Operators : Placed(fund', p)
  BY <1>1, ServedFund
<1>3. FundInv'
  BY <1>2 DEF FundInv
<1>4. \A p \in Operators : Accrued(fund', p, 0) = Accrued(fund, p, elapsed)
  BY DEF Serves
<1>5. UNCHANGED <<due, roundings, stranded, allocated>> /\ sponsored' = sponsored
  BY DEF history
<1>6. fund'.remaining - sponsored' = fund.remaining - NewAllocations(fund, elapsed) - sponsored
  <2>1. fund'.remaining - NewAllocations(fund', 0) = fund.remaining - NewAllocations(fund, elapsed)
    BY DEF Serves
  <2>2. /\ NewAllocations(fund', 0) = 0 /\ fund'.remaining \in Nat /\ fund.remaining \in Nat
        /\ NewAllocations(fund, elapsed) \in Nat /\ sponsored \in Int
    BY <1>1, <1>2, NothingAtOnce, FundIsUpdatable, FundTypes DEF Funds
  <2> QED
    BY <1>5, <2>1, <2>2
<1>7. sponsored' \in 0 .. MaxSponsored
  BY <1>1, <1>5
<1> QED
  BY <1>3, <1>4, <1>5, <1>6, <1>7, QuietStep

\* A transaction that pays o
LEMMA ServedPayout ==
    ASSUME IInv, NEW o \in Operators, Serves(fund, fund', o, elapsed, 0), Timely(fund'),
           fund'.staked[o] \in Stakes \cup {0}, o \in fund'.joined <=> fund'.staked[o] # 0,
           elapsed' = 0, PaidOut(o), stranded' \in Nat,
           NEW k \in Nat, k = Earnings(fund, o, elapsed) \/ k = 0,
           fund'.earnings = fund.earnings + NewAllocations(fund, elapsed) - k,
           Accrued(fund', o, 0) = 0
    PROVE  IInv'
<1>1. /\ FundInv /\ HistoryInv /\ elapsed \in Nat /\ fund \in Funds
  BY FundNow
<1>2. fund' \in Funds /\ \A p \in Operators : Placed(fund', p)
  BY <1>1, ServedFund
<1>3. FundInv'
  BY <1>2 DEF FundInv
<1>4. \A p \in Operators \ {o} : Accrued(fund', p, 0) = Accrued(fund, p, elapsed)
  BY DEF Serves
<1>5. fund'.remaining = fund.remaining - NewAllocations(fund, elapsed)
  <2>1. fund'.remaining - NewAllocations(fund', 0) = fund.remaining - NewAllocations(fund, elapsed)
    BY DEF Serves
  <2>2. NewAllocations(fund', 0) = 0 /\ fund'.remaining \in Nat
    BY <1>2, NothingAtOnce, FundTypes DEF Funds
  <2> QED
    BY <2>1, <2>2
<1> QED
  BY <1>3, <1>4, <1>5, PayoutStep


LEMMA JoinKeeps ==
    ASSUME IInv, NEW o \in Operators, NEW stake \in Stakes, Join(o, stake)
    PROVE  IInv'
<1> DEFINE J == fund.joined \cup {o}
           c == Restaked(fund, o, stake, J)
           b == OnJoin(c, o, elapsed)
           n == NewAllocations(fund, elapsed)
<1>1. /\ FundInv /\ HistoryInv /\ elapsed \in Nat /\ fund \in Funds /\ Movable(fund, elapsed)
      /\ stake \in Nat \ {0}
  BY FundNow, AllocationAssumption
<1>2. fund' = b /\ elapsed' = 0 /\ fund.staked[o] = 0 /\ UNCHANGED history
  BY DEF Join, Commit, Restaked
<1>3. J \in SUBSET Operators /\ J \ {o} = fund.joined \ {o} /\ o \in J
  BY <1>1, FundTypes
<1> HIDE DEF J
<1>4. /\ Movable(c, elapsed) /\ c \in Funds
      /\ c.staked = [fund.staked EXCEPT ![o] = stake] /\ c.joined = J
      /\ c.earnings = fund.earnings
      /\ c.reference = fund.reference /\ c.before = fund.before
      /\ NewAllocations(c, elapsed) = n
  BY <1>1, <1>3, RestakedIs
<1>5. Serves(fund, c, o, elapsed, elapsed)
  BY <1>1, <1>3, RestakedServes
<1> HIDE DEF c
<1>6. /\ Moved(c, b, elapsed)
      /\ b.reference = [c.reference EXCEPT ![o] = b.cumulative]
      /\ b.before = c.before
      /\ b.earnings = c.earnings + NewAllocations(c, elapsed)
  BY <1>4, OnJoinIs DEF Movable
<1> HIDE DEF b
<1>7. c.reference \in [Operators -> Nat] /\ fund.staked \in [Operators -> Nat]
  BY <1>1, <1>4, FundTypes
<1>8. b.reference[o] = b.cumulative /\ b \in Funds /\ b.staked = c.staked /\ b.joined = c.joined
  BY <1>6, <1>7 DEF Moved
<1>9. Handles(c, b, o, elapsed)
  BY <1>6, <1>7 DEF Handles
<1>10. Serves(c, b, o, elapsed, 0) /\ Timely(b)
  BY <1>4, <1>9, HandlerServes
<1>11. Serves(fund, b, o, elapsed, 0)
  BY <1>5, <1>10, ServesAgain
<1>12. b.staked[o] = stake /\ o \in b.joined
  BY <1>3, <1>4, <1>7, <1>8
<1>13. Accrued(b, o, 0) = Accrued(fund, o, elapsed)
  <2>1. Accrued(b, o, 0) = b.before[o]
    BY <1>8, AccruedAtReference
  <2>2. Accrued(fund, o, elapsed) = fund.before[o]
    BY <1>1, <1>2, AccruedWithoutStake DEF Movable
  <2> QED
    BY <1>4, <1>6, <2>1, <2>2
<1>14. b.earnings = fund.earnings + n
  BY <1>4, <1>6
<1> QED
  BY <1>1, <1>2, <1>10, <1>11, <1>12, <1>13, <1>14, ServedQuietly

\* What o has accrued is saved when its stake changes.
LEMMA ChangeSavesAccrued ==
    ASSUME NEW a, NEW c, NEW b, NEW seconds, NEW o \in Operators,
           Movable(a, seconds), b \in Funds,
           c.cumulative = a.cumulative, c.reference[o] = a.reference[o],
           c.before[o] = a.before[o], PerStake(c, seconds) = PerStake(a, seconds),
           b.cumulative = c.cumulative + PerStake(c, seconds),
           b.reference[o] = b.cumulative,
           b.before[o] = c.before[o] + a.staked[o] * (b.cumulative - c.reference[o])
    PROVE  Accrued(b, o, 0) = Accrued(a, o, seconds)
<1>1. Accrued(b, o, 0) = b.before[o]
  BY AccruedAtReference
<1> DEFINE now == b.cumulative - c.reference[o]
           then == a.cumulative + PerStake(a, seconds) - a.reference[o]
<1>2. /\ a.cumulative \in Nat /\ a.reference[o] \in Nat /\ PerStake(a, seconds) \in Nat
  BY PerStakeIs, FundTypes DEF Movable, Updatable
<1>3. Accrued(a, o, seconds) = a.before[o] + a.staked[o] * then
  BY Zenon DEF Accrued
<1>4. b.before[o] = c.before[o] + a.staked[o] * now
  OBVIOUS
<1>5. now = then
  BY <1>2
<1> HIDE DEF now, then
<1> QED
  BY <1>1, <1>3, <1>4, <1>5

\* _stake, reduceStakeTo and _slash up to the end of onStakeChange
LEMMA StakeChangeServes ==
    ASSUME IInv, NEW o \in Operators, o \in fund.joined, NEW stake \in Stakes \cup {0}
    PROVE  LET b == OnStakeChange([fund EXCEPT !.staked[o] = stake], o, fund.staked[o], elapsed)
           IN  /\ Serves(fund, b, o, elapsed, 0) /\ Timely(b)
               /\ b.staked[o] = stake /\ b.joined = fund.joined
               /\ b.earnings = fund.earnings + NewAllocations(fund, elapsed)
               /\ Accrued(b, o, 0) = Accrued(fund, o, elapsed)
<1> DEFINE J == fund.joined
           c == Restaked(fund, o, stake, J)
           old == fund.staked[o]
           b == OnStakeChange(c, o, old, elapsed)
           n == NewAllocations(fund, elapsed)
<1>1. /\ FundInv /\ HistoryInv /\ elapsed \in Nat /\ fund \in Funds /\ Movable(fund, elapsed)
      /\ stake \in Nat
  BY FundNow, AllocationAssumption
<1>2. [fund EXCEPT !.staked[o] = stake] = c
  BY <1>1 DEF Restaked, Funds
<1>3. J \in SUBSET Operators /\ J \ {o} = fund.joined \ {o} /\ old \in Nat
  BY <1>1, FundTypes
<1>4. /\ Movable(c, elapsed) /\ c \in Funds
      /\ c.staked = [fund.staked EXCEPT ![o] = stake] /\ c.joined = J
      /\ c.earnings = fund.earnings /\ c.cumulative = fund.cumulative
      /\ c.reference = fund.reference /\ c.before = fund.before
      /\ NewAllocations(c, elapsed) = n
      /\ PerStake(c, elapsed) = PerStake(fund, elapsed)
  BY <1>1, <1>3, RestakedIs
<1>5. Serves(fund, c, o, elapsed, elapsed)
  BY <1>1, <1>3, RestakedServes
<1> HIDE DEF c
<1>6. c.reference[o] <= c.cumulative /\ Updatable(c, elapsed)
  BY <1>4 DEF Movable
<1>7. /\ Moved(c, b, elapsed)
      /\ b.reference = [c.reference EXCEPT ![o] = b.cumulative]
      /\ b.before = [c.before EXCEPT ![o] =
                       c.before[o] + old * (b.cumulative - c.reference[o])]
      /\ b.earnings = c.earnings + NewAllocations(c, elapsed)
  BY <1>3, <1>6, OnStakeChangeIs
<1> DEFINE saved == c.before[o] + old * (b.cumulative - c.reference[o])
<1>8. b.before = [c.before EXCEPT ![o] = saved]
  BY <1>7
<1> HIDE DEF b, saved
<1>9. /\ c.reference \in [Operators -> Nat] /\ fund.staked \in [Operators -> Nat]
      /\ c.before \in [Operators -> Nat]
  BY <1>1, <1>4, FundTypes
<1>10. /\ b.reference[o] = b.cumulative /\ b.before[o] = saved
       /\ b \in Funds /\ b.staked = c.staked /\ b.joined = c.joined
       /\ b.cumulative = c.cumulative + PerStake(c, elapsed)
  BY <1>7, <1>8, <1>9 DEF Moved
<1>11. Handles(c, b, o, elapsed)
  BY <1>7, <1>8, <1>9 DEF Handles
<1>12. Serves(c, b, o, elapsed, 0) /\ Timely(b)
  BY <1>4, <1>11, HandlerServes
<1>13. Serves(fund, b, o, elapsed, 0)
  BY <1>5, <1>12, ServesAgain
<1>14. b.staked[o] = stake /\ b.joined = fund.joined
  BY <1>4, <1>9, <1>10
<1>15. Accrued(b, o, 0) = Accrued(fund, o, elapsed)
  <2>1. b.before[o] = c.before[o] + fund.staked[o] * (b.cumulative - c.reference[o])
    BY <1>10 DEF saved
  <2>2. c.reference[o] = fund.reference[o] /\ c.before[o] = fund.before[o]
    BY <1>4
  <2> QED
    BY <1>1, <1>4, <1>10, <2>1, <2>2, ChangeSavesAccrued
<1>16. b.earnings = fund.earnings + n
  BY <1>4, <1>7
<1>17. OnStakeChange([fund EXCEPT !.staked[o] = stake], o, fund.staked[o], elapsed) = b
  BY <1>2 DEF b
<1> QED
  BY <1>12, <1>13, <1>14, <1>15, <1>16, <1>17

LEMMA ChangeStakeKeeps ==
    ASSUME IInv, NEW o \in Operators, NEW stake \in Stakes, ChangeStake(o, stake)
    PROVE  IInv'
<1> DEFINE b == OnStakeChange([fund EXCEPT !.staked[o] = stake], o, fund.staked[o], elapsed)
<1>1. o \in fund.joined /\ fund' = b /\ elapsed' = 0 /\ UNCHANGED history
  BY DEF ChangeStake, Commit
<1>2. /\ Serves(fund, b, o, elapsed, 0) /\ Timely(b)
      /\ b.staked[o] = stake /\ b.joined = fund.joined
      /\ b.earnings = fund.earnings + NewAllocations(fund, elapsed)
      /\ Accrued(b, o, 0) = Accrued(fund, o, elapsed)
  BY <1>1, StakeChangeServes
<1> HIDE DEF b
<1>3. stake # 0
  BY AllocationAssumption
<1> QED
  BY <1>1, <1>2, <1>3, ServedQuietly


LEMMA WithdrawServes ==
    ASSUME NEW a, NEW seconds, Movable(a, seconds), NEW o \in Operators
    PROVE  LET b == OnWithdraw(a, o, seconds)
           IN  /\ Serves(a, b, o, seconds, 0) /\ Timely(b)
               /\ b.staked = a.staked /\ b.joined = a.joined
               /\ b.earnings = a.earnings + NewAllocations(a, seconds) - Earnings(a, o, seconds)
               /\ Accrued(b, o, 0) = 0
<1> DEFINE b == OnWithdraw(a, o, seconds)
<1>1. a.reference[o] <= a.cumulative /\ Updatable(a, seconds) /\ a \in Funds
  BY DEF Movable, Updatable
<1>2. /\ Moved(a, b, seconds)
      /\ b.reference = [a.reference EXCEPT ![o] = b.cumulative]
      /\ b.before = [a.before EXCEPT ![o] = 0]
      /\ b.earnings = a.earnings + NewAllocations(a, seconds) - Earnings(a, o, seconds)
  BY <1>1, OnWithdrawIs
<1> HIDE DEF b
<1>3. a.reference \in [Operators -> Nat] /\ a.before \in [Operators -> Nat]
  BY <1>1, FundTypes
<1>4. /\ b.reference[o] = b.cumulative /\ b.before[o] = 0
      /\ b \in Funds /\ b.staked = a.staked /\ b.joined = a.joined
  BY <1>2, <1>3 DEF Moved
<1>5. Handles(a, b, o, seconds)
  BY <1>2, <1>3 DEF Handles
<1>6. Serves(a, b, o, seconds, 0) /\ Timely(b)
  BY <1>5, HandlerServes
<1>7. Accrued(b, o, 0) = 0
  BY <1>4, AccruedAtReference
<1> QED
  BY <1>2, <1>4, <1>6, <1>7 DEF b

LEMMA LeavingServes ==
    ASSUME NEW a, NEW seconds, Movable(a, seconds), NEW o \in Operators
    PROVE  LET b == OnLeave(Restaked(a, o, 0, a.joined \ {o}), o, seconds)
           IN  /\ Serves(a, b, o, seconds, 0) /\ Timely(b)
               /\ b.staked[o] = 0 /\ o \notin b.joined
               /\ b.earnings = a.earnings + NewAllocations(a, seconds)
               /\ Accrued(b, o, 0) = 0
<1> DEFINE J == a.joined \ {o}
           c == Restaked(a, o, 0, J)
           b == OnLeave(c, o, seconds)
<1>1. a \in Funds /\ J \in SUBSET Operators /\ J \ {o} = a.joined \ {o} /\ o \notin J
  BY FundTypes DEF Movable, Updatable
<1> HIDE DEF J
<1>2. /\ Movable(c, seconds) /\ c \in Funds
      /\ c.staked = [a.staked EXCEPT ![o] = 0] /\ c.joined = J
      /\ c.earnings = a.earnings
      /\ NewAllocations(c, seconds) = NewAllocations(a, seconds)
  BY <1>1, RestakedIs
<1>3. Serves(a, c, o, seconds, seconds)
  BY <1>1, RestakedServes
<1> HIDE DEF c
<1>4. /\ Moved(c, b, seconds)
      /\ b.reference = [c.reference EXCEPT ![o] = 0]
      /\ b.before = [c.before EXCEPT ![o] = 0]
      /\ b.earnings = c.earnings + NewAllocations(c, seconds)
  BY <1>2, OnLeaveIs DEF Movable
<1> HIDE DEF b
<1>5. /\ c.reference \in [Operators -> Nat] /\ c.before \in [Operators -> Nat]
      /\ a.staked \in [Operators -> Nat]
  BY <1>1, <1>2, FundTypes
<1>6. /\ b.reference[o] = 0 /\ b.before[o] = 0
      /\ b \in Funds /\ b.staked = c.staked /\ b.joined = c.joined
  BY <1>4, <1>5 DEF Moved
<1>7. Handles(c, b, o, seconds)
  BY <1>4, <1>5 DEF Handles
<1>8. Serves(c, b, o, seconds, 0) /\ Timely(b)
  BY <1>2, <1>7, HandlerServes
<1>9. Serves(a, b, o, seconds, 0)
  BY <1>3, <1>8, ServesAgain
<1>10. b.staked[o] = 0 /\ o \notin b.joined
  BY <1>1, <1>2, <1>5, <1>6
<1>11. Updatable(b, 0)
  BY <1>8 DEF Serves, Movable
<1>12. Accrued(b, o, 0) = 0
  BY <1>6, <1>10, <1>11, AccruedWithoutStake
<1>13. b.earnings = a.earnings + NewAllocations(a, seconds)
  BY <1>2, <1>4
<1> QED
  BY <1>8, <1>9, <1>10, <1>12, <1>13 DEF b, c, J

LEMMA WithdrawKeeps ==
    ASSUME IInv, NEW o \in Operators, Withdraw(o)
    PROVE  IInv'
<1> DEFINE b == OnWithdraw(fund, o, elapsed)
           k == Earnings(fund, o, elapsed)
<1>1. o \in fund.joined /\ fund' = b /\ elapsed' = 0 /\ PaidOut(o) /\ stranded' = stranded
  BY DEF Withdraw, Commit
<1>2. /\ FundInv /\ HistoryInv /\ FairInv /\ fund \in Funds /\ Movable(fund, elapsed)
      /\ stranded \in Nat
  BY FundNow DEF IInv, HistoryInv
<1>3. /\ Serves(fund, b, o, elapsed, 0) /\ Timely(b)
      /\ b.staked = fund.staked /\ b.joined = fund.joined
      /\ b.earnings = fund.earnings + NewAllocations(fund, elapsed) - k
      /\ Accrued(b, o, 0) = 0
  BY <1>2, WithdrawServes
<1>4. k \in Nat
  BY <1>2, PayoutNow
<1> HIDE DEF b, k
<1>5. b.staked[o] \in Stakes \cup {0} /\ (o \in b.joined <=> b.staked[o] # 0)
  BY <1>2, <1>3 DEF FundInv, Placed
<1>6. k = Earnings(fund, o, elapsed) \/ k = 0
  BY DEF k
<1> QED
  BY <1>1, <1>2, <1>3, <1>4, <1>5, <1>6, ServedPayout

\* Without a change of the stake, what has been earned is the same, or lost with the stake.
LEMMA EarningsOfAccrued ==
    ASSUME NEW a, NEW b, NEW o, NEW s, NEW t, a.staked[o] # 0,
           Accrued(b, o, t) = Accrued(a, o, s)
    PROVE  Earnings(b, o, t) = IF b.staked[o] = 0 THEN 0 ELSE Earnings(a, o, s)
<1>1. /\ Earnings(a, o, s) = IF a.staked[o] = 0 THEN 0 ELSE (Accrued(a, o, s) + RoundUp) \div Scale
      /\ Earnings(b, o, t) = IF b.staked[o] = 0 THEN 0 ELSE (Accrued(b, o, t) + RoundUp) \div Scale
  BY Zenon DEF Earnings, Accrued
<1> QED
  BY <1>1

LEMMA LeaveKeeps ==
    ASSUME IInv, NEW o \in Operators, NEW stake \in Stakes \cup {0}, Leave(o, stake)
    PROVE  IInv'
<1> DEFINE slashes == stake # fund.staked[o]
           changed == OnStakeChange([fund EXCEPT !.staked[o] = stake], o, fund.staked[o], elapsed)
           slashed == IF slashes THEN changed ELSE fund
           t == IF slashes THEN 0 ELSE elapsed
           paid == OnWithdraw(slashed, o, t)
           left == [paid EXCEPT !.staked[o] = 0, !.joined = paid.joined \ {o}]
           b == OnLeave(left, o, 0)
           k == Earnings(slashed, o, t)
           e == Earnings(fund, o, elapsed)
           n == NewAllocations(fund, elapsed)
<1>1. /\ o \in fund.joined /\ fund' = b /\ elapsed' = 0 /\ PaidOut(o)
      /\ stranded' = stranded + IF stake = 0 THEN e ELSE 0
  BY DEF Leave, Commit
<1>2. /\ FundInv /\ HistoryInv /\ FairInv /\ fund \in Funds /\ Movable(fund, elapsed)
      /\ stranded \in Nat /\ elapsed \in Nat
  BY FundNow DEF IInv, HistoryInv
<1>3. left = Restaked(paid, o, 0, paid.joined \ {o})
  BY DEF Restaked
<1>4. e \in Nat /\ n \in Nat /\ fund.earnings \in Int /\ fund.staked[o] # 0
  BY <1>1, <1>2, PayoutNow, FundIsUpdatable, FundTypes DEF FundInv, Placed
<1> HIDE DEF left, e, n
<1>5. /\ Serves(fund, slashed, o, elapsed, t)
      /\ slashed.staked[o] = stake
      /\ slashed.earnings \in Int /\ NewAllocations(slashed, t) \in Nat
      /\ slashed.earnings + NewAllocations(slashed, t) = fund.earnings + n
      /\ Accrued(slashed, o, t) = Accrued(fund, o, elapsed)
  <2>1. CASE slashes
    <3>1. slashed = changed /\ t = 0
      BY <2>1
    <3>2. /\ Serves(fund, changed, o, elapsed, 0)
          /\ changed.staked[o] = stake
          /\ changed.earnings = fund.earnings + n
          /\ Accrued(changed, o, 0) = Accrued(fund, o, elapsed)
      BY <1>1, StakeChangeServes DEF n
    <3> HIDE DEF changed, slashed, t, slashes
    <3>3. changed \in Funds
      BY <3>2 DEF Serves, Movable, Updatable
    <3>4. NewAllocations(changed, 0) = 0 /\ changed.earnings \in Int
      BY <3>3, NothingAtOnce, FundTypes DEF Funds
    <3>5. changed.earnings + NewAllocations(changed, 0) = fund.earnings + n
      BY <3>2, <3>4
    <3> QED
      BY <3>1, <3>2, <3>4, <3>5
  <2>2. CASE ~slashes
    <3>1. slashed = fund /\ t = elapsed /\ stake = fund.staked[o]
      BY <2>2
    <3> HIDE DEF changed, slashed, t, slashes
    <3>2. Serves(fund, fund, o, elapsed, elapsed)
      BY <1>2 DEF Serves
    <3> QED
      BY <1>4, <3>1, <3>2 DEF n
  <2> QED
    BY <2>1, <2>2
<1> HIDE DEF changed, slashed, t, slashes
<1>6. k = IF stake = 0 THEN 0 ELSE e
  BY <1>4, <1>5, EarningsOfAccrued DEF e
<1>7. k \in Nat /\ (k = e \/ k = 0)
  BY <1>4, <1>6
<1>8. Movable(slashed, t)
  BY <1>5 DEF Serves
<1>9. /\ Serves(slashed, paid, o, t, 0)
      /\ paid.earnings = slashed.earnings + NewAllocations(slashed, t) - k
  BY <1>8, WithdrawServes
<1> HIDE DEF paid, k
<1>10. Movable(paid, 0) /\ paid \in Funds
  BY <1>9 DEF Serves, Movable, Updatable
<1>11. /\ Serves(paid, b, o, 0, 0) /\ Timely(b)
       /\ b.staked[o] = 0 /\ o \notin b.joined
       /\ b.earnings = paid.earnings + NewAllocations(paid, 0)
       /\ Accrued(b, o, 0) = 0
  BY <1>3, <1>10, LeavingServes
<1> HIDE DEF b
<1>12. Serves(fund, b, o, elapsed, 0)
  <2>1. Serves(fund, paid, o, elapsed, 0)
    BY <1>5, <1>9, ServesAgain
  <2> QED
    BY <1>11, <2>1, ServesAgain
<1>13. b.earnings = fund.earnings + n - k
  <2>1. NewAllocations(paid, 0) = 0 /\ paid.earnings \in Int
    BY <1>10, NothingAtOnce, FundTypes DEF Funds
  <2> QED
    BY <1>4, <1>5, <1>7, <1>9, <1>11, <2>1
<1>14. stranded' \in Nat
  BY <1>1, <1>2, <1>4
<1> QED
  BY <1>1, <1>7, <1>11, <1>12, <1>13, <1>14, ServedPayout DEF e, n


LEMMA SmallerByASecond ==
    ASSUME NEW x \in Nat, NEW i \in Nat, NEW r \in Nat
    PROVE  Smaller(x + i, r) = Smaller(x, r) + Smaller(i, r - Smaller(x, r))
  BY DEF Smaller

\* What is allocated in a second
Income == IF Running(fund) THEN Smaller(IncomePerSecond, sponsored - allocated) ELSE 0

\* A second allocates what it is worth, as long as there are tokens left.
LEMMA SecondAllocates ==
    ASSUME FundInv, HistoryInv
    PROVE  /\ Income \in Nat
           /\ Income # 0 => Running(fund)
           /\ NewAllocations(fund, elapsed + 1) = NewAllocations(fund, elapsed) + Income
<1> DEFINE x == IncomePerSecond * elapsed
           r == fund.remaining
           n == NewAllocations(fund, elapsed)
           more == NewAllocations(fund, elapsed + 1)
<1>1. /\ elapsed \in Nat /\ IncomePerSecond \in Nat /\ r \in Nat /\ n \in Nat /\ n <= r
      /\ fund.lastWasRunning = Running(fund) /\ fund.lastRemaining = r
      /\ r - n = sponsored - allocated
  BY FundIsUpdatable, AllocationAssumption DEF FundInv, HistoryInv, Timely, Funds
<1>2. x \in Nat /\ IncomePerSecond * (elapsed + 1) = x + IncomePerSecond
  BY <1>1
<1>3. /\ n = IF Running(fund) THEN Smaller(x, r) ELSE 0
      /\ more = IF Running(fund) THEN Smaller(x + IncomePerSecond, r) ELSE 0
  BY <1>1, <1>2 DEF NewAllocations
<1>4. Income = IF Running(fund) THEN Smaller(IncomePerSecond, r - n) ELSE 0
  BY <1>1 DEF Income
<1> HIDE DEF x, r, n, more
<1>5. Income \in Nat
  BY <1>1, <1>4 DEF Smaller
<1>6. more = n + Income
  <2>1. CASE Running(fund)
    BY <1>1, <1>2, <1>3, <1>4, <2>1, SmallerByASecond
  <2>2. CASE ~Running(fund)
    BY <1>3, <1>4, <2>2
  <2> QED
    BY <2>1, <2>2
<1> QED
  BY <1>4, <1>5, <1>6 DEF n, more

\* The income of a second is shared out exactly.
LEMMA SecondIsShared ==
    ASSUME FundInv, HistoryInv, Tick
    PROVE  /\ due' \in [Operators -> Nat]
           /\ \A o \in Operators : due'[o] = due[o] + Income * (fund.staked[o] * Share(fund))
           /\ SumFunctionOnSet(due', Operators)
                = SumFunctionOnSet(due, Operators) + Income * FairScale
<1> DEFINE S == Share(fund)
           T == TotalStake(fund)
           i == Income
           add == [o \in Operators |-> (i * S) * fund.staked[o]]
           new == [o \in Operators |-> due[o] + add[o]]
<1>1. /\ fund \in Funds /\ \A o \in Operators : fund.staked[o] \in Nat
      /\ due \in [Operators -> Nat] /\ IsFiniteSet(Operators)
      /\ i \in Nat /\ (i # 0 => Running(fund))
  BY SecondAllocates, FundTypes, AllocationAssumption DEF FundInv, HistoryInv
<1>2. S \in Nat /\ T \in Nat /\ (T # 0 => T * S = FairScale) /\ (Running(fund) => T # 0)
  BY <1>1, ShareIs, TotalStakeIs, RunningHasStake DEF FundInv
<1>3. due' = IF i = 0 THEN due
             ELSE [o \in Operators |-> due[o] + i * fund.staked[o] * (FairScale \div T)]
  BY Zenon DEF Tick, Income
<1>4. T # 0 => S = FairScale \div T
  BY DEF Share
<1> HIDE DEF S, T, i
<1>5. \A o \in Operators : add[o] \in Nat /\ add[o] = i * (fund.staked[o] * S)
  <2> SUFFICES ASSUME NEW o \in Operators
               PROVE  add[o] \in Nat /\ add[o] = i * (fund.staked[o] * S)
    OBVIOUS
  <2> DEFINE st == fund.staked[o]
  <2>1. st \in Nat /\ add[o] = (i * S) * st
    BY <1>1
  <2> HIDE DEF add, st
  <2>2. (i * S) * st \in Nat /\ (i * S) * st = i * (st * S)
    BY <1>1, <1>2, <2>1
  <2> QED
    BY <2>1, <2>2 DEF st
<1>6. due' = new
  <2>1. CASE i = 0
    <3>1. \A o \in Operators : add[o] = 0
      <4> SUFFICES ASSUME NEW o \in Operators
                   PROVE  add[o] = 0
        OBVIOUS
      <4> DEFINE y == fund.staked[o] * S
      <4>1. y \in Nat /\ add[o] = i * y
        BY <1>1, <1>2, <1>5
      <4> HIDE DEF y, add
      <4>2. 0 * y = 0
        BY <4>1
      <4> QED
        BY <2>1, <4>1, <4>2
    <3> HIDE DEF add
    <3>2. \A o \in Operators : due[o] + add[o] = due[o]
      BY <1>1, <3>1
    <3>3. new = due
      BY <1>1, <3>2
    <3> QED
      BY <1>3, <2>1, <3>3
  <2>2. CASE i # 0
    <3>1. S = FairScale \div T
      BY <1>1, <1>2, <1>4, <2>2
    <3>2. due' = [o \in Operators |-> due[o] + i * fund.staked[o] * S]
      BY <1>3, <2>2, <3>1
    <3>3. \A o \in Operators : i * fund.staked[o] * S = add[o]
      <4> SUFFICES ASSUME NEW o \in Operators
                   PROVE  i * fund.staked[o] * S = add[o]
        OBVIOUS
      <4> DEFINE st == fund.staked[o]
      <4>1. st \in Nat /\ add[o] = i * (st * S)
        BY <1>1, <1>5
      <4> HIDE DEF add, st
      <4>2. i * st * S = i * (st * S)
        BY <1>1, <1>2, <4>1
      <4> QED
        BY <4>1, <4>2 DEF st
    <3> HIDE DEF add
    <3> QED
      BY <3>2, <3>3
  <2> QED
    BY <2>1, <2>2
<1>7. SumFunctionOnSet(add, Operators) = i * FairScale
  <2> DEFINE c == i * S
  <2>1. c \in Int
    BY <1>1, <1>2
  <2>2. \A o \in Operators : fund.staked[o] \in Int /\ add[o] = c * fund.staked[o]
    BY <1>1
  <2> HIDE DEF add, c
  <2>3. SumFunctionOnSet(add, Operators) = c * SumFunctionOnSet(fund.staked, Operators)
    BY <1>1, <2>1, <2>2, SumOfMultiples
  <2>4. SumFunctionOnSet(fund.staked, Operators) = T
    BY <1>1, TotalStakeIs DEF T
  <2>5. c * T = i * FairScale
    <3>1. CASE i = 0
      <4>1. 0 * S = 0 /\ 0 * T = 0 /\ 0 * FairScale = 0
        BY <1>2, AllocationAssumption
      <4> QED
        BY <3>1, <4>1 DEF c
    <3>2. CASE i # 0
      <4>1. T * S = FairScale
        BY <1>1, <1>2, <3>2
      <4>2. (i * S) * T = i * (T * S)
        BY <1>1, <1>2
      <4> QED
        BY <4>1, <4>2 DEF c
    <3> QED
      BY <3>1, <3>2
  <2> QED
    BY <2>3, <2>4, <2>5
<1> HIDE DEF add
<1>8. \A o \in Operators : due[o] \in Int /\ add[o] \in Int /\ new[o] = due[o] + add[o]
  BY <1>1, <1>5
<1>9. new \in [Operators -> Nat] /\ \A o \in Operators : new[o] = due[o] + i * (fund.staked[o] * S)
  BY <1>1, <1>5, <1>8
<1> HIDE DEF new
<1>10. SumFunctionOnSet(new, Operators)
         = SumFunctionOnSet(due, Operators) + SumFunctionOnSet(add, Operators)
  BY <1>1, <1>8, SumOfSums
<1> QED
  BY <1>6, <1>7, <1>9, <1>10 DEF i, S

LEMMA FairByASecond ==
    ASSUME NEW sc \in Nat, NEW was \in Int, NEW n \in Nat, NEW i \in Nat, NEW x \in Nat,
           NEW d \in Nat, was + sc * (n * x) <= sc * d
    PROVE  was + sc * ((n + i) * x) <= sc * (d + i * x)
<1>1. (n + i) * x = n * x + i * x
  OBVIOUS
<1> DEFINE y == n * x
           z == i * x
<1>2. y \in Nat /\ z \in Nat /\ was + sc * y <= sc * d
  OBVIOUS
<1> HIDE DEF y, z
<1>3. sc * (y + z) = sc * y + sc * z /\ sc * (d + z) = sc * d + sc * z
  BY <1>2
<1>4. sc * y \in Int /\ sc * z \in Int /\ sc * d \in Int
  BY <1>2
<1> QED
  BY <1>1, <1>2, <1>3, <1>4 DEF y, z

LEMMA CoverByASecond ==
    ASSUME NEW sc \in Nat, NEW fs \in Nat, NEW up \in Int, NEW sum \in Nat, NEW e \in Int,
           NEW i \in Nat, sc * sum <= fs * (sc * e + up)
    PROVE  sc * (sum + i * fs) <= fs * (sc * (e + i) + up)
<1>1. sc * (sum + i * fs) = sc * sum + sc * (i * fs)
  OBVIOUS
<1>2. sc * (e + i) + up = (sc * e + up) + sc * i
  OBVIOUS
<1> DEFINE x == sc * e + up
           y == sc * i
<1>3. x \in Int /\ y \in Int /\ sc * (i * fs) = fs * y /\ sc * sum <= fs * x
  OBVIOUS
<1> HIDE DEF x, y
<1>4. fs * (x + y) = fs * x + fs * y
  BY <1>3
<1>5. fs * x \in Int /\ fs * y \in Int /\ sc * sum \in Int
  BY <1>3
<1> QED
  BY <1>1, <1>2, <1>3, <1>4, <1>5 DEF x, y

LEMMA TickKeeps ==
    ASSUME IInv, Tick
    PROVE  IInv'
<1> DEFINE n == NewAllocations(fund, elapsed)
           S == Share(fund)
           i == Income
<1>1. /\ FundInv /\ HistoryInv /\ FairInv /\ CoverInv /\ elapsed \in Nat /\ fund \in Funds
      /\ sponsored \in Int /\ allocated \in Nat /\ fund.earnings \in Int
      /\ fund.remaining \in Nat
  BY FundNow DEF IInv, HistoryInv, Funds
<1>2. /\ UNCHANGED <<fund, roundings, stranded, sponsored>>
      /\ elapsed < MaxElapsed /\ elapsed' = elapsed + 1
      /\ allocated' = allocated + i
  BY Zenon DEF Tick, Income
<1>3. /\ i \in Nat /\ n \in Nat
      /\ NewAllocations(fund, elapsed + 1) = n + i
  BY <1>1, SecondAllocates, FundIsUpdatable
<1>4. /\ due' \in [Operators -> Nat]
      /\ \A o \in Operators : due'[o] = due[o] + i * (fund.staked[o] * S)
      /\ SumFunctionOnSet(due', Operators) = SumFunctionOnSet(due, Operators) + i * FairScale
  BY <1>1, SecondIsShared
<1>5. fund' = fund /\ NewAllocations(fund', elapsed') = n + i
  BY <1>2, <1>3
<1> HIDE DEF i, n
<1>6. FundInv'
  BY <1>1, <1>5 DEF FundInv
<1>7. HistoryInv'
  <2>1. elapsed' \in 0 .. MaxElapsed
    BY <1>1, <1>2, AllocationAssumption
  <2>2. fund.remaining - n = sponsored - allocated
    BY <1>1 DEF HistoryInv, n
  <2>3. fund.remaining - (n + i) = sponsored - (allocated + i)
    BY <1>1, <1>3, <2>2
  <2>4. fund'.remaining - NewAllocations(fund', elapsed') = sponsored' - allocated'
    BY <1>2, <1>5, <2>3
  <2>5. allocated' \in Nat
    BY <1>1, <1>2, <1>3
  <2> QED
    BY <1>1, <1>2, <1>4, <2>1, <2>4, <2>5 DEF HistoryInv
<1>8. FairInv'
  <2>1. ASSUME NEW o \in Operators
        PROVE  FairScale * Accrued(fund, o, 0) + Scale * ((n + i) * (fund.staked[o] * S))
                 <= Scale * due'[o]
    <3> DEFINE was == FairScale * Accrued(fund, o, 0)
               x == fund.staked[o] * S
               d == due[o]
    <3>1. was + Scale * (n * x) <= Scale * d
      BY <1>1 DEF FairInv, n
    <3>2. Accrued(fund, o, 0) \in Nat
      <4>1. Updatable(fund, 0) /\ fund.reference[o] <= fund.cumulative
        BY <1>1, FundIsUpdatable DEF FundInv, Placed
      <4> QED
        BY <1>1, <4>1, AccruedIsNat
    <3>3. S \in Nat /\ fund.staked[o] \in Nat /\ d \in Nat
      BY <1>1, ShareIs, FundTypes DEF FundInv, HistoryInv
    <3>4. due'[o] = d + i * x
      BY <1>4
    <3>5. was \in Int /\ x \in Nat /\ Scale \in Nat
      <4> HIDE DEF S
      <4> QED
        BY <3>2, <3>3, AllocationAssumption
    <3> HIDE DEF was, x, d
    <3>6. was + Scale * ((n + i) * x) <= Scale * (d + i * x)
      BY <1>3, <3>1, <3>3, <3>5, FairByASecond
    <3> QED
      BY <3>4, <3>6 DEF was, x
  <2> QED
    BY <1>5, <2>1 DEF FairInv
<1>9. CoverInv'
  <2> DEFINE sum == SumFunctionOnSet(due, Operators)
             e == fund.earnings + n
             up == RoundUp * roundings
  <2>1. sum \in Nat /\ e \in Int /\ up \in Int /\ Scale \in Nat /\ FairScale \in Nat
    BY <1>1, <1>3, DueIs, AllocationAssumption DEF HistoryInv
  <2>2. Scale * sum <= FairScale * (Scale * e + up)
    BY <1>1 DEF CoverInv, n
  <2>3. fund.earnings + (n + i) = e + i
    BY <1>1, <1>3
  <2> HIDE DEF sum, e, up
  <2>4. Scale * (sum + i * FairScale) <= FairScale * (Scale * (e + i) + up)
    BY <1>3, <2>1, <2>2, CoverByASecond
  <2>5. SumFunctionOnSet(due', Operators) = sum + i * FairScale
    BY <1>4 DEF sum
  <2>6. fund'.earnings + NewAllocations(fund', elapsed') = e + i
    BY <1>5, <2>3
  <2>7. RoundUp * roundings' = up
    BY <1>2 DEF up
  <2> QED
    BY <2>4, <2>5, <2>6, <2>7 DEF CoverInv
<1>10. FewPayouts' => fund'.earnings \in Nat
  BY <1>2 DEF IInv, FewPayouts
<1> QED
  BY <1>6, <1>7, <1>8, <1>9, <1>10 DEF IInv


LEMMA InitKeeps ==
    ASSUME Init
    PROVE  IInv
<1>1. /\ fund = EmptyFund /\ elapsed = 0 /\ due = [o \in Operators |-> 0]
      /\ roundings = 0 /\ stranded = 0 /\ sponsored = 0 /\ allocated = 0
  BY DEF Init
<1>2. /\ fund \in Funds /\ fund.joined = {} /\ fund.lastWasRunning = FALSE
      /\ fund.remaining = 0 /\ fund.lastRemaining = 0 /\ fund.lastTotalStake = 0
      /\ fund.earnings = 0 /\ fund.cumulative = 0 /\ fund.defaulted = FALSE
      /\ \A o \in Operators : fund.staked[o] = 0 /\ fund.reference[o] = 0 /\ fund.before[o] = 0
  BY <1>1 DEF EmptyFund, Funds
<1>3. TotalStake(fund) = 0
  <2>1. SumFunctionOnSet(fund.staked, Operators) = 0
    BY <1>2, AllocationAssumption, SumOfZeros
  <2> QED
    BY <1>2, <2>1, TotalStakeIs
<1>4. Running(fund) = FALSE
  <2>1. Cardinality({}) = 0 /\ MinOperatorCount \in Nat \ {0}
    BY AllocationAssumption, FS_EmptySet
  <2>2. Cardinality(fund.joined) = 0
    BY <1>2, <2>1
  <2> QED
    BY <2>1, <2>2 DEF Running
<1>5. FundInv
  <2>1. Timely(fund)
    BY <1>2, <1>3, <1>4 DEF Timely
  <2>2. \A o \in Operators : Placed(fund, o)
    BY <1>2 DEF Placed
  <2> QED
    BY <1>2, <2>1, <2>2 DEF FundInv
<1>6. NewAllocations(fund, elapsed) = 0
  BY <1>1, <1>2, NothingAtOnce
<1>7. HistoryInv
  BY <1>1, <1>2, <1>6, AllocationAssumption DEF HistoryInv
<1>8. FairInv
  <2>1. Share(fund) = 0
    BY <1>3 DEF Share
  <2>2. ASSUME NEW o \in Operators
        PROVE  Accrued(fund, o, 0) = 0 /\ due[o] = 0 /\ fund.staked[o] = 0
    <3>1. Updatable(fund, 0)
      BY <1>5, FundIsUpdatable
    <3> QED
      BY <1>1, <1>2, <3>1, AccruedWithoutStake
  <2>3. FairScale * 0 + Scale * (0 * (0 * 0)) <= Scale * 0
    BY AllocationAssumption
  <2> QED
    BY <1>6, <2>1, <2>2, <2>3 DEF FairInv
<1>9. CoverInv
  <2>1. SumFunctionOnSet(due, Operators) = 0
    <3>1. \A o \in Operators : due[o] = 0
      BY <1>1
    <3> QED
      BY <3>1, AllocationAssumption, SumOfZeros
  <2>2. Scale * 0 <= FairScale * (Scale * (0 + 0) + RoundUp * 0)
    BY AllocationAssumption
  <2> QED
    BY <1>1, <1>2, <1>6, <2>1, <2>2 DEF CoverInv
<1> QED
  BY <1>2, <1>5, <1>7, <1>8, <1>9 DEF IInv

LEMMA NextKeeps ==
    ASSUME IInv, [Next]_vars
    PROVE  IInv'
<1>1. ASSUME NEW amount \in SponsorAmounts, Sponsor(amount)
      PROVE  IInv'
  BY <1>1, SponsorKeeps
<1>2. ASSUME NEW o \in Operators, NEW stake \in Stakes, Join(o, stake)
      PROVE  IInv'
  BY <1>2, JoinKeeps
<1>3. ASSUME NEW o \in Operators, NEW stake \in Stakes, ChangeStake(o, stake)
      PROVE  IInv'
  BY <1>3, ChangeStakeKeeps
<1>4. ASSUME NEW o \in Operators, Withdraw(o)
      PROVE  IInv'
  BY <1>4, WithdrawKeeps
<1>5. ASSUME NEW o \in Operators, NEW stake \in Stakes \cup {0}, Leave(o, stake)
      PROVE  IInv'
  BY <1>5, LeaveKeeps
<1>6. CASE Tick
  BY <1>6, TickKeeps
<1>7. CASE UNCHANGED vars
  BY <1>7 DEF vars, IInv, FundInv, HistoryInv, FairInv, CoverInv, FewPayouts
<1> QED
  BY <1>1, <1>2, <1>3, <1>4, <1>5, <1>6, <1>7 DEF Next

LEMMA Invariance == Spec => []IInv
<1>1. Init => IInv
  BY InitKeeps
<1>2. IInv /\ [Next]_vars => IInv'
  BY NextKeeps
<1> QED
  BY <1>1, <1>2, PTL DEF Spec

LEMMA InvIsTimely ==
    ASSUME IInv
    PROVE  UpdatesAreTimely
  BY DEF IInv, FundInv, HistoryInv, Timely, UpdatesAreTimely

LEMMA InvHasTypes ==
    ASSUME IInv, FewPayouts
    PROVE  TypeOK
<1>1. /\ FundInv /\ HistoryInv /\ elapsed \in Nat /\ fund \in Funds /\ fund.earnings \in Nat
  BY FundNow DEF IInv
<1>2. /\ fund.staked \in [Operators -> Nat] /\ fund.joined \subseteq Operators
      /\ fund.remaining \in Nat /\ fund.cumulative \in Nat
      /\ fund.reference \in [Operators -> Nat] /\ fund.before \in [Operators -> Nat]
      /\ fund.defaulted \in BOOLEAN /\ fund.lastWasRunning \in BOOLEAN
      /\ fund.lastTotalStake \in Nat /\ fund.lastRemaining \in Nat
  BY <1>1 DEF Funds
<1>3. allocated \in 0 .. sponsored
  <2>1. /\ NewAllocations(fund, elapsed) \in Nat /\ NewAllocations(fund, elapsed) <= fund.remaining
        /\ fund.remaining - NewAllocations(fund, elapsed) = sponsored - allocated
        /\ allocated \in Nat /\ sponsored \in Int
    BY <1>1, FundIsUpdatable, AllocationAssumption DEF HistoryInv
  <2> QED
    BY <1>2, <2>1
<1> QED
  BY <1>1, <1>2, <1>3 DEF TypeOK, HistoryInv

\* The sum over a part is at most the sum over all.
LEMMA SumOfPart ==
    ASSUME NEW f, NEW S, IsFiniteSet(S), NEW R \in SUBSET S, \A x \in S : f[x] \in Nat
    PROVE  SumFunctionOnSet(f, R) <= SumFunctionOnSet(f, S)
<1> DEFINE g == [x \in S |-> IF x \in R THEN f[x] ELSE 0]
<1>1. IsFiniteSet(R)
  BY FS_Subset
<1>2. /\ \A x \in S : f[x] \in Int /\ g[x] \in Int /\ g[x] <= f[x]
      /\ \A x \in R : f[x] \in Int /\ f[x] = g[x]
      /\ \A x \in S \ R : g[x] = 0
  OBVIOUS
<1> HIDE DEF g
<1>3. SumFunctionOnSet(f, R) = SumFunctionOnSet(g, R)
  BY <1>1, <1>2, SumsEqual
<1>4. SumFunctionOnSet(g, S) = SumFunctionOnSet(g, R)
  BY <1>2, SumIgnoresZeros
<1>5. SumFunctionOnSet(g, S) <= SumFunctionOnSet(f, S)
  BY <1>2, SumsCompare
<1> QED
  BY <1>3, <1>4, <1>5

LEMMA InvIsCovered ==
    ASSUME IInv, FewPayouts
    PROVE  EarningsAreCovered
<1> DEFINE J == fund.joined
           f == [o \in J |-> Earnings(fund, o, elapsed)]
           c == FairScale * Scale
           up == FairScale * RoundUp
           paid == [o \in J |-> c * f[o]]
           shares == [o \in J |-> Scale * due[o]]
           ups == [o \in J |-> up]
           most == [o \in J |-> shares[o] + ups[o]]
           total == SumFunctionOnSet(f, J)
           sum == SumFunctionOnSet(due, Operators)
           n == Cardinality(J)
           e == fund.earnings + NewAllocations(fund, elapsed)
<1>1. /\ FundInv /\ HistoryInv /\ FairInv /\ CoverInv /\ elapsed \in Nat /\ fund \in Funds
      /\ due \in [Operators -> Nat] /\ roundings \in Nat
  BY FundNow DEF IInv, HistoryInv
<1>2. J \in SUBSET Operators /\ IsFiniteSet(Operators) /\ IsFiniteSet(J)
  BY <1>1, AllocationAssumption, FS_Subset, FundTypes DEF Funds
<1>3. /\ Scale \in Nat \ {0} /\ FairScale \in Nat \ {0} /\ RoundUp \in Nat
      /\ c \in Nat /\ up \in Nat
  BY AllocationAssumption
<1>4. ASSUME NEW o \in J
      PROVE  /\ f[o] \in Nat /\ paid[o] = c * f[o] /\ paid[o] \in Int
             /\ shares[o] = Scale * due[o] /\ shares[o] \in Int /\ due[o] \in Int
             /\ ups[o] = up /\ ups[o] \in Int
             /\ most[o] = shares[o] + ups[o] /\ most[o] \in Int
             /\ paid[o] <= most[o]
  <2> DEFINE k == Earnings(fund, o, elapsed)
             d == due[o]
  <2>1. k \in Nat /\ FairScale * (Scale * k) <= Scale * d + up
    BY <1>1, <1>2, PayoutNow
  <2>2. d \in Nat
    BY <1>1, <1>2
  <2>3. f[o] = k /\ shares[o] = Scale * d /\ ups[o] = up
    OBVIOUS
  <2> HIDE DEF f, k, up, c
  <2>4. paid[o] = c * k /\ most[o] = Scale * d + up
    BY <2>3
  <2> HIDE DEF paid, shares, ups, most, d
  <2> DEFINE x == c * k
             y == Scale * d
  <2>5. x = FairScale * (Scale * k) /\ x \in Nat /\ y \in Nat
    BY <1>3, <2>1, <2>2 DEF c
  <2>6. /\ f[o] = k /\ c * f[o] = x /\ paid[o] = x
        /\ shares[o] = y /\ ups[o] = up /\ most[o] = y + up
        /\ x <= y + up
    BY <2>1, <2>3, <2>4, <2>5
  <2>7. y = Scale * due[o] /\ due[o] \in Int
    BY <2>2 DEF d
  <2> HIDE DEF x, y
  <2>8. x <= y + up /\ y + up \in Int /\ x \in Int /\ y \in Int /\ up \in Int
    BY <1>3, <2>5, <2>6
  <2>9. f[o] \in Nat /\ paid[o] = c * f[o] /\ shares[o] = Scale * due[o]
    BY <2>1, <2>6, <2>7
  <2>10. most[o] = shares[o] + ups[o] /\ paid[o] <= most[o]
    BY <2>6, <2>8
  <2>11. paid[o] \in Int /\ shares[o] \in Int /\ ups[o] \in Int /\ most[o] \in Int
    BY <2>6, <2>8
  <2> QED
    BY <2>6, <2>7, <2>9, <2>10, <2>11
<1>5. SumFunction(f) = total
  BY SumOverDomain
<1> HIDE DEF f, paid, shares, ups, most, c, up
<1>6. total \in Nat
  BY <1>2, <1>4, SumOfNaturals
<1>7. SumFunctionOnSet(paid, J) = c * total
  <2>1. \A o \in J : f[o] \in Int /\ paid[o] = c * f[o]
    BY <1>4
  <2>2. c \in Int
    BY <1>3
  <2> QED
    BY <1>2, <2>1, <2>2, SumOfMultiples
<1>8. /\ SumFunctionOnSet(due, J) \in Int
      /\ SumFunctionOnSet(shares, J) = Scale * SumFunctionOnSet(due, J)
  <2>1. \A o \in J : due[o] \in Int /\ shares[o] = Scale * due[o]
    BY <1>4
  <2>2. Scale \in Int
    BY <1>3
  <2>3. IsFiniteSet(J)
    BY <1>2
  <2> HIDE DEF J
  <2> QED
    BY <2>1, <2>2, <2>3, SumOfMultiples
<1>9. SumFunctionOnSet(ups, J) = n * up
  <2>1. \A o \in J : ups[o] = up
    BY <1>4
  <2>2. up \in Int
    BY <1>3
  <2> QED
    BY <1>2, <2>1, <2>2, SumOfConstant
<1>10. SumFunctionOnSet(paid, J) <= SumFunctionOnSet(shares, J) + SumFunctionOnSet(ups, J)
  <2>1. SumFunctionOnSet(most, J) = SumFunctionOnSet(shares, J) + SumFunctionOnSet(ups, J)
    BY <1>2, <1>4, SumOfSums
  <2>2. SumFunctionOnSet(paid, J) <= SumFunctionOnSet(most, J)
    BY <1>2, <1>4, SumsCompare
  <2> QED
    BY <2>1, <2>2
<1>11. SumFunctionOnSet(due, J) <= sum /\ sum \in Nat
  <2>1. \A o \in Operators : due[o] \in Nat
    BY <1>1
  <2> QED
    BY <1>1, <1>2, <2>1, SumOfPart, DueIs
<1>12. n \in Nat /\ n <= Cardinality(Operators) /\ Cardinality(Operators) \in Nat
  BY <1>2, FS_Subset, FS_CardinalityType
<1>13. RoundUp * (roundings + n) < Scale
  <2> DEFINE all == Cardinality(Operators)
  <2>1. RoundUp * (roundings + all) < Scale /\ all \in Nat /\ n <= all
    BY <1>12 DEF FewPayouts
  <2> HIDE DEF all, n
  <2>2. RoundUp * (roundings + n) <= RoundUp * (roundings + all)
    BY <1>1, <1>3, <1>12, <2>1
  <2>3. RoundUp * (roundings + n) \in Nat /\ RoundUp * (roundings + all) \in Nat
    BY <1>1, <1>3, <1>12, <2>1
  <2> QED
    BY <1>3, <2>1, <2>2, <2>3
<1>14. Scale * sum <= FairScale * (Scale * e + RoundUp * roundings)
  BY <1>1 DEF CoverInv
<1>15. e \in Int /\ Update(fund, elapsed).earnings = e
  <2>1. Updatable(fund, elapsed) /\ NewAllocations(fund, elapsed) \in Nat /\ fund.earnings \in Int
    BY <1>1, FundIsUpdatable, FundTypes DEF Funds
  <2>2. Updated(fund, Update(fund, elapsed), elapsed)
    BY <2>1, UpdateIs
  <2> QED
    BY <2>1, <2>2 DEF Updated
<1>16. FairScale * (Scale * total) <= Scale * sum + FairScale * (RoundUp * n)
  <2> DEFINE part == SumFunctionOnSet(due, J)
  <2>1. c * total <= Scale * part + n * up
    BY <1>7, <1>8, <1>9, <1>10
  <2>2. part \in Int /\ part <= sum
    BY <1>8, <1>11
  <2> HIDE DEF part, total, sum, n
  <2>3. Scale * part <= Scale * sum
    BY <1>3, <1>11, <2>2
  <2>4. c * total = FairScale * (Scale * total) /\ n * up = FairScale * (RoundUp * n)
    BY <1>3, <1>6, <1>12 DEF c, up
  <2>5. /\ FairScale * (Scale * total) \in Int /\ FairScale * (RoundUp * n) \in Int
        /\ Scale * part \in Int /\ Scale * sum \in Int
    BY <1>3, <1>6, <1>11, <1>12, <2>2
  <2> QED
    BY <2>1, <2>3, <2>4, <2>5
<1> HIDE DEF total, sum, n, e
<1>17. total <= e
  BY <1>1, <1>3, <1>6, <1>11, <1>12, <1>13, <1>14, <1>15, <1>16, TokensCover
<1> QED
  BY <1>5, <1>15, <1>17 DEF EarningsAreCovered, f

-----------------------------------------------------------------------------
(* The theorems *)

\* calculateSinceLastUpdate works with the fund's own stake, tokens and running state, as the
\* last transaction left them, and never allocates a token twice, skips a second or
\* reports an insolvency while there are tokens left (StakeWeightedAllocationPolicy.update).
THEOREM UpdatesAreAlwaysTimely == Spec => []UpdatesAreTimely
<1>1. IInv => UpdatesAreTimely
  BY InvIsTimely
<1> QED
  BY <1>1, Invariance, PTL

\* No subtraction of remainingWei and earningsWei goes below zero, which would revert the
\* transaction: after as many payouts as RoundUp was chosen for.
THEOREM TypesAreCorrect == Spec => [](FewPayouts => TypeOK)
<1>1. IInv => (FewPayouts => TypeOK)
  BY InvHasTypes
<1> QED
  BY <1>1, Invariance, PTL

\* earningsWei covers what getEarningsWei tells all the operators together, though it rounds
\* up for each: after as many payouts as RoundUp was chosen for.
THEOREM EarningsAreAlwaysCovered == Spec => [](FewPayouts => EarningsAreCovered)
<1>1. IInv => (FewPayouts => EarningsAreCovered)
  BY InvIsCovered
<1> QED
  BY <1>1, Invariance, PTL

=============================================================================
