-------------------------- MODULE VoteKickProofs --------------------------
(***************************************************************************)
(* Proofs about VoteKick for every set of operators, voters and            *)
(* configurations.  First its accounts, from the inductive invariant IInv: *)
(* their types, the solvency of the Sponsorship, and that they implement   *)
(* the abstract ledger.  Then what the flags promise: the votes add up,    *)
(* locks and forfeited stake are what the open flags need, each flag can   *)
(* be settled at any time, and a settlement touches only its two parties.  *)
(***************************************************************************)
EXTENDS VoteKick, SumProofs, FiniteSetTheorems, TLAPS

-----------------------------------------------------------------------------
(* What the operators of SponsorshipBooks do to the accounts, for any books   *)
(* and amounts: which accounts they leave well-typed, that no stake falls     *)
(* below its lock, and how they change what is owed.                          *)

\* No operator has more locked than staked.
Covered(b) == \A o \in Operators : b.locked[o] <= b.staked[o]

LEMMA BooksTypes ==
    ASSUME NEW b \in Books, NEW o \in Operators
    PROVE  /\ b.staked[o] \in Nat
           /\ b.locked[o] \in Nat
           /\ b.joined \subseteq Operators
           /\ b.forfeited \in Int
           /\ b.totalStaked \in Int
           /\ b.operatorCount \in Int
           /\ b.pool \in Int
           /\ b.balance \in Int
           /\ Owed(b) \in Int
  BY DEF Books, Owed

LEMMA ReductionBounds ==
    ASSUME NEW b \in Books, NEW o \in Operators, NEW amount \in Nat, Covered(b)
    PROVE  /\ Reduction(b, o, amount) \in Nat
           /\ Reduction(b, o, amount) <= amount
           /\ Reduction(b, o, amount) <= b.staked[o] - b.locked[o]
           /\ amount <= b.staked[o] - b.locked[o] => Reduction(b, o, amount) = amount
  BY BooksTypes DEF Covered, Reduction, Smaller

LEMMA ReduceStakeByEffect ==
    ASSUME NEW b \in Books, NEW o \in Operators, NEW amount \in Nat, Covered(b)
    PROVE  LET c == ReduceStakeBy(b, o, amount)
           IN  /\ c \in Books
               /\ Covered(c)
               /\ c.locked = b.locked
               /\ c.balance = b.balance
               /\ c.forfeited = b.forfeited
               /\ c.joined = b.joined
               /\ Owed(c) = Owed(b) - Reduction(b, o, amount)
<1> DEFINE c == ReduceStakeBy(b, o, amount)
           taken == Reduction(b, o, amount)
           less == [b.staked EXCEPT ![o] = b.staked[o] - taken]
<1>1. /\ taken \in Nat
      /\ taken <= b.staked[o] - b.locked[o]
  BY ReductionBounds
<1>2. c = [b EXCEPT !.staked[o] = b.staked[o] - taken,
                    !.totalStaked = b.totalStaked - taken]
  BY DEF ReduceStakeBy
<1> HIDE DEF taken, c
<1>3. /\ less \in [Operators -> Nat]
      /\ \A p \in Operators : b.locked[p] <= less[p]
      /\ b.totalStaked - taken \in Int
  BY <1>1, BooksTypes DEF Covered, Books
<1>4. c = [staked |-> less, locked |-> b.locked, joined |-> b.joined,
           forfeited |-> b.forfeited, totalStaked |-> b.totalStaked - taken,
           operatorCount |-> b.operatorCount, pool |-> b.pool, balance |-> b.balance]
  BY <1>1, <1>2, <1>3 DEF Books
<1> HIDE DEF less
<1>5. c \in Books
  BY <1>3, <1>4 DEF Books
<1>6. Covered(c)
  BY <1>3, <1>4 DEF Covered
<1>7. Owed(c) = Owed(b) - taken
  BY <1>1, <1>4, BooksTypes DEF Owed
<1> QED
  BY <1>4, <1>5, <1>6, <1>7 DEF taken, c

LEMMA SentBounds ==
    ASSUME NEW amount \in Nat, NEW balance \in Int, NEW accepted \in BOOLEAN
    PROVE  /\ Sent(amount, balance, accepted) \in Nat
           /\ Sent(amount, balance, accepted) <= amount
  BY DEF Sent

\* Withdrawing debits at least what leaves the contract.
LEMMA WithdrawEarningsEffect ==
    ASSUME NEW b \in Books, NEW earnings \in Nat, NEW accepted \in BOOLEAN, Covered(b)
    PROVE  LET c == WithdrawEarnings(b, earnings, accepted)
           IN  /\ c \in Books
               /\ Covered(c)
               /\ c.balance <= b.balance
               /\ Owed(b) - Owed(c) >= b.balance - c.balance
<1> DEFINE c == WithdrawEarnings(b, earnings, accepted)
           sent == Sent(earnings, b.balance, accepted)
<1>1. /\ b.balance \in Int /\ b.pool \in Int
      /\ b.totalStaked \in Int /\ b.forfeited \in Int
  BY DEF Books
<1>2. sent \in Nat /\ sent <= earnings
  BY <1>1, SentBounds
<1>3. c = [b EXCEPT !.pool = b.pool - earnings, !.balance = b.balance - sent]
  BY DEF WithdrawEarnings, Books
<1> HIDE DEF c, sent
<1>3a. /\ b.pool - earnings \in Int
       /\ b.balance - sent \in Int
  BY <1>1, <1>2
<1>3b. c \in Books
  BY <1>3, <1>3a DEF Books
<1>4. /\ c.staked = b.staked /\ c.locked = b.locked
      /\ c.totalStaked = b.totalStaked /\ c.forfeited = b.forfeited
      /\ c.pool = b.pool - earnings
      /\ c.balance = b.balance - sent
  BY <1>3 DEF Books
<1>5. Covered(c)
  BY <1>4 DEF Covered
<1>6. /\ c.balance <= b.balance
      /\ Owed(b) - Owed(c) >= b.balance - c.balance
  BY <1>1, <1>2, <1>4 DEF Owed
<1> QED
  BY <1>3b, <1>5, <1>6 DEF c

\* Removing an operator debits at least what leaves the contract, too: its stake
\* is what it forfeits, the penalty, and what it is sent.
LEMMA RemoveOperatorEffect ==
    ASSUME NEW b \in Books, NEW o \in Operators, NEW terms \in LeaveTerms, Covered(b)
    PROVE  LET c == RemoveOperator(b, o, terms)
           IN  /\ c \in Books
               /\ Covered(c)
               /\ c.balance <= b.balance
               /\ Owed(b) - Owed(c) >= b.balance - c.balance
<1> DEFINE forfeits == Forfeits(b, o)
           penalty == Smaller(terms.penalty, b.staked[o] - forfeits)
           stake == b.staked[o] - forfeits - penalty
           earnings == IF stake = 0 THEN 0 ELSE terms.earnings
           punished == b.balance - penalty
           sentEarnings == Sent(earnings, punished, terms.takesEarnings)
           withdrawn == punished - sentEarnings
           sentStake == Sent(stake, withdrawn, terms.takesStake)
           c == RemoveOperator(b, o, terms)
<1>1. /\ b.balance \in Int /\ b.pool \in Int /\ b.totalStaked \in Int
      /\ b.forfeited \in Int /\ b.operatorCount \in Int
      /\ b.staked[o] \in Nat /\ b.locked[o] \in Nat
      /\ terms.penalty \in Nat /\ terms.earnings \in Nat
      /\ terms.takesEarnings \in BOOLEAN /\ terms.takesStake \in BOOLEAN
  BY DEF Books, LeaveTerms
<1>2. /\ forfeits \in Nat
      /\ forfeits <= b.staked[o]
  BY <1>1 DEF Forfeits, Smaller
<1>3. c = [b EXCEPT !.staked = [@ EXCEPT ![o] = 0],
                    !.locked = [@ EXCEPT ![o] = 0],
                    !.joined = @ \ {o},
                    !.operatorCount = @ - 1,
                    !.totalStaked = @ - b.staked[o],
                    !.forfeited = @ + forfeits,
                    !.pool = @ - earnings,
                    !.balance = withdrawn - sentStake]
  BY DEF RemoveOperator
<1> HIDE DEF c, forfeits
<1>4. /\ penalty \in Nat
      /\ stake \in Nat
      /\ forfeits + penalty + stake = b.staked[o]
  BY <1>1, <1>2 DEF Smaller
<1> HIDE DEF penalty, stake
<1>5. /\ earnings \in Nat
      /\ punished \in Int
      /\ punished = b.balance - penalty
  BY <1>1, <1>4
<1> HIDE DEF earnings, punished
<1>6. /\ sentEarnings \in Nat
      /\ sentEarnings <= earnings
  BY <1>1, <1>5, SentBounds
<1> HIDE DEF sentEarnings
<1>7. withdrawn \in Int /\ withdrawn = punished - sentEarnings
  BY <1>5, <1>6
<1> HIDE DEF withdrawn
<1>8. /\ sentStake \in Nat
      /\ sentStake <= stake
  BY <1>1, <1>4, <1>7, SentBounds
<1> HIDE DEF sentStake
<1>8a. /\ [b.staked EXCEPT ![o] = 0] \in [Operators -> Nat]
       /\ [b.locked EXCEPT ![o] = 0] \in [Operators -> Nat]
       /\ b.joined \ {o} \in SUBSET Operators
  BY DEF Books
<1>8b. /\ b.operatorCount - 1 \in Int
       /\ b.totalStaked - b.staked[o] \in Int
       /\ b.forfeited + forfeits \in Int
       /\ b.pool - earnings \in Int
       /\ withdrawn - sentStake \in Int
  BY <1>1, <1>2, <1>5, <1>7, <1>8
<1>8c. c \in Books
  BY <1>3, <1>8a, <1>8b DEF Books
<1>9. /\ c.staked = [b.staked EXCEPT ![o] = 0]
      /\ c.locked = [b.locked EXCEPT ![o] = 0]
      /\ c.totalStaked = b.totalStaked - b.staked[o]
      /\ c.forfeited = b.forfeited + forfeits
      /\ c.pool = b.pool - earnings
      /\ c.balance = withdrawn - sentStake
  BY <1>3 DEF Books
<1>10. Covered(c)
  <2>1. \A p \in Operators : /\ b.staked[p] \in Nat /\ b.locked[p] \in Nat
                             /\ c.staked[p] = IF p = o THEN 0 ELSE b.staked[p]
                             /\ c.locked[p] = IF p = o THEN 0 ELSE b.locked[p]
    BY <1>9 DEF Books
  <2>2. ASSUME NEW p \in Operators
        PROVE  c.locked[p] <= c.staked[p]
    BY <2>1 DEF Covered
  <2> QED
    BY <2>2 DEF Covered
<1>11. /\ c.balance <= b.balance
       /\ Owed(b) - Owed(c) >= b.balance - c.balance
  BY <1>1, <1>2, <1>4, <1>5, <1>6, <1>7, <1>8, <1>9 DEF Owed
<1> QED
  BY <1>8c, <1>10, <1>11 DEF c

-----------------------------------------------------------------------------
(* Arithmetic of the configuration *)

LEMMA DivLower ==
    ASSUME NEW a \in Nat, NEW x \in Nat, NEW d \in Nat \ {0}, a >= x * d
    PROVE  /\ a \div d \in Nat
           /\ a \div d >= x
<1> DEFINE q == a \div d
           r == a % d
<1>1. /\ q \in Int
      /\ r \in Int
      /\ a = d * q + r
      /\ 0 <= r
      /\ r < d
  OBVIOUS
<1> HIDE DEF q, r
<1>2. d * (q + 1) > x * d
  <2>1. d * (q + 1) = d * q + d
    BY <1>1
  <2> QED
    BY <1>1, <2>1
<1>3. q + 1 > x
  BY <1>1, <1>2
<1>4. q >= x
  BY <1>1, <1>3
<1> QED
  BY <1>1, <1>4 DEF q

\* Dividing by a fraction (rounding up) never makes an amount smaller.
LEMMA DivByFractionGrows ==
    ASSUME NEW x \in Nat, NEW fraction \in 1 .. Ether
    PROVE  /\ DivByFraction(x, fraction) \in Nat
           /\ DivByFraction(x, fraction) >= x
<1> DEFINE a == x * Ether + fraction - 1
<1>1. /\ Ether \in Nat
      /\ fraction \in Nat \ {0}
      /\ fraction <= Ether
  BY EtherAssumption
<1>2. /\ x * Ether \in Nat
      /\ x * fraction \in Nat
      /\ x * Ether >= x * fraction
  BY <1>1
<1>3. a \in Nat /\ a >= x * fraction
  BY <1>1, <1>2
<1> HIDE DEF a
<1>4. a \div fraction \in Nat /\ a \div fraction >= x
  BY <1>1, <1>3, DivLower
<1> QED
  BY <1>4 DEF DivByFraction, a

LEMMA ConfigFacts ==
    ASSUME NEW c \in Config
    PROVE  /\ c.slashingFraction \in 1 .. Ether
           /\ Ether - c.slashingFraction \in 1 .. Ether
           /\ MinimumStake(c) \in Nat
           /\ \A stake \in Nat : StakeAtRisk(c, stake) \in Nat
           /\ MinimumFlagStake(c) >= c.reviewerCount * c.reviewerReward
<1>1. /\ c.slashingFraction \in 1 .. Ether
      /\ Ether - c.slashingFraction \in 1 .. Ether
      /\ Ether \in Nat \ {0}
      /\ c.slashingFraction \in Nat
      /\ c.reviewerCount \in Nat /\ c.reviewerReward \in Nat /\ c.flaggerReward \in Nat
  BY EtherAssumption DEF Config
<1>2. /\ c.reviewerCount * c.reviewerReward \in Nat
      /\ TotalRewards(c) \in Nat
  BY <1>1 DEF TotalRewards
<1>3. MinimumStake(c) \in Nat
  BY <1>1, <1>2, DivByFractionGrows DEF MinimumStake
<1>4. ASSUME NEW stake \in Nat
      PROVE  StakeAtRisk(c, stake) \in Nat
  <2> DEFINE larger == IF stake > MinimumStake(c) THEN stake ELSE MinimumStake(c)
  <2>1. larger \in Nat
    BY <1>3
  <2> HIDE DEF larger
  <2>2. larger * c.slashingFraction \in Nat
    BY <1>1, <2>1
  <2>3. (larger * c.slashingFraction) \div Ether \in Nat
    BY <1>1, <2>2, DivLower
  <2> QED
    BY <2>3 DEF StakeAtRisk, larger
<1>5. MinimumFlagStake(c) >= c.reviewerCount * c.reviewerReward
  BY <1>1, <1>2, DivByFractionGrows DEF MinimumFlagStake
<1> QED
  BY <1>1, <1>3, <1>4, <1>5

-----------------------------------------------------------------------------
(* Settling a flag *)

\* What a settlement s of books b may do: the balance, with what is counted as
\* paid twice, does not grow, and at least what is lost of it is debited.
Settles(b, s) ==
    /\ s.books \in Books
    /\ Covered(s.books)
    /\ s.doublePaid \in Nat
    /\ s.books.balance + s.doublePaid <= b.balance
    /\ Owed(b) - Owed(s.books) >= b.balance - (s.books.balance + s.doublePaid)

LEMMA UnlockEffect ==
    ASSUME NEW b \in Books, NEW o \in Operators, NEW amount \in Nat, Covered(b)
    PROVE  LET c == Unlock(b, o, amount)
               remnant == Remnant(b, o, amount)
           IN  /\ c \in Books
               /\ Covered(c)
               /\ c.balance = b.balance
               /\ remnant \in Nat
               /\ remnant <= amount
               /\ b.locked[o] >= amount =>
                    /\ remnant = 0
                    /\ Owed(c) = Owed(b)
                    /\ c.staked[o] - c.locked[o] >= amount
               /\ b.locked[o] < amount => Owed(c) = Owed(b) - (amount - remnant)
<1> DEFINE c == Unlock(b, o, amount)
           lock == IF b.locked[o] >= amount THEN b.locked[o] - amount ELSE 0
           locked == [b.locked EXCEPT ![o] = lock]
           forfeited == IF b.locked[o] >= amount THEN b.forfeited
                        ELSE b.forfeited - (amount - b.locked[o])
<1>1. /\ b.staked[o] \in Nat /\ b.locked[o] \in Nat /\ b.locked[o] <= b.staked[o]
      /\ b.forfeited \in Int /\ b.balance \in Int
      /\ b.totalStaked \in Int /\ b.pool \in Int
  BY DEF Books, Covered
<1>2. /\ lock \in Nat
      /\ lock <= b.locked[o]
      /\ forfeited \in Int
  BY <1>1
<1>3. c = [b EXCEPT !.locked = locked, !.forfeited = forfeited]
  <2>1. CASE b.locked[o] >= amount
    <3>1. c = [b EXCEPT !.locked = locked]
      BY <2>1 DEF Unlock
    <3>2. b.forfeited = forfeited
      BY <2>1
    <3> QED
      BY <3>1, <3>2 DEF Books
  <2>2. CASE ~(b.locked[o] >= amount)
    BY <2>2 DEF Unlock
  <2> QED
    BY <2>1, <2>2
<1>4. locked \in [Operators -> Nat]
  BY <1>2 DEF Books
<1>5. \A p \in Operators : locked[p] <= b.staked[p]
  BY <1>1, <1>2 DEF Books, Covered
<1> HIDE DEF c, locked
<1>6. c \in Books
  BY <1>2, <1>3, <1>4 DEF Books
<1>7. /\ c.locked = locked
      /\ c.forfeited = forfeited
      /\ c.staked = b.staked
      /\ c.balance = b.balance
      /\ c.totalStaked = b.totalStaked
      /\ c.pool = b.pool
  BY <1>3 DEF Books
<1>8. Covered(c)
  BY <1>5, <1>7 DEF Covered
<1>9. locked[o] = lock
  BY DEF locked, Books
<1> QED
  BY <1>1, <1>2, <1>6, <1>7, <1>8, <1>9 DEF c, Remnant, Owed

\* Kicking debits the slashing on top of what leaves the contract.
LEMMA KickEffect ==
    ASSUME NEW b \in Books, NEW o \in Operators, NEW slashing \in Nat,
           NEW terms \in LeaveTerms, Covered(b),
           slashing <= b.staked[o] - b.locked[o]
    PROVE  LET c == Kick(b, o, slashing, terms)
           IN  /\ c \in Books
               /\ Covered(c)
               /\ c.balance <= b.balance
               /\ Owed(b) - Owed(c) >= b.balance - c.balance + slashing
<1> DEFINE slashed == ReduceStakeBy(b, o, slashing)
           c == RemoveOperator(slashed, o, terms)
<1>1. Reduction(b, o, slashing) = slashing
  BY ReductionBounds
<1>2. /\ slashed \in Books
      /\ Covered(slashed)
      /\ slashed.balance = b.balance
      /\ Owed(slashed) = Owed(b) - slashing
  BY <1>1, ReduceStakeByEffect
<1> HIDE DEF slashed
<1>3. /\ c \in Books
      /\ Covered(c)
      /\ c.balance <= slashed.balance
      /\ Owed(slashed) - Owed(c) >= slashed.balance - c.balance
  BY <1>2, RemoveOperatorEffect
<1> HIDE DEF c
<1>4. /\ Owed(b) \in Int /\ Owed(c) \in Int
      /\ b.balance \in Int /\ c.balance \in Int
  BY <1>2, <1>3 DEF Books, Owed
<1> QED
  BY <1>2, <1>3, <1>4 DEF Kick, c, slashed

\* The stake at risk is debited, whether the target pays with its lock or has
\* forfeited it; what is left of a lock in the latter case is not.
LEMMA SlashTargetEffect ==
    ASSUME NEW b \in Books, NEW t \in Operators, NEW flag, flag.atRisk \in Nat,
           NEW terms \in LeaveTerms, Covered(b)
    PROVE  LET c == SlashTarget(b, t, flag, terms)
               remnant == Remnant(b, t, flag.atRisk)
           IN  /\ c \in Books
               /\ Covered(c)
               /\ c.balance <= b.balance
               /\ remnant \in Nat
               /\ remnant <= flag.atRisk
               /\ Owed(b) - Owed(c) >= b.balance - c.balance + flag.atRisk - remnant
<1> DEFINE unlocked == Unlock(b, t, flag.atRisk)
           remnant == Remnant(b, t, flag.atRisk)
<1>1. /\ unlocked \in Books
      /\ Covered(unlocked)
      /\ unlocked.balance = b.balance
      /\ remnant \in Nat
      /\ remnant <= flag.atRisk
      /\ b.locked[t] >= flag.atRisk =>
           /\ remnant = 0
           /\ Owed(unlocked) = Owed(b)
           /\ unlocked.staked[t] - unlocked.locked[t] >= flag.atRisk
      /\ b.locked[t] < flag.atRisk => Owed(unlocked) = Owed(b) - (flag.atRisk - remnant)
  BY UnlockEffect
<1>2. /\ Owed(b) \in Int /\ b.balance \in Int /\ b.locked[t] \in Nat
      /\ Owed(unlocked) \in Int
      /\ unlocked.staked[t] \in Nat /\ unlocked.locked[t] \in Nat
  BY <1>1, BooksTypes
<1> HIDE DEF unlocked, remnant
<1>3. CASE b.locked[t] >= flag.atRisk
  <2> DEFINE c == Kick(unlocked, t, flag.atRisk, terms)
  <2>1. /\ c \in Books
        /\ Covered(c)
        /\ c.balance <= unlocked.balance
        /\ Owed(unlocked) - Owed(c) >= unlocked.balance - c.balance + flag.atRisk
    BY <1>1, <1>2, <1>3, KickEffect
  <2>2. SlashTarget(b, t, flag, terms) = c
    BY <1>3 DEF SlashTarget, unlocked
  <2> HIDE DEF c
  <2>3. Owed(c) \in Int /\ c.balance \in Int
    BY <2>1 DEF Books, Owed
  <2> QED
    BY <1>1, <1>2, <1>3, <2>1, <2>2, <2>3 DEF remnant
<1>4. CASE b.locked[t] < flag.atRisk
  <2>1. SlashTarget(b, t, flag, terms) = unlocked
    BY <1>2, <1>4 DEF SlashTarget, unlocked
  <2> QED
    BY <1>1, <1>2, <1>4, <2>1 DEF remnant
<1> QED
  BY <1>2, <1>3, <1>4

LEMMA HandleKickEffect ==
    ASSUME NEW b \in Books, NEW t \in Operators, NEW flag, NEW terms \in LeaveTerms,
           NEW paid, Covered(b),
           flag.atRisk \in Nat, flag.flagStake \in Nat, flag.flagger \in Operators
    PROVE  Settles(b, HandleKick(b, t, flag, terms, paid))
<1> DEFINE slashed == SlashTarget(b, t, flag, terms)
           f == flag.flagger
           unlocked == Unlock(slashed, f, flag.flagStake)
           flaggerCovered == slashed.locked[f] >= flag.flagStake
           loss == flag.atRisk + IF flaggerCovered THEN 0 ELSE flag.flagStake
           c == [unlocked EXCEPT !.balance = unlocked.balance - loss]
           remnant == Remnant(b, t, flag.atRisk)
           remnant2 == Remnant(slashed, f, flag.flagStake)
           s == HandleKick(b, t, flag, terms, paid)
<1>1. /\ slashed \in Books
      /\ Covered(slashed)
      /\ slashed.balance <= b.balance
      /\ remnant \in Nat
      /\ remnant <= flag.atRisk
      /\ Owed(b) - Owed(slashed) >= b.balance - slashed.balance + flag.atRisk - remnant
  BY SlashTargetEffect
<1>2. /\ s.books = [unlocked EXCEPT !.balance = unlocked.balance - flag.atRisk
                                        - IF flaggerCovered THEN 0 ELSE flag.flagStake]
      /\ s.doublePaid = remnant + remnant2
  BY DEF HandleKick
<1> HIDE DEF slashed, s, remnant
<1>3. /\ unlocked \in Books
      /\ Covered(unlocked)
      /\ unlocked.balance = slashed.balance
      /\ remnant2 \in Nat
      /\ remnant2 <= flag.flagStake
      /\ slashed.locked[f] >= flag.flagStake =>
           /\ remnant2 = 0
           /\ Owed(unlocked) = Owed(slashed)
           /\ unlocked.staked[f] - unlocked.locked[f] >= flag.flagStake
      /\ slashed.locked[f] < flag.flagStake =>
           Owed(unlocked) = Owed(slashed) - (flag.flagStake - remnant2)
  BY <1>1, UnlockEffect
<1>4. /\ b.balance \in Int /\ Owed(b) \in Int
      /\ slashed.balance \in Int /\ Owed(slashed) \in Int /\ slashed.locked[f] \in Nat
      /\ unlocked.balance \in Int /\ Owed(unlocked) \in Int
  BY <1>1, <1>3, BooksTypes
<1> HIDE DEF unlocked, remnant2
<1>5. loss \in Nat
  BY <1>4
<1>6. s.books = c
  BY <1>2, <1>4
<1> HIDE DEF loss
<1>7. unlocked.balance - loss \in Int
  BY <1>4, <1>5
<1>8. /\ c \in Books
      /\ c.staked = unlocked.staked /\ c.locked = unlocked.locked
      /\ c.balance = unlocked.balance - loss
      /\ Owed(c) = Owed(unlocked)
  BY <1>3, <1>7 DEF Books, Owed
<1>9. Covered(c)
  BY <1>3, <1>8 DEF Covered
<1> HIDE DEF c
<1>10. /\ c.balance + remnant + remnant2 <= b.balance
       /\ Owed(b) - Owed(c) >= b.balance - (c.balance + remnant + remnant2)
  BY <1>1, <1>3, <1>4, <1>8 DEF loss
<1>11. s.doublePaid \in Nat
  BY <1>1, <1>2, <1>3
<1> QED
  BY <1>1, <1>2, <1>3, <1>4, <1>6, <1>8, <1>9, <1>10, <1>11 DEF Settles, s

LEMMA HandleNoKickEffect ==
    ASSUME NEW b \in Books, NEW t \in Operators, NEW flag, NEW paid, Covered(b),
           flag.atRisk \in Nat, flag.flagStake \in Nat, flag.flagger \in Operators,
           Cardinality(paid \ {flag.flagger}) * flag.reviewerReward \in Nat,
           Cardinality(paid \ {flag.flagger}) * flag.reviewerReward <= flag.flagStake
    PROVE  Settles(b, HandleNoKick(b, t, flag, paid))
<1> DEFINE released == Unlock(b, t, flag.atRisk)
           f == flag.flagger
           rewards == Cardinality(paid \ {f}) * flag.reviewerReward
           covered == b.locked[t] >= flag.atRisk
           flaggerCovered == released.locked[f] >= flag.flagStake
           unlocked == Unlock(released, f, flag.flagStake)
           charged == IF flaggerCovered THEN ReduceStakeBy(unlocked, f, rewards) ELSE unlocked
           loss == (IF covered THEN 0 ELSE flag.atRisk)
                     + IF flaggerCovered THEN rewards ELSE flag.flagStake
           c == [charged EXCEPT !.balance = charged.balance - loss]
           remnant == Remnant(b, t, flag.atRisk)
           remnant2 == Remnant(released, f, flag.flagStake)
           s == HandleNoKick(b, t, flag, paid)
<1>1. /\ released \in Books
      /\ Covered(released)
      /\ released.balance = b.balance
      /\ remnant \in Nat
      /\ remnant <= flag.atRisk
      /\ covered => remnant = 0 /\ Owed(released) = Owed(b)
      /\ b.locked[t] < flag.atRisk => Owed(released) = Owed(b) - (flag.atRisk - remnant)
  BY UnlockEffect
<1>2. /\ s.books = [charged EXCEPT !.balance =
                       charged.balance - (IF covered THEN 0 ELSE flag.atRisk)
                                       - IF flaggerCovered THEN rewards ELSE flag.flagStake]
      /\ s.doublePaid = remnant + remnant2
  BY DEF HandleNoKick
<1> HIDE DEF released, s, remnant
<1>3. /\ unlocked \in Books
      /\ Covered(unlocked)
      /\ unlocked.balance = released.balance
      /\ remnant2 \in Nat
      /\ remnant2 <= flag.flagStake
      /\ flaggerCovered =>
           /\ remnant2 = 0
           /\ Owed(unlocked) = Owed(released)
           /\ unlocked.staked[f] - unlocked.locked[f] >= flag.flagStake
      /\ released.locked[f] < flag.flagStake =>
           Owed(unlocked) = Owed(released) - (flag.flagStake - remnant2)
  BY <1>1, UnlockEffect
<1>4. /\ b.balance \in Int /\ Owed(b) \in Int /\ b.locked[t] \in Nat
      /\ released.balance \in Int /\ Owed(released) \in Int /\ released.locked[f] \in Nat
      /\ unlocked.balance \in Int /\ Owed(unlocked) \in Int
      /\ unlocked.staked[f] \in Nat /\ unlocked.locked[f] \in Nat
  BY <1>1, <1>3, BooksTypes
<1> HIDE DEF unlocked, remnant2, rewards
<1>5. /\ rewards \in Nat /\ rewards <= flag.flagStake
      /\ loss \in Nat
  BY <1>4 DEF rewards
<1>6. /\ charged \in Books
      /\ Covered(charged)
      /\ charged.balance = unlocked.balance
      /\ Owed(charged) = Owed(unlocked) - IF flaggerCovered THEN rewards ELSE 0
  <2>1. CASE flaggerCovered
    <3>1. rewards <= unlocked.staked[f] - unlocked.locked[f]
      BY <1>3, <1>4, <1>5, <2>1
    <3>2. Reduction(unlocked, f, rewards) = rewards
      BY <1>3, <1>5, <3>1, ReductionBounds
    <3>3. charged = ReduceStakeBy(unlocked, f, rewards)
      BY <2>1
    <3> HIDE DEF charged
    <3>4. /\ charged \in Books
          /\ Covered(charged)
          /\ charged.balance = unlocked.balance
          /\ Owed(charged) = Owed(unlocked) - Reduction(unlocked, f, rewards)
      BY <1>3, <1>5, <3>3, ReduceStakeByEffect
    <3> QED
      BY <2>1, <3>2, <3>4
  <2>2. CASE ~flaggerCovered
    BY <1>3, <1>4, <2>2
  <2> QED
    BY <2>1, <2>2
<1> HIDE DEF charged
<1>7. charged.balance \in Int /\ Owed(charged) \in Int
  BY <1>6, BooksTypes
<1>8. s.books = c
  BY <1>2, <1>4, <1>5, <1>7
<1> HIDE DEF loss
<1>9. charged.balance - loss \in Int
  BY <1>5, <1>7
<1>10. /\ c \in Books
       /\ c.staked = charged.staked /\ c.locked = charged.locked
       /\ c.balance = charged.balance - loss
       /\ Owed(c) = Owed(charged)
  BY <1>6, <1>9 DEF Books, Owed
<1>11. Covered(c)
  BY <1>6, <1>10 DEF Covered
<1> HIDE DEF c
<1>12. /\ c.balance + remnant + remnant2 <= b.balance
       /\ Owed(b) - Owed(c) >= b.balance - (c.balance + remnant + remnant2)
  BY <1>1, <1>3, <1>4, <1>5, <1>6, <1>7, <1>10 DEF loss
<1>13. /\ s.doublePaid \in Nat
       /\ c.balance \in Int
       /\ c.balance + s.doublePaid = c.balance + remnant + remnant2
  BY <1>1, <1>2, <1>3, <1>9, <1>10
<1>14. Settles(b, s)
  BY <1>8, <1>10, <1>11, <1>12, <1>13 DEF Settles
<1> QED
  BY <1>14 DEF s

-----------------------------------------------------------------------------
(* The inductive invariant *)

\* A flag is well-typed, and while it is open its flagger's stake on it can pay
\* every reviewer: this is why setFlagStakeWei has a lower limit.
FlagInv(flag) ==
    /\ FlagType(flag)
    /\ flag.phase # "none" =>
         Cardinality(ReviewersOf(flag)) * flag.reviewerReward <= flag.flagStake

BooksInv ==
    /\ books \in Books
    /\ Commits(books)
    /\ Covered(books)
    /\ doublePaid \in Nat

FlagsInv ==
    /\ config \in Configs
    /\ flags = [t \in Operators |-> flags[t]]
    /\ \A t \in Operators : FlagInv(flags[t])
    /\ protected \subseteq Operators

IInv == BooksInv /\ FlagsInv /\ SolventUpToDoublePay

LEMMA IInvImpliesTypeOK == IInv => TypeOK
  BY DEF IInv, BooksInv, FlagsInv, FlagInv, TypeOK

-----------------------------------------------------------------------------
(* Steps of the accounts: every one is a step of the abstract ledger *)

LEMMA DebitStep ==
    ASSUME BooksInv, NEW c \in Books, Covered(c), Commits(c), books' = c,
           NEW d \in Nat, doublePaid' = doublePaid + d,
           c.balance + d <= books.balance,
           Owed(books) - Owed(c) >= books.balance - (c.balance + d)
    PROVE  BooksInv' /\ Ledger!Pay
<1>1. BooksInv'
  BY DEF BooksInv
<1>2. /\ books.balance \in Int /\ Owed(books) \in Int
      /\ c.balance \in Int /\ Owed(c) \in Int
      /\ doublePaid \in Nat
  BY DEF BooksInv, Books, Owed
<1>3. /\ (books.balance + doublePaid)' = c.balance + doublePaid + d
      /\ Owed(books)' = Owed(c)
  BY <1>2 DEF Owed
<1>4. Ledger!Pay
  BY <1>2, <1>3 DEF Ledger!Pay
<1> QED
  BY <1>1, <1>4

LEMMA CreditStep ==
    ASSUME BooksInv, NEW c \in Books, Covered(c), Commits(c), books' = c,
           UNCHANGED doublePaid,
           c.balance >= books.balance,
           Owed(c) >= Owed(books),
           Owed(c) <= c.balance + doublePaid
    PROVE  BooksInv' /\ Ledger!Receive
<1>1. BooksInv'
  BY DEF BooksInv
<1>2. /\ books.balance \in Int /\ Owed(books) \in Int
      /\ c.balance \in Int /\ Owed(c) \in Int
      /\ doublePaid \in Nat
  BY DEF BooksInv, Books, Owed
<1>3. /\ (books.balance + doublePaid)' = c.balance + doublePaid
      /\ Owed(books)' = Owed(c)
  BY <1>2 DEF Owed
<1>4. Ledger!Receive
  BY <1>2, <1>3 DEF Ledger!Receive
<1> QED
  BY <1>1, <1>4

LEMMA IdleStep ==
    ASSUME BooksInv, UNCHANGED <<books, doublePaid>>
    PROVE  BooksInv' /\ Ledger!Pay
<1>1. /\ books \in Books /\ Covered(books) /\ Commits(books)
      /\ books.balance \in Int /\ Owed(books) \in Int
      /\ doublePaid \in Nat
  BY DEF BooksInv, Books, Owed
<1>2. BooksInv'
  BY DEF BooksInv
<1>3. Owed(books)' = Owed(books)
  BY DEF Owed
<1> QED
  BY <1>1, <1>2, <1>3 DEF Ledger!Pay

\* Flags stay as they should be when only the accounts change.
LEMMA FlagsIdle ==
    ASSUME FlagsInv, UNCHANGED <<config, flags, protected>>
    PROVE  FlagsInv'
  BY DEF FlagsInv

LEMMA LeaveTermsTyped ==
    ASSUME BooksInv, FlagsInv, NEW o, NEW terms \in LeaveTermsOf(o)
    PROVE  terms \in LeaveTerms
<1>1. /\ config.leavePenalty \in Nat
      /\ books.pool \in Int
  BY VoteKickAssumption DEF BooksInv, FlagsInv, Books, Config
<1>2. LeavePenalties \subseteq Nat
  <2>1. LeavePenalties \subseteq {0, config.leavePenalty}
    BY DEF LeavePenalties
  <2> QED
    BY <1>1, <2>1
<1>3. 0 .. books.pool \subseteq Nat
  BY <1>1
<1>4. Accepts(o) \subseteq BOOLEAN
  BY DEF Accepts
<1> QED
  BY <1>2, <1>3, <1>4 DEF LeaveTermsOf, LeaveTerms

LEMMA PlainTransferStep ==
    ASSUME IInv, NEW amount \in Nat, PlainTransfer(amount)
    PROVE  BooksInv' /\ Ledger!Receive /\ FlagsInv'
<1> DEFINE c == [books EXCEPT !.balance = books.balance + amount]
<1>1. /\ books \in Books /\ Covered(books) /\ Commits(books)
      /\ books.balance \in Int /\ Owed(books) \in Int /\ doublePaid \in Nat
      /\ Owed(books) <= books.balance + doublePaid
  BY DEF IInv, BooksInv, SolventUpToDoublePay, Books, Owed
<1>2. /\ c \in Books
      /\ c.balance = books.balance + amount
      /\ Owed(c) = Owed(books)
      /\ Covered(c)
      /\ Commits(c)
  BY <1>1 DEF Books, Owed, Covered, Commits
<1>3. books' = c /\ UNCHANGED <<config, flags, protected, doublePaid>>
  BY DEF PlainTransfer
<1> HIDE DEF c
<1>4. BooksInv' /\ Ledger!Receive
  BY <1>1, <1>2, <1>3, CreditStep DEF IInv
<1> QED
  BY <1>3, <1>4, FlagsIdle DEF IInv

\* The sweep credits all that is held; its guard makes it a credit.
LEMMA SponsorStep ==
    ASSUME IInv, NEW amount \in Nat, Sponsor(amount)
    PROVE  BooksInv' /\ Ledger!Receive /\ FlagsInv'
<1> DEFINE held == books.balance + amount
           swept == held - books.totalStaked - books.forfeited
           c == [books EXCEPT !.balance = held, !.pool = swept]
<1>1. /\ books \in Books /\ Covered(books)
      /\ books.balance \in Int /\ books.totalStaked \in Int /\ books.forfeited \in Int
      /\ books.pool \in Int /\ Owed(books) \in Int /\ doublePaid \in Nat
  BY DEF IInv, BooksInv, Books, Owed
<1>2. /\ swept - books.pool >= amount
      /\ Commits(c)
      /\ books' = c
      /\ UNCHANGED <<config, flags, protected, doublePaid>>
  BY DEF Sponsor, Commit
<1>3. held \in Int /\ swept \in Int
  BY <1>1
<1>3a. swept = held - books.totalStaked - books.forfeited
  OBVIOUS
<1> HIDE DEF swept
<1>3b. /\ c \in Books
       /\ c.balance = held /\ c.pool = swept
       /\ c.totalStaked = books.totalStaked /\ c.forfeited = books.forfeited
       /\ c.staked = books.staked /\ c.locked = books.locked
  BY <1>1, <1>3 DEF Books
<1>4. /\ Owed(c) = held
      /\ Covered(c)
  BY <1>1, <1>3, <1>3a, <1>3b DEF Owed, Covered
<1>5. held >= books.balance /\ held >= Owed(books)
  BY <1>1, <1>2, <1>3a DEF Owed
<1> HIDE DEF c, held
<1>6. Owed(c) <= c.balance + doublePaid
  BY <1>1, <1>3, <1>3b, <1>4
<1>7. BooksInv' /\ Ledger!Receive
  BY <1>2, <1>3b, <1>4, <1>5, <1>6, CreditStep DEF IInv
<1> QED
  BY <1>2, <1>7, FlagsIdle DEF IInv

LEMMA StakeStep ==
    ASSUME IInv, NEW o \in Operators, NEW amount \in Nat, Stake(o, amount)
    PROVE  BooksInv' /\ Ledger!Receive /\ FlagsInv'
<1> DEFINE more == [books.staked EXCEPT ![o] = books.staked[o] + amount]
           paidIn == [books EXCEPT !.balance = books.balance + amount,
                                   !.staked = more,
                                   !.totalStaked = books.totalStaked + amount]
           joined == [paidIn EXCEPT !.operatorCount = paidIn.operatorCount + 1,
                                    !.joined = paidIn.joined \cup {o}]
           c == IF books.staked[o] = 0 THEN joined ELSE paidIn
<1>1. /\ books \in Books /\ Covered(books)
      /\ books.balance \in Int /\ books.totalStaked \in Int /\ books.operatorCount \in Int
      /\ Owed(books) \in Int /\ doublePaid \in Nat
      /\ books.staked[o] \in Nat
      /\ Owed(books) <= books.balance + doublePaid
  BY DEF IInv, BooksInv, SolventUpToDoublePay, Books, Owed
<1>2. /\ Commits(c)
      /\ books' = c
      /\ UNCHANGED <<config, flags, protected, doublePaid>>
  BY <1>1 DEF Stake, Commit, Books
<1>3. /\ more \in [Operators -> Nat]
      /\ \A p \in Operators : books.locked[p] <= more[p]
  BY <1>1 DEF Covered, Books
<1>4. books.balance + amount \in Int /\ books.totalStaked + amount \in Int
  BY <1>1
<1> HIDE DEF more
<1>4a. /\ paidIn \in Books
       /\ paidIn.balance = books.balance + amount
       /\ paidIn.staked = more /\ paidIn.locked = books.locked
       /\ paidIn.totalStaked = books.totalStaked + amount
       /\ paidIn.pool = books.pool /\ paidIn.forfeited = books.forfeited
  BY <1>1, <1>3, <1>4 DEF Books
<1> HIDE DEF paidIn
<1>5. /\ paidIn \in Books
      /\ paidIn.balance = books.balance + amount
      /\ paidIn.staked = more /\ paidIn.locked = books.locked
      /\ Owed(paidIn) = Owed(books) + amount
  BY <1>1, <1>4a DEF Books, Owed
<1>6. /\ paidIn.operatorCount + 1 \in Int
      /\ paidIn.joined \cup {o} \in SUBSET Operators
  BY <1>5 DEF Books
<1>7. /\ joined \in Books
      /\ joined.balance = paidIn.balance
      /\ joined.staked = more /\ joined.locked = books.locked
      /\ Owed(joined) = Owed(paidIn)
  BY <1>5, <1>6 DEF Books, Owed
<1> HIDE DEF joined
<1>8. /\ c \in Books
      /\ c.balance = books.balance + amount
      /\ Owed(c) = Owed(books) + amount
      /\ c.staked = more /\ c.locked = books.locked
  BY <1>5, <1>7
<1>9. Covered(c)
  BY <1>3, <1>8 DEF Covered
<1> HIDE DEF c
<1>10. /\ c.balance >= books.balance
       /\ Owed(c) >= Owed(books)
       /\ Owed(c) <= c.balance + doublePaid
  BY <1>1, <1>8
<1>11. BooksInv' /\ Ledger!Receive
  BY <1>2, <1>8, <1>9, <1>10, CreditStep DEF IInv
<1> QED
  BY <1>2, <1>11, FlagsIdle DEF IInv

LEMMA ReduceStakeToStep ==
    ASSUME IInv, NEW o \in Operators, NEW target \in Nat, ReduceStakeTo(o, target)
    PROVE  BooksInv' /\ Ledger!Pay /\ FlagsInv'
<1> DEFINE by == books.staked[o] - target
           taken == Reduction(books, o, by)
           less == ReduceStakeBy(books, o, by)
           c == [less EXCEPT !.balance = less.balance - taken]
<1>1. /\ books \in Books /\ Covered(books)
      /\ books.balance \in Int /\ Owed(books) \in Int /\ doublePaid \in Nat
      /\ books.staked[o] \in Nat
  BY DEF IInv, BooksInv, Books, Owed
<1>2. /\ target < books.staked[o]
      /\ Commits(c)
      /\ books' = c
      /\ UNCHANGED <<config, flags, protected, doublePaid>>
  BY DEF ReduceStakeTo, Commit
<1>3. by \in Nat
  BY <1>1, <1>2
<1> HIDE DEF by
<1>4. taken \in Nat
  BY <1>1, <1>3, ReductionBounds
<1>5. /\ less \in Books
      /\ Covered(less)
      /\ less.balance = books.balance
      /\ Owed(less) = Owed(books) - taken
  BY <1>1, <1>3, ReduceStakeByEffect
<1> HIDE DEF taken, less
<1>6. less.balance - taken \in Int
  BY <1>1, <1>4, <1>5
<1>7. /\ c \in Books
      /\ c.balance = books.balance - taken
      /\ Owed(c) = Owed(less)
      /\ c.staked = less.staked /\ c.locked = less.locked
  BY <1>5, <1>6 DEF Books, Owed
<1>8. Covered(c)
  BY <1>5, <1>7 DEF Covered
<1> HIDE DEF c
<1>9. /\ c.balance + 0 <= books.balance
      /\ Owed(books) - Owed(c) >= books.balance - (c.balance + 0)
      /\ doublePaid' = doublePaid + 0
  BY <1>1, <1>2, <1>4, <1>5, <1>7
<1>10. BooksInv' /\ Ledger!Pay
  BY <1>2, <1>7, <1>8, <1>9, DebitStep DEF IInv
<1> QED
  BY <1>2, <1>10, FlagsIdle DEF IInv

LEMMA WithdrawStep ==
    ASSUME IInv, NEW o, NEW earnings \in Nat, NEW accepted \in BOOLEAN,
           Withdraw(o, earnings, accepted)
    PROVE  BooksInv' /\ Ledger!Pay /\ FlagsInv'
<1> DEFINE c == WithdrawEarnings(books, earnings, accepted)
<1>1. /\ books \in Books /\ Covered(books) /\ doublePaid \in Nat
      /\ Commits(c)
      /\ books' = c
      /\ UNCHANGED <<config, flags, protected, doublePaid>>
  BY DEF IInv, BooksInv, Withdraw, Commit
<1>2. /\ c \in Books
      /\ Covered(c)
      /\ c.balance <= books.balance
      /\ Owed(books) - Owed(c) >= books.balance - c.balance
  BY <1>1, WithdrawEarningsEffect
<1> HIDE DEF c
<1>3. c.balance \in Int /\ c.balance + 0 = c.balance
  BY <1>2 DEF Books
<1>4. doublePaid' = doublePaid + 0
  BY <1>1
<1>5. BooksInv' /\ Ledger!Pay
  BY <1>1, <1>2, <1>3, <1>4, DebitStep DEF IInv
<1> QED
  BY <1>1, <1>5, FlagsIdle DEF IInv

\* What unstaking, force-unstaking and being kicked at once have in common.
LEMMA RemoveOperatorStep ==
    ASSUME IInv, NEW o \in Operators, NEW terms \in LeaveTermsOf(o),
           Commit(RemoveOperator(books, o, terms)),
           UNCHANGED <<config, flags, protected, doublePaid>>
    PROVE  BooksInv' /\ Ledger!Pay /\ FlagsInv'
<1> DEFINE c == RemoveOperator(books, o, terms)
<1>1. /\ books \in Books /\ Covered(books) /\ doublePaid \in Nat
      /\ terms \in LeaveTerms
      /\ Commits(c)
      /\ books' = c
  BY LeaveTermsTyped DEF IInv, BooksInv, Commit
<1>2. /\ c \in Books
      /\ Covered(c)
      /\ c.balance <= books.balance
      /\ Owed(books) - Owed(c) >= books.balance - c.balance
  BY <1>1, RemoveOperatorEffect
<1> HIDE DEF c
<1>3. c.balance \in Int /\ c.balance + 0 = c.balance
  BY <1>2 DEF Books
<1>4. doublePaid' = doublePaid + 0
  BY <1>1
<1>5. BooksInv' /\ Ledger!Pay
  BY <1>1, <1>2, <1>3, <1>4, DebitStep DEF IInv
<1> QED
  BY <1>5, FlagsIdle DEF IInv

\* Being locked in full needs as much stake, whether flagged already or not.
LEMMA MinimumStakeCoversLock ==
    ASSUME NEW b \in Books, NEW o \in Operators, NEW flagged \in BOOLEAN, config \in Configs
    PROVE  MinimumStakeOf(b, o, flagged) >= b.locked[o]
<1> DEFINE needed == IF flagged THEN b.locked[o]
                     ELSE DivByFraction(b.locked[o], Ether - config.slashingFraction)
<1>1. /\ config \in Config
      /\ b.locked[o] \in Nat
  BY VoteKickAssumption DEF Books
<1>2. /\ Ether - config.slashingFraction \in 1 .. Ether
      /\ MinimumStake(config) \in Nat
  BY <1>1, ConfigFacts
<1>3. needed \in Nat /\ needed >= b.locked[o]
  BY <1>1, <1>2, DivByFractionGrows
<1> HIDE DEF needed
<1>4. MinimumStakeOf(b, o, flagged) =
        IF needed > MinimumStake(config) THEN needed ELSE MinimumStake(config)
  BY DEF MinimumStakeOf, needed
<1> QED
  BY <1>1, <1>2, <1>3, <1>4

\* The books after locking: both parties' stakes cover what is locked of them,
\* the target's because it is not over-locked, the flagger's by its minimum.
LEMMA LockStep ==
    ASSUME BooksInv, config \in Configs, NEW f \in Operators, NEW t \in Operators, f # t,
           ~Overlocked(t),
           NEW locks, locks = [books.locked EXCEPT
                        ![t] = @ + StakeAtRisk(config, books.staked[t]),
                        ![f] = @ + config.flagStake],
           NEW locked, locked = [books EXCEPT !.locked = locks],
           locked.staked[f] >= MinimumStakeOf(locked, f, Open(f))
    PROVE  /\ locked \in Books
           /\ Covered(locked)
           /\ locked.balance = books.balance
           /\ Owed(locked) = Owed(books)
<1> DEFINE atRisk == StakeAtRisk(config, books.staked[t])
<1>1. /\ books \in Books /\ Covered(books)
      /\ books.locked \in [Operators -> Nat]
      /\ books.staked \in [Operators -> Nat]
      /\ config \in Config
  BY VoteKickAssumption DEF BooksInv, Books
<1>2. /\ atRisk \in Nat
      /\ config.flagStake \in Nat
  BY <1>1, ConfigFacts DEF Config
<1>3. books.locked[t] + atRisk <= books.staked[t]
  BY <1>1, <1>2 DEF Overlocked
<1>4. locks = [books.locked EXCEPT ![t] = @ + atRisk, ![f] = @ + config.flagStake]
  OBVIOUS
<1> HIDE DEF atRisk
<1>5. locks \in [Operators -> Nat]
  BY <1>1, <1>2, <1>4
<1>6. \A p \in Operators :
        locks[p] = books.locked[p] + (IF p = t THEN atRisk ELSE 0)
                                   + (IF p = f THEN config.flagStake ELSE 0)
  BY <1>1, <1>2, <1>4
<1>7. /\ locked \in Books
      /\ locked.locked = locks
      /\ locked.staked = books.staked
      /\ locked.balance = books.balance
      /\ Owed(locked) = Owed(books)
  BY <1>1, <1>5 DEF Books, Owed
<1>8. locks[f] <= books.staked[f]
  <2>1. /\ MinimumStakeOf(locked, f, Open(f)) >= locked.locked[f]
    BY <1>7, MinimumStakeCoversLock DEF Open
  <2>2. MinimumStakeOf(locked, f, Open(f)) \in Int
    <3>1. /\ MinimumStake(config) \in Nat
          /\ Ether - config.slashingFraction \in 1 .. Ether
          /\ locked.locked[f] \in Nat
      BY <1>1, <1>5, <1>7, ConfigFacts
    <3>2. DivByFraction(locked.locked[f], Ether - config.slashingFraction) \in Nat
      BY <3>1, DivByFractionGrows
    <3> QED
      BY <3>1, <3>2 DEF MinimumStakeOf
  <2>3. locks[f] \in Nat /\ books.staked[f] \in Nat
    BY <1>1, <1>5
  <2> QED
    BY <1>7, <2>1, <2>2, <2>3
<1>9. ASSUME NEW p \in Operators
      PROVE  locks[p] <= books.staked[p]
  BY <1>1, <1>2, <1>3, <1>6, <1>8 DEF Covered
<1>10. Covered(locked)
  BY <1>7, <1>9 DEF Covered
<1> QED
  BY <1>7, <1>10

LEMMA ReviewersFinite ==
    ASSUME NEW flag
    PROVE  /\ IsFiniteSet(ReviewersOf(flag))
           /\ Cardinality(ReviewersOf(flag)) \in Nat
<1>1. ReviewersOf(flag) \subseteq Voters
  BY DEF ReviewersOf
<1> QED
  BY <1>1, VoteKickAssumption, FS_Subset, FS_CardinalityType

\* Replacing a flag by a sound one keeps all of them sound.
LEMMA FlagsStep ==
    ASSUME FlagsInv, NEW t \in Operators, NEW flag, FlagInv(flag),
           flags' = [flags EXCEPT ![t] = flag],
           config' = config, protected' \subseteq Operators
    PROVE  FlagsInv'
<1>1. flags' = [u \in Operators |-> flags'[u]]
  BY DEF FlagsInv
<1>2. ASSUME NEW u \in Operators
      PROVE  FlagInv(flags'[u])
  BY DEF FlagsInv
<1> QED
  BY <1>1, <1>2 DEF FlagsInv

\* A new flag is sound: the flag stake covers the reviewers of its configuration.
LEMMA NewFlagSound ==
    ASSUME config \in Configs, NEW f \in Operators, NEW R \in SUBSET Voters,
           Cardinality(R) <= config.reviewerCount, NEW atRisk \in Nat,
           NEW flag,
           NEW state, DOMAIN state = Voters, \A v \in Voters \ R : state[v] = 0,
           NEW total,
           flag = [phase |-> "review", flagger |-> f, atRisk |-> atRisk,
                   flagStake |-> config.flagStake,
                   flaggerReward |-> config.flaggerReward,
                   reviewerReward |-> config.reviewerReward,
                   state |-> state, votesFor |-> 0, votesAgainst |-> 0,
                   total |-> total]
    PROVE  FlagInv(flag)
<1>1. /\ config \in Config
      /\ config.flagStake \in Nat /\ config.flaggerReward \in Nat
      /\ config.reviewerReward \in Nat /\ config.reviewerCount \in Nat
      /\ config.flagStake >= MinimumFlagStake(config)
  BY VoteKickAssumption DEF Config
<1>2. FlagType(flag)
  BY <1>1 DEF FlagType
<1>3. ReviewersOf(flag) \subseteq R
  BY DEF ReviewersOf
<1>4. /\ Cardinality(ReviewersOf(flag)) \in Nat
      /\ Cardinality(R) \in Nat
      /\ Cardinality(ReviewersOf(flag)) <= Cardinality(R)
  BY <1>3, VoteKickAssumption, FS_Subset, FS_CardinalityType
<1>5. /\ MinimumFlagStake(config) \in Nat
      /\ MinimumFlagStake(config) >= config.reviewerCount * config.reviewerReward
  <2>1. /\ config.reviewerCount * config.reviewerReward \in Nat
        /\ Ether - config.slashingFraction \in 1 .. Ether
    BY <1>1, ConfigFacts
  <2> QED
    BY <1>1, <2>1, ConfigFacts, DivByFractionGrows DEF MinimumFlagStake
<1> DEFINE n == Cardinality(ReviewersOf(flag))
<1>6. n \in Nat /\ n <= config.reviewerCount
  BY <1>1, <1>4
<1> HIDE DEF n
<1>7. n * config.reviewerReward <= config.reviewerCount * config.reviewerReward
  BY <1>1, <1>6
<1>8. n * config.reviewerReward <= config.flagStake
  <2>1. /\ n * config.reviewerReward \in Nat
        /\ config.reviewerCount * config.reviewerReward \in Nat
    BY <1>1, <1>6
  <2> QED
    BY <1>1, <1>5, <1>7, <2>1
<1>9. flag.reviewerReward = config.reviewerReward /\ flag.flagStake = config.flagStake
  OBVIOUS
<1> QED
  BY <1>2, <1>8, <1>9 DEF FlagInv, n

LEMMA FlagStep ==
    ASSUME IInv, NEW f \in Operators, NEW t \in Operators,
           NEW R \in SUBSET Voters, NEW weight \in [R -> Weights],
           Flag(f, t, weight)
    PROVE  BooksInv' /\ Ledger!Pay /\ FlagsInv'
<1> DEFINE atRisk == StakeAtRisk(config, books.staked[t])
           locks == [books.locked EXCEPT ![t] = @ + atRisk, ![f] = @ + config.flagStake]
           locked == [books EXCEPT !.locked = locks]
           capped == CapWeights(weight)
           state == [v \in Voters |-> IF v \in DOMAIN weight THEN capped[v] ELSE 0]
           flag == [phase |-> "review", flagger |-> f, atRisk |-> atRisk,
                    flagStake |-> config.flagStake,
                    flaggerReward |-> config.flaggerReward,
                    reviewerReward |-> config.reviewerReward,
                    state |-> state, votesFor |-> 0, votesAgainst |-> 0,
                    total |-> SumFunction(capped)]
<1>1. /\ f # t
      /\ ~Overlocked(t)
      /\ Cardinality(DOMAIN weight) <= config.reviewerCount
      /\ locked.staked[f] >= MinimumStakeOf(locked, f, Open(f))
      /\ Commits(locked) /\ books' = locked
      /\ flags' = [flags EXCEPT ![t] = flag]
      /\ UNCHANGED <<config, protected, doublePaid>>
  BY DEF Flag, MayFlag, Commit
<1>2. /\ BooksInv /\ FlagsInv
      /\ books \in Books /\ books.balance \in Int /\ Owed(books) \in Int
      /\ config \in Configs /\ config \in Config
      /\ books.staked[t] \in Nat
      /\ doublePaid \in Nat
      /\ protected \subseteq Operators
      /\ DOMAIN weight = R
  BY VoteKickAssumption DEF IInv, BooksInv, FlagsInv, Books, Owed
<1>3. atRisk \in Nat
  BY <1>2, ConfigFacts
<1>4. /\ locked \in Books
      /\ Covered(locked)
      /\ locked.balance = books.balance
      /\ Owed(locked) = Owed(books)
  BY <1>1, <1>2, LockStep
<1> HIDE DEF locked
<1>5. /\ locked.balance + 0 <= books.balance
      /\ Owed(books) - Owed(locked) >= books.balance - (locked.balance + 0)
      /\ doublePaid' = doublePaid + 0
  BY <1>1, <1>2, <1>4
<1>6. BooksInv' /\ Ledger!Pay
  BY <1>1, <1>2, <1>4, <1>5, DebitStep
<1>7. /\ DOMAIN state = Voters
      /\ \A v \in Voters \ R : state[v] = 0
  BY <1>2
<1> HIDE DEF atRisk, capped, state
<1>8. FlagInv(flag)
  BY <1>1, <1>2, <1>3, <1>7, NewFlagSound
<1> HIDE DEF flag
<1>9. FlagsInv'
  BY <1>1, <1>2, <1>8, FlagsStep
<1> QED
  BY <1>6, <1>9

\* Voting does not change who the reviewers are, nor what they are promised.
LEMMA CastVoteSound ==
    ASSUME NEW flag, FlagInv(flag), NEW v \in Voters, flag.state[v] > 0, NEW kick \in BOOLEAN
    PROVE  LET voted == CastVote(flag, v, kick)
           IN  FlagInv(voted) /\ voted.phase = flag.phase
<1> DEFINE voted == CastVote(flag, v, kick)
           vote == IF kick THEN VotedKick ELSE VotedNoKick
           state == [flag.state EXCEPT ![v] = vote]
           votesFor == IF kick THEN flag.votesFor + flag.state[v] ELSE flag.votesFor
           votesAgainst == IF kick THEN flag.votesAgainst
                           ELSE flag.votesAgainst + flag.state[v]
<1>1. flag \in [phase : {"none", "review", "voting", "ended"},
                flagger : Operators \cup {NoOne},
                atRisk : Nat, flagStake : Nat, flaggerReward : Nat, reviewerReward : Nat,
                state : {flag.state}, votesFor : {flag.votesFor},
                votesAgainst : {flag.votesAgainst}, total : {flag.total}]
  BY DEF FlagInv, FlagType
<1>2. /\ voted.phase = flag.phase
      /\ voted.flagger = flag.flagger
      /\ voted.atRisk = flag.atRisk
      /\ voted.flagStake = flag.flagStake
      /\ voted.flaggerReward = flag.flaggerReward
      /\ voted.reviewerReward = flag.reviewerReward
      /\ voted.state = [flag.state EXCEPT ![v] = vote]
  BY <1>1 DEF CastVote
<1>2a. voted = [flag EXCEPT !.state = state, !.votesFor = votesFor,
                           !.votesAgainst = votesAgainst]
  BY DEF CastVote
<1> HIDE DEF votesFor, votesAgainst, state
<1>3. [flag EXCEPT !.state = state, !.votesFor = votesFor, !.votesAgainst = votesAgainst]
        \in [phase : {flag.phase}, flagger : {flag.flagger}, atRisk : {flag.atRisk},
            flagStake : {flag.flagStake}, flaggerReward : {flag.flaggerReward},
            reviewerReward : {flag.reviewerReward}, state : {state},
            votesFor : {votesFor}, votesAgainst : {votesAgainst}, total : {flag.total}]
  BY <1>1
<1>3a. voted \in [phase : {flag.phase}, flagger : {flag.flagger}, atRisk : {flag.atRisk},
            flagStake : {flag.flagStake}, flaggerReward : {flag.flaggerReward},
            reviewerReward : {flag.reviewerReward}, state : {state},
            votesFor : {votesFor}, votesAgainst : {votesAgainst}, total : {flag.total}]
  BY <1>2a, <1>3
<1> HIDE DEF voted
<1>4. FlagType(voted)
  BY <1>1, <1>2, <1>3a DEF FlagInv, FlagType
<1>5. ReviewersOf(voted) = ReviewersOf(flag)
  <2>1. flag.state[v] # 0 /\ vote # 0
    BY DEF VotedKick, VotedNoKick
  <2>2. \A u \in Voters : voted.state[u] = IF u = v THEN vote ELSE flag.state[u]
    BY <1>2 DEF FlagInv, FlagType
  <2> QED
    BY <2>1, <2>2 DEF ReviewersOf
<1> QED
  BY <1>2, <1>4, <1>5 DEF FlagInv, voted

\* The rewards never exceed the flag stake: only reviewers are rewarded.
LEMMA RewardsBound ==
    ASSUME NEW flag, FlagInv(flag), flag.phase # "none", NEW paid \in PaidSets(flag)
    PROVE  /\ Cardinality(paid \ {flag.flagger}) * flag.reviewerReward \in Nat
           /\ Cardinality(paid \ {flag.flagger}) * flag.reviewerReward <= flag.flagStake
<1> DEFINE n == Cardinality(paid \ {flag.flagger})
           m == Cardinality(ReviewersOf(flag))
<1>1. paid \ {flag.flagger} \subseteq ReviewersOf(flag)
  BY DEF PaidSets, ReviewersOf, Verdict, VotedKick, VotedNoKick
<1>2. n \in Nat /\ m \in Nat /\ n <= m
  BY <1>1, ReviewersFinite, FS_Subset, FS_CardinalityType
<1>3. /\ flag.reviewerReward \in Nat /\ flag.flagStake \in Nat
      /\ m * flag.reviewerReward <= flag.flagStake
  BY DEF FlagInv, FlagType
<1> HIDE DEF n, m
<1>4. /\ n * flag.reviewerReward \in Nat
      /\ m * flag.reviewerReward \in Nat
      /\ n * flag.reviewerReward <= m * flag.reviewerReward
  BY <1>2, <1>3
<1>5. n * flag.reviewerReward <= flag.flagStake
  BY <1>3, <1>4
<1> QED
  BY <1>4, <1>5 DEF n

LEMMA NoFlagSound == FlagInv(NoFlag)
<1>1. NoFlag.phase = "none" /\ DOMAIN NoFlag.state = Voters
  BY DEF NoFlag
<1>2. FlagType(NoFlag)
  BY <1>1 DEF FlagType, NoFlag
<1> QED
  BY <1>1, <1>2 DEF FlagInv

LEMMA EndVoteStep ==
    ASSUME IInv, NEW t \in Operators, NEW flag, FlagInv(flag), flag.phase # "none",
           EndVote(t, flag)
    PROVE  BooksInv' /\ Ledger!Pay /\ FlagsInv'
<1>1. /\ BooksInv /\ FlagsInv
      /\ books \in Books /\ Covered(books) /\ doublePaid \in Nat
  BY DEF IInv, BooksInv
<1>2. PICK terms \in LeaveTermsOf(t), paid \in PaidSets(flag) :
        \E s \in {Settlement(books, t, flag, terms, paid)} :
            /\ s.payable
            /\ Commit(s.books)
            /\ doublePaid' = doublePaid + s.doublePaid
  BY DEF EndVote
<1> DEFINE s == Settlement(books, t, flag, terms, paid)
<1>3. /\ Commits(s.books) /\ books' = s.books
      /\ doublePaid' = doublePaid + s.doublePaid
  BY <1>2 DEF Commit
<1>4. /\ flag.atRisk \in Nat /\ flag.flagStake \in Nat /\ flag.flagger \in Operators
      /\ terms \in LeaveTerms
  BY <1>1, LeaveTermsTyped DEF FlagInv, FlagType
<1>5. Settles(books, s)
  <2>1. Settles(books, HandleKick(books, t, flag, terms, paid))
    BY <1>1, <1>4, HandleKickEffect
  <2>2. Settles(books, HandleNoKick(books, t, flag, paid))
    BY <1>1, <1>4, RewardsBound, HandleNoKickEffect
  <2> QED
    BY <2>1, <2>2 DEF Settlement
<1> HIDE DEF s
<1>6. BooksInv' /\ Ledger!Pay
  BY <1>1, <1>3, <1>5, DebitStep DEF Settles
<1>7. /\ flags' = [flags EXCEPT ![t] = NoFlag]
      /\ config' = config
      /\ protected' \subseteq Operators
  BY <1>1 DEF EndVote, FlagsInv
<1>8. FlagsInv'
  BY <1>1, <1>7, NoFlagSound, FlagsStep
<1> QED
  BY <1>6, <1>8

LEMMA VoteStep ==
    ASSUME IInv, NEW t \in Operators, NEW v \in Voters, NEW kick \in BOOLEAN, Vote(t, v, kick)
    PROVE  BooksInv' /\ Ledger!Pay /\ FlagsInv'
<1> DEFINE voted == CastVote(flags[t], v, kick)
<1>1. /\ FlagInv(flags[t])
      /\ flags[t].phase # "none"
      /\ flags[t].state[v] > 0
  BY DEF IInv, FlagsInv, Vote
<1>2. FlagInv(voted) /\ voted.phase # "none"
  BY <1>1, CastVoteSound
<1>3. \/ EndVote(t, voted)
      \/ /\ flags' = [flags EXCEPT ![t] = voted]
         /\ UNCHANGED <<books, config, protected, doublePaid>>
  BY DEF Vote
<1> HIDE DEF voted
<1>4. CASE EndVote(t, voted)
  BY <1>2, <1>4, EndVoteStep
<1>5. CASE /\ flags' = [flags EXCEPT ![t] = voted]
           /\ UNCHANGED <<books, config, protected, doublePaid>>
  <2>1. protected' \subseteq Operators
    BY <1>5 DEF IInv, FlagsInv
  <2>2. FlagsInv'
    BY <1>2, <1>5, <2>1, FlagsStep DEF IInv
  <2> QED
    BY <1>5, <2>2, IdleStep DEF IInv
<1> QED
  BY <1>3, <1>4, <1>5

LEMMA EndVotingPeriodStep ==
    ASSUME IInv, NEW t \in Operators, EndVotingPeriod(t)
    PROVE  BooksInv' /\ Ledger!Pay /\ FlagsInv'
<1>1. /\ FlagInv(flags[t])
      /\ flags[t].phase # "none"
      /\ EndVote(t, flags[t])
  BY DEF IInv, FlagsInv, EndVotingPeriod
<1> QED
  BY <1>1, EndVoteStep

LEMMA PhaseEndsStep ==
    ASSUME IInv, NEW t \in Operators, PhaseEnds(t)
    PROVE  BooksInv' /\ Ledger!Pay /\ FlagsInv'
<1> DEFINE next == IF flags[t].phase = "review" THEN "voting" ELSE "ended"
           flag == [flags[t] EXCEPT !.phase = next]
<1>1. /\ FlagInv(flags[t])
      /\ flags[t].phase \in {"review", "voting"}
      /\ flags' = [flags EXCEPT ![t] = flag]
      /\ UNCHANGED <<books, config, protected, doublePaid>>
      /\ protected' \subseteq Operators
  BY DEF IInv, FlagsInv, PhaseEnds
<1>2. next \in {"voting", "ended"}
  OBVIOUS
<1> HIDE DEF next
<1>3. /\ flag.flagger = flags[t].flagger
      /\ flag.state = flags[t].state
      /\ flag.flagStake = flags[t].flagStake
      /\ flag.reviewerReward = flags[t].reviewerReward
      /\ flag.phase = next
  BY <1>1 DEF FlagInv, FlagType
<1>4. FlagType(flag)
  BY <1>1, <1>2, <1>3 DEF FlagInv, FlagType
<1>5. ReviewersOf(flag) = ReviewersOf(flags[t])
  BY <1>3 DEF ReviewersOf
<1>6. FlagInv(flag)
  BY <1>1, <1>3, <1>4, <1>5 DEF FlagInv
<1> HIDE DEF flag
<1>7. FlagsInv'
  BY <1>1, <1>6, FlagsStep DEF IInv
<1> QED
  BY <1>1, <1>7, IdleStep DEF IInv

LEMMA ProtectionEndsStep ==
    ASSUME IInv, NEW t \in Operators, ProtectionEnds(t)
    PROVE  BooksInv' /\ Ledger!Pay /\ FlagsInv'
<1>1. FlagsInv'
  BY DEF ProtectionEnds, IInv, FlagsInv
<1> QED
  BY <1>1, IdleStep DEF IInv, ProtectionEnds

LEMMA ChangeConfigStep ==
    ASSUME IInv, NEW c \in Configs, ChangeConfig(c)
    PROVE  BooksInv' /\ Ledger!Pay /\ FlagsInv'
<1>1. FlagsInv'
  BY DEF ChangeConfig, IInv, FlagsInv
<1> QED
  BY <1>1, IdleStep DEF IInv, ChangeConfig

\* Every transaction keeps the accounts and the flags sound, and either credits
\* or debits them as the abstract ledger may.
LEMMA NextStep ==
    ASSUME IInv, Next
    PROVE  BooksInv' /\ FlagsInv' /\ (Ledger!Receive \/ Ledger!Pay)
<1>1. ASSUME NEW amount \in SponsorAmounts, PlainTransfer(amount)
      PROVE  BooksInv' /\ FlagsInv' /\ (Ledger!Receive \/ Ledger!Pay)
  BY <1>1, VoteKickAssumption, PlainTransferStep
<1>2. ASSUME NEW amount \in SponsorAmounts \cup {0}, Sponsor(amount)
      PROVE  BooksInv' /\ FlagsInv' /\ (Ledger!Receive \/ Ledger!Pay)
  BY <1>2, VoteKickAssumption, SponsorStep
<1>3. ASSUME NEW o \in Operators, NEW amount \in StakeAmounts, Stake(o, amount)
      PROVE  BooksInv' /\ FlagsInv' /\ (Ledger!Receive \/ Ledger!Pay)
  BY <1>3, VoteKickAssumption, StakeStep
<1>4. ASSUME NEW o \in Operators, NEW target \in StakeAmounts, ReduceStakeTo(o, target)
      PROVE  BooksInv' /\ FlagsInv' /\ (Ledger!Receive \/ Ledger!Pay)
  BY <1>4, VoteKickAssumption, ReduceStakeToStep
<1>5. ASSUME NEW o \in Operators, NEW earnings \in 1 .. books.pool,
             NEW accepted \in Accepts(o), Withdraw(o, earnings, accepted)
      PROVE  BooksInv' /\ FlagsInv' /\ (Ledger!Receive \/ Ledger!Pay)
  <2>1. books.pool \in Int
    BY DEF IInv, BooksInv, Books
  <2>2. earnings \in Nat
    BY <2>1
  <2>3. accepted \in BOOLEAN
    BY Zenon DEF Accepts
  <2> QED
    BY <1>5, <2>2, <2>3, WithdrawStep
<1>6. ASSUME NEW o \in Operators, NEW terms \in LeaveTermsOf(o),
             \/ Unstake(o, terms)
             \/ ForceUnstake(o, terms)
             \/ \E f \in Flaggers : FlagKicks(f, o, terms)
      PROVE  BooksInv' /\ FlagsInv' /\ (Ledger!Receive \/ Ledger!Pay)
  <2>1. /\ Commit(RemoveOperator(books, o, terms))
        /\ UNCHANGED <<config, flags, protected, doublePaid>>
    BY <1>6 DEF Unstake, ForceUnstake, FlagKicks
  <2> QED
    BY <2>1, RemoveOperatorStep
<1>7. ASSUME NEW f \in Flaggers, NEW t \in Operators, NEW R \in SUBSET Voters,
             NEW weight \in [R -> Weights], Flag(f, t, weight)
      PROVE  BooksInv' /\ FlagsInv' /\ (Ledger!Receive \/ Ledger!Pay)
  BY <1>7, VoteKickAssumption, FlagStep
<1>8. ASSUME NEW t \in Operators, NEW v \in Voters, NEW kick \in BOOLEAN, Vote(t, v, kick)
      PROVE  BooksInv' /\ FlagsInv' /\ (Ledger!Receive \/ Ledger!Pay)
  BY <1>8, VoteStep
<1>9. ASSUME NEW t \in Operators, EndVotingPeriod(t)
      PROVE  BooksInv' /\ FlagsInv' /\ (Ledger!Receive \/ Ledger!Pay)
  BY <1>9, EndVotingPeriodStep
<1>10. ASSUME NEW t \in Operators, PhaseEnds(t)
       PROVE  BooksInv' /\ FlagsInv' /\ (Ledger!Receive \/ Ledger!Pay)
  BY <1>10, PhaseEndsStep
<1>11. ASSUME NEW t \in Operators, ProtectionEnds(t)
       PROVE  BooksInv' /\ FlagsInv' /\ (Ledger!Receive \/ Ledger!Pay)
  BY <1>11, ProtectionEndsStep
<1>12. ASSUME NEW c \in Configs, ChangeConfig(c)
       PROVE  BooksInv' /\ FlagsInv' /\ (Ledger!Receive \/ Ledger!Pay)
  BY <1>12, ChangeConfigStep
<1> QED
  BY <1>1, <1>2, <1>3, <1>4, <1>5, <1>6, <1>7, <1>8, <1>9, <1>10, <1>11, <1>12 DEF Next

\* The abstract ledger never owes more than it holds, so neither do the accounts.
LEMMA LedgerStepIsSolvent ==
    ASSUME IInv, BooksInv', Ledger!Receive \/ Ledger!Pay
    PROVE  SolventUpToDoublePay'
<1>1. /\ books.balance \in Int /\ Owed(books) \in Int /\ doublePaid \in Nat
      /\ Owed(books) <= books.balance + doublePaid
      /\ books'.balance \in Int /\ doublePaid' \in Nat
      /\ Owed(books)' \in Int
  BY DEF IInv, BooksInv, SolventUpToDoublePay, Books, Owed
<1> QED
  BY <1>1 DEF Ledger!Receive, Ledger!Pay, SolventUpToDoublePay

LEMMA InitIInv == Init => IInv
<1> SUFFICES ASSUME Init PROVE IInv
  OBVIOUS
<1>1. /\ EmptyBooks \in Books
      /\ Commits(EmptyBooks)
      /\ Covered(EmptyBooks)
      /\ Owed(EmptyBooks) = 0
      /\ EmptyBooks.balance = 0
  BY DEF EmptyBooks, Books, Commits, Covered, Owed
<1>2. BooksInv /\ SolventUpToDoublePay
  BY <1>1 DEF Init, BooksInv, SolventUpToDoublePay
<1>3. FlagsInv
  BY NoFlagSound DEF Init, FlagsInv
<1> QED
  BY <1>2, <1>3 DEF IInv

LEMMA NextIInv == IInv /\ [Next]_vars => IInv'
<1> SUFFICES ASSUME IInv, [Next]_vars PROVE IInv'
  OBVIOUS
<1>1. CASE Next
  BY <1>1, NextStep, LedgerStepIsSolvent DEF IInv
<1>2. CASE UNCHANGED vars
  BY <1>2, IdleStep, FlagsIdle, LedgerStepIsSolvent DEF IInv, vars
<1> QED
  BY <1>1, <1>2

\* The strengthening the theorems follow from holds in every reachable state.
THEOREM Invariance == Spec => []IInv
<1> QED
  BY InitIInv, NextIInv, PTL DEF Spec

\* Type correctness: every variable keeps its type and no account of the
\* Sponsorship is ever negative, for any operators, voters and configurations.
THEOREM TypeCorrect == Spec => []TypeOK
<1> QED
  BY Invariance, IInvImpliesTypeOK, PTL

\* Solvency: the tokens held cover stakes, sponsorship, earnings and forfeited
\* stakes, except for what Unlock() lets go although it is sent out as well.
THEOREM Solvency == Spec => []SolventUpToDoublePay
<1>1. IInv => SolventUpToDoublePay
  BY DEF IInv
<1> QED
  BY <1>1, Invariance, PTL

\* Refinement: the Sponsorship implements the abstract ledger.  Tokens leave
\* only when debited, and nothing is credited that is not held.
THEOREM ImplementsLedger == Spec => LedgerSpec
<1>1. Init => Ledger!Init
  <2>1. Owed(EmptyBooks) = 0 /\ EmptyBooks.balance = 0
    BY DEF EmptyBooks, Owed
  <2> QED
    BY <2>1 DEF Init, Ledger!Init
<1>2. IInv /\ [Next]_vars => [Ledger!Next]_<<books.balance + doublePaid, Owed(books)>>
  <2> SUFFICES ASSUME IInv, [Next]_vars
               PROVE  [Ledger!Next]_<<books.balance + doublePaid, Owed(books)>>
    OBVIOUS
  <2>1. CASE Next
    BY <2>1, NextStep DEF Ledger!Next
  <2>2. CASE UNCHANGED vars
    BY <2>2 DEF vars, Owed
  <2> QED
    BY <2>1, <2>2
<1> QED
  BY <1>1, <1>2, Invariance, PTL DEF Spec, LedgerSpec, Ledger!Spec

-----------------------------------------------------------------------------
(* Weights *)

\* More than two positive weights: those of the others of any voter are together
\* at least two, and less the weight of another voter still at least one.
LEMMA OtherWeights ==
    ASSUME NEW R, IsFiniteSet(R), Cardinality(R) > 2,
           NEW weight \in [R -> Nat \ {0}], NEW v \in R
    PROVE  LET others == SumFunctionOnSet(weight, R \ {v})
           IN  /\ others \in Nat
               /\ SumFunction(weight) = weight[v] + others
               /\ others > 1
               /\ \A u \in R \ {v} : others > weight[u]
<1> DEFINE Sum(U) == SumFunctionOnSet(weight, U)
           S == R \ {v}
<1>1. /\ IsFiniteSet(S)
      /\ Cardinality(S) = Cardinality(R) - 1
      /\ Cardinality(R) \in Nat
  BY FS_RemoveElement, FS_CardinalityType
<1>2. SumFunction(weight) = weight[v] + Sum(S)
  <2>1. SumFunction(weight) = Sum(R)
    BY SumOverDomain
  <2>2. Sum(R) = weight[v] + Sum(R \ {v})
    BY SumTakes
  <2> QED
    BY <2>1, <2>2
<1>3. ASSUME NEW u \in S
      PROVE  Sum(S) \in Nat /\ Sum(S) > weight[u]
  <2>1. /\ IsFiniteSet(S \ {u})
        /\ Cardinality(S \ {u}) = Cardinality(R) - 2
    <3> HIDE DEF S
    <3>1. /\ IsFiniteSet(S \ {u})
          /\ Cardinality(S \ {u}) = Cardinality(S) - 1
      BY <1>1, FS_RemoveElement
    <3> QED
      BY <1>1, <3>1
  <2>2. PICK w : w \in S \ {u}
    BY <1>1, <2>1, FS_EmptySet
  <2>3. Sum(S) = weight[u] + Sum(S \ {u})
    BY <1>1, SumTakes
  <2>4. Sum(S \ {u}) \in Nat /\ weight[w] <= Sum(S \ {u})
    BY <2>1, <2>2, SumOfNaturals
  <2>5. weight[u] \in Nat /\ weight[w] \in Nat /\ weight[w] > 0
    BY <2>2
  <2> DEFINE rest == Sum(S \ {u})
             other == weight[w]
  <2>6. Sum(S) = weight[u] + rest /\ rest \in Nat /\ other <= rest
    BY <2>3, <2>4
  <2>7. other \in Nat /\ other > 0
    BY <2>5
  <2> HIDE DEF Sum, rest, other
  <2> QED
    BY <2>5, <2>6, <2>7
<1>4. PICK u : u \in S
  BY <1>1, FS_EmptySet
<1>5. weight[u] \in Nat \ {0}
  BY <1>4
<1> HIDE DEF Sum
<1>6. Sum(S) \in Nat /\ Sum(S) > 1
  BY <1>3, <1>4, <1>5
<1> QED
  BY <1>2, <1>3, <1>6 DEF Sum

\* After capping every weight is still positive, and with more than two voters
\* each of them weighs less than the others together.
LEMMA CapWeightsSound ==
    ASSUME NEW R, IsFiniteSet(R), NEW weight \in [R -> Nat \ {0}]
    PROVE  LET capped == CapWeights(weight)
           IN  /\ capped \in [R -> Nat \ {0}]
               /\ Cardinality(R) > 2 =>
                    \A v \in R : capped[v] < SumFunction(capped) - capped[v]
<1> DEFINE total == SumFunction(weight)
           Big == {v \in R : weight[v] * 2 >= total}
           capped == CapWeights(weight)
           Others(v) == SumFunctionOnSet(weight, R \ {v})
<1>1. CASE ~(Cardinality(R) > 2)
  <2>1. capped = weight
    BY <1>1 DEF CapWeights
  <2> QED
    BY <1>1, <2>1
<1>2. CASE Cardinality(R) > 2
  <2>1. ASSUME NEW v \in R
        PROVE  /\ Others(v) \in Nat
               /\ total = weight[v] + Others(v)
               /\ Others(v) > 1
               /\ \A u \in R \ {v} : Others(v) > weight[u]
               /\ v \in Big <=> weight[v] >= Others(v)
    <3>1. /\ Others(v) \in Nat
          /\ total = weight[v] + Others(v)
          /\ Others(v) > 1
          /\ \A u \in R \ {v} : Others(v) > weight[u]
      BY <1>2, OtherWeights
    <3>2. weight[v] \in Nat
      OBVIOUS
    <3> HIDE DEF total, Others
    <3>3. weight[v] * 2 >= total <=> weight[v] >= Others(v)
      BY <3>1, <3>2
    <3> QED
      BY <3>1, <3>3
  <2>2. capped = [v \in R |-> IF v \in Big THEN total - weight[v] - 1 ELSE weight[v]]
    BY <1>2 DEF CapWeights
  <2> HIDE DEF capped, total, Big, Others
  <2>3. capped \in [R -> Nat \ {0}]
    <3>1. ASSUME NEW v \in R
          PROVE  (IF v \in Big THEN total - weight[v] - 1 ELSE weight[v]) \in Nat \ {0}
      BY <2>1
    <3> QED
      BY <2>2, <3>1
  <2>4. SumFunction(capped) = SumFunctionOnSet(capped, R)
    BY <2>3, SumOverDomain
  <2>5. CASE Big = {}
    <3>1. capped = weight
      BY <2>2, <2>5
    <3>2. ASSUME NEW v \in R
          PROVE  weight[v] < SumFunction(weight) - weight[v]
      <4>1. weight[v] \in Nat
        OBVIOUS
      <4> QED
        BY <2>1, <2>5, <4>1 DEF total
    <3> QED
      BY <2>3, <3>1, <3>2 DEF capped
  <2>6. CASE Big # {}
    <3>1. PICK b \in R : b \in Big
      BY <2>6 DEF Big
    <3>2. ASSUME NEW v \in R, v # b
          PROVE  v \notin Big /\ capped[v] = weight[v]
      <4>1. weight[v] \in Nat /\ weight[b] \in Nat
        OBVIOUS
      <4>2. /\ Others(v) > weight[b] /\ Others(b) > weight[v]
            /\ total = weight[v] + Others(v) /\ total = weight[b] + Others(b)
            /\ Others(v) \in Nat /\ Others(b) \in Nat
            /\ weight[b] >= Others(b)
            /\ v \in Big => weight[v] >= Others(v)
        BY <2>1, <3>1, <3>2
      <4>3. v \notin Big
        BY <4>1, <4>2
      <4> QED
        BY <2>2, <4>3
    <3>3. capped[b] = total - weight[b] - 1
      BY <2>2, <3>1
    <3>4. SumFunction(capped) = total - weight[b] + capped[b]
      <4>1. \A v \in R : weight[v] \in Int /\ capped[v] \in Int
        BY <2>3
      <4>2. SumFunctionOnSet(capped, R) = SumFunctionOnSet(weight, R) - weight[b] + capped[b]
        BY <3>2, <4>1, SumChangesAtOne
      <4>3. total = SumFunctionOnSet(weight, R)
        BY SumOverDomain DEF total
      <4> QED
        BY <2>4, <4>2, <4>3
    <3>5. /\ weight[b] \in Nat /\ Others(b) \in Nat
          /\ total = weight[b] + Others(b)
      BY <2>1
    <3>6. ASSUME NEW v \in R
          PROVE  capped[v] < SumFunction(capped) - capped[v]
      <4>1. CASE v = b
        BY <3>3, <3>4, <3>5, <4>1
      <4>2. CASE v # b
        <5>1. capped[v] = weight[v] /\ weight[v] \in Nat /\ Others(b) > weight[v]
          BY <2>1, <3>2, <4>2
        <5> QED
          BY <3>3, <3>4, <3>5, <5>1
      <4> QED
        BY <4>1, <4>2
    <3> QED
      BY <2>3, <3>6 DEF capped
  <2> QED
    BY <2>5, <2>6
<1> QED
  BY <1>1, <1>2

-----------------------------------------------------------------------------
(* Votes *)

WaitingVoters(flag) == {v \in Voters : flag.state[v] > 0}

\* The votes of an open flag add up, somebody is still to vote, and the weight of
\* each of them is less than the rest.
VotesSound(flag) ==
    /\ flag.state \in [Voters -> Int]
    /\ flag.votesFor \in Int /\ flag.votesAgainst \in Int /\ flag.total \in Int
    /\ flag.phase # "none" =>
         /\ WaitingVoters(flag) # {}
         /\ flag.votesFor + flag.votesAgainst
              + SumFunctionOnSet(flag.state, WaitingVoters(flag)) = flag.total
         /\ Cardinality(ReviewersOf(flag)) > 2 =>
              \A v \in WaitingVoters(flag) : flag.state[v] < flag.total - flag.state[v]

VotesInv == \A t \in Operators : VotesSound(flags[t])

\* The fields of a flag after a vote.
LEMMA CastVoteFields ==
    ASSUME NEW flag, FlagInv(flag), NEW v \in Voters, NEW kick \in BOOLEAN
    PROVE  LET voted == CastVote(flag, v, kick)
           IN  /\ voted.phase = flag.phase
               /\ voted.flagger = flag.flagger
               /\ voted.atRisk = flag.atRisk
               /\ voted.flagStake = flag.flagStake
               /\ voted.flaggerReward = flag.flaggerReward
               /\ voted.reviewerReward = flag.reviewerReward
               /\ voted.total = flag.total
               /\ voted.state = [flag.state EXCEPT
                                   ![v] = IF kick THEN VotedKick ELSE VotedNoKick]
               /\ voted.votesFor = IF kick THEN flag.votesFor + flag.state[v]
                                   ELSE flag.votesFor
               /\ voted.votesAgainst = IF kick THEN flag.votesAgainst
                                       ELSE flag.votesAgainst + flag.state[v]
<1>1. flag \in [phase : {"none", "review", "voting", "ended"},
                flagger : Operators \cup {NoOne},
                atRisk : Nat, flagStake : Nat, flaggerReward : Nat, reviewerReward : Nat,
                state : {flag.state}, votesFor : {flag.votesFor},
                votesAgainst : {flag.votesAgainst}, total : {flag.total}]
  BY DEF FlagInv, FlagType
<1> QED
  BY <1>1 DEF CastVote

LEMMA CastVoteKeepsReviewers ==
    ASSUME NEW flag, FlagInv(flag), NEW v \in Voters, flag.state[v] > 0, NEW kick \in BOOLEAN
    PROVE  ReviewersOf(CastVote(flag, v, kick)) = ReviewersOf(flag)
<1> DEFINE voted == CastVote(flag, v, kick)
           vote == IF kick THEN VotedKick ELSE VotedNoKick
<1>1. voted.state = [flag.state EXCEPT ![v] = vote]
  BY CastVoteFields
<1>2. flag.state[v] # 0 /\ vote # 0
  BY DEF VotedKick, VotedNoKick
<1> HIDE DEF voted, vote
<1>3. \A u \in Voters : voted.state[u] = IF u = v THEN vote ELSE flag.state[u]
  BY <1>1 DEF FlagInv, FlagType
<1>4. ReviewersOf(voted) = ReviewersOf(flag)
  BY <1>2, <1>3 DEF ReviewersOf
<1> QED
  BY <1>4 DEF voted

\* A vote moves a weight from those that wait to those that are cast.
LEMMA CastVoteKeepsVotes ==
    ASSUME NEW flag, FlagInv(flag), VotesSound(flag), flag.phase # "none",
           NEW v \in Voters, flag.state[v] > 0, NEW kick \in BOOLEAN,
           ~AllVoted(CastVote(flag, v, kick))
    PROVE  VotesSound(CastVote(flag, v, kick))
<1> DEFINE voted == CastVote(flag, v, kick)
           vote == IF kick THEN VotedKick ELSE VotedNoKick
           W == WaitingVoters(flag)
           rest == SumFunctionOnSet(flag.state, W \ {v})
<1>1. /\ voted.phase = flag.phase
      /\ voted.total = flag.total
      /\ voted.state = [flag.state EXCEPT ![v] = vote]
      /\ voted.votesFor = IF kick THEN flag.votesFor + flag.state[v] ELSE flag.votesFor
      /\ voted.votesAgainst = IF kick THEN flag.votesAgainst
                              ELSE flag.votesAgainst + flag.state[v]
      /\ ReviewersOf(voted) = ReviewersOf(flag)
      /\ voted.votesFor + voted.votesAgainst # voted.total
  BY CastVoteFields, CastVoteKeepsReviewers DEF AllVoted
<1> HIDE DEF voted
<1>2. /\ flag.state \in [Voters -> Int]
      /\ flag.votesFor \in Int /\ flag.votesAgainst \in Int /\ flag.total \in Int
      /\ flag.votesFor + flag.votesAgainst + SumFunctionOnSet(flag.state, W) = flag.total
      /\ Cardinality(ReviewersOf(flag)) > 2 =>
           \A u \in W : flag.state[u] < flag.total - flag.state[u]
  BY DEF VotesSound
<1>3. vote \in Int /\ ~(vote > 0)
  BY DEF VotedKick, VotedNoKick
<1> HIDE DEF vote
<1>4. /\ voted.state \in [Voters -> Int]
      /\ \A u \in Voters : voted.state[u] = IF u = v THEN vote ELSE flag.state[u]
  BY <1>1, <1>2, <1>3
<1>5. WaitingVoters(voted) = W \ {v} /\ v \in W
  BY <1>3, <1>4 DEF WaitingVoters
<1>6. IsFiniteSet(W) /\ IsFiniteSet(W \ {v}) /\ W \subseteq Voters
  BY VoteKickAssumption, FS_Subset, FS_RemoveElement DEF WaitingVoters
<1> HIDE DEF W
<1>7. SumFunctionOnSet(flag.state, W) = flag.state[v] + rest
  BY <1>2, <1>5, <1>6, SumTakes
<1>8. rest \in Int /\ SumFunctionOnSet(voted.state, W \ {v}) = rest
  BY <1>2, <1>4, <1>6, SumTakes, SumsEqual
<1>9. W \ {v} = {} => rest = 0
  BY SumOfEmptySet
<1> HIDE DEF rest
<1>10. flag.state[v] \in Int
  BY <1>2
<1>11. /\ voted.votesFor \in Int /\ voted.votesAgainst \in Int /\ voted.total \in Int
       /\ voted.votesFor + voted.votesAgainst + rest = voted.total
  BY <1>1, <1>2, <1>7, <1>8, <1>10
<1>12. W \ {v} # {}
  BY <1>1, <1>9, <1>11
<1>13. Cardinality(ReviewersOf(voted)) > 2 =>
         \A u \in W \ {v} : voted.state[u] < voted.total - voted.state[u]
  BY <1>1, <1>2, <1>4, <1>6
<1>14. VotesSound(voted)
  BY <1>4, <1>5, <1>8, <1>11, <1>12, <1>13 DEF VotesSound
<1> QED
  BY <1>14 DEF voted

\* A new flag's votes are sound: nobody has voted, and the weights are capped.
LEMMA NewFlagVotes ==
    ASSUME NEW R \in SUBSET Voters, R # {}, NEW weight \in [R -> Weights],
           NEW flag,
           flag.state = [v \in Voters |-> IF v \in R THEN CapWeights(weight)[v] ELSE 0],
           flag.votesFor = 0, flag.votesAgainst = 0,
           flag.total = SumFunction(CapWeights(weight))
    PROVE  VotesSound(flag) /\ ReviewersOf(flag) = R
<1> DEFINE capped == CapWeights(weight)
<1>1. IsFiniteSet(R) /\ weight \in [R -> Nat \ {0}]
  BY VoteKickAssumption, FS_Subset
<1>2. /\ capped \in [R -> Nat \ {0}]
      /\ Cardinality(R) > 2 => \A v \in R : capped[v] < SumFunction(capped) - capped[v]
  BY <1>1, CapWeightsSound
<1>3. /\ flag.state = [v \in Voters |-> IF v \in R THEN capped[v] ELSE 0]
      /\ flag.total = SumFunction(capped)
  OBVIOUS
<1> HIDE DEF capped
<1>4. /\ flag.state \in [Voters -> Int]
      /\ \A v \in R : flag.state[v] = capped[v] /\ flag.state[v] > 0 /\ flag.state[v] # 0
      /\ \A v \in Voters \ R : ~(flag.state[v] > 0) /\ flag.state[v] = 0
  BY <1>2, <1>3
<1>5. WaitingVoters(flag) = R /\ ReviewersOf(flag) = R
  BY <1>4 DEF WaitingVoters, ReviewersOf
<1>6. flag.total = SumFunctionOnSet(flag.state, R)
  <2>1. \A v \in R : flag.state[v] \in Int /\ capped[v] = flag.state[v]
    BY <1>4
  <2> QED
    BY <1>1, <1>2, <1>3, <2>1, SumWrittenOut
<1>7. flag.total \in Int
  BY <1>1, <1>4, <1>6, SumTakes
<1>8. 0 + 0 + SumFunctionOnSet(flag.state, R) = flag.total
  BY <1>6, <1>7
<1>9. Cardinality(R) > 2 => \A v \in R : flag.state[v] < flag.total - flag.state[v]
  BY <1>2, <1>3, <1>4
<1> QED
  BY <1>4, <1>5, <1>7, <1>8, <1>9 DEF VotesSound

LEMMA VotesStep ==
    ASSUME FlagsInv, VotesInv, NEW t \in Operators, NEW flag, VotesSound(flag),
           flags' = [flags EXCEPT ![t] = flag]
    PROVE  VotesInv'
<1>1. ASSUME NEW u \in Operators
      PROVE  VotesSound(flags'[u])
  BY DEF FlagsInv, VotesInv
<1> QED
  BY <1>1 DEF VotesInv

LEMMA NoFlagVotes == VotesSound(NoFlag)
<1>1. /\ NoFlag.state = [v \in Voters |-> 0]
      /\ NoFlag.phase = "none"
      /\ NoFlag.votesFor = 0 /\ NoFlag.votesAgainst = 0 /\ NoFlag.total = 0
  BY DEF NoFlag
<1> QED
  BY <1>1 DEF VotesSound

\* Votes stay sound in every transaction.
LEMMA VotesNext ==
    ASSUME FlagsInv, VotesInv, [Next]_vars
    PROVE  VotesInv'
<1>1. ASSUME NEW t \in Operators, NEW flag, EndVote(t, flag)
      PROVE  VotesInv'
  BY <1>1, NoFlagVotes, VotesStep DEF EndVote
<1>2. ASSUME NEW f \in Flaggers, NEW t \in Operators, NEW R \in SUBSET Voters,
             NEW weight \in [R -> Weights], Flag(f, t, weight)
      PROVE  VotesInv'
  <2>1. PICK flag : /\ flags' = [flags EXCEPT ![t] = flag]
                    /\ flag.state = [v \in Voters |->
                                       IF v \in R THEN CapWeights(weight)[v] ELSE 0]
                    /\ flag.votesFor = 0 /\ flag.votesAgainst = 0
                    /\ flag.total = SumFunction(CapWeights(weight))
    <3> DEFINE capped == CapWeights(weight)
               flag == [phase |-> "review", flagger |-> f,
                        atRisk |-> StakeAtRisk(config, books.staked[t]),
                        flagStake |-> config.flagStake,
                        flaggerReward |-> config.flaggerReward,
                        reviewerReward |-> config.reviewerReward,
                        state |-> [v \in Voters |-> IF v \in R THEN capped[v] ELSE 0],
                        votesFor |-> 0, votesAgainst |-> 0,
                        total |-> SumFunction(capped)]
    <3>1. DOMAIN weight = R
      OBVIOUS
    <3>2. flags' = [flags EXCEPT ![t] = flag]
      BY <1>2, <3>1 DEF Flag
    <3> HIDE DEF capped
    <3>3. /\ flag.state = [v \in Voters |-> IF v \in R THEN capped[v] ELSE 0]
          /\ flag.votesFor = 0 /\ flag.votesAgainst = 0
          /\ flag.total = SumFunction(capped)
      OBVIOUS
    <3> HIDE DEF flag
    <3> QED
      BY <3>2, <3>3 DEF capped
  <2>2. R # {}
    BY <1>2 DEF Flag
  <2>3. VotesSound(flag)
    BY <2>1, <2>2, NewFlagVotes
  <2> QED
    BY <2>1, <2>3, VotesStep
<1>3. ASSUME NEW t \in Operators, NEW v \in Voters, NEW kick \in BOOLEAN, Vote(t, v, kick)
      PROVE  VotesInv'
  <2> DEFINE voted == CastVote(flags[t], v, kick)
  <2>1. /\ flags[t].phase # "none"
        /\ flags[t].state[v] > 0
        /\ FlagInv(flags[t]) /\ VotesSound(flags[t])
        /\ \/ EndVote(t, voted)
           \/ ~AllVoted(voted) /\ flags' = [flags EXCEPT ![t] = voted]
    BY <1>3 DEF Vote, FlagsInv, VotesInv
  <2>2. ASSUME ~AllVoted(voted), flags' = [flags EXCEPT ![t] = voted]
        PROVE  VotesInv'
    <3>1. VotesSound(voted)
      BY <2>1, <2>2, CastVoteKeepsVotes
    <3> HIDE DEF voted
    <3> QED
      BY <2>2, <3>1, VotesStep
  <2> QED
    BY <1>1, <2>1, <2>2
<1>4. ASSUME NEW t \in Operators, PhaseEnds(t)
      PROVE  VotesInv'
  <2> DEFINE next == IF flags[t].phase = "review" THEN "voting" ELSE "ended"
             flag == [flags[t] EXCEPT !.phase = next]
  <2>1. /\ flags' = [flags EXCEPT ![t] = flag]
        /\ flags[t].phase # "none"
        /\ FlagInv(flags[t]) /\ VotesSound(flags[t])
    BY <1>4 DEF PhaseEnds, FlagsInv, VotesInv
  <2>2. /\ flag.state = flags[t].state /\ flag.total = flags[t].total
        /\ flag.votesFor = flags[t].votesFor /\ flag.votesAgainst = flags[t].votesAgainst
    BY <2>1 DEF FlagInv, FlagType
  <2> HIDE DEF flag
  <2>3. VotesSound(flag)
    BY <2>1, <2>2 DEF VotesSound, WaitingVoters, ReviewersOf
  <2> QED
    BY <2>1, <2>3, VotesStep
<1>5. ASSUME NEW t \in Operators, EndVotingPeriod(t)
      PROVE  VotesInv'
  BY <1>1, <1>5 DEF EndVotingPeriod
<1>6. ASSUME UNCHANGED flags
      PROVE  VotesInv'
  BY <1>6 DEF VotesInv
<1>7. CASE Next
  BY <1>2, <1>3, <1>4, <1>5, <1>6, <1>7
     DEF Next, PlainTransfer, Sponsor, Stake, ReduceStakeTo, Withdraw, Unstake,
         ForceUnstake, FlagKicks, ProtectionEnds, ChangeConfig
<1> QED
  BY <1>6, <1>7 DEF vars

LEMMA VotesInvariance == Spec => []VotesInv
<1>1. Init => VotesInv
  BY NoFlagVotes DEF Init, VotesInv
<1>2. IInv /\ VotesInv /\ [Next]_vars => VotesInv'
  BY VotesNext DEF IInv
<1> QED
  BY <1>1, <1>2, Invariance, PTL DEF Spec

\* The votes cast and the weights still to vote add up to the total weight of a
\* flag, and an open flag is waiting for somebody (onVote of VoteKickPolicy).
THEOREM VotesAlwaysAddUp == Spec => []VotesAddUp
<1>1. VotesInv => VotesAddUp
  <2> SUFFICES ASSUME VotesInv, NEW t \in OpenFlags
               PROVE  LET waiting == {v \in Voters : flags[t].state[v] > 0}
                      IN  /\ flags[t].votesFor + flags[t].votesAgainst
                               + SumFunction([v \in waiting |-> flags[t].state[v]])
                               = flags[t].total
                          /\ waiting # {}
    BY DEF VotesAddUp
  <2> DEFINE W == WaitingVoters(flags[t])
  <2>1. VotesSound(flags[t]) /\ flags[t].phase # "none"
    BY DEF OpenFlags, Open, VotesInv
  <2>2. IsFiniteSet(W) /\ \A v \in W : flags[t].state[v] \in Int
    BY <2>1, VoteKickAssumption, FS_Subset DEF WaitingVoters, VotesSound
  <2>3. SumFunction([v \in W |-> flags[t].state[v]]) = SumFunctionOnSet(flags[t].state, W)
    BY <2>2, SumWrittenOut
  <2> QED
    BY <2>1, <2>3 DEF VotesSound, WaitingVoters
<1> QED
  BY <1>1, VotesInvariance, PTL

\* No voter among more than two decides the vote alone, whatever the weights: what
\* the comment at VoteKickPolicy.sol:166 promises of the cap.
THEOREM NoVoterEverDecidesAlone == Spec => []NoVoterDecidesAlone
<1>1. VotesInv => NoVoterDecidesAlone
  BY DEF VotesInv, VotesSound, NoVoterDecidesAlone, OpenFlags, Open, WaitingVoters
<1> QED
  BY <1>1, VotesInvariance, PTL

-----------------------------------------------------------------------------
(* What the functions of the Sponsorship do to each account *)

LEMMA ReduceStakeByFields ==
    ASSUME NEW b \in Books, NEW o \in Operators, NEW amount \in Nat, Covered(b)
    PROVE  LET c == ReduceStakeBy(b, o, amount)
               taken == Reduction(b, o, amount)
           IN  /\ c.staked = [b.staked EXCEPT ![o] = b.staked[o] - taken]
               /\ c.locked = b.locked
               /\ c.joined = b.joined
               /\ c.operatorCount = b.operatorCount
               /\ c.totalStaked = b.totalStaked - taken
               /\ c.forfeited = b.forfeited
               /\ c.pool = b.pool
<1> DEFINE taken == Reduction(b, o, amount)
           c == ReduceStakeBy(b, o, amount)
           less == [b.staked EXCEPT ![o] = b.staked[o] - taken]
<1>1. c = [b EXCEPT !.staked = less, !.totalStaked = b.totalStaked - taken]
  BY DEF ReduceStakeBy, Books
<1> HIDE DEF c, taken, less
<1>2. /\ c.staked = less
      /\ c.locked = b.locked
      /\ c.joined = b.joined
      /\ c.operatorCount = b.operatorCount
      /\ c.totalStaked = b.totalStaked - taken
      /\ c.forfeited = b.forfeited
      /\ c.pool = b.pool
  BY <1>1 DEF Books
<1> QED
  BY <1>2 DEF c, taken, less

LEMMA RemoveOperatorFields ==
    ASSUME NEW b \in Books, NEW o \in Operators, NEW terms \in LeaveTerms, Covered(b)
    PROVE  LET c == RemoveOperator(b, o, terms)
           IN  /\ c.staked = [b.staked EXCEPT ![o] = 0]
               /\ c.locked = [b.locked EXCEPT ![o] = 0]
               /\ c.joined = b.joined \ {o}
               /\ c.operatorCount = b.operatorCount - 1
               /\ c.totalStaked = b.totalStaked - b.staked[o]
               /\ c.forfeited = b.forfeited + b.locked[o]
               /\ c.pool \in {b.pool, b.pool - terms.earnings}
<1> DEFINE c == RemoveOperator(b, o, terms)
           noStake == [b.staked EXCEPT ![o] = 0]
           noLock == [b.locked EXCEPT ![o] = 0]
<1>1. \E earnings \in {0, terms.earnings} : \E balance :
        c = [b EXCEPT !.staked = noStake,
                      !.locked = noLock,
                      !.joined = b.joined \ {o},
                      !.operatorCount = b.operatorCount - 1,
                      !.totalStaked = b.totalStaked - b.staked[o],
                      !.forfeited = b.forfeited + Forfeits(b, o),
                      !.pool = b.pool - earnings,
                      !.balance = balance]
  <2> DEFINE penalty == Smaller(terms.penalty, b.staked[o] - Forfeits(b, o))
             stake == b.staked[o] - Forfeits(b, o) - penalty
             earnings == IF stake = 0 THEN 0 ELSE terms.earnings
             punished == b.balance - penalty
             withdrawn == punished - Sent(earnings, punished, terms.takesEarnings)
             balance == withdrawn - Sent(stake, withdrawn, terms.takesStake)
  <2>1. c = [b EXCEPT !.staked = noStake,
                      !.locked = noLock,
                      !.joined = b.joined \ {o},
                      !.operatorCount = b.operatorCount - 1,
                      !.totalStaked = b.totalStaked - b.staked[o],
                      !.forfeited = b.forfeited + Forfeits(b, o),
                      !.pool = b.pool - earnings,
                      !.balance = balance]
    BY DEF RemoveOperator, Books
  <2>2. earnings \in {0, terms.earnings}
    OBVIOUS
  <2> HIDE DEF c, earnings, balance
  <2> QED
    BY <2>1, <2>2
<1>2. PICK earnings \in {0, terms.earnings} : \E balance :
        c = [b EXCEPT !.staked = noStake,
                      !.locked = noLock,
                      !.joined = b.joined \ {o},
                      !.operatorCount = b.operatorCount - 1,
                      !.totalStaked = b.totalStaked - b.staked[o],
                      !.forfeited = b.forfeited + Forfeits(b, o),
                      !.pool = b.pool - earnings,
                      !.balance = balance]
  BY <1>1
<1>3. Forfeits(b, o) = b.locked[o]
  BY BooksTypes DEF Forfeits, Smaller, Covered
<1>4. b.pool - earnings \in {b.pool, b.pool - terms.earnings}
  BY <1>2, BooksTypes
<1> HIDE DEF c, noStake, noLock
<1>5. /\ c.staked = noStake
      /\ c.locked = noLock
      /\ c.joined = b.joined \ {o}
      /\ c.operatorCount = b.operatorCount - 1
      /\ c.totalStaked = b.totalStaked - b.staked[o]
      /\ c.forfeited = b.forfeited + b.locked[o]
      /\ c.pool = b.pool - earnings
  BY <1>2, <1>3 DEF Books
<1> QED
  BY <1>4, <1>5 DEF c, noStake, noLock

LEMMA UnlockFields ==
    ASSUME NEW b \in Books, NEW o \in Operators, NEW amount \in Nat
    PROVE  LET c == Unlock(b, o, amount)
               lock == IF b.locked[o] >= amount THEN b.locked[o] - amount ELSE 0
           IN  /\ c.staked = b.staked
               /\ c.locked = [b.locked EXCEPT ![o] = lock]
               /\ c.joined = b.joined
               /\ c.operatorCount = b.operatorCount
               /\ c.totalStaked = b.totalStaked
               /\ c.forfeited = b.forfeited - (amount - (b.locked[o] - lock))
               /\ c.pool = b.pool
<1> DEFINE c == Unlock(b, o, amount)
           lock == IF b.locked[o] >= amount THEN b.locked[o] - amount ELSE 0
           locked == [b.locked EXCEPT ![o] = lock]
           forfeited == IF b.locked[o] >= amount THEN b.forfeited
                        ELSE b.forfeited - (amount - b.locked[o])
<1>1. c = [b EXCEPT !.locked = locked, !.forfeited = forfeited]
  <2>1. CASE b.locked[o] >= amount
    <3>1. c = [b EXCEPT !.locked = locked]
      BY <2>1 DEF Unlock
    <3>2. b.forfeited = forfeited
      BY <2>1
    <3> QED
      BY <3>1, <3>2 DEF Books
  <2>2. CASE ~(b.locked[o] >= amount)
    BY <2>2 DEF Unlock
  <2> QED
    BY <2>1, <2>2
<1>2. forfeited = b.forfeited - (amount - (b.locked[o] - lock))
  BY BooksTypes
<1> HIDE DEF c, locked, forfeited
<1>3. /\ c.staked = b.staked
      /\ c.locked = locked
      /\ c.joined = b.joined
      /\ c.operatorCount = b.operatorCount
      /\ c.totalStaked = b.totalStaked
      /\ c.forfeited = forfeited
      /\ c.pool = b.pool
  BY <1>1 DEF Books
<1> QED
  BY <1>2, <1>3 DEF c, locked

-----------------------------------------------------------------------------
(* The redundant totals *)

\* The totals agree, but for whether o is joined.
AgreeExcept(b, o) ==
    /\ \A p \in Operators \ {o} : p \in b.joined <=> b.staked[p] > 0
    /\ b.operatorCount = Cardinality(b.joined)
    /\ b.totalStaked = SumFunction(b.staked)

Agree(b) ==
    /\ \A p \in Operators : p \in b.joined <=> b.staked[p] > 0
    /\ b.operatorCount = Cardinality(b.joined)
    /\ b.totalStaked = SumFunction(b.staked)

\* Changing one operator's stake changes the total as much.
LEMMA TotalChange ==
    ASSUME NEW staked \in [Operators -> Nat], NEW o \in Operators, NEW stake \in Nat
    PROVE  /\ SumFunction(staked) \in Nat
           /\ SumFunction([staked EXCEPT ![o] = stake])
                = SumFunction(staked) - staked[o] + stake
<1> DEFINE new == [staked EXCEPT ![o] = stake]
<1>1. IsFiniteSet(Operators)
  BY VoteKickAssumption
<1>2. new \in [Operators -> Nat] /\ new[o] = stake
  OBVIOUS
<1>3. /\ \A p \in Operators : staked[p] \in Int /\ new[p] \in Int
      /\ \A p \in Operators \ {o} : new[p] = staked[p]
  OBVIOUS
<1> HIDE DEF new
<1>4. SumFunctionOnSet(new, Operators)
        = SumFunctionOnSet(staked, Operators) - staked[o] + new[o]
  BY <1>1, <1>3, SumChangesAtOne
<1>5. /\ SumFunction(new) = SumFunctionOnSet(new, Operators)
      /\ SumFunction(staked) = SumFunctionOnSet(staked, Operators)
  BY <1>2, SumOverDomain
<1>6. SumFunctionOnSet(staked, Operators) \in Nat
  BY <1>1, SumOfNaturals
<1> QED
  BY <1>2, <1>4, <1>5, <1>6 DEF new

LEMMA ReduceStakeByAgrees ==
    ASSUME NEW b \in Books, NEW o \in Operators, NEW amount \in Nat, Covered(b),
           AgreeExcept(b, o)
    PROVE  AgreeExcept(ReduceStakeBy(b, o, amount), o)
<1> DEFINE c == ReduceStakeBy(b, o, amount)
           taken == Reduction(b, o, amount)
<1>1. /\ c.staked = [b.staked EXCEPT ![o] = b.staked[o] - taken]
      /\ c.joined = b.joined
      /\ c.operatorCount = b.operatorCount
      /\ c.totalStaked = b.totalStaked - taken
  BY ReduceStakeByFields
<1>2. /\ taken \in Nat /\ taken <= b.staked[o] - b.locked[o]
      /\ b.staked \in [Operators -> Nat] /\ b.locked[o] \in Nat
  BY ReductionBounds DEF Books
<1> HIDE DEF c, taken
<1>3. b.staked[o] - taken \in Nat /\ b.staked[o] \in Nat
  BY <1>2
<1>4. c.totalStaked = SumFunction(c.staked)
  <2> DEFINE stake == b.staked[o] - taken
  <2>1. /\ SumFunction(b.staked) \in Nat
        /\ SumFunction([b.staked EXCEPT ![o] = stake])
             = SumFunction(b.staked) - b.staked[o] + stake
    BY <1>2, <1>3, TotalChange
  <2>2. b.totalStaked = SumFunction(b.staked)
    BY DEF AgreeExcept
  <2> QED
    BY <1>1, <1>2, <1>3, <2>1, <2>2
<1>5. AgreeExcept(c, o)
  BY <1>1, <1>2, <1>4 DEF AgreeExcept
<1> QED
  BY <1>5 DEF c

\* A reduction that leaves some stake keeps the operator joined.
LEMMA ReduceStakeByKeepsJoined ==
    ASSUME NEW b \in Books, NEW o \in Operators, NEW amount \in Nat, Covered(b), Agree(b),
           amount < b.staked[o] \/ b.staked[o] = 0 \/ amount = 0
    PROVE  Agree(ReduceStakeBy(b, o, amount))
<1> DEFINE c == ReduceStakeBy(b, o, amount)
           taken == Reduction(b, o, amount)
<1>1. AgreeExcept(c, o)
  BY ReduceStakeByAgrees DEF Agree, AgreeExcept
<1>2. c.staked[o] = b.staked[o] - taken /\ c.joined = b.joined
  <2>1. /\ c.staked = [b.staked EXCEPT ![o] = b.staked[o] - taken]
        /\ c.joined = b.joined
    BY ReduceStakeByFields
  <2>2. b.staked \in [Operators -> Nat]
    BY DEF Books
  <2> HIDE DEF c, taken
  <2> QED
    BY <2>1, <2>2
<1>3. /\ taken \in Nat /\ taken <= amount /\ taken <= b.staked[o] - b.locked[o]
      /\ b.staked[o] \in Nat /\ b.locked[o] \in Nat
  BY ReductionBounds, BooksTypes
<1> HIDE DEF c, taken
<1>4. c.staked[o] > 0 <=> b.staked[o] > 0
  BY <1>2, <1>3
<1>5. Agree(c)
  BY <1>1, <1>2, <1>4 DEF Agree, AgreeExcept
<1> QED
  BY <1>5 DEF c

LEMMA RemoveOperatorAgrees ==
    ASSUME NEW b \in Books, NEW o \in Operators, NEW terms \in LeaveTerms, Covered(b),
           o \in b.joined, AgreeExcept(b, o)
    PROVE  Agree(RemoveOperator(b, o, terms))
<1> DEFINE c == RemoveOperator(b, o, terms)
<1>1. /\ c.staked = [b.staked EXCEPT ![o] = 0]
      /\ c.joined = b.joined \ {o}
      /\ c.operatorCount = b.operatorCount - 1
      /\ c.totalStaked = b.totalStaked - b.staked[o]
  <2>1. /\ c.staked = [b.staked EXCEPT ![o] = 0]
        /\ c.locked = [b.locked EXCEPT ![o] = 0]
        /\ c.joined = b.joined \ {o}
        /\ c.operatorCount = b.operatorCount - 1
        /\ c.totalStaked = b.totalStaked - b.staked[o]
        /\ c.forfeited = b.forfeited + b.locked[o]
        /\ c.pool \in {b.pool, b.pool - terms.earnings}
    BY RemoveOperatorFields
  <2> QED
    BY <2>1
<1> HIDE DEF c
<1>2. b.staked \in [Operators -> Nat] /\ b.joined \subseteq Operators
  BY DEF Books
<1>3. Cardinality(b.joined \ {o}) = Cardinality(b.joined) - 1
  BY <1>2, VoteKickAssumption, FS_Subset, FS_RemoveElement
<1>4. c.totalStaked = SumFunction(c.staked)
  BY <1>1, <1>2, TotalChange DEF AgreeExcept
<1>5. Agree(c)
  BY <1>1, <1>2, <1>3, <1>4 DEF Agree, AgreeExcept
<1> QED
  BY <1>5 DEF c

\* What only unlocks, or moves tokens, leaves them as they are.
LEMMA SameStakesAgree ==
    ASSUME NEW b, NEW c, c.staked = b.staked, c.joined = b.joined,
           c.operatorCount = b.operatorCount, c.totalStaked = b.totalStaked, Agree(b)
    PROVE  Agree(c)
  BY DEF Agree

LEMMA KickAgrees ==
    ASSUME NEW b \in Books, NEW o \in Operators, NEW slashing \in Nat,
           NEW terms \in LeaveTerms, Covered(b), Agree(b), o \in b.joined
    PROVE  Agree(Kick(b, o, slashing, terms))
<1> DEFINE slashed == ReduceStakeBy(b, o, slashing)
<1>1. /\ slashed \in Books /\ Covered(slashed)
      /\ slashed.joined = b.joined
      /\ AgreeExcept(slashed, o)
  BY ReduceStakeByEffect, ReduceStakeByAgrees DEF Agree, AgreeExcept
<1> HIDE DEF slashed
<1>2. Agree(RemoveOperator(slashed, o, terms))
  BY <1>1, RemoveOperatorAgrees
<1> QED
  BY <1>2 DEF Kick, slashed

-----------------------------------------------------------------------------
(* Locks and what is due *)

\* Locked and forfeited stake are together what is due, and no lock is more.
Match(b, due) ==
    /\ due \in [Operators -> Nat]
    /\ \A o \in Operators : b.locked[o] <= due[o]
    /\ SumFunction(b.locked) + b.forfeited = SumFunction(due)

LEMMA SameLocksMatch ==
    ASSUME NEW b, NEW c, NEW due, c.locked = b.locked, c.forfeited = b.forfeited,
           Match(b, due)
    PROVE  Match(c, due)
  BY DEF Match

\* Forfeited stake is what the locks fall short of, so there is never a debt.
LEMMA MatchedForfeits ==
    ASSUME NEW b \in Books, NEW due, Match(b, due)
    PROVE  b.forfeited >= 0
<1>1. /\ b.locked \in [Operators -> Nat]
      /\ due \in [Operators -> Nat]
      /\ b.forfeited \in Int
      /\ \A o \in Operators : b.locked[o] <= due[o]
      /\ SumFunction(b.locked) + b.forfeited = SumFunction(due)
      /\ IsFiniteSet(Operators)
  BY VoteKickAssumption DEF Books, Match
<1>2. /\ SumFunction(b.locked) = SumFunctionOnSet(b.locked, Operators)
      /\ SumFunction(due) = SumFunctionOnSet(due, Operators)
  BY <1>1, SumOverDomain
<1>3. SumFunctionOnSet(b.locked, Operators) <= SumFunctionOnSet(due, Operators)
  BY <1>1, SumsCompare
<1>4. /\ SumFunctionOnSet(b.locked, Operators) \in Nat
      /\ SumFunctionOnSet(due, Operators) \in Nat
  BY <1>1, SumOfNaturals
<1> QED
  BY <1>1, <1>2, <1>3, <1>4

\* Unlocking lowers locks and forfeited stake by the amount that is due.
LEMMA UnlockMatches ==
    ASSUME NEW b \in Books, NEW o \in Operators, NEW amount \in Nat, NEW due,
           Match(b, due), amount <= due[o]
    PROVE  Match(Unlock(b, o, amount), [due EXCEPT ![o] = due[o] - amount])
<1> DEFINE c == Unlock(b, o, amount)
           lock == IF b.locked[o] >= amount THEN b.locked[o] - amount ELSE 0
           left == due[o] - amount
           less == [due EXCEPT ![o] = left]
<1>1. /\ c.locked = [b.locked EXCEPT ![o] = lock]
      /\ c.forfeited = b.forfeited - (amount - (b.locked[o] - lock))
  BY UnlockFields
<1>2. /\ b.locked \in [Operators -> Nat] /\ b.locked[o] \in Nat /\ b.forfeited \in Int
      /\ due \in [Operators -> Nat] /\ due[o] \in Nat
      /\ b.locked[o] <= due[o]
      /\ SumFunction(b.locked) + b.forfeited = SumFunction(due)
  BY DEF Books, Match
<1>3. lock \in Nat /\ left \in Nat /\ lock <= left /\ left = due[o] - amount
  BY <1>2
<1> HIDE DEF c, lock, left
<1>4. /\ SumFunction(b.locked) \in Nat
      /\ SumFunction(c.locked) = SumFunction(b.locked) - b.locked[o] + lock
  BY <1>1, <1>2, <1>3, TotalChange
<1>5. /\ SumFunction(due) \in Nat
      /\ SumFunction(less) = SumFunction(due) - due[o] + left
  BY <1>2, <1>3, TotalChange
<1>6. /\ less \in [Operators -> Nat]
      /\ \A p \in Operators : c.locked[p] <= less[p]
  BY <1>1, <1>2, <1>3 DEF Match
<1> HIDE DEF less
<1>7. SumFunction(c.locked) + c.forfeited = SumFunction(less)
  BY <1>1, <1>2, <1>3, <1>4, <1>5
<1>8. Match(c, less)
  BY <1>6, <1>7 DEF Match
<1> QED
  BY <1>8 DEF c, less, left

LEMMA RemoveOperatorMatches ==
    ASSUME NEW b \in Books, NEW o \in Operators, NEW terms \in LeaveTerms, Covered(b),
           NEW due, Match(b, due)
    PROVE  Match(RemoveOperator(b, o, terms), due)
<1> DEFINE c == RemoveOperator(b, o, terms)
<1>1. /\ c.staked = [b.staked EXCEPT ![o] = 0]
      /\ c.locked = [b.locked EXCEPT ![o] = 0]
      /\ c.joined = b.joined \ {o}
      /\ c.operatorCount = b.operatorCount - 1
      /\ c.totalStaked = b.totalStaked - b.staked[o]
      /\ c.forfeited = b.forfeited + b.locked[o]
      /\ c.pool \in {b.pool, b.pool - terms.earnings}
  BY RemoveOperatorFields
<1> HIDE DEF c
<1>2. /\ b.locked \in [Operators -> Nat] /\ b.locked[o] \in Nat /\ b.forfeited \in Int
      /\ due \in [Operators -> Nat]
      /\ SumFunction(b.locked) + b.forfeited = SumFunction(due)
      /\ \A p \in Operators : b.locked[p] <= due[p]
  BY DEF Books, Match
<1>3. /\ SumFunction(b.locked) \in Nat
      /\ SumFunction(c.locked) = SumFunction(b.locked) - b.locked[o] + 0
  BY <1>1, <1>2, TotalChange
<1>4. SumFunction(c.locked) + c.forfeited = SumFunction(due)
  BY <1>1, <1>2, <1>3
<1>5. \A p \in Operators : c.locked[p] <= due[p]
  BY <1>1, <1>2
<1>6. Match(c, due)
  BY <1>2, <1>4, <1>5 DEF Match
<1> QED
  BY <1>6 DEF c

LEMMA KickMatches ==
    ASSUME NEW b \in Books, NEW o \in Operators, NEW slashing \in Nat,
           NEW terms \in LeaveTerms, Covered(b), NEW due, Match(b, due)
    PROVE  Match(Kick(b, o, slashing, terms), due)
<1> DEFINE slashed == ReduceStakeBy(b, o, slashing)
<1>1. /\ slashed \in Books /\ Covered(slashed)
      /\ slashed.locked = b.locked /\ slashed.forfeited = b.forfeited
  BY ReduceStakeByEffect
<1> HIDE DEF slashed
<1>2. Match(slashed, due)
  BY <1>1, SameLocksMatch
<1>3. Match(RemoveOperator(slashed, o, terms), due)
  BY <1>1, <1>2, RemoveOperatorMatches
<1> QED
  BY <1>3 DEF Kick, slashed

-----------------------------------------------------------------------------
(* Settling a flag *)

Same(b, c, o) == c.staked[o] = b.staked[o] /\ c.locked[o] = b.locked[o]

\* What slashing the target changes, whether it still has its lock or not.
LEMMA SlashTargetSettles ==
    ASSUME NEW b \in Books, NEW t \in Operators, NEW flag, flag.atRisk \in Nat,
           NEW terms \in LeaveTerms, Covered(b),
           NEW due, Match(b, due), flag.atRisk <= due[t],
           b.locked[t] >= flag.atRisk => t \in b.joined
    PROVE  LET c == SlashTarget(b, t, flag, terms)
           IN  /\ c \in Books
               /\ Covered(c)
               /\ Agree(b) => Agree(c)
               /\ Match(c, [due EXCEPT ![t] = due[t] - flag.atRisk])
               /\ \A o \in Operators \ {t} : Same(b, c, o)
               /\ c.staked[t] = IF b.locked[t] >= flag.atRisk THEN 0 ELSE b.staked[t]
               /\ Remnant(b, t, flag.atRisk) <= c.staked[t]
               /\ c.pool \in {b.pool, b.pool - terms.earnings}
<1> DEFINE c == SlashTarget(b, t, flag, terms)
           unlocked == Unlock(b, t, flag.atRisk)
           lock == IF b.locked[t] >= flag.atRisk THEN b.locked[t] - flag.atRisk ELSE 0
           less == [due EXCEPT ![t] = due[t] - flag.atRisk]
<1>1. c \in Books /\ Covered(c)
  BY SlashTargetEffect
<1>2. unlocked \in Books /\ Covered(unlocked)
  BY UnlockEffect
<1>3. /\ unlocked.staked = b.staked
      /\ unlocked.locked = [b.locked EXCEPT ![t] = lock]
      /\ unlocked.joined = b.joined
      /\ unlocked.operatorCount = b.operatorCount
      /\ unlocked.totalStaked = b.totalStaked
      /\ unlocked.forfeited = b.forfeited - (flag.atRisk - (b.locked[t] - lock))
      /\ unlocked.pool = b.pool
  BY UnlockFields
<1>4. Match(unlocked, less)
  BY UnlockMatches
<1>5. /\ b.staked \in [Operators -> Nat] /\ b.locked \in [Operators -> Nat]
      /\ b.staked[t] \in Nat /\ b.locked[t] \in Nat /\ b.locked[t] <= b.staked[t]
  BY DEF Books, Covered
<1>6. c = IF b.locked[t] >= flag.atRisk THEN Kick(unlocked, t, flag.atRisk, terms)
          ELSE unlocked
  BY DEF SlashTarget
<1>7. Agree(b) => Agree(unlocked)
  BY <1>3, SameStakesAgree
<1> HIDE DEF c, unlocked, lock, less
<1>8. \A o \in Operators \ {t} : Same(b, unlocked, o)
  BY <1>3, <1>5 DEF Same
<1>9. CASE b.locked[t] >= flag.atRisk
  <2> DEFINE slashed == ReduceStakeBy(unlocked, t, flag.atRisk)
             taken == Reduction(unlocked, t, flag.atRisk)
             removed == RemoveOperator(slashed, t, terms)
  <2>1. /\ slashed \in Books /\ Covered(slashed)
        /\ slashed.locked = unlocked.locked
    BY <1>2, ReduceStakeByEffect
  <2>2. /\ slashed.staked = [unlocked.staked EXCEPT ![t] = unlocked.staked[t] - taken]
        /\ slashed.locked = unlocked.locked
        /\ slashed.joined = unlocked.joined
        /\ slashed.operatorCount = unlocked.operatorCount
        /\ slashed.totalStaked = unlocked.totalStaked - taken
        /\ slashed.forfeited = unlocked.forfeited
        /\ slashed.pool = unlocked.pool
    BY <1>2, ReduceStakeByFields
  <2>3. c = removed
    BY <1>6, <1>9 DEF Kick
  <2>4. /\ Agree(b) => Agree(c)
        /\ Match(c, less)
    BY <1>2, <1>3, <1>4, <1>6, <1>7, <1>9, KickAgrees, KickMatches
  <2> HIDE DEF slashed, taken
  <2>5. /\ removed.staked = [slashed.staked EXCEPT ![t] = 0]
        /\ removed.locked = [slashed.locked EXCEPT ![t] = 0]
        /\ removed.joined = slashed.joined \ {t}
        /\ removed.operatorCount = slashed.operatorCount - 1
        /\ removed.totalStaked = slashed.totalStaked - slashed.staked[t]
        /\ removed.forfeited = slashed.forfeited + slashed.locked[t]
        /\ removed.pool \in {slashed.pool, slashed.pool - terms.earnings}
    BY <2>1, RemoveOperatorFields
  <2> HIDE DEF removed
  <2>6. /\ slashed.staked \in [Operators -> Nat] /\ slashed.locked \in [Operators -> Nat]
        /\ unlocked.staked \in [Operators -> Nat]
    BY <1>2, <2>1 DEF Books
  <2>7. c.staked[t] = 0
    BY <2>3, <2>5, <2>6
  <2>8. \A o \in Operators \ {t} : Same(unlocked, c, o)
    BY <2>2, <2>3, <2>5, <2>6 DEF Same
  <2>9. Remnant(b, t, flag.atRisk) = 0
    BY <1>9 DEF Remnant
  <2>10. \A o \in Operators \ {t} : Same(b, c, o)
    BY <1>8, <2>8 DEF Same
  <2>11. c.pool \in {b.pool, b.pool - terms.earnings}
    BY <1>3, <2>2, <2>3, <2>5
  <2> QED
    BY <1>1, <1>9, <2>4, <2>7, <2>9, <2>10, <2>11 DEF c, less
<1>10. CASE ~(b.locked[t] >= flag.atRisk)
  <2>1. c = unlocked
    BY <1>6, <1>10
  <2>2. Remnant(b, t, flag.atRisk) = b.locked[t]
    BY <1>10 DEF Remnant
  <2> QED
    BY <1>1, <1>3, <1>4, <1>5, <1>7, <1>8, <1>10, <2>1, <2>2 DEF c, less
<1> QED
  BY <1>9, <1>10

\* What is due when the flag is over.
DueAfter(due, t, flag) ==
    [[due EXCEPT ![t] = due[t] - flag.atRisk]
       EXCEPT ![flag.flagger] = due[flag.flagger] - flag.flagStake]

\* What a settlement may do, to the accounts b, with the flag on t: the totals
\* agree and the locks match again, only the two parties are touched, and there
\* is stake left for what is counted as paid twice.
SettlesFlag(b, t, flag, terms, due, s) ==
    LET f == flag.flagger
    IN  /\ Agree(b) => Agree(s.books)
        /\ Match(s.books, DueAfter(due, t, flag))
        /\ \A o \in Operators \ {t, f} : Same(b, s.books, o)
        /\ s.books.staked[t] \in {0, b.staked[t]}
        /\ b.locked[t] < flag.atRisk => s.books.staked[t] = b.staked[t]
        /\ s.books.staked[f] + flag.flagStake >= b.staked[f]
        /\ s.doublePaid <= s.books.staked[t] + s.books.staked[f]
        /\ s.books.pool \in {b.pool, b.pool - terms.earnings}

LEMMA HandleKickSettles ==
    ASSUME NEW b \in Books, NEW t \in Operators, NEW flag, NEW terms \in LeaveTerms,
           NEW paid, Covered(b), NEW due, Match(b, due),
           flag.atRisk \in Nat, flag.flagStake \in Nat,
           flag.flagger \in Operators, flag.flagger # t,
           flag.atRisk <= due[t], flag.flagStake <= due[flag.flagger],
           b.locked[t] >= flag.atRisk => t \in b.joined
    PROVE  SettlesFlag(b, t, flag, terms, due, HandleKick(b, t, flag, terms, paid))
<1> DEFINE slashed == SlashTarget(b, t, flag, terms)
           f == flag.flagger
           lock == IF slashed.locked[f] >= flag.flagStake
                   THEN slashed.locked[f] - flag.flagStake ELSE 0
           unlocked == Unlock(slashed, f, flag.flagStake)
           less == [due EXCEPT ![t] = due[t] - flag.atRisk]
           s == HandleKick(b, t, flag, terms, paid)
           c == s.books
<1>1. /\ slashed \in Books
      /\ Covered(slashed)
      /\ Agree(b) => Agree(slashed)
      /\ Match(slashed, less)
      /\ \A o \in Operators \ {t} : Same(b, slashed, o)
      /\ slashed.staked[t] = IF b.locked[t] >= flag.atRisk THEN 0 ELSE b.staked[t]
      /\ Remnant(b, t, flag.atRisk) <= slashed.staked[t]
      /\ slashed.pool \in {b.pool, b.pool - terms.earnings}
  BY SlashTargetSettles
<1>2. s.doublePaid = Remnant(b, t, flag.atRisk) + Remnant(slashed, f, flag.flagStake)
  BY DEF HandleKick
<1>3. \E balance : c = [unlocked EXCEPT !.balance = balance]
  BY DEF HandleKick
<1> HIDE DEF slashed, s
<1>4. unlocked \in Books /\ Covered(unlocked)
  BY <1>1, UnlockEffect
<1>5. /\ unlocked.staked = slashed.staked
      /\ unlocked.locked = [slashed.locked EXCEPT ![f] = lock]
      /\ unlocked.joined = slashed.joined
      /\ unlocked.operatorCount = slashed.operatorCount
      /\ unlocked.totalStaked = slashed.totalStaked
      /\ unlocked.forfeited = slashed.forfeited - (flag.flagStake - (slashed.locked[f] - lock))
      /\ unlocked.pool = slashed.pool
  BY <1>1, UnlockFields
<1>6. less[f] = due[f] /\ flag.flagStake <= less[f]
  BY DEF Match
<1>7. Match(unlocked, [less EXCEPT ![f] = less[f] - flag.flagStake])
  BY <1>1, <1>6, UnlockMatches
<1> HIDE DEF unlocked, lock
<1>8. /\ c.staked = unlocked.staked /\ c.locked = unlocked.locked
      /\ c.joined = unlocked.joined /\ c.operatorCount = unlocked.operatorCount
      /\ c.totalStaked = unlocked.totalStaked /\ c.forfeited = unlocked.forfeited
      /\ c.pool = unlocked.pool
  BY <1>3, <1>4 DEF Books
<1> HIDE DEF c
<1>9. Agree(b) => Agree(c)
  BY <1>1, <1>5, <1>8, SameStakesAgree
<1>10. Match(c, DueAfter(due, t, flag))
  BY <1>6, <1>7, <1>8, SameLocksMatch DEF DueAfter
<1>11. /\ slashed.staked \in [Operators -> Nat] /\ slashed.locked \in [Operators -> Nat]
       /\ slashed.staked[f] \in Nat /\ slashed.locked[f] \in Nat /\ slashed.staked[t] \in Nat
       /\ slashed.locked[f] <= slashed.staked[f]
       /\ b.staked[f] = slashed.staked[f]
       /\ b.locked[t] \in Nat
  BY <1>1 DEF Books, Covered, Same
<1>12. \A o \in Operators \ {t, f} : Same(b, c, o)
  BY <1>1, <1>5, <1>8, <1>11 DEF Same
<1>13. Remnant(slashed, f, flag.flagStake) \in {0, slashed.locked[f]}
  BY DEF Remnant
<1>14. Remnant(b, t, flag.atRisk) \in {0, b.locked[t]}
  BY DEF Remnant
<1>15. s.doublePaid <= c.staked[t] + c.staked[f]
  BY <1>1, <1>2, <1>5, <1>8, <1>11, <1>13, <1>14
<1>16. /\ c.staked[t] \in {0, b.staked[t]}
       /\ b.locked[t] < flag.atRisk => c.staked[t] = b.staked[t]
       /\ c.staked[f] + flag.flagStake >= b.staked[f]
  BY <1>1, <1>5, <1>8, <1>11
<1>17. c.pool \in {b.pool, b.pool - terms.earnings}
  BY <1>1, <1>5, <1>8
<1> QED
  BY <1>9, <1>10, <1>12, <1>15, <1>16, <1>17 DEF SettlesFlag, c, s

\* Charging an operator less than its stake keeps it joined.
LEMMA ChargeSettles ==
    ASSUME NEW b \in Books, NEW o \in Operators, NEW amount \in Nat, Covered(b),
           amount < b.staked[o] \/ amount = 0
    PROVE  LET c == ReduceStakeBy(b, o, amount)
           IN  /\ c \in Books
               /\ c.locked = b.locked
               /\ c.forfeited = b.forfeited
               /\ c.pool = b.pool
               /\ Agree(b) => Agree(c)
               /\ \A p \in Operators \ {o} : c.staked[p] = b.staked[p]
               /\ c.staked[o] \in Nat
               /\ c.staked[o] + amount >= b.staked[o]
<1> DEFINE c == ReduceStakeBy(b, o, amount)
           taken == Reduction(b, o, amount)
<1>1. c \in Books
  BY ReduceStakeByEffect
<1>2. /\ c.staked = [b.staked EXCEPT ![o] = b.staked[o] - taken]
      /\ c.locked = b.locked
      /\ c.joined = b.joined
      /\ c.operatorCount = b.operatorCount
      /\ c.totalStaked = b.totalStaked - taken
      /\ c.forfeited = b.forfeited
      /\ c.pool = b.pool
  BY ReduceStakeByFields
<1>3. taken \in Nat /\ taken <= amount
  BY ReductionBounds
<1>4. Agree(b) => Agree(c)
  BY ReduceStakeByKeepsJoined
<1>5. b.staked \in [Operators -> Nat] /\ c.staked \in [Operators -> Nat]
  BY <1>1 DEF Books
<1> HIDE DEF c, taken
<1>6. /\ \A p \in Operators \ {o} : c.staked[p] = b.staked[p]
      /\ c.staked[o] = b.staked[o] - taken
      /\ b.staked[o] \in Nat /\ c.staked[o] \in Nat
  BY <1>2, <1>5
<1>7. c.staked[o] + amount >= b.staked[o]
  BY <1>3, <1>6
<1> QED
  BY <1>1, <1>2, <1>4, <1>6, <1>7 DEF c

LEMMA HandleNoKickSettles ==
    ASSUME NEW b \in Books, NEW t \in Operators, NEW flag, NEW terms,
           NEW paid, Covered(b), NEW due, Match(b, due),
           flag.atRisk \in Nat, flag.flagStake \in Nat,
           flag.flagger \in Operators, flag.flagger # t,
           flag.atRisk <= due[t], flag.flagStake <= due[flag.flagger],
           NEW rewards \in Nat,
           rewards = Cardinality(paid \ {flag.flagger}) * flag.reviewerReward,
           rewards < flag.flagStake \/ rewards = 0
    PROVE  SettlesFlag(b, t, flag, terms, due, HandleNoKick(b, t, flag, paid))
<1> DEFINE released == Unlock(b, t, flag.atRisk)
           f == flag.flagger
           lockT == IF b.locked[t] >= flag.atRisk THEN b.locked[t] - flag.atRisk ELSE 0
           lock == IF released.locked[f] >= flag.flagStake
                   THEN released.locked[f] - flag.flagStake ELSE 0
           unlocked == Unlock(released, f, flag.flagStake)
           less == [due EXCEPT ![t] = due[t] - flag.atRisk]
           flaggerCovered == released.locked[f] >= flag.flagStake
           charged == IF flaggerCovered THEN ReduceStakeBy(unlocked, f, rewards) ELSE unlocked
           s == HandleNoKick(b, t, flag, paid)
           c == s.books
<1>1. s.doublePaid = Remnant(b, t, flag.atRisk) + Remnant(released, f, flag.flagStake)
  BY DEF HandleNoKick
<1>2. \E balance : c = [charged EXCEPT !.balance = balance]
  BY DEF HandleNoKick
<1> HIDE DEF s
<1>3. released \in Books /\ Covered(released)
  BY UnlockEffect
<1>4. /\ released.staked = b.staked
      /\ released.locked = [b.locked EXCEPT ![t] = lockT]
      /\ released.joined = b.joined
      /\ released.operatorCount = b.operatorCount
      /\ released.totalStaked = b.totalStaked
      /\ released.forfeited = b.forfeited - (flag.atRisk - (b.locked[t] - lockT))
      /\ released.pool = b.pool
  BY UnlockFields
<1>5. Match(released, less)
  BY UnlockMatches
<1> HIDE DEF released, lockT
<1>6. unlocked \in Books /\ Covered(unlocked)
  BY <1>3, UnlockEffect
<1>7. /\ unlocked.staked = released.staked
      /\ unlocked.locked = [released.locked EXCEPT ![f] = lock]
      /\ unlocked.joined = released.joined
      /\ unlocked.operatorCount = released.operatorCount
      /\ unlocked.totalStaked = released.totalStaked
      /\ unlocked.forfeited = released.forfeited - (flag.flagStake - (released.locked[f] - lock))
      /\ unlocked.pool = released.pool
  BY <1>3, UnlockFields
<1>8. less[f] = due[f] /\ flag.flagStake <= less[f]
  BY DEF Match
<1>9. Match(unlocked, [less EXCEPT ![f] = less[f] - flag.flagStake])
  BY <1>3, <1>5, <1>8, UnlockMatches
<1> HIDE DEF unlocked, lock
<1>10. /\ b.staked \in [Operators -> Nat] /\ b.locked \in [Operators -> Nat]
       /\ b.staked[t] \in Nat /\ b.staked[f] \in Nat
       /\ b.locked[t] \in Nat /\ b.locked[f] \in Nat
       /\ b.locked[t] <= b.staked[t] /\ b.locked[f] <= b.staked[f]
       /\ released.locked[f] = b.locked[f]
  BY <1>4 DEF Books, Covered
<1>11. Agree(b) => Agree(unlocked)
  BY <1>4, <1>7, SameStakesAgree
<1>12. /\ charged \in Books
       /\ charged.locked = unlocked.locked
       /\ charged.forfeited = unlocked.forfeited
       /\ charged.pool = unlocked.pool
       /\ Agree(b) => Agree(charged)
       /\ \A o \in Operators \ {f} : charged.staked[o] = b.staked[o]
       /\ charged.staked[f] \in Nat
       /\ charged.staked[f] + flag.flagStake >= b.staked[f]
       /\ ~flaggerCovered => charged.staked[f] = b.staked[f]
  <2>1. CASE flaggerCovered
    <3> DEFINE reduced == ReduceStakeBy(unlocked, f, rewards)
    <3>1. rewards < unlocked.staked[f] \/ rewards = 0
      BY <1>4, <1>7, <1>10, <2>1
    <3>2. /\ reduced \in Books
          /\ reduced.locked = unlocked.locked
          /\ reduced.forfeited = unlocked.forfeited
          /\ reduced.pool = unlocked.pool
          /\ Agree(unlocked) => Agree(reduced)
          /\ \A p \in Operators \ {f} : reduced.staked[p] = unlocked.staked[p]
          /\ reduced.staked[f] \in Nat
          /\ reduced.staked[f] + rewards >= unlocked.staked[f]
      BY <1>6, <3>1, ChargeSettles
    <3> HIDE DEF reduced
    <3>3. reduced.staked[f] + flag.flagStake >= b.staked[f]
      BY <1>4, <1>7, <1>10, <3>2
    <3>4. charged = reduced
      BY <2>1 DEF reduced
    <3>5. \A p \in Operators \ {f} : reduced.staked[p] = b.staked[p]
      BY <1>4, <1>7, <3>2
    <3>6. Agree(b) => Agree(reduced)
      BY <1>11, <3>2
    <3>7. flaggerCovered
      BY <2>1
    <3> HIDE DEF charged, flaggerCovered
    <3> QED
      BY <3>2, <3>3, <3>4, <3>5, <3>6, <3>7
  <2>2. CASE ~flaggerCovered
    BY <1>4, <1>6, <1>7, <1>10, <1>11, <2>2
  <2> QED
    BY <2>1, <2>2
<1>13. Remnant(b, t, flag.atRisk) \in {0, b.locked[t]}
  BY DEF Remnant
<1>14. Remnant(released, f, flag.flagStake) = IF flaggerCovered THEN 0 ELSE b.locked[f]
  BY <1>10 DEF Remnant
<1> HIDE DEF charged, flaggerCovered
<1>15. /\ c.staked = charged.staked /\ c.locked = charged.locked
       /\ c.joined = charged.joined /\ c.operatorCount = charged.operatorCount
       /\ c.totalStaked = charged.totalStaked /\ c.forfeited = charged.forfeited
       /\ c.pool = charged.pool
  BY <1>2, <1>12 DEF Books
<1> HIDE DEF c
<1>16. Agree(b) => Agree(c)
  BY <1>12, <1>15, SameStakesAgree
<1>17. Match(c, DueAfter(due, t, flag))
  BY <1>8, <1>9, <1>12, <1>15, SameLocksMatch DEF DueAfter
<1>18. \A o \in Operators \ {t, f} : Same(b, c, o)
  BY <1>4, <1>7, <1>10, <1>12, <1>15 DEF Same
<1>19. s.doublePaid <= c.staked[t] + c.staked[f]
  BY <1>1, <1>10, <1>12, <1>13, <1>14, <1>15
<1>20. /\ c.staked[t] = b.staked[t]
       /\ c.staked[f] + flag.flagStake >= b.staked[f]
  BY <1>12, <1>15
<1>21. c.pool = b.pool
  BY <1>4, <1>7, <1>12, <1>15
<1> QED
  BY <1>16, <1>17, <1>18, <1>19, <1>20, <1>21 DEF SettlesFlag, c, s

-----------------------------------------------------------------------------
(* What a new flag promises *)

\* Rounding up covers: the fraction of the quotient is at least the amount.
LEMMA DivByFractionCovers ==
    ASSUME NEW x \in Nat, NEW fraction \in 1 .. Ether
    PROVE  DivByFraction(x, fraction) * fraction >= x * Ether
<1> DEFINE a == x * Ether + fraction - 1
           q == a \div fraction
           r == a % fraction
           y == x * Ether
<1>1. Ether \in Nat /\ fraction \in Nat \ {0} /\ y \in Nat
  BY EtherAssumption
<1>2. a = y + fraction - 1
  OBVIOUS
<1> HIDE DEF y
<1>3. a \in Nat
  BY <1>1, <1>2
<1> HIDE DEF a
<1>4. /\ q \in Int
      /\ r \in Int
      /\ a = fraction * q + r
      /\ r < fraction
  BY <1>1, <1>3
<1> HIDE DEF q, r
<1>5. q * fraction \in Int /\ q * fraction = fraction * q
  BY <1>1, <1>4
<1>6. q * fraction >= y
  BY <1>1, <1>2, <1>4, <1>5
<1> QED
  BY <1>6 DEF DivByFraction, a, q, y

\* Dividing by less than everything makes a positive amount larger.
LEMMA DivByFractionGrowsStrictly ==
    ASSUME NEW x \in Nat \ {0}, NEW fraction \in 1 .. (Ether - 1)
    PROVE  DivByFraction(x, fraction) \in Nat /\ DivByFraction(x, fraction) > x
<1> DEFINE a == x * Ether + fraction - 1
           y == x * Ether
           z == x * fraction
<1>1. Ether \in Nat /\ fraction \in Nat \ {0} /\ fraction + 1 <= Ether
  BY EtherAssumption
<1>2. y \in Nat /\ z \in Nat /\ y >= z + 1
  <2>1. x * Ether >= x * (fraction + 1)
    BY <1>1
  <2>2. x * (fraction + 1) = x * fraction + x
    BY <1>1
  <2>3. x * fraction \in Nat /\ x * Ether \in Nat
    BY <1>1
  <2> QED
    BY <2>1, <2>2, <2>3
<1>3. a = y + fraction - 1 /\ (x + 1) * fraction = z + fraction
  BY <1>1
<1> HIDE DEF y, z, a
<1>4. a \in Nat /\ a >= (x + 1) * fraction /\ x + 1 \in Nat
  BY <1>1, <1>2, <1>3
<1>5. a \div fraction \in Nat /\ a \div fraction >= x + 1
  BY <1>1, <1>4, DivLower
<1> QED
  BY <1>5 DEF DivByFraction, a

\* What is put at risk pays for all rewards, and a flag stake for more than those
\* of the reviewers: the two lower limits of StreamrConfig do what they are for.
LEMMA ConfigCovers ==
    ASSUME NEW c \in Configs
    PROVE  /\ TotalRewards(c) \in Nat
           /\ MinimumStake(c) \in Nat /\ MinimumStake(c) >= TotalRewards(c)
           /\ \A stake \in Nat : StakeAtRisk(c, stake) >= TotalRewards(c)
           /\ c.reviewerCount * c.reviewerReward \in Nat
           /\ \/ c.reviewerCount * c.reviewerReward = 0
              \/ c.reviewerCount * c.reviewerReward < c.flagStake
<1>1. /\ c \in Config
      /\ c.slashingFraction \in 1 .. (Ether - 1)
      /\ c.slashingFraction \in 1 .. Ether
      /\ Ether - c.slashingFraction \in 1 .. (Ether - 1)
      /\ c.slashingFraction \in Nat
      /\ Ether \in Nat \ {0}
      /\ c.reviewerCount \in Nat /\ c.reviewerReward \in Nat /\ c.flaggerReward \in Nat
      /\ c.flagStake \in Nat
      /\ c.flagStake >= MinimumFlagStake(c)
  BY VoteKickAssumption, EtherAssumption DEF Config
<1> DEFINE reviews == c.reviewerCount * c.reviewerReward
           total == TotalRewards(c)
           minimum == MinimumStake(c)
<1>2. reviews \in Nat /\ total = c.flaggerReward + reviews
  BY <1>1 DEF TotalRewards
<1>3. total \in Nat
  BY <1>1, <1>2
<1>4. /\ minimum \in Nat /\ minimum >= total
      /\ minimum * c.slashingFraction >= total * Ether
  BY <1>1, <1>3, DivByFractionGrows, DivByFractionCovers DEF MinimumStake
<1> HIDE DEF reviews, total, minimum
<1>5. ASSUME NEW stake \in Nat
      PROVE  StakeAtRisk(c, stake) >= total
  <2> DEFINE larger == IF stake > minimum THEN stake ELSE minimum
             part == larger * c.slashingFraction
  <2>1. larger \in Nat /\ larger >= minimum
    BY <1>4
  <2> HIDE DEF larger
  <2>2. part \in Nat /\ part >= minimum * c.slashingFraction
    BY <1>1, <1>4, <2>1
  <2>3. total * Ether \in Nat /\ minimum * c.slashingFraction \in Nat
    BY <1>1, <1>3, <1>4
  <2>4. StakeAtRisk(c, stake) = part \div Ether
    BY DEF StakeAtRisk, minimum, larger
  <2> HIDE DEF part
  <2>5. part >= total * Ether
    BY <1>4, <2>2, <2>3
  <2> QED
    BY <1>1, <1>3, <2>2, <2>4, <2>5, DivLower
<1>6. reviews = 0 \/ reviews < c.flagStake
  <2>1. CASE reviews # 0
    <3>1. MinimumFlagStake(c) \in Nat /\ MinimumFlagStake(c) > reviews
      BY <1>1, <1>2, <2>1, DivByFractionGrowsStrictly DEF MinimumFlagStake, reviews
    <3> QED
      BY <1>1, <1>2, <3>1
  <2> QED
    BY <2>1
<1> QED
  BY <1>2, <1>3, <1>4, <1>5, <1>6 DEF reviews, total, minimum

-----------------------------------------------------------------------------
(* What the open flags need *)

\* What a flag needs from its target, and from an operator if it is the flagger.
OnTarget(flag) == IF flag.phase # "none" THEN flag.atRisk ELSE 0
OnFlagger(flag, o) ==
    IF flag.phase # "none" /\ flag.flagger = o THEN flag.flagStake ELSE 0

AsFlagger(fs, o) == [u \in Operators |-> OnFlagger(fs[u], o)]

Due(fs) == [o \in Operators |-> OnTarget(fs[o]) + SumFunctionOnSet(AsFlagger(fs, o), Operators)]

LEMMA FlagNeeds ==
    ASSUME NEW flag, FlagInv(flag)
    PROVE  OnTarget(flag) \in Nat /\ \A o : OnFlagger(flag, o) \in Nat
  BY DEF FlagInv, FlagType, OnTarget, OnFlagger

\* DueFrom, written as a sum over all operators.
LEMMA DueFromIsDue ==
    ASSUME FlagsInv, NEW o \in Operators
    PROVE  DueFrom(o) = Due(flags)[o]
<1> DEFINE T == {u \in OpenFlags : flags[u].flagger = o}
           g == AsFlagger(flags, o)
<1>1. IsFiniteSet(Operators) /\ T \subseteq Operators
  BY VoteKickAssumption DEF OpenFlags
<1>2. IsFiniteSet(T)
  BY <1>1, FS_Subset
<1>3. /\ \A u \in Operators : g[u] \in Nat
      /\ \A u \in Operators \ T : g[u] = 0
      /\ \A u \in T : g[u] = flags[u].flagStake
  BY FlagNeeds DEF FlagsInv, AsFlagger, OnFlagger, OpenFlags, Open
<1>4. OnTarget(flags[o]) = IF Open(o) THEN flags[o].atRisk ELSE 0
  BY DEF OnTarget, Open
<1>5. DueFrom(o) = (IF Open(o) THEN flags[o].atRisk ELSE 0)
                     + SumFunction([t \in T |-> flags[t].flagStake])
  BY DEF DueFrom
<1> HIDE DEF T, g
<1>6. SumFunction([t \in T |-> flags[t].flagStake]) = SumFunctionOnSet(g, T)
  BY <1>1, <1>2, <1>3, SumWrittenOut
<1>7. SumFunctionOnSet(g, Operators) = SumFunctionOnSet(g, T)
  BY <1>1, <1>3, SumIgnoresZeros
<1> QED
  BY <1>4, <1>5, <1>6, <1>7 DEF Due, g

\* Replacing one flag changes what is due by what the two of them need.
LEMMA DueChanges ==
    ASSUME NEW fs, fs = [u \in Operators |-> fs[u]],
           \A u \in Operators : FlagInv(fs[u]),
           NEW t \in Operators, NEW flag, FlagInv(flag),
           NEW gs, gs = [fs EXCEPT ![t] = flag], NEW o \in Operators
    PROVE  /\ Due(fs)[o] \in Nat
           /\ OnFlagger(fs[t], o) <= Due(fs)[o]
           /\ OnTarget(fs[o]) <= Due(fs)[o]
           /\ Due(gs)[o] = Due(fs)[o] - OnFlagger(fs[t], o) + OnFlagger(flag, o)
                             - (IF o = t THEN OnTarget(fs[t]) ELSE 0)
                             + (IF o = t THEN OnTarget(flag) ELSE 0)
<1> DEFINE g == AsFlagger(fs, o)
           h == AsFlagger(gs, o)
           sum == SumFunctionOnSet(g, Operators)
           new == SumFunctionOnSet(h, Operators)
<1>1. IsFiniteSet(Operators)
  BY VoteKickAssumption
<1>2. /\ \A u \in Operators : g[u] \in Nat /\ h[u] \in Nat
      /\ \A u \in Operators \ {t} : h[u] = g[u]
      /\ g[t] = OnFlagger(fs[t], o) /\ h[t] = OnFlagger(flag, o)
  BY FlagNeeds DEF AsFlagger
<1>3. Due(fs)[o] = OnTarget(fs[o]) + sum /\ Due(gs)[o] = OnTarget(gs[o]) + new
  BY DEF Due
<1>4. OnTarget(gs[o]) = IF o = t THEN OnTarget(flag) ELSE OnTarget(fs[o])
  OBVIOUS
<1>5. OnTarget(fs[o]) \in Nat /\ OnTarget(flag) \in Nat
  BY FlagNeeds
<1> HIDE DEF g, h
<1>6. sum \in Nat /\ g[t] <= sum
  BY <1>1, <1>2, SumOfNaturals
<1>7. new = sum - g[t] + h[t]
  BY <1>1, <1>2, SumChangesAtOne
<1> HIDE DEF sum, new
<1>8. g[t] \in Nat /\ h[t] \in Nat
  BY <1>2
<1> QED
  BY <1>2, <1>3, <1>4, <1>5, <1>6, <1>7, <1>8

LEMMA DueTyped ==
    ASSUME FlagsInv
    PROVE  Due(flags) \in [Operators -> Nat]
<1>1. ASSUME NEW o \in Operators
      PROVE  Due(flags)[o] \in Nat
  <2>1. flags = [flags EXCEPT ![o] = flags[o]]
    BY DEF FlagsInv
  <2> QED
    BY <2>1, DueChanges DEF FlagsInv
<1>2. Due(flags) = [o \in Operators |-> Due(flags)[o]]
  BY DEF Due
<1> QED
  BY <1>1, <1>2

\* A flag with the same parties and amounts.
SameTerms(flag, other) ==
    /\ flag.phase # "none" /\ other.phase # "none"
    /\ flag.flagger = other.flagger
    /\ flag.atRisk = other.atRisk
    /\ flag.flagStake = other.flagStake
    /\ flag.flaggerReward = other.flaggerReward
    /\ flag.reviewerReward = other.reviewerReward

\* What is due when a flag is over.
LEMMA DueWhenOver ==
    ASSUME FlagsInv, NEW t \in Operators, NEW flag, SameTerms(flag, flags[t]),
           flag.flagger # t
    PROVE  /\ Due([flags EXCEPT ![t] = NoFlag]) = DueAfter(Due(flags), t, flag)
           /\ flag.atRisk <= Due(flags)[t]
           /\ flag.flagStake <= Due(flags)[flag.flagger]
<1> DEFINE due == Due(flags)
           gs == [flags EXCEPT ![t] = NoFlag]
           f == flag.flagger
<1>1. /\ due \in [Operators -> Nat]
      /\ f \in Operators
      /\ flag.atRisk \in Nat /\ flag.flagStake \in Nat
  BY DueTyped DEF FlagsInv, FlagInv, FlagType, SameTerms
<1>2. NoFlag.phase = "none"
  BY DEF NoFlag
<1>3. /\ OnTarget(flags[t]) = flag.atRisk
      /\ OnTarget(NoFlag) = 0
      /\ \A o : /\ OnFlagger(flags[t], o) = IF o = f THEN flag.flagStake ELSE 0
                /\ OnFlagger(NoFlag, o) = 0
  BY <1>2 DEF OnTarget, OnFlagger, SameTerms
<1>4. ASSUME NEW o \in Operators
      PROVE  /\ OnFlagger(flags[t], o) <= due[o]
             /\ OnTarget(flags[o]) <= due[o]
             /\ Due(gs)[o] = due[o] - OnFlagger(flags[t], o) + OnFlagger(NoFlag, o)
                               - (IF o = t THEN OnTarget(flags[t]) ELSE 0)
                               + (IF o = t THEN OnTarget(NoFlag) ELSE 0)
  BY DueChanges, NoFlagSound DEF FlagsInv
<1>5. Due(gs) = [o \in Operators |-> Due(gs)[o]]
  BY DEF Due
<1> HIDE DEF due, gs
<1>6. ASSUME NEW o \in Operators
      PROVE  Due(gs)[o] = DueAfter(due, t, flag)[o]
  <2> DEFINE after == DueAfter(due, t, flag)
  <2>1. after[o] = IF o = f THEN due[f] - flag.flagStake
                   ELSE IF o = t THEN due[t] - flag.atRisk ELSE due[o]
    BY <1>1 DEF DueAfter
  <2>2. due[o] \in Nat
    BY <1>1
  <2> HIDE DEF after
  <2>3. Due(gs)[o] = due[o] - (IF o = f THEN flag.flagStake ELSE 0)
                            - (IF o = t THEN flag.atRisk ELSE 0)
    BY <1>1, <1>3, <1>4, <2>2
  <2>4. Due(gs)[o] = after[o]
    BY <1>1, <2>1, <2>2, <2>3
  <2> QED
    BY <2>4 DEF after
<1>7. DueAfter(due, t, flag) = [o \in Operators |-> DueAfter(due, t, flag)[o]]
  BY <1>1 DEF DueAfter
<1>8. Due(gs) = DueAfter(due, t, flag)
  BY <1>5, <1>6, <1>7
<1>9. flag.atRisk <= due[t] /\ flag.flagStake <= due[f]
  BY <1>1, <1>3, <1>4
<1> QED
  BY <1>8, <1>9 DEF due, gs

\* Voting, and time, change nothing that is due.
LEMMA DueStays ==
    ASSUME FlagsInv, NEW t \in Operators, NEW flag, FlagInv(flag), SameTerms(flag, flags[t])
    PROVE  Due([flags EXCEPT ![t] = flag]) = Due(flags)
<1> DEFINE gs == [flags EXCEPT ![t] = flag]
<1>1. /\ OnTarget(flags[t]) = OnTarget(flag)
      /\ \A o : OnFlagger(flags[t], o) = OnFlagger(flag, o)
      /\ OnTarget(flag) \in Nat /\ \A o : OnFlagger(flag, o) \in Nat
  BY FlagNeeds DEF OnTarget, OnFlagger, SameTerms
<1>2. ASSUME NEW o \in Operators
      PROVE  /\ Due(flags)[o] \in Nat
             /\ Due(gs)[o] = Due(flags)[o] - OnFlagger(flags[t], o) + OnFlagger(flag, o)
                               - (IF o = t THEN OnTarget(flags[t]) ELSE 0)
                               + (IF o = t THEN OnTarget(flag) ELSE 0)
  BY DueChanges DEF FlagsInv
<1>3. /\ Due(gs) = [o \in Operators |-> Due(gs)[o]]
      /\ Due(flags) = [o \in Operators |-> Due(flags)[o]]
  BY DEF Due
<1> HIDE DEF gs
<1>4. \A o \in Operators : Due(gs)[o] = Due(flags)[o]
  BY <1>1, <1>2
<1>5. Due(gs) = Due(flags)
  BY <1>3, <1>4
<1> QED
  BY <1>5 DEF gs

\* Locking for a flag raises locks as much as what is due.
LEMMA LockMatches ==
    ASSUME NEW b, b.locked \in [Operators -> Nat], b.forfeited \in Int,
           NEW o \in Operators, NEW amount \in Nat, NEW due, Match(b, due),
           NEW c, c.locked = [b.locked EXCEPT ![o] = b.locked[o] + amount],
           c.forfeited = b.forfeited
    PROVE  Match(c, [due EXCEPT ![o] = due[o] + amount])
<1> DEFINE lock == b.locked[o] + amount
           need == due[o] + amount
           more == [due EXCEPT ![o] = need]
<1>1. /\ due \in [Operators -> Nat]
      /\ \A p \in Operators : b.locked[p] <= due[p]
      /\ SumFunction(b.locked) + b.forfeited = SumFunction(due)
      /\ b.locked[o] \in Nat /\ due[o] \in Nat
  BY DEF Match
<1>2. lock \in Nat /\ need \in Nat /\ lock <= need
  BY <1>1
<1>3. /\ lock = b.locked[o] + amount /\ need = due[o] + amount
      /\ c.locked = [b.locked EXCEPT ![o] = lock]
  OBVIOUS
<1> HIDE DEF lock, need
<1>4. /\ SumFunction(b.locked) \in Nat
      /\ SumFunction(c.locked) = SumFunction(b.locked) - b.locked[o] + lock
  BY <1>2, <1>3, TotalChange
<1>5. /\ SumFunction(due) \in Nat
      /\ SumFunction(more) = SumFunction(due) - due[o] + need
  <2>1. due \in [Operators -> Nat] /\ need \in Nat
    BY <1>1, <1>2
  <2> QED
    BY <2>1, TotalChange
<1>6. /\ more \in [Operators -> Nat]
      /\ \A p \in Operators : c.locked[p] <= more[p]
  BY <1>1, <1>2, <1>3
<1> HIDE DEF more
<1>7. SumFunction(c.locked) + c.forfeited = SumFunction(more)
  BY <1>1, <1>2, <1>3, <1>4, <1>5
<1> QED
  BY <1>6, <1>7 DEF Match, more, need

-----------------------------------------------------------------------------
(* The inductive invariant of settlements *)

\* The administrator promises rewards.  StreamrConfig.initialize() sets them, and
\* the minimum stake and the stake at risk are derived from them; its setters
\* would let the administrator set all of them to zero.
RewardsPaid == \A c \in Configs : TotalRewards(c) > 0

\* What an open flag puts at risk pays for all rewards, and its flag stake for
\* more than those of the reviewers; nobody flags itself.
Promises(t, flag) ==
    flag.phase # "none" =>
       LET reviews == Cardinality(ReviewersOf(flag)) * flag.reviewerReward
       IN  /\ flag.flagger # t
           /\ flag.flaggerReward + reviews <= flag.atRisk
           /\ reviews = 0 \/ reviews < flag.flagStake
           /\ RewardsPaid => flag.atRisk > 0

PromisesInv == \A t \in Operators : Promises(t, flags[t])

LocksInv == Match(books, Due(flags))

AgreeInv == RewardsPaid => Agree(books)

SettlementInv == PromisesInv /\ LocksInv /\ AgreeInv

LEMMA NoFlagPromises ==
    ASSUME NEW t
    PROVE  Promises(t, NoFlag)
<1>1. NoFlag.phase = "none"
  BY DEF NoFlag
<1> QED
  BY <1>1 DEF Promises

LEMMA PromisesStep ==
    ASSUME FlagsInv, PromisesInv, NEW t \in Operators, NEW flag, Promises(t, flag),
           flags' = [flags EXCEPT ![t] = flag]
    PROVE  PromisesInv'
<1>1. ASSUME NEW u \in Operators
      PROVE  Promises(u, flags'[u])
  BY DEF FlagsInv, PromisesInv
<1> QED
  BY <1>1 DEF PromisesInv

\* Who is rewarded is among the reviewers, so it costs no more than promised.
LEMMA RewardsKept ==
    ASSUME NEW t, NEW flag, FlagInv(flag), flag.phase # "none", Promises(t, flag),
           NEW paid, paid \ {flag.flagger} \subseteq ReviewersOf(flag)
    PROVE  LET rewards == Cardinality(paid \ {flag.flagger}) * flag.reviewerReward
           IN  /\ rewards \in Nat
               /\ rewards = 0 \/ rewards < flag.flagStake
               /\ flag.flaggerReward + rewards <= flag.atRisk
<1> DEFINE n == Cardinality(paid \ {flag.flagger})
           m == Cardinality(ReviewersOf(flag))
           r == flag.reviewerReward
           rewards == n * r
           reviews == m * r
<1>1. n \in Nat /\ m \in Nat /\ n <= m
  BY ReviewersFinite, FS_Subset, FS_CardinalityType
<1>2. r \in Nat /\ flag.flagStake \in Nat /\ flag.flaggerReward \in Nat /\ flag.atRisk \in Nat
  BY DEF FlagInv, FlagType
<1>3. /\ flag.flaggerReward + reviews <= flag.atRisk
      /\ reviews = 0 \/ reviews < flag.flagStake
  BY DEF Promises
<1> HIDE DEF n, m, r
<1>4. rewards \in Nat /\ reviews \in Nat /\ rewards <= reviews
  BY <1>1, <1>2
<1> HIDE DEF rewards, reviews
<1>5. /\ rewards \in Nat
      /\ rewards = 0 \/ rewards < flag.flagStake
      /\ flag.flaggerReward + rewards <= flag.atRisk
  BY <1>2, <1>3, <1>4
<1> QED
  BY <1>5 DEF rewards, n, r

\* A flag is always settled so that only its two parties are touched.
LEMMA EndVoteSettles ==
    ASSUME IInv, SettlementInv, NEW t \in Operators, NEW flag, FlagInv(flag),
           Promises(t, flag), SameTerms(flag, flags[t]), EndVote(t, flag)
    PROVE  /\ \E terms \in LeaveTermsOf(t), paid \in PaidSets(flag) :
                 /\ books' = Settlement(books, t, flag, terms, paid).books
                 /\ SettlesFlag(books, t, flag, terms, Due(flags),
                                Settlement(books, t, flag, terms, paid))
           /\ flags' = [flags EXCEPT ![t] = NoFlag]
<1>1. /\ BooksInv /\ FlagsInv
      /\ books \in Books /\ Covered(books)
      /\ Match(books, Due(flags))
  BY DEF IInv, BooksInv, SettlementInv, LocksInv
<1>2. PICK terms \in LeaveTermsOf(t), paid \in PaidSets(flag) :
        \E s \in {Settlement(books, t, flag, terms, paid)} :
            /\ s.payable
            /\ Commit(s.books)
  BY DEF EndVote
<1> DEFINE s == Settlement(books, t, flag, terms, paid)
           due == Due(flags)
<1>3. s.payable /\ books' = s.books
  BY <1>2 DEF Commit
<1>4. /\ flag.phase # "none"
      /\ flag.flagger # t
      /\ flag.atRisk \in Nat /\ flag.flagStake \in Nat /\ flag.flagger \in Operators
      /\ terms \in LeaveTerms
  BY <1>1, LeaveTermsTyped DEF FlagInv, FlagType, SameTerms, Promises
<1>5. flag.atRisk <= due[t] /\ flag.flagStake <= due[flag.flagger]
  BY <1>1, <1>4, DueWhenOver
<1>6. ASSUME Verdict(flag) = VotedKick
      PROVE  SettlesFlag(books, t, flag, terms, due, s)
  <2>1. s = HandleKick(books, t, flag, terms, paid)
    BY <1>6 DEF Settlement
  <2>2. books.locked[t] >= flag.atRisk => t \in books.joined
    <3>1. HandleKick(books, t, flag, terms, paid).payable
            => (books.locked[t] >= flag.atRisk => t \in books.joined)
      BY DEF HandleKick
    <3> QED
      BY <1>3, <2>1, <3>1
  <2> HIDE DEF s, due
  <2>3. SettlesFlag(books, t, flag, terms, due, HandleKick(books, t, flag, terms, paid))
    BY <1>1, <1>4, <1>5, <2>2, HandleKickSettles DEF due
  <2> QED
    BY <2>1, <2>3
<1>7. ASSUME Verdict(flag) # VotedKick
      PROVE  SettlesFlag(books, t, flag, terms, due, s)
  <2> DEFINE rewards == Cardinality(paid \ {flag.flagger}) * flag.reviewerReward
  <2>1. s = HandleNoKick(books, t, flag, paid)
    BY <1>7 DEF Settlement
  <2>2. paid \ {flag.flagger} \subseteq ReviewersOf(flag)
    BY DEF PaidSets, ReviewersOf, Verdict, VotedKick, VotedNoKick
  <2>3. /\ rewards \in Nat
        /\ rewards = 0 \/ rewards < flag.flagStake
    BY <1>4, <2>2, RewardsKept
  <2> HIDE DEF s, due
  <2>4. rewards = Cardinality(paid \ {flag.flagger}) * flag.reviewerReward
    OBVIOUS
  <2> HIDE DEF rewards
  <2>5. SettlesFlag(books, t, flag, terms, due, HandleNoKick(books, t, flag, paid))
    BY <1>1, <1>4, <1>5, <2>3, <2>4, HandleNoKickSettles DEF due
  <2> QED
    BY <2>1, <2>5
<1>8. SettlesFlag(books, t, flag, terms, due, s)
  BY <1>6, <1>7
<1> HIDE DEF s
<1>9. flags' = [flags EXCEPT ![t] = NoFlag]
  BY DEF EndVote
<1> QED
  BY <1>3, <1>8, <1>9 DEF s, due

-----------------------------------------------------------------------------
(* Every transaction keeps it *)

LEMMA FlagsStayStep ==
    ASSUME SettlementInv, UNCHANGED flags, Match(books', Due(flags)),
           RewardsPaid => Agree(books')
    PROVE  SettlementInv'
<1>1. PromisesInv'
  BY DEF SettlementInv, PromisesInv
<1>2. LocksInv'
  BY DEF LocksInv
<1>3. AgreeInv'
  BY DEF AgreeInv
<1> QED
  BY <1>1, <1>2, <1>3 DEF SettlementInv

\* Tokens that only come and go leave stakes and locks as they are.
LEMMA TokensMoveStep ==
    ASSUME SettlementInv, UNCHANGED flags,
           books'.staked = books.staked, books'.joined = books.joined,
           books'.operatorCount = books.operatorCount,
           books'.totalStaked = books.totalStaked,
           books'.locked = books.locked, books'.forfeited = books.forfeited
    PROVE  SettlementInv'
<1>1. Match(books', Due(flags))
  BY SameLocksMatch DEF SettlementInv, LocksInv
<1>2. RewardsPaid => Agree(books')
  BY SameStakesAgree DEF SettlementInv, AgreeInv
<1> QED
  BY <1>1, <1>2, FlagsStayStep

LEMMA PlainTransferSettles ==
    ASSUME IInv, SettlementInv, NEW amount, PlainTransfer(amount)
    PROVE  SettlementInv'
<1> DEFINE balance == books.balance + amount
<1>1. /\ books \in Books
      /\ books' = [books EXCEPT !.balance = balance]
      /\ UNCHANGED flags
  BY DEF IInv, BooksInv, PlainTransfer
<1> HIDE DEF balance
<1> QED
  BY <1>1, TokensMoveStep DEF Books

LEMMA SponsorSettles ==
    ASSUME IInv, SettlementInv, NEW amount, Sponsor(amount)
    PROVE  SettlementInv'
<1> DEFINE balance == books.balance + amount
           pool == balance - books.totalStaked - books.forfeited
<1>1. /\ books \in Books
      /\ books' = [books EXCEPT !.balance = balance, !.pool = pool]
      /\ UNCHANGED flags
  BY DEF IInv, BooksInv, Sponsor, Commit
<1> HIDE DEF balance, pool
<1> QED
  BY <1>1, TokensMoveStep DEF Books

LEMMA WithdrawSettles ==
    ASSUME IInv, SettlementInv, NEW o, NEW earnings, NEW accepted,
           Withdraw(o, earnings, accepted)
    PROVE  SettlementInv'
<1>1. \E pool, balance : books' = [books EXCEPT !.pool = pool, !.balance = balance]
  BY DEF Withdraw, Commit, WithdrawEarnings
<1>2. books \in Books /\ UNCHANGED flags
  BY DEF IInv, BooksInv, Withdraw
<1> QED
  BY <1>1, <1>2, TokensMoveStep DEF Books

\* Nobody's stake is below the minimum, however much is locked of it.
LEMMA MinimumStakeIsMinimum ==
    ASSUME NEW b \in Books, NEW o \in Operators, NEW flagged \in BOOLEAN, config \in Configs
    PROVE  /\ MinimumStakeOf(b, o, flagged) \in Nat
           /\ RewardsPaid => MinimumStakeOf(b, o, flagged) > 0
<1> DEFINE needed == IF flagged THEN b.locked[o]
                     ELSE DivByFraction(b.locked[o], Ether - config.slashingFraction)
<1>1. /\ config \in Config
      /\ b.locked[o] \in Nat
  BY VoteKickAssumption DEF Books
<1>2. /\ Ether - config.slashingFraction \in 1 .. Ether
      /\ MinimumStake(config) \in Nat
  BY <1>1, ConfigFacts
<1>3. needed \in Nat
  BY <1>1, <1>2, DivByFractionGrows
<1>4. MinimumStakeOf(b, o, flagged) =
        IF needed > MinimumStake(config) THEN needed ELSE MinimumStake(config)
  BY DEF MinimumStakeOf
<1>5. RewardsPaid => MinimumStake(config) > 0
  <2>1. TotalRewards(config) \in Nat /\ MinimumStake(config) >= TotalRewards(config)
    BY ConfigCovers
  <2> QED
    BY <1>2, <2>1 DEF RewardsPaid
<1> HIDE DEF needed
<1> QED
  BY <1>2, <1>3, <1>4, <1>5

\* Staking: who had no stake joins, and has some then.
LEMMA StakeSettles ==
    ASSUME IInv, SettlementInv, NEW o \in Operators, NEW amount \in Nat, Stake(o, amount)
    PROVE  SettlementInv'
<1> DEFINE stake == books.staked[o] + amount
           more == [books.staked EXCEPT ![o] = stake]
           newStaker == books.staked[o] = 0
           paidIn == [books EXCEPT !.balance = books.balance + amount,
                                   !.staked = more,
                                   !.totalStaked = books.totalStaked + amount]
           joined == [paidIn EXCEPT !.operatorCount = paidIn.operatorCount + 1,
                                    !.joined = paidIn.joined \cup {o}]
           c == IF newStaker THEN joined ELSE paidIn
<1>1. /\ books \in Books /\ config \in Configs
      /\ books.staked \in [Operators -> Nat] /\ books.staked[o] \in Nat
      /\ books.totalStaked \in Int /\ books.balance \in Int
      /\ books.joined \subseteq Operators
  BY DEF IInv, BooksInv, FlagsInv, Books
<1>2. /\ books' = c
      /\ UNCHANGED flags
      /\ paidIn.staked[o] >= MinimumStakeOf(paidIn, o, Open(o))
  BY <1>1 DEF Stake, Commit, Books
<1>3. stake \in Nat /\ stake = books.staked[o] + amount
  BY <1>1
<1>4. paidIn \in Books
  <2>1. more \in [Operators -> Nat]
    BY <1>1, <1>3
  <2>2. books.balance + amount \in Int /\ books.totalStaked + amount \in Int
    BY <1>1
  <2> HIDE DEF more
  <2> QED
    BY <1>1, <2>1, <2>2 DEF Books
<1> HIDE DEF stake
<1>5. /\ paidIn.staked = more /\ paidIn.locked = books.locked
      /\ paidIn.joined = books.joined /\ paidIn.operatorCount = books.operatorCount
      /\ paidIn.totalStaked = books.totalStaked + amount
      /\ paidIn.forfeited = books.forfeited
  BY <1>1 DEF Books
<1> HIDE DEF paidIn
<1>6. RewardsPaid => stake > 0
  <2>1. paidIn.staked[o] = stake
    BY <1>1, <1>3, <1>5
  <2>2. /\ MinimumStakeOf(paidIn, o, Open(o)) \in Nat
        /\ RewardsPaid => MinimumStakeOf(paidIn, o, Open(o)) > 0
    BY <1>1, <1>4, MinimumStakeIsMinimum DEF Open
  <2> QED
    BY <1>2, <1>3, <2>1, <2>2
<1>7. /\ c.staked = more /\ c.locked = books.locked
      /\ c.totalStaked = books.totalStaked + amount
      /\ c.forfeited = books.forfeited
      /\ c.joined = IF newStaker THEN books.joined \cup {o} ELSE books.joined
      /\ c.operatorCount = IF newStaker THEN books.operatorCount + 1
                           ELSE books.operatorCount
  BY <1>4, <1>5 DEF Books
<1> HIDE DEF c, newStaker
<1>8. Match(c, Due(flags))
  BY <1>7, SameLocksMatch DEF SettlementInv, LocksInv
<1>9. ASSUME RewardsPaid
      PROVE  Agree(c)
  <2>1. /\ \A p \in Operators : p \in books.joined <=> books.staked[p] > 0
        /\ books.operatorCount = Cardinality(books.joined)
        /\ books.totalStaked = SumFunction(books.staked)
    BY <1>9 DEF SettlementInv, AgreeInv, Agree
  <2>2. c.totalStaked = SumFunction(c.staked)
    <3>1. /\ SumFunction(books.staked) \in Nat
          /\ SumFunction(more) = SumFunction(books.staked) - books.staked[o] + stake
      BY <1>1, <1>3, TotalChange
    <3> HIDE DEF more
    <3> QED
      BY <1>1, <1>3, <1>7, <2>1, <3>1
  <2>3. \A p \in Operators : c.staked[p] = IF p = o THEN stake ELSE books.staked[p]
    BY <1>1, <1>7
  <2>4. \A p \in Operators : p \in c.joined <=> c.staked[p] > 0
    BY <1>1, <1>3, <1>6, <1>7, <1>9, <2>1, <2>3 DEF newStaker
  <2>5. c.operatorCount = Cardinality(c.joined)
    <3>1. IsFiniteSet(books.joined)
      BY <1>1, VoteKickAssumption, FS_Subset
    <3>2. CASE newStaker
      <4>1. o \notin books.joined
        BY <1>1, <2>1, <3>2 DEF newStaker
      <4>2. Cardinality(books.joined \cup {o}) = Cardinality(books.joined) + 1
        BY <3>1, <4>1, FS_AddElement
      <4> QED
        BY <1>7, <2>1, <3>2, <4>2
    <3>3. CASE ~newStaker
      BY <1>7, <2>1, <3>3
    <3> QED
      BY <3>2, <3>3
  <2> QED
    BY <2>2, <2>4, <2>5 DEF Agree
<1> QED
  BY <1>2, <1>8, <1>9, FlagsStayStep

\* Reducing stops above zero, at the minimum, so nobody leaves by reducing.
LEMMA ReduceStakeToSettles ==
    ASSUME IInv, SettlementInv, NEW o \in Operators, NEW target \in Nat,
           ReduceStakeTo(o, target)
    PROVE  SettlementInv'
<1> DEFINE by == books.staked[o] - target
           less == ReduceStakeBy(books, o, by)
<1>1. /\ books \in Books /\ Covered(books) /\ config \in Configs
      /\ books.staked[o] \in Nat
  BY DEF IInv, BooksInv, FlagsInv, Books
<1>2. /\ target < books.staked[o]
      /\ target >= MinimumStakeOf(books, o, Open(o))
      /\ \E balance : books' = [less EXCEPT !.balance = balance]
      /\ UNCHANGED flags
  BY DEF ReduceStakeTo, Commit
<1>3. by \in Nat /\ (target > 0 => by < books.staked[o])
  BY <1>1, <1>2
<1> HIDE DEF by
<1>4. less \in Books
  BY <1>1, <1>3, ReduceStakeByEffect
<1>5. less.locked = books.locked /\ less.forfeited = books.forfeited
  BY <1>1, <1>3, ReduceStakeByEffect
<1>6. RewardsPaid => target > 0
  <2>1. /\ MinimumStakeOf(books, o, Open(o)) \in Nat
        /\ RewardsPaid => MinimumStakeOf(books, o, Open(o)) > 0
    BY <1>1, MinimumStakeIsMinimum DEF Open
  <2> QED
    BY <1>2, <2>1
<1>7. RewardsPaid => Agree(less)
  BY <1>1, <1>3, <1>6, ReduceStakeByKeepsJoined DEF SettlementInv, AgreeInv
<1> HIDE DEF less
<1>8. /\ books'.staked = less.staked /\ books'.joined = less.joined
      /\ books'.operatorCount = less.operatorCount
      /\ books'.totalStaked = less.totalStaked
      /\ books'.locked = less.locked /\ books'.forfeited = less.forfeited
  BY <1>2, <1>4 DEF Books
<1>9. Match(books', Due(flags))
  BY <1>5, <1>8, SameLocksMatch DEF SettlementInv, LocksInv
<1>10. RewardsPaid => Agree(books')
  BY <1>7, <1>8, SameStakesAgree
<1> QED
  BY <1>2, <1>9, <1>10, FlagsStayStep

\* What unstaking, force-unstaking and being kicked at once have in common: what
\* was locked is forfeited, and stays due.
LEMMA RemoveOperatorSettles ==
    ASSUME IInv, SettlementInv, NEW o \in Operators, NEW terms \in LeaveTermsOf(o),
           o \in books.joined, Commit(RemoveOperator(books, o, terms)), UNCHANGED flags
    PROVE  SettlementInv'
<1> DEFINE c == RemoveOperator(books, o, terms)
<1>1. /\ books \in Books /\ Covered(books)
      /\ terms \in LeaveTerms
      /\ books' = c
  BY LeaveTermsTyped DEF IInv, BooksInv, Commit
<1>2. Match(c, Due(flags))
  BY <1>1, RemoveOperatorMatches DEF SettlementInv, LocksInv
<1>3. RewardsPaid => Agree(c)
  BY <1>1, RemoveOperatorAgrees DEF SettlementInv, AgreeInv, Agree, AgreeExcept
<1> HIDE DEF c
<1> QED
  BY <1>1, <1>2, <1>3, FlagsStayStep

\* Flagging locks as much as the new flag needs.
LEMMA FlagSettles ==
    ASSUME IInv, SettlementInv, NEW f \in Operators, NEW t \in Operators,
           NEW R \in SUBSET Voters, NEW weight \in [R -> Weights],
           Flag(f, t, weight)
    PROVE  SettlementInv'
<1> DEFINE atRisk == StakeAtRisk(config, books.staked[t])
           state == [v \in Voters |-> IF v \in DOMAIN weight THEN CapWeights(weight)[v] ELSE 0]
           total == SumFunction(CapWeights(weight))
           lock == books.locked[t] + atRisk
           half == [books.locked EXCEPT ![t] = lock]
           locks == [half EXCEPT ![f] = half[f] + config.flagStake]
           flag == [phase |-> "review", flagger |-> f, atRisk |-> atRisk,
                    flagStake |-> config.flagStake,
                    flaggerReward |-> config.flaggerReward,
                    reviewerReward |-> config.reviewerReward,
                    state |-> state, votesFor |-> 0, votesAgainst |-> 0,
                    total |-> total]
           due == Due(flags)
           halfDue == [due EXCEPT ![t] = due[t] + atRisk]
<1>1. /\ FlagsInv /\ books \in Books
      /\ books.locked \in [Operators -> Nat] /\ books.forfeited \in Int
      /\ books.staked[t] \in Nat
      /\ config \in Configs /\ config \in Config
      /\ config.flagStake \in Nat /\ config.flaggerReward \in Nat
      /\ config.reviewerReward \in Nat /\ config.reviewerCount \in Nat
      /\ Match(books, due) /\ due \in [Operators -> Nat]
      /\ DOMAIN weight = R
  BY VoteKickAssumption, DueTyped
     DEF IInv, BooksInv, FlagsInv, Books, Config, SettlementInv, LocksInv
<1>2. /\ f # t /\ ~Open(t)
      /\ DOMAIN weight # {}
      /\ Cardinality(DOMAIN weight) <= config.reviewerCount
      /\ books' = [books EXCEPT !.locked = [books.locked EXCEPT
                     ![t] = books.locked[t] + atRisk,
                     ![f] = books.locked[f] + config.flagStake]]
      /\ flags' = [flags EXCEPT ![t] = flag]
  BY DEF Flag, MayFlag, Commit
<1>3. atRisk \in Nat
  BY <1>1, ConfigFacts
<1>4. books' = [books EXCEPT !.locked = locks]
  BY <1>1, <1>2
<1>5. /\ atRisk >= TotalRewards(config) /\ TotalRewards(config) \in Nat
      /\ config.reviewerCount * config.reviewerReward \in Nat
      /\ \/ config.reviewerCount * config.reviewerReward = 0
         \/ config.reviewerCount * config.reviewerReward < config.flagStake
  BY <1>1, ConfigCovers
<1>6. state = [v \in Voters |-> IF v \in R THEN CapWeights(weight)[v] ELSE 0]
  BY <1>1
<1> HIDE DEF atRisk, state, total
<1>7. /\ flag.phase = "review" /\ flag.flagger = f
      /\ flag.atRisk = atRisk /\ flag.flagStake = config.flagStake
      /\ flag.flaggerReward = config.flaggerReward
      /\ flag.reviewerReward = config.reviewerReward
      /\ flag.state = state /\ flag.votesFor = 0 /\ flag.votesAgainst = 0
      /\ flag.total = total
  OBVIOUS
<1>8. FlagInv(flag)
  <2>1. DOMAIN state = Voters /\ \A v \in Voters \ R : state[v] = 0
    BY <1>6
  <2> QED
    BY <1>1, <1>2, <1>3, <2>1, NewFlagSound
<1> HIDE DEF flag
<1>9. Promises(t, flag)
  <2> DEFINE n == Cardinality(ReviewersOf(flag))
             r == config.reviewerReward
             most == config.reviewerCount * r
             reviews == n * r
  <2>1. n \in Nat /\ n <= config.reviewerCount
    <3>1. ReviewersOf(flag) = R
      <4> DEFINE capped == SumFunction(CapWeights(weight))
      <4>1. flag.total = capped
        BY <1>7 DEF total
      <4>2. /\ flag.state = [v \in Voters |-> IF v \in R THEN CapWeights(weight)[v] ELSE 0]
            /\ flag.votesFor = 0 /\ flag.votesAgainst = 0
        BY <1>6, <1>7
      <4> QED
        BY <1>1, <1>2, <4>1, <4>2, NewFlagVotes
    <3> QED
      BY <1>1, <1>2, <3>1, ReviewersFinite
  <2>2. TotalRewards(config) = config.flaggerReward + most
    BY DEF TotalRewards
  <2> HIDE DEF n
  <2>3. reviews \in Nat /\ most \in Nat /\ reviews <= most
    BY <1>1, <2>1
  <2>4. most = 0 \/ most < config.flagStake
    BY <1>5
  <2>5. RewardsPaid => TotalRewards(config) > 0
    BY <1>1 DEF RewardsPaid
  <2> HIDE DEF reviews, most
  <2>6. /\ config.flaggerReward + reviews <= atRisk
        /\ reviews = 0 \/ reviews < config.flagStake
        /\ RewardsPaid => atRisk > 0
    BY <1>1, <1>3, <1>5, <2>2, <2>3, <2>4, <2>5
  <2> QED
    BY <1>2, <1>7, <2>6 DEF Promises, reviews, n
<1>10. PromisesInv'
  BY <1>1, <1>2, <1>9, PromisesStep DEF SettlementInv
<1>11. Match(books', [halfDue EXCEPT ![f] = halfDue[f] + config.flagStake])
  <2> DEFINE mid == [books EXCEPT !.locked = half]
  <2>1. half \in [Operators -> Nat]
    BY <1>1, <1>3
  <2> HIDE DEF half
  <2>2. mid.locked = half /\ mid.forfeited = books.forfeited
    BY <1>1 DEF Books
  <2> HIDE DEF mid
  <2>3. Match(mid, halfDue)
    BY <1>1, <1>3, <2>2, LockMatches DEF half
  <2> HIDE DEF halfDue
  <2>4. books'.locked = locks /\ books'.forfeited = books.forfeited
    BY <1>1, <1>4 DEF Books
  <2> QED
    BY <1>1, <2>1, <2>2, <2>3, <2>4, LockMatches
<1>12. Due(flags') = [halfDue EXCEPT ![f] = halfDue[f] + config.flagStake]
  <2> DEFINE after == [halfDue EXCEPT ![f] = halfDue[f] + config.flagStake]
  <2>1. ASSUME NEW o \in Operators
        PROVE  Due(flags')[o] = after[o]
    <3>1. Due(flags')[o] = due[o] - OnFlagger(flags[t], o) + OnFlagger(flag, o)
                               - (IF o = t THEN OnTarget(flags[t]) ELSE 0)
                               + (IF o = t THEN OnTarget(flag) ELSE 0)
      <4>1. /\ flags = [u \in Operators |-> flags[u]]
            /\ \A u \in Operators : FlagInv(flags[u])
        BY <1>1 DEF FlagsInv
      <4>2. flags' = [flags EXCEPT ![t] = flag] /\ FlagInv(flag)
        BY <1>2, <1>8
      <4> HIDE DEF flag
      <4> QED
        BY <4>1, <4>2, DueChanges
    <3>2. /\ OnFlagger(flags[t], o) = 0 /\ OnTarget(flags[t]) = 0
          /\ OnFlagger(flag, o) = IF o = f THEN config.flagStake ELSE 0
          /\ OnTarget(flag) = atRisk
      BY <1>2, <1>7 DEF OnFlagger, OnTarget, Open
    <3>3. after[o] = due[o] + (IF o = f THEN config.flagStake ELSE 0)
                            + (IF o = t THEN atRisk ELSE 0)
      BY <1>1, <1>2, <1>3
    <3>4. due[o] \in Nat
      BY <1>1
    <3> HIDE DEF after, due
    <3> QED
      BY <1>1, <1>3, <3>1, <3>2, <3>3, <3>4
  <2>2. Due(flags') = [o \in Operators |-> Due(flags')[o]]
    BY DEF Due
  <2>3. after = [o \in Operators |-> after[o]]
    BY <1>1
  <2> HIDE DEF after
  <2>4. Due(flags') = after
    BY <2>1, <2>2, <2>3
  <2> QED
    BY <2>4 DEF after
<1>13. LocksInv'
  BY <1>11, <1>12 DEF LocksInv
<1>14. AgreeInv'
  <2>1. /\ books'.staked = books.staked /\ books'.joined = books.joined
        /\ books'.operatorCount = books.operatorCount
        /\ books'.totalStaked = books.totalStaked
    BY <1>1, <1>4 DEF Books
  <2> QED
    BY <2>1, SameStakesAgree DEF SettlementInv, AgreeInv
<1> QED
  BY <1>10, <1>13, <1>14 DEF SettlementInv

\* The flag that is settled: its terms are those of the open flag.
Settled(t, flag) ==
    /\ FlagInv(flag)
    /\ Promises(t, flag)
    /\ SameTerms(flag, flags[t])
    /\ EndVote(t, flag)

LEMMA SettledKeeps ==
    ASSUME IInv, SettlementInv, NEW t \in Operators, NEW flag, Settled(t, flag)
    PROVE  SettlementInv'
<1>1. PICK terms \in LeaveTermsOf(t), paid \in PaidSets(flag) :
        /\ books' = Settlement(books, t, flag, terms, paid).books
        /\ SettlesFlag(books, t, flag, terms, Due(flags),
                       Settlement(books, t, flag, terms, paid))
  BY EndVoteSettles DEF Settled
<1>2. /\ FlagsInv
      /\ flags' = [flags EXCEPT ![t] = NoFlag]
      /\ flag.flagger # t
  BY EndVoteSettles DEF Settled, IInv, Promises, SameTerms
<1>3. PromisesInv'
  BY <1>2, NoFlagPromises, PromisesStep DEF SettlementInv
<1>4. Match(books', Due(flags'))
  <2>1. Match(books', DueAfter(Due(flags), t, flag))
    BY <1>1 DEF SettlesFlag
  <2>2. Due(flags') = DueAfter(Due(flags), t, flag)
    BY <1>2, DueWhenOver DEF Settled
  <2> QED
    BY <2>1, <2>2
<1>5. RewardsPaid => Agree(books')
  BY <1>1 DEF SettlesFlag, SettlementInv, AgreeInv
<1>6. LocksInv' /\ AgreeInv'
  BY <1>4, <1>5 DEF LocksInv, AgreeInv
<1> QED
  BY <1>3, <1>6 DEF SettlementInv

LEMMA CastVotePromises ==
    ASSUME FlagsInv, PromisesInv, NEW t \in Operators, flags[t].phase # "none",
           NEW v \in Voters, flags[t].state[v] > 0, NEW kick \in BOOLEAN
    PROVE  LET voted == CastVote(flags[t], v, kick)
           IN  FlagInv(voted) /\ Promises(t, voted) /\ SameTerms(voted, flags[t])
<1> DEFINE flag == flags[t]
           voted == CastVote(flag, v, kick)
<1>1. /\ FlagInv(flag) /\ Promises(t, flag)
      /\ flag.phase # "none" /\ flag.state[v] > 0
  BY DEF FlagsInv, PromisesInv
<1> HIDE DEF flag
<1>2. /\ voted.phase = flag.phase
      /\ voted.flagger = flag.flagger
      /\ voted.atRisk = flag.atRisk
      /\ voted.flagStake = flag.flagStake
      /\ voted.flaggerReward = flag.flaggerReward
      /\ voted.reviewerReward = flag.reviewerReward
  <2>1. /\ voted.phase = flag.phase
        /\ voted.flagger = flag.flagger
        /\ voted.atRisk = flag.atRisk
        /\ voted.flagStake = flag.flagStake
        /\ voted.flaggerReward = flag.flaggerReward
        /\ voted.reviewerReward = flag.reviewerReward
        /\ voted.total = flag.total
        /\ voted.state = [flag.state EXCEPT ![v] = IF kick THEN VotedKick ELSE VotedNoKick]
        /\ voted.votesFor = IF kick THEN flag.votesFor + flag.state[v] ELSE flag.votesFor
        /\ voted.votesAgainst = IF kick THEN flag.votesAgainst
                                ELSE flag.votesAgainst + flag.state[v]
    BY <1>1, CastVoteFields
  <2> QED
    BY <2>1
<1>3. FlagInv(voted)
  BY <1>1, CastVoteSound
<1>4. ReviewersOf(voted) = ReviewersOf(flag)
  BY <1>1, CastVoteKeepsReviewers
<1> HIDE DEF voted
<1>5. Promises(t, voted)
  BY <1>1, <1>2, <1>4 DEF Promises
<1>6. SameTerms(voted, flag)
  BY <1>1, <1>2 DEF SameTerms
<1> QED
  BY <1>3, <1>5, <1>6 DEF voted, flag

\* A flag that only changes in its votes and its phase.
LEMMA FlagGoesOn ==
    ASSUME IInv, SettlementInv, NEW t \in Operators, NEW flag, FlagInv(flag),
           Promises(t, flag), SameTerms(flag, flags[t]),
           flags' = [flags EXCEPT ![t] = flag], UNCHANGED books
    PROVE  SettlementInv'
<1>1. FlagsInv
  BY DEF IInv
<1>2. PromisesInv'
  BY <1>1, PromisesStep DEF SettlementInv
<1>3. Due(flags') = Due(flags)
  BY <1>1, DueStays
<1>4. LocksInv'
  BY <1>3 DEF SettlementInv, LocksInv
<1>5. AgreeInv'
  BY DEF SettlementInv, AgreeInv
<1> QED
  BY <1>2, <1>4, <1>5 DEF SettlementInv

LEMMA VoteSettles ==
    ASSUME IInv, SettlementInv, NEW t \in Operators, NEW v \in Voters,
           NEW kick \in BOOLEAN, Vote(t, v, kick)
    PROVE  \/ \E flag : Settled(t, flag)
           \/ SettlementInv' /\ \A u \in Operators : Open(u) => Open(u)'
<1> DEFINE voted == CastVote(flags[t], v, kick)
<1>1. /\ flags[t].phase # "none"
      /\ flags[t].state[v] > 0
      /\ \/ EndVote(t, voted)
         \/ flags' = [flags EXCEPT ![t] = voted] /\ UNCHANGED books
  BY DEF Vote
<1>2. FlagInv(voted) /\ Promises(t, voted) /\ SameTerms(voted, flags[t])
  BY <1>1, CastVotePromises DEF IInv, SettlementInv
<1> HIDE DEF voted
<1>3. CASE EndVote(t, voted)
  BY <1>2, <1>3 DEF Settled
<1>4. CASE flags' = [flags EXCEPT ![t] = voted] /\ UNCHANGED books
  <2>1. SettlementInv'
    BY <1>2, <1>4, FlagGoesOn
  <2>2. \A u \in Operators : Open(u) => Open(u)'
    BY <1>2, <1>4 DEF IInv, FlagsInv, SameTerms, Open
  <2> QED
    BY <2>1, <2>2
<1> QED
  BY <1>1, <1>3, <1>4

LEMMA EndVotingPeriodSettles ==
    ASSUME IInv, SettlementInv, NEW t \in Operators, EndVotingPeriod(t)
    PROVE  Settled(t, flags[t])
<1>1. FlagInv(flags[t]) /\ Promises(t, flags[t])
  BY DEF IInv, FlagsInv, SettlementInv, PromisesInv
<1>2. EndVote(t, flags[t]) /\ SameTerms(flags[t], flags[t])
  BY DEF EndVotingPeriod, SameTerms
<1> QED
  BY <1>1, <1>2 DEF Settled

LEMMA PhaseEndsSettles ==
    ASSUME IInv, SettlementInv, NEW t \in Operators, PhaseEnds(t)
    PROVE  SettlementInv' /\ \A u \in Operators : Open(u) => Open(u)'
<1> DEFINE next == IF flags[t].phase = "review" THEN "voting" ELSE "ended"
           flag == [flags[t] EXCEPT !.phase = next]
<1>1. /\ FlagInv(flags[t]) /\ Promises(t, flags[t]) /\ FlagsInv
      /\ flags[t].phase # "none"
      /\ flags' = [flags EXCEPT ![t] = flag]
      /\ UNCHANGED books
  BY DEF IInv, FlagsInv, PhaseEnds, SettlementInv, PromisesInv
<1>2. next \in {"voting", "ended"}
  OBVIOUS
<1> HIDE DEF next
<1>3. /\ flag.phase = next
      /\ flag.flagger = flags[t].flagger
      /\ flag.atRisk = flags[t].atRisk
      /\ flag.flagStake = flags[t].flagStake
      /\ flag.flaggerReward = flags[t].flaggerReward
      /\ flag.reviewerReward = flags[t].reviewerReward
      /\ flag.state = flags[t].state
  BY <1>1 DEF FlagInv, FlagType
<1>4. FlagType(flag)
  BY <1>1, <1>2, <1>3 DEF FlagInv, FlagType
<1> HIDE DEF flag
<1>5. ReviewersOf(flag) = ReviewersOf(flags[t])
  BY <1>3 DEF ReviewersOf
<1>6. FlagInv(flag) /\ Promises(t, flag)
  BY <1>1, <1>3, <1>4, <1>5 DEF FlagInv, Promises
<1>7. SameTerms(flag, flags[t])
  BY <1>1, <1>2, <1>3 DEF SameTerms
<1>8. SettlementInv'
  BY <1>1, <1>6, <1>7, FlagGoesOn
<1>9. \A u \in Operators : Open(u) => Open(u)'
  BY <1>1, <1>7 DEF FlagsInv, SameTerms, Open
<1> QED
  BY <1>8, <1>9

\* Every transaction keeps the invariant, and only settling closes a flag.
LEMMA SettlementNext ==
    ASSUME IInv, SettlementInv, [Next]_vars
    PROVE  \/ \E t \in Operators : \E flag : Settled(t, flag)
           \/ SettlementInv' /\ \A u \in Operators : Open(u) => Open(u)'
<1>1. ASSUME UNCHANGED flags
      PROVE  \A u \in Operators : Open(u) => Open(u)'
  BY <1>1 DEF Open
<1>2. ASSUME NEW amount \in SponsorAmounts, PlainTransfer(amount)
      PROVE  SettlementInv' /\ UNCHANGED flags
  BY <1>2, PlainTransferSettles DEF PlainTransfer
<1>3. ASSUME NEW amount \in SponsorAmounts \cup {0}, Sponsor(amount)
      PROVE  SettlementInv' /\ UNCHANGED flags
  BY <1>3, SponsorSettles DEF Sponsor
<1>4. ASSUME NEW o \in Operators, NEW amount \in StakeAmounts, Stake(o, amount)
      PROVE  SettlementInv' /\ UNCHANGED flags
  BY <1>4, VoteKickAssumption, StakeSettles DEF Stake
<1>5. ASSUME NEW o \in Operators, NEW target \in StakeAmounts, ReduceStakeTo(o, target)
      PROVE  SettlementInv' /\ UNCHANGED flags
  BY <1>5, VoteKickAssumption, ReduceStakeToSettles DEF ReduceStakeTo
<1>6. ASSUME NEW o \in Operators, NEW earnings \in 1 .. books.pool,
             NEW accepted \in Accepts(o), Withdraw(o, earnings, accepted)
      PROVE  SettlementInv' /\ UNCHANGED flags
  BY <1>6, WithdrawSettles DEF Withdraw
<1>7. ASSUME NEW o \in Operators, NEW terms \in LeaveTermsOf(o),
             \/ Unstake(o, terms)
             \/ ForceUnstake(o, terms)
             \/ \E f \in Flaggers : FlagKicks(f, o, terms)
      PROVE  SettlementInv' /\ UNCHANGED flags
  <2>1. /\ o \in books.joined
        /\ Commit(RemoveOperator(books, o, terms))
        /\ UNCHANGED flags
    BY <1>7 DEF Unstake, ForceUnstake, FlagKicks
  <2> QED
    BY <2>1, RemoveOperatorSettles
<1>8. ASSUME NEW f \in Flaggers, NEW t \in Operators, NEW R \in SUBSET Voters,
             NEW weight \in [R -> Weights], Flag(f, t, weight)
      PROVE  SettlementInv' /\ \A u \in Operators : Open(u) => Open(u)'
  <2>1. SettlementInv'
    BY <1>8, VoteKickAssumption, FlagSettles
  <2>2. ~Open(t) /\ \E flag : flags' = [flags EXCEPT ![t] = flag]
    BY <1>8 DEF Flag, MayFlag
  <2>3. \A u \in Operators : Open(u) => Open(u)'
    BY <2>2 DEF Open, IInv, FlagsInv
  <2> QED
    BY <2>1, <2>3
<1>9. ASSUME NEW t \in Operators, ProtectionEnds(t)
      PROVE  SettlementInv' /\ UNCHANGED flags
  BY <1>9, TokensMoveStep DEF ProtectionEnds
<1>10. ASSUME NEW c \in Configs, ChangeConfig(c)
       PROVE  SettlementInv' /\ UNCHANGED flags
  BY <1>10, TokensMoveStep DEF ChangeConfig
<1>11. CASE UNCHANGED vars
  <2>1. SettlementInv' /\ UNCHANGED flags
    BY <1>11, TokensMoveStep DEF vars
  <2> QED
    BY <1>1, <2>1
<1>12. CASE Next
  BY <1>1, <1>2, <1>3, <1>4, <1>5, <1>6, <1>7, <1>8, <1>9, <1>10, <1>12,
     VoteSettles, EndVotingPeriodSettles, PhaseEndsSettles DEF Next
<1> QED
  BY <1>11, <1>12

LEMMA InitSettlementInv == Init => SettlementInv
<1> SUFFICES ASSUME Init PROVE SettlementInv
  OBVIOUS
<1> DEFINE zero == [o \in Operators |-> 0]
<1>1. /\ books.staked = zero /\ books.locked = zero /\ books.joined = {}
      /\ books.forfeited = 0 /\ books.totalStaked = 0 /\ books.operatorCount = 0
      /\ flags = [t \in Operators |-> NoFlag]
  BY DEF Init, EmptyBooks
<1>2. IsFiniteSet(Operators)
  BY VoteKickAssumption
<1>3. SumFunction(zero) = 0
  BY <1>2, SumOverDomain, SumOfZeros
<1>4. Due(flags) = zero
  <2>1. NoFlag.phase = "none"
    BY DEF NoFlag
  <2>2. \A u \in Operators : /\ OnTarget(flags[u]) = 0
                             /\ \A o : OnFlagger(flags[u], o) = 0
    BY <1>1, <2>1 DEF OnTarget, OnFlagger
  <2>3. ASSUME NEW o \in Operators
        PROVE  SumFunctionOnSet(AsFlagger(flags, o), Operators) = 0
    <3> DEFINE g == AsFlagger(flags, o)
    <3>1. \A u \in Operators : g[u] = 0
      BY <2>2 DEF AsFlagger
    <3> HIDE DEF g
    <3>2. SumFunctionOnSet(g, Operators) = 0
      BY <1>2, <3>1, SumOfZeros
    <3> QED
      BY <3>2 DEF g
  <2> QED
    BY <2>2, <2>3 DEF Due
<1> HIDE DEF zero
<1>5. PromisesInv
  BY <1>1, NoFlagPromises DEF PromisesInv
<1>6. LocksInv
  <2>1. zero \in [Operators -> Nat] /\ \A o \in Operators : zero[o] <= zero[o]
    BY DEF zero
  <2> QED
    BY <1>1, <1>3, <1>4, <2>1 DEF LocksInv, Match
<1>7. Agree(books)
  <2>1. \A o \in Operators : zero[o] = 0
    BY DEF zero
  <2> QED
    BY <1>1, <1>3, <2>1, FS_EmptySet DEF Agree
<1> QED
  BY <1>5, <1>6, <1>7 DEF SettlementInv, AgreeInv

LEMMA SettlementInvariance == Spec => []SettlementInv
<1>1. IInv /\ SettlementInv /\ [Next]_vars => SettlementInv'
  BY SettlementNext, SettledKeeps
<1> QED
  BY <1>1, InitSettlementInv, Invariance, PTL DEF Spec

-----------------------------------------------------------------------------
(* The theorems *)

\* Locked and forfeited stake are together exactly what the open flags need, for
\* any operators, voters and configurations: _removeOperator() forfeits what it
\* unlocks, and _endVote() takes it back from where it is.
THEOREM LocksAlwaysMatchFlags == Spec => []LocksMatchFlags
<1>1. IInv /\ SettlementInv => LocksMatchFlags
  <2> SUFFICES ASSUME IInv, SettlementInv PROVE LocksMatchFlags
    OBVIOUS
  <2>1. Match(books, Due(flags)) /\ FlagsInv
    BY DEF IInv, SettlementInv, LocksInv
  <2>2. \A o \in Operators : DueFrom(o) = Due(flags)[o]
    BY <2>1, DueFromIsDue
  <2>3. [o \in Operators |-> DueFrom(o)] = Due(flags)
    <3>1. Due(flags) = [o \in Operators |-> Due(flags)[o]]
      BY DEF Due
    <3> QED
      BY <2>2, <3>1
  <2> QED
    BY <2>1, <2>2, <2>3 DEF Match, LocksMatchFlags
<1> QED
  BY <1>1, Invariance, SettlementInvariance, PTL

\* The redundant bookkeeping agrees, as long as the rewards are not all zero:
\* without rewards there is no minimum stake, and one may join with none.
THEOREM StakesAlwaysAgree ==
    ASSUME RewardsPaid
    PROVE  Spec => []StakesAgree
<1>1. IInv /\ SettlementInv => StakesAgree
  <2> SUFFICES ASSUME IInv, SettlementInv PROVE StakesAgree
    OBVIOUS
  <2>1. Agree(books) /\ books \in Books /\ Covered(books)
    BY DEF IInv, BooksInv, SettlementInv, AgreeInv
  <2> QED
    BY <2>1 DEF Agree, Covered, Books, StakesAgree
<1> QED
  BY <1>1, Invariance, SettlementInvariance, PTL

\* What is left when every account has been debited covers what is counted twice.
LEMMA SettlesCommits ==
    ASSUME NEW b \in Books, Owed(b) <= b.balance, b.pool >= 0,
           NEW t \in Operators, NEW flag, flag.flagger \in Operators, flag.flagger # t,
           NEW terms, terms.earnings \in 0 .. b.pool, NEW due, Agree(b),
           NEW s, Settles(b, s), SettlesFlag(b, t, flag, terms, due, s)
    PROVE  Commits(s.books)
<1> DEFINE c == s.books
           f == flag.flagger
<1>1. /\ c \in Books
      /\ s.doublePaid \in Nat
      /\ Owed(b) - Owed(c) >= b.balance - (c.balance + s.doublePaid)
  BY DEF Settles
<1>2. /\ Agree(c)
      /\ Match(c, DueAfter(due, t, flag))
      /\ s.doublePaid <= c.staked[t] + c.staked[f]
      /\ c.pool \in {b.pool, b.pool - terms.earnings}
  BY DEF SettlesFlag
<1> HIDE DEF c
<1>3. c.forfeited >= 0
  BY <1>1, <1>2, MatchedForfeits
<1>4. /\ c.totalStaked \in Nat
      /\ c.staked[t] + c.staked[f] <= c.totalStaked
  <2> DEFINE Sum(U) == SumFunctionOnSet(c.staked, U)
  <2>1. c.staked \in [Operators -> Nat] /\ IsFiniteSet(Operators)
    BY <1>1, VoteKickAssumption DEF Books
  <2>2. c.totalStaked = Sum(Operators)
    BY <1>2, <2>1, SumOverDomain DEF Agree
  <2>3. Sum(Operators) = c.staked[t] + Sum(Operators \ {t}) /\ Sum(Operators) \in Nat
    BY <2>1, SumTakes, SumOfNaturals
  <2>4. c.staked[f] <= Sum(Operators \ {t})
    <3>1. IsFiniteSet(Operators \ {t}) /\ \A o \in Operators \ {t} : c.staked[o] \in Nat
      BY <2>1, FS_RemoveElement
    <3> QED
      BY <3>1, SumOfNaturals
  <2>5. Sum(Operators \ {t}) \in Nat /\ c.staked[t] \in Nat /\ c.staked[f] \in Nat
    BY <2>1, FS_RemoveElement, SumOfNaturals
  <2> HIDE DEF Sum
  <2> QED
    BY <2>2, <2>3, <2>4, <2>5
<1>5. c.operatorCount >= 0
  BY <1>1, <1>2, VoteKickAssumption, FS_Subset, FS_CardinalityType DEF Agree, Books
<1>6. /\ c.balance \in Int /\ c.pool \in Int /\ c.forfeited \in Int
      /\ b.balance \in Int /\ Owed(b) \in Int /\ b.pool \in Int
      /\ c.staked[t] \in Nat /\ c.staked[f] \in Nat
  BY <1>1 DEF Books, Owed
<1>7. c.pool >= 0
  BY <1>2, <1>6
<1>8. Owed(c) = c.totalStaked + c.pool + c.forfeited
  BY DEF Owed
<1>9. c.balance >= 0
  BY <1>1, <1>2, <1>3, <1>4, <1>6, <1>7, <1>8
<1>10. Commits(c)
  BY <1>3, <1>4, <1>5, <1>7, <1>9 DEF Commits
<1> QED
  BY <1>10 DEF c

\* At any time every open flag can be settled, whatever the verdict and the terms
\* the target leaves under, as long as nothing has been paid twice before: neither
\* _handleKick() nor _handleNoKick() can revert and leave the flag open for ever.
THEOREM FlagsCanAlwaysBeSettled ==
    ASSUME RewardsPaid
    PROVE  Spec => []FlagsCanBeSettled
<1>1. IInv /\ SettlementInv => FlagsCanBeSettled
  <2> SUFFICES ASSUME IInv, SettlementInv, doublePaid = 0,
                      NEW t \in OpenFlags, NEW terms \in LeaveTermsOf(t),
                      NEW verdict \in {VotedKick, VotedNoKick}
               PROVE  LET paid == ReviewersOf(flags[t]) \cup {flags[t].flagger}
                          s == IF verdict = VotedKick
                               THEN HandleKick(books, t, flags[t], terms, paid)
                               ELSE HandleNoKick(books, t, flags[t], paid)
                      IN  s.payable /\ Commits(s.books)
    BY DEF FlagsCanBeSettled
  <2> DEFINE flag == flags[t]
             f == flag.flagger
             paid == ReviewersOf(flag) \cup {f}
             rewards == Cardinality(paid \ {f}) * flag.reviewerReward
             due == Due(flags)
  <2>1. /\ BooksInv /\ FlagsInv
        /\ books \in Books /\ Covered(books) /\ books.pool >= 0
        /\ Owed(books) <= books.balance
        /\ Agree(books) /\ Match(books, due)
        /\ t \in Operators /\ FlagInv(flag) /\ flag.phase # "none" /\ Promises(t, flag)
        /\ books.pool \in Int /\ books.balance \in Int
    BY DEF IInv, BooksInv, FlagsInv, SolventUpToDoublePay, Commits, Books, SettlementInv,
           AgreeInv, LocksInv, PromisesInv, OpenFlags, Open
  <2>2. /\ terms \in LeaveTerms
        /\ terms.earnings \in 0 .. books.pool
    BY <2>1, LeaveTermsTyped DEF LeaveTermsOf
  <2>3. /\ f \in Operators /\ f # t
        /\ flag.atRisk \in Nat /\ flag.flagStake \in Nat /\ flag.flaggerReward \in Nat
        /\ flag.atRisk > 0
    BY <2>1 DEF FlagInv, FlagType, Promises
  <2>4. flag.atRisk <= due[t] /\ flag.flagStake <= due[f]
    BY <2>1, <2>3, DueWhenOver DEF SameTerms
  <2>5. /\ rewards \in Nat
        /\ rewards = 0 \/ rewards < flag.flagStake
        /\ flag.flaggerReward + rewards <= flag.atRisk
    <3>1. paid \ {f} \subseteq ReviewersOf(flag)
      OBVIOUS
    <3> HIDE DEF flag, paid
    <3> QED
      BY <2>1, <3>1, RewardsKept
  <2>6. books.locked[t] >= flag.atRisk => t \in books.joined
    BY <2>1, <2>3 DEF Agree, Books, Covered
  <2>7. rewards = Cardinality(paid \ {f}) * flag.reviewerReward
    OBVIOUS
  <2> HIDE DEF rewards, paid, flag, due
  <2>8. LET s == HandleKick(books, t, flag, terms, paid)
        IN  s.payable /\ Commits(s.books)
    <3> DEFINE s == HandleKick(books, t, flag, terms, paid)
    <3>1. SettlesFlag(books, t, flag, terms, due, s)
      BY <2>1, <2>2, <2>3, <2>4, <2>6, HandleKickSettles
    <3>2. Settles(books, s)
      BY <2>1, <2>2, <2>3, HandleKickEffect
    <3>3. s.payable
      <4>1. \E covered \in BOOLEAN :
              s.payable = ((IF covered /\ f \in paid THEN flag.flaggerReward ELSE 0)
                              + Cardinality(paid \ {f}) * flag.reviewerReward <= flag.atRisk
                           /\ (books.locked[t] >= flag.atRisk => t \in books.joined))
        BY DEF HandleKick
      <4>2. \A covered \in BOOLEAN :
              (IF covered /\ f \in paid THEN flag.flaggerReward ELSE 0) + rewards
                <= flag.atRisk
        BY <2>3, <2>5
      <4> QED
        BY <2>6, <2>7, <4>1, <4>2
    <3> HIDE DEF s
    <3>4. Commits(s.books)
      BY <2>1, <2>2, <2>3, <3>1, <3>2, SettlesCommits
    <3> QED
      BY <3>3, <3>4 DEF s
  <2>9. LET s == HandleNoKick(books, t, flag, paid)
        IN  s.payable /\ Commits(s.books)
    <3> DEFINE s == HandleNoKick(books, t, flag, paid)
    <3>1. SettlesFlag(books, t, flag, terms, due, s)
      BY <2>1, <2>2, <2>3, <2>4, <2>5, <2>7, HandleNoKickSettles
    <3>2. Settles(books, s)
      <4>1. rewards \in Nat /\ rewards <= flag.flagStake
        BY <2>3, <2>5
      <4>2. /\ Cardinality(paid \ {f}) * flag.reviewerReward \in Nat
            /\ Cardinality(paid \ {f}) * flag.reviewerReward <= flag.flagStake
        BY <2>7, <4>1
      <4> QED
        BY <2>1, <2>3, <4>2, HandleNoKickEffect
    <3>3. s.payable
      <4>1. rewards <= flag.flagStake
        BY <2>3, <2>5
      <4>2. \E covered \in BOOLEAN :
              s.payable = (covered \/ Cardinality(paid \ {f}) * flag.reviewerReward
                                        <= flag.flagStake)
        BY DEF HandleNoKick
      <4> QED
        BY <2>7, <4>1, <4>2
    <3> HIDE DEF s
    <3>4. Commits(s.books)
      BY <2>1, <2>2, <2>3, <3>1, <3>2, SettlesCommits
    <3> QED
      BY <3>3, <3>4 DEF s
  <2> QED
    BY <2>8, <2>9 DEF flag, paid
<1> QED
  BY <1>1, Invariance, SettlementInvariance, PTL

\* A settlement touches only the two parties of its flag: the target loses nothing
\* unless it is removed, and the flagger no more than it put on the flag.
THEOREM SettlementsAreBounded == Spec => SettlementIsBounded
<1> DEFINE Bounded ==
      \A t \in Operators : (Open(t) /\ ~Open(t)') =>
         /\ \A o \in Operators \ {t, flags[t].flagger} :
              books'.staked[o] = books.staked[o] /\ books'.locked[o] = books.locked[o]
         /\ books'.staked[t] \in {0, books.staked[t]}
         /\ books.locked[t] < flags[t].atRisk => books'.staked[t] = books.staked[t]
         /\ books'.staked[flags[t].flagger] + flags[t].flagStake
              >= books.staked[flags[t].flagger]
<1>1. IInv /\ SettlementInv /\ [Next]_vars => [Bounded]_vars
  <2> SUFFICES ASSUME IInv, SettlementInv, [Next]_vars,
                      NEW t \in Operators, Open(t), ~Open(t)'
               PROVE  /\ \A o \in Operators \ {t, flags[t].flagger} :
                           /\ books'.staked[o] = books.staked[o]
                           /\ books'.locked[o] = books.locked[o]
                      /\ books'.staked[t] \in {0, books.staked[t]}
                      /\ books.locked[t] < flags[t].atRisk
                           => books'.staked[t] = books.staked[t]
                      /\ books'.staked[flags[t].flagger] + flags[t].flagStake
                           >= books.staked[flags[t].flagger]
    OBVIOUS
  <2>1. PICK u \in Operators : \E flag : Settled(u, flag)
    BY SettlementNext
  <2>2. PICK flag : Settled(u, flag)
    BY <2>1
  <2>3. flags' = [flags EXCEPT ![u] = NoFlag] /\ FlagsInv
    BY <2>2, EndVoteSettles DEF Settled, IInv
  <2>4. u = t
    BY <2>3 DEF Open, FlagsInv
  <2>5. \E s, terms : /\ books' = s.books
                      /\ SettlesFlag(books, t, flag, terms, Due(flags), s)
    BY <2>2, <2>4, EndVoteSettles DEF Settled
  <2>6. /\ flag.flagger = flags[t].flagger /\ flag.atRisk = flags[t].atRisk
        /\ flag.flagStake = flags[t].flagStake
    BY <2>2, <2>4 DEF Settled, SameTerms
  <2> QED
    BY <2>5, <2>6 DEF SettlesFlag, Same
<1> QED
  BY <1>1, Invariance, SettlementInvariance, PTL DEF Spec, SettlementIsBounded

=============================================================================
