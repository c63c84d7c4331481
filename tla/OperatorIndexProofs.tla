------------------------- MODULE OperatorIndexProofs -------------------------
(***************************************************************************)
(* The subgraph's view of an Operator, for any holders, Sponsorships and   *)
(* amounts: after every transaction the entities show the operator tokens, *)
(* the queue, the stake, the cut and the voting right, and the earnings    *)
(* credited to the delegators stay within the operator's profits.          *)
(***************************************************************************)
EXTENDS OperatorProofs

-----------------------------------------------------------------------------
(* The store after a transaction's log *)

\* The store after the first k events is iter[1 .. k].
IsReading(st, log, n, iter) ==
    iter[{}] = st /\ \A k \in 1 .. n : iter[1 .. k] = Index!Handle(iter[1 .. k - 1], log[k])

\* The events of a log are handled one after the other.
LEMMA LogIsRead ==
    ASSUME NEW st, NEW log, NEW n \in Nat, DOMAIN log = 1 .. n
    PROVE  \E iter : /\ IsReading(st, log, n, iter)
                     /\ Index!HandleAll(st, log) = iter[1 .. n]
<1> DEFINE Step(h, s) == IF s = {} THEN st ELSE Index!Handle(h[s \ {Max(s)}], log[Max(s)])
           RunTo(h, k) == [s \in SUBSET (1 .. k) |-> Step(h, s)]
           iter == CHOOSE h : h = RunTo(h, n)
<1>1. Index!HandleAll(st, log) = iter[1 .. n]
  BY DEF Index!HandleAll, Index!FoldLeft, Index!MapThenFoldSet, Index!Max, Max
<1>2. \E h : h = RunTo(h, n)
  <2> DEFINE T == {k \in 1 .. n + 1 : \E h : h = RunTo(h, k - 1)}
  <2>1. 1 \in T
    <3> DEFINE g == [s \in SUBSET (1 .. 1 - 1) |-> st]
    <3>1. \A s \in SUBSET (1 .. 1 - 1) : s = {}
      OBVIOUS
    <3>2. g = RunTo(g, 1 - 1)
      BY <3>1
    <3>3. 1 \in 1 .. n + 1
      OBVIOUS
    <3> HIDE DEF RunTo
    <3> QED
      BY <3>2, <3>3
  <2>2. ASSUME NEW k \in 1 .. n + 1, k < n + 1, k \in T
        PROVE  k + 1 \in T
    <3>1. PICK g : g = RunTo(g, k - 1)
      <4> HIDE DEF RunTo
      <4> QED
        BY <2>2
    <3> DEFINE h == [s \in SUBSET (1 .. k) |->
                       IF k \in s THEN Index!Handle(g[s \ {k}], log[k]) ELSE g[s]]
    <3>2. \A s \in SUBSET (1 .. k - 1) : g[s] = Step(g, s)
      <4> HIDE DEF Step
      <4> QED
        BY <3>1
    <3>3. ASSUME NEW s \in SUBSET (1 .. k)
          PROVE  h[s] = Step(h, s)
      <4>1. CASE k \in s
        <5>1. Max(s) = k
          <6>1. s \in SUBSET Int /\ \A x \in s : x <= k
            OBVIOUS
          <6> QED
            BY <6>1, <4>1, MaxIs
        <5>2. h[s \ {k}] = g[s \ {k}]
          OBVIOUS
        <5> QED
          BY <4>1, <5>1, <5>2
      <4>2. CASE k \notin s
        <5>1. s \in SUBSET (1 .. k - 1)
          BY <4>2
        <5>2. h[s] = g[s] /\ h[s \ {Max(s)}] = g[s \ {Max(s)}]
          BY <4>2
        <5> HIDE DEF h
        <5> QED
          BY <3>2, <5>1, <5>2
      <4> QED
        BY <4>1, <4>2
    <3> HIDE DEF Step
    <3>4. h = RunTo(h, k)
      BY <3>3
    <3>5. (k + 1) - 1 = k /\ k + 1 \in 1 .. n + 1
      BY <2>2
    <3> HIDE DEF RunTo
    <3> QED
      BY <3>4, <3>5
  <2> HIDE DEF RunTo
  <2>3. n + 1 \in T
    <3> HIDE DEF T
    <3>1. n + 1 \in Nat /\ n + 1 \in 1 .. n + 1
      OBVIOUS
    <3>2. 1 .. n + 1 \subseteq T
      BY <2>1, <2>2, <3>1, IntervalInduction
    <3> QED
      BY <3>1, <3>2
  <2>4. (n + 1) - 1 = n
    OBVIOUS
  <2> QED
    BY <2>3, <2>4
<1>3. iter = RunTo(iter, n)
  <2> HIDE DEF RunTo
  <2> QED
    BY <1>2
<1> HIDE DEF iter
<1>4. \A s \in SUBSET (1 .. n) : iter[s] = Step(iter, s)
  <2> HIDE DEF Step
  <2> QED
    BY <1>3
<1>5. iter[{}] = st
  BY <1>4
<1>6. ASSUME NEW k \in 1 .. n
      PROVE  iter[1 .. k] = Index!Handle(iter[1 .. k - 1], log[k])
  <2>1. Max(1 .. k) = k /\ (1 .. k) \ {k} = 1 .. k - 1 /\ 1 .. k # {}
    <3>1. k \in Nat /\ k > 0
      OBVIOUS
    <3> QED
      BY <3>1, LastOfInterval
  <2>2. 1 .. k \in SUBSET (1 .. n)
    OBVIOUS
  <2> QED
    BY <1>4, <2>1, <2>2
<1> HIDE DEF Step, RunTo
<1> QED
  BY <1>1, <1>5, <1>6 DEF IsReading

\* A log with one event more: that one is handled last.
LEMMA EventIsHandledLast ==
    ASSUME NEW st, NEW E, NEW log \in Seq(E), NEW e
    PROVE  /\ Index!HandleAll(st, Append(log, e)) = Index!Handle(Index!HandleAll(st, log), e)
           /\ Append(log, e) \in Seq(E \cup {e})
<1> DEFINE n == Len(log)
           more == Append(log, e)
<1>1. log \in Seq(E \cup {e})
  OBVIOUS
<1>2. more \in Seq(E \cup {e})
  BY <1>1
<1>3. /\ n \in Nat /\ DOMAIN log = 1 .. n
      /\ n + 1 \in Nat /\ DOMAIN more = 1 .. n + 1
      /\ more[n + 1] = e /\ \A k \in 1 .. n : more[k] = log[k]
  BY <1>1
<1> HIDE DEF n, more
<1>4. PICK a : IsReading(st, log, n, a) /\ Index!HandleAll(st, log) = a[1 .. n]
  BY <1>3, LogIsRead
<1>5. PICK b : IsReading(st, more, n + 1, b) /\ Index!HandleAll(st, more) = b[1 .. n + 1]
  BY <1>3, LogIsRead
<1> DEFINE T == {k \in 1 .. n : a[1 .. k] = b[1 .. k]}
<1>6. 1 .. 0 = {} /\ 1 .. 1 - 1 = {} /\ a[{}] = b[{}]
  BY <1>4, <1>5 DEF IsReading
<1>7. \A k \in 1 .. n : a[1 .. k - 1] = b[1 .. k - 1] => a[1 .. k] = b[1 .. k]
  <2> SUFFICES ASSUME NEW k \in 1 .. n, a[1 .. k - 1] = b[1 .. k - 1]
               PROVE  a[1 .. k] = b[1 .. k]
    OBVIOUS
  <2>1. k \in 1 .. n + 1
    BY <1>3
  <2> QED
    BY <1>3, <1>4, <1>5, <2>1 DEF IsReading
<1>8. a[1 .. n] = b[1 .. n]
  <2>1. CASE n = 0
    BY <1>6, <2>1
  <2>2. CASE n > 0
    <3>1. 1 \in T
      <4>1. 1 \in 1 .. n
        BY <1>3, <2>2
      <4> QED
        BY <1>6, <1>7, <4>1
    <3>2. ASSUME NEW i \in 1 .. n, i < n, i \in T
          PROVE  i + 1 \in T
      <4>1. i + 1 \in 1 .. n /\ (i + 1) - 1 = i
        BY <1>3, <3>2
      <4> QED
        BY <1>7, <3>2, <4>1
    <3> HIDE DEF T
    <3>3. 1 .. n \subseteq T
      BY <1>3, <3>1, <3>2, IntervalInduction
    <3>4. n \in T
      BY <1>3, <2>2, <3>3
    <3> QED
      BY <3>4 DEF T
  <2> QED
    BY <1>3, <2>1, <2>2
<1>9. b[1 .. n + 1] = Index!Handle(b[1 .. n], e)
  <2>1. n + 1 \in 1 .. n + 1 /\ (n + 1) - 1 = n
    BY <1>3
  <2> QED
    BY <1>3, <1>5, <2>1 DEF IsReading
<1>10. Index!HandleAll(st, more) = Index!Handle(Index!HandleAll(st, log), e)
  BY <1>4, <1>5, <1>8, <1>9
<1> QED
  BY <1>2, <1>10 DEF more

LEMMA NothingToHandle ==
    ASSUME NEW st
    PROVE  Index!HandleAll(st, <<>>) = st
<1>1. DOMAIN <<>> = 1 .. 0 /\ 0 \in Nat /\ 1 .. 0 = {}
  OBVIOUS
<1>2. PICK iter : IsReading(st, <<>>, 0, iter) /\ Index!HandleAll(st, <<>>) = iter[1 .. 0]
  BY <1>1, LogIsRead
<1> QED
  BY <1>1, <1>2 DEF IsReading

LEMMA OneToHandle ==
    ASSUME NEW st, NEW e
    PROVE  Index!HandleAll(st, <<e>>) = Index!Handle(st, e)
<1>1. /\ DOMAIN <<e>> = 1 .. 1 /\ 1 \in Nat /\ 1 .. 0 = {} /\ 1 - 1 = 0
      /\ <<e>>[1] = e /\ 1 \in 1 .. 1
  OBVIOUS
<1>2. PICK iter : IsReading(st, <<e>>, 1, iter) /\ Index!HandleAll(st, <<e>>) = iter[1 .. 1]
  BY <1>1, LogIsRead
<1>3. iter[1 .. 0] = st
  BY <1>1, <1>2 DEF IsReading
<1>4. iter[1 .. 1] = Index!Handle(iter[1 .. 0], e)
  BY <1>1, <1>2 DEF IsReading
<1> QED
  BY <1>2, <1>3, <1>4

-----------------------------------------------------------------------------
(* The entities, and what they show of the accounts *)

StoreFields ==
    {"delegatorCount", "totalStakeInSponsorshipsWei", "dataTokenBalanceWei",
     "operatorTokenTotalSupplyWei", "cumulativeProfitsWei", "exchangeRate",
     "isEligibleToVote", "operatorsCutFraction", "delegations", "pastDelegationCount",
     "delegators", "queueEntries", "bucket", "network"}

NetworkFields == {"totalStake", "totalDelegated", "totalUndelegated", "eligibleVotersCount"}

DelegatorEntities ==
    [numberOfDelegations : Int, totalValueDataWei : Int, cumulativeEarningsWei : Int]
DelegationEntities == [operatorTokenBalanceWei : Nat \ {0}, valueDataWei : Int]
Buckets == [exists : BOOLEAN, delegatorCountAtStart : Int, delegatorCountChange : Int]

\* The types of the entities.
IsStore(st) ==
    /\ DOMAIN st = StoreFields /\ DOMAIN st.network = NetworkFields
    /\ st.delegators \in [Holders -> DelegatorEntities]
    /\ DOMAIN st.delegations \subseteq Holders
    /\ \A h \in DOMAIN st.delegations : st.delegations[h] \in DelegationEntities
    /\ st.bucket \in Buckets
    /\ st.cumulativeProfitsWei \in Int /\ st.totalStakeInSponsorshipsWei \in Int

\* The delegations are counted by the operator, its day, and the delegators.
DelegationsCounted(st) ==
    /\ st.delegatorCount = Cardinality(DOMAIN st.delegations)
    /\ st.bucket.exists => st.bucket.delegatorCountAtStart + st.bucket.delegatorCountChange
                              = st.delegatorCount
    /\ \A h \in Holders :
         /\ st.delegators[h].numberOfDelegations = IF h \in DOMAIN st.delegations THEN 1 ELSE 0
         /\ st.delegators[h].totalValueDataWei =
              IF h \in DOMAIN st.delegations THEN st.delegations[h].valueDataWei ELSE 0

EarningsIn(st) == SumFunction([h \in Holders |-> st.delegators[h].cumulativeEarningsWei])

\* What holds of the entities alone, after every event.
Orderly(st) ==
    /\ IsStore(st)
    /\ DelegationsCounted(st)
    /\ EarningsIn(st) <= st.cumulativeProfitsWei
    /\ st.network.totalStake = st.totalStakeInSponsorshipsWei

\* The delegations show the operator tokens; those of H are still to be reported.
TokensShown(st, a, H) ==
    /\ \A h \in Holders \ H : h \in DOMAIN st.delegations <=> a.tokens[h] > 0
    /\ \A h \in DOMAIN st.delegations \ H :
         st.delegations[h].operatorTokenBalanceWei = a.tokens[h]
    /\ H = {} => st.operatorTokenTotalSupplyWei = Supply(a)

\* The index of the entry at position i, and the entries with something to pay
IndexOf(a, i) == QueueIndex(a) + i - 1
Waiting(a) == {i \in DOMAIN a.queue : a.queue[i].amount > 0}

QueueShown(st, a) ==
    /\ DOMAIN st.queueEntries = {IndexOf(a, i) : i \in Waiting(a)}
    /\ \A i \in Waiting(a) : st.queueEntries[IndexOf(a, i)] = a.queue[i]

SettingsShown(st, a) ==
    /\ st.operatorsCutFraction = a.cut
    /\ st.isEligibleToVote = a.voter
    /\ st.network.eligibleVotersCount = IF a.voter THEN 1 ELSE 0

ValueShown(st, a) ==
    /\ st.totalStakeInSponsorshipsWei = a.totalStaked - a.totalSlashed
    /\ st.dataTokenBalanceWei \in Int /\ st.dataTokenBalanceWei <= a.balance

\* All of it, except for the tokens of H and, unless it is reported, the value.
Shows(st, a, H, reported) ==
    /\ Orderly(st)
    /\ TokensShown(st, a, H) /\ QueueShown(st, a) /\ SettingsShown(st, a)
    /\ reported => ValueShown(st, a)

-----------------------------------------------------------------------------
(* The handlers *)

\* A handler that leaves the delegations, the earnings and the network's stake alone.
LEMMA StaysOrderly ==
    ASSUME NEW st, Orderly(st), NEW t, DOMAIN t = StoreFields, DOMAIN t.network = NetworkFields,
           t.delegators = st.delegators, t.delegations = st.delegations,
           t.delegatorCount = st.delegatorCount,
           t.cumulativeProfitsWei = st.cumulativeProfitsWei,
           t.totalStakeInSponsorshipsWei \in Int,
           t.network.totalStake = t.totalStakeInSponsorshipsWei,
           t.bucket = st.bucket
    PROVE  Orderly(t)
  BY DEF Orderly, IsStore, DelegationsCounted, EarningsIn

LEMMA WithBucketIs ==
    ASSUME NEW st, Orderly(st)
    PROVE  LET t == Index!WithBucket(st)
           IN  /\ Orderly(t) /\ t.bucket.exists
               /\ \A f \in StoreFields \ {"bucket"} : t[f] = st[f]
<1> DEFINE t == Index!WithBucket(st)
           bucket == [exists |-> TRUE, delegatorCountAtStart |-> st.delegatorCount,
                      delegatorCountChange |-> 0]
<1>1. st.delegatorCount \in Int
  <2>1. IsFiniteSet(DOMAIN st.delegations)
    BY OperatorAssumption, FS_Subset DEF Orderly, IsStore
  <2> QED
    BY <2>1, FS_CardinalityType DEF Orderly, DelegationsCounted
<1>2. DOMAIN st = StoreFields /\ st.bucket \in Buckets
  BY DEF Orderly, IsStore
<1>3. CASE st.bucket.exists
  <2>1. t = st
    BY <1>3 DEF Index!WithBucket
  <2> QED
    BY <1>3, <2>1
<1>4. CASE ~st.bucket.exists
  <2>1. t = [st EXCEPT !.bucket = bucket]
    BY <1>4 DEF Index!WithBucket
  <2>2. /\ DOMAIN t = StoreFields /\ t.bucket = bucket
        /\ \A f \in StoreFields \ {"bucket"} : t[f] = st[f]
    BY <1>2, <2>1 DEF StoreFields
  <2>3. bucket \in Buckets /\ bucket.exists
        /\ bucket.delegatorCountAtStart + bucket.delegatorCountChange = st.delegatorCount
    BY <1>1 DEF Buckets
  <2> HIDE DEF t, bucket
  <2>4. /\ t.delegators = st.delegators /\ t.delegations = st.delegations
        /\ t.delegatorCount = st.delegatorCount
        /\ t.cumulativeProfitsWei = st.cumulativeProfitsWei
        /\ t.totalStakeInSponsorshipsWei = st.totalStakeInSponsorshipsWei
        /\ t.network = st.network
    BY <2>2 DEF StoreFields
  <2>5. IsStore(t)
    BY <2>2, <2>3, <2>4 DEF Orderly, IsStore
  <2>6. DelegationsCounted(t)
    BY <2>2, <2>3, <2>4 DEF Orderly, DelegationsCounted
  <2>7. EarningsIn(t) = EarningsIn(st)
    BY <2>4 DEF EarningsIn
  <2>8. Orderly(t)
    BY <2>4, <2>5, <2>6, <2>7 DEF Orderly
  <2> QED
    BY <2>2, <2>3, <2>8 DEF t
<1> QED
  BY <1>3, <1>4

\* A delegator's first Delegation is counted, or its last one no longer.
LEMMA CountChangesIs ==
    ASSUME NEW st, IsStore(st), st.delegatorCount \in Int, NEW h \in Holders, NEW change \in Int
    PROVE  LET t == Index!CountChanges(st, h, change)
           IN  /\ IsStore(t)
               /\ \A f \in StoreFields \ {"bucket", "delegatorCount", "delegators"} : t[f] = st[f]
               /\ t.delegatorCount = st.delegatorCount + change
               /\ t.bucket.exists = st.bucket.exists
               /\ t.bucket.delegatorCountAtStart = st.bucket.delegatorCountAtStart
               /\ t.bucket.delegatorCountChange = st.bucket.delegatorCountChange + change
               /\ \A g \in Holders \ {h} : t.delegators[g] = st.delegators[g]
               /\ t.delegators[h].numberOfDelegations
                    = st.delegators[h].numberOfDelegations + change
               /\ t.delegators[h].totalValueDataWei = st.delegators[h].totalValueDataWei
               /\ t.delegators[h].cumulativeEarningsWei = st.delegators[h].cumulativeEarningsWei
<1> DEFINE n == st.delegatorCount + change
           b == [st.bucket EXCEPT !.delegatorCountChange = @ + change]
           d == [st.delegators[h] EXCEPT !.numberOfDelegations = @ + change]
           ds == [st.delegators EXCEPT ![h] = d]
           t == Index!CountChanges(st, h, change)
<1>1. b \in Buckets /\ d \in DelegatorEntities
  BY DEF IsStore, Buckets, DelegatorEntities
<1>2. /\ b.exists = st.bucket.exists
      /\ b.delegatorCountAtStart = st.bucket.delegatorCountAtStart
      /\ b.delegatorCountChange = st.bucket.delegatorCountChange + change
      /\ d.numberOfDelegations = st.delegators[h].numberOfDelegations + change
      /\ d.totalValueDataWei = st.delegators[h].totalValueDataWei
      /\ d.cumulativeEarningsWei = st.delegators[h].cumulativeEarningsWei
  BY DEF IsStore, Buckets, DelegatorEntities
<1>3. /\ DOMAIN t = StoreFields
      /\ \A f \in StoreFields \ {"bucket", "delegatorCount", "delegators"} : t[f] = st[f]
      /\ t.delegatorCount = n /\ t.bucket = b /\ t.delegators = ds
  BY DEF IsStore, StoreFields, Index!CountChanges
<1>4. /\ ds \in [Holders -> DelegatorEntities] /\ ds[h] = d
      /\ \A g \in Holders \ {h} : ds[g] = st.delegators[g]
  <2> HIDE DEF d
  <2> QED
    BY <1>1 DEF IsStore
<1> HIDE DEF n, b, d, ds, t
<1>5. /\ t.network = st.network /\ t.delegations = st.delegations
      /\ t.cumulativeProfitsWei = st.cumulativeProfitsWei
      /\ t.totalStakeInSponsorshipsWei = st.totalStakeInSponsorshipsWei
  BY <1>3 DEF StoreFields
<1>6. IsStore(t)
  BY <1>1, <1>3, <1>4, <1>5 DEF IsStore
<1> QED
  BY <1>2, <1>3, <1>4, <1>6 DEF n, t

LEMMA QuotientIsInt ==
    ASSUME NEW x \in Int, NEW d \in Nat \ {0}
    PROVE  x \div d \in Int /\ 0 \div d = 0
  OBVIOUS

\* The delegation that is reported is saved or removed, and counted.
LEMMA BalanceIsHandled ==
    ASSUME NEW st, Orderly(st), NEW h \in Holders, NEW balance \in Nat, NEW supply \in Nat,
           NEW value \in Int
    PROVE  LET e == [name |-> "BalanceUpdate", delegator |-> h, balanceWei |-> balance,
                     totalSupplyWei |-> supply, value |-> value]
               t == Index!HandleBalanceUpdate(st, e)
           IN  /\ Orderly(t)
               /\ \A f \in StoreFields \ {"bucket", "delegatorCount", "delegators", "delegations",
                                          "operatorTokenTotalSupplyWei", "exchangeRate",
                                          "pastDelegationCount"} : t[f] = st[f]
               /\ t.operatorTokenTotalSupplyWei = supply
               /\ h \in DOMAIN t.delegations <=> balance > 0
               /\ DOMAIN t.delegations \ {h} = DOMAIN st.delegations \ {h}
               /\ balance > 0 => t.delegations[h].operatorTokenBalanceWei = balance
               /\ \A g \in DOMAIN st.delegations \ {h} : t.delegations[g] = st.delegations[g]
<1> DEFINE e == [name |-> "BalanceUpdate", delegator |-> h, balanceWei |-> balance,
                 totalSupplyWei |-> supply, value |-> value]
           worth == IF e.totalSupplyWei = 0 THEN e.balanceWei
                    ELSE (e.balanceWei * e.value) \div e.totalSupplyWei
           old == Index!LoadedDelegation(st, h)
           base == Index!WithBucket(st)
           rate == Index!Rate(e.value, e.totalSupplyWei)
           ready == [base EXCEPT !.operatorTokenTotalSupplyWei = supply, !.exchangeRate = rate]
           joined == IF old.operatorTokenBalanceWei = 0 THEN Index!CountChanges(ready, h, 1)
                     ELSE ready
           total == joined.delegators[h].totalValueDataWei + worth - old.valueDataWei
           valued == [joined EXCEPT !.delegators[h].totalValueDataWei = total]
           entity == [operatorTokenBalanceWei |-> balance, valueDataWei |-> worth]
           saved == [valued EXCEPT !.delegations = Index!Save(@, h, entity)]
           left == Index!CountChanges(valued, h, -1)
           gone == [left EXCEPT !.delegations = Index!Without(@, h),
                                !.pastDelegationCount[h] = @ + 1]
           t == Index!HandleBalanceUpdate(st, e)
           D == DOMAIN st.delegations
           new == IF h \in D THEN 0 ELSE 1
<1>1. t = IF balance > 0 THEN saved ELSE gone
  BY DEF Index!HandleBalanceUpdate
<1>2. worth \in Int /\ (balance = 0 => worth = 0)
  <2>1. CASE supply = 0
    BY <2>1
  <2>2. CASE supply # 0
    <3>1. worth = (balance * value) \div supply
      BY <2>2
    <3>2. balance * value \in Int /\ (balance = 0 => balance * value = 0) /\ supply \in Nat \ {0}
      BY <2>2
    <3> HIDE DEF worth
    <3> DEFINE x == balance * value
    <3> HIDE DEF x
    <3>3. x \div supply \in Int /\ (x = 0 => x \div supply = 0)
      BY <3>2, QuotientIsInt DEF x
    <3> QED
      BY <3>1, <3>2, <3>3 DEF x
  <2> QED
    BY <2>1, <2>2
<1> HIDE DEF worth
<1>3. /\ IsStore(st) /\ D \subseteq Holders /\ IsFiniteSet(D)
      /\ st.delegatorCount = Cardinality(D) /\ st.delegatorCount \in Int
  <2>1. IsStore(st) /\ D \subseteq Holders
    BY DEF Orderly, IsStore
  <2>2. IsFiniteSet(D)
    BY <2>1, OperatorAssumption, FS_Subset
  <2> QED
    BY <2>1, <2>2, FS_CardinalityType DEF Orderly, DelegationsCounted
<1>4. /\ old.operatorTokenBalanceWei = 0 <=> h \notin D
      /\ old.valueDataWei \in Int
      /\ old.valueDataWei = st.delegators[h].totalValueDataWei
  <2>1. CASE h \in D
    <3>1. old = st.delegations[h] /\ old \in DelegationEntities
      BY <1>3, <2>1 DEF Index!LoadedDelegation, IsStore
    <3> QED
      BY <2>1, <3>1 DEF DelegationEntities, Orderly, DelegationsCounted
  <2>2. CASE h \notin D
    <3>1. old.operatorTokenBalanceWei = 0 /\ old.valueDataWei = 0
      BY <2>2 DEF Index!LoadedDelegation, Index!NewDelegation
    <3> QED
      BY <2>2, <3>1 DEF Orderly, DelegationsCounted
  <2> QED
    BY <2>1, <2>2
<1> HIDE DEF old
<1>5. /\ Orderly(ready) /\ IsStore(ready) /\ ready.bucket.exists
      /\ ready.operatorTokenTotalSupplyWei = supply
      /\ \A f \in StoreFields \ {"bucket", "operatorTokenTotalSupplyWei", "exchangeRate"} :
           ready[f] = st[f]
  <2>1. /\ Orderly(base) /\ base.bucket.exists
        /\ \A f \in StoreFields \ {"bucket"} : base[f] = st[f]
    BY WithBucketIs
  <2> HIDE DEF base, rate
  <2>2. DOMAIN base = StoreFields
    BY <2>1 DEF Orderly, IsStore
  <2>3. /\ DOMAIN ready = StoreFields /\ ready.operatorTokenTotalSupplyWei = supply
        /\ \A f \in StoreFields \ {"operatorTokenTotalSupplyWei", "exchangeRate"} :
             ready[f] = base[f]
    BY <2>2 DEF StoreFields
  <2> HIDE DEF ready
  <2>4. /\ ready.network = base.network
        /\ ready.delegators = base.delegators /\ ready.delegations = base.delegations
        /\ ready.delegatorCount = base.delegatorCount /\ ready.bucket = base.bucket
        /\ ready.cumulativeProfitsWei = base.cumulativeProfitsWei
        /\ ready.totalStakeInSponsorshipsWei = base.totalStakeInSponsorshipsWei
    BY <2>3 DEF StoreFields
  <2>5. DOMAIN base.network = NetworkFields
        /\ base.totalStakeInSponsorshipsWei \in Int
        /\ base.network.totalStake = base.totalStakeInSponsorshipsWei
    BY <2>1 DEF Orderly, IsStore
  <2>6. Orderly(ready)
    BY <2>1, <2>3, <2>4, <2>5, StaysOrderly
  <2> QED
    BY <2>1, <2>3, <2>4, <2>6 DEF Orderly
<1> HIDE DEF base, rate, ready
<1>6. /\ ready.delegations = st.delegations /\ ready.delegators = st.delegators
      /\ ready.delegatorCount = st.delegatorCount
      /\ ready.cumulativeProfitsWei = st.cumulativeProfitsWei
      /\ ready.network = st.network
      /\ ready.totalStakeInSponsorshipsWei = st.totalStakeInSponsorshipsWei
  BY <1>5 DEF StoreFields
<1>7. /\ IsStore(joined) /\ joined.bucket.exists
      /\ \A f \in StoreFields \ {"bucket", "delegatorCount", "delegators"} : joined[f] = ready[f]
      /\ joined.delegatorCount = st.delegatorCount + new
      /\ joined.bucket.delegatorCountAtStart + joined.bucket.delegatorCountChange
           = st.delegatorCount + new
      /\ \A g \in Holders \ {h} : joined.delegators[g] = st.delegators[g]
      /\ joined.delegators[h].numberOfDelegations = 1
      /\ joined.delegators[h].totalValueDataWei = st.delegators[h].totalValueDataWei
      /\ joined.delegators[h].cumulativeEarningsWei = st.delegators[h].cumulativeEarningsWei
  <2>1. /\ ready.bucket.delegatorCountAtStart + ready.bucket.delegatorCountChange
             = st.delegatorCount
        /\ ready.bucket \in Buckets
    BY <1>5, <1>6 DEF Orderly, DelegationsCounted, IsStore
  <2>2. CASE h \in D
    <3>1. joined = ready /\ new = 0 /\ st.delegators[h].numberOfDelegations = 1
      BY <1>4, <2>2 DEF Orderly, DelegationsCounted
    <3> HIDE DEF joined, new
    <3> QED
      BY <1>3, <1>5, <1>6, <2>1, <3>1
  <2>3. CASE h \notin D
    <3>1. joined = Index!CountChanges(ready, h, 1) /\ new = 1
          /\ st.delegators[h].numberOfDelegations = 0
      BY <1>4, <2>3 DEF Orderly, DelegationsCounted
    <3> HIDE DEF joined, new
    <3>2. ready.delegatorCount \in Int
      BY <1>3, <1>6
    <3>3. ready.bucket.delegatorCountAtStart \in Int /\ ready.bucket.delegatorCountChange \in Int
      BY <2>1 DEF Buckets
    <3>4. /\ IsStore(joined)
          /\ \A f \in StoreFields \ {"bucket", "delegatorCount", "delegators"} :
               joined[f] = ready[f]
          /\ joined.delegatorCount = ready.delegatorCount + 1
          /\ joined.bucket.exists = ready.bucket.exists
          /\ joined.bucket.delegatorCountAtStart = ready.bucket.delegatorCountAtStart
          /\ joined.bucket.delegatorCountChange = ready.bucket.delegatorCountChange + 1
          /\ \A g \in Holders \ {h} : joined.delegators[g] = ready.delegators[g]
          /\ joined.delegators[h].numberOfDelegations
               = ready.delegators[h].numberOfDelegations + 1
          /\ joined.delegators[h].totalValueDataWei = ready.delegators[h].totalValueDataWei
          /\ joined.delegators[h].cumulativeEarningsWei
               = ready.delegators[h].cumulativeEarningsWei
      <4>1. IsStore(ready)
        BY <1>5
      <4> QED
        BY <3>1, <3>2, <4>1, CountChangesIs
    <3>5. /\ joined.delegatorCount = st.delegatorCount + new
          /\ joined.bucket.delegatorCountAtStart + joined.bucket.delegatorCountChange
               = st.delegatorCount + new
      BY <1>6, <2>1, <3>1, <3>3, <3>4
    <3>6. joined.delegators[h].numberOfDelegations = 1
      BY <1>6, <3>1, <3>4
    <3>7. joined.bucket.exists
      BY <1>5, <3>4
    <3> QED
      BY <1>6, <3>4, <3>5, <3>6, <3>7
  <2> QED
    BY <2>2, <2>3
<1> HIDE DEF joined
<1>8. new \in Int
  OBVIOUS
<1>9. joined.delegators \in [Holders -> DelegatorEntities] /\ DOMAIN joined = StoreFields
  BY <1>7 DEF IsStore
<1>10. total = worth
  BY <1>2, <1>4, <1>7
<1> HIDE DEF total
<1>11. /\ IsStore(valued) /\ valued.bucket = joined.bucket
       /\ \A f \in StoreFields \ {"delegators"} : valued[f] = joined[f]
       /\ \A g \in Holders \ {h} : valued.delegators[g] = st.delegators[g]
       /\ valued.delegators[h].numberOfDelegations = 1
       /\ valued.delegators[h].totalValueDataWei = worth
       /\ valued.delegators[h].cumulativeEarningsWei = st.delegators[h].cumulativeEarningsWei
  <2> DEFINE d == [joined.delegators[h] EXCEPT !.totalValueDataWei = total]
             ds == [joined.delegators EXCEPT ![h] = d]
  <2>1. /\ d \in DelegatorEntities /\ d.totalValueDataWei = worth
        /\ d.numberOfDelegations = 1
        /\ d.cumulativeEarningsWei = st.delegators[h].cumulativeEarningsWei
    BY <1>2, <1>7, <1>9, <1>10 DEF DelegatorEntities
  <2>2. /\ DOMAIN valued = StoreFields /\ valued.delegators = ds
        /\ \A f \in StoreFields \ {"delegators"} : valued[f] = joined[f]
    BY <1>9 DEF StoreFields
  <2> HIDE DEF d, valued
  <2>3. /\ ds \in [Holders -> DelegatorEntities] /\ ds[h] = d
        /\ \A g \in Holders \ {h} : ds[g] = joined.delegators[g]
    BY <1>9, <2>1
  <2> HIDE DEF ds
  <2>4. /\ valued.network = joined.network /\ valued.delegations = joined.delegations
        /\ valued.bucket = joined.bucket
        /\ valued.cumulativeProfitsWei = joined.cumulativeProfitsWei
        /\ valued.totalStakeInSponsorshipsWei = joined.totalStakeInSponsorshipsWei
    BY <2>2 DEF StoreFields
  <2>5. IsStore(valued)
    BY <1>7, <2>2, <2>3, <2>4 DEF IsStore
  <2> QED
    BY <1>7, <2>1, <2>2, <2>3, <2>4, <2>5
<1> HIDE DEF valued
<1>12. /\ valued.delegatorCount = st.delegatorCount + new
       /\ valued.delegations = st.delegations
       /\ valued.cumulativeProfitsWei = st.cumulativeProfitsWei
       /\ valued.network = st.network
       /\ valued.totalStakeInSponsorshipsWei = st.totalStakeInSponsorshipsWei
       /\ valued.operatorTokenTotalSupplyWei = supply
       /\ DOMAIN valued = StoreFields
  BY <1>5, <1>6, <1>7, <1>11 DEF StoreFields, IsStore
<1>13. \A f \in StoreFields \ {"bucket", "delegatorCount", "delegators", "delegations",
                               "operatorTokenTotalSupplyWei", "exchangeRate",
                               "pastDelegationCount"} : valued[f] = st[f]
  BY <1>5, <1>7, <1>11
\* The earnings stay what they were.
<1>14. ASSUME NEW u, u.delegators \in [Holders -> DelegatorEntities],
              \A g \in Holders \ {h} : u.delegators[g] = st.delegators[g],
              u.delegators[h].cumulativeEarningsWei = st.delegators[h].cumulativeEarningsWei
       PROVE  EarningsIn(u) = EarningsIn(st)
  <2>1. \A g \in Holders : u.delegators[g].cumulativeEarningsWei
                             = st.delegators[g].cumulativeEarningsWei
    BY <1>14
  <2> QED
    BY <2>1 DEF EarningsIn
<1>15. EarningsIn(st) <= st.cumulativeProfitsWei
       /\ st.network.totalStake = st.totalStakeInSponsorshipsWei
  BY DEF Orderly
<1>16. CASE balance > 0
  <2> DEFINE ds == Index!Save(st.delegations, h, entity)
  <2>1. /\ DOMAIN t = StoreFields /\ t.delegations = ds
        /\ \A f \in StoreFields \ {"delegations"} : t[f] = valued[f]
    BY <1>1, <1>12, <1>16 DEF StoreFields
  <2>2. entity \in DelegationEntities
        /\ entity.valueDataWei = worth /\ entity.operatorTokenBalanceWei = balance
    BY <1>2, <1>16 DEF DelegationEntities
  <2> HIDE DEF entity, t
  <2>3. /\ DOMAIN ds = D \cup {h} /\ ds[h] = entity
        /\ \A g \in D \ {h} : ds[g] = st.delegations[g]
    BY DEF Index!Save
  <2> HIDE DEF ds
  <2>4. /\ t.delegators = valued.delegators /\ t.network = valued.network
        /\ t.bucket = valued.bucket /\ t.delegatorCount = valued.delegatorCount
        /\ t.cumulativeProfitsWei = valued.cumulativeProfitsWei
        /\ t.totalStakeInSponsorshipsWei = valued.totalStakeInSponsorshipsWei
        /\ t.operatorTokenTotalSupplyWei = supply
    BY <1>12, <2>1 DEF StoreFields
  <2>5. IsStore(t)
    <3>1. \A g \in DOMAIN t.delegations : t.delegations[g] \in DelegationEntities
      BY <1>3, <2>1, <2>2, <2>3 DEF IsStore
    <3> QED
      BY <1>3, <1>11, <2>1, <2>3, <2>4, <3>1 DEF IsStore
  <2>6. Cardinality(D \cup {h}) = Cardinality(D) + new
    <3>1. Cardinality(D) \in Nat
      BY <1>3, FS_CardinalityType
    <3>2. Cardinality(D \cup {h}) = IF h \in D THEN Cardinality(D) ELSE Cardinality(D) + 1
      <4>1. IsFiniteSet(D)
        BY <1>3
      <4> HIDE DEF D
      <4> QED
        BY <4>1, FS_AddElement
    <3> DEFINE c == Cardinality(D)
    <3> HIDE DEF c
    <3> QED
      BY <3>1, <3>2 DEF c
  <2>7. DelegationsCounted(t)
    <3>1. t.delegatorCount = Cardinality(DOMAIN t.delegations)
      BY <1>3, <1>12, <2>1, <2>3, <2>4, <2>6
    <3>2. t.bucket.delegatorCountAtStart + t.bucket.delegatorCountChange = t.delegatorCount
      BY <1>7, <1>11, <1>12, <2>4
    <3>3. ASSUME NEW g \in Holders
          PROVE  /\ t.delegators[g].numberOfDelegations
                      = IF g \in DOMAIN t.delegations THEN 1 ELSE 0
                 /\ t.delegators[g].totalValueDataWei
                      = IF g \in DOMAIN t.delegations THEN t.delegations[g].valueDataWei ELSE 0
      <4>1. CASE g = h
        BY <1>11, <2>1, <2>2, <2>3, <2>4, <4>1
      <4>2. CASE g # h
        <5>1. g \in DOMAIN t.delegations <=> g \in D
          BY <2>1, <2>3, <4>2
        <5>2. /\ t.delegators[g] = st.delegators[g]
              /\ g \in D => t.delegations[g] = st.delegations[g]
          BY <1>11, <2>1, <2>3, <2>4, <4>2
        <5>3. /\ st.delegators[g].numberOfDelegations = IF g \in D THEN 1 ELSE 0
              /\ st.delegators[g].totalValueDataWei
                   = IF g \in D THEN st.delegations[g].valueDataWei ELSE 0
          BY DEF Orderly, DelegationsCounted
        <5> HIDE DEF D
        <5> QED
          BY <5>1, <5>2, <5>3
      <4> QED
        BY <4>1, <4>2
    <3> QED
      BY <3>1, <3>2, <3>3 DEF DelegationsCounted
  <2>8. EarningsIn(t) = EarningsIn(st)
    BY <1>11, <1>14, <2>4, <2>5 DEF IsStore
  <2>9. Orderly(t)
    BY <1>12, <1>15, <2>4, <2>5, <2>7, <2>8 DEF Orderly
  <2>10. \A f \in StoreFields \ {"bucket", "delegatorCount", "delegators", "delegations",
                               "operatorTokenTotalSupplyWei", "exchangeRate",
                               "pastDelegationCount"} : t[f] = st[f]
    BY <1>13, <2>1
  <2> QED
    BY <1>16, <2>1, <2>2, <2>3, <2>4, <2>9, <2>10 DEF t
<1>17. CASE balance = 0
  <2> DEFINE ds == Index!Without(st.delegations, h)
  <2>0. valued.delegatorCount \in Int
    BY <1>3, <1>8, <1>12
  <2>1. /\ IsStore(left)
        /\ \A f \in StoreFields \ {"bucket", "delegatorCount", "delegators"} :
             left[f] = valued[f]
        /\ left.delegatorCount = valued.delegatorCount + -1
        /\ left.bucket.exists = valued.bucket.exists
        /\ left.bucket.delegatorCountAtStart = valued.bucket.delegatorCountAtStart
        /\ left.bucket.delegatorCountChange = valued.bucket.delegatorCountChange + -1
        /\ \A g \in Holders \ {h} : left.delegators[g] = valued.delegators[g]
        /\ left.delegators[h].numberOfDelegations
             = valued.delegators[h].numberOfDelegations + -1
        /\ left.delegators[h].totalValueDataWei = valued.delegators[h].totalValueDataWei
        /\ left.delegators[h].cumulativeEarningsWei = valued.delegators[h].cumulativeEarningsWei
    BY <1>11, <2>0, CountChangesIs
  <2> HIDE DEF left
  <2>2. left.delegations = st.delegations /\ DOMAIN left = StoreFields
    BY <1>12, <2>1 DEF StoreFields, IsStore
  <2>3. /\ DOMAIN t = StoreFields /\ t.delegations = ds
        /\ \A f \in StoreFields \ {"delegations", "pastDelegationCount"} : t[f] = left[f]
    <3> DEFINE p == [left.pastDelegationCount EXCEPT ![h] = @ + 1]
    <3>1. t = [left EXCEPT !.delegations = ds, !.pastDelegationCount = p]
      BY <1>1, <1>17, <2>2 DEF StoreFields
    <3> HIDE DEF t, ds, p
    <3> QED
      BY <2>2, <3>1 DEF StoreFields
  <2> HIDE DEF t
  <2>4. /\ DOMAIN ds = D \ {h}
        /\ \A g \in D \ {h} : ds[g] = st.delegations[g]
    BY DEF Index!Without
  <2> HIDE DEF ds
  <2>5. /\ t.delegators = left.delegators /\ t.network = left.network
        /\ t.bucket = left.bucket /\ t.delegatorCount = left.delegatorCount
        /\ t.cumulativeProfitsWei = st.cumulativeProfitsWei
        /\ t.totalStakeInSponsorshipsWei = st.totalStakeInSponsorshipsWei
        /\ t.network = st.network
        /\ t.operatorTokenTotalSupplyWei = supply
    BY <1>12, <2>1, <2>3 DEF StoreFields
  <2>6. IsStore(t)
    <3>1. \A g \in DOMAIN t.delegations : t.delegations[g] \in DelegationEntities
      BY <1>3, <2>3, <2>4 DEF IsStore
    <3>2. st.cumulativeProfitsWei \in Int /\ st.totalStakeInSponsorshipsWei \in Int
      BY <1>3 DEF IsStore
    <3> QED
      BY <1>3, <2>1, <2>3, <2>4, <2>5, <3>1, <3>2 DEF IsStore
  <2>7. Cardinality(D \ {h}) = Cardinality(D) + new - 1
    <3>1. Cardinality(D) \in Nat
      BY <1>3, FS_CardinalityType
    <3>2. Cardinality(D \ {h}) = IF h \in D THEN Cardinality(D) - 1 ELSE Cardinality(D)
      <4>1. IsFiniteSet(D)
        BY <1>3
      <4> HIDE DEF D
      <4> QED
        BY <4>1, FS_RemoveElement
    <3> DEFINE c == Cardinality(D)
    <3> HIDE DEF c
    <3> QED
      BY <3>1, <3>2 DEF c
  <2>8. DelegationsCounted(t)
    <3>1. t.delegatorCount = Cardinality(DOMAIN t.delegations)
      <4> HIDE DEF new
      <4> QED
        BY <1>3, <1>8, <1>12, <2>1, <2>3, <2>4, <2>5, <2>7
    <3>2. t.bucket.delegatorCountAtStart + t.bucket.delegatorCountChange = t.delegatorCount
      <4>1. valued.bucket.delegatorCountAtStart \in Int
            /\ valued.bucket.delegatorCountChange \in Int
        BY <1>11 DEF IsStore, Buckets
      <4> HIDE DEF new
      <4> QED
        BY <1>3, <1>7, <1>8, <1>11, <1>12, <2>1, <2>5, <4>1
    <3>3. ASSUME NEW g \in Holders
          PROVE  /\ t.delegators[g].numberOfDelegations
                      = IF g \in DOMAIN t.delegations THEN 1 ELSE 0
                 /\ t.delegators[g].totalValueDataWei
                      = IF g \in DOMAIN t.delegations THEN t.delegations[g].valueDataWei ELSE 0
      <4>1. CASE g = h
        BY <1>2, <1>11, <1>17, <2>1, <2>3, <2>4, <2>5, <4>1
      <4>2. CASE g # h
        <5>1. g \in DOMAIN t.delegations <=> g \in D
          BY <2>3, <2>4, <4>2
        <5>2. /\ t.delegators[g] = st.delegators[g]
              /\ g \in D => t.delegations[g] = st.delegations[g]
          BY <1>11, <2>1, <2>3, <2>4, <2>5, <4>2
        <5>3. /\ st.delegators[g].numberOfDelegations = IF g \in D THEN 1 ELSE 0
              /\ st.delegators[g].totalValueDataWei
                   = IF g \in D THEN st.delegations[g].valueDataWei ELSE 0
          BY DEF Orderly, DelegationsCounted
        <5> HIDE DEF D
        <5> QED
          BY <5>1, <5>2, <5>3
      <4> QED
        BY <4>1, <4>2
    <3> QED
      BY <3>1, <3>2, <3>3 DEF DelegationsCounted
  <2>9. EarningsIn(t) = EarningsIn(st)
    BY <1>11, <1>14, <2>1, <2>5, <2>6 DEF IsStore
  <2>10. Orderly(t)
    BY <1>15, <2>5, <2>6, <2>8, <2>9 DEF Orderly
  <2>11. \A f \in StoreFields \ {"bucket", "delegatorCount", "delegators", "delegations",
                               "operatorTokenTotalSupplyWei", "exchangeRate",
                               "pastDelegationCount"} : t[f] = st[f]
    BY <1>13, <2>1, <2>3
  <2> QED
    BY <1>17, <2>3, <2>4, <2>5, <2>10, <2>11 DEF t
<1> QED
  BY <1>16, <1>17

\* After a handler that leaves them alone, the entities show as much as before.
LEMMA ShownAsBefore ==
    ASSUME NEW st, NEW a, NEW H, NEW reported, Shows(st, a, H, reported), NEW t, Orderly(t),
           t.delegations = st.delegations,
           t.operatorTokenTotalSupplyWei = st.operatorTokenTotalSupplyWei,
           t.queueEntries = st.queueEntries,
           t.operatorsCutFraction = st.operatorsCutFraction,
           t.isEligibleToVote = st.isEligibleToVote,
           t.network.eligibleVotersCount = st.network.eligibleVotersCount,
           t.totalStakeInSponsorshipsWei = st.totalStakeInSponsorshipsWei,
           t.dataTokenBalanceWei = st.dataTokenBalanceWei
    PROVE  Shows(t, a, H, reported)
  BY DEF Shows, TokensShown, QueueShown, SettingsShown, ValueShown

\* BalanceUpdate: what it reports is shown.
LEMMA BalanceShown ==
    ASSUME NEW st, NEW a \in Holdings, NEW H, NEW reported, Shows(st, a, H, reported),
           NEW h \in Holders
    PROVE  LET e == [name |-> "BalanceUpdate", delegator |-> h, balanceWei |-> a.tokens[h],
                     totalSupplyWei |-> Supply(a), value |-> ValueOf(a)]
           IN  Shows(Index!Handle(st, e), a, H \ {h}, reported)
<1> DEFINE e == [name |-> "BalanceUpdate", delegator |-> h, balanceWei |-> a.tokens[h],
                 totalSupplyWei |-> Supply(a), value |-> ValueOf(a)]
           t == Index!HandleBalanceUpdate(st, e)
           D == DOMAIN st.delegations
<1>1. Index!Handle(st, e) = t
  BY DEF Index!Handle
<1>2. a.tokens[h] \in Nat /\ Supply(a) \in Nat /\ ValueOf(a) \in Int
  <2>1. a.tokens[h] \in Nat
    BY DEF Holdings
  <2> QED
    BY <2>1, SupplyIsNat, ValueIsInt
<1>3. Orderly(st)
  BY DEF Shows
<1>4. /\ Orderly(t)
      /\ \A f \in StoreFields \ {"bucket", "delegatorCount", "delegators", "delegations",
                                 "operatorTokenTotalSupplyWei", "exchangeRate",
                                 "pastDelegationCount"} : t[f] = st[f]
      /\ t.operatorTokenTotalSupplyWei = Supply(a)
      /\ h \in DOMAIN t.delegations <=> a.tokens[h] > 0
      /\ DOMAIN t.delegations \ {h} = D \ {h}
      /\ a.tokens[h] > 0 => t.delegations[h].operatorTokenBalanceWei = a.tokens[h]
      /\ \A g \in D \ {h} : t.delegations[g] = st.delegations[g]
  BY <1>2, <1>3, BalanceIsHandled
<1> HIDE DEF e, t
<1>5. /\ t.queueEntries = st.queueEntries
      /\ t.operatorsCutFraction = st.operatorsCutFraction
      /\ t.isEligibleToVote = st.isEligibleToVote
      /\ t.network = st.network
      /\ t.totalStakeInSponsorshipsWei = st.totalStakeInSponsorshipsWei
      /\ t.dataTokenBalanceWei = st.dataTokenBalanceWei
  BY <1>4 DEF StoreFields
<1>6. QueueShown(t, a) /\ SettingsShown(t, a) /\ (reported => ValueShown(t, a))
  BY <1>5 DEF Shows, QueueShown, SettingsShown, ValueShown
<1>7. TokensShown(t, a, H \ {h})
  <2>1. TokensShown(st, a, H)
    BY DEF Shows
  <2>2. ASSUME NEW g \in Holders \ (H \ {h})
        PROVE  g \in DOMAIN t.delegations <=> a.tokens[g] > 0
    <3>1. CASE g = h
      BY <1>4, <3>1
    <3>2. CASE g # h
      <4>1. g \in DOMAIN t.delegations <=> g \in D
        BY <1>4, <3>2
      <4>2. g \in Holders \ H
        BY <3>2
      <4> QED
        BY <2>1, <4>1, <4>2 DEF TokensShown
    <3> QED
      BY <3>1, <3>2
  <2>3. ASSUME NEW g \in DOMAIN t.delegations \ (H \ {h})
        PROVE  t.delegations[g].operatorTokenBalanceWei = a.tokens[g]
    <3>1. CASE g = h
      BY <1>4, <3>1
    <3>2. CASE g # h
      <4>1. g \in D \ {h} /\ g \in D \ H
        BY <1>4, <3>2
      <4> QED
        BY <1>4, <2>1, <4>1 DEF TokensShown
    <3> QED
      BY <3>1, <3>2
  <2> QED
    BY <1>4, <2>2, <2>3 DEF TokensShown
<1> QED
  BY <1>1, <1>4, <1>6, <1>7 DEF Shows, e

\* OperatorValueUpdate: the value is shown.
LEMMA ValueUpdateShown ==
    ASSUME NEW st, NEW a \in Holdings, NEW H, NEW reported, Shows(st, a, H, reported)
    PROVE  LET e == [name |-> "OperatorValueUpdate",
                     totalStakeInSponsorshipsWei |-> a.totalStaked - a.totalSlashed,
                     dataTokenBalanceWei |-> a.balance]
           IN  Shows(Index!Handle(st, e), a, H, TRUE)
<1> DEFINE total == a.totalStaked - a.totalSlashed
           e == [name |-> "OperatorValueUpdate", totalStakeInSponsorshipsWei |-> total,
                 dataTokenBalanceWei |-> a.balance]
           base == Index!WithBucket(st)
           change == total - st.totalStakeInSponsorshipsWei
           network == [base.network EXCEPT !.totalStake = @ + change]
           rate == Index!Rate(e.totalStakeInSponsorshipsWei + e.dataTokenBalanceWei,
                              st.operatorTokenTotalSupplyWei)
           t == Index!HandleOperatorValueUpdate(st, e)
<1>1. Index!Handle(st, e) = t
  BY DEF Index!Handle
<1>2. total \in Int /\ a.balance \in Int
  BY DEF Holdings
<1>3. Orderly(st)
  BY DEF Shows
<1>4. Orderly(base) /\ \A f \in StoreFields \ {"bucket"} : base[f] = st[f]
  BY <1>3, WithBucketIs
<1>5. t = [base EXCEPT !.totalStakeInSponsorshipsWei = total, !.dataTokenBalanceWei = a.balance,
                       !.exchangeRate = rate, !.network.totalStake = @ + change]
  BY DEF Index!HandleOperatorValueUpdate
<1>6. /\ DOMAIN base = StoreFields /\ DOMAIN base.network = NetworkFields
      /\ base.network.totalStake = st.totalStakeInSponsorshipsWei
      /\ st.totalStakeInSponsorshipsWei \in Int
  BY <1>3, <1>4 DEF Orderly, IsStore, StoreFields
<1> HIDE DEF base, rate
<1>7. network.totalStake = total /\ DOMAIN network = NetworkFields
      /\ network.eligibleVotersCount = base.network.eligibleVotersCount
  BY <1>2, <1>6 DEF NetworkFields
<1> HIDE DEF t, e
<1>8. /\ DOMAIN t = StoreFields /\ t.network = network
      /\ t.totalStakeInSponsorshipsWei = total /\ t.dataTokenBalanceWei = a.balance
      /\ \A f \in StoreFields \ {"totalStakeInSponsorshipsWei", "dataTokenBalanceWei",
                                 "exchangeRate", "network"} : t[f] = base[f]
  <2> HIDE DEF total
  <2> QED
    BY <1>5, <1>6 DEF StoreFields
<1> HIDE DEF network
<1>9. /\ t.delegators = base.delegators /\ t.delegations = base.delegations
      /\ t.delegatorCount = base.delegatorCount
      /\ t.cumulativeProfitsWei = base.cumulativeProfitsWei
      /\ t.bucket = base.bucket
  BY <1>8 DEF StoreFields
<1>10. Orderly(t)
  BY <1>2, <1>4, <1>7, <1>8, <1>9, StaysOrderly
<1>11. /\ t.delegations = st.delegations
       /\ t.operatorTokenTotalSupplyWei = st.operatorTokenTotalSupplyWei
       /\ t.queueEntries = st.queueEntries
       /\ t.operatorsCutFraction = st.operatorsCutFraction
       /\ t.isEligibleToVote = st.isEligibleToVote
       /\ t.network.eligibleVotersCount = st.network.eligibleVotersCount
  BY <1>4, <1>7, <1>8 DEF StoreFields
<1>12. TokensShown(t, a, H) /\ QueueShown(t, a) /\ SettingsShown(t, a)
  BY <1>11 DEF Shows, TokensShown, QueueShown, SettingsShown
<1>13. ValueShown(t, a)
  BY <1>2, <1>8 DEF ValueShown
<1>14. Shows(t, a, H, TRUE)
  BY <1>10, <1>12, <1>13 DEF Shows
<1> QED
  BY <1>1, <1>14 DEF e

\* Loss, Delegated, Undelegated: nothing is counted that the properties are about.
LEMMA LossShown ==
    ASSUME NEW st, NEW a, NEW H, NEW reported, Shows(st, a, H, reported), NEW loss
    PROVE  Shows(Index!Handle(st, [name |-> "Loss", valueDecreaseWei |-> loss]), a, H, reported)
<1> DEFINE e == [name |-> "Loss", valueDecreaseWei |-> loss]
           t == Index!WithBucket(st)
<1>1. Index!Handle(st, e) = t
  BY DEF Index!Handle, Index!HandleLoss
<1>2. Orderly(t) /\ \A f \in StoreFields \ {"bucket"} : t[f] = st[f]
  BY WithBucketIs DEF Shows
<1> HIDE DEF t
<1>3. /\ t.delegations = st.delegations
      /\ t.operatorTokenTotalSupplyWei = st.operatorTokenTotalSupplyWei
      /\ t.queueEntries = st.queueEntries
      /\ t.operatorsCutFraction = st.operatorsCutFraction
      /\ t.isEligibleToVote = st.isEligibleToVote
      /\ t.network = st.network
      /\ t.totalStakeInSponsorshipsWei = st.totalStakeInSponsorshipsWei
      /\ t.dataTokenBalanceWei = st.dataTokenBalanceWei
  BY <1>2 DEF StoreFields
<1> QED
  BY <1>1, <1>2, <1>3, ShownAsBefore

LEMMA FlowShown ==
    ASSUME NEW st, NEW a, NEW H, NEW reported, Shows(st, a, H, reported), NEW h, NEW data,
           NEW name \in {"Delegated", "Undelegated"}
    PROVE  LET e == [name |-> name, delegator |-> h, amountDataWei |-> data]
           IN  Shows(Index!Handle(st, e), a, H, reported)
<1> DEFINE e == [name |-> name, delegator |-> h, amountDataWei |-> data]
           t == Index!Handle(st, e)
<1>1. \/ t = [st EXCEPT !.network.totalDelegated = @ + data]
      \/ t = [st EXCEPT !.network.totalUndelegated = @ + data]
  BY DEF Index!Handle, Index!HandleDelegated, Index!HandleUndelegated
<1>2. Orderly(st) /\ DOMAIN st = StoreFields /\ DOMAIN st.network = NetworkFields
  BY DEF Shows, Orderly, IsStore
<1> HIDE DEF t
<1>3. \A f \in StoreFields \ {"network"} : t[f] = st[f]
  BY <1>1, <1>2 DEF StoreFields
<1>4. /\ DOMAIN t = StoreFields /\ DOMAIN t.network = NetworkFields
      /\ t.network.totalStake = st.network.totalStake
      /\ t.network.eligibleVotersCount = st.network.eligibleVotersCount
  BY <1>1, <1>2 DEF StoreFields, NetworkFields
<1>5. /\ t.delegators = st.delegators /\ t.delegations = st.delegations
      /\ t.delegatorCount = st.delegatorCount /\ t.bucket = st.bucket
      /\ t.cumulativeProfitsWei = st.cumulativeProfitsWei
      /\ t.totalStakeInSponsorshipsWei = st.totalStakeInSponsorshipsWei
      /\ t.operatorTokenTotalSupplyWei = st.operatorTokenTotalSupplyWei
      /\ t.queueEntries = st.queueEntries
      /\ t.operatorsCutFraction = st.operatorsCutFraction
      /\ t.isEligibleToVote = st.isEligibleToVote
      /\ t.dataTokenBalanceWei = st.dataTokenBalanceWei
  BY <1>3 DEF StoreFields
<1>6. t.totalStakeInSponsorshipsWei \in Int /\ t.network.totalStake = t.totalStakeInSponsorshipsWei
  BY <1>2, <1>4, <1>5 DEF Orderly, IsStore
<1>7. Orderly(t)
  BY <1>2, <1>4, <1>5, <1>6, StaysOrderly
<1>8. Shows(t, a, H, reported)
  BY <1>4, <1>5, <1>7, ShownAsBefore
<1> QED
  BY <1>8 DEF t

\* The shares of a profit, each rounded down, are at most the profit.
LEMMA SharesWithinProfit ==
    ASSUME NEW tokens \in [Holders -> Nat], NEW supply \in Nat \ {0},
           supply = SumFunction(tokens), NEW x \in Nat
    PROVE  LET share == [h \in Holders |-> (tokens[h] * x) \div supply]
           IN  /\ \A h \in Holders : share[h] \in Nat
               /\ SumFunctionOnSet(share, Holders) <= x
<1> DEFINE share == [h \in Holders |-> (tokens[h] * x) \div supply]
           whole == [h \in Holders |-> supply * share[h]]
           held == [h \in Holders |-> x * tokens[h]]
           sum == SumFunctionOnSet(share, Holders)
<1>1. IsFiniteSet(Holders) /\ DOMAIN tokens = Holders
  BY OperatorAssumption
<1>2. ASSUME NEW h \in Holders
      PROVE  share[h] \in Nat /\ supply * share[h] \in Int /\ supply * share[h] <= x * tokens[h]
             /\ x * tokens[h] \in Int
  <2> DEFINE y == tokens[h] * x
             q == y \div supply
  <2>1. y \in Nat /\ x * tokens[h] = y
    OBVIOUS
  <2>2. share[h] = q
    OBVIOUS
  <2> HIDE DEF y, share
  <2>3. q \in Nat /\ supply * q \in Nat /\ supply * q <= y
    BY <2>1, QuotientIs
  <2> HIDE DEF q
  <2> QED
    BY <2>1, <2>2, <2>3
<1> HIDE DEF share
<1>3. SumFunctionOnSet(whole, Holders) <= SumFunctionOnSet(held, Holders)
  BY <1>1, <1>2, SumsCompare
<1>4. sum \in Int /\ SumFunctionOnSet(whole, Holders) = supply * sum
  <2>1. \A h \in Holders : share[h] \in Int /\ whole[h] = supply * share[h]
    BY <1>2
  <2> HIDE DEF whole
  <2> QED
    BY <1>1, <2>1, SumOfMultiples
<1>5. SumFunctionOnSet(held, Holders) = x * supply
  <2>1. \A h \in Holders : tokens[h] \in Int /\ held[h] = x * tokens[h]
    OBVIOUS
  <2>2. supply = SumFunctionOnSet(tokens, Holders)
    BY <1>1, SumOverDomain
  <2> HIDE DEF held
  <2> QED
    BY <1>1, <2>1, <2>2, SumOfMultiples
<1> HIDE DEF whole, held, sum
<1>6. supply * sum <= supply * x
  BY <1>3, <1>4, <1>5
<1>7. sum <= x
  BY <1>4, <1>6
<1> QED
  BY <1>2, <1>7 DEF sum, share

\* Profit: every holder is credited with its share.
LEMMA ProfitShown ==
    ASSUME NEW st, NEW a \in Holdings, NEW reported, Shows(st, a, {}, reported),
           NEW x \in Nat, NEW cut
    PROVE  LET e == [name |-> "Profit", valueIncreaseWei |-> x, operatorsCutDataWei |-> cut]
           IN  Shows(Index!Handle(st, e), a, {}, reported)
<1> DEFINE e == [name |-> "Profit", valueIncreaseWei |-> x, operatorsCutDataWei |-> cut]
           supply == st.operatorTokenTotalSupplyWei
           share(h) == (st.delegations[h].operatorTokenBalanceWei * x) \div supply
           D == DOMAIN st.delegations
           earned == [h \in Holders |->
                        IF h \in D
                        THEN [st.delegators[h] EXCEPT !.cumulativeEarningsWei = @ + share(h)]
                        ELSE st.delegators[h]]
           base == Index!WithBucket(st)
           t == Index!HandleProfit(st, e)
           before == [h \in Holders |-> st.delegators[h].cumulativeEarningsWei]
           shares == [h \in Holders |-> IF h \in D THEN share(h) ELSE 0]
           after == [h \in Holders |-> earned[h].cumulativeEarningsWei]
<1>1. Index!Handle(st, e) = t
  BY DEF Index!Handle
<1>2. Orderly(st) /\ IsStore(st) /\ TokensShown(st, a, {})
  BY DEF Shows, Orderly
<1>3. /\ Orderly(base) /\ \A f \in StoreFields \ {"bucket"} : base[f] = st[f]
  BY <1>2, WithBucketIs
<1>4. t = [base EXCEPT !.cumulativeProfitsWei = @ + x, !.delegators = earned]
  BY DEF Index!HandleProfit
<1>5. /\ IsFiniteSet(Holders) /\ a.tokens \in [Holders -> Nat]
      /\ supply = SumFunction(a.tokens) /\ supply \in Nat
      /\ \A h \in Holders : a.tokens[h] <= supply
      /\ D \subseteq Holders
      /\ \A h \in Holders : h \in D <=> a.tokens[h] > 0
      /\ \A h \in D : st.delegations[h].operatorTokenBalanceWei = a.tokens[h]
  <2>1. supply = Supply(a)
    BY <1>2 DEF TokensShown
  <2>2. a.tokens \in [Holders -> Nat]
    BY DEF Holdings
  <2>3. Supply(a) = SumFunction(a.tokens)
    BY DEF Supply
  <2>4. Supply(a) \in Nat /\ \A h \in Holders : a.tokens[h] <= Supply(a)
    BY SupplyIsNat
  <2>5. /\ D \subseteq Holders
        /\ \A h \in Holders : h \in D <=> a.tokens[h] > 0
        /\ \A h \in D : st.delegations[h].operatorTokenBalanceWei = a.tokens[h]
    BY <1>2 DEF TokensShown, IsStore
  <2> HIDE DEF supply, D
  <2> QED
    BY <2>1, <2>2, <2>3, <2>4, <2>5, OperatorAssumption
<1>6. /\ \A h \in Holders : shares[h] \in Nat
      /\ SumFunctionOnSet(shares, Holders) <= x
  <2>1. CASE supply = 0
    <3>1. \A h \in Holders : shares[h] = 0
      <4>1. \A h \in Holders : h \notin D
        <5> HIDE DEF supply, D
        <5> QED
          BY <1>5, <2>1
      <4> HIDE DEF D, share
      <4> QED
        BY <4>1
    <3> HIDE DEF shares
    <3>2. SumFunctionOnSet(shares, Holders) = 0
      BY <1>5, <3>1, SumOfZeros
    <3> QED
      BY <3>1, <3>2
  <2>2. CASE supply > 0
    <3> DEFINE parts == [h \in Holders |-> (a.tokens[h] * x) \div supply]
    <3>1. supply \in Nat \ {0}
      BY <1>5, <2>2
    <3>2. /\ \A h \in Holders : parts[h] \in Nat
          /\ SumFunctionOnSet(parts, Holders) <= x
      <4> DEFINE tokens == a.tokens
                 s == supply
      <4>1. tokens \in [Holders -> Nat] /\ s \in Nat \ {0} /\ s = SumFunction(tokens)
        BY <1>5, <3>1
      <4> HIDE DEF tokens, s
      <4> DEFINE ps == [h \in Holders |-> (tokens[h] * x) \div s]
      <4>2. (\A h \in Holders : ps[h] \in Nat) /\ SumFunctionOnSet(ps, Holders) <= x
        BY <4>1, SharesWithinProfit
      <4>3. ps = parts
        BY DEF tokens, s
      <4> HIDE DEF ps, parts
      <4> QED
        BY <4>2, <4>3
    <3>3. \A h \in Holders : shares[h] = parts[h]
      <4> SUFFICES ASSUME NEW h \in Holders PROVE shares[h] = parts[h]
        OBVIOUS
      <4>1. CASE h \in D
        <5>1. st.delegations[h].operatorTokenBalanceWei = a.tokens[h]
          BY <1>5, <4>1
        <5> QED
          BY <4>1, <5>1
      <4>2. CASE h \notin D
        <5>1. a.tokens[h] = 0 /\ a.tokens[h] * x = 0
          BY <1>5, <4>2
        <5>2. parts[h] = 0 \div supply
          BY <5>1
        <5>3. 0 \div supply = 0
          <6> HIDE DEF supply
          <6> QED
            BY <3>1, QuotientIsInt
        <5> QED
          BY <4>2, <5>2, <5>3
      <4> QED
        BY <4>1, <4>2
    <3> HIDE DEF shares, parts
    <3>4. SumFunctionOnSet(shares, Holders) = SumFunctionOnSet(parts, Holders)
      BY <1>5, <3>2, <3>3, SumsEqual
    <3> QED
      BY <3>2, <3>3, <3>4
  <2> QED
    BY <1>5, <2>1, <2>2
<1>7. /\ earned \in [Holders -> DelegatorEntities]
      /\ \A h \in Holders :
           /\ earned[h].cumulativeEarningsWei
                = st.delegators[h].cumulativeEarningsWei + shares[h]
           /\ earned[h].numberOfDelegations = st.delegators[h].numberOfDelegations
           /\ earned[h].totalValueDataWei = st.delegators[h].totalValueDataWei
           /\ st.delegators[h].cumulativeEarningsWei \in Int
  <2>1. ASSUME NEW h \in Holders
        PROVE  /\ earned[h] \in DelegatorEntities
               /\ earned[h].cumulativeEarningsWei
                    = st.delegators[h].cumulativeEarningsWei + shares[h]
               /\ earned[h].numberOfDelegations = st.delegators[h].numberOfDelegations
               /\ earned[h].totalValueDataWei = st.delegators[h].totalValueDataWei
               /\ st.delegators[h].cumulativeEarningsWei \in Int
    <3>1. st.delegators[h] \in DelegatorEntities
      BY <1>2 DEF IsStore
    <3>2. shares[h] \in Nat
      BY <1>6
    <3>3. CASE h \in D
      <4>1. shares[h] = share(h)
        BY <3>3
      <4>2. earned[h] = [st.delegators[h] EXCEPT !.cumulativeEarningsWei = @ + share(h)]
        BY <3>3
      <4> HIDE DEF shares, earned, share
      <4> QED
        BY <3>1, <3>2, <4>1, <4>2 DEF DelegatorEntities
    <3>4. CASE h \notin D
      <4>1. shares[h] = 0 /\ earned[h] = st.delegators[h]
        BY <3>4
      <4> HIDE DEF shares, earned
      <4> QED
        BY <3>1, <4>1 DEF DelegatorEntities
    <3> QED
      BY <3>3, <3>4
  <2> HIDE DEF shares, share
  <2>2. earned \in [Holders -> DelegatorEntities]
    <3>1. DOMAIN earned = Holders /\ earned = [h \in Holders |-> earned[h]]
      OBVIOUS
    <3> HIDE DEF earned
    <3> QED
      BY <2>1, <3>1
  <2> HIDE DEF earned
  <2> QED
    BY <2>1, <2>2
<1>8. SumFunctionOnSet(after, Holders)
        = SumFunctionOnSet(before, Holders) + SumFunctionOnSet(shares, Holders)
      /\ SumFunctionOnSet(before, Holders) \in Int /\ SumFunctionOnSet(shares, Holders) \in Int
  <2>1. \A h \in Holders : /\ before[h] \in Int /\ shares[h] \in Int
                           /\ after[h] = before[h] + shares[h]
    <3> HIDE DEF shares, earned
    <3> QED
      BY <1>6, <1>7
  <2> HIDE DEF before, shares, after
  <2> QED
    BY <1>5, <2>1, SumOfSums, SumTakes
<1> HIDE DEF earned, shares, base
<1>9. /\ DOMAIN base = StoreFields
      /\ base.delegations = st.delegations /\ base.delegators = st.delegators
      /\ base.delegatorCount = st.delegatorCount
      /\ base.cumulativeProfitsWei = st.cumulativeProfitsWei
      /\ base.network = st.network
      /\ base.totalStakeInSponsorshipsWei = st.totalStakeInSponsorshipsWei
  BY <1>3 DEF StoreFields, Orderly, IsStore
<1>10. /\ DOMAIN t = StoreFields
       /\ t.cumulativeProfitsWei = st.cumulativeProfitsWei + x /\ t.delegators = earned
       /\ \A f \in StoreFields \ {"cumulativeProfitsWei", "delegators"} : t[f] = base[f]
  BY <1>4, <1>9 DEF StoreFields
<1> HIDE DEF t
<1>11. /\ t.delegations = base.delegations /\ t.delegatorCount = base.delegatorCount
       /\ t.network = base.network /\ t.bucket = base.bucket
       /\ t.totalStakeInSponsorshipsWei = base.totalStakeInSponsorshipsWei
  BY <1>10 DEF StoreFields
<1>12. st.cumulativeProfitsWei \in Int
  BY <1>2 DEF IsStore
<1>13. IsStore(t)
  <2>1. t.cumulativeProfitsWei \in Int
    BY <1>10, <1>12
  <2> QED
    BY <1>3, <1>7, <1>10, <1>11, <2>1 DEF Orderly, IsStore
<1>14. DelegationsCounted(t)
  BY <1>3, <1>7, <1>9, <1>10, <1>11 DEF Orderly, DelegationsCounted
<1>15. EarningsIn(t) <= t.cumulativeProfitsWei
  <2>1. EarningsIn(t) = SumFunctionOnSet(after, Holders)
    <3>1. EarningsIn(t) = SumFunction(after)
      BY <1>10 DEF EarningsIn
    <3>2. DOMAIN after = Holders
      OBVIOUS
    <3> HIDE DEF after
    <3> QED
      BY <3>1, <3>2, SumOverDomain
  <2>2. EarningsIn(st) = SumFunctionOnSet(before, Holders)
    <3>1. EarningsIn(st) = SumFunction(before)
      BY DEF EarningsIn
    <3>2. DOMAIN before = Holders
      OBVIOUS
    <3> HIDE DEF before
    <3> QED
      BY <3>1, <3>2, SumOverDomain
  <2>3. EarningsIn(st) <= st.cumulativeProfitsWei
    BY <1>2 DEF Orderly
  <2> HIDE DEF before, after
  <2> QED
    BY <1>6, <1>8, <1>10, <1>12, <2>1, <2>2, <2>3
<1>16. Orderly(t)
  BY <1>3, <1>11, <1>13, <1>14, <1>15 DEF Orderly
<1>17. /\ t.delegations = st.delegations
       /\ t.operatorTokenTotalSupplyWei = st.operatorTokenTotalSupplyWei
       /\ t.queueEntries = st.queueEntries
       /\ t.operatorsCutFraction = st.operatorsCutFraction
       /\ t.isEligibleToVote = st.isEligibleToVote
       /\ t.network = st.network
       /\ t.totalStakeInSponsorshipsWei = st.totalStakeInSponsorshipsWei
       /\ t.dataTokenBalanceWei = st.dataTokenBalanceWei
  BY <1>3, <1>10 DEF StoreFields
<1>18. Shows(t, a, {}, reported)
  BY <1>16, <1>17, ShownAsBefore
<1> QED
  BY <1>1, <1>18 DEF e

-----------------------------------------------------------------------------
(* The queue entries *)

LEMMA EntryAdded ==
    ASSUME NEW st, NEW a \in Holdings, QueueShown(st, a), NEW h \in Holders,
           NEW data \in Nat \ {0}, NEW b,
           b.queue = Append(a.queue, [delegator |-> h, amount |-> data]),
           b.nextIndex = a.nextIndex + 1, NEW t,
           t.queueEntries = Index!Save(st.queueEntries, a.nextIndex,
                                       [delegator |-> h, amount |-> data])
    PROVE  QueueShown(t, b)
<1> DEFINE entry == [delegator |-> h, amount |-> data]
           n == Len(a.queue)
           x == a.nextIndex
<1>1. /\ a.queue \in Seq(Entries) /\ n \in Nat /\ DOMAIN a.queue = 1 .. n /\ x \in Int
      /\ entry \in Entries /\ entry.amount > 0
  BY DEF Holdings, Entries
<1> HIDE DEF entry, n
<1>2. /\ Len(b.queue) = n + 1 /\ DOMAIN b.queue = 1 .. n + 1 /\ b.queue[n + 1] = entry
      /\ \A i \in 1 .. n : b.queue[i] = a.queue[i]
  BY <1>1 DEF entry, n
<1>3. /\ DOMAIN t.queueEntries = DOMAIN st.queueEntries \cup {x}
      /\ t.queueEntries[x] = entry
      /\ \A i \in DOMAIN st.queueEntries \ {x} : t.queueEntries[i] = st.queueEntries[i]
  BY DEF Index!Save, entry
<1> HIDE DEF x
<1> DEFINE q == QueueIndex(a)
<1>4. q \in Int /\ q = x - n /\ QueueIndex(b) = q
  <2>1. q = x - n
    BY DEF QueueIndex, n, x
  <2>2. QueueIndex(b) = (x + 1) - (n + 1)
    BY <1>2 DEF QueueIndex, x
  <2> HIDE DEF q
  <2> QED
    BY <1>1, <2>1, <2>2
<1> HIDE DEF q
<1>5. Waiting(b) = Waiting(a) \cup {n + 1} /\ Waiting(a) \subseteq 1 .. n
  <2>1. ASSUME NEW i \in Waiting(b) PROVE i \in Waiting(a) \cup {n + 1}
    BY <1>1, <1>2 DEF Waiting
  <2>2. ASSUME NEW i \in Waiting(a) PROVE i \in Waiting(b)
    BY <1>1, <1>2 DEF Waiting
  <2>3. n + 1 \in Waiting(b)
    BY <1>1, <1>2 DEF Waiting
  <2> QED
    BY <1>1, <2>1, <2>2, <2>3 DEF Waiting
<1>6. IndexOf(b, n + 1) = x
  <2>1. IndexOf(b, n + 1) = q + (n + 1) - 1
    BY <1>4 DEF IndexOf
  <2> QED
    BY <1>1, <1>4, <2>1
<1>7. \A i \in Waiting(a) : i \in Int /\ IndexOf(b, i) = IndexOf(a, i) /\ IndexOf(a, i) # x
  <2> SUFFICES ASSUME NEW i \in Waiting(a)
               PROVE  i \in Int /\ IndexOf(b, i) = IndexOf(a, i) /\ IndexOf(a, i) # x
    OBVIOUS
  <2>1. i \in Int /\ i <= n
    BY <1>1, <1>5
  <2>2. IndexOf(a, i) = q + i - 1 /\ IndexOf(b, i) = q + i - 1
    BY <1>4 DEF IndexOf, q
  <2> QED
    BY <1>1, <1>4, <2>1, <2>2
<1>8. DOMAIN t.queueEntries = {IndexOf(b, i) : i \in Waiting(b)}
  <2>1. DOMAIN st.queueEntries = {IndexOf(a, i) : i \in Waiting(a)}
    BY DEF QueueShown
  <2>2. {IndexOf(b, i) : i \in Waiting(b)} = {IndexOf(a, i) : i \in Waiting(a)} \cup {x}
    BY <1>5, <1>6, <1>7
  <2> QED
    BY <1>3, <2>1, <2>2
<1>9. ASSUME NEW i \in Waiting(b) PROVE t.queueEntries[IndexOf(b, i)] = b.queue[i]
  <2>1. CASE i = n + 1
    BY <1>2, <1>3, <1>6, <2>1
  <2>2. CASE i \in Waiting(a)
    <3>1. /\ st.queueEntries[IndexOf(a, i)] = a.queue[i]
          /\ IndexOf(a, i) \in DOMAIN st.queueEntries
      BY <2>2 DEF QueueShown
    <3>2. b.queue[i] = a.queue[i]
      BY <1>2, <1>5, <2>2
    <3> QED
      BY <1>3, <1>7, <2>2, <3>1, <3>2
  <2> QED
    BY <1>5, <2>1, <2>2
<1> QED
  BY <1>8, <1>9 DEF QueueShown

LEMMA EntryRemoved ==
    ASSUME NEW st, NEW a \in Holdings, QueueShown(st, a), a.queue # <<>>, NEW b,
           b.queue = Tail(a.queue), b.nextIndex = a.nextIndex, NEW t,
           DOMAIN t.queueEntries = DOMAIN st.queueEntries \ {QueueIndex(a)},
           \A i \in DOMAIN t.queueEntries : t.queueEntries[i] = st.queueEntries[i]
    PROVE  QueueShown(t, b)
<1> DEFINE n == Len(a.queue)
           x == a.nextIndex
<1>1. /\ a.queue \in Seq(Entries) /\ n \in Nat /\ n > 0 /\ DOMAIN a.queue = 1 .. n /\ x \in Int
  BY DEF Holdings
<1>2. /\ Len(b.queue) = n - 1 /\ DOMAIN b.queue = 1 .. n - 1
      /\ \A i \in 1 .. n - 1 : b.queue[i] = a.queue[i + 1]
  BY <1>1
<1>3. /\ DOMAIN t.queueEntries = DOMAIN st.queueEntries \ {QueueIndex(a)}
      /\ \A i \in DOMAIN t.queueEntries : t.queueEntries[i] = st.queueEntries[i]
  OBVIOUS
<1> HIDE DEF n
<1> HIDE DEF x
<1> DEFINE q == QueueIndex(a)
<1>4. q \in Int /\ QueueIndex(b) = q + 1
  <2>1. q = x - n
    BY DEF QueueIndex, n, x
  <2>2. QueueIndex(b) = x - (n - 1)
    BY <1>2 DEF QueueIndex, x
  <2> HIDE DEF q
  <2> QED
    BY <1>1, <2>1, <2>2
<1> HIDE DEF q
<1>5. ASSUME NEW i \in Int
      PROVE  IndexOf(a, i) = q + i - 1 /\ IndexOf(b, i) = q + i
  <2>1. IndexOf(a, i) = q + i - 1 /\ IndexOf(b, i) = (q + 1) + i - 1
    BY <1>4 DEF IndexOf, q
  <2> QED
    BY <1>4, <2>1
<1>6. /\ Waiting(a) \subseteq 1 .. n
      /\ \A i \in 1 .. n - 1 : i \in Waiting(b) <=> i + 1 \in Waiting(a)
      /\ Waiting(b) \subseteq 1 .. n - 1
  BY <1>1, <1>2 DEF Waiting
<1>7. DOMAIN st.queueEntries = {IndexOf(a, i) : i \in Waiting(a)}
  BY DEF QueueShown
<1>8. ASSUME NEW k
      PROVE  k \in DOMAIN t.queueEntries <=> k \in {IndexOf(b, i) : i \in Waiting(b)}
  <2>1. ASSUME k \in DOMAIN t.queueEntries
        PROVE  k \in {IndexOf(b, i) : i \in Waiting(b)}
    <3>1. PICK i \in Waiting(a) : k = IndexOf(a, i)
      BY <1>3, <1>7, <2>1
    <3>2. i \in 1 .. n /\ k # q /\ i \in Int
      BY <1>1, <1>3, <1>6, <2>1 DEF q
    <3>3. k = q + i - 1
      BY <1>5, <3>1, <3>2
    <3>4. i - 1 \in 1 .. n - 1 /\ (i - 1) + 1 = i /\ i - 1 \in Int
      BY <1>1, <1>4, <3>2, <3>3
    <3>5. IndexOf(b, i - 1) = k
      <4>1. IndexOf(b, i - 1) = q + (i - 1)
        BY <1>5, <3>4
      <4> QED
        BY <1>4, <3>2, <3>3, <4>1
    <3>6. i - 1 \in Waiting(b)
      BY <1>6, <3>1, <3>4
    <3> QED
      BY <3>5, <3>6
  <2>2. ASSUME k \in {IndexOf(b, i) : i \in Waiting(b)}
        PROVE  k \in DOMAIN t.queueEntries
    <3>1. PICK i \in Waiting(b) : k = IndexOf(b, i)
      BY <2>2
    <3>2. i \in 1 .. n - 1 /\ i + 1 \in Waiting(a)
      BY <1>6
    <3>3. i \in Int /\ i + 1 \in Int /\ i >= 1
      BY <1>1, <3>2
    <3>4. IndexOf(a, i + 1) = q + (i + 1) - 1 /\ k = q + i
      BY <1>5, <3>1, <3>3
    <3>5. IndexOf(a, i + 1) = k /\ k # q
      BY <1>4, <3>3, <3>4
    <3> QED
      BY <1>3, <1>7, <3>2, <3>5 DEF q
  <2> QED
    BY <2>1, <2>2
<1>9. ASSUME NEW i \in Waiting(b) PROVE t.queueEntries[IndexOf(b, i)] = b.queue[i]
  <2>1. i \in 1 .. n - 1 /\ i + 1 \in Waiting(a)
    BY <1>6
  <2>2. IndexOf(a, i + 1) = IndexOf(b, i)
    <3>1. i \in Int /\ i + 1 \in Int
      BY <1>1, <2>1
    <3>2. IndexOf(a, i + 1) = q + (i + 1) - 1 /\ IndexOf(b, i) = q + i
      BY <1>5, <3>1
    <3> QED
      BY <1>4, <3>1, <3>2
  <2>3. st.queueEntries[IndexOf(a, i + 1)] = a.queue[i + 1]
    BY <2>1 DEF QueueShown
  <2>4. IndexOf(b, i) \in DOMAIN t.queueEntries
    BY <1>8
  <2> QED
    BY <1>2, <1>3, <2>1, <2>2, <2>3, <2>4
<1>10. DOMAIN t.queueEntries = {IndexOf(b, i) : i \in Waiting(b)}
  BY <1>8
<1> QED
  BY <1>9, <1>10 DEF QueueShown

\* The queue, and its entities, when the first entry asks for less
FirstReduced(queue, left) == [queue EXCEPT ![1].amount = left]
EntryLeft(entries, q, left) ==
    IF left = 0 THEN Index!Without(entries, q) ELSE [entries EXCEPT ![q].amount = left]

LEMMA EntryReduced ==
    ASSUME NEW st, NEW a \in Holdings, QueueShown(st, a), a.queue # <<>>,
           a.queue[1].amount > 0, NEW left \in Nat, NEW b,
           b.queue = FirstReduced(a.queue, left), b.nextIndex = a.nextIndex, NEW t,
           t.queueEntries = EntryLeft(st.queueEntries, QueueIndex(a), left)
    PROVE  QueueShown(t, b) /\ QueueIndex(a) \in DOMAIN st.queueEntries
<1> USE DEF FirstReduced, EntryLeft
<1> DEFINE n == Len(a.queue)
           x == a.nextIndex
           entry == [a.queue[1] EXCEPT !.amount = left]
<1>1. /\ a.queue \in Seq(Entries) /\ n \in Nat /\ n > 0 /\ DOMAIN a.queue = 1 .. n /\ x \in Int
  BY DEF Holdings
<1>2. a.queue[1] \in Entries /\ 1 \in 1 .. n
  BY <1>1
<1>3. entry \in Entries /\ entry.amount = left
  BY <1>2 DEF Entries
<1>4. /\ b.queue = [a.queue EXCEPT ![1] = entry]
      /\ Len(b.queue) = n /\ DOMAIN b.queue = 1 .. n /\ b.queue[1] = entry
      /\ \A i \in 2 .. n : b.queue[i] = a.queue[i]
  <2>1. b.queue = [a.queue EXCEPT ![1] = entry]
    OBVIOUS
  <2> HIDE DEF entry
  <2> QED
    BY <1>1, <1>2, <1>3, <2>1
<1> HIDE DEF n
<1>5. QueueIndex(b) = QueueIndex(a) /\ QueueIndex(a) \in Int
  BY <1>1, <1>4 DEF QueueIndex, n
<1>6. QueueIndex(a) = IndexOf(a, 1) /\ 1 \in Waiting(a)
  BY <1>1, <1>2 DEF QueueIndex, IndexOf, Waiting, n
<1>7. DOMAIN st.queueEntries = {IndexOf(a, i) : i \in Waiting(a)}
      /\ \A i \in Waiting(a) : st.queueEntries[IndexOf(a, i)] = a.queue[i]
  BY DEF QueueShown
<1>8. /\ Waiting(a) \subseteq 1 .. n /\ Waiting(b) \subseteq 1 .. n
      /\ \A i \in 2 .. n : i \in Waiting(b) <=> i \in Waiting(a)
      /\ 1 \in Waiting(b) <=> left > 0
  <2> HIDE DEF entry
  <2> QED
    BY <1>1, <1>2, <1>3, <1>4 DEF Waiting
<1>9. \A i \in 1 .. n : IndexOf(b, i) = IndexOf(a, i)
  BY <1>5 DEF IndexOf
<1>10. ASSUME NEW i \in 1 .. n, NEW j \in 1 .. n, IndexOf(a, i) = IndexOf(a, j)
       PROVE  i = j
  <2> DEFINE q == QueueIndex(a)
  <2>1. q \in Int /\ q + i - 1 = q + j - 1 /\ i \in Int /\ j \in Int
    BY <1>1, <1>5, <1>10 DEF IndexOf
  <2> HIDE DEF q
  <2> QED
    BY <2>1
<1> HIDE DEF entry, x
<1>11. CASE left = 0
  <2>1. /\ DOMAIN t.queueEntries = DOMAIN st.queueEntries \ {IndexOf(a, 1)}
        /\ \A i \in DOMAIN t.queueEntries : t.queueEntries[i] = st.queueEntries[i]
    BY <1>6, <1>11 DEF Index!Without
  <2>2. Waiting(b) = Waiting(a) \ {1}
    BY <1>1, <1>8, <1>11
  <2>3. DOMAIN t.queueEntries = {IndexOf(b, i) : i \in Waiting(b)}
    <3>1. \A i \in Waiting(a) : i \in 1 .. n /\ (IndexOf(a, i) = IndexOf(a, 1) => i = 1)
      BY <1>2, <1>8, <1>10
    <3> QED
      BY <1>7, <1>8, <1>9, <2>1, <2>2, <3>1
  <2>4. ASSUME NEW i \in Waiting(b) PROVE t.queueEntries[IndexOf(b, i)] = b.queue[i]
    <3>1. i \in 2 .. n /\ i \in Waiting(a) /\ i \in 1 .. n
      BY <1>1, <1>8, <2>2
    <3>2. IndexOf(b, i) \in DOMAIN t.queueEntries
      BY <2>3
    <3> QED
      BY <1>4, <1>7, <1>9, <2>1, <3>1, <3>2
  <2> QED
    BY <1>6, <1>7, <2>3, <2>4 DEF QueueShown
<1>12. CASE left > 0
  <2>1. /\ t.queueEntries = [st.queueEntries EXCEPT ![IndexOf(a, 1)].amount = left]
        /\ st.queueEntries[IndexOf(a, 1)] = a.queue[1]
        /\ IndexOf(a, 1) \in DOMAIN st.queueEntries
    BY <1>6, <1>7, <1>12
  <2>2. t.queueEntries = [st.queueEntries EXCEPT ![IndexOf(a, 1)] = entry]
    BY <2>1 DEF entry
  <2>3. Waiting(b) = Waiting(a)
    <3>1. \A i \in 1 .. n : i = 1 \/ i \in 2 .. n
      BY <1>1
    <3> QED
      <4>1. \A i : i \in Waiting(b) <=> i \in Waiting(a)
        BY <1>6, <1>8, <1>12, <3>1
      <4>2. Waiting(a) \subseteq 1 .. n /\ Waiting(b) \subseteq 1 .. n
        BY <1>8
      <4> HIDE DEF Waiting
      <4> QED
        BY <4>1, <4>2
  <2>4. DOMAIN t.queueEntries = {IndexOf(b, i) : i \in Waiting(b)}
    BY <1>7, <1>8, <1>9, <2>2, <2>3
  <2>5. ASSUME NEW i \in Waiting(b) PROVE t.queueEntries[IndexOf(b, i)] = b.queue[i]
    <3>1. i \in Waiting(a) /\ i \in 1 .. n
      BY <1>8, <2>3
    <3>2. CASE i = 1
      BY <1>2, <1>4, <1>9, <2>1, <2>2, <3>2
    <3>3. CASE i # 1
      <4>1. IndexOf(a, i) # IndexOf(a, 1) /\ i \in 2 .. n
        BY <1>1, <1>2, <1>10, <3>1, <3>3
      <4>2. IndexOf(a, i) \in DOMAIN st.queueEntries
        BY <1>7, <3>1
      <4>3. t.queueEntries[IndexOf(a, i)] = st.queueEntries[IndexOf(a, i)]
        BY <2>2, <4>1, <4>2
      <4> QED
        BY <1>4, <1>7, <1>9, <3>1, <4>1, <4>3
    <3> QED
      BY <3>2, <3>3
  <2> QED
    BY <1>6, <1>7, <2>4, <2>5 DEF QueueShown
<1> QED
  BY <1>11, <1>12

-----------------------------------------------------------------------------
(* What the entities show during a transaction *)

\* The store once the events so far are handled.
StoreOf(tx) == Index!HandleAll(store, tx.log)

\* A log of events; what they are is for the handlers to see.
Told(tx) == \E E : tx.log \in Seq(E)

\* The store that the transaction leads to shows its accounts.
Shown(tx, H, reported) == tx.ok => Told(tx) /\ Shows(StoreOf(tx), tx.op, H, reported)

\* The part of the accounts that is shown event by event has not changed.
SameBooks(a, b) ==
    /\ b.tokens = a.tokens /\ b.queue = a.queue /\ b.nextIndex = a.nextIndex
    /\ b.cut = a.cut /\ b.voter = a.voter

SameValue(a, b) ==
    /\ b.totalStaked = a.totalStaked /\ b.totalSlashed = a.totalSlashed
    /\ b.balance >= a.balance /\ a.balance \in Int /\ b.balance \in Int

LEMMA LogAppends ==
    ASSUME NEW tx, IsTx(tx), NEW e
    PROVE  Log(tx, e).log = Append(tx.log, e)
  BY DEF Log, IsTx

LEMMA LogIsHandled ==
    ASSUME NEW tx, IsTx(tx), Told(tx), NEW e
    PROVE  Told(Log(tx, e)) /\ StoreOf(Log(tx, e)) = Index!Handle(StoreOf(tx), e)
<1>1. Log(tx, e).log = Append(tx.log, e)
  BY LogAppends
<1>2. PICK E : tx.log \in Seq(E)
  BY DEF Told
<1>3. /\ Index!HandleAll(store, Append(tx.log, e))
           = Index!Handle(Index!HandleAll(store, tx.log), e)
      /\ Append(tx.log, e) \in Seq(E \cup {e})
  <2> DEFINE log == tx.log
             st == store
  <2>1. log \in Seq(E)
    BY <1>2
  <2> HIDE DEF log, st
  <2>2. /\ Index!HandleAll(st, Append(log, e)) = Index!Handle(Index!HandleAll(st, log), e)
        /\ Append(log, e) \in Seq(E \cup {e})
    BY <2>1, EventIsHandledLast
  <2> QED
    BY <2>2 DEF log, st
<1> QED
  BY <1>1, <1>3 DEF Told, StoreOf

\* One event more, if its handler keeps what is shown.
LEMMA LoggedIsShown ==
    ASSUME NEW tx, IsTx(tx), NEW H, NEW reported, Shown(tx, H, reported), NEW e,
           NEW G, NEW now,
           tx.ok => Shows(Index!Handle(StoreOf(tx), e), tx.op, G, now)
    PROVE  Shown(Log(tx, e), G, now)
<1>1. Log(tx, e).op = tx.op /\ Log(tx, e).ok = tx.ok
  BY LogKeeps
<1>2. tx.ok => Told(tx)
  BY DEF Shown
<1>3. tx.ok => Told(Log(tx, e)) /\ StoreOf(Log(tx, e)) = Index!Handle(StoreOf(tx), e)
  BY <1>2, LogIsHandled
<1> QED
  BY <1>1, <1>3 DEF Shown

LEMMA BalanceReported ==
    ASSUME NEW tx, Sound(tx), NEW H, NEW reported, Shown(tx, H, reported), NEW h \in Holders
    PROVE  Shown(BalanceUpdate(tx, h), H \ {h}, reported)
<1> DEFINE e == [name |-> "BalanceUpdate", delegator |-> h, balanceWei |-> tx.op.tokens[h],
                 totalSupplyWei |-> Supply(tx.op), value |-> ValueOf(tx.op)]
<1>1. BalanceUpdate(tx, h) = Log(tx, e) /\ IsTx(tx)
  BY DEF BalanceUpdate, Sound
<1>2. tx.ok => Shows(Index!Handle(StoreOf(tx), e), tx.op, H \ {h}, reported)
  <2> SUFFICES ASSUME tx.ok PROVE Shows(Index!Handle(StoreOf(tx), e), tx.op, H \ {h}, reported)
    OBVIOUS
  <2> DEFINE a == tx.op
             st == StoreOf(tx)
  <2>1. a \in Holdings /\ Shows(st, a, H, reported)
    BY DEF Sound, Shown
  <2> HIDE DEF a, st
  <2>2. LET f == [name |-> "BalanceUpdate", delegator |-> h, balanceWei |-> a.tokens[h],
                  totalSupplyWei |-> Supply(a), value |-> ValueOf(a)]
        IN  Shows(Index!Handle(st, f), a, H \ {h}, reported)
    BY <2>1, BalanceShown
  <2> QED
    BY <2>2 DEF a, st
<1> HIDE DEF e
<1> QED
  BY <1>1, <1>2, LoggedIsShown

LEMMA ValueReported ==
    ASSUME NEW tx, Sound(tx), NEW H, NEW reported, Shown(tx, H, reported)
    PROVE  Shown(OperatorValueUpdate(tx), H, TRUE)
<1> DEFINE e == [name |-> "OperatorValueUpdate",
                 totalStakeInSponsorshipsWei |-> tx.op.totalStaked - tx.op.totalSlashed,
                 dataTokenBalanceWei |-> tx.op.balance]
<1>1. OperatorValueUpdate(tx) = Log(tx, e) /\ IsTx(tx)
  BY DEF OperatorValueUpdate, Sound
<1>2. tx.ok => Shows(Index!Handle(StoreOf(tx), e), tx.op, H, TRUE)
  <2> SUFFICES ASSUME tx.ok PROVE Shows(Index!Handle(StoreOf(tx), e), tx.op, H, TRUE)
    OBVIOUS
  <2> DEFINE a == tx.op
             st == StoreOf(tx)
  <2>1. a \in Holdings /\ Shows(st, a, H, reported)
    BY DEF Sound, Shown
  <2> HIDE DEF a, st
  <2>2. LET f == [name |-> "OperatorValueUpdate",
                  totalStakeInSponsorshipsWei |-> a.totalStaked - a.totalSlashed,
                  dataTokenBalanceWei |-> a.balance]
        IN  Shows(Index!Handle(st, f), a, H, TRUE)
    BY <2>1, ValueUpdateShown
  <2> QED
    BY <2>2 DEF a, st
<1> HIDE DEF e
<1> QED
  BY <1>1, <1>2, LoggedIsShown

LEMMA FlowReported ==
    ASSUME NEW tx, IsTx(tx), NEW H, NEW reported, Shown(tx, H, reported), NEW h, NEW data,
           NEW name \in {"Delegated", "Undelegated"}
    PROVE  Shown(Log(tx, [name |-> name, delegator |-> h, amountDataWei |-> data]), H, reported)
<1> DEFINE e == [name |-> name, delegator |-> h, amountDataWei |-> data]
           st == StoreOf(tx)
<1>1. tx.ok => Shows(st, tx.op, H, reported)
  BY DEF Shown
<1>2. tx.ok => Shows(Index!Handle(st, e), tx.op, H, reported)
  <2> HIDE DEF st
  <2> QED
    BY <1>1, FlowShown
<1> HIDE DEF e
<1>3. Shown(Log(tx, e), H, reported)
  BY <1>1, <1>2, LoggedIsShown
<1> QED
  BY <1>3 DEF e

LEMMA LossReported ==
    ASSUME NEW tx, IsTx(tx), NEW H, NEW reported, Shown(tx, H, reported), NEW loss
    PROVE  Shown(Log(tx, [name |-> "Loss", valueDecreaseWei |-> loss]), H, reported)
<1> DEFINE e == [name |-> "Loss", valueDecreaseWei |-> loss]
           st == StoreOf(tx)
<1>1. tx.ok => Shows(st, tx.op, H, reported)
  BY DEF Shown
<1>2. tx.ok => Shows(Index!Handle(st, e), tx.op, H, reported)
  <2> HIDE DEF st
  <2> QED
    BY <1>1, LossShown
<1> HIDE DEF e
<1>3. Shown(Log(tx, e), H, reported)
  BY <1>1, <1>2, LoggedIsShown
<1> QED
  BY <1>3 DEF e

LEMMA ProfitReported ==
    ASSUME NEW tx, Sound(tx), NEW reported, Shown(tx, {}, reported), NEW x, NEW cut,
           tx.ok => x \in Nat
    PROVE  Shown(Log(tx, [name |-> "Profit", valueIncreaseWei |-> x, operatorsCutDataWei |-> cut]),
                 {}, reported)
<1> DEFINE e == [name |-> "Profit", valueIncreaseWei |-> x, operatorsCutDataWei |-> cut]
           st == StoreOf(tx)
<1>1. IsTx(tx) /\ (tx.ok => tx.op \in Holdings /\ Shows(st, tx.op, {}, reported))
  BY DEF Shown, Sound
<1>2. tx.ok => Shows(Index!Handle(st, e), tx.op, {}, reported)
  <2> HIDE DEF st
  <2> QED
    BY <1>1, ProfitShown
<1> HIDE DEF e
<1>3. Shown(Log(tx, e), {}, reported)
  BY <1>1, <1>2, LoggedIsShown
<1> QED
  BY <1>3 DEF e

\* A step without an event, which does not touch the books.
LEMMA StepShown ==
    ASSUME NEW tx, NEW H, NEW reported, Shown(tx, H, reported), NEW u,
           u.ok => tx.ok /\ u.log = tx.log /\ SameBooks(tx.op, u.op)
    PROVE  /\ Shown(u, H, FALSE)
           /\ (u.ok => SameValue(tx.op, u.op)) => Shown(u, H, reported)
<1>1. ASSUME u.ok
      PROVE  /\ Told(u) /\ Shows(StoreOf(u), u.op, H, FALSE)
             /\ SameValue(tx.op, u.op) => Shows(StoreOf(u), u.op, H, reported)
  <2> DEFINE a == tx.op
             b == u.op
             st == StoreOf(tx)
  <2>1. /\ Told(tx) /\ Shows(st, a, H, reported) /\ SameBooks(a, b)
        /\ Told(u) /\ StoreOf(u) = st
    BY <1>1 DEF Shown, Told, StoreOf
  <2> HIDE DEF a, b, st
  <2>2. TokensShown(st, b, H) /\ QueueShown(st, b) /\ SettingsShown(st, b)
    BY <2>1 DEF Shows, SameBooks, TokensShown, QueueShown, SettingsShown, IndexOf, Waiting,
                QueueIndex, Supply
  <2>3. SameValue(a, b) => (reported => ValueShown(st, b))
    <3> SUFFICES ASSUME SameValue(a, b), reported PROVE ValueShown(st, b)
      OBVIOUS
    <3>1. ValueShown(st, a)
      BY <2>1 DEF Shows
    <3> QED
      BY <3>1 DEF ValueShown, SameValue
  <2> QED
    BY <2>1, <2>2, <2>3 DEF Shows, a, b
<1> QED
  BY <1>1 DEF Shown

LEMMA RequiredShown ==
    ASSUME NEW tx, IsTx(tx), NEW H, NEW reported, Shown(tx, H, reported), NEW condition
    PROVE  Shown(Require(tx, condition), H, reported)
  BY DEF Require, IsTx, Shown

\* The tokens of a holder change: that is still to be reported.
LEMMA TokensStep ==
    ASSUME NEW tx, Sound(tx), NEW H, NEW reported, Shown(tx, H, reported), NEW h \in Holders,
           NEW x, NEW u, u.ok => tx.ok /\ u.log = tx.log /\ u.op = [tx.op EXCEPT !.tokens[h] = x]
    PROVE  Shown(u, H \cup {h}, reported)
<1>1. ASSUME u.ok
      PROVE  Told(u) /\ Shows(StoreOf(u), u.op, H \cup {h}, reported)
  <2> DEFINE a == tx.op
             b == u.op
             st == StoreOf(tx)
  <2>1. /\ Told(tx) /\ Shows(st, a, H, reported) /\ a \in Holdings
        /\ b = [a EXCEPT !.tokens[h] = x]
        /\ Told(u) /\ StoreOf(u) = st
    BY <1>1 DEF Shown, Told, StoreOf, Sound
  <2> HIDE DEF a, b, st
  <2>2. /\ \A g \in Holders \ {h} : b.tokens[g] = a.tokens[g]
        /\ b.queue = a.queue /\ b.nextIndex = a.nextIndex
        /\ b.cut = a.cut /\ b.voter = a.voter
        /\ b.totalStaked = a.totalStaked /\ b.totalSlashed = a.totalSlashed
        /\ b.balance = a.balance
    BY <2>1 DEF Holdings
  <2>3. QueueShown(st, b) /\ SettingsShown(st, b) /\ (reported => ValueShown(st, b))
    BY <2>1, <2>2 DEF Shows, QueueShown, SettingsShown, IndexOf, Waiting, QueueIndex, ValueShown
  <2>4. TokensShown(st, b, H \cup {h})
    <3>1. TokensShown(st, a, H) /\ DOMAIN st.delegations \subseteq Holders
      BY <2>1 DEF Shows, Orderly, IsStore
    <3>2. H \cup {h} # {}
      OBVIOUS
    <3>3. ASSUME NEW g \in Holders \ (H \cup {h})
          PROVE  g \in DOMAIN st.delegations <=> b.tokens[g] > 0
      BY <2>2, <3>1 DEF TokensShown
    <3>4. ASSUME NEW g \in DOMAIN st.delegations \ (H \cup {h})
          PROVE  st.delegations[g].operatorTokenBalanceWei = b.tokens[g]
      BY <2>2, <3>1 DEF TokensShown
    <3> QED
      BY <3>2, <3>3, <3>4 DEF TokensShown
  <2> QED
    BY <2>1, <2>3, <2>4 DEF Shows, b
<1> QED
  BY <1>1 DEF Shown

-----------------------------------------------------------------------------
(* What the functions of OperatorBooks tell *)

\* _delegate
LEMMA DelegatedTells ==
    ASSUME NEW tx, Sound(tx), NEW reported, Shown(tx, {}, reported),
           NEW h \in Holders, NEW data, tx.ok => data \in Nat /\ data <= ValueOf(tx.op)
    PROVE  Shown(Delegated(tx, h, data), {}, TRUE)
<1> DEFINE x == tx.op.tokens[h] + MintedFor(tx.op, data)
           minted == [tx EXCEPT !.op.tokens[h] = x]
           divides == Supply(tx.op) = 0 \/ ValueOf(tx.op) # data
           allowed == h = Owner \/ (/\ minted.op.tokens[h] >= MinimumDelegation
                                    /\ OwnerHasEnough(minted.op))
           required == Require(minted, divides /\ allowed)
           told == Log(required, [name |-> "Delegated", delegator |-> h, amountDataWei |-> data])
           updated == BalanceUpdate(told, h)
           t == Delegated(tx, h, data)
<1>1. t = OperatorValueUpdate(updated)
  BY DEF Delegated
<1>2. IsTx(t) /\ (t.ok => t.op \in Holdings)
  BY DelegatedIs
<1>3. /\ IsTx(minted) /\ minted.ok = tx.ok /\ minted.log = tx.log
      /\ minted.op = [tx.op EXCEPT !.tokens[h] = x]
  <2> HIDE DEF x
  <2> QED
    BY DEF IsTx, Sound
<1>4. Shown(minted, {h}, reported)
  <2>1. {} \cup {h} = {h}
    OBVIOUS
  <2>2. Shown(minted, {} \cup {h}, reported)
    <3> HIDE DEF x, minted
    <3> QED
      BY <1>3, TokensStep
  <2> QED
    BY <2>1, <2>2
<1> HIDE DEF minted, divides, allowed
<1>5. IsTx(required) /\ Shown(required, {h}, reported)
  <2>1. IsTx(required)
    BY <1>3 DEF Require, IsTx
  <2> QED
    BY <1>3, <1>4, <2>1, RequiredShown
<1> HIDE DEF required
<1>6. IsTx(told) /\ Shown(told, {h}, reported)
  BY <1>5, LogKeeps, FlowReported
<1> HIDE DEF told
<1>7. /\ IsTx(updated) /\ updated.op = told.op /\ updated.ok = told.ok
      /\ t.op = updated.op /\ t.ok = updated.ok
  BY <1>1, <1>6, ReportsKeep
<1>8. Sound(told)
  BY <1>2, <1>6, <1>7 DEF Sound
<1>9. Shown(updated, {}, reported)
  <2>1. {h} \ {h} = {}
    OBVIOUS
  <2>2. Shown(updated, {h} \ {h}, reported)
    BY <1>6, <1>8, BalanceReported
  <2> QED
    BY <2>1, <2>2
<1>10. Sound(updated)
  BY <1>2, <1>7 DEF Sound
<1> HIDE DEF updated, t
<1>11. Shown(t, {}, TRUE)
  BY <1>1, <1>9, <1>10, ValueReported
<1> QED
  BY <1>11 DEF t

\* _slashSelfDelegation
LEMMA SlashSelfDelegationTells ==
    ASSUME NEW tx, Sound(tx), NEW reported, Shown(tx, {}, reported),
           NEW data \in Nat, tx.ok => ValueOf(tx.op) >= 0
    PROVE  Shown(SlashSelfDelegation(tx, data), {}, reported)
<1> DEFINE t == SlashSelfDelegation(tx, data)
<1>1. CASE tx.op.tokens[Owner] = 0
  <2>1. t = tx
    BY <1>1 DEF SlashSelfDelegation
  <2> QED
    BY <2>1
<1>2. CASE tx.op.tokens[Owner] # 0
  <2> DEFINE burned == AtMost(TokensForData(tx.op, data), tx.op.tokens[Owner])
             able == Require(tx, ValueOf(tx.op) > 0)
             x == able.op.tokens[Owner] - burned
             after == [able EXCEPT !.op.tokens[Owner] = x]
  <2>1. t = BalanceUpdate(after, Owner)
    BY <1>2 DEF SlashSelfDelegation
  <2>2. IsTx(t) /\ (t.ok => t.op \in Holdings)
    BY SlashSelfDelegationIs
  <2>3. IsTx(able) /\ (able.ok => tx.ok) /\ able.op = tx.op
    BY DEF Require, IsTx, Sound
  <2>4. Shown(able, {}, reported)
    BY RequiredShown DEF Sound
  <2>5. Sound(able)
    BY <2>3 DEF Sound
  <2> HIDE DEF able, x
  <2>6. /\ IsTx(after) /\ after.ok = able.ok /\ after.log = able.log
        /\ after.op = [able.op EXCEPT !.tokens[Owner] = x]
    BY <2>3 DEF IsTx
  <2> HIDE DEF after
  <2>7. Shown(after, {Owner}, reported)
    <3>1. {} \cup {Owner} = {Owner} /\ Owner \in Holders
      BY OperatorAssumption
    <3>2. Shown(after, {} \cup {Owner}, reported)
      BY <2>4, <2>5, <2>6, <3>1, TokensStep
    <3> QED
      BY <3>1, <3>2
  <2>8. t.op = after.op /\ t.ok = after.ok
    BY <2>1, <2>6, ReportsKeep
  <2>9. Sound(after)
    BY <2>2, <2>6, <2>8 DEF Sound
  <2>10. Shown(t, {}, reported)
    <3>1. {Owner} \ {Owner} = {} /\ Owner \in Holders
      BY OperatorAssumption
    <3>2. Shown(t, {Owner} \ {Owner}, reported)
      <4> HIDE DEF t
      <4> QED
        BY <2>1, <2>7, <2>9, <3>1, BalanceReported
    <3> QED
      BY <3>1, <3>2
  <2> QED
    BY <2>10
<1> QED
  BY <1>1, <1>2

AccountFields ==
    {"balance", "tokens", "sponsorships", "stakedInto", "slashedIn", "totalStaked",
     "totalSlashed", "queue", "nextIndex", "cut", "voter"}

IsAccount(a) == DOMAIN a = AccountFields /\ a.voter \in BOOLEAN

LEMMA HoldingsAreAccounts ==
    ASSUME NEW a \in Holdings
    PROVE  IsAccount(a)
  BY DEF Holdings, IsAccount, AccountFields

\* The voter registry tells only of a change.
LEMMA VoterUpdateShown ==
    ASSUME NEW st, NEW a, IsAccount(a), NEW H, NEW reported, Shows(st, a, H, reported),
           NEW eligible \in BOOLEAN, eligible # a.voter
    PROVE  Shows(Index!Handle(st, [name |-> "VoterUpdate", isVoter |-> eligible]),
                 [a EXCEPT !.voter = eligible], H, reported)
<1> DEFINE e == [name |-> "VoterUpdate", isVoter |-> eligible]
           b == [a EXCEPT !.voter = eligible]
           by == IF eligible THEN 1 ELSE -1
           t == [st EXCEPT !.isEligibleToVote = eligible, !.network.eligibleVotersCount = @ + by]
<1>1. Index!Handle(st, e) = t
  BY DEF Index!Handle, Index!HandleVoterUpdate
<1>2. Orderly(st) /\ DOMAIN st = StoreFields /\ DOMAIN st.network = NetworkFields
  BY DEF Shows, Orderly, IsStore
<1>3. /\ \A f \in StoreFields \ {"network", "isEligibleToVote"} : t[f] = st[f]
      /\ DOMAIN t = StoreFields /\ DOMAIN t.network = NetworkFields
      /\ t.isEligibleToVote = eligible
      /\ t.network.totalStake = st.network.totalStake
      /\ t.network.eligibleVotersCount = st.network.eligibleVotersCount + by
  <2> HIDE DEF by
  <2> QED
    BY <1>2 DEF StoreFields, NetworkFields
<1> HIDE DEF t
<1>4. /\ t.delegators = st.delegators /\ t.delegations = st.delegations
      /\ t.delegatorCount = st.delegatorCount /\ t.bucket = st.bucket
      /\ t.cumulativeProfitsWei = st.cumulativeProfitsWei
      /\ t.totalStakeInSponsorshipsWei = st.totalStakeInSponsorshipsWei
      /\ t.operatorTokenTotalSupplyWei = st.operatorTokenTotalSupplyWei
      /\ t.queueEntries = st.queueEntries
      /\ t.operatorsCutFraction = st.operatorsCutFraction
      /\ t.dataTokenBalanceWei = st.dataTokenBalanceWei
  BY <1>3 DEF StoreFields
<1>5. Orderly(t)
  <2>1. t.totalStakeInSponsorshipsWei \in Int
        /\ t.network.totalStake = t.totalStakeInSponsorshipsWei
    BY <1>2, <1>3, <1>4 DEF Orderly, IsStore
  <2> QED
    BY <1>2, <1>3, <1>4, <2>1, StaysOrderly
<1>6. /\ b.voter = eligible /\ b.tokens = a.tokens /\ b.queue = a.queue
      /\ b.nextIndex = a.nextIndex /\ b.cut = a.cut /\ b.balance = a.balance
      /\ b.totalStaked = a.totalStaked /\ b.totalSlashed = a.totalSlashed
  BY DEF IsAccount, AccountFields
<1> HIDE DEF b
<1>7. SettingsShown(t, b)
  <2>1. a.voter \in BOOLEAN /\ SettingsShown(st, a)
    BY DEF Shows, IsAccount
  <2> QED
    BY <1>3, <1>4, <1>6, <2>1 DEF SettingsShown
<1>8. TokensShown(t, b, H) /\ QueueShown(t, b) /\ (reported => ValueShown(t, b))
  BY <1>4, <1>6 DEF Shows, TokensShown, QueueShown, ValueShown, IndexOf, Waiting, QueueIndex,
                    Supply
<1>9. Shows(t, b, H, reported)
  BY <1>5, <1>7, <1>8 DEF Shows
<1> QED
  BY <1>1, <1>9 DEF e, b

LEMMA VoterUpdatedTells ==
    ASSUME NEW tx, IsTx(tx), tx.ok => IsAccount(tx.op),
           NEW H, NEW reported, Shown(tx, H, reported)
    PROVE  Shown(VoterUpdated(tx), H, reported)
<1> DEFINE eligible == tx.op.totalStaked >= VoterThreshold
           updated == [tx EXCEPT !.op.voter = eligible]
           e == [name |-> "VoterUpdate", isVoter |-> eligible]
           t == VoterUpdated(tx)
<1>1. CASE eligible = tx.op.voter
  <2>1. t = tx
    BY <1>1 DEF VoterUpdated
  <2> QED
    BY <2>1
<1>2. CASE eligible # tx.op.voter
  <2>1. t = Log(updated, e)
    BY <1>2 DEF VoterUpdated
  <2>2. eligible \in BOOLEAN
    OBVIOUS
  <2> HIDE DEF eligible
  <2>3. /\ IsTx(updated) /\ updated.ok = tx.ok /\ updated.log = tx.log
        /\ updated.op = [tx.op EXCEPT !.voter = eligible]
    BY DEF IsTx
  <2>4. IsTx(t) /\ t.log = Append(updated.log, e) /\ t.op = updated.op /\ t.ok = updated.ok
    <3> HIDE DEF updated, e, t
    <3> QED
      BY <2>1, <2>3, LogKeeps, LogAppends
  <2>5. ASSUME tx.ok
        PROVE  Told(t) /\ Shows(StoreOf(t), t.op, H, reported)
    <3> DEFINE a == tx.op
               st == StoreOf(tx)
    <3>1. /\ IsAccount(a) /\ Told(tx) /\ Shows(st, a, H, reported) /\ eligible # a.voter
      BY <1>2, <2>5 DEF Shown
    <3>2. t.log = Append(tx.log, e) /\ t.op = [a EXCEPT !.voter = eligible]
      BY <2>3, <2>4
    <3>3. Told(Log(tx, e)) /\ StoreOf(Log(tx, e)) = Index!Handle(st, e)
      <4> HIDE DEF e
      <4> QED
        BY <3>1, LogIsHandled
    <3>4. Log(tx, e).log = Append(tx.log, e)
      <4> HIDE DEF e
      <4> QED
        BY LogAppends
    <3>5. Told(t) /\ StoreOf(t) = Index!Handle(st, e)
      BY <3>2, <3>3, <3>4 DEF Told, StoreOf
    <3> HIDE DEF a, st, t
    <3>6. Shows(Index!Handle(st, e), [a EXCEPT !.voter = eligible], H, reported)
      BY <2>2, <3>1, VoterUpdateShown
    <3> QED
      BY <3>2, <3>5, <3>6
  <2> QED
    BY <2>3, <2>4, <2>5 DEF Shown
<1> QED
  BY <1>1, <1>2

\* QueueUpdated, after the first entry was taken off or reduced
LEMMA QueueUpdateShown ==
    ASSUME NEW st, NEW a \in Holdings, NEW H, NEW reported, Shows(st, a, H, reported),
           a.queue # <<>>, NEW left \in Nat, NEW b,
           b.tokens = a.tokens, b.cut = a.cut, b.voter = a.voter, b.nextIndex = a.nextIndex,
           b.balance = a.balance, b.totalStaked = a.totalStaked, b.totalSlashed = a.totalSlashed,
           \/ b.queue = Tail(a.queue) /\ left = 0
           \/ b.queue = [a.queue EXCEPT ![1].amount = left] /\ a.queue[1].amount > 0
    PROVE  Shows(Index!Handle(st, [name |-> "QueueUpdated", queueIndex |-> QueueIndex(a),
                                   amountWei |-> left]), b, H, reported)
<1> DEFINE q == QueueIndex(a)
           e == [name |-> "QueueUpdated", queueIndex |-> q, amountWei |-> left]
           t == Index!HandleQueueUpdated(st, e)
           changed == [st.queueEntries EXCEPT ![q].amount = left]
           without == Index!Without(st.queueEntries, q)
<1>1. Index!Handle(st, e) = t
  BY DEF Index!Handle
<1>2. Orderly(st) /\ DOMAIN st = StoreFields /\ QueueShown(st, a)
  BY DEF Shows, Orderly, IsStore
<1> HIDE DEF q
<1>3. /\ \A f \in StoreFields \ {"queueEntries"} : t[f] = st[f]
      /\ DOMAIN t = StoreFields
      /\ q \in DOMAIN st.queueEntries /\ left = 0 => t.queueEntries = without
      /\ q \in DOMAIN st.queueEntries /\ left # 0 => t.queueEntries = changed
      /\ q \notin DOMAIN st.queueEntries => t.queueEntries = st.queueEntries
  <2>1. /\ q \in DOMAIN st.queueEntries /\ left = 0 => t = [st EXCEPT !.queueEntries = without]
        /\ q \in DOMAIN st.queueEntries /\ left # 0 => t = [st EXCEPT !.queueEntries = changed]
        /\ q \notin DOMAIN st.queueEntries => t = st
    BY DEF Index!HandleQueueUpdated
  <2> HIDE DEF t, without, changed
  <2> QED
    BY <1>2, <2>1 DEF StoreFields
<1> HIDE DEF t
<1>4. QueueShown(t, b)
  <2>1. CASE b.queue = Tail(a.queue) /\ left = 0
    <3>1. /\ DOMAIN t.queueEntries = DOMAIN st.queueEntries \ {q}
          /\ \A i \in DOMAIN t.queueEntries : t.queueEntries[i] = st.queueEntries[i]
      <4>1. CASE q \in DOMAIN st.queueEntries
        BY <1>3, <2>1, <4>1 DEF Index!Without
      <4>2. CASE q \notin DOMAIN st.queueEntries
        BY <1>3, <4>2
      <4> QED
        BY <4>1, <4>2
    <3> QED
      BY <1>2, <2>1, <3>1, EntryRemoved DEF q
  <2>2. CASE b.queue = [a.queue EXCEPT ![1].amount = left] /\ a.queue[1].amount > 0
    <3> DEFINE u == [queueEntries |-> EntryLeft(st.queueEntries, QueueIndex(a), left)]
    <3>1. /\ u.queueEntries = EntryLeft(st.queueEntries, QueueIndex(a), left)
          /\ b.queue = FirstReduced(a.queue, left)
      BY <2>2 DEF FirstReduced
    <3>2. QueueShown(u, b) /\ q \in DOMAIN st.queueEntries
      <4> HIDE DEF u, e, without, changed
      <4>1. QueueShown(u, b) /\ QueueIndex(a) \in DOMAIN st.queueEntries
        BY <1>2, <2>2, <3>1, EntryReduced
      <4> QED
        BY <4>1 DEF q
    <3>3. t.queueEntries = u.queueEntries
      BY <1>3, <3>2 DEF u, EntryLeft, q
    <3> QED
      BY <3>2, <3>3 DEF QueueShown
  <2> QED
    BY <2>1, <2>2
<1>5. /\ t.delegators = st.delegators /\ t.delegations = st.delegations
      /\ t.delegatorCount = st.delegatorCount /\ t.bucket = st.bucket
      /\ t.cumulativeProfitsWei = st.cumulativeProfitsWei
      /\ t.totalStakeInSponsorshipsWei = st.totalStakeInSponsorshipsWei
      /\ t.operatorTokenTotalSupplyWei = st.operatorTokenTotalSupplyWei
      /\ t.operatorsCutFraction = st.operatorsCutFraction
      /\ t.isEligibleToVote = st.isEligibleToVote
      /\ t.dataTokenBalanceWei = st.dataTokenBalanceWei
      /\ t.network = st.network
  BY <1>3 DEF StoreFields
<1>6. Orderly(t)
  <2>1. /\ t.totalStakeInSponsorshipsWei \in Int /\ DOMAIN t.network = NetworkFields
        /\ t.network.totalStake = t.totalStakeInSponsorshipsWei
    BY <1>2, <1>5 DEF Orderly, IsStore
  <2> QED
    BY <1>2, <1>3, <1>5, <2>1, StaysOrderly
<1>7. TokensShown(t, b, H) /\ SettingsShown(t, b) /\ (reported => ValueShown(t, b))
  BY <1>5 DEF Shows, TokensShown, SettingsShown, ValueShown, Supply
<1>8. Shows(t, b, H, reported)
  BY <1>4, <1>6, <1>7 DEF Shows
<1> QED
  BY <1>1, <1>8 DEF e, q

\* A transaction with one event more, and accounts that the event tells of.
LEMMA EventTells ==
    ASSUME NEW tx, IsTx(tx), NEW u, IsTx(u), u.ok => tx.ok /\ u.log = tx.log, NEW e,
           NEW H, NEW reported, Shown(tx, H, reported), NEW G, NEW now,
           u.ok => Shows(Index!Handle(StoreOf(tx), e), u.op, G, now)
    PROVE  Shown(Log(u, e), G, now)
<1> DEFINE t == Log(u, e)
<1>1. t.op = u.op /\ t.ok = u.ok
  BY LogKeeps
<1>2. ASSUME u.ok
      PROVE  Told(t) /\ StoreOf(t) = Index!Handle(StoreOf(tx), e)
  <2>1. tx.ok /\ u.log = tx.log /\ Told(tx)
    BY <1>2 DEF Shown
  <2>2. Told(u) /\ StoreOf(u) = StoreOf(tx)
    BY <2>1 DEF Told, StoreOf
  <2>3. Told(t) /\ StoreOf(t) = Index!Handle(StoreOf(u), e)
    BY <2>2, LogIsHandled
  <2> HIDE DEF t
  <2> QED
    BY <2>2, <2>3
<1> HIDE DEF t
<1>3. Shown(t, G, now)
  BY <1>1, <1>2 DEF Shown
<1> QED
  BY <1>3 DEF t

LEMMA PopQueueTells ==
    ASSUME NEW tx, Sound(tx), NEW H, NEW reported, Shown(tx, H, reported),
           tx.ok => tx.op.queue # <<>>
    PROVE  Shown(PopQueue(tx), H, reported)
<1> DEFINE rest == Tail(tx.op.queue)
           popped == [tx EXCEPT !.op.queue = rest]
           q == QueueIndex(tx.op)
           e == [name |-> "QueueUpdated", queueIndex |-> q, amountWei |-> 0]
<1>1. PopQueue(tx) = Log(popped, e)
  BY DEF PopQueue, QueueUpdated
<1>2. /\ IsTx(popped) /\ popped.ok = tx.ok /\ popped.log = tx.log
      /\ popped.op = [tx.op EXCEPT !.queue = rest]
  <2> HIDE DEF rest
  <2> QED
    BY DEF IsTx, Sound
<1>3. ASSUME popped.ok
      PROVE  Shows(Index!Handle(StoreOf(tx), e), popped.op, H, reported)
  <2> DEFINE a == tx.op
             b == popped.op
             st == StoreOf(tx)
  <2>1. a \in Holdings /\ Shows(st, a, H, reported) /\ a.queue # <<>>
    BY <1>2, <1>3 DEF Sound, Shown
  <2>2. b = [a EXCEPT !.queue = Tail(a.queue)]
    BY <1>2
  <2> HIDE DEF a, b, st, popped
  <2>3. /\ b.tokens = a.tokens /\ b.cut = a.cut /\ b.voter = a.voter
        /\ b.nextIndex = a.nextIndex /\ b.balance = a.balance
        /\ b.totalStaked = a.totalStaked /\ b.totalSlashed = a.totalSlashed
        /\ b.queue = Tail(a.queue)
    BY <2>1, <2>2 DEF Holdings
  <2>4. Shows(Index!Handle(st, [name |-> "QueueUpdated", queueIndex |-> QueueIndex(a),
                                amountWei |-> 0]), b, H, reported)
    BY <2>1, <2>3, QueueUpdateShown
  <2> QED
    BY <2>4 DEF a, b, st
<1> HIDE DEF popped, e
<1>4. IsTx(tx)
  BY DEF Sound
<1>5. Shown(Log(popped, e), H, reported)
  BY <1>2, <1>3, <1>4, EventTells
<1> QED
  BY <1>1, <1>5

\* The tokens are burned and the DATA is sent.
LEMMA PaidToTells ==
    ASSUME NEW tx, Sound(tx), NEW reported, Shown(tx, {}, reported),
           NEW h \in Holders, NEW tokens \in Nat, NEW data \in Nat,
           tx.ok => data <= tx.op.balance
    PROVE  Shown(PaidTo(tx, h, tokens, data), {}, TRUE)
<1> DEFINE able == Require(tx, tokens <= tx.op.tokens[h])
           x == able.op.tokens[h] - tokens
           y == able.op.balance - data
           without == [able EXCEPT !.op.tokens[h] = x]
           burned == [without EXCEPT !.op.balance = y]
           told == Log(burned, [name |-> "Undelegated", delegator |-> h, amountDataWei |-> data])
           updated == BalanceUpdate(told, h)
           t == PaidTo(tx, h, tokens, data)
<1>1. t = OperatorValueUpdate(updated)
  BY DEF PaidTo
<1>2. IsTx(t) /\ (t.ok => t.op \in Holdings)
  BY PaidToIs
<1>3. Sound(able) /\ Shown(able, {}, reported)
  <2>1. IsTx(able) /\ (able.ok => tx.ok) /\ able.op = tx.op
    BY DEF Require, IsTx, Sound
  <2> QED
    BY <2>1, RequiredShown DEF Sound
<1> HIDE DEF able
<1>4. /\ IsTx(without) /\ without.ok = able.ok /\ without.log = able.log
      /\ without.op = [able.op EXCEPT !.tokens[h] = x]
  <2> HIDE DEF x
  <2> QED
    BY <1>3 DEF IsTx, Sound
<1>5. Shown(without, {h}, reported)
  <2>1. {} \cup {h} = {h}
    OBVIOUS
  <2>2. Shown(without, {} \cup {h}, reported)
    <3> HIDE DEF x, without
    <3> QED
      BY <1>3, <1>4, TokensStep
  <2> QED
    BY <2>1, <2>2
<1> HIDE DEF without
<1>6. /\ IsTx(burned) /\ burned.ok = without.ok /\ burned.log = without.log
      /\ burned.op = [without.op EXCEPT !.balance = y]
  <2> HIDE DEF y
  <2> QED
    BY <1>4 DEF IsTx
<1>7. burned.ok => SameBooks(without.op, burned.op)
  <2> HIDE DEF x, y, burned
  <2> QED
    BY <1>3, <1>4, <1>6 DEF Sound, Holdings, SameBooks
<1> HIDE DEF burned, x, y
<1>8. Shown(burned, {h}, FALSE)
  BY <1>5, <1>6, <1>7, StepShown
<1>9. IsTx(told) /\ Shown(told, {h}, FALSE)
  BY <1>6, <1>8, LogKeeps, FlowReported
<1> HIDE DEF told
<1>10. /\ IsTx(updated) /\ updated.op = told.op /\ updated.ok = told.ok
       /\ t.op = updated.op /\ t.ok = updated.ok
  BY <1>1, <1>9, ReportsKeep
<1>11. Sound(told)
  BY <1>2, <1>9, <1>10 DEF Sound
<1>12. Shown(updated, {}, FALSE)
  <2>1. {h} \ {h} = {}
    OBVIOUS
  <2>2. Shown(updated, {h} \ {h}, FALSE)
    BY <1>9, <1>11, BalanceReported
  <2> QED
    BY <2>1, <2>2
<1>13. Sound(updated)
  BY <1>2, <1>10 DEF Sound
<1> HIDE DEF updated, t
<1>14. Shown(t, {}, TRUE)
  BY <1>1, <1>12, <1>13, ValueReported
<1> QED
  BY <1>14 DEF t

\* The first entry asks for less, once it is paid in part.
LEMMA PartlyPaidTells ==
    ASSUME NEW tx, Sound(tx), tx.ok, NEW H, NEW reported, Shown(tx, H, reported),
           tx.op.queue # <<>>, tx.op.balance > 0, NEW left,
           left = tx.op.queue[1].amount - tx.op.balance, NEW condition,
           condition => left >= 0
    PROVE  Shown(QueueUpdated([Require(tx, condition) EXCEPT !.op.queue[1].amount = left],
                              QueueIndex(tx.op), left), H, reported)
<1> DEFINE able == Require(tx, condition)
           queue == [tx.op.queue EXCEPT ![1] = [tx.op.queue[1] EXCEPT !.amount = left]]
           changed == [able EXCEPT !.op.queue[1].amount = left]
           e == [name |-> "QueueUpdated", queueIndex |-> QueueIndex(tx.op), amountWei |-> left]
           t == QueueUpdated(changed, QueueIndex(tx.op), left)
<1>1. t = Log(changed, e)
  BY DEF QueueUpdated
<1>2. /\ IsTx(able) /\ (able.ok => tx.ok /\ left >= 0) /\ able.op = tx.op
      /\ able.log = tx.log
  BY DEF Require, IsTx, Sound
<1> HIDE DEF able
<1>3. /\ IsTx(changed) /\ changed.ok = able.ok /\ changed.op = [tx.op EXCEPT !.queue = queue]
      /\ changed.log = tx.log
  BY <1>2 DEF IsTx
<1> HIDE DEF changed, t
<1>4. ASSUME changed.ok
      PROVE  Shows(Index!Handle(StoreOf(tx), e), changed.op, H, reported)
  <2> DEFINE a == tx.op
             b == changed.op
             st == StoreOf(tx)
  <2>1. a \in Holdings /\ Shows(st, a, H, reported) /\ a.queue # <<>>
    BY <1>2, <1>3, <1>4 DEF Sound, Shown
  <2>2. b = [a EXCEPT !.queue = queue] /\ left = a.queue[1].amount - a.balance /\ a.balance > 0
    BY <1>3
  <2>3. left >= 0
    BY <1>2, <1>3, <1>4
  <2>4. queue = [a.queue EXCEPT ![1].amount = left]
    OBVIOUS
  <2> HIDE DEF a, b, st, queue
  <2>5. a.queue \in Seq(Entries) /\ a.balance \in Nat
    BY <2>1 DEF Holdings
  <2>6. a.queue[1] \in Entries
    BY <2>1, <2>5
  <2>7. a.queue[1].amount \in Nat
    BY <2>6 DEF Entries
  <2>8. left \in Nat /\ a.queue[1].amount > 0
    BY <2>2, <2>3, <2>5, <2>7
  <2>9. /\ b.tokens = a.tokens /\ b.cut = a.cut /\ b.voter = a.voter
        /\ b.nextIndex = a.nextIndex /\ b.balance = a.balance
        /\ b.totalStaked = a.totalStaked /\ b.totalSlashed = a.totalSlashed
        /\ b.queue = queue
    BY <2>1, <2>2 DEF Holdings
  <2>10. Shows(Index!Handle(st, [name |-> "QueueUpdated", queueIndex |-> QueueIndex(a),
                                 amountWei |-> left]), b, H, reported)
    BY <2>1, <2>4, <2>8, <2>9, QueueUpdateShown
  <2> QED
    BY <2>10 DEF a, b, st
<1> HIDE DEF e
<1>5. IsTx(tx)
  BY DEF Sound
<1>6. Shown(Log(changed, e), H, reported)
  BY <1>2, <1>3, <1>4, <1>5, EventTells
<1> QED
  BY <1>1, <1>6 DEF t, changed, able

\* _payOutFirstInQueue
LEMMA PaidFirstTells ==
    ASSUME NEW tx, Sound(tx), tx.ok, Shown(tx, {}, TRUE), tx.op.queue # <<>>,
           tx.op.balance > 0, tx.op.totalSlashed <= tx.op.totalStaked
    PROVE  Shown(PaidFirstInQueue(tx), {}, TRUE)
<1> DEFINE entry == Head(tx.op.queue)
           due == Due(tx.op)
           all == tx.op.balance
           left == entry.amount - all
           able == Require(tx, left >= 0)
           changed == [able EXCEPT !.op.queue[1].amount = left]
           partly == QueueUpdated(changed, QueueIndex(tx.op), left)
           tokens == TokensForData(tx.op, all)
           t == PaidFirstInQueue(tx)
<1>1. /\ ValueOf(tx.op) >= 0 /\ all \in Nat /\ tx.op.queue \in Seq(Entries)
      /\ IsTx(tx) /\ tx.op \in Holdings
  BY DEF Holdings, ValueOf, Sound
<1>2. entry \in Entries /\ due.tokens \in Nat /\ due.data \in Nat /\ tokens \in Nat
  BY <1>1, DueIsNat, ConversionsAreNat
<1>3. /\ entry.amount \in Nat /\ entry.delegator \in Holders
      /\ entry = [delegator |-> entry.delegator, amount |-> entry.amount]
      /\ entry = tx.op.queue[1]
  BY <1>1, <1>2 DEF Entries
<1>4. CASE due.data = 0 \/ due.tokens = 0
  <2>1. t = PopQueue(tx)
    BY <1>4 DEF PaidFirstInQueue
  <2> QED
    BY <2>1, PopQueueTells
<1>5. CASE ~(due.data = 0 \/ due.tokens = 0) /\ all >= due.data
  <2> DEFINE popped == PopQueue(tx)
  <2>1. t = PaidTo(popped, entry.delegator, due.tokens, due.data)
    BY <1>5 DEF PaidFirstInQueue
  <2>2. /\ IsTx(popped) /\ popped.ok /\ popped.op \in Holdings
        /\ SameStakes(tx.op, popped.op) /\ popped.op.balance = all
    BY PopQueueIs DEF Sound
  <2>3. Shown(popped, {}, TRUE)
    BY PopQueueTells
  <2> HIDE DEF popped, due, entry, all
  <2>4. Sound(popped) /\ due.data <= popped.op.balance
    BY <1>1, <1>2, <1>5, <2>2 DEF Sound
  <2>5. Shown(PaidTo(popped, entry.delegator, due.tokens, due.data), {}, TRUE)
    BY <1>2, <1>3, <2>3, <2>4, PaidToTells
  <2> QED
    BY <2>1, <2>5
<1>6. CASE ~(due.data = 0 \/ due.tokens = 0) /\ ~(all >= due.data)
  <2>1. t = PaidTo(partly, entry.delegator, tokens, all)
    BY <1>6 DEF PaidFirstInQueue
  <2>2. IsTx(able) /\ able.op = tx.op /\ (able.ok => left >= 0)
    BY <1>1 DEF Require, IsTx
  <2>3. Shown(partly, {}, TRUE)
    <3>1. left = tx.op.queue[1].amount - tx.op.balance
      BY <1>3
    <3> HIDE DEF left
    <3> DEFINE condition == left >= 0
    <3>2. condition => left >= 0
      OBVIOUS
    <3>3. able = Require(tx, condition)
      OBVIOUS
    <3> HIDE DEF condition, able
    <3>4. Shown(QueueUpdated([Require(tx, condition) EXCEPT !.op.queue[1].amount = left],
                              QueueIndex(tx.op), left), {}, TRUE)
      BY <3>1, <3>2, PartlyPaidTells
    <3> QED
      BY <3>3, <3>4
  <2> HIDE DEF able, due, tokens
  <2> DEFINE queue == [tx.op.queue EXCEPT ![1] = [tx.op.queue[1] EXCEPT !.amount = left]]
  <2>4. IsTx(changed) /\ changed.ok = able.ok /\ changed.op = [tx.op EXCEPT !.queue = queue]
    <3> HIDE DEF left
    <3> QED
      BY <2>2 DEF IsTx
  <2> HIDE DEF changed
  <2>5. ASSUME able.ok
        PROVE  changed.op \in Holdings /\ changed.op.balance = all
    <3>1. left \in Nat
      <4> HIDE DEF entry, all
      <4> QED
        BY <1>1, <1>3, <2>2, <2>5
    <3> DEFINE first == [tx.op.queue[1] EXCEPT !.amount = left]
    <3>2. first = [delegator |-> entry.delegator, amount |-> left]
      <4> HIDE DEF left, entry
      <4> QED
        BY <1>3
    <3>3. first \in Entries
      <4> HIDE DEF left, entry, first
      <4> QED
        BY <1>3, <3>1, <3>2 DEF Entries
    <3> HIDE DEF first, left, entry
    <3>4. Len(tx.op.queue) \in Nat /\ 1 \in 1 .. Len(tx.op.queue)
      BY <1>1
    <3>5. [tx.op.queue EXCEPT ![1] = first] \in Seq(Entries)
      BY <1>1, <3>3, <3>4, ExceptSeq
    <3>6. queue \in Seq(Entries)
      BY <3>5 DEF first
    <3> HIDE DEF queue
    <3> QED
      BY <1>1, <2>4, <3>6, NewQueue
  <2> HIDE DEF left
  <2>6. IsTx(partly) /\ partly.op = changed.op /\ partly.ok = able.ok
    BY <2>4, QueueReportKeeps
  <2> HIDE DEF partly
  <2>7. Sound(partly) /\ (partly.ok => all <= partly.op.balance)
    BY <1>1, <2>5, <2>6 DEF Sound
  <2> HIDE DEF all, entry
  <2>8. Shown(PaidTo(partly, entry.delegator, tokens, all), {}, TRUE)
    BY <1>1, <1>2, <1>3, <2>3, <2>7, PaidToTells
  <2> QED
    BY <2>1, <2>8
<1> QED
  BY <1>4, <1>5, <1>6

\* payOutQueue, however many entries there are
LEMMA PaidOutQueueTells ==
    ASSUME NEW tx, Sound(tx), Shown(tx, {}, TRUE), NEW maxIterations \in Nat,
           tx.ok => tx.op.totalSlashed <= tx.op.totalStaked
    PROVE  Shown(PaidOutQueue(tx, maxIterations), {}, TRUE)
<1> DEFINE Kept(t) == PaidFrom(tx, t) /\ Shown(t, {}, TRUE)
<1>1. Kept(tx)
  BY DEF PaidFrom, SameStakes
<1>2. CASE ~tx.ok
  BY <1>1, <1>2 DEF PaidOutQueue
<1>3. CASE tx.ok
  <2> DEFINE n == Rounds(tx.op, maxIterations)
  <2>1. n \in Nat
    BY <1>3, QueueTurns
  <2>2. PICK iter : IsRunOf(tx, n, iter) /\ PaidOutQueue(tx, maxIterations) = iter[1 .. n]
    BY <1>3, QueueTurns
  <2> HIDE DEF n
  <2>3. ASSUME NEW k \in 1 .. n, Kept(iter[1 .. k - 1])
        PROVE  Kept(iter[1 .. k])
    <3> DEFINE t == iter[1 .. k - 1]
    <3>1. PaidFrom(tx, t) /\ Shown(t, {}, TRUE) /\ iter[1 .. k] = Paid(t)
      BY <2>2, <2>3 DEF IsRunOf
    <3> HIDE DEF t
    <3>2. PaidFrom(tx, Paid(t))
      BY <3>1, PaidKeeps
    <3>3. Shown(Paid(t), {}, TRUE)
      <4>1. CASE ~(t.ok /\ t.op.balance > 0 /\ t.op.queue # <<>>)
        BY <3>1, <4>1 DEF Paid
      <4>2. CASE t.ok /\ t.op.balance > 0 /\ t.op.queue # <<>>
        <5>1. Paid(t) = PaidFirstInQueue(t)
          BY <4>2 DEF Paid
        <5>2. Sound(t) /\ t.op.totalSlashed <= t.op.totalStaked
          BY <3>1, <4>2 DEF PaidFrom, SameStakes
        <5> QED
          BY <3>1, <4>2, <5>1, <5>2, PaidFirstTells
      <4> QED
        BY <4>1, <4>2
    <3> QED
      BY <3>1, <3>2, <3>3
  <2>4. CASE n = 0
    <3>1. 1 .. 0 = {}
      OBVIOUS
    <3> QED
      BY <1>1, <2>2, <2>4, <3>1 DEF IsRunOf
  <2>5. CASE n > 0
    <3> DEFINE T == {k \in 1 .. n : Kept(iter[1 .. k])}
    <3>1. 1 \in T
      <4>1. 1 .. 1 - 1 = {} /\ 1 \in 1 .. n
        BY <2>1, <2>5
      <4>2. Kept(iter[1 .. 1 - 1])
        BY <1>1, <2>2, <4>1 DEF IsRunOf
      <4> HIDE DEF Kept
      <4> QED
        BY <2>3, <4>1, <4>2
    <3>2. ASSUME NEW i \in 1 .. n, i < n, i \in T
          PROVE  i + 1 \in T
      <4>1. i + 1 \in 1 .. n /\ (i + 1) - 1 = i
        BY <2>1, <3>2
      <4> HIDE DEF Kept
      <4> QED
        BY <2>3, <3>2, <4>1
    <3> HIDE DEF T
    <3>3. 1 .. n \subseteq T
      BY <2>1, <3>1, <3>2, IntervalInduction
    <3>4. n \in T
      BY <2>1, <2>5, <3>3
    <3> QED
      BY <2>2, <3>4 DEF T
  <2>6. n = 0 \/ n > 0
    BY <2>1
  <2> QED
    BY <2>4, <2>5, <2>6
<1> QED
  BY <1>2, <1>3

\* What VoterUpdated makes of the accounts
LEMMA VoterUpdatedKeeps ==
    ASSUME NEW tx, IsTx(tx)
    PROVE  LET t == VoterUpdated(tx)
           IN  IsTx(t) /\ t.ok = tx.ok
<1> DEFINE eligible == tx.op.totalStaked >= VoterThreshold
           updated == [tx EXCEPT !.op.voter = eligible]
           e == [name |-> "VoterUpdate", isVoter |-> eligible]
           t == VoterUpdated(tx)
<1>1. t = tx \/ t = Log(updated, e)
  BY DEF VoterUpdated
<1>2. IsTx(updated) /\ updated.ok = tx.ok
  <2> HIDE DEF eligible
  <2> QED
    BY DEF IsTx
<1> HIDE DEF updated, e, t
<1>3. IsTx(t) /\ t.ok = tx.ok
  BY <1>1, <1>2, LogKeeps
<1> QED
  BY <1>3 DEF t

\* A change of the stakes: the voter registry is asked and the value is reported.
LEMMA StakesChangeTells ==
    ASSUME NEW tx, NEW reported, Shown(tx, {}, reported), NEW u, IsTx(u),
           u.ok => /\ tx.ok /\ u.log = tx.log /\ SameBooks(tx.op, u.op)
                   /\ IsAccount(u.op),
           Sound(OperatorValueUpdate(VoterUpdated(u)))
    PROVE  Shown(OperatorValueUpdate(VoterUpdated(u)), {}, TRUE)
<1> DEFINE v == VoterUpdated(u)
<1>1. Shown(u, {}, FALSE)
  BY StepShown
<1>2. Shown(v, {}, FALSE) /\ IsTx(v)
  BY <1>1, VoterUpdatedTells, VoterUpdatedKeeps
<1> HIDE DEF v
<1>3. /\ OperatorValueUpdate(v).op = v.op /\ OperatorValueUpdate(v).ok = v.ok
      /\ Sound(OperatorValueUpdate(v))
  BY <1>2, ReportsKeep DEF v
<1>4. Sound(v)
  BY <1>2, <1>3 DEF Sound
<1>5. Shown(OperatorValueUpdate(v), {}, TRUE)
  BY <1>2, <1>4, ValueReported
<1> QED
  BY <1>5 DEF v

\* _stake
LEMMA StakedTells ==
    ASSUME NEW tx, Sound(tx), NEW reported, Shown(tx, {}, reported),
           NEW s \in Sponsorships, NEW amount \in Nat \ {0}, tx.ok => StakesSound(tx.op)
    PROVE  Shown(Staked(tx, s, amount), {}, TRUE)
<1> DEFINE p == tx.op.balance - amount
           x == tx.op.stakedInto[s] + amount
           y == tx.op.totalStaked + amount
           z == tx.op.sponsorships \cup {s}
           a1 == [tx.op EXCEPT !.balance = p]
           a2 == [a1 EXCEPT !.stakedInto[s] = x]
           a3 == [a2 EXCEPT !.totalStaked = y]
           a4 == [a3 EXCEPT !.sponsorships = z]
           t1 == [tx EXCEPT !.op.balance = p]
           t2 == [t1 EXCEPT !.op.stakedInto[s] = x]
           t3 == [t2 EXCEPT !.op.totalStaked = y]
           t4 == [t3 EXCEPT !.op.sponsorships = z]
           legal == tx.op.queue = <<>> /\ OwnerHasEnough(tx.op) /\ amount <= tx.op.balance
           able == Require(t4, legal)
           t == Staked(tx, s, amount)
<1>1. t = OperatorValueUpdate(VoterUpdated(able))
  BY DEF Staked
<1>2. Sound(t)
  BY StakedIs DEF Sound
<1>3. IsTx(t4) /\ t4.ok = tx.ok /\ t4.op = a4 /\ t4.log = tx.log
  <2>1. IsTx(t1) /\ t1.ok = tx.ok /\ t1.op = a1 /\ t1.log = tx.log
    <3> HIDE DEF p
    <3> QED
      BY DEF IsTx, Sound
  <2> HIDE DEF t1, a1
  <2>2. IsTx(t2) /\ t2.ok = tx.ok /\ t2.op = a2 /\ t2.log = tx.log
    <3> HIDE DEF x
    <3> QED
      BY <2>1 DEF IsTx
  <2> HIDE DEF t2, a2
  <2>3. IsTx(t3) /\ t3.ok = tx.ok /\ t3.op = a3 /\ t3.log = tx.log
    <3> HIDE DEF y
    <3> QED
      BY <2>2 DEF IsTx
  <2> HIDE DEF t3, a3
  <2> HIDE DEF z
  <2> QED
    BY <2>3 DEF IsTx
<1>4. tx.ok => SameBooks(tx.op, a4) /\ IsAccount(a4)
  <2>1. tx.ok => IsAccount(tx.op)
    BY HoldingsAreAccounts DEF Sound
  <2> HIDE DEF p, x, y, z
  <2> QED
    BY <2>1 DEF IsAccount, AccountFields, SameBooks
<1> HIDE DEF t4, a4, legal
<1>5. IsTx(able) /\ able.op = t4.op /\ able.log = t4.log /\ (able.ok => tx.ok)
  BY <1>3 DEF Require, IsTx
<1> HIDE DEF able, t
<1>6. Shown(OperatorValueUpdate(VoterUpdated(able)), {}, TRUE)
  BY <1>1, <1>2, <1>3, <1>4, <1>5, StakesChangeTells
<1> QED
  BY <1>1, <1>6 DEF t

\* _reduceStakeTo
LEMMA StakeReducedTells ==
    ASSUME NEW tx, Sound(tx), NEW reported, Shown(tx, {}, reported),
           NEW s \in Sponsorships, NEW cashout \in Nat,
           tx.ok => /\ StakesSound(tx.op)
                    /\ cashout < tx.op.stakedInto[s] - tx.op.slashedIn[s]
    PROVE  Shown(StakeReduced(tx, s, cashout), {}, TRUE)
<1> DEFINE p == tx.op.balance + cashout
           x == tx.op.stakedInto[s] - cashout
           y == tx.op.totalStaked - cashout
           a1 == [tx.op EXCEPT !.balance = p]
           a2 == [a1 EXCEPT !.stakedInto[s] = x]
           a3 == [a2 EXCEPT !.totalStaked = y]
           t1 == [tx EXCEPT !.op.balance = p]
           t2 == [t1 EXCEPT !.op.stakedInto[s] = x]
           t3 == [t2 EXCEPT !.op.totalStaked = y]
           t == StakeReduced(tx, s, cashout)
<1>1. t = OperatorValueUpdate(VoterUpdated(t3))
  BY DEF StakeReduced
<1>2. Sound(t)
  BY StakeReducedIs DEF Sound
<1>3. IsTx(t3) /\ t3.ok = tx.ok /\ t3.op = a3 /\ t3.log = tx.log
  <2>1. IsTx(t1) /\ t1.ok = tx.ok /\ t1.op = a1 /\ t1.log = tx.log
    <3> HIDE DEF p
    <3> QED
      BY DEF IsTx, Sound
  <2> HIDE DEF t1, a1
  <2>2. IsTx(t2) /\ t2.ok = tx.ok /\ t2.op = a2 /\ t2.log = tx.log
    <3> HIDE DEF x
    <3> QED
      BY <2>1 DEF IsTx
  <2> HIDE DEF t2, a2
  <2> HIDE DEF y
  <2> QED
    BY <2>2 DEF IsTx
<1>4. tx.ok => SameBooks(tx.op, a3) /\ IsAccount(a3)
  <2>1. tx.ok => IsAccount(tx.op)
    BY HoldingsAreAccounts DEF Sound
  <2> HIDE DEF p, x, y
  <2> QED
    BY <2>1 DEF IsAccount, AccountFields, SameBooks
<1> HIDE DEF t3, a3, t
<1>5. Shown(OperatorValueUpdate(VoterUpdated(t3)), {}, TRUE)
  BY <1>1, <1>2, <1>3, <1>4, StakesChangeTells
<1> QED
  BY <1>1, <1>5 DEF t

\* _undelegate
LEMMA QueuedTells ==
    ASSUME NEW tx, Sound(tx), NEW H, NEW reported, Shown(tx, H, reported),
           NEW h \in Holders, NEW data \in Nat \ {0}
    PROVE  Shown(Queued(tx, h, data), H, reported)
<1> DEFINE may == MayUndelegate(tx.op, h, data)
           able == Require(tx, may)
           entry == [delegator |-> h, amount |-> data]
           q == Append(able.op.queue, entry)
           n == able.op.nextIndex + 1
           t1 == [able EXCEPT !.op.queue = q]
           t2 == [t1 EXCEPT !.op.nextIndex = n]
           e == [name |-> "QueuedDataPayout", delegator |-> h, amountWei |-> data,
                 queueIndex |-> tx.op.nextIndex]
           t == Queued(tx, h, data)
<1>1. t = Log(t2, e)
  BY DEF Queued
<1>2. IsTx(able) /\ able.op = tx.op /\ able.log = tx.log /\ (able.ok => tx.ok) /\ IsTx(tx)
  <2> HIDE DEF may
  <2> QED
    BY DEF Require, IsTx, Sound
<1> HIDE DEF able
<1>3. /\ IsTx(t1) /\ t1.ok = able.ok /\ t1.log = tx.log
      /\ t1.op = [tx.op EXCEPT !.queue = q]
  <2> HIDE DEF q
  <2> QED
    BY <1>2 DEF IsTx
<1>4. /\ IsTx(t2) /\ t2.ok = able.ok /\ t2.log = tx.log
      /\ t2.op = [t1.op EXCEPT !.nextIndex = n]
  <2> HIDE DEF n, t1
  <2> QED
    BY <1>3 DEF IsTx
<1>5. q = Append(tx.op.queue, entry) /\ n = tx.op.nextIndex + 1
  BY <1>2
<1> HIDE DEF t1, t2, t, q, n
<1>6. ASSUME t2.ok
      PROVE  Shows(Index!Handle(StoreOf(tx), e), t2.op, H, reported)
  <2> DEFINE a == tx.op
             b == t2.op
             st == StoreOf(tx)
             more == Index!Save(st.queueEntries, a.nextIndex, entry)
             w == [st EXCEPT !.queueEntries = more]
  <2>1. a \in Holdings /\ Shows(st, a, H, reported)
    BY <1>2, <1>4, <1>6 DEF Sound, Shown
  <2>2. Index!Handle(st, e) = w
    BY DEF Index!Handle, Index!HandleQueuedDataPayout
  <2> HIDE DEF st, entry, e
  <2>3. /\ b.tokens = a.tokens /\ b.cut = a.cut /\ b.voter = a.voter
        /\ b.nextIndex = a.nextIndex + 1 /\ b.balance = a.balance
        /\ b.totalStaked = a.totalStaked /\ b.totalSlashed = a.totalSlashed
        /\ b.queue = Append(a.queue, entry)
    BY <1>3, <1>4, <1>5, <2>1 DEF Holdings
  <2> HIDE DEF a, b, more
  <2>4. Orderly(st) /\ DOMAIN st = StoreFields /\ QueueShown(st, a)
    BY <2>1 DEF Shows, Orderly, IsStore
  <2>5. /\ \A f \in StoreFields \ {"queueEntries"} : w[f] = st[f]
        /\ DOMAIN w = StoreFields /\ w.queueEntries = more
    BY <2>4 DEF StoreFields
  <2> HIDE DEF w
  <2>6. QueueShown(w, b)
    <3>1. w.queueEntries = Index!Save(st.queueEntries, a.nextIndex,
                                      [delegator |-> h, amount |-> data])
      BY <2>5 DEF more, entry
    <3>2. b.queue = Append(a.queue, [delegator |-> h, amount |-> data])
      BY <2>3 DEF entry
    <3> QED
      BY <2>1, <2>3, <2>4, <3>1, <3>2, EntryAdded
  <2>7. /\ w.delegators = st.delegators /\ w.delegations = st.delegations
        /\ w.delegatorCount = st.delegatorCount /\ w.bucket = st.bucket
        /\ w.cumulativeProfitsWei = st.cumulativeProfitsWei
        /\ w.totalStakeInSponsorshipsWei = st.totalStakeInSponsorshipsWei
        /\ w.operatorTokenTotalSupplyWei = st.operatorTokenTotalSupplyWei
        /\ w.operatorsCutFraction = st.operatorsCutFraction
        /\ w.isEligibleToVote = st.isEligibleToVote
        /\ w.dataTokenBalanceWei = st.dataTokenBalanceWei
        /\ w.network = st.network
    BY <2>5 DEF StoreFields
  <2>8. Orderly(w)
    <3>1. /\ w.totalStakeInSponsorshipsWei \in Int /\ DOMAIN w.network = NetworkFields
          /\ w.network.totalStake = w.totalStakeInSponsorshipsWei
      BY <2>4, <2>7 DEF Orderly, IsStore
    <3> QED
      BY <2>4, <2>5, <2>7, <3>1, StaysOrderly
  <2>9. TokensShown(w, b, H) /\ SettingsShown(w, b) /\ (reported => ValueShown(w, b))
    BY <2>1, <2>3, <2>7 DEF Shows, TokensShown, SettingsShown, ValueShown, Supply
  <2>10. Shows(w, b, H, reported)
    BY <2>6, <2>8, <2>9 DEF Shows
  <2> QED
    BY <2>2, <2>10 DEF b, st, w
<1> HIDE DEF e
<1>7. t2.ok => tx.ok
  BY <1>2, <1>4
<1>8. Shown(Log(t2, e), H, reported)
  BY <1>2, <1>4, <1>6, <1>7, EventTells
<1> QED
  BY <1>1, <1>8 DEF t

LEMMA ShownAnyway ==
    ASSUME NEW tx, NEW H, NEW reported, Shown(tx, H, reported)
    PROVE  Shown(tx, H, FALSE)
  BY StepShown DEF SameBooks

\* The tokens of some holders change: that is still to be reported.
LEMMA TokensMove ==
    ASSUME NEW tx, IsTx(tx), NEW reported, Shown(tx, {}, reported), NEW G, G # {}, NEW u,
           u.ok => /\ tx.ok /\ u.log = tx.log
                   /\ \A g \in Holders \ G : u.op.tokens[g] = tx.op.tokens[g]
                   /\ u.op.queue = tx.op.queue /\ u.op.nextIndex = tx.op.nextIndex
                   /\ u.op.cut = tx.op.cut /\ u.op.voter = tx.op.voter
                   /\ u.op.totalStaked = tx.op.totalStaked
                   /\ u.op.totalSlashed = tx.op.totalSlashed
                   /\ u.op.balance = tx.op.balance
    PROVE  Shown(u, G, reported)
<1>1. ASSUME u.ok
      PROVE  Told(u) /\ Shows(StoreOf(u), u.op, G, reported)
  <2> DEFINE a == tx.op
             b == u.op
             st == StoreOf(tx)
  <2>1. /\ Told(tx) /\ Shows(st, a, {}, reported)
        /\ Told(u) /\ StoreOf(u) = st
    BY <1>1 DEF Shown, Told, StoreOf
  <2>2. /\ \A g \in Holders \ G : b.tokens[g] = a.tokens[g]
        /\ b.queue = a.queue /\ b.nextIndex = a.nextIndex
        /\ b.cut = a.cut /\ b.voter = a.voter
        /\ b.totalStaked = a.totalStaked /\ b.totalSlashed = a.totalSlashed
        /\ b.balance = a.balance
    BY <1>1
  <2> HIDE DEF a, b, st
  <2>3. QueueShown(st, b) /\ SettingsShown(st, b) /\ (reported => ValueShown(st, b))
    BY <2>1, <2>2 DEF Shows, QueueShown, SettingsShown, IndexOf, Waiting, QueueIndex, ValueShown
  <2>4. TokensShown(st, b, G)
    <3>1. TokensShown(st, a, {}) /\ DOMAIN st.delegations \subseteq Holders
      BY <2>1 DEF Shows, Orderly, IsStore
    <3>2. ASSUME NEW g \in Holders \ G
          PROVE  g \in DOMAIN st.delegations <=> b.tokens[g] > 0
      BY <2>2, <3>1 DEF TokensShown
    <3>3. ASSUME NEW g \in DOMAIN st.delegations \ G
          PROVE  st.delegations[g].operatorTokenBalanceWei = b.tokens[g]
      BY <2>2, <3>1 DEF TokensShown
    <3> QED
      BY <3>2, <3>3 DEF TokensShown
  <2> QED
    BY <2>1, <2>3, <2>4 DEF Shows, b
<1> QED
  BY <1>1 DEF Shown

\* _transfer of operator tokens
LEMMA TransferredTells ==
    ASSUME NEW tx, Sound(tx), NEW reported, Shown(tx, {}, reported),
           NEW from \in Holders, NEW to \in Holders, NEW tokens \in Nat
    PROVE  Shown(Transferred(tx, from, to, tokens), {}, reported)
<1> DEFINE x == tx.op.tokens[from] - tokens
           y == tx.op.tokens[to] + tokens
           t1 == [tx EXCEPT !.op.tokens[from] = x]
           t2 == [t1 EXCEPT !.op.tokens[to] = y]
           moved == IF from = to THEN tx ELSE t2
           legal == /\ tokens <= tx.op.tokens[from]
                    /\ moved.op.tokens[from] >= MinimumDelegation \/ moved.op.tokens[from] = 0
                    /\ moved.op.tokens[to] >= MinimumDelegation
                    /\ tx.op.tokens[to] = 0 => OwnerHasEnough(moved.op)
                    /\ MayUndelegate(moved.op, from, 0)
           able == Require(moved, legal)
           b == BalanceUpdate(able, from)
           t == Transferred(tx, from, to, tokens)
           both == [tx EXCEPT !.op.tokens[from] = @ - tokens, !.op.tokens[to] = @ + tokens]
<1>1. from # to => both = t2
  OBVIOUS
<1>2. t = BalanceUpdate(b, to)
  <2> HIDE DEF t2, both
  <2> QED
    BY <1>1 DEF Transferred, both
<1>3. Sound(t)
  BY TransferredIs DEF Sound
<1>4. /\ IsTx(t1) /\ t1.ok = tx.ok /\ t1.log = tx.log
      /\ t1.op = [tx.op EXCEPT !.tokens[from] = x]
  <2> HIDE DEF x
  <2> QED
    BY DEF IsTx, Sound
<1>5. /\ IsTx(t2) /\ t2.ok = tx.ok /\ t2.log = tx.log
      /\ t2.op = [t1.op EXCEPT !.tokens[to] = y]
  <2> HIDE DEF y, t1
  <2> QED
    BY <1>4 DEF IsTx
<1> DEFINE Unmoved(a, c) ==
             /\ \A g \in Holders \ {from, to} : c.tokens[g] = a.tokens[g]
             /\ c.queue = a.queue /\ c.nextIndex = a.nextIndex
             /\ c.cut = a.cut /\ c.voter = a.voter
             /\ c.totalStaked = a.totalStaked /\ c.totalSlashed = a.totalSlashed
             /\ c.balance = a.balance
<1>6. tx.ok => Unmoved(tx.op, t2.op)
  <2> HIDE DEF t1, t2, x, y
  <2>1. tx.ok => tx.op \in Holdings
    BY DEF Sound
  <2> QED
    BY <1>4, <1>5, <2>1 DEF Holdings
<1>7. IsTx(moved) /\ moved.ok = tx.ok /\ moved.log = tx.log /\ (tx.ok => Unmoved(tx.op, moved.op))
  <2> HIDE DEF t2
  <2> QED
    BY <1>5, <1>6 DEF Sound
<1> HIDE DEF moved, t1, t2, Unmoved
<1>8. IsTx(able) /\ able.op = moved.op /\ able.log = tx.log /\ (able.ok => tx.ok)
  <2> HIDE DEF legal
  <2> QED
    BY <1>7 DEF Require, IsTx
<1> HIDE DEF able, legal
<1>9. Shown(able, {from, to}, reported)
  <2>1. IsTx(tx) /\ {from, to} # {}
    BY DEF Sound
  <2>2. able.ok => tx.ok /\ able.log = tx.log /\ Unmoved(tx.op, able.op)
    BY <1>7, <1>8
  <2> QED
    BY <2>1, <2>2, TokensMove DEF Unmoved
<1>10. IsTx(b) /\ b.op = able.op /\ b.ok = able.ok
  BY <1>8, ReportsKeep
<1>11. t.op = b.op /\ t.ok = b.ok
  <2> HIDE DEF b, t
  <2> QED
    BY <1>2, <1>10, ReportsKeep
<1>12. Sound(able) /\ Sound(b)
  <2> HIDE DEF b, t
  <2> QED
    BY <1>3, <1>8, <1>10, <1>11 DEF Sound
<1>13. Shown(b, {to} \ {from}, reported)
  <2>1. {from, to} \ {from} = {to} \ {from}
    OBVIOUS
  <2>2. Shown(b, {from, to} \ {from}, reported)
    BY <1>9, <1>12, BalanceReported
  <2> QED
    BY <2>1, <2>2
<1> HIDE DEF b
<1>14. Shown(BalanceUpdate(b, to), ({to} \ {from}) \ {to}, reported)
  BY <1>12, <1>13, BalanceReported
<1>15. ({to} \ {from}) \ {to} = {}
  OBVIOUS
<1> HIDE DEF t
<1>16. Shown(t, {}, reported)
  BY <1>2, <1>14, <1>15
<1> QED
  BY <1>16 DEF t

\* _splitEarnings
LEMMA EarningsSplitTells ==
    ASSUME NEW tx, Sound(tx), NEW reported, Shown(tx, {}, reported), NEW earnings,
           tx.ok => /\ earnings \in Nat /\ earnings <= tx.op.balance
                    /\ tx.op.totalSlashed <= tx.op.totalStaked
    PROVE  Shown(EarningsSplit(tx, earnings), {}, TRUE)
<1> DEFINE fee == (earnings * FeeFraction) \div Ether
           rest == earnings - fee
           cut == (rest * tx.op.cut) \div Ether
           p == tx.op.balance - fee
           t1 == [tx EXCEPT !.op.balance = p]
           d == Delegated(t1, Owner, cut)
           x == earnings - fee - cut
           e == [name |-> "Profit", valueIncreaseWei |-> x, operatorsCutDataWei |-> cut]
           t == EarningsSplit(tx, earnings)
<1>1. t = Log(d, e)
  BY DEF EarningsSplit
<1>2. /\ IsTx(t1) /\ t1.ok = tx.ok /\ t1.log = tx.log
      /\ t1.op = [tx.op EXCEPT !.balance = p]
  <2> HIDE DEF p
  <2> QED
    BY DEF IsTx, Sound
<1>3. ASSUME tx.ok
      PROVE  /\ t1.op \in Holdings /\ SameBooks(tx.op, t1.op)
             /\ cut \in Nat /\ cut <= ValueOf(t1.op) /\ x \in Nat
  <2>1. tx.op \in Holdings /\ earnings \in Nat /\ earnings <= tx.op.balance
        /\ tx.op.totalSlashed <= tx.op.totalStaked
    BY <1>3 DEF Sound
  <2>2. /\ tx.op.balance \in Nat /\ tx.op.cut \in 0 .. Ether
        /\ tx.op.totalStaked \in Int /\ tx.op.totalSlashed \in Int
    BY <2>1 DEF Holdings
  <2>3. FeeFraction \in 0 .. Ether
    BY OperatorAssumption
  <2>4. fee \in 0 .. earnings
    BY <2>1, <2>3, FractionIsPart
  <2> HIDE DEF fee
  <2>5. rest \in Nat /\ p \in Nat /\ p >= rest
    BY <2>1, <2>2, <2>4
  <2> DEFINE r == rest
  <2> HIDE DEF r
  <2>6. (r * tx.op.cut) \div Ether \in 0 .. r
    BY <2>2, <2>5, FractionIsPart DEF r
  <2>7. cut \in 0 .. rest
    BY <2>6 DEF r
  <2> HIDE DEF cut
  <2>8. t1.op \in Holdings /\ SameStakes(tx.op, t1.op) /\ t1.op.balance = p
    <3> HIDE DEF p, t1
    <3> QED
      BY <1>2, <2>1, <2>5, NewBalance
  <2>9. ValueOf(t1.op) = p + tx.op.totalStaked - tx.op.totalSlashed
    BY <2>8 DEF ValueOf, SameStakes
  <2>10. SameBooks(tx.op, t1.op)
    <3> HIDE DEF p, t1
    <3> QED
      BY <1>2, <2>1 DEF SameBooks, Holdings
  <2> HIDE DEF t1
  <2> QED
    BY <2>1, <2>2, <2>4, <2>5, <2>7, <2>8, <2>9, <2>10
<1> HIDE DEF t1, cut, x
<1>4. Sound(t1) /\ Owner \in Holders /\ (t1.ok => cut \in Nat /\ cut <= ValueOf(t1.op))
  BY <1>2, <1>3, OperatorAssumption DEF Sound
<1>5. Shown(t1, {}, FALSE)
  BY <1>2, <1>3, StepShown
<1>6. IsTx(d) /\ (d.ok => t1.ok /\ d.op \in Holdings)
  BY <1>4, DelegatedIs
<1>7. Shown(d, {}, TRUE)
  BY <1>4, <1>5, DelegatedTells
<1> HIDE DEF d
<1>8. Sound(d) /\ (d.ok => x \in Nat)
  BY <1>2, <1>3, <1>6 DEF Sound
<1>9. Shown(Log(d, e), {}, TRUE)
  BY <1>7, <1>8, ProfitReported
<1> HIDE DEF t, e
<1>10. Shown(t, {}, TRUE)
  BY <1>1, <1>9
<1> QED
  BY <1>10 DEF t

\* _removeSponsorship
LEMMA SponsorshipRemovedTells ==
    ASSUME NEW tx, Sound(tx), NEW reported, Shown(tx, {}, reported),
           NEW s \in Sponsorships, NEW received,
           tx.ok => /\ received \in Nat /\ received <= tx.op.balance
                    /\ StakesSound(tx.op)
    PROVE  Shown(SponsorshipRemoved(tx, s, received), {}, TRUE)
<1> DEFINE stake == tx.op.stakedInto[s]
           y == tx.op.totalStaked - stake
           z == tx.op.totalSlashed - tx.op.slashedIn[s]
           a1 == [tx.op EXCEPT !.totalStaked = y]
           a2 == [a1 EXCEPT !.totalSlashed = z]
           t1 == [tx EXCEPT !.op.totalStaked = y]
           t2 == [t1 EXCEPT !.op.totalSlashed = z]
           loss == [name |-> "Loss", valueDecreaseWei |-> stake - received]
           result == IF received < stake THEN Log(t2, loss) ELSE EarningsSplit(t2, received - stake)
           v == VoterUpdated(result)
           w == v.op.sponsorships \ {s}
           a3 == [v.op EXCEPT !.sponsorships = w]
           a4 == [a3 EXCEPT !.stakedInto[s] = 0]
           a5 == [a4 EXCEPT !.slashedIn[s] = 0]
           t3 == [v EXCEPT !.op.sponsorships = w]
           t4 == [t3 EXCEPT !.op.stakedInto[s] = 0]
           t5 == [t4 EXCEPT !.op.slashedIn[s] = 0]
           t == SponsorshipRemoved(tx, s, received)
<1>1. t = OperatorValueUpdate(t5)
  BY DEF SponsorshipRemoved
<1>2. Sound(t)
  BY SponsorshipRemovedIs DEF Sound
<1>3. IsTx(t2) /\ t2.ok = tx.ok /\ t2.log = tx.log /\ t2.op = a2
  <2>1. IsTx(t1) /\ t1.ok = tx.ok /\ t1.log = tx.log /\ t1.op = a1
    <3> HIDE DEF y
    <3> QED
      BY DEF IsTx, Sound
  <2> HIDE DEF t1, a1
  <2> HIDE DEF z
  <2> QED
    BY <2>1 DEF IsTx
<1>4. ASSUME tx.ok
      PROVE  /\ a2 \in Holdings /\ a2.balance = tx.op.balance
             /\ a2.totalSlashed <= a2.totalStaked /\ stake \in Nat
             /\ SameBooks(tx.op, a2)
  <2>1. tx.op \in Holdings /\ StakesSound(tx.op)
    BY <1>4 DEF Sound
  <2>2. a2 = Forgotten(tx.op, s)
    BY DEF Forgotten
  <2>3. SameBooks(tx.op, a2)
    <3> HIDE DEF y, z
    <3> QED
      BY <2>1 DEF SameBooks, Holdings
  <2> HIDE DEF a2
  <2> QED
    BY <2>1, <2>2, <2>3, ForgottenIs
<1> HIDE DEF t1, t2, a1, a2
<1>5. Sound(t2)
  BY <1>3, <1>4 DEF Sound
<1>6. Shown(t2, {}, FALSE)
  BY <1>3, <1>4, StepShown
<1>7. Sound(result) /\ Shown(result, {}, FALSE)
  <2>1. CASE received < stake
    <3>1. result = Log(t2, loss)
      BY <2>1
    <3>2. Shown(Log(t2, loss), {}, FALSE)
      BY <1>5, <1>6, LossReported DEF Sound
    <3> HIDE DEF result, loss
    <3>3. IsTx(result) /\ result.op = t2.op /\ result.ok = t2.ok
      BY <1>5, <3>1, LogKeeps DEF Sound
    <3>4. Sound(result)
      BY <1>5, <3>3 DEF Sound
    <3> QED
      BY <3>1, <3>2, <3>4
  <2>2. CASE ~(received < stake)
    <3> DEFINE earnings == received - stake
               e == EarningsSplit(t2, earnings)
    <3>1. result = e
      BY <2>2
    <3>2. t2.ok => /\ earnings \in Nat /\ earnings <= t2.op.balance
                   /\ t2.op.totalSlashed <= t2.op.totalStaked
      <4> SUFFICES ASSUME t2.ok
                   PROVE  /\ earnings \in Nat /\ earnings <= t2.op.balance
                          /\ t2.op.totalSlashed <= t2.op.totalStaked
        OBVIOUS
      <4>1. received \in Nat /\ received <= tx.op.balance /\ tx.ok
        BY <1>3
      <4>2. tx.op.balance \in Nat
        BY <4>1 DEF Holdings, Sound
      <4> HIDE DEF stake, y, z
      <4> QED
        BY <1>3, <1>4, <2>2, <4>1, <4>2
    <3> HIDE DEF earnings
    <3>3. IsTx(e) /\ (e.ok => e.op \in Holdings)
      BY <1>5, <3>2, EarningsSplitIs
    <3>4. Shown(e, {}, TRUE)
      BY <1>5, <1>6, <3>2, EarningsSplitTells
    <3>5. Shown(e, {}, FALSE)
      BY <3>4, ShownAnyway
    <3> HIDE DEF e, result
    <3> QED
      BY <3>1, <3>3, <3>5 DEF Sound
  <2> QED
    BY <2>1, <2>2
<1> HIDE DEF result
<1>8. Sound(v) /\ v.ok = result.ok
  BY <1>7, VoterUpdatedIs
<1>9. Shown(v, {}, FALSE)
  BY <1>7, VoterUpdatedTells, HoldingsAreAccounts DEF Sound
<1> HIDE DEF v
<1>10. IsTx(t5) /\ t5.ok = v.ok /\ t5.log = v.log /\ t5.op = a5
  <2>1. IsTx(t3) /\ t3.ok = v.ok /\ t3.log = v.log /\ t3.op = a3
    <3> HIDE DEF w
    <3> QED
      BY <1>8 DEF IsTx, Sound
  <2> HIDE DEF t3, a3
  <2>2. IsTx(t4) /\ t4.ok = v.ok /\ t4.log = v.log /\ t4.op = a4
    BY <2>1 DEF IsTx
  <2> HIDE DEF t4, a4
  <2> QED
    BY <2>2 DEF IsTx
<1>11. v.ok => SameBooks(v.op, a5)
  <2>1. v.ok => v.op \in Holdings
    BY <1>8 DEF Sound
  <2> HIDE DEF w
  <2> QED
    BY <2>1 DEF SameBooks, Holdings
<1> HIDE DEF t5, a5, t
<1>12. Shown(t5, {}, FALSE)
  BY <1>9, <1>10, <1>11, StepShown
<1>13. Sound(t5)
  <2>1. t.op = t5.op /\ t.ok = t5.ok
    BY <1>1, <1>10, ReportsKeep
  <2> QED
    BY <1>2, <1>10, <2>1 DEF Sound
<1>14. Shown(OperatorValueUpdate(t5), {}, TRUE)
  BY <1>12, <1>13, ValueReported
<1>15. Shown(t, {}, TRUE)
  BY <1>1, <1>14
<1> QED
  BY <1>15 DEF t

-----------------------------------------------------------------------------
(* What the callbacks of a Sponsorship tell *)

\* onSlash
LEMMA OnSlashTells ==
    ASSUME NEW tx, Sound(tx), Shown(tx, {}, TRUE),
           NEW s \in Sponsorships, NEW amount \in Nat \ {0},
           tx.ok => /\ StakesSound(tx.op) /\ s \in tx.op.sponsorships
                    /\ amount <= tx.op.stakedInto[s] - tx.op.slashedIn[s]
    PROVE  Shown(OnSlash(tx, s, amount), {}, TRUE)
<1> DEFINE sd == SlashSelfDelegation(tx, amount)
           x == sd.op.slashedIn[s] + amount
           y == sd.op.totalSlashed + amount
           a1 == [sd.op EXCEPT !.slashedIn[s] = x]
           a2 == [a1 EXCEPT !.totalSlashed = y]
           t1 == [sd EXCEPT !.op.slashedIn[s] = x]
           t2 == [t1 EXCEPT !.op.totalSlashed = y]
           joined == s \in tx.op.sponsorships
           able == Require(t2, joined)
           after == OperatorValueUpdate(able)
           t == OnSlash(tx, s, amount)
<1>1. t = IF after.ok THEN after ELSE tx
  BY DEF OnSlash, Tried
<1>2. t.ok => t.op \in Holdings
  BY OnSlashIs
<1>3. tx.ok => ValueOf(tx.op) >= 0
  <2> SUFFICES ASSUME tx.ok PROVE ValueOf(tx.op) >= 0
    OBVIOUS
  <2>1. ValueOf(tx.op) \in Nat
    BY StakeIsPart DEF Sound
  <2> QED
    BY <2>1
<1>4. /\ IsTx(sd)
      /\ sd.ok => tx.ok /\ sd.op \in Holdings
      /\ Shown(sd, {}, TRUE)
  <2> HIDE DEF sd
  <2> QED
    BY <1>3, SlashSelfDelegationIs, SlashSelfDelegationTells DEF sd
<1> HIDE DEF sd
<1>5. IsTx(t2) /\ t2.ok = sd.ok /\ t2.op = a2 /\ t2.log = sd.log
  <2>1. IsTx(t1) /\ t1.ok = sd.ok /\ t1.op = a1 /\ t1.log = sd.log
    <3> HIDE DEF x
    <3> QED
      BY <1>4 DEF IsTx
  <2> HIDE DEF t1, a1, y
  <2> QED
    BY <2>1 DEF IsTx
<1>6. sd.ok => SameBooks(sd.op, a2)
  <2> HIDE DEF x, y
  <2> QED
    BY <1>4 DEF Holdings, SameBooks
<1> HIDE DEF t2, a2
<1>7. Shown(t2, {}, FALSE)
  BY <1>4, <1>5, <1>6, StepShown
<1> HIDE DEF joined
<1>8. Shown(able, {}, FALSE) /\ IsTx(able)
  BY <1>5, <1>7, RequiredShown DEF Require, IsTx
<1> HIDE DEF able, t
<1>9. after.op = able.op /\ after.ok = able.ok
  BY <1>8, ReportsKeep
<1>10. CASE after.ok
  <2>1. t = after
    BY <1>1, <1>10
  <2>2. Sound(able)
    BY <1>2, <1>8, <1>9, <2>1 DEF t, Sound
  <2> HIDE DEF able
  <2>3. Shown(after, {}, TRUE)
    BY <1>8, <2>2, ValueReported
  <2> QED
    BY <2>1, <2>3 DEF t
<1>11. CASE ~after.ok
  <2>1. t = tx
    BY <1>1, <1>11
  <2> QED
    BY <2>1 DEF t
<1> QED
  BY <1>10, <1>11

\* _slash of one who leaves
LEMMA SlashedByTells ==
    ASSUME NEW tx, Sound(tx), Shown(tx, {}, TRUE), NEW s \in Sponsorships,
           NEW losses \in [locked : Nat, penalty : Nat],
           tx.ok => /\ StakesSound(tx.op) /\ s \in tx.op.sponsorships
                    /\ losses.locked + losses.penalty <= tx.op.stakedInto[s] - tx.op.slashedIn[s]
    PROVE  Shown(SlashedBy(tx, s, losses), {}, TRUE)
<1> DEFINE locked == losses.locked
           penalty == losses.penalty
           u == IF locked = 0 THEN tx ELSE OnSlash(tx, s, locked)
           t == IF penalty = 0 THEN u ELSE OnSlash(u, s, penalty)
<1>1. SlashedBy(tx, s, losses) = t
  BY DEF SlashedBy
<1>2. locked \in Nat /\ penalty \in Nat
  OBVIOUS
<1>3. tx.ok => /\ tx.op \in Holdings /\ tx.op.slashedIn \in [Sponsorships -> Int]
               /\ tx.op.slashedIn[s] \in Int /\ tx.op.stakedInto[s] \in Int
               /\ StakesSound(tx.op) /\ s \in tx.op.sponsorships
               /\ locked + penalty <= tx.op.stakedInto[s] - tx.op.slashedIn[s]
  BY DEF Sound, Holdings
<1> HIDE DEF locked, penalty
<1>4. tx.ok => /\ locked <= tx.op.stakedInto[s] - tx.op.slashedIn[s]
               /\ penalty <= tx.op.stakedInto[s] - (tx.op.slashedIn[s] + locked)
  BY <1>2, <1>3
<1>5. /\ Sound(u) /\ Shown(u, {}, TRUE)
      /\ u.ok => /\ StakesSound(u.op) /\ s \in u.op.sponsorships
                 /\ penalty <= u.op.stakedInto[s] - u.op.slashedIn[s]
  <2>1. CASE locked = 0
    <3>1. u = tx
      BY <2>1
    <3> HIDE DEF u
    <3>2. tx.ok => penalty <= tx.op.stakedInto[s] - tx.op.slashedIn[s]
      BY <1>2, <1>3, <1>4, <2>1
    <3>3. u.ok => /\ StakesSound(u.op) /\ s \in u.op.sponsorships
                  /\ penalty <= u.op.stakedInto[s] - u.op.slashedIn[s]
      BY <1>3, <3>1, <3>2
    <3> QED
      BY <3>1, <3>3
  <2>2. CASE locked # 0
    <3>1. locked \in Nat \ {0} /\ u = OnSlash(tx, s, locked)
      BY <1>2, <2>2
    <3> HIDE DEF u
    <3>2. /\ IsTx(u) /\ u.ok = tx.ok
          /\ u.ok => /\ u.op \in Holdings /\ StakesSound(u.op)
                     /\ u.op.sponsorships = tx.op.sponsorships
                     /\ u.op.stakedInto = tx.op.stakedInto
                     /\ u.op.slashedIn = [tx.op.slashedIn EXCEPT ![s] = @ + locked]
                     /\ u.op.balance = tx.op.balance
      BY <1>3, <1>4, <3>1, OnSlashIs
    <3>3. Shown(u, {}, TRUE)
      BY <1>3, <1>4, <3>1, OnSlashTells
    <3> QED
      BY <1>3, <1>4, <3>2, <3>3 DEF Sound
  <2> QED
    BY <2>1, <2>2
<1> HIDE DEF u
<1>6. CASE penalty = 0
  BY <1>1, <1>5, <1>6
<1>7. CASE penalty # 0
  <2>1. penalty \in Nat \ {0} /\ t = OnSlash(u, s, penalty)
    BY <1>2, <1>7
  <2> HIDE DEF t
  <2>2. Shown(t, {}, TRUE)
    BY <1>5, <2>1, OnSlashTells
  <2> QED
    BY <1>1, <2>2
<1> QED
  BY <1>6, <1>7

\* onKick
LEMMA OnKickTells ==
    ASSUME NEW tx, Sound(tx), Shown(tx, {}, TRUE), NEW s \in Sponsorships,
           NEW slashed \in Nat, NEW received \in Nat,
           tx.ok => /\ StakesSound(tx.op) /\ s \in tx.op.sponsorships
                    /\ received <= tx.op.balance
                    /\ slashed <= tx.op.stakedInto[s] - tx.op.slashedIn[s]
    PROVE  Shown(OnKick(tx, s, slashed, received), {}, TRUE)
<1> DEFINE without == KickBegun(tx, received)
           sd == SlashSelfDelegation(without, slashed)
           y == sd.op.totalSlashed - received
           burned == [sd EXCEPT !.op.totalSlashed = y]
           punished == IF slashed > 0 THEN burned ELSE tx
           joined == s \in tx.op.sponsorships
           able == TakenAtKick(tx, s, slashed, received)
           after == SponsorshipRemoved(able, s, received)
           t == OnKick(tx, s, slashed, received)
<1>1. t = IF after.ok THEN after ELSE tx
  BY DEF OnKick, Tried, TakenAtKick, KickBegun
<1>2. able = Require(punished, joined)
  BY DEF TakenAtKick
<1>3. /\ Sound(without) /\ without.ok = tx.ok /\ without.log = tx.log
      /\ without.ok => ValueOf(without.op) >= 0
      /\ Sound(able)
      /\ able.ok => /\ tx.ok /\ SameStakes(tx.op, able.op) /\ StakesSound(able.op)
                    /\ able.op.balance = tx.op.balance
  <2> HIDE DEF without, able
  <2> QED
    BY TakenAtKickIs DEF without, able
<1>4. tx.ok => SameBooks(tx.op, without.op)
  BY DEF KickBegun, Sound, IsTx, Holdings, SameBooks
<1> HIDE DEF without
<1>5. Shown(without, {}, FALSE)
  BY <1>3, <1>4, StepShown
<1>6. /\ IsTx(sd) /\ (sd.ok => sd.op \in Holdings)
      /\ Shown(sd, {}, FALSE)
  <2> HIDE DEF sd
  <2> QED
    BY <1>3, <1>5, SlashSelfDelegationIs, SlashSelfDelegationTells DEF sd
<1> HIDE DEF sd
<1>7. /\ IsTx(burned) /\ burned.ok = sd.ok /\ burned.log = sd.log
      /\ burned.op = [sd.op EXCEPT !.totalSlashed = y]
  <2> HIDE DEF y
  <2> QED
    BY <1>6 DEF IsTx
<1> HIDE DEF burned
<1>8. sd.ok => SameBooks(sd.op, burned.op)
  <2> HIDE DEF y
  <2> QED
    BY <1>6, <1>7 DEF SameBooks, Holdings
<1>9. Shown(burned, {}, FALSE)
  BY <1>6, <1>7, <1>8, StepShown
<1>10. Shown(tx, {}, FALSE)
  BY ShownAnyway
<1>11. Shown(punished, {}, FALSE) /\ IsTx(punished)
  BY <1>7, <1>9, <1>10 DEF Sound
<1> HIDE DEF punished, joined, able
<1>12. Shown(able, {}, FALSE)
  BY <1>2, <1>11, RequiredShown
<1>13. Shown(after, {}, TRUE)
  BY <1>3, <1>12, SponsorshipRemovedTells
<1> HIDE DEF after, t
<1>14. Shown(t, {}, TRUE)
  BY <1>1, <1>13
<1> QED
  BY <1>14 DEF t

\* The fisherman's reward
LEMMA FishermanRewardTells ==
    ASSUME NEW tx, Sound(tx), Shown(tx, {}, TRUE), NEW valueBefore, NEW earnings \in Nat,
           tx.ok => ValueOf(tx.op) >= 0
    PROVE  Shown(FishermanReward(tx, valueBefore, earnings), {}, TRUE)
<1> DEFINE reward == (earnings * FishermanFraction) \div Ether
           slashed == SlashSelfDelegation(tx, reward)
           enough == reward <= slashed.op.balance
           able == Require(slashed, enough)
           x == able.op.balance - reward
           sent == [able EXCEPT !.op.balance = x]
           tooMuch == earnings > (valueBefore * AllowedEarningsFraction) \div Ether
           after == OperatorValueUpdate(sent)
           t == FishermanReward(tx, valueBefore, earnings)
<1>1. t = IF tooMuch THEN after ELSE tx
  BY DEF FishermanReward
<1>2. reward \in Nat
  <2>1. FishermanFraction \in 0 .. Ether
    BY OperatorAssumption
  <2>2. reward \in 0 .. earnings
    BY <2>1, FractionIsPart
  <2> QED
    BY <2>2
<1>3. t.ok => t.op \in Holdings
  BY FishermanRewardIs
<1> HIDE DEF reward, tooMuch
<1>4. /\ IsTx(slashed) /\ (slashed.ok => slashed.op \in Holdings)
      /\ Shown(slashed, {}, TRUE)
  <2> HIDE DEF slashed
  <2> QED
    BY <1>2, SlashSelfDelegationIs, SlashSelfDelegationTells DEF slashed
<1> HIDE DEF slashed
<1>5. /\ IsTx(able) /\ able.op = slashed.op /\ able.log = slashed.log
      /\ (able.ok => slashed.ok)
  <2> HIDE DEF enough
  <2> QED
    BY <1>4 DEF Require, IsTx
<1> HIDE DEF able
<1>6. /\ IsTx(sent) /\ sent.ok = able.ok /\ sent.log = able.log
      /\ sent.op = [able.op EXCEPT !.balance = x]
  <2> HIDE DEF x
  <2> QED
    BY <1>5 DEF IsTx
<1>7. able.ok => SameBooks(slashed.op, sent.op)
  <2> HIDE DEF x, sent
  <2> QED
    BY <1>4, <1>5, <1>6 DEF SameBooks, Holdings
<1> HIDE DEF sent, t
<1>8. Shown(sent, {}, FALSE)
  BY <1>4, <1>5, <1>6, <1>7, StepShown
<1>9. CASE tooMuch
  <2>1. t = after
    BY <1>1, <1>9
  <2>2. after.op = sent.op /\ after.ok = sent.ok
    BY <1>6, ReportsKeep
  <2>3. Sound(sent)
    BY <1>3, <1>6, <2>1, <2>2 DEF Sound, t
  <2>4. Shown(after, {}, TRUE)
    BY <1>8, <2>3, ValueReported
  <2> QED
    BY <2>1, <2>4 DEF t
<1>10. CASE ~tooMuch
  BY <1>1, <1>10 DEF t
<1> QED
  BY <1>9, <1>10

-----------------------------------------------------------------------------
(* The inductive invariant, and the transactions *)

Visible == Shows(store, op, {}, TRUE)

IndexInv == StakesInv /\ Visible

LEMMA BeginTells ==
    ASSUME Visible
    PROVE  Shown(Begin(op), {}, TRUE)
<1>1. /\ Begin(op).ok /\ Begin(op).op = op /\ Begin(op).log = <<>>
  BY DEF Begin
<1>2. Told(Begin(op))
  <2>1. <<>> \in Seq({})
    OBVIOUS
  <2> QED
    BY <1>1, <2>1 DEF Told
<1>3. StoreOf(Begin(op)) = store
  BY <1>1, NothingToHandle DEF StoreOf
<1> QED
  BY <1>1, <1>2, <1>3 DEF Shown, Visible

LEMMA WithTells ==
    ASSUME StakesInv, Visible, NEW data \in Nat
    PROVE  Shown(With(data), {}, TRUE)
<1> DEFINE b == Begin(op)
           x == b.op.balance + data
           t == With(data)
<1>1. t = [b EXCEPT !.op.balance = x]
  BY DEF With
<1>2. IsTx(b) /\ b.ok /\ b.op = op /\ op \in Holdings
  BY BeginIs DEF Sound, StakesInv
<1>3. Shown(b, {}, TRUE)
  BY BeginTells
<1> HIDE DEF b, t
<1>4. t.ok = b.ok /\ t.log = b.log /\ t.op = [b.op EXCEPT !.balance = x]
  <2> HIDE DEF x
  <2> QED
    BY <1>1, <1>2 DEF IsTx
<1>5. SameBooks(b.op, t.op) /\ SameValue(b.op, t.op)
  <2>1. b.op.balance \in Int /\ x \in Int /\ x >= b.op.balance
    BY <1>2 DEF Holdings
  <2> HIDE DEF x
  <2> QED
    BY <1>2, <1>4, <2>1 DEF SameBooks, SameValue, Holdings
<1>6. Shown(t, {}, TRUE)
  BY <1>3, <1>4, <1>5, StepShown
<1> QED
  BY <1>6 DEF t

LEMMA PayingTells ==
    ASSUME NEW tx, Sound(tx), tx.ok => StakesSound(tx.op), Shown(tx, {}, TRUE), NEW n \in Nat
    PROVE  Shown(PaidOutQueue(tx, n), {}, TRUE)
<1>1. tx.ok => tx.op.totalSlashed <= tx.op.totalStaked
  BY StakeIsPart DEF Sound
<1> QED
  BY <1>1, PaidOutQueueTells

LEMMA MaybePayingTells ==
    ASSUME NEW tx, Sound(tx), tx.ok => StakesSound(tx.op), Shown(tx, {}, TRUE), NEW payOut
    PROVE  Shown(MaybePaidOut(tx, payOut), {}, TRUE)
<1>1. CASE payOut
  BY <1>1, PayingTells DEF MaybePaidOut
<1>2. CASE ~payOut
  BY <1>2 DEF MaybePaidOut
<1> QED
  BY <1>1, <1>2

LEMMA CommittedIsShown ==
    ASSUME NEW tx, Commit(tx), Shown(tx, {}, TRUE)
    PROVE  Visible'
<1>1. tx.ok /\ op' = tx.op /\ store' = StoreOf(tx)
  BY DEF Commit, StoreOf
<1>2. Shows(store', op', {}, TRUE)
  BY <1>1 DEF Shown
<1> QED
  BY <1>2 DEF Visible

LEMMA InitVisible == Init => Visible
<1> SUFFICES ASSUME Init PROVE Visible
  OBVIOUS
<1>1. PICK cut \in Cuts : op = EmptyAccounts(cut)
  BY DEF Init
<1>2. /\ op.cut = cut /\ op.voter = FALSE /\ op.queue = <<>>
      /\ op.totalStaked = 0 /\ op.totalSlashed = 0 /\ op.balance = 0
      /\ op.tokens = [h \in Holders |-> 0]
  BY <1>1 DEF EmptyAccounts
<1> DEFINE new == Index!NewStore
<1>3. store = [new EXCEPT !.operatorsCutFraction = cut]
  BY <1>2 DEF Init, MetadataUpdated, Index!HandleMetadataUpdate
<1>4. DOMAIN new = StoreFields
  BY DEF Index!NewStore, StoreFields
<1>5. /\ new.delegatorCount = 0 /\ new.totalStakeInSponsorshipsWei = 0
      /\ new.dataTokenBalanceWei = 0 /\ new.operatorTokenTotalSupplyWei = 0
      /\ new.cumulativeProfitsWei = 0 /\ new.isEligibleToVote = FALSE
      /\ new.delegations = <<>> /\ new.queueEntries = <<>>
      /\ new.delegators = [h \in Holders |-> Index!NewDelegator]
      /\ new.bucket = Index!NoBucket
      /\ new.network = [totalStake |-> 0, totalDelegated |-> 0, totalUndelegated |-> 0,
                        eligibleVotersCount |-> 0]
  BY DEF Index!NewStore
<1> HIDE DEF new
<1>6. /\ DOMAIN store = StoreFields /\ store.operatorsCutFraction = cut
      /\ store.delegatorCount = 0 /\ store.totalStakeInSponsorshipsWei = 0
      /\ store.dataTokenBalanceWei = 0 /\ store.operatorTokenTotalSupplyWei = 0
      /\ store.cumulativeProfitsWei = 0 /\ store.isEligibleToVote = FALSE
      /\ store.delegations = <<>> /\ store.queueEntries = <<>>
      /\ store.delegators = [h \in Holders |-> Index!NewDelegator]
      /\ store.bucket = Index!NoBucket
      /\ store.network = [totalStake |-> 0, totalDelegated |-> 0, totalUndelegated |-> 0,
                          eligibleVotersCount |-> 0]
  BY <1>3, <1>4, <1>5 DEF StoreFields
<1>7. DOMAIN store.delegations = {} /\ DOMAIN store.queueEntries = {} /\ DOMAIN op.queue = {}
  BY <1>2, <1>6
<1>8. \A h \in Holders : /\ store.delegators[h].numberOfDelegations = 0
                         /\ store.delegators[h].totalValueDataWei = 0
                         /\ store.delegators[h].cumulativeEarningsWei = 0
  BY <1>6 DEF Index!NewDelegator
<1>9. EarningsIn(store) = 0 /\ Supply(op) = 0
  <2> DEFINE f == [h \in Holders |-> store.delegators[h].cumulativeEarningsWei]
             g == [h \in Holders |-> 0]
  <2>1. /\ IsFiniteSet(Holders)
        /\ DOMAIN f = Holders /\ \A h \in Holders : f[h] = 0
        /\ DOMAIN g = Holders /\ \A h \in Holders : g[h] = 0
    BY <1>8, OperatorAssumption
  <2>2. EarningsIn(store) = SumFunction(f) /\ Supply(op) = SumFunction(g)
    BY <1>2 DEF EarningsIn, Supply
  <2> HIDE DEF f, g
  <2>3. SumFunctionOnSet(f, Holders) = 0 /\ SumFunctionOnSet(g, Holders) = 0
    BY <2>1, SumOfZeros
  <2>4. SumFunction(f) = 0 /\ SumFunction(g) = 0
    BY <2>1, <2>3, SumOverDomain
  <2> QED
    BY <2>2, <2>4
<1>10. IsStore(store)
  <2>1. store.delegators \in [Holders -> DelegatorEntities]
    BY <1>6 DEF Index!NewDelegator, DelegatorEntities
  <2>2. store.bucket \in Buckets
    BY <1>6 DEF Index!NoBucket, Buckets
  <2>3. DOMAIN store.network = NetworkFields
    BY <1>6 DEF NetworkFields
  <2> QED
    BY <1>6, <1>7, <2>1, <2>2, <2>3 DEF IsStore
<1>11. DelegationsCounted(store)
  <2>1. Cardinality(DOMAIN store.delegations) = 0
    BY <1>7, FS_EmptySet
  <2>2. store.bucket.exists = FALSE
    BY <1>6 DEF Index!NoBucket
  <2> QED
    BY <1>6, <1>7, <1>8, <2>1, <2>2 DEF DelegationsCounted
<1>12. Orderly(store)
  BY <1>6, <1>9, <1>10, <1>11 DEF Orderly
<1>13. TokensShown(store, op, {})
  <2>1. \A h \in Holders : op.tokens[h] = 0
    BY <1>2
  <2> QED
    BY <1>6, <1>7, <1>9, <2>1 DEF TokensShown
<1>14. QueueShown(store, op)
  <2>1. Waiting(op) = {}
    BY <1>7 DEF Waiting
  <2>2. {IndexOf(op, i) : i \in Waiting(op)} = {}
    BY <2>1
  <2> QED
    BY <1>7, <2>1, <2>2 DEF QueueShown
<1>15. SettingsShown(store, op) /\ ValueShown(store, op)
  <2>1. /\ store.network.eligibleVotersCount = 0
        /\ store.isEligibleToVote = FALSE /\ store.operatorsCutFraction = cut
        /\ store.totalStakeInSponsorshipsWei = 0 /\ store.dataTokenBalanceWei = 0
    BY <1>6
  <2>2. SettingsShown(store, op)
    BY <1>2, <2>1 DEF SettingsShown
  <2>3. ValueShown(store, op)
    BY <1>2, <2>1 DEF ValueShown
  <2> QED
    BY <2>2, <2>3
<1> QED
  BY <1>12, <1>13, <1>14, <1>15 DEF Visible, Shows

-----------------------------------------------------------------------------
(* The transactions of delegators are shown *)

LEMMA DelegateIsShown ==
    ASSUME IndexInv, NEW h \in Holders, NEW data \in DataAmounts, Delegate(h, data)
    PROVE  Visible'
<1>1. data \in Nat /\ op \in Holdings /\ StakesSound(op) /\ StakesInv /\ Visible
  BY BoundsAssumption DEF IndexInv, StakesInv
<1> DEFINE w == With(data)
           d == Delegated(w, h, data)
           t == PaidOutQueue(d, 0)
<1>2. Sound(w) /\ w.ok /\ SameStakes(op, w.op) /\ w.op.balance = op.balance + data
  BY <1>1, WithIs
<1>3. Shown(w, {}, TRUE)
  BY <1>1, WithTells
<1>4. Commit(t)
  BY DEF Delegate
<1> HIDE DEF w
<1>5. StakesSound(w.op) /\ w.op \in Holdings
  BY <1>1, <1>2, SameStakesAreSound DEF Sound
<1>6. data <= ValueOf(w.op)
  <2>1. ValueOf(w.op) \in Nat /\ ValueOf(w.op) >= w.op.balance
    BY <1>5, StakeIsPart
  <2>2. op.balance \in Nat
    BY <1>1 DEF Holdings
  <2> QED
    BY <1>1, <1>2, <2>1, <2>2
<1>7. IsTx(d) /\ (d.ok => d.op \in Holdings /\ SameStakes(w.op, d.op))
  BY <1>1, <1>2, <1>6, DelegatedIs
<1>8. Shown(d, {}, TRUE)
  BY <1>1, <1>2, <1>3, <1>6, DelegatedTells
<1> HIDE DEF d
<1>9. Sound(d) /\ (d.ok => StakesSound(d.op))
  BY <1>5, <1>7, SameStakesAreSound DEF Sound
<1>10. Shown(t, {}, TRUE)
  BY <1>8, <1>9, PayingTells
<1> HIDE DEF t
<1> QED
  BY <1>4, <1>10, CommittedIsShown

LEMMA UndelegateIsShown ==
    ASSUME IndexInv, NEW h \in Holders, NEW data \in Undelegations, Undelegate(h, data)
    PROVE  Visible'
<1>1. data \in Nat \ {0} /\ op \in Holdings /\ StakesSound(op) /\ Visible
  BY BoundsAssumption DEF IndexInv, StakesInv
<1> DEFINE b == Begin(op)
           q == Queued(b, h, data)
           t == PaidOutQueue(q, 0)
<1>2. Sound(b) /\ b.op = op /\ Shown(b, {}, TRUE)
  BY <1>1, BeginIs, BeginTells
<1>3. Commit(t)
  BY DEF Undelegate
<1> HIDE DEF b
<1>4. IsTx(q) /\ (q.ok => q.op \in Holdings /\ SameStakes(b.op, q.op))
  BY <1>1, <1>2, QueuedIs
<1>5. Shown(q, {}, TRUE)
  BY <1>1, <1>2, QueuedTells
<1> HIDE DEF q
<1>6. Sound(q) /\ (q.ok => StakesSound(q.op))
  BY <1>1, <1>2, <1>4, SameStakesAreSound DEF Sound
<1>7. Shown(t, {}, TRUE)
  BY <1>5, <1>6, PayingTells
<1> HIDE DEF t
<1> QED
  BY <1>3, <1>7, CommittedIsShown

LEMMA TransferIsShown ==
    ASSUME IndexInv, NEW from \in Holders, NEW to \in Holders, NEW tokens \in DataAmounts,
           Transfer(from, to, tokens)
    PROVE  Visible'
<1>1. tokens \in Nat /\ op \in Holdings /\ Visible
  BY BoundsAssumption DEF IndexInv, StakesInv
<1> DEFINE b == Begin(op)
           t == Transferred(b, from, to, tokens)
<1>2. Sound(b) /\ b.op = op /\ Shown(b, {}, TRUE)
  BY <1>1, BeginIs, BeginTells
<1>3. Commit(t)
  BY DEF Transfer
<1> HIDE DEF b
<1>4. Shown(t, {}, TRUE)
  BY <1>1, <1>2, TransferredTells
<1> HIDE DEF t
<1> QED
  BY <1>3, <1>4, CommittedIsShown

LEMMA PayOutQueueIsShown ==
    ASSUME IndexInv, NEW n \in Nat, PayOutQueue(n)
    PROVE  Visible'
<1>1. op \in Holdings /\ StakesSound(op) /\ Visible
  BY DEF IndexInv, StakesInv
<1> DEFINE b == Begin(op)
           t == PaidOutQueue(b, n)
<1>2. Sound(b) /\ b.op = op /\ Shown(b, {}, TRUE)
  BY <1>1, BeginIs, BeginTells
<1>3. Commit(t)
  BY DEF PayOutQueue
<1> HIDE DEF b
<1>4. Shown(t, {}, TRUE)
  BY <1>1, <1>2, PayingTells
<1> HIDE DEF t
<1> QED
  BY <1>3, <1>4, CommittedIsShown

LEMMA ReceiveUntoldIsShown ==
    ASSUME IndexInv, NEW data \in EarningAmounts, ReceiveUntold(data)
    PROVE  Visible'
<1>1. data \in Nat /\ StakesInv /\ Visible
  BY BoundsAssumption DEF IndexInv
<1>2. Shown(With(data), {}, TRUE)
  BY <1>1, WithTells
<1> QED
  BY <1>2, CommittedIsShown DEF ReceiveUntold

LEMMA FishAnotherIsShown ==
    ASSUME IndexInv, NEW data \in EarningAmounts, FishAnother(data)
    PROVE  Visible'
<1>1. /\ data \in Nat /\ op \in Holdings /\ StakesSound(op) /\ Owner \in Holders
      /\ StakesInv /\ Visible
  BY BoundsAssumption, OperatorAssumption DEF IndexInv, StakesInv
<1> DEFINE w == With(data)
           d == Delegated(w, Owner, data)
<1>2. Sound(w) /\ w.ok /\ SameStakes(op, w.op) /\ w.op.balance = op.balance + data
  BY <1>1, WithIs
<1>3. Shown(w, {}, TRUE)
  BY <1>1, WithTells
<1>4. Commit(d)
  BY DEF FishAnother
<1> HIDE DEF w
<1>5. StakesSound(w.op) /\ w.op \in Holdings
  BY <1>1, <1>2, SameStakesAreSound DEF Sound
<1>6. data <= ValueOf(w.op)
  <2>1. ValueOf(w.op) \in Nat /\ ValueOf(w.op) >= w.op.balance
    BY <1>5, StakeIsPart
  <2>2. op.balance \in Nat
    BY <1>1 DEF Holdings
  <2> QED
    BY <1>1, <1>2, <2>1, <2>2
<1>7. Shown(d, {}, TRUE)
  BY <1>1, <1>2, <1>3, <1>6, DelegatedTells
<1> HIDE DEF d
<1> QED
  BY <1>4, <1>7, CommittedIsShown

-----------------------------------------------------------------------------
(* The transactions of the operator are shown *)

LEMMA StakeIntoIsShown ==
    ASSUME IndexInv, NEW s \in Sponsorships, NEW amount \in DataAmounts, StakeInto(s, amount)
    PROVE  Visible'
<1>1. amount \in Nat \ {0} /\ op \in Holdings /\ StakesSound(op) /\ Visible
  BY BoundsAssumption DEF IndexInv, StakesInv
<1> DEFINE b == Begin(op)
           t == Staked(b, s, amount)
<1>2. Sound(b) /\ b.op = op /\ Shown(b, {}, TRUE)
  BY <1>1, BeginIs, BeginTells
<1>3. Commit(t)
  BY DEF StakeInto
<1> HIDE DEF b
<1>4. Shown(t, {}, TRUE)
  BY <1>1, <1>2, StakedTells
<1> HIDE DEF t
<1> QED
  BY <1>3, <1>4, CommittedIsShown

LEMMA ReduceStakeToIsShown ==
    ASSUME IndexInv, NEW s \in DOMAIN stakeAt, NEW target \in DataAmounts, NEW payOut,
           ReduceStakeTo(s, target, payOut)
    PROVE  Visible'
<1>1. /\ target \in Nat /\ op \in Holdings /\ StakesSound(op)
      /\ StakesInv /\ Visible
  BY BoundsAssumption DEF IndexInv, StakesInv
<1>2. /\ s \in Sponsorships /\ stakeAt[s] \in Nat
      /\ stakeAt[s] = op.stakedInto[s] - op.slashedIn[s]
  BY <1>1, JoinedIs
<1> DEFINE b == Begin(op)
           cashout == stakeAt[s] - target
           r == StakeReduced(b, s, cashout)
           t == MaybePaidOut(r, payOut)
<1>3. Sound(b) /\ b.op = op /\ Shown(b, {}, TRUE)
  BY <1>1, BeginIs, BeginTells
<1>4. Commit(t) /\ 0 < target /\ target < stakeAt[s]
  BY DEF ReduceStakeTo
<1>5. cashout \in Nat /\ cashout < op.stakedInto[s] - op.slashedIn[s]
  BY <1>1, <1>2, <1>4
<1> HIDE DEF b, cashout
<1>6. IsTx(r) /\ (r.ok => r.op \in Holdings /\ StakesSound(r.op))
  BY <1>1, <1>2, <1>3, <1>5, StakeReducedIs
<1>7. Shown(r, {}, TRUE)
  BY <1>1, <1>2, <1>3, <1>5, StakeReducedTells
<1> HIDE DEF r
<1>8. Shown(t, {}, TRUE)
  BY <1>6, <1>7, MaybePayingTells DEF Sound
<1> HIDE DEF t
<1> QED
  BY <1>4, <1>8, CommittedIsShown

LEMMA UnstakeIsShown ==
    ASSUME IndexInv, NEW s \in DOMAIN stakeAt, NEW earnings \in Nat, NEW payOut,
           Unstake(s, earnings, payOut)
    PROVE  Visible'
<1>1. /\ op \in Holdings /\ StakesSound(op) /\ op.balance \in Nat
      /\ StakesInv /\ Visible
  BY DEF IndexInv, StakesInv, Holdings
<1>2. s \in Sponsorships /\ stakeAt[s] \in Nat
  BY <1>1, JoinedIs
<1> DEFINE received == stakeAt[s] + earnings
           w == With(received)
           r == SponsorshipRemoved(w, s, received)
           t == MaybePaidOut(r, payOut)
<1>3. received \in Nat
  BY <1>2
<1>4. Commit(t)
  BY DEF Unstake
<1> HIDE DEF received
<1>5. Sound(w) /\ SameStakes(op, w.op) /\ w.op.balance = op.balance + received
  BY <1>1, <1>3, WithIs
<1>6. Shown(w, {}, TRUE)
  BY <1>1, <1>3, WithTells
<1> HIDE DEF w
<1>7. StakesSound(w.op) /\ received <= w.op.balance
  BY <1>1, <1>3, <1>5, SameStakesAreSound
<1>8. IsTx(r) /\ (r.ok => r.op \in Holdings /\ StakesSound(r.op))
  BY <1>2, <1>3, <1>5, <1>7, SponsorshipRemovedIs
<1>9. Shown(r, {}, TRUE)
  BY <1>2, <1>3, <1>5, <1>6, <1>7, SponsorshipRemovedTells
<1> HIDE DEF r
<1>10. Shown(t, {}, TRUE)
  BY <1>8, <1>9, MaybePayingTells DEF Sound
<1> HIDE DEF t
<1> QED
  BY <1>4, <1>10, CommittedIsShown

LEMMA ReturnedTells ==
    ASSUME IndexInv, NEW s \in DOMAIN stakeAt, NEW losses \in LeaveSlashings(stakeAt[s]),
           NEW received \in Nat
    PROVE  Shown([SlashedBy(Begin(op), s, losses) EXCEPT !.op.balance = @ + received], {}, TRUE)
<1>1. op \in Holdings /\ StakesSound(op) /\ StakesInv /\ Visible
  BY DEF IndexInv, StakesInv
<1>2. /\ s \in Sponsorships /\ s \in op.sponsorships
      /\ stakeAt[s] = op.stakedInto[s] - op.slashedIn[s]
  BY <1>1, JoinedIs
<1>3. /\ losses \in [locked : Nat, penalty : Nat]
      /\ losses.locked + losses.penalty <= stakeAt[s]
  BY BoundsAssumption DEF LeaveSlashings
<1> DEFINE b == Begin(op)
           u == SlashedBy(b, s, losses)
           x == u.op.balance + received
           t == [u EXCEPT !.op.balance = x]
<1>4. Sound(b) /\ b.op = op /\ Shown(b, {}, TRUE)
  BY <1>1, BeginIs, BeginTells
<1> HIDE DEF b
<1>5. IsTx(u) /\ (u.ok => u.op \in Holdings)
  BY <1>1, <1>2, <1>3, <1>4, SlashedByIs
<1>6. Shown(u, {}, TRUE)
  BY <1>1, <1>2, <1>3, <1>4, SlashedByTells
<1> HIDE DEF u
<1>7. t.ok = u.ok /\ t.log = u.log /\ t.op = [u.op EXCEPT !.balance = x]
  <2> HIDE DEF x
  <2> QED
    BY <1>5 DEF IsTx
<1>8. [u EXCEPT !.op.balance = @ + received] = t
  OBVIOUS
<1> HIDE DEF t
<1>9. u.ok => SameBooks(u.op, t.op) /\ SameValue(u.op, t.op)
  <2> SUFFICES ASSUME u.ok PROVE SameBooks(u.op, t.op) /\ SameValue(u.op, t.op)
    OBVIOUS
  <2>1. u.op.balance \in Int /\ x \in Int /\ x >= u.op.balance
    BY <1>5 DEF Holdings
  <2> HIDE DEF x
  <2> QED
    BY <1>5, <1>7, <2>1 DEF SameBooks, SameValue, Holdings
<1>10. Shown(t, {}, TRUE)
  BY <1>6, <1>7, <1>9, StepShown
<1> QED
  BY <1>8, <1>10 DEF u, b

LEMMA ForceUnstakeIsShown ==
    ASSUME IndexInv, NEW s \in DOMAIN stakeAt, NEW losses \in LeaveSlashings(stakeAt[s]),
           NEW earnings \in Nat, NEW n \in Nat, ForceUnstake(s, losses, earnings, n)
    PROVE  Visible'
<1>0. StakesInv
  BY DEF IndexInv
<1>1. s \in Sponsorships /\ stakeAt[s] \in Nat
  BY <1>0, JoinedIs
<1>2. /\ losses.locked \in Nat /\ losses.penalty \in Nat
      /\ losses.locked + losses.penalty <= stakeAt[s]
  BY BoundsAssumption DEF LeaveSlashings
<1> DEFINE received == stakeAt[s] - (losses.locked + losses.penalty) + earnings
           u == [SlashedBy(Begin(op), s, losses) EXCEPT !.op.balance = @ + received]
           r == SponsorshipRemoved(u, s, received)
           t == PaidOutQueue(r, n)
<1>3. received \in Nat
  BY <1>1, <1>2
<1>4. Commit(t)
  BY DEF ForceUnstake
<1> HIDE DEF received
<1>5. Sound(u) /\ (u.ok => StakesSound(u.op) /\ received <= u.op.balance)
  BY <1>0, <1>3, ReturnedIs
<1>6. Shown(u, {}, TRUE)
  BY <1>3, ReturnedTells
<1> HIDE DEF u
<1>7. IsTx(r) /\ (r.ok => r.op \in Holdings /\ StakesSound(r.op))
  BY <1>1, <1>3, <1>5, SponsorshipRemovedIs
<1>8. Shown(r, {}, TRUE)
  BY <1>1, <1>3, <1>5, <1>6, SponsorshipRemovedTells
<1> HIDE DEF r
<1>9. Shown(t, {}, TRUE)
  BY <1>7, <1>8, PayingTells DEF Sound
<1> HIDE DEF t
<1> QED
  BY <1>4, <1>9, CommittedIsShown

LEMMA WithdrawEarningsIsShown ==
    ASSUME IndexInv, NEW earnings \in EarningAmounts, NEW outsider, NEW payOut,
           WithdrawEarnings(earnings, outsider, payOut)
    PROVE  Visible'
<1>1. /\ earnings \in Nat /\ op \in Holdings /\ StakesSound(op)
      /\ StakesInv /\ Visible
  BY BoundsAssumption DEF IndexInv, StakesInv
<1> DEFINE w == With(earnings)
           e == EarningsSplit(w, earnings)
           before == ValueOf(op)
           f == FishermanReward(e, before, earnings)
           r == IF outsider THEN f ELSE e
           t == MaybePaidOut(r, payOut)
<1>2. Commit(t)
  BY DEF WithdrawEarnings
<1>3. Sound(w) /\ w.ok /\ SameStakes(op, w.op) /\ w.op.balance = op.balance + earnings
  BY <1>1, WithIs
<1>4. Shown(w, {}, TRUE)
  BY <1>1, WithTells
<1> HIDE DEF w, before
<1>5. StakesSound(w.op) /\ w.op \in Holdings
  BY <1>1, <1>3, SameStakesAreSound DEF Sound
<1>6. earnings <= w.op.balance /\ w.op.totalSlashed <= w.op.totalStaked
  <2>1. w.op.totalSlashed <= w.op.totalStaked
    BY <1>5, StakeIsPart
  <2>2. op.balance \in Nat
    BY <1>1 DEF Holdings
  <2> QED
    BY <1>1, <1>3, <2>1, <2>2
<1>7. IsTx(e) /\ (e.ok => e.op \in Holdings /\ SameStakes(w.op, e.op))
  BY <1>1, <1>3, <1>6, EarningsSplitIs
<1>8. Shown(e, {}, TRUE)
  BY <1>1, <1>3, <1>4, <1>6, EarningsSplitTells
<1> HIDE DEF e
<1>9. Sound(e) /\ (e.ok => StakesSound(e.op))
  BY <1>5, <1>7, SameStakesAreSound DEF Sound
<1>10. e.ok => ValueOf(e.op) >= 0
  <2> SUFFICES ASSUME e.ok PROVE ValueOf(e.op) >= 0
    OBVIOUS
  <2>1. ValueOf(e.op) \in Nat
    BY <1>7, <1>9, StakeIsPart
  <2> QED
    BY <2>1
<1>11. IsTx(f) /\ (f.ok => e.ok /\ f.op \in Holdings /\ SameStakes(e.op, f.op))
  BY <1>1, <1>9, <1>10, FishermanRewardIs
<1>12. Shown(f, {}, TRUE)
  BY <1>1, <1>8, <1>9, <1>10, FishermanRewardTells
<1> HIDE DEF f
<1>13. Sound(f) /\ (f.ok => StakesSound(f.op))
  BY <1>9, <1>11, SameStakesAreSound DEF Sound
<1>14. Sound(r) /\ (r.ok => StakesSound(r.op)) /\ Shown(r, {}, TRUE)
  BY <1>8, <1>9, <1>12, <1>13
<1> HIDE DEF r
<1>15. Shown(t, {}, TRUE)
  BY <1>14, MaybePayingTells
<1> HIDE DEF t
<1> QED
  BY <1>2, <1>15, CommittedIsShown

LEMMA UpdateCutIsShown ==
    ASSUME IndexInv, NEW cut \in Cuts, UpdateCut(cut)
    PROVE  Visible'
<1>1. op \in Holdings /\ Shows(store, op, {}, TRUE)
  BY DEF IndexInv, StakesInv, Visible
<1> DEFINE e == MetadataUpdated(cut)
           w == [store EXCEPT !.operatorsCutFraction = cut]
<1>2. op' = [op EXCEPT !.cut = cut] /\ store' = Index!HandleAll(store, <<e>>)
  BY DEF UpdateCut
<1>3. Index!Handle(store, e) = w
  BY DEF Index!Handle, Index!HandleMetadataUpdate, MetadataUpdated
<1> HIDE DEF e
<1>4. Index!HandleAll(store, <<e>>) = Index!Handle(store, e)
  BY OneToHandle
<1>5. Orderly(store) /\ DOMAIN store = StoreFields
  BY <1>1 DEF Shows, Orderly, IsStore
<1>6. /\ \A f \in StoreFields \ {"operatorsCutFraction"} : w[f] = store[f]
      /\ DOMAIN w = StoreFields /\ w.operatorsCutFraction = cut
  BY <1>5 DEF StoreFields
<1> HIDE DEF w
<1>7. /\ w.delegators = store.delegators /\ w.delegations = store.delegations
      /\ w.delegatorCount = store.delegatorCount /\ w.bucket = store.bucket
      /\ w.cumulativeProfitsWei = store.cumulativeProfitsWei
      /\ w.totalStakeInSponsorshipsWei = store.totalStakeInSponsorshipsWei
      /\ w.operatorTokenTotalSupplyWei = store.operatorTokenTotalSupplyWei
      /\ w.queueEntries = store.queueEntries
      /\ w.isEligibleToVote = store.isEligibleToVote
      /\ w.dataTokenBalanceWei = store.dataTokenBalanceWei
      /\ w.network = store.network
  BY <1>6 DEF StoreFields
<1>8. Orderly(w)
  <2>1. /\ w.totalStakeInSponsorshipsWei \in Int /\ DOMAIN w.network = NetworkFields
        /\ w.network.totalStake = w.totalStakeInSponsorshipsWei
    BY <1>5, <1>7 DEF Orderly, IsStore
  <2> QED
    BY <1>5, <1>6, <1>7, <2>1, StaysOrderly
<1> DEFINE a == op'
<1>9. /\ a.tokens = op.tokens /\ a.queue = op.queue /\ a.nextIndex = op.nextIndex
      /\ a.voter = op.voter /\ a.cut = cut /\ a.balance = op.balance
      /\ a.totalStaked = op.totalStaked /\ a.totalSlashed = op.totalSlashed
  BY <1>1, <1>2 DEF Holdings
<1> HIDE DEF a
<1>10. TokensShown(w, a, {}) /\ ValueShown(w, a)
  BY <1>1, <1>7, <1>9 DEF Shows, TokensShown, ValueShown, Supply
<1>11. QueueShown(w, a)
  BY <1>1, <1>7, <1>9 DEF Shows, QueueShown, Waiting, IndexOf, QueueIndex
<1>12. SettingsShown(w, a)
  BY <1>1, <1>6, <1>7, <1>9 DEF Shows, SettingsShown
<1>13. Shows(store', op', {}, TRUE)
  BY <1>2, <1>3, <1>4, <1>8, <1>10, <1>11, <1>12 DEF Shows, a
<1> QED
  BY <1>13 DEF Visible

-----------------------------------------------------------------------------
(* The callbacks of the Sponsorships, and a new day *)

LEMMA SlashedInSponsorshipIsShown ==
    ASSUME IndexInv, NEW s \in DOMAIN stakeAt, NEW amount \in SlashAmounts,
           SlashedInSponsorship(s, amount)
    PROVE  Visible'
<1>1. /\ amount \in Nat \ {0} /\ op \in Holdings /\ StakesSound(op)
      /\ StakesInv /\ Visible
  BY BoundsAssumption DEF IndexInv, StakesInv
<1>2. /\ s \in Sponsorships /\ s \in op.sponsorships
      /\ stakeAt[s] = op.stakedInto[s] - op.slashedIn[s]
  BY <1>1, JoinedIs
<1> DEFINE b == Begin(op)
           t == OnSlash(b, s, amount)
<1>3. Sound(b) /\ b.op = op /\ Shown(b, {}, TRUE)
  BY <1>1, BeginIs, BeginTells
<1>4. Commit(t) /\ amount <= stakeAt[s]
  BY DEF SlashedInSponsorship
<1> HIDE DEF b
<1>5. Shown(t, {}, TRUE)
  BY <1>1, <1>2, <1>3, <1>4, OnSlashTells
<1> HIDE DEF t
<1> QED
  BY <1>4, <1>5, CommittedIsShown

LEMMA KickedOutIsShown ==
    ASSUME IndexInv, NEW s \in DOMAIN stakeAt, NEW amount \in Nat,
           NEW losses \in LeaveSlashings(stakeAt[s]), NEW earnings \in Nat,
           KickedOut(s, amount, losses, earnings)
    PROVE  Visible'
<1>0. StakesInv
  BY DEF IndexInv
<1>1. /\ s \in Sponsorships /\ s \in op.sponsorships /\ stakeAt[s] \in Nat
      /\ stakeAt[s] = op.stakedInto[s] - op.slashedIn[s]
      /\ op.stakedInto[s] \in Int /\ op.slashedIn[s] \in Int
      /\ op.slashedIn \in [Sponsorships -> Int]
  BY <1>0, JoinedIs
<1>2. losses.locked \in Nat /\ losses.penalty \in Nat
  BY BoundsAssumption DEF LeaveSlashings
<1> DEFINE received == stakeAt[s] - amount - (losses.locked + losses.penalty) + earnings
           u == [SlashedBy(Begin(op), s, losses) EXCEPT !.op.balance = @ + received]
           t == OnKick(u, s, amount, received)
<1>3. /\ Commit(t)
      /\ stakeAt[s] - amount >= losses.locked + losses.penalty
  BY DEF KickedOut
<1>4. received \in Nat
  BY <1>1, <1>2, <1>3
<1> HIDE DEF received
<1>5. /\ Sound(u)
      /\ u.ok => /\ StakesSound(u.op) /\ received <= u.op.balance
                 /\ u.op.sponsorships = op.sponsorships
                 /\ u.op.stakedInto = op.stakedInto
                 /\ u.op.slashedIn = [op.slashedIn EXCEPT
                                        ![s] = @ + losses.locked + losses.penalty]
  BY <1>0, <1>4, ReturnedIs
<1>6. Shown(u, {}, TRUE)
  BY <1>4, ReturnedTells
<1> HIDE DEF u
<1>7. u.ok => s \in u.op.sponsorships /\ amount <= u.op.stakedInto[s] - u.op.slashedIn[s]
  <2> SUFFICES ASSUME u.ok
               PROVE  s \in u.op.sponsorships /\ amount <= u.op.stakedInto[s] - u.op.slashedIn[s]
    OBVIOUS
  <2>1. u.op.slashedIn[s] = op.slashedIn[s] + losses.locked + losses.penalty
    BY <1>1, <1>5
  <2> QED
    BY <1>1, <1>2, <1>3, <1>5, <2>1
<1>8. /\ Sound(u) /\ s \in Sponsorships
      /\ u.ok => /\ StakesSound(u.op) /\ s \in u.op.sponsorships
                 /\ received <= u.op.balance
                 /\ amount <= u.op.stakedInto[s] - u.op.slashedIn[s]
  BY <1>1, <1>5, <1>7
<1> HIDE DEF t
<1>9. Shown(t, {}, TRUE)
  BY <1>4, <1>6, <1>8, OnKickTells DEF t
<1> QED
  BY <1>3, <1>9, CommittedIsShown

LEMMA NextDayIsShown ==
    ASSUME IndexInv, NextDay
    PROVE  Visible'
<1>1. Shows(store, op, {}, TRUE)
  BY DEF IndexInv, Visible
<1>2. store' = [store EXCEPT !.bucket = Index!NoBucket] /\ op' = op
  BY DEF NextDay
<1> DEFINE w == store'
<1>3. Orderly(store) /\ DOMAIN store = StoreFields
  BY <1>1 DEF Shows, Orderly, IsStore
<1>4. /\ \A f \in StoreFields \ {"bucket"} : w[f] = store[f]
      /\ DOMAIN w = StoreFields /\ w.bucket = Index!NoBucket
  BY <1>2, <1>3 DEF StoreFields
<1> HIDE DEF w
<1>5. /\ w.delegators = store.delegators /\ w.delegations = store.delegations
      /\ w.delegatorCount = store.delegatorCount
      /\ w.cumulativeProfitsWei = store.cumulativeProfitsWei
      /\ w.totalStakeInSponsorshipsWei = store.totalStakeInSponsorshipsWei
      /\ w.operatorTokenTotalSupplyWei = store.operatorTokenTotalSupplyWei
      /\ w.queueEntries = store.queueEntries
      /\ w.isEligibleToVote = store.isEligibleToVote
      /\ w.operatorsCutFraction = store.operatorsCutFraction
      /\ w.dataTokenBalanceWei = store.dataTokenBalanceWei
      /\ w.network = store.network
  BY <1>4 DEF StoreFields
<1>6. w.bucket \in Buckets /\ w.bucket.exists = FALSE
  BY <1>4 DEF Index!NoBucket, Buckets
<1>7. Orderly(w)
  BY <1>3, <1>4, <1>5, <1>6 DEF Orderly, IsStore, DelegationsCounted, EarningsIn
<1>8. TokensShown(w, op, {}) /\ QueueShown(w, op) /\ SettingsShown(w, op) /\ ValueShown(w, op)
  BY <1>1, <1>5 DEF Shows, TokensShown, QueueShown, SettingsShown, ValueShown
<1>9. Shows(store', op', {}, TRUE)
  BY <1>2, <1>7, <1>8 DEF Shows, w
<1> QED
  BY <1>9 DEF Visible

-----------------------------------------------------------------------------
(* The invariant is inductive, and says what the runs check *)

LEMMA NextIsShown == IndexInv /\ [Next]_vars => Visible'
<1> SUFFICES ASSUME IndexInv, [Next]_vars PROVE Visible'
  OBVIOUS
<1>1. EarningsOrNone \subseteq Nat /\ SlashAmounts \cup {0} \subseteq Nat /\ {0, 1} \subseteq Nat
  BY BoundsAssumption DEF EarningsOrNone
<1>2. ASSUME NEW h \in Holders, NEW data \in DataAmounts, Delegate(h, data) PROVE Visible'
  BY <1>2, DelegateIsShown
<1>3. ASSUME NEW h \in Holders, NEW data \in Undelegations, Undelegate(h, data) PROVE Visible'
  BY <1>3, UndelegateIsShown
<1>4. ASSUME NEW from \in Holders, NEW to \in Holders, NEW tokens \in DataAmounts,
             Transfer(from, to, tokens)
      PROVE  Visible'
  BY <1>4, TransferIsShown
<1>5. ASSUME NEW n \in {0, 1}, PayOutQueue(n) PROVE Visible'
  BY <1>1, <1>5, PayOutQueueIsShown
<1>6. ASSUME NEW data \in EarningAmounts, ReceiveUntold(data) PROVE Visible'
  BY <1>6, ReceiveUntoldIsShown
<1>7. ASSUME NEW data \in EarningAmounts, FishAnother(data) PROVE Visible'
  BY <1>7, FishAnotherIsShown
<1>8. ASSUME NEW s \in Sponsorships, NEW amount \in DataAmounts, StakeInto(s, amount)
      PROVE  Visible'
  BY <1>8, StakeIntoIsShown
<1>9. ASSUME NEW s \in DOMAIN stakeAt, NEW target \in DataAmounts, NEW payOut \in BOOLEAN,
             ReduceStakeTo(s, target, payOut)
      PROVE  Visible'
  BY <1>9, ReduceStakeToIsShown
<1>10. ASSUME NEW s \in DOMAIN stakeAt, NEW earnings \in EarningsOrNone, NEW payOut \in BOOLEAN,
              Unstake(s, earnings, payOut)
       PROVE  Visible'
  BY <1>1, <1>10, UnstakeIsShown
<1>11. ASSUME NEW s \in DOMAIN stakeAt, NEW losses \in LeaveSlashings(stakeAt[s]),
              NEW earnings \in EarningsOrNone, NEW n \in {0, 1},
              ForceUnstake(s, losses, earnings, n)
       PROVE  Visible'
  BY <1>1, <1>11, ForceUnstakeIsShown
<1>12. ASSUME NEW earnings \in EarningAmounts, NEW outsider \in BOOLEAN, NEW payOut \in BOOLEAN,
              WithdrawEarnings(earnings, outsider, payOut)
       PROVE  Visible'
  BY <1>12, WithdrawEarningsIsShown
<1>13. ASSUME NEW cut \in Cuts, UpdateCut(cut) PROVE Visible'
  BY <1>13, UpdateCutIsShown
<1>14. ASSUME NEW s \in DOMAIN stakeAt, NEW amount \in SlashAmounts,
              SlashedInSponsorship(s, amount)
       PROVE  Visible'
  BY <1>14, SlashedInSponsorshipIsShown
<1>15. ASSUME NEW s \in DOMAIN stakeAt, NEW amount \in SlashAmounts \cup {0},
              NEW losses \in LeaveSlashings(stakeAt[s]), NEW earnings \in EarningsOrNone,
              KickedOut(s, amount, losses, earnings)
       PROVE  Visible'
  BY <1>1, <1>15, KickedOutIsShown
<1>16. ASSUME NextDay PROVE Visible'
  BY <1>16, NextDayIsShown
<1>17. ASSUME UNCHANGED vars PROVE Visible'
  BY <1>17 DEF vars, IndexInv, Visible
<1> QED
  BY <1>2, <1>3, <1>4, <1>5, <1>6, <1>7, <1>8, <1>9, <1>10, <1>11, <1>12, <1>13, <1>14,
     <1>15, <1>16, <1>17 DEF Next

LEMMA IndexInvariant == Spec => []IndexInv
<1>1. Init => IndexInv
  BY InitStakesInv, InitVisible DEF IndexInv
<1>2. IndexInv /\ [Next]_vars => IndexInv'
  BY NextStakesInv, NextIsShown DEF IndexInv
<1> QED
  BY <1>1, <1>2, PTL DEF Spec

LEMMA DelegationsAreShown == IndexInv => DelegationsShown
<1> SUFFICES ASSUME IndexInv PROVE DelegationsShown
  OBVIOUS
<1>1. Orderly(store) /\ TokensShown(store, op, {}) /\ op \in Holdings
  BY DEF IndexInv, Visible, Shows, StakesInv
<1>2. DOMAIN store.delegations \subseteq Holders
  BY <1>1 DEF Orderly, IsStore
<1>3. DOMAIN store.delegations = HoldersNow
  BY <1>1, <1>2 DEF TokensShown, HoldersNow
<1> QED
  BY <1>1, <1>3 DEF DelegationsShown, Orderly, DelegationsCounted, TokensShown

LEMMA AccountsAreShown == IndexInv => AccountsShown
<1> SUFFICES ASSUME IndexInv PROVE AccountsShown
  OBVIOUS
<1>1. /\ Orderly(store) /\ QueueShown(store, op) /\ SettingsShown(store, op)
      /\ ValueShown(store, op)
  BY DEF IndexInv, Visible, Shows
<1>2. store.network.totalStake = op.totalStaked - op.totalSlashed
  BY <1>1 DEF Orderly, ValueShown
<1> QED
  BY <1>1, <1>2 DEF AccountsShown, QueueShown, SettingsShown, ValueShown, IndexOf, Waiting

\* The subgraph has a Delegation entity for exactly those who hold operator tokens, at
\* all times, and its counts count them; after any transaction, whatever events it made.
THEOREM DelegationsAreAlwaysShown == Spec => []DelegationsShown
  BY IndexInvariant, DelegationsAreShown, PTL

\* What the subgraph shows of an Operator's accounts is what they are: the waiting
\* entries of the queue, the stake, the cut and the voting right.
THEOREM AccountsAreAlwaysShown == Spec => []AccountsShown
  BY IndexInvariant, AccountsAreShown, PTL

\* The subgraph never credits the delegators with more than the operator has earned.
THEOREM EarningsAreAlwaysWithinProfits == Spec => []EarningsWithinProfits
<1>1. IndexInv => EarningsWithinProfits
  BY DEF IndexInv, Visible, Shows, Orderly, EarningsIn, EarningsWithinProfits
<1> QED
  BY <1>1, IndexInvariant, PTL

-----------------------------------------------------------------------------
(* The report of slashings *)

\* The operator tokens after a slashing: only the owner's are burned.
SlashedTokens(a, amount) ==
    LET owned == a.tokens[Owner]
    IN  IF owned = 0 THEN a.tokens
        ELSE [a.tokens EXCEPT ![Owner] = owned - AtMost(TokensForData(a, amount), owned)]

LEMMA SlashSelfDelegationTokens ==
    ASSUME NEW tx, IsTx(tx), tx.op \in Holdings, NEW amount
    PROVE  SlashSelfDelegation(tx, amount).op.tokens = SlashedTokens(tx.op, amount)
<1> DEFINE left == tx.op.tokens[Owner] - AtMost(TokensForData(tx.op, amount), tx.op.tokens[Owner])
           sd == SlashSelfDelegation(tx, amount)
<1>1. sd.op = IF tx.op.tokens[Owner] = 0 THEN tx.op ELSE [tx.op EXCEPT !.tokens[Owner] = left]
  BY SlashSelfDelegationAccounts
<1>2. SlashedTokens(tx.op, amount) =
        IF tx.op.tokens[Owner] = 0 THEN tx.op.tokens ELSE [tx.op.tokens EXCEPT ![Owner] = left]
  BY DEF SlashedTokens
<1> HIDE DEF sd, left
<1>3. "tokens" \in DOMAIN tx.op
  BY DEF Holdings
<1> QED
  BY <1>1, <1>2, <1>3 DEF sd

LEMMA SameTokensAreSlashed ==
    ASSUME NEW a, NEW b, b.tokens = a.tokens, ValueOf(b) = ValueOf(a), NEW amount
    PROVE  SlashedTokens(b, amount) = SlashedTokens(a, amount)
<1>1. Supply(b) = Supply(a)
  BY DEF Supply
<1>2. TokensForData(b, amount) = TokensForData(a, amount)
  BY <1>1 DEF TokensForData
<1> QED
  BY <1>2 DEF SlashedTokens

LEMMA OnSlashTokens ==
    ASSUME NEW tx, Sound(tx), tx.ok, NEW s \in Sponsorships, NEW amount \in Nat \ {0},
           StakesSound(tx.op), s \in tx.op.sponsorships,
           amount <= tx.op.stakedInto[s] - tx.op.slashedIn[s]
    PROVE  OnSlash(tx, s, amount).op.tokens = SlashedTokens(tx.op, amount)
<1> DEFINE sd == SlashSelfDelegation(tx, amount)
           x == sd.op.slashedIn[s] + amount
           y == sd.op.totalSlashed + amount
           t2 == Recorded(sd, s, x, y)
           joined == s \in tx.op.sponsorships
           able == Require(t2, joined)
           after == OperatorValueUpdate(able)
           t == OnSlash(tx, s, amount)
<1>1. t = IF after.ok THEN after ELSE tx
  BY DEF OnSlash, Tried, Recorded
<1>2. tx.op \in Holdings /\ IsTx(tx) /\ ValueOf(tx.op) >= 0
  <2>1. tx.op \in Holdings /\ IsTx(tx)
    BY DEF Sound
  <2>2. ValueOf(tx.op) \in Nat
    BY <2>1, StakeIsPart
  <2> QED
    BY <2>1, <2>2
<1>3. t.op.slashedIn # tx.op.slashedIn
  BY OnSlashRecords
<1>4. IsTx(sd) /\ (sd.ok => sd.op \in Holdings)
  BY <1>2, SlashSelfDelegationIs
<1>5. sd.op.tokens = SlashedTokens(tx.op, amount)
  BY <1>2, SlashSelfDelegationTokens
<1> HIDE DEF sd
<1>6. /\ IsTx(t2) /\ t2.ok = sd.ok
      /\ (sd.op \in Holdings /\ x \in Int /\ y \in Int) => t2.op.tokens = sd.op.tokens
  <2> HIDE DEF x, y
  <2> QED
    BY <1>4, RecordedIs
<1> HIDE DEF t2
<1>7. IsTx(able) /\ able.op = t2.op /\ (able.ok => t2.ok)
  <2> HIDE DEF joined
  <2> QED
    BY <1>6 DEF Require, IsTx
<1> HIDE DEF able, t
<1>8. IsTx(after) /\ after.op = able.op /\ after.ok = able.ok
  BY <1>7, ReportsKeep
<1> HIDE DEF after
<1>9. t = after /\ after.ok
  BY <1>1, <1>3
<1>10. sd.ok /\ sd.op \in Holdings
  BY <1>4, <1>6, <1>7, <1>8, <1>9
<1>11. x \in Int /\ y \in Int
  <2>1. sd.op.slashedIn \in [Sponsorships -> Int] /\ sd.op.totalSlashed \in Int
    BY <1>10 DEF Holdings
  <2>2. sd.op.slashedIn[s] \in Int
    BY <2>1
  <2> QED
    BY <2>1, <2>2
<1> QED
  BY <1>5, <1>6, <1>7, <1>8, <1>9, <1>10, <1>11 DEF t

\* The value after a slashing, and who has lost tokens in it
SlashingPaid(a, b, amount) ==
    /\ ValueOf(b) = ValueOf(a) - amount
    /\ b.tokens = SlashedTokens(a, amount)

LEMMA SlashedInSponsorshipIsPaid ==
    ASSUME StakesInv, NEW s \in DOMAIN stakeAt, NEW amount \in SlashAmounts,
           SlashedInSponsorship(s, amount)
    PROVE  SlashingPaid(op, op', amount) /\ amount <= ValueOf(op)
<1>1. amount \in Nat \ {0} /\ op \in Holdings /\ StakesSound(op) /\ op.balance \in Nat
  BY BoundsAssumption, ValueBefore DEF Holdings
<1>2. /\ s \in Sponsorships /\ s \in op.sponsorships
      /\ stakeAt[s] = op.stakedInto[s] - op.slashedIn[s]
      /\ op.stakedInto[s] \in Int /\ op.slashedIn[s] \in Int
  BY JoinedIs
<1> DEFINE b == Begin(op)
           t == OnSlash(b, s, amount)
<1>3. Sound(b) /\ b.ok /\ b.op = op
  BY <1>1, BeginIs
<1>4. Commit(t) /\ amount <= stakeAt[s]
  BY DEF SlashedInSponsorship
<1> HIDE DEF b
<1>5. SlashesFairly(b.op, t.op, amount) /\ t.op.tokens = SlashedTokens(b.op, amount)
  BY <1>1, <1>2, <1>3, <1>4, OnSlashWorth, OnSlashTokens
<1> HIDE DEF t
<1>6. t.ok /\ op' = t.op
  BY <1>4, CommitIs
<1>7. amount <= ValueOf(op)
  <2>1. ValueOf(op) >= op.balance + op.stakedInto[s] - op.slashedIn[s] /\ ValueOf(op) \in Int
    BY <1>1, <1>2, StakeIsPart, ValueIsInt
  <2> QED
    BY <1>1, <1>2, <1>4, <2>1
<1> QED
  BY <1>3, <1>5, <1>6, <1>7 DEF SlashesFairly, SlashingPaid

LEMMA TotalSlashedTx ==
    ASSUME NEW tx, IsTx(tx), NEW z
    PROVE  LET t == [tx EXCEPT !.op.totalSlashed = z]
           IN  IsTx(t) /\ t.ok = tx.ok /\ t.op = [tx.op EXCEPT !.totalSlashed = z]
  BY DEF IsTx

\* onKick burns at the value without what the Sponsorship has sent.
LEMMA PunishedTokens ==
    ASSUME NEW tx, Sound(tx), tx.ok, NEW amount \in Nat, NEW received \in Nat,
           ValueOf(tx.op) - received >= 0,
           NEW a, a.tokens = tx.op.tokens, ValueOf(a) = ValueOf(tx.op) - received
    PROVE  Punished(tx, amount, received).op.tokens = SlashedTokens(a, amount)
<1> DEFINE x == tx.op.totalSlashed + received
           without == [tx EXCEPT !.op.totalSlashed = x]
           sd == SlashSelfDelegation(without, amount)
           y == sd.op.totalSlashed - received
           burned == [sd EXCEPT !.op.totalSlashed = y]
<1>1. Punished(tx, amount, received) = burned
  BY DEF Punished
<1>2. /\ tx.op \in Holdings /\ IsTx(tx)
      /\ x \in Int /\ tx.op.totalSlashed \in Int /\ tx.op.balance \in Nat
      /\ tx.op.totalStaked \in Int
  <2>1. tx.op \in Holdings /\ IsTx(tx)
    BY DEF Sound
  <2> QED
    BY <2>1, ValueIsInt DEF Holdings
<1>3. IsTx(without) /\ without.ok = tx.ok /\ without.op = [tx.op EXCEPT !.totalSlashed = x]
  <2>1. IsTx(tx)
    BY <1>2
  <2> HIDE DEF x
  <2> QED
    BY <2>1, TotalSlashedTx
<1> HIDE DEF without
<1>4. /\ without.op \in Holdings /\ without.op.tokens = tx.op.tokens
      /\ without.op.balance = tx.op.balance /\ without.op.totalStaked = tx.op.totalStaked
      /\ without.op.totalSlashed = x
  <2> HIDE DEF x
  <2> QED
    BY <1>2, <1>3, NewTotalSlashed
<1>5. ValueOf(without.op) = ValueOf(a) /\ without.op.tokens = a.tokens
  BY <1>2, <1>4 DEF ValueOf
<1>6. sd.op.tokens = SlashedTokens(without.op, amount)
  BY <1>3, <1>4, SlashSelfDelegationTokens
<1>7. SlashedTokens(without.op, amount) = SlashedTokens(a, amount)
  BY <1>5, SameTokensAreSlashed
<1>8. IsTx(sd)
  <2>1. Sound(without) /\ ValueOf(without.op) >= 0
    BY <1>3, <1>4, <1>5 DEF Sound
  <2> QED
    BY <1>3, <2>1, SlashSelfDelegationIs
<1>9. IsTx(sd) /\ DOMAIN sd.op = DOMAIN without.op
  <2>1. sd.op = IF without.op.tokens[Owner] = 0 THEN without.op
                ELSE [without.op EXCEPT !.tokens[Owner] = without.op.tokens[Owner]
                        - AtMost(TokensForData(without.op, amount), without.op.tokens[Owner])]
    BY <1>3, SlashSelfDelegationAccounts
  <2>2. DOMAIN sd.op = DOMAIN without.op
    <3> HIDE DEF sd
    <3> QED
      BY <2>1
  <2> QED
    BY <1>8, <2>2
<1> HIDE DEF sd, y
<1>10. burned.op.tokens = sd.op.tokens
  BY <1>9, <1>4 DEF IsTx, Holdings
<1> QED
  BY <1>1, <1>6, <1>7, <1>10

\* A kick is told with less than the stake: its loss mints nothing.
LEMMA OnKickTokens ==
    ASSUME NEW tx, Sound(tx), tx.ok, NEW s \in Sponsorships,
           NEW slashed \in Nat \ {0}, NEW received \in Nat,
           StakesSound(tx.op), s \in tx.op.sponsorships, received <= tx.op.balance,
           slashed <= tx.op.stakedInto[s] - tx.op.slashedIn[s],
           received < tx.op.stakedInto[s], ValueOf(tx.op) - received >= 0,
           NEW a, a.tokens = tx.op.tokens, ValueOf(a) = ValueOf(tx.op) - received
    PROVE  LET t == OnKick(tx, s, slashed, received)
           IN  /\ t.op.tokens = SlashedTokens(a, slashed)
               /\ ValueOf(t.op) = ValueOf(tx.op) - (tx.op.stakedInto[s] - tx.op.slashedIn[s])
<1> DEFINE burned == Punished(tx, slashed, received)
           joined == s \in tx.op.sponsorships
           able == Require(burned, joined)
           after == SponsorshipRemoved(able, s, received)
           t == OnKick(tx, s, slashed, received)
<1>1. t = Tried(tx, after)
  BY DEF OnKick, Punished
<1>2. burned.op.tokens = SlashedTokens(a, slashed)
  BY PunishedTokens
<1>3. IsTx(burned) /\ (burned.ok => /\ burned.op \in Holdings /\ SameStakes(tx.op, burned.op)
                                    /\ burned.op.balance = tx.op.balance)
  BY PunishedWorth
<1> HIDE DEF burned
<1>4. IsTx(able) /\ able.op = burned.op /\ (able.ok => burned.ok)
  <2> HIDE DEF joined
  <2> QED
    BY <1>3 DEF Require, IsTx
<1> HIDE DEF able, after, t
<1>5. tx.ok => t.op.sponsorships # tx.op.sponsorships
  BY OnKickRemoves DEF t
<1>6. t = after /\ after.ok
  <2>1. Tried(tx, after) # tx
    BY <1>1, <1>5
  <2> QED
    BY <1>1, <2>1, TriedIs
<1>7. able.ok => /\ able.op \in Holdings /\ SameStakes(tx.op, able.op)
                 /\ able.op.balance = tx.op.balance /\ StakesSound(able.op)
  BY <1>3, <1>4, SameStakesAreSound
<1>8. /\ Sound(able)
      /\ able.ok => received <= able.op.balance /\ StakesSound(able.op)
  BY <1>4, <1>7 DEF Sound
<1>9. able.ok
  BY <1>6, <1>8, SponsorshipRemovedIs DEF after
<1>10. received < able.op.stakedInto[s]
  BY <1>7, <1>9 DEF SameStakes
<1>11. /\ t.op.tokens = able.op.tokens
       /\ ValueOf(t.op) = ValueOf(able.op) - (able.op.stakedInto[s] - able.op.slashedIn[s])
  BY <1>6, <1>8, <1>9, <1>10, SponsorshipRemovedWorth DEF after
<1>12. /\ ValueOf(able.op) = ValueOf(tx.op)
       /\ able.op.stakedInto = tx.op.stakedInto /\ able.op.slashedIn = tx.op.slashedIn
  BY <1>7, <1>9 DEF SameStakes, ValueOf
<1> QED
  BY <1>2, <1>4, <1>11, <1>12 DEF t

LEMMA KickedOutIsPaid ==
    ASSUME StakesInv, NEW s \in DOMAIN stakeAt, NEW amount \in SlashAmounts,
           KickedOut(s, amount, NoLosses, 0)
    PROVE  SlashingPaid(op, op', amount) /\ amount <= ValueOf(op)
<1>1. /\ amount \in Nat \ {0} /\ op \in Holdings /\ StakesSound(op)
      /\ op.balance \in Nat /\ ValueOf(op) \in Nat
  BY BoundsAssumption, ValueBefore DEF Holdings
<1>2. /\ s \in Sponsorships /\ s \in op.sponsorships /\ stakeAt[s] \in Nat
      /\ stakeAt[s] = op.stakedInto[s] - op.slashedIn[s]
      /\ op.stakedInto[s] \in Int /\ op.slashedIn[s] \in Int
  BY JoinedIs
<1> DEFINE received == stakeAt[s] - amount - (NoLosses.locked + NoLosses.penalty) + 0
           u == [SlashedBy(Begin(op), s, NoLosses) EXCEPT !.op.balance = @ + received]
           t == OnKick(u, s, amount, received)
<1>3. Commit(t) /\ stakeAt[s] - amount >= NoLosses.locked + NoLosses.penalty
  BY DEF KickedOut
<1>4. NoLosses.locked = 0 /\ NoLosses.penalty = 0
  BY DEF NoLosses
<1>5. received \in Nat /\ received = stakeAt[s] - amount
  BY <1>1, <1>2, <1>3, <1>4
<1> HIDE DEF received
<1>6. SlashedBy(Begin(op), s, NoLosses) = Begin(op)
  BY <1>4 DEF SlashedBy
<1>7. u = With(received)
  BY <1>6 DEF With
<1> HIDE DEF u
<1>8. /\ Sound(u) /\ u.ok /\ SameStakes(op, u.op) /\ u.op.tokens = op.tokens
      /\ u.op.balance = op.balance + received
  BY <1>1, <1>5, <1>7, WithIs
<1>9. /\ StakesSound(u.op) /\ s \in u.op.sponsorships /\ received <= u.op.balance
      /\ u.op.stakedInto = op.stakedInto /\ u.op.slashedIn = op.slashedIn
  BY <1>1, <1>2, <1>5, <1>8, SameStakesAreSound DEF SameStakes
<1>10. ValueOf(u.op) = ValueOf(op) + received
  <2>1. op.totalStaked \in Int /\ op.totalSlashed \in Int
    BY <1>1, ValueIsInt
  <2> QED
    BY <1>1, <1>5, <1>8, <2>1 DEF ValueOf, SameStakes
<1>11. /\ ValueOf(u.op) - received >= 0 /\ ValueOf(op) = ValueOf(u.op) - received
       /\ amount <= u.op.stakedInto[s] - u.op.slashedIn[s]
       /\ received < u.op.stakedInto[s]
  <2>1. 0 <= op.slashedIn[s]
    BY <1>1, <1>2 DEF StakesSound
  <2> QED
    BY <1>1, <1>2, <1>5, <1>9, <1>10, <2>1
<1>12. /\ t.op.tokens = SlashedTokens(op, amount)
       /\ ValueOf(t.op) = ValueOf(u.op) - (u.op.stakedInto[s] - u.op.slashedIn[s])
  BY <1>1, <1>2, <1>5, <1>8, <1>9, <1>11, OnKickTokens
<1> HIDE DEF t
<1>13. t.ok /\ op' = t.op
  BY <1>3, CommitIs
<1>14. ValueOf(op') = ValueOf(op) - amount
  BY <1>1, <1>2, <1>5, <1>9, <1>10, <1>12, <1>13
<1>15. amount <= ValueOf(op)
  <2>1. ValueOf(op) >= op.balance + op.stakedInto[s] - op.slashedIn[s]
    BY <1>1, <1>2, StakeIsPart
  <2> QED
    BY <1>1, <1>2, <1>5, <2>1
<1> QED
  BY <1>12, <1>13, <1>14, <1>15 DEF SlashingPaid

LEMMA SlashingIsPaid ==
    ASSUME StakesInv, NEW s \in DOMAIN stakeAt, NEW amount \in SlashAmounts, Slashing(s, amount)
    PROVE  SlashingPaid(op, op', amount) /\ amount <= ValueOf(op)
  BY SlashedInSponsorshipIsPaid, KickedOutIsPaid DEF Slashing

\* Comparing multiples
LEMMA FewerMultiples ==
    ASSUME NEW x \in Int, NEW y \in Int, NEW d \in Nat \ {0}, d * x < d * y
    PROVE  x < y
<1> SUFFICES ASSUME x >= y PROVE FALSE
  OBVIOUS
<1>1. d * x = d * y + d * (x - y) /\ d * (x - y) >= 0 /\ d * y \in Int
  OBVIOUS
<1> QED
  BY <1>1

\* A share of what is left and one of what is lost make up the share of all, up to one.
LEMMA SharesAddUp ==
    ASSUME NEW x \in Nat, NEW y \in Nat, NEW d \in Nat \ {0}
    PROVE  (x + y) \div d - x \div d - y \div d \in {0, 1}
<1> DEFINE p == (x + y) \div d
           q == x \div d
           r == y \div d
<1>1. /\ p \in Nat /\ d * p <= x + y /\ x + y < d * p + d
      /\ q \in Nat /\ d * q <= x /\ x < d * q + d
      /\ r \in Nat /\ d * r <= y /\ y < d * r + d
  BY QuotientIs
<1> HIDE DEF p, q, r
<1>2. /\ d * (p + 1) = d * p + d /\ d * (q + r) = d * q + d * r
      /\ d * (q + r + 2) = d * q + d * r + d + d
      /\ d * p \in Int /\ d * q \in Int /\ d * r \in Int
  BY <1>1
<1>3. d * p < d * (q + r + 2) /\ d * (q + r) < d * (p + 1)
  BY <1>1, <1>2
<1>4. p < q + r + 2 /\ q + r < p + 1
  BY <1>1, <1>3, FewerMultiples
<1> QED
  BY <1>1, <1>4 DEF p, q, r

\* The share of x among d when a little more of the value is there for fewer: a share a
\* of the tokens left, supply u of d, gains less than a token's worth.
LEMMA ShareRises ==
    ASSUME NEW a \in Nat, NEW u \in Nat \ {0}, a <= u, NEW d \in Nat \ {0},
           NEW v \in Nat, NEW w \in Nat, v * u <= w * d, w * d <= v * u + v
    PROVE  (a * w) \div u - (a * v) \div d \in 0 .. v \div d + 1
<1> DEFINE p == (a * v) \div d
           q == (a * w) \div u
           k == v \div d
           x == a * v
           y == a * w
<1>1. x \in Nat /\ y \in Nat
  OBVIOUS
<1>2. /\ p \in Nat /\ d * p <= x /\ x < d * p + d
      /\ q \in Nat /\ u * q <= y /\ y < u * q + u
      /\ k \in Nat /\ d * k <= v /\ v < d * k + d
  BY <1>1, QuotientIs
<1>3. x * u <= y * d /\ y * d <= x * u + u * v
  <2> DEFINE b == v * u
             c == w * d
  <2>1. b \in Nat /\ c \in Nat /\ b <= c /\ c <= b + v
    OBVIOUS
  <2>2. x * u = a * b /\ y * d = a * c
    OBVIOUS
  <2> HIDE DEF b, c, x, y
  <2>3. a * b <= a * c /\ a * c <= a * (b + v) /\ a * (b + v) = a * b + a * v
    BY <2>1
  <2>4. a * v <= u * v /\ a * v \in Int /\ u * v \in Int /\ a * b \in Int
    BY <2>1
  <2> QED
    BY <2>1, <2>2, <2>3, <2>4
<1> HIDE DEF p, q, k, x, y
<1>4. p <= q
  <2>1. u * (d * p) <= u * x
    BY <1>1, <1>2
  <2>2. d * y < d * (u * q + u)
    BY <1>1, <1>2
  <2>3. /\ u * (d * p) = (u * d) * p /\ d * (u * q + u) = (u * d) * (q + 1)
        /\ u * x = x * u /\ d * y = y * d
    BY <1>1, <1>2
  <2>4. (u * d) * p < (u * d) * (q + 1)
    <3>1. u * x \in Int /\ d * y \in Int /\ (u * d) * p \in Int /\ (u * d) * (q + 1) \in Int
      BY <1>1, <1>2
    <3> QED
      BY <1>3, <2>1, <2>2, <2>3, <3>1
  <2>5. u * d \in Nat \ {0}
    OBVIOUS
  <2>6. p < q + 1
    <3> HIDE DEF p
    <3> QED
      BY <1>2, <2>4, <2>5, FewerMultiples
  <2> QED
    BY <1>2, <2>6
<1>5. q <= p + k + 1
  <2>1. d * (u * q) <= d * y
    BY <1>1, <1>2
  <2>2. u * x < u * (d * p + d) /\ u * v < u * (d * k + d)
    BY <1>1, <1>2
  <2>3. /\ d * (u * q) = (u * d) * q
        /\ u * (d * p + d) + u * (d * k + d) = (u * d) * (p + k + 2)
        /\ u * x = x * u /\ d * y = y * d
    BY <1>1, <1>2
  <2>4. (u * d) * q < (u * d) * (p + k + 2)
    <3>1. /\ u * x \in Int /\ u * v \in Int /\ d * y \in Int /\ (u * d) * q \in Int
          /\ u * (d * p + d) \in Int /\ u * (d * k + d) \in Int
      BY <1>1, <1>2
    <3> QED
      BY <1>3, <2>1, <2>2, <2>3, <3>1
  <2>5. u * d \in Nat \ {0}
    OBVIOUS
  <2>6. q < p + k + 2
    BY <1>2, <2>4, <2>5, FewerMultiples
  <2> QED
    BY <1>2, <2>6
<1> QED
  BY <1>2, <1>4, <1>5 DEF p, q, k, x, y

\* All share alike: the report is a share of what was lost, the loss a difference of shares.
LEMMA ShareOfAllIsLost ==
    ASSUME NEW v \in Nat, NEW s \in Nat \ {0}, NEW m \in Nat, m <= v, NEW a \in Nat
    PROVE  DividedBy(m * a, s) - ((a * v) \div s - (a * (v - m)) \div s) \in -1 .. 0
<1> DEFINE x == a * (v - m)
           y == m * a
<1>1. v - m \in Nat /\ x \in Nat /\ y \in Nat /\ a * v = x + y
  <2>1. v - m \in Nat /\ x \in Nat /\ y \in Nat
    OBVIOUS
  <2>2. x = a * v - a * m /\ y = a * m
    OBVIOUS
  <2> QED
    BY <2>1, <2>2
<1>2. DividedBy(y, s) = y \div s
  BY <1>1 DEF DividedBy
<1> HIDE DEF x, y
<1>3. (x + y) \div s - x \div s - y \div s \in {0, 1}
  BY <1>1, SharesAddUp
<1>4. (x + y) \div s \in Nat /\ x \div s \in Nat /\ y \div s \in Nat
  BY <1>1, QuotientIsNat
<1>5. DividedBy(y, s) - ((a * v) \div s - x \div s) \in -1 .. 0
  BY <1>1, <1>2, <1>3, <1>4
<1> QED
  BY <1>5 DEF x, y

\* What is burned for m: no less than m is worth, and less than one token more.
BurnedFor(m, v, s, b) == m * s <= b * v /\ b * v < m * s + v

LEMMA ValueLeft ==
    ASSUME NEW v \in Nat, NEW s \in Nat, NEW m \in Nat, m <= v, NEW b \in Nat, b <= s,
           BurnedFor(m, v, s, b)
    PROVE  v * (s - b) <= (v - m) * s /\ (v - m) * s <= v * (s - b) + v
<1>1. v * (s - b) = v * s - b * v /\ (v - m) * s = v * s - m * s
  OBVIOUS
<1>2. v * s \in Int /\ b * v \in Int /\ m * s \in Int
  OBVIOUS
<1> QED
  BY <1>1, <1>2 DEF BurnedFor

\* The owner keeps some tokens: the others lose nothing ...
LEMMA OthersKeepTheirs ==
    ASSUME NEW v \in Nat, NEW s \in Nat \ {0}, NEW m \in Nat, m <= v, NEW b \in Nat, b < s,
           BurnedFor(m, v, s, b), NEW a \in Nat, a <= s - b
    PROVE  (a * (v - m)) \div (s - b) - (a * v) \div s \in 0 .. v \div s + 1
<1>1. s - b \in Nat \ {0} /\ v - m \in Nat
  OBVIOUS
<1>2. v * (s - b) <= (v - m) * s /\ (v - m) * s <= v * (s - b) + v
  BY ValueLeft
<1> QED
  BY <1>1, <1>2, ShareRises

\* ... and the owner what was slashed.
LEMMA OwnerLosesAmount ==
    ASSUME NEW v \in Nat, NEW s \in Nat \ {0}, NEW m \in Nat, m <= v, NEW b \in Nat, b < s,
           BurnedFor(m, v, s, b), NEW o \in Nat, b <= o, o <= s
    PROVE  m - ((o * v) \div s - ((o - b) * (v - m)) \div (s - b)) \in
               -(v \div s + 1) .. v \div s + 1
<1> DEFINE a == o - b
           x == a * v
           y == b * v
           k == v \div s
           q == (a * (v - m)) \div (s - b)
           p2 == x \div s
           c == y \div s
           p == (o * v) \div s
<1>1. a \in Nat /\ a <= s - b /\ x \in Nat /\ y \in Nat /\ o * v = x + y
  <2>1. a \in Nat /\ a <= s - b /\ x \in Nat /\ y \in Nat
    OBVIOUS
  <2>2. x = o * v - b * v
    OBVIOUS
  <2> QED
    BY <2>1, <2>2
<1> HIDE DEF a
<1>2. q - p2 \in 0 .. k + 1
  BY <1>1, OthersKeepTheirs
<1>3. k \in Nat /\ s * k <= v /\ v < s * k + s
  BY QuotientIs
<1>4. p2 \in Nat /\ c \in Nat /\ s * c <= y /\ y < s * c + s
  <2> HIDE DEF x, y
  <2> QED
    BY <1>1, QuotientIs
<1>5. p - p2 - c \in {0, 1}
  <2> HIDE DEF x, y
  <2> QED
    BY <1>1, SharesAddUp
<1>6. m * s <= y /\ y < m * s + v
  BY DEF BurnedFor
<1>7. v - m \in Nat /\ s - b \in Nat \ {0}
  OBVIOUS
<1>8. a * (v - m) \in Nat
  BY <1>1, <1>7
<1>9. q \in Nat
  BY <1>7, <1>8, QuotientIsNat
<1>10. p \in Nat
  <2>1. o * v \in Nat
    OBVIOUS
  <2> QED
    BY <2>1, QuotientIsNat
<1> HIDE DEF x, y, k, q, p2, c, p
<1>11. m <= c
  <2>1. s * m < s * (c + 1)
    <3>1. s * m = m * s /\ s * (c + 1) = s * c + s /\ s * c \in Int /\ m * s \in Int
      BY <1>4
    <3> QED
      BY <1>1, <1>4, <1>6, <3>1
  <2>2. m < c + 1
    BY <1>4, <2>1, FewerMultiples
  <2> QED
    BY <1>4, <2>2
<1>12. c <= m + k
  <2>1. s * c < s * (m + k + 1)
    <3>1. /\ s * (m + k + 1) = m * s + s * k + s
          /\ s * c \in Int /\ m * s \in Int /\ s * k \in Int
      BY <1>3, <1>4
    <3> QED
      BY <1>1, <1>3, <1>4, <1>6, <3>1
  <2>2. c < m + k + 1
    BY <1>3, <1>4, <2>1, FewerMultiples
  <2> QED
    BY <1>3, <1>4, <2>2
<1>13. m - (p - q) \in -(k + 1) .. k + 1
  BY <1>2, <1>3, <1>4, <1>5, <1>9, <1>10, <1>11, <1>12
<1> QED
  BY <1>13 DEF a, k, q, p

\* Division towards zero is off by less than one either way.
LEMMA DividedByIs ==
    ASSUME NEW z \in Int, NEW d \in Nat \ {0}, NEW e \in Int,
           d * (e - 1) < z, z < d * (e + 2)
    PROVE  DividedBy(z, d) - e \in -2 .. 2
<1>1. CASE z >= 0
  <2> DEFINE r == z \div d
  <2>1. z \in Nat
    BY <1>1
  <2>2. r \in Nat /\ d * r <= z /\ z < d * r + d
    BY <2>1, QuotientIs
  <2>3. DividedBy(z, d) = r
    BY <1>1 DEF DividedBy
  <2> HIDE DEF r
  <2>4. d * (r + 1) = d * r + d /\ d * r \in Int /\ d * (e - 1) \in Int /\ d * (e + 2) \in Int
    BY <2>2
  <2>5. d * (e - 1) < d * (r + 1) /\ d * r < d * (e + 2)
    BY <2>2, <2>4
  <2>6. e - 1 < r + 1 /\ r < e + 2
    BY <2>2, <2>5, FewerMultiples
  <2> QED
    BY <2>2, <2>3, <2>6
<1>2. CASE z < 0
  <2> DEFINE y == -z
             r == y \div d
  <2>1. y \in Nat
    BY <1>2
  <2>2. r \in Nat /\ d * r <= y /\ y < d * r + d
    <3> HIDE DEF y
    <3> QED
      BY <2>1, QuotientIs
  <2>3. DividedBy(z, d) = -r
    BY <1>2 DEF DividedBy
  <2> HIDE DEF r
  <2>4. /\ d * (-r) = -(d * r) /\ d * (-r - 1) = -(d * r) - d
        /\ d * r \in Int /\ d * (e - 1) \in Int /\ d * (e + 2) \in Int
    BY <2>2
  <2>5. d * (e - 1) < d * (-r) /\ d * (-r - 1) < d * (e + 2)
    BY <2>2, <2>4
  <2>6. e - 1 < -r /\ -r - 1 < e + 2
    <3>1. -r \in Int /\ -r - 1 \in Int /\ e - 1 \in Int /\ e + 2 \in Int
      BY <2>2
    <3> QED
      BY <2>5, <3>1, FewerMultiples
  <2> QED
    BY <2>2, <2>3, <2>6
<1> QED
  BY <1>1, <1>2

\* The owner loses all tokens: what these were not worth is lost by the others.
LEMMA OthersLoseTheRest ==
    ASSUME NEW v \in Nat, NEW s \in Nat \ {0}, NEW m \in Nat, m <= v, NEW o \in Nat, o < s,
           NEW a \in Nat, a <= s - o
    PROVE  DividedBy((m - (o * v) \div s) * a, s - o)
             - ((a * v) \div s - (a * (v - m)) \div (s - o)) \in -2 .. 2
<1> DEFINE u == s - o
           x == a * v
           y == a * (v - m)
           g == o * v
           w == g \div s
           p == x \div s
           q == y \div u
           z == (m - w) * a
<1>1. u \in Nat \ {0} /\ x \in Nat /\ y \in Nat /\ g \in Nat /\ a <= u
  <2>1. v - m \in Nat
    OBVIOUS
  <2> QED
    BY <2>1
<1>2. /\ w \in Nat /\ s * w <= g /\ g < s * w + s
      /\ p \in Nat /\ s * p <= x /\ x < s * p + s
      /\ q \in Nat /\ u * q <= y /\ y < u * q + u
  <2> HIDE DEF u, x, y, g
  <2> QED
    BY <1>1, QuotientIs
<1>3. x - y = a * m
  <2>1. y = a * v - a * m
    OBVIOUS
  <2> QED
    BY <2>1
<1>4. x * u = s * x - a * g
  <2>1. x * u = x * s - x * o
    BY <1>1
  <2>2. x * o = a * g /\ x * s = s * x
    BY <1>1
  <2> QED
    BY <2>1, <2>2
<1> HIDE DEF w
<1>5. z \in Int /\ s * z = s * x - s * y - a * (s * w)
  <2>1. z = a * m - a * w /\ a * m \in Int /\ a * w \in Int
    BY <1>2
  <2>2. z = x - y - a * w
    <3> HIDE DEF z, x, y
    <3> QED
      BY <1>1, <1>3, <2>1
  <2>3. s * (a * w) = a * (s * w)
    BY <1>2
  <2>4. s * (x - y - a * w) = s * x - s * y - s * (a * w)
    <3> HIDE DEF x, y
    <3> QED
      BY <1>1, <2>1
  <2> QED
    BY <2>1, <2>2, <2>3, <2>4
<1> HIDE DEF u, x, y, g, p, q, z
<1>6. a * (s * w) <= a * g /\ a * g <= a * (s * w) + a * s
  <2> DEFINE h == s * w
  <2>1. h \in Nat /\ h <= g /\ g <= h + s
    BY <1>1, <1>2
  <2> HIDE DEF h
  <2>2. a * h <= a * g /\ a * g <= a * (h + s) /\ a * (h + s) = a * h + a * s
    BY <1>1, <2>1
  <2> QED
    BY <2>2 DEF h
<1>7. u * (s * p) <= x * u /\ x * u < u * (s * p) + u * s
  <2> DEFINE h == s * p
  <2>1. h \in Nat /\ h <= x /\ x < h + s
    BY <1>1, <1>2
  <2> HIDE DEF h
  <2>2. u * h <= x * u
    BY <1>1, <2>1
  <2>3. x * u < u * (h + s) /\ u * (h + s) = u * h + u * s
    BY <1>1, <2>1
  <2> QED
    BY <2>2, <2>3 DEF h
<1>8. s * (u * q) <= s * y /\ s * y < s * (u * q) + s * u
  <2> DEFINE h == u * q
  <2>1. h \in Nat /\ h <= y /\ y < h + u
    BY <1>1, <1>2
  <2> HIDE DEF h
  <2>2. s * h <= s * y
    BY <1>1, <2>1
  <2>3. s * y < s * (h + u) /\ s * (h + u) = s * h + s * u
    BY <1>1, <2>1
  <2> QED
    BY <2>2, <2>3 DEF h
<1>9. a * s <= u * s
  BY <1>1
<1> DEFINE e == p - q
           U == u * s
<1>10. U \in Nat \ {0} /\ e \in Int
  BY <1>1, <1>2
<1>11. /\ u * (s * p) = U * p /\ s * (u * q) = U * q /\ s * u = U
       /\ s * (u * (e - 1)) = U * p - U * q - U
       /\ s * (u * (e + 2)) = U * p - U * q + U + U
  <2>1. u * (s * p) = U * p /\ s * (u * q) = U * q /\ s * u = U
    BY <1>1, <1>2
  <2>2. s * (u * (e - 1)) = U * (e - 1) /\ s * (u * (e + 2)) = U * (e + 2)
    <3> HIDE DEF e
    <3> QED
      BY <1>1, <1>10
  <2>3. U * (e - 1) = U * p - U * q - U /\ U * (e + 2) = U * p - U * q + U + U
    <3> HIDE DEF U
    <3> QED
      BY <1>2, <1>10
  <2> QED
    BY <2>1, <2>2, <2>3
<1>12. /\ s * x \in Int /\ s * y \in Int /\ a * g \in Int /\ a * (s * w) \in Int /\ a * s \in Int
       /\ x * u \in Int /\ U * p \in Int /\ U * q \in Int
  <2>1. s * w \in Int
    BY <1>2
  <2> HIDE DEF U
  <2> QED
    BY <1>1, <1>2, <1>10, <2>1
<1> HIDE DEF e, U
<1>13. s * (u * (e - 1)) < s * z /\ s * z < s * (u * (e + 2))
  <2>1. s * z = x * u + a * g - s * y - a * (s * w)
    BY <1>4, <1>5, <1>12
  <2>2. x * u - s * y <= s * z /\ s * z <= x * u + a * s - s * y
    BY <1>6, <1>12, <2>1
  <2>3. a * s <= U
    BY <1>9 DEF U
  <2>4. u * (s * p) = U * p /\ u * s = U
    BY <1>11 DEF U
  <2>5. U * p <= x * u /\ x * u < U * p + U
    BY <1>7, <2>4
  <2>6. U * q <= s * y /\ s * y < U * q + U
    BY <1>8, <1>11
  <2>7. U * p - U * q - U < s * z /\ s * z < U * p - U * q + U + U
    <3>1. U \in Int /\ s * z \in Int
      BY <1>1, <1>5, <1>10
    <3> QED
      BY <1>12, <2>2, <2>3, <2>5, <2>6, <3>1
  <2> QED
    BY <1>11, <2>7
<1>14. u * (e - 1) < z /\ z < u * (e + 2)
  <2>1. u * (e - 1) \in Int /\ u * (e + 2) \in Int
    BY <1>1, <1>10
  <2> QED
    BY <1>5, <1>13, <2>1, FewerMultiples
<1>15. DividedBy(z, u) - e \in -2 .. 2
  BY <1>1, <1>5, <1>10, <1>14, DividedByIs
<1> QED
  BY <1>15 DEF z, u, e, p, q, w, x, y, g

LEMMA BurnedFits ==
    ASSUME NEW a \in Holdings, NEW x \in Nat \ {0}, x <= ValueOf(a), Supply(a) > 0
    PROVE  /\ TokensForData(a, x) \in Nat \ {0}
           /\ BurnedFor(x, ValueOf(a), Supply(a), TokensForData(a, x))
<1> DEFINE S == Supply(a)
           V == ValueOf(a)
           b == TokensForData(a, x)
           n == x * S
           y == n + V - 1
<1>1. S \in Nat \ {0} /\ V \in Int
  BY SupplyIsNat, ValueIsInt
<1>2. V \in Nat \ {0} /\ x \in Nat \ {0}
  BY <1>1
<1>3. b = y \div V
  BY <1>2 DEF TokensForData
<1> HIDE DEF S, V
<1>4. n \in Nat \ {0}
  BY <1>1, <1>2
<1>5. y \in Nat
  BY <1>2, <1>4
<1> HIDE DEF y, n
<1>6. b \in Nat /\ V * b <= y /\ y < V * b + V
  BY <1>2, <1>3, <1>5, QuotientIs
<1> HIDE DEF b
<1>7. V * b = b * V /\ V * b \in Nat
  BY <1>2, <1>6
<1>8. n <= b * V /\ b * V < n + V
  BY <1>2, <1>4, <1>6, <1>7 DEF y
<1>9. b # 0
  <2>1. b = 0 => b * V = 0
    BY <1>2
  <2> QED
    BY <1>4, <1>8, <2>1
<1> QED
  BY <1>6, <1>8, <1>9 DEF BurnedFor, b, n, S, V

\* What a snapshot shows of the operator tokens
ShowsTokens(snapshot, a) ==
    /\ DOMAIN snapshot.delegations = {h \in Holders : a.tokens[h] > 0}
    /\ \A h \in Holders : a.tokens[h] > 0
                           => snapshot.delegations[h].operatorTokenBalanceWei = a.tokens[h]

LEMMA TokensAreIn ==
    ASSUME NEW a \in Holdings, NEW snapshot, ShowsTokens(snapshot, a), NEW h \in Holders
    PROVE  TokensIn(snapshot, h) = a.tokens[h] /\ a.tokens[h] \in Nat
<1>1. a.tokens[h] \in Nat
  BY DEF Holdings
<1>2. CASE a.tokens[h] > 0
  BY <1>1, <1>2 DEF ShowsTokens, TokensIn
<1>3. CASE ~(a.tokens[h] > 0)
  BY <1>1, <1>3 DEF ShowsTokens, TokensIn
<1> QED
  BY <1>2, <1>3

\* Tokens of nobody, or of nothing, are worth nothing; otherwise a share.
LEMMA WorthIs ==
    ASSUME NEW a \in Holdings, NEW h \in Holders
    PROVE  /\ Supply(a) = 0 => Worth(a, h) = 0
           /\ Supply(a) > 0 => Worth(a, h) = (a.tokens[h] * ValueOf(a)) \div Supply(a)
  BY SupplyIsNat DEF Worth, TokensToData

LEMMA NothingIsWorthNothing ==
    ASSUME NEW a \in Holdings, NEW h \in Holders, a.tokens[h] = 0
    PROVE  Worth(a, h) = 0
<1>1. Supply(a) \in Nat /\ ValueOf(a) \in Int
  BY SupplyIsNat, ValueIsInt
<1>2. CASE Supply(a) = 0
  BY <1>2, WorthIs
<1>3. CASE Supply(a) > 0
  <2>1. Worth(a, h) = (0 * ValueOf(a)) \div Supply(a)
    BY <1>3, WorthIs
  <2>2. 0 * ValueOf(a) = 0
    BY <1>1
  <2> DEFINE d == Supply(a)
  <2>3. d \in Nat \ {0}
    BY <1>1, <1>3
  <2> HIDE DEF d
  <2>4. 0 \div d = 0
    <3> DEFINE q == 0 \div d
    <3>1. q \in Nat /\ d * q <= 0
      BY <2>3, QuotientIs
    <3> HIDE DEF q
    <3>2. q = 0
      <4> SUFFICES ASSUME q > 0 PROVE FALSE
        BY <3>1
      <4>1. d * q > 0
        BY <2>3, <3>1
      <4> QED
        BY <3>1, <4>1, <2>3
    <3> QED
      BY <3>2 DEF q
  <2> QED
    BY <2>1, <2>2, <2>4 DEF d
<1> QED
  BY <1>1, <1>2, <1>3

\* How many tokens the owner has left, and the others as many as before
LEMMA SlashedSupply ==
    ASSUME NEW a \in Holdings, NEW b \in Holdings, NEW amount \in Nat \ {0},
           amount <= ValueOf(a), b.tokens = SlashedTokens(a, amount)
    PROVE  LET o == a.tokens[Owner]
               needed == TokensForData(a, amount)
           IN  /\ o \in Nat /\ o <= Supply(a) /\ Owner \in Holders
               /\ \A h \in Holders \ {Owner} : b.tokens[h] = a.tokens[h]
               /\ Supply(b) = Supply(a) - o + b.tokens[Owner]
               /\ o = 0 => b.tokens = a.tokens
               /\ o > 0 => /\ needed \in Nat \ {0}
                           /\ BurnedFor(amount, ValueOf(a), Supply(a), needed)
                           /\ b.tokens[Owner] = o - AtMost(needed, o)
<1> DEFINE o == a.tokens[Owner]
           needed == TokensForData(a, amount)
<1>1. o \in Nat /\ o <= Supply(a) /\ Supply(a) \in Nat /\ Owner \in Holders
  BY SupplyIsNat, OperatorAssumption DEF Holdings
<1>2. a.tokens \in [Holders -> Nat]
  BY DEF Holdings
<1>3. \A h \in Holders \ {Owner} : b.tokens[h] = a.tokens[h]
  BY <1>2 DEF SlashedTokens
<1>4. Supply(b) = Supply(a) - o + b.tokens[Owner]
  BY <1>1, <1>3, SupplyChanges
<1>5. o = 0 => b.tokens = a.tokens
  BY DEF SlashedTokens
<1>6. o > 0 => /\ needed \in Nat \ {0}
               /\ BurnedFor(amount, ValueOf(a), Supply(a), needed)
  BY <1>1, BurnedFits
<1>7. o > 0 => b.tokens[Owner] = o - AtMost(needed, o)
  BY <1>1, <1>2 DEF SlashedTokens
<1> QED
  BY <1>1, <1>3, <1>4, <1>5, <1>6, <1>7

\* What the others hold
LEMMA HeldByOthers ==
    ASSUME NEW a \in Holdings, NEW snapshot, ShowsTokens(snapshot, a)
    PROVE  LET others == DOMAIN snapshot.delegations \ {Owner}
           IN  SumFunctionOnSet([h \in others |-> TokensIn(snapshot, h)], others)
                 = Supply(a) - a.tokens[Owner]
<1> DEFINE others == DOMAIN snapshot.delegations \ {Owner}
           rest == Holders \ {Owner}
           f == a.tokens
           g == [h \in others |-> TokensIn(snapshot, h)]
<1>1. /\ f \in [Holders -> Nat] /\ DOMAIN f = Holders /\ IsFiniteSet(Holders)
      /\ Owner \in Holders
  BY OperatorAssumption DEF Holdings
<1>2. others = {h \in rest : f[h] > 0}
  BY DEF ShowsTokens
<1>3. \A h \in others : g[h] = f[h]
  BY <1>2, TokensAreIn
<1> HIDE DEF others, g
<1>4. IsFiniteSet(rest) /\ others \in SUBSET rest
  BY <1>1, <1>2, FS_Subset
<1>5. IsFiniteSet(others)
  BY <1>4, FS_Subset
<1> HIDE DEF rest, f
<1>6. \A h \in rest : f[h] \in Int
  BY <1>1 DEF rest
<1>7. \A h \in rest \ others : f[h] = 0
  BY <1>1, <1>2 DEF rest
<1>8. SumFunctionOnSet(f, rest) = SumFunctionOnSet(f, others)
  BY <1>4, <1>6, <1>7, SumIgnoresZeros
<1>9. \A h \in others : f[h] \in Int /\ f[h] = g[h]
  BY <1>3, <1>4, <1>6
<1>10. SumFunctionOnSet(f, others) = SumFunctionOnSet(g, others)
  BY <1>5, <1>9, SumsEqual
<1>11. \A h \in Holders : f[h] \in Int
  BY <1>1
<1>12. /\ SumFunctionOnSet(f, Holders) = f[Owner] + SumFunctionOnSet(f, rest)
       /\ SumFunctionOnSet(f, Holders) \in Int /\ f[Owner] \in Int
  BY <1>1, <1>11, SumTakes DEF rest
<1>13. SumFunctionOnSet(f, rest) \in Int
  BY <1>4, <1>6, SumTakes
<1>14. Supply(a) = SumFunctionOnSet(f, Holders)
  BY <1>1, SumOverDomain DEF Supply, f
<1>15. SumFunctionOnSet(g, others) = Supply(a) - f[Owner]
  BY <1>8, <1>10, <1>12, <1>13, <1>14
<1> QED
  BY <1>15 DEF f, g, others

\* Whom a snapshot after a slashing shows with fewer tokens
LEMMA OnlyOwnerIsSlashed ==
    ASSUME NEW a \in Holdings, NEW b \in Holdings, NEW amount \in Nat \ {0},
           amount <= ValueOf(a), b.tokens = SlashedTokens(a, amount),
           NEW before, NEW after, ShowsTokens(before, a), ShowsTokens(after, b)
    PROVE  {h \in DOMAIN before.delegations : TokensIn(after, h) < TokensIn(before, h)}
             = IF a.tokens[Owner] = 0 THEN {} ELSE {Owner}
<1> DEFINE o == a.tokens[Owner]
           needed == TokensForData(a, amount)
<1>1. DOMAIN before.delegations = {h \in Holders : a.tokens[h] > 0}
  BY DEF ShowsTokens
<1>2. \A h \in Holders : /\ TokensIn(before, h) = a.tokens[h] /\ a.tokens[h] \in Nat
                         /\ TokensIn(after, h) = b.tokens[h] /\ b.tokens[h] \in Nat
  BY TokensAreIn
<1>3. /\ o \in Nat /\ Owner \in Holders
      /\ \A h \in Holders \ {Owner} : b.tokens[h] = a.tokens[h]
      /\ o = 0 => b.tokens = a.tokens
      /\ o > 0 => needed \in Nat \ {0} /\ b.tokens[Owner] = o - AtMost(needed, o)
  BY SlashedSupply
<1>4. CASE o = 0
  BY <1>1, <1>2, <1>3, <1>4
<1>5. CASE o > 0
  <2>1. b.tokens[Owner] < o
    BY <1>3, <1>5 DEF AtMost
  <2> QED
    BY <1>1, <1>2, <1>3, <1>5, <2>1
<1> QED
  BY <1>3, <1>4, <1>5

\* Nobody was slashed: the report is everyone's share.
LEMMA AllShareIsLost ==
    ASSUME NEW a \in Holdings, NEW b \in Holdings, NEW amount \in Nat \ {0},
           amount <= ValueOf(a), SlashingPaid(a, b, amount), a.tokens[Owner] = 0,
           NEW before, NEW after, ShowsTokens(before, a),
           before.operatorTokenTotalSupplyWei = Supply(a), NEW h \in Holders
    PROVE  Reported(ProRataOfAll(before, after, amount), h)
             - (Worth(a, h) - Worth(b, h)) \in -2 .. 2
<1> DEFINE x == a.tokens[h]
           S == Supply(a)
           V == ValueOf(a)
           rows == ProRataOfAll(before, after, amount)
<1>1. x \in Nat /\ x <= S /\ S \in Nat /\ V \in Nat /\ amount \in Nat /\ amount <= V
  <2>1. x \in Nat
    BY DEF Holdings
  <2>2. V \in Int
    BY ValueIsInt
  <2> QED
    BY <2>1, <2>2, SupplyIsNat
<1>2. b.tokens = a.tokens /\ ValueOf(b) = V - amount
  BY SlashedSupply DEF SlashingPaid
<1>3. Supply(b) = S
  BY <1>2 DEF Supply
<1>4. CASE x = 0
  <2>1. Reported(rows, h) = 0
    BY <1>4 DEF Reported, ProRataOfAll, ShowsTokens
  <2>2. Worth(a, h) = 0 /\ Worth(b, h) = 0
    BY <1>2, <1>4, NothingIsWorthNothing
  <2> QED
    BY <2>1, <2>2
<1>5. CASE x > 0
  <2>1. S \in Nat \ {0}
    BY <1>1, <1>5
  <2>2. Reported(rows, h) = DividedBy(amount * x, S)
    <3>1. h \in DOMAIN before.delegations /\ TokensIn(before, h) = x
      BY <1>5, TokensAreIn DEF ShowsTokens
    <3> QED
      BY <3>1 DEF Reported, ProRataOfAll
  <2>3. Worth(a, h) = (x * V) \div S /\ Worth(b, h) = (x * (V - amount)) \div S
    BY <1>1, <1>2, <1>3, <1>5, WorthIs
  <2> HIDE DEF x, S, V, rows
  <2>4. DividedBy(amount * x, S) - ((x * V) \div S - (x * (V - amount)) \div S) \in -1 .. 0
    BY <1>1, <2>1, ShareOfAllIsLost
  <2>5. Reported(rows, h) - (Worth(a, h) - Worth(b, h)) \in -1 .. 0
    BY <2>2, <2>3, <2>4
  <2> QED
    BY <2>5 DEF rows
<1> QED
  BY <1>1, <1>4, <1>5

\* The owner keeps tokens: all of the loss is its own.
LEMMA AmountIsLost ==
    ASSUME NEW a \in Holdings, NEW b \in Holdings, NEW amount \in Nat \ {0},
           amount <= ValueOf(a), SlashingPaid(a, b, amount), a.tokens[Owner] > 0,
           b.tokens[Owner] > 0, NEW h \in Holders
    PROVE  Reported([g \in {Owner} |-> amount], h) - (Worth(a, h) - Worth(b, h)) \in
               -(ValueOf(a) \div Supply(a) + 1) .. ValueOf(a) \div Supply(a) + 1
<1> DEFINE x == a.tokens[h]
           o == a.tokens[Owner]
           S == Supply(a)
           V == ValueOf(a)
           n == TokensForData(a, amount)
           k == V \div S
<1>1. /\ x \in Nat /\ x <= S /\ V \in Nat /\ amount \in Nat /\ amount <= V
      /\ b.tokens[h] \in Nat /\ b.tokens[h] <= Supply(b) /\ b.tokens[Owner] \in Nat
      /\ b.tokens[Owner] <= Supply(b)
  <2>1. x \in Nat /\ b.tokens[h] \in Nat /\ b.tokens[Owner] \in Nat /\ Owner \in Holders
    BY OperatorAssumption DEF Holdings
  <2>2. V \in Int
    BY ValueIsInt
  <2> QED
    BY <2>1, <2>2, SupplyIsNat
<1>2. /\ o \in Nat /\ o <= S /\ S \in Nat
      /\ \A g \in Holders \ {Owner} : b.tokens[g] = a.tokens[g]
      /\ Supply(b) = S - o + b.tokens[Owner]
      /\ n \in Nat \ {0} /\ BurnedFor(amount, V, S, n)
      /\ b.tokens[Owner] = o - AtMost(n, o) /\ ValueOf(b) = V - amount
  BY SlashedSupply, SupplyIsNat DEF SlashingPaid
<1>3. n < o /\ b.tokens[Owner] = o - n
  BY <1>2 DEF AtMost
<1>4. Supply(b) = S - n /\ S \in Nat \ {0} /\ n \in Nat /\ n < S
  BY <1>2, <1>3
<1>5. /\ Worth(a, h) = (x * V) \div S
      /\ Worth(b, h) = (b.tokens[h] * (V - amount)) \div (S - n)
  BY <1>1, <1>2, <1>4, WorthIs
<1>6. k \in Nat
  BY <1>1, <1>4, QuotientIsNat
<1> DEFINE p == Worth(a, h)
           q == Worth(b, h)
<1>7. p \in Int /\ q \in Int
  <2>1. V - amount \in Nat /\ S - n \in Nat \ {0}
    BY <1>1, <1>4
  <2>2. x * V \in Nat /\ b.tokens[h] * (V - amount) \in Nat
    BY <1>1, <2>1
  <2> QED
    BY <1>4, <1>5, <2>1, <2>2, QuotientIsNat
<1> HIDE DEF x, o, S, V, n, k
<1>8. CASE h = Owner
  <2>1. amount - ((o * V) \div S - ((o - n) * (V - amount)) \div (S - n)) \in -(k + 1) .. k + 1
    <3>1. /\ V \in Nat /\ S \in Nat \ {0} /\ amount \in Nat /\ amount <= V /\ n \in Nat /\ n < S
          /\ BurnedFor(amount, V, S, n) /\ o \in Nat /\ n <= o /\ o <= S
      BY <1>1, <1>2, <1>3, <1>4
    <3> QED
      BY <3>1, OwnerLosesAmount DEF k
  <2>2. x = o /\ b.tokens[h] = o - n
    BY <1>3, <1>8 DEF x, o
  <2>3. Reported([g \in {Owner} |-> amount], h) = amount
    BY <1>8 DEF Reported
  <2> QED
    BY <1>5, <2>1, <2>2, <2>3 DEF k, S, V
<1>9. CASE h # Owner
  <2>1. b.tokens[h] = x
    BY <1>2, <1>9 DEF x
  <2>2. (x * (V - amount)) \div (S - n) - (x * V) \div S \in 0 .. k + 1
    BY <1>1, <1>2, <1>4, <2>1, OthersKeepTheirs DEF k
  <2>3. Reported([g \in {Owner} |-> amount], h) = 0
    BY <1>9 DEF Reported
  <2>4. q - p \in 0 .. k + 1
    BY <1>5, <2>1, <2>2
  <2>5. 0 - (p - q) \in -(k + 1) .. k + 1
    <3> HIDE DEF p, q
    <3> QED
      BY <1>6, <1>7, <2>4
  <2> QED
    BY <2>3, <2>5 DEF k, S, V
<1> QED
  BY <1>8, <1>9

\* The owner loses all tokens, and the others what these were not worth.
LEMMA RestIsLost ==
    ASSUME NEW a \in Holdings, NEW b \in Holdings, NEW amount \in Nat \ {0},
           amount <= ValueOf(a), SlashingPaid(a, b, amount), a.tokens[Owner] > 0,
           b.tokens[Owner] = 0, NEW before, NEW after, ShowsTokens(before, a),
           ShowsTokens(after, b), before.exchangeRate = <<ValueOf(a), Supply(a)>>, NEW h \in Holders
    PROVE  Reported(OwnerFirst(before, after, amount), h) - (Worth(a, h) - Worth(b, h)) \in -2 .. 2
<1> DEFINE x == a.tokens[h]
           o == a.tokens[Owner]
           S == Supply(a)
           V == ValueOf(a)
           w == (o * V) \div S
           rows == OwnerFirst(before, after, amount)
           others == DOMAIN before.delegations \ {Owner}
           held == SumFunctionOnSet([g \in others |-> TokensIn(before, g)], others)
           lost == Mul(TokensIn(before, Owner) - TokensIn(after, Owner), before.exchangeRate)
<1>1. /\ x \in Nat /\ x <= S /\ V \in Nat /\ amount \in Nat /\ amount <= V
      /\ b.tokens[h] \in Nat /\ b.tokens[h] <= Supply(b) /\ Supply(b) \in Nat /\ Owner \in Holders
  <2>1. x \in Nat /\ b.tokens[h] \in Nat /\ Owner \in Holders
    BY OperatorAssumption DEF Holdings
  <2>2. V \in Int
    BY ValueIsInt
  <2> QED
    BY <2>1, <2>2, SupplyIsNat
<1>2. /\ o \in Nat \ {0} /\ o <= S /\ S \in Nat
      /\ \A g \in Holders \ {Owner} : b.tokens[g] = a.tokens[g]
      /\ Supply(b) = S - o + b.tokens[Owner] /\ ValueOf(b) = V - amount
  BY SlashedSupply, SupplyIsNat DEF SlashingPaid
<1>3. Supply(b) = S - o /\ S \in Nat \ {0}
  BY <1>2
<1>4. /\ DOMAIN before.delegations = {g \in Holders : a.tokens[g] > 0}
      /\ TokensIn(before, h) = x /\ TokensIn(before, Owner) = o
      /\ TokensIn(after, Owner) = 0
  BY <1>1, TokensAreIn DEF ShowsTokens
<1>5. held = S - o
  BY HeldByOthers
<1>6. lost = w
  <2>1. before.exchangeRate[1] = V /\ before.exchangeRate[2] = S
    OBVIOUS
  <2>2. lost = ((o - 0) * V) \div S
    BY <1>4, <2>1 DEF Mul
  <2>3. (o - 0) * V = o * V
    BY <1>2
  <2> QED
    BY <2>2, <2>3
<1>7. rows = [g \in DOMAIN before.delegations |->
                IF g = Owner THEN w
                ELSE DividedBy((amount - w) * TokensIn(before, g), S - o)]
  <2> HIDE DEF held, lost, w
  <2>1. rows = IF TokensIn(after, Owner) > 0
               THEN [g \in {Owner} |-> amount]
               ELSE [g \in DOMAIN before.delegations |->
                       IF g = Owner THEN lost
                       ELSE DividedBy((amount - lost) * TokensIn(before, g), held)]
    BY DEF OwnerFirst, held, lost
  <2> QED
    BY <1>4, <1>5, <1>6, <2>1
<1>8. Worth(a, h) = (x * V) \div S
  BY <1>3, WorthIs
<1>9. CASE h = Owner
  <2>1. h \in DOMAIN before.delegations
    BY <1>2, <1>4, <1>9
  <2>2. Reported(rows, h) = w
    <3> HIDE DEF rows, w
    <3> QED
      BY <1>7, <1>9, <2>1 DEF Reported
  <2>3. Worth(b, h) = 0
    BY <1>9, NothingIsWorthNothing
  <2>4. Worth(a, h) = w
    BY <1>8, <1>9
  <2>5. w \in Nat
    <3>1. o * V \in Nat
      BY <1>1, <1>2
    <3> QED
      BY <1>3, <3>1, QuotientIsNat
  <2> HIDE DEF w, rows
  <2>6. Reported(rows, h) - (Worth(a, h) - Worth(b, h)) \in -2 .. 2
    BY <2>2, <2>3, <2>4, <2>5
  <2> QED
    BY <2>6 DEF rows
<1>10. CASE h # Owner /\ x = 0
  <2>1. h \notin DOMAIN before.delegations
    BY <1>4, <1>10
  <2>2. Reported(rows, h) = 0
    <3> HIDE DEF rows, w
    <3> QED
      BY <1>7, <2>1 DEF Reported
  <2>3. b.tokens[h] = 0
    BY <1>2, <1>10
  <2>4. Worth(a, h) = 0 /\ Worth(b, h) = 0
    BY <1>10, <2>3, NothingIsWorthNothing
  <2> HIDE DEF rows
  <2>5. Reported(rows, h) - (Worth(a, h) - Worth(b, h)) \in -2 .. 2
    BY <2>2, <2>4
  <2> QED
    BY <2>5 DEF rows
<1>11. CASE h # Owner /\ x # 0
  <2>1. b.tokens[h] = x /\ x <= S - o
    BY <1>1, <1>2, <1>3, <1>11
  <2>2. o < S /\ Supply(b) > 0
    BY <1>1, <1>2, <1>3, <1>11, <2>1
  <2>3. Worth(b, h) = (x * (V - amount)) \div (S - o)
    BY <1>2, <1>3, <2>1, <2>2, WorthIs
  <2>4. h \in DOMAIN before.delegations
    BY <1>1, <1>4, <1>11
  <2>5. Reported(rows, h) = DividedBy((amount - w) * x, S - o)
    <3> HIDE DEF rows, w
    <3> QED
      BY <1>4, <1>7, <1>11, <2>4 DEF Reported
  <2> HIDE DEF x, o, S, V
  <2>6. DividedBy((amount - w) * x, S - o)
          - ((x * V) \div S - (x * (V - amount)) \div (S - o)) \in -2 .. 2
    <3>1. /\ V \in Nat /\ S \in Nat \ {0} /\ amount \in Nat /\ amount <= V /\ o \in Nat /\ o < S
          /\ x \in Nat /\ x <= S - o
      BY <1>1, <1>2, <1>3, <2>1, <2>2
    <3> QED
      BY <3>1, OthersLoseTheRest
  <2> HIDE DEF rows, w
  <2>7. Reported(rows, h) - (Worth(a, h) - Worth(b, h)) \in -2 .. 2
    BY <1>8, <2>3, <2>5, <2>6
  <2> QED
    BY <2>7 DEF rows
<1> QED
  BY <1>9, <1>10, <1>11

\* The report is right about every delegator, up to a token's worth and rounding.
LEMMA SplitIsLost ==
    ASSUME NEW a \in Holdings, NEW b \in Holdings, NEW amount \in Nat \ {0},
           amount <= ValueOf(a), SlashingPaid(a, b, amount),
           NEW before, NEW after, ShowsTokens(before, a), ShowsTokens(after, b),
           before.operatorTokenTotalSupplyWei = Supply(a),
           before.exchangeRate = <<ValueOf(a), Supply(a)>>, NEW h \in Holders
    PROVE  Reported(SplitSlashing(before, after, amount), h) - (Worth(a, h) - Worth(b, h)) \in
               -(TokensToData(a, 1) + 2) .. TokensToData(a, 1) + 2
<1> DEFINE k == TokensToData(a, 1)
           o == a.tokens[Owner]
           lost == Worth(a, h) - Worth(b, h)
           rows == SplitSlashing(before, after, amount)
           slashed == {g \in DOMAIN before.delegations : TokensIn(after, g) < TokensIn(before, g)}
<1>1. ValueOf(a) \in Nat /\ o \in Nat /\ b.tokens[Owner] \in Nat
  <2>1. ValueOf(a) \in Int
    BY ValueIsInt
  <2>2. o \in Nat /\ b.tokens[Owner] \in Nat
    BY OperatorAssumption DEF Holdings
  <2> QED
    BY <2>1, <2>2
<1>2. k \in Nat
  BY <1>1, ConversionsAreNat
<1>3. slashed = IF o = 0 THEN {} ELSE {Owner}
  BY OnlyOwnerIsSlashed DEF SlashingPaid
<1>4. rows = CASE slashed = {}      -> ProRataOfAll(before, after, amount)
               [] slashed = {Owner} -> OwnerFirst(before, after, amount)
               [] OTHER             -> <<>>
  BY DEF SplitSlashing
<1> HIDE DEF rows, slashed
<1>5. rows = IF o = 0 THEN ProRataOfAll(before, after, amount)
             ELSE OwnerFirst(before, after, amount)
  <2>1. {Owner} # {}
    OBVIOUS
  <2> QED
    BY <1>3, <1>4, <2>1
<1>6. -2 .. 2 \subseteq -(k + 2) .. k + 2
  BY <1>2
<1>7. CASE o = 0
  <2>1. Reported(ProRataOfAll(before, after, amount), h) - lost \in -2 .. 2
    BY <1>7, AllShareIsLost
  <2> HIDE DEF k, lost
  <2> QED
    BY <1>5, <1>6, <1>7, <2>1 DEF k, lost, rows
<1>8. CASE o # 0 /\ b.tokens[Owner] = 0
  <2>1. Reported(OwnerFirst(before, after, amount), h) - lost \in -2 .. 2
    BY <1>1, <1>8, RestIsLost
  <2> HIDE DEF k, lost
  <2> QED
    BY <1>5, <1>6, <1>8, <2>1 DEF k, lost, rows
<1>9. CASE o # 0 /\ b.tokens[Owner] # 0
  <2>1. o > 0 /\ b.tokens[Owner] > 0
    BY <1>1, <1>9
  <2>2. TokensIn(after, Owner) > 0
    BY <2>1, TokensAreIn, OperatorAssumption
  <2>3. OwnerFirst(before, after, amount) = [g \in {Owner} |-> amount]
    BY <2>2 DEF OwnerFirst
  <2>4. /\ k = ValueOf(a) \div Supply(a)
    <3>1. Supply(a) \in Nat /\ Supply(a) # 0
      BY <1>1, <2>1, SupplyIsNat, OperatorAssumption
    <3> QED
      BY <1>1, <3>1 DEF TokensToData
  <2>5. Reported([g \in {Owner} |-> amount], h) - lost \in -(k + 1) .. k + 1
    BY <2>1, <2>4, AmountIsLost
  <2>6. -(k + 1) .. k + 1 \subseteq -(k + 2) .. k + 2
    BY <1>2
  <2> HIDE DEF k, lost
  <2>7. Reported(rows, h) - lost \in -(k + 2) .. k + 2
    BY <1>5, <1>9, <2>3, <2>5, <2>6
  <2> QED
    BY <2>7 DEF k, lost, rows
<1> QED
  BY <1>7, <1>8, <1>9

LEMMA VisibleTokens == IndexInv => /\ ShowsTokens(store, op)
                                   /\ store.operatorTokenTotalSupplyWei = Supply(op)
                                   /\ op \in Holdings
<1> SUFFICES ASSUME IndexInv
             PROVE  /\ ShowsTokens(store, op)
                    /\ store.operatorTokenTotalSupplyWei = Supply(op)
                    /\ op \in Holdings
  OBVIOUS
<1>1. DelegationsShown /\ op \in Holdings
  BY DelegationsAreShown DEF IndexInv, StakesInv
<1> QED
  BY <1>1 DEF DelegationsShown, HoldersNow, ShowsTokens

\* What the report of a slashing says each delegator has lost is what the contract
\* took: the DATA its operator tokens were worth before and are not any more.
THEOREM LossesAreAlwaysReported == Spec => LossesAreReported
<1>1. ASSUME IndexInv, IndexInv',
             store.exchangeRate = <<ValueOf(op), Supply(op)>>,
             NEW s \in DOMAIN stakeAt, NEW amount \in SlashAmounts, Slashing(s, amount),
             NEW h \in Holders
      PROVE  Reported(SplitSlashing(store, store', amount), h) - Lost(h) \in -Tolerance .. Tolerance
  <2>1. /\ ShowsTokens(store, op) /\ store.operatorTokenTotalSupplyWei = Supply(op)
        /\ op \in Holdings
    BY <1>1, VisibleTokens
  <2>2. ShowsTokens(store', op') /\ op' \in Holdings
    <3>1. (ShowsTokens(store, op) /\ op \in Holdings)'
      BY <1>1, VisibleTokens, PTL
    <3> QED
      BY <3>1 DEF ShowsTokens, Holdings
  <2>3. SlashingPaid(op, op', amount) /\ amount <= ValueOf(op)
    BY <1>1, SlashingIsPaid DEF IndexInv
  <2>4. amount \in Nat \ {0}
    BY BoundsAssumption
  <2>5. Reported(SplitSlashing(store, store', amount), h) - (Worth(op, h) - Worth(op', h)) \in
          -(TokensToData(op, 1) + 2) .. TokensToData(op, 1) + 2
    BY <1>1, <2>1, <2>2, <2>3, <2>4, SplitIsLost
  <2> QED
    BY <2>5 DEF Lost, Tolerance
<1>2. ASSUME IndexInv, IndexInv'
      PROVE  [(stakeAt' # stakeAt /\ store.exchangeRate = <<ValueOf(op), Supply(op)>>)
               => \A s \in DOMAIN stakeAt, amount \in SlashAmounts :
                    Slashing(s, amount)
                     => LET rows == SplitSlashing(store, store', amount)
                        IN  \A h \in Holders :
                              Reported(rows, h) - Lost(h) \in -Tolerance .. Tolerance]_vars
  BY <1>1, <1>2
<1> QED
  BY <1>2, IndexInvariant, PTL DEF LossesAreReported

=============================================================================
