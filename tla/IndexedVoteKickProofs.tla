------------------------ MODULE IndexedVoteKickProofs ------------------------
(***************************************************************************)
(* The subgraph's view of a Sponsorship, for any operators, voters,        *)
(* configurations and amounts: after every transaction the entities show   *)
(* the stakes and locks, the totals, the configuration, and every flag     *)
(* with its reviewers and votes.                                           *)
(***************************************************************************)
EXTENDS IndexedVoteKick, VoteKickProofs, SequenceTheorems, FunctionTheorems

-----------------------------------------------------------------------------
(* The store after a transaction's log *)

\* The store after the first k events is iter[1 .. k].
IsReading(st, log, n, iter) ==
    iter[{}] = st /\ \A k \in 1 .. n : iter[1 .. k] = Index!Handle(iter[1 .. k - 1], log[k])

\* The events of a log are handled one after the other.
LEMMA LogIsRead ==
    ASSUME NEW st, NEW log, NEW n \in Nat, DOMAIN log = 1 .. n
    PROVE  \E iter : /\ IsReading(st, log, n, iter)
                     /\ Index!HandleAll(st, log) = iter[1 .. n]
<1> DEFINE Step(h, s) == IF s = {} THEN st ELSE Index!Handle(h[s \ {Max(s)}], log[Max(s)])
           RunTo(h, k) == [s \in SUBSET (1 .. k) |-> Step(h, s)]
           iter == CHOOSE h : h = RunTo(h, n)
<1>1. Index!HandleAll(st, log) = iter[1 .. n]
  BY DEF Index!HandleAll, Index!FoldLeft, Index!MapThenFoldSet, Index!Max, Max
<1>2. \E h : h = RunTo(h, n)
  <2> DEFINE T == {k \in 1 .. n + 1 : \E h : h = RunTo(h, k - 1)}
  <2>1. 1 \in T
    <3> DEFINE g == [s \in SUBSET (1 .. 1 - 1) |-> st]
    <3>1. \A s \in SUBSET (1 .. 1 - 1) : s = {}
      OBVIOUS
    <3>2. g = RunTo(g, 1 - 1)
      BY <3>1
    <3>3. 1 \in 1 .. n + 1
      OBVIOUS
    <3> HIDE DEF RunTo
    <3> QED
      BY <3>2, <3>3
  <2>2. ASSUME NEW k \in 1 .. n + 1, k < n + 1, k \in T
        PROVE  k + 1 \in T
    <3>1. PICK g : g = RunTo(g, k - 1)
      <4> HIDE DEF RunTo
      <4> QED
        BY <2>2
    <3> DEFINE h == [s \in SUBSET (1 .. k) |->
                       IF k \in s THEN Index!Handle(g[s \ {k}], log[k]) ELSE g[s]]
    <3>2. \A s \in SUBSET (1 .. k - 1) : g[s] = Step(g, s)
      <4> HIDE DEF Step
      <4> QED
        BY <3>1
    <3>3. ASSUME NEW s \in SUBSET (1 .. k)
          PROVE  h[s] = Step(h, s)
      <4>1. CASE k \in s
        <5>1. Max(s) = k
          <6>1. s \in SUBSET Int /\ \A x \in s : x <= k
            OBVIOUS
          <6> QED
            BY <6>1, <4>1, MaxIs
        <5>2. h[s \ {k}] = g[s \ {k}]
          OBVIOUS
        <5> QED
          BY <4>1, <5>1, <5>2
      <4>2. CASE k \notin s
        <5>1. s \in SUBSET (1 .. k - 1)
          BY <4>2
        <5>2. h[s] = g[s] /\ h[s \ {Max(s)}] = g[s \ {Max(s)}]
          BY <4>2
        <5> HIDE DEF h
        <5> QED
          BY <3>2, <5>1, <5>2
      <4> QED
        BY <4>1, <4>2
    <3> HIDE DEF Step
    <3>4. h = RunTo(h, k)
      BY <3>3
    <3>5. (k + 1) - 1 = k /\ k + 1 \in 1 .. n + 1
      BY <2>2
    <3> HIDE DEF RunTo
    <3> QED
      BY <3>4, <3>5
  <2> HIDE DEF RunTo
  <2>3. n + 1 \in T
    <3> HIDE DEF T
    <3>1. n + 1 \in Nat /\ n + 1 \in 1 .. n + 1
      OBVIOUS
    <3>2. 1 .. n + 1 \subseteq T
      BY <2>1, <2>2, <3>1, IntervalInduction
    <3> QED
      BY <3>1, <3>2
  <2>4. (n + 1) - 1 = n
    OBVIOUS
  <2> QED
    BY <2>3, <2>4
<1>3. iter = RunTo(iter, n)
  <2> HIDE DEF RunTo
  <2> QED
    BY <1>2
<1> HIDE DEF iter
<1>4. \A s \in SUBSET (1 .. n) : iter[s] = Step(iter, s)
  <2> HIDE DEF Step
  <2> QED
    BY <1>3
<1>5. iter[{}] = st
  BY <1>4
<1>6. ASSUME NEW k \in 1 .. n
      PROVE  iter[1 .. k] = Index!Handle(iter[1 .. k - 1], log[k])
  <2>1. Max(1 .. k) = k /\ (1 .. k) \ {k} = 1 .. k - 1 /\ 1 .. k # {}
    <3>1. k \in Nat /\ k > 0
      OBVIOUS
    <3> QED
      BY <3>1, LastOfInterval
  <2>2. 1 .. k \in SUBSET (1 .. n)
    OBVIOUS
  <2> QED
    BY <1>4, <2>1, <2>2
<1> HIDE DEF Step, RunTo
<1> QED
  BY <1>1, <1>5, <1>6 DEF IsReading

LEMMA NothingToHandle ==
    ASSUME NEW st
    PROVE  Index!HandleAll(st, <<>>) = st
<1>1. DOMAIN <<>> = 1 .. 0 /\ 0 \in Nat /\ 1 .. 0 = {}
  OBVIOUS
<1>2. PICK iter : IsReading(st, <<>>, 0, iter) /\ Index!HandleAll(st, <<>>) = iter[1 .. 0]
  BY <1>1, LogIsRead
<1> QED
  BY <1>1, <1>2 DEF IsReading

LEMMA OneToHandle ==
    ASSUME NEW st, NEW e
    PROVE  Index!HandleAll(st, <<e>>) = Index!Handle(st, e)
<1>1. /\ DOMAIN <<e>> = 1 .. 1 /\ 1 \in Nat /\ 1 .. 0 = {} /\ 1 - 1 = 0
      /\ <<e>>[1] = e /\ 1 \in 1 .. 1
  OBVIOUS
<1>2. PICK iter : IsReading(st, <<e>>, 1, iter) /\ Index!HandleAll(st, <<e>>) = iter[1 .. 1]
  BY <1>1, LogIsRead
<1>3. iter[1 .. 0] = st
  BY <1>1, <1>2 DEF IsReading
<1>4. iter[1 .. 1] = Index!Handle(iter[1 .. 0], e)
  BY <1>1, <1>2 DEF IsReading
<1> QED
  BY <1>2, <1>3, <1>4

\* A log that follows another.
LEMMA LogsAreReadInTurn ==
    ASSUME NEW st, NEW E, NEW a \in Seq(E), NEW b \in Seq(E)
    PROVE  Index!HandleAll(st, a \o b) = Index!HandleAll(Index!HandleAll(st, a), b)
<1> DEFINE n == Len(a)
           m == Len(b)
           both == a \o b
           middle == Index!HandleAll(st, a)
<1>1. /\ n \in Nat /\ m \in Nat /\ DOMAIN a = 1 .. n /\ DOMAIN b = 1 .. m
      /\ both \in Seq(E) /\ Len(both) = n + m /\ DOMAIN both = 1 .. n + m
      /\ \A i \in 1 .. n : both[i] = a[i]
      /\ \A i \in 1 .. m : both[n + i] = b[i]
  <2>1. /\ both \in Seq(E) /\ Len(both) = n + m
        /\ \A i \in 1 .. n + m : both[i] = IF i <= n THEN a[i] ELSE b[i - n]
    BY ConcatProperties
  <2>2. \A i \in 1 .. n : i \in 1 .. n + m /\ i <= n
    OBVIOUS
  <2>3. \A i \in 1 .. m : n + i \in 1 .. n + m /\ ~(n + i <= n) /\ (n + i) - n = i
    OBVIOUS
  <2> HIDE DEF both
  <2> QED
    BY <2>1, <2>2, <2>3
<1> HIDE DEF n, m, both
<1>2. PICK f : IsReading(st, a, n, f) /\ Index!HandleAll(st, a) = f[1 .. n]
  <2>1. n \in Nat /\ DOMAIN a = 1 .. n
    BY <1>1
  <2> QED
    BY <2>1, LogIsRead
<1> HIDE DEF middle
<1>3. PICK g : IsReading(middle, b, m, g) /\ Index!HandleAll(middle, b) = g[1 .. m]
  <2>1. m \in Nat /\ DOMAIN b = 1 .. m
    BY <1>1
  <2> QED
    BY <2>1, LogIsRead
<1>4. n + m \in Nat
  BY <1>1
<1>5. PICK h : IsReading(st, both, n + m, h) /\ Index!HandleAll(st, both) = h[1 .. n + m]
  BY <1>1, <1>4, LogIsRead
<1>6. 1 .. 0 = {} /\ 1 - 1 = 0
  OBVIOUS
<1> DEFINE First == {k \in 1 .. n : h[1 .. k] = f[1 .. k]}
           Second == {k \in 1 .. m : h[1 .. n + k] = g[1 .. k]}
<1>7. h[1 .. n] = middle
  <2>1. \A k \in 1 .. n : h[1 .. k - 1] = f[1 .. k - 1] => h[1 .. k] = f[1 .. k]
    <3> SUFFICES ASSUME NEW k \in 1 .. n, h[1 .. k - 1] = f[1 .. k - 1]
                 PROVE  h[1 .. k] = f[1 .. k]
      OBVIOUS
    <3>1. k \in 1 .. n + m
      BY <1>1
    <3>2. h[1 .. k] = Index!Handle(h[1 .. k - 1], a[k])
      BY <1>1, <1>5, <3>1 DEF IsReading
    <3>3. f[1 .. k] = Index!Handle(f[1 .. k - 1], a[k])
      BY <1>2 DEF IsReading
    <3> QED
      BY <3>2, <3>3
  <2>2. h[{}] = f[{}]
    BY <1>2, <1>5 DEF IsReading
  <2>3. CASE n = 0
    BY <1>2, <1>6, <2>2, <2>3 DEF middle
  <2>4. CASE n > 0
    <3>1. 1 \in First
      <4>1. 1 \in 1 .. n
        BY <1>1, <2>4
      <4> QED
        BY <1>6, <2>1, <2>2, <4>1
    <3>2. ASSUME NEW i \in 1 .. n, i < n, i \in First
          PROVE  i + 1 \in First
      <4>1. i + 1 \in 1 .. n /\ (i + 1) - 1 = i
        BY <1>1, <3>2
      <4> QED
        BY <2>1, <3>2, <4>1
    <3> HIDE DEF First
    <3>3. 1 .. n \subseteq First
      BY <1>1, <3>1, <3>2, IntervalInduction
    <3>4. n \in First
      BY <1>1, <2>4, <3>3
    <3> QED
      BY <1>2, <3>4 DEF First, middle
  <2> QED
    BY <1>1, <2>3, <2>4
<1>8. h[1 .. n + m] = g[1 .. m]
  <2>1. \A k \in 1 .. m : h[1 .. n + (k - 1)] = g[1 .. k - 1] => h[1 .. n + k] = g[1 .. k]
    <3> SUFFICES ASSUME NEW k \in 1 .. m, h[1 .. n + (k - 1)] = g[1 .. k - 1]
                 PROVE  h[1 .. n + k] = g[1 .. k]
      OBVIOUS
    <3>1. n + k \in 1 .. n + m /\ (n + k) - 1 = n + (k - 1)
      BY <1>1
    <3>2. h[1 .. n + k] = Index!Handle(h[1 .. (n + k) - 1], both[n + k])
      BY <1>5, <3>1 DEF IsReading
    <3>3. h[1 .. n + k] = Index!Handle(h[1 .. n + (k - 1)], b[k])
      BY <1>1, <3>1, <3>2
    <3>4. g[1 .. k] = Index!Handle(g[1 .. k - 1], b[k])
      BY <1>3 DEF IsReading
    <3> QED
      BY <3>3, <3>4
  <2>2. g[{}] = middle /\ n + 0 = n
    BY <1>1, <1>3 DEF IsReading
  <2>3. CASE m = 0
    BY <1>6, <1>7, <2>2, <2>3
  <2>4. CASE m > 0
    <3>1. 1 \in Second
      <4>1. 1 \in 1 .. m /\ n + (1 - 1) = n
        BY <1>1, <2>4
      <4> QED
        BY <1>6, <1>7, <2>1, <2>2, <4>1
    <3>2. ASSUME NEW i \in 1 .. m, i < m, i \in Second
          PROVE  i + 1 \in Second
      <4>1. i + 1 \in 1 .. m /\ (i + 1) - 1 = i
        BY <1>1, <3>2
      <4> QED
        BY <2>1, <3>2, <4>1
    <3> HIDE DEF Second
    <3>3. 1 .. m \subseteq Second
      BY <1>1, <3>1, <3>2, IntervalInduction
    <3>4. m \in Second
      BY <1>1, <2>4, <3>3
    <3> QED
      BY <3>4 DEF Second
  <2> QED
    BY <1>1, <2>3, <2>4
<1> QED
  BY <1>3, <1>5, <1>8 DEF both, middle

\* A log of whatever events
IsLog(log) == \E E : log \in Seq(E)

\* One log after the other, of whatever events
LEMMA LogsInTurn ==
    ASSUME NEW st, NEW a, NEW b, IsLog(a), IsLog(b)
    PROVE  /\ Index!HandleAll(st, a \o b) = Index!HandleAll(Index!HandleAll(st, a), b)
           /\ IsLog(a \o b)
<1>1. PICK A : a \in Seq(A)
  BY DEF IsLog
<1>2. PICK B : b \in Seq(B)
  BY DEF IsLog
<1> DEFINE E == A \cup B
<1>3. a \in Seq(E) /\ b \in Seq(E)
  BY <1>1, <1>2
<1> HIDE DEF E
<1>4. Index!HandleAll(st, a \o b) = Index!HandleAll(Index!HandleAll(st, a), b)
  BY <1>3, LogsAreReadInTurn
<1>5. a \o b \in Seq(E)
  BY <1>3, ConcatProperties
<1> QED
  BY <1>4, <1>5 DEF IsLog

\* The events that are numbered from 1 to n
LEMMA NumberedIsLog ==
    ASSUME NEW n \in Nat, NEW f, f = [i \in 1 .. n |-> f[i]]
    PROVE  IsLog(f)
<1>1. f \in Seq({f[i] : i \in 1 .. n})
  OBVIOUS
<1> QED
  BY <1>1 DEF IsLog

-----------------------------------------------------------------------------
(* What the events of a log change *)

StoreFields ==
    {"stakes", "network", "totalStakedWei", "operatorCount", "cumulativeSponsoring",
     "flags", "votes"}

StakeFields == {"amountWei", "lockedWei", "minimumStakeWei"}

IsStore(st) ==
    /\ DOMAIN st = StoreFields
    /\ DOMAIN st.flags = Operators
    /\ DOMAIN st.stakes \subseteq Operators
    /\ \A o \in DOMAIN st.stakes : DOMAIN st.stakes[o] = StakeFields

SameStake(st, u, o) ==
    /\ o \in DOMAIN u.stakes <=> o \in DOMAIN st.stakes
    /\ o \in DOMAIN st.stakes => u.stakes[o] = st.stakes[o]

\* Of the store, at most these fields change, and of the stakes those of P.
OnlyThese(st, u, fields, P) ==
    /\ IsStore(u)
    /\ \A field \in StoreFields \ fields : u[field] = st[field]
    /\ \A o \in Operators \ P : SameStake(st, u, o)

\* A log whose events change nothing else, whatever the store.
Writes(log, fields, P) ==
    /\ IsLog(log)
    /\ \A st : IsStore(st) => OnlyThese(st, Index!HandleAll(st, log), fields, P)

LEMMA NothingIsWritten ==
    ASSUME NEW fields, NEW P
    PROVE  Writes(<<>>, fields, P)
<1>1. IsLog(<<>>)
  <2>1. <<>> \in Seq({})
    OBVIOUS
  <2> QED
    BY <2>1 DEF IsLog
<1>2. ASSUME NEW st, IsStore(st)
      PROVE  OnlyThese(st, Index!HandleAll(st, <<>>), fields, P)
  <2>1. Index!HandleAll(st, <<>>) = st
    BY NothingToHandle
  <2> QED
    BY <1>2, <2>1 DEF OnlyThese, SameStake
<1> QED
  BY <1>1, <1>2 DEF Writes

LEMMA ChangesInTurn ==
    ASSUME NEW st, NEW u, NEW w, NEW fields, NEW P, NEW others, NEW Q,
           OnlyThese(st, u, fields, P), OnlyThese(u, w, others, Q)
    PROVE  OnlyThese(st, w, fields \cup others, P \cup Q)
<1>1. \A o \in Operators \ (P \cup Q) : SameStake(st, w, o)
  BY DEF OnlyThese, SameStake
<1> QED
  BY <1>1 DEF OnlyThese

LEMMA WritesInTurn ==
    ASSUME NEW a, NEW b, NEW fields, NEW P, NEW others, NEW Q,
           Writes(a, fields, P), Writes(b, others, Q)
    PROVE  Writes(a \o b, fields \cup others, P \cup Q)
<1>1. IsLog(a \o b)
  BY LogsInTurn DEF Writes
<1>2. ASSUME NEW st, IsStore(st)
      PROVE  OnlyThese(st, Index!HandleAll(st, a \o b), fields \cup others, P \cup Q)
  <2> DEFINE u == Index!HandleAll(st, a)
             w == Index!HandleAll(u, b)
  <2>1. Index!HandleAll(st, a \o b) = w
    BY LogsInTurn DEF Writes
  <2>2. OnlyThese(st, u, fields, P)
    BY <1>2 DEF Writes
  <2>3. OnlyThese(u, w, others, Q)
    <3> HIDE DEF u
    <3> QED
      BY <2>2 DEF Writes, OnlyThese
  <2> HIDE DEF u, w
  <2> QED
    BY <2>1, <2>2, <2>3, ChangesInTurn
<1> QED
  BY <1>1, <1>2 DEF Writes

LEMMA WritesMore ==
    ASSUME NEW log, NEW fields, NEW P, NEW others, NEW Q, Writes(log, fields, P),
           fields \subseteq others, P \subseteq Q
    PROVE  Writes(log, others, Q)
<1>1. ASSUME NEW st, IsStore(st)
      PROVE  OnlyThese(st, Index!HandleAll(st, log), others, Q)
  BY <1>1 DEF Writes, OnlyThese
<1> QED
  BY <1>1 DEF Writes

LEMMA OneIsLog ==
    ASSUME NEW e
    PROVE  IsLog(<<e>>)
<1>1. <<e>> \in Seq({e})
  OBVIOUS
<1> QED
  BY <1>1 DEF IsLog

LEMMA OneIsWritten ==
    ASSUME NEW e, NEW fields, NEW P,
           \A st : IsStore(st) => OnlyThese(st, Index!Handle(st, e), fields, P)
    PROVE  Writes(<<e>>, fields, P)
  BY OneIsLog, OneToHandle DEF Writes

LEMMA WritesWhen ==
    ASSUME NEW e, NEW fields, NEW P, Writes(<<e>>, fields, P), NEW condition \in BOOLEAN
    PROVE  Writes(When(condition, e), fields, P)
<1>1. CASE condition
  BY <1>1 DEF When
<1>2. CASE ~condition
  BY <1>2, NothingIsWritten DEF When
<1> QED
  BY <1>1, <1>2

-----------------------------------------------------------------------------
(* The handlers *)

\* The Stake entity of the operator, as loadOrCreateStake finds it.
StakeEntity(st, o) == Index!Entity(st.stakes, o, Index!NewStake)

LEMMA SavedStake ==
    ASSUME NEW st, IsStore(st), NEW o \in Operators, NEW stake, DOMAIN stake = StakeFields
    PROVE  LET u == [st EXCEPT !.stakes = Index!Save(@, o, stake)]
           IN  /\ OnlyThese(st, u, {"stakes"}, {o})
               /\ o \in DOMAIN u.stakes /\ u.stakes[o] = stake
<1> DEFINE saved == Index!Save(st.stakes, o, stake)
           u == [st EXCEPT !.stakes = Index!Save(@, o, stake)]
<1>1. /\ DOMAIN u = StoreFields /\ u.stakes = saved
      /\ \A field \in StoreFields \ {"stakes"} : u[field] = st[field]
  BY DEF IsStore, StoreFields
<1>2. /\ DOMAIN saved = DOMAIN st.stakes \cup {o}
      /\ saved[o] = stake
      /\ \A q \in DOMAIN st.stakes \ {o} : saved[q] = st.stakes[q]
  BY DEF Index!Save
<1> HIDE DEF u, saved
<1>3. u.flags = st.flags
  BY <1>1 DEF StoreFields
<1>4. IsStore(u)
  BY <1>1, <1>2, <1>3 DEF IsStore
<1>5. \A q \in Operators \ {o} : SameStake(st, u, q)
  BY <1>1, <1>2 DEF SameStake
<1> QED
  BY <1>1, <1>2, <1>4, <1>5 DEF OnlyThese, u

LEMMA EntityIs ==
    ASSUME NEW st, IsStore(st), NEW o \in Operators
    PROVE  /\ DOMAIN StakeEntity(st, o) = StakeFields
           /\ o \in DOMAIN st.stakes => StakeEntity(st, o) = st.stakes[o]
<1>1. DOMAIN Index!NewStake = StakeFields
  BY DEF Index!NewStake, StakeFields
<1> QED
  BY <1>1 DEF StakeEntity, Index!Entity, IsStore

\* StakeUpdate: the entity is gone with the stake.
LEMMA StakeUpdateHandled ==
    ASSUME NEW st, IsStore(st), NEW o \in Operators, NEW stake \in Int, NEW e,
           e.name = "StakeUpdate", e.operator = o, e.stakedWei = stake
    PROVE  LET u == Index!Handle(st, e)
           IN  /\ OnlyThese(st, u, {"stakes"}, {o})
               /\ stake = 0 => o \notin DOMAIN u.stakes
               /\ stake # 0 => /\ o \in DOMAIN u.stakes
                               /\ u.stakes[o].amountWei = stake
                               /\ u.stakes[o].lockedWei = StakeEntity(st, o).lockedWei
<1> DEFINE u == Index!Handle(st, e)
           entity == StakeEntity(st, o)
           less == Index!Without(st.stakes, o)
           more == [entity EXCEPT !.amountWei = stake]
<1>1. u = Index!HandleStakeUpdated(st, e)
  BY DEF Index!Handle
<1>2. CASE stake = 0
  <2>1. u = [st EXCEPT !.stakes = less]
    BY <1>1, <1>2 DEF Index!HandleStakeUpdated
  <2>2. /\ DOMAIN less = DOMAIN st.stakes \ {o}
        /\ \A q \in DOMAIN less : less[q] = st.stakes[q]
    BY DEF Index!Without
  <2> HIDE DEF u, less
  <2>3. /\ DOMAIN u = StoreFields /\ u.stakes = less
        /\ \A field \in StoreFields \ {"stakes"} : u[field] = st[field]
    BY <2>1 DEF IsStore, StoreFields
  <2>4. u.flags = st.flags
    BY <2>3 DEF StoreFields
  <2>5. IsStore(u)
    BY <2>2, <2>3, <2>4 DEF IsStore
  <2>6. \A q \in Operators \ {o} : SameStake(st, u, q)
    BY <2>2, <2>3 DEF SameStake
  <2> QED
    BY <1>2, <2>2, <2>3, <2>5, <2>6 DEF OnlyThese, u
<1>3. CASE stake # 0
  <2>1. u = [st EXCEPT !.stakes = Index!Save(@, o, more)]
    BY <1>1, <1>3 DEF Index!HandleStakeUpdated, StakeEntity
  <2>2. DOMAIN entity = StakeFields
    BY EntityIs
  <2>3. DOMAIN more = StakeFields /\ more.amountWei = stake /\ more.lockedWei = entity.lockedWei
    <3> HIDE DEF entity
    <3> QED
      BY <2>2 DEF StakeFields
  <2> HIDE DEF u, more, entity
  <2>4. /\ OnlyThese(st, u, {"stakes"}, {o})
        /\ o \in DOMAIN u.stakes /\ u.stakes[o] = more
    BY <2>1, <2>3, SavedStake
  <2> QED
    BY <1>3, <2>3, <2>4 DEF u, entity
<1> QED
  BY <1>2, <1>3

\* StakeLockUpdate: it creates the entity if there is none.
LEMMA LockUpdateHandled ==
    ASSUME NEW st, IsStore(st), NEW o \in Operators, NEW e,
           e.name = "StakeLockUpdate", e.operator = o
    PROVE  LET u == Index!Handle(st, e)
           IN  /\ OnlyThese(st, u, {"stakes"}, {o})
               /\ o \in DOMAIN u.stakes
               /\ u.stakes[o].lockedWei = e.lockedStakeWei
               /\ u.stakes[o].amountWei = StakeEntity(st, o).amountWei
<1> DEFINE u == Index!Handle(st, e)
           entity == StakeEntity(st, o)
           more == [entity EXCEPT !.lockedWei = e.lockedStakeWei,
                                  !.minimumStakeWei = e.minimumStakeWei]
<1>1. u = Index!HandleStakeLockUpdated(st, e)
  BY DEF Index!Handle
<1>2. u = [st EXCEPT !.stakes = Index!Save(@, o, more)]
  BY <1>1 DEF Index!HandleStakeLockUpdated, StakeEntity
<1>3. DOMAIN entity = StakeFields
  BY EntityIs
<1>4. /\ DOMAIN more = StakeFields
      /\ more.lockedWei = e.lockedStakeWei /\ more.amountWei = entity.amountWei
  <2> HIDE DEF entity
  <2> QED
    BY <1>3 DEF StakeFields
<1> HIDE DEF u, more, entity
<1>5. /\ OnlyThese(st, u, {"stakes"}, {o})
      /\ o \in DOMAIN u.stakes /\ u.stakes[o] = more
  BY <1>2, <1>4, SavedStake
<1> QED
  BY <1>4, <1>5 DEF u, entity

\* The fields other than the stakes are written one by one.
LEMMA FieldsWritten ==
    ASSUME NEW st, IsStore(st), NEW u, NEW fields, DOMAIN u = StoreFields,
           "stakes" \notin fields, DOMAIN u.flags = Operators,
           \A field \in StoreFields \ fields : u[field] = st[field]
    PROVE  OnlyThese(st, u, fields, {})
<1>1. u.stakes = st.stakes
  BY DEF StoreFields
<1> QED
  BY <1>1 DEF OnlyThese, IsStore, SameStake

LEMMA SponsorshipUpdateHandled ==
    ASSUME NEW st, IsStore(st), NEW e, e.name = "SponsorshipUpdate"
    PROVE  LET u == Index!Handle(st, e)
           IN  /\ OnlyThese(st, u, {"totalStakedWei", "operatorCount"}, {})
               /\ u.totalStakedWei = e.totalStakedWei
               /\ u.operatorCount = e.operatorCount
<1> DEFINE u == Index!Handle(st, e)
           fields == {"totalStakedWei", "operatorCount"}
<1>1. u = Index!HandleSponsorshipUpdated(st, e)
  BY DEF Index!Handle
<1> HIDE DEF u
<1>2. /\ DOMAIN u = StoreFields /\ u.flags = st.flags
      /\ \A field \in StoreFields \ fields : u[field] = st[field]
      /\ u.totalStakedWei = e.totalStakedWei /\ u.operatorCount = e.operatorCount
  BY <1>1 DEF Index!HandleSponsorshipUpdated, IsStore, StoreFields
<1>3. OnlyThese(st, u, fields, {})
  BY <1>2, FieldsWritten DEF IsStore
<1> QED
  BY <1>2, <1>3 DEF u

LEMMA ReceivedHandled ==
    ASSUME NEW st, IsStore(st), NEW e, e.name = "SponsorshipReceived"
    PROVE  LET u == Index!Handle(st, e)
           IN  /\ OnlyThese(st, u, {"cumulativeSponsoring"}, {})
               /\ u.cumulativeSponsoring = st.cumulativeSponsoring + e.amount
<1> DEFINE u == Index!Handle(st, e)
           fields == {"cumulativeSponsoring"}
<1>1. u = Index!HandleSponsorshipReceived(st, e)
  BY DEF Index!Handle
<1> HIDE DEF u
<1>2. /\ DOMAIN u = StoreFields /\ u.flags = st.flags
      /\ \A field \in StoreFields \ fields : u[field] = st[field]
      /\ u.cumulativeSponsoring = st.cumulativeSponsoring + e.amount
  BY <1>1 DEF Index!HandleSponsorshipReceived, IsStore, StoreFields
<1>3. OnlyThese(st, u, fields, {})
  BY <1>2, FieldsWritten DEF IsStore
<1> QED
  BY <1>2, <1>3 DEF u

LEMMA SlashedIsWritten ==
    ASSUME NEW o, NEW amount
    PROVE  Writes(<<OperatorSlashed(o, amount)>>, {}, {})
<1> DEFINE e == OperatorSlashed(o, amount)
<1>1. e.name = "OperatorSlashed"
  BY DEF OperatorSlashed
<1> HIDE DEF e
<1>2. \A st : Index!Handle(st, e) = st
  BY <1>1 DEF Index!Handle, Index!HandleOperatorSlashed
<1>3. \A st : IsStore(st) => OnlyThese(st, Index!Handle(st, e), {}, {})
  BY <1>2 DEF OnlyThese, SameStake
<1>4. Writes(<<e>>, {}, {})
  BY <1>3, OneIsWritten
<1> QED
  BY <1>4 DEF e

-----------------------------------------------------------------------------
(* The configuration *)

ConfigFields ==
    {"slashingFraction", "flaggerReward", "reviewerReward", "reviewerCount", "flagStake",
     "leavePenalty"}

NetworkFields == ConfigFields \cup {"minimumStake"}

\* The minimum stake as the subgraph computes it.
FlooredMinimum(net) ==
    (Ether * (net.flaggerReward + net.reviewerCount * net.reviewerReward))
        \div net.slashingFraction

NetworkShows(net, c) ==
    /\ DOMAIN net = NetworkFields
    /\ \A key \in ConfigFields : net[key] = c[key]

MinimumShown(net) == net.minimumStake = FlooredMinimum(net)

\* The event of one setter: the parameter has its value, and the minimum stake
\* follows if it depends on it.
LEMMA ConfigChangeHandled ==
    ASSUME NEW st, IsStore(st), DOMAIN st.network = NetworkFields,
           NEW key \in ConfigFields, NEW value
    PROVE  LET u == Index!HandleAll(st, When(st.network[key] # value, ConfigChanged(key, value)))
           IN  /\ OnlyThese(st, u, {"network"}, {})
               /\ DOMAIN u.network = NetworkFields
               /\ u.network[key] = value
               /\ \A other \in ConfigFields \ {key} : u.network[other] = st.network[other]
               /\ MinimumShown(st.network) => MinimumShown(u.network)
               /\ key = "slashingFraction" /\ st.network[key] # value => MinimumShown(u.network)
<1> DEFINE e == ConfigChanged(key, value)
           u == Index!HandleAll(st, When(st.network[key] # value, e))
           changed == [st.network EXCEPT ![key] = value]
           computed == [changed EXCEPT !.minimumStake = FlooredMinimum(changed)]
           plain == key \in {"flagStake", "leavePenalty"}
           net == IF plain THEN changed ELSE computed
<1>1. CASE st.network[key] = value
  <2>1. u = st
    BY <1>1, NothingToHandle DEF When
  <2>2. OnlyThese(st, st, {"network"}, {})
    BY DEF OnlyThese, SameStake
  <2> HIDE DEF u
  <2> QED
    BY <1>1, <2>1, <2>2 DEF u
<1>2. CASE st.network[key] # value
  <2>1. u = Index!Handle(st, e)
    BY <1>2, OneToHandle DEF When
  <2>2. e.name = "ConfigChanged" /\ e.key = key /\ e.newValue = value
    BY DEF ConfigChanged
  <2> HIDE DEF e
  <2>3. u = Index!HandleConfigChanged(st, e)
    BY <2>1, <2>2 DEF Index!Handle
  <2>4. u = [st EXCEPT !.network = net]
    BY <2>2, <2>3
       DEF Index!HandleConfigChanged, Index!UpdateMinimumStake, FlooredMinimum
  <2>5. key \in NetworkFields /\ key # "minimumStake"
    BY DEF ConfigFields, NetworkFields
  <2>6. /\ DOMAIN changed = NetworkFields /\ changed[key] = value
        /\ \A other \in NetworkFields \ {key} : changed[other] = st.network[other]
    BY <2>5
  <2> HIDE DEF changed
  <2>7. /\ DOMAIN computed = NetworkFields
        /\ computed.minimumStake = FlooredMinimum(changed)
        /\ \A other \in ConfigFields : computed[other] = changed[other]
    BY <2>6 DEF ConfigFields, NetworkFields
  <2>8. FlooredMinimum(computed) = FlooredMinimum(changed)
    BY <2>7 DEF FlooredMinimum, ConfigFields
  <2>9. plain => /\ FlooredMinimum(changed) = FlooredMinimum(st.network)
                 /\ changed.minimumStake = st.network.minimumStake
    BY <2>5, <2>6 DEF FlooredMinimum, ConfigFields, NetworkFields
  <2> HIDE DEF computed
  <2>10. /\ DOMAIN net = NetworkFields
         /\ net[key] = value
         /\ \A other \in ConfigFields \ {key} : net[other] = st.network[other]
    BY <2>6, <2>7 DEF NetworkFields
  <2>11. MinimumShown(st.network) \/ ~plain => MinimumShown(net)
    BY <2>7, <2>8, <2>9 DEF MinimumShown
  <2>12. key = "slashingFraction" => ~plain
    OBVIOUS
  <2> HIDE DEF net, u, plain
  <2>13. /\ DOMAIN u = StoreFields /\ u.flags = st.flags /\ u.network = net
         /\ \A field \in StoreFields \ {"network"} : u[field] = st[field]
    BY <2>4 DEF IsStore, StoreFields
  <2>14. OnlyThese(st, u, {"network"}, {})
    BY <2>13, FieldsWritten DEF IsStore
  <2> QED
    BY <2>10, <2>11, <2>12, <2>13, <2>14 DEF u, e
<1> QED
  BY <1>1, <1>2

\* On the way from one configuration to another, with these parameters set
Reached(st, before, after, keys) ==
    /\ IsStore(st)
    /\ DOMAIN st.network = NetworkFields
    /\ \A k \in keys : st.network[k] = after[k]
    /\ \A k \in ConfigFields \ keys : st.network[k] = before[k]

\* What the next setter does
Sets(st, u, before, after, keys, key) ==
    /\ OnlyThese(st, u, {"network"}, {})
    /\ Reached(u, before, after, keys \cup {key})
    /\ MinimumShown(st.network) => MinimumShown(u.network)

LEMMA SetterHandled ==
    ASSUME NEW st, NEW before, NEW after, NEW keys, Reached(st, before, after, keys),
           NEW key \in ConfigFields, key \notin keys, keys \subseteq ConfigFields
    PROVE  LET log == When(before[key] # after[key], ConfigChanged(key, after[key]))
               u == Index!HandleAll(st, log)
           IN  /\ IsLog(log)
               /\ Sets(st, u, before, after, keys, key)
               /\ key = "slashingFraction" /\ before[key] # after[key]
                    => MinimumShown(u.network)
<1> DEFINE value == after[key]
           log == When(before[key] # after[key], ConfigChanged(key, after[key]))
           u == Index!HandleAll(st, log)
<1>1. /\ st.network[key] = before[key]
      /\ IsStore(st) /\ DOMAIN st.network = NetworkFields
  BY DEF Reached
<1>2. log = When(st.network[key] # value, ConfigChanged(key, value))
  BY <1>1
<1>3. IsLog(log)
  <2>1. IsLog(<<ConfigChanged(key, value)>>) /\ IsLog(<<>>)
    BY OneIsLog, NothingIsWritten DEF Writes
  <2> QED
    BY <1>2, <2>1 DEF When
<1> HIDE DEF value
<1>4. LET w == Index!HandleAll(st, When(st.network[key] # value, ConfigChanged(key, value)))
      IN  /\ OnlyThese(st, w, {"network"}, {})
          /\ DOMAIN w.network = NetworkFields
          /\ w.network[key] = value
          /\ \A other \in ConfigFields \ {key} : w.network[other] = st.network[other]
          /\ MinimumShown(st.network) => MinimumShown(w.network)
          /\ key = "slashingFraction" /\ st.network[key] # value => MinimumShown(w.network)
  BY <1>1, ConfigChangeHandled
<1> HIDE DEF log
<1>5. /\ OnlyThese(st, u, {"network"}, {})
      /\ DOMAIN u.network = NetworkFields
      /\ u.network[key] = value
      /\ \A other \in ConfigFields \ {key} : u.network[other] = st.network[other]
      /\ MinimumShown(st.network) => MinimumShown(u.network)
      /\ key = "slashingFraction" /\ st.network[key] # value => MinimumShown(u.network)
  BY <1>2, <1>4
<1> HIDE DEF u
<1>6. Sets(st, u, before, after, keys, key)
  BY <1>5 DEF Sets, Reached, OnlyThese, value
<1> QED
  BY <1>1, <1>3, <1>5, <1>6 DEF u, log, value

\* The setters, called one after the other, lead from one configuration to the
\* other; the minimum stake is shown as soon as the slashing fraction is set.
LEMMA ConfigEventsHandled ==
    ASSUME NEW st, IsStore(st), NEW before, NEW after, NetworkShows(st.network, before),
           MinimumShown(st.network) \/ before["slashingFraction"] # after["slashingFraction"]
    PROVE  LET u == Index!HandleAll(st, ConfigEvents(before, after))
           IN  /\ OnlyThese(st, u, {"network"}, {})
               /\ NetworkShows(u.network, after) /\ MinimumShown(u.network)
<1> DEFINE log(key) == When(before[key] # after[key], ConfigChanged(key, after[key]))
           L1 == log("slashingFraction")
           L2 == log("leavePenalty")
           L3 == log("reviewerCount")
           L4 == log("reviewerReward")
           L5 == log("flaggerReward")
           L6 == log("flagStake")
           K0 == {}
           K1 == K0 \cup {"slashingFraction"}
           K2 == K1 \cup {"leavePenalty"}
           K3 == K2 \cup {"reviewerCount"}
           K4 == K3 \cup {"reviewerReward"}
           K5 == K4 \cup {"flaggerReward"}
           u1 == Index!HandleAll(st, L1)
           u2 == Index!HandleAll(u1, L2)
           u3 == Index!HandleAll(u2, L3)
           u4 == Index!HandleAll(u3, L4)
           u5 == Index!HandleAll(u4, L5)
           u6 == Index!HandleAll(u5, L6)
<1>1. ConfigEvents(before, after) = L1 \o L2 \o L3 \o L4 \o L5 \o L6
  BY DEF ConfigEvents
<1>2. \A key \in ConfigFields : IsLog(log(key))
  <2> TAKE key \in ConfigFields
  <2>1. IsLog(<<ConfigChanged(key, after[key])>>) /\ IsLog(<<>>)
    BY OneIsLog, NothingIsWritten DEF Writes
  <2> QED
    BY <2>1 DEF When
<1>3. ASSUME NEW s, NEW keys, Reached(s, before, after, keys),
             NEW key \in ConfigFields, key \notin keys, keys \subseteq ConfigFields
      PROVE  /\ Sets(s, Index!HandleAll(s, log(key)), before, after, keys, key)
             /\ key = "slashingFraction" /\ before[key] # after[key]
                  => MinimumShown(Index!HandleAll(s, log(key)).network)
  BY <1>3, SetterHandled
<1>4. IsLog(L1) /\ IsLog(L2) /\ IsLog(L3) /\ IsLog(L4) /\ IsLog(L5) /\ IsLog(L6)
  <2> HIDE DEF log
  <2> QED
    BY <1>2 DEF ConfigFields
<1>5. /\ Sets(st, u1, before, after, K0, "slashingFraction")
      /\ MinimumShown(u1.network)
  <2>1. Reached(st, before, after, K0)
    BY DEF NetworkShows, Reached
  <2>2. "slashingFraction" \in ConfigFields /\ "slashingFraction" \notin K0 /\ K0 \subseteq ConfigFields
    BY DEF ConfigFields
  <2> HIDE DEF log, K0
  <2>3. /\ Sets(st, u1, before, after, K0, "slashingFraction")
        /\ before["slashingFraction"] # after["slashingFraction"] => MinimumShown(u1.network)
    BY <1>3, <2>1, <2>2
  <2> HIDE DEF u1
  <2> QED
    BY <2>3 DEF Sets
<1>6. Sets(u1, u2, before, after, K1, "leavePenalty")
  <2>1. Reached(u1, before, after, K1)
    BY <1>5 DEF Sets
  <2>2. "leavePenalty" \in ConfigFields /\ "leavePenalty" \notin K1 /\ K1 \subseteq ConfigFields
    BY DEF ConfigFields
  <2> HIDE DEF log, u1, K1
  <2> QED
    BY <1>3, <2>1, <2>2
<1>7. Sets(u2, u3, before, after, K2, "reviewerCount")
  <2>1. Reached(u2, before, after, K2)
    BY <1>6 DEF Sets
  <2>2. "reviewerCount" \in ConfigFields /\ "reviewerCount" \notin K2 /\ K2 \subseteq ConfigFields
    BY DEF ConfigFields
  <2> HIDE DEF log, u2, K2
  <2> QED
    BY <1>3, <2>1, <2>2
<1>8. Sets(u3, u4, before, after, K3, "reviewerReward")
  <2>1. Reached(u3, before, after, K3)
    BY <1>7 DEF Sets
  <2>2. "reviewerReward" \in ConfigFields /\ "reviewerReward" \notin K3 /\ K3 \subseteq ConfigFields
    BY DEF ConfigFields
  <2> HIDE DEF log, u3, K3
  <2> QED
    BY <1>3, <2>1, <2>2
<1>9. Sets(u4, u5, before, after, K4, "flaggerReward")
  <2>1. Reached(u4, before, after, K4)
    BY <1>8 DEF Sets
  <2>2. "flaggerReward" \in ConfigFields /\ "flaggerReward" \notin K4 /\ K4 \subseteq ConfigFields
    BY DEF ConfigFields
  <2> HIDE DEF log, u4, K4
  <2> QED
    BY <1>3, <2>1, <2>2
<1>10. Sets(u5, u6, before, after, K5, "flagStake")
  <2>1. Reached(u5, before, after, K5)
    BY <1>9 DEF Sets
  <2>2. "flagStake" \in ConfigFields /\ "flagStake" \notin K5 /\ K5 \subseteq ConfigFields
    BY DEF ConfigFields
  <2> HIDE DEF log, u5, K5
  <2> QED
    BY <1>3, <2>1, <2>2
<1> HIDE DEF u1, u2, u3, u4, u5, u6
<1>11. /\ NetworkShows(u6.network, after) /\ MinimumShown(u6.network)
  BY <1>5, <1>6, <1>7, <1>8, <1>9, <1>10 DEF Sets, Reached, NetworkShows, ConfigFields
<1>12. OnlyThese(st, u6, {"network"}, {})
  <2>1. \A s, u, w : OnlyThese(s, u, {"network"}, {}) /\ OnlyThese(u, w, {"network"}, {})
                      => OnlyThese(s, w, {"network"}, {})
    BY DEF OnlyThese, SameStake
  <2> QED
    BY <1>5, <1>6, <1>7, <1>8, <1>9, <1>10, <2>1 DEF Sets
<1> HIDE DEF L1, L2, L3, L4, L5, L6
<1>13. /\ Index!HandleAll(st, L1 \o L2) = u2
       /\ IsLog(L1 \o L2)
  BY <1>4, LogsInTurn DEF u1, u2
<1>14. /\ Index!HandleAll(st, L1 \o L2 \o L3) = u3
       /\ IsLog(L1 \o L2 \o L3)
  BY <1>4, <1>13, LogsInTurn DEF u3
<1>15. /\ Index!HandleAll(st, L1 \o L2 \o L3 \o L4) = u4
       /\ IsLog(L1 \o L2 \o L3 \o L4)
  BY <1>4, <1>14, LogsInTurn DEF u4
<1>16. /\ Index!HandleAll(st, L1 \o L2 \o L3 \o L4 \o L5) = u5
       /\ IsLog(L1 \o L2 \o L3 \o L4 \o L5)
  BY <1>4, <1>15, LogsInTurn DEF u5
<1>17. /\ Index!HandleAll(st, L1 \o L2 \o L3 \o L4 \o L5 \o L6) = u6
       /\ IsLog(L1 \o L2 \o L3 \o L4 \o L5 \o L6)
  BY <1>4, <1>16, LogsInTurn DEF u6
<1> QED
  BY <1>1, <1>11, <1>12, <1>17

\* Rounding down instead of up makes a difference of one at most.
LEMMA FloorsAreClose ==
    ASSUME NEW x \in Nat, NEW d \in Nat \ {0}
    PROVE  (x + d - 1) \div d \in {x \div d, x \div d + 1}
<1> DEFINE q == x \div d
           r == x % d
           p == (x + d - 1) \div d
           s == (x + d - 1) % d
<1>1. q \in Int /\ r \in Int /\ x = d * q + r /\ 0 <= r /\ r < d
  OBVIOUS
<1>2. x + d - 1 \in Nat
  OBVIOUS
<1>3. p \in Int /\ s \in Int /\ x + d - 1 = d * p + s /\ 0 <= s /\ s < d
  <2> DEFINE y == x + d - 1
  <2> HIDE DEF y
  <2>1. \A z \in Nat : /\ z \div d \in Int /\ z % d \in Int /\ z = d * (z \div d) + (z % d)
                       /\ 0 <= z % d /\ z % d < d
    OBVIOUS
  <2> QED
    BY <1>2, <2>1
<1> HIDE DEF q, r, p, s
<1>4. d * (p - q) = d * p - d * q
  BY <1>1, <1>3
<1>5. d * (p - q) > -d /\ d * (p - q) < 2 * d
  BY <1>1, <1>3, <1>4
<1> DEFINE k == p - q
<1>6. k \in Int /\ d * k > -d /\ d * k < 2 * d
  BY <1>1, <1>3, <1>5
<1>7. k > -1 /\ k < 2
  <2> HIDE DEF k
  <2>1. k <= -1 => d * k <= -d
    BY <1>6
  <2>2. k >= 2 => d * k >= 2 * d
    BY <1>6
  <2> QED
    BY <1>6, <2>1, <2>2
<1>8. p = q \/ p = q + 1
  BY <1>1, <1>3, <1>7
<1> QED
  BY <1>8 DEF p, q

LEMMA MinimumIsClose ==
    ASSUME NEW net, NEW c \in Config, NetworkShows(net, c), MinimumShown(net)
    PROVE  net.minimumStake \in {MinimumStake(c) - 1, MinimumStake(c)}
<1> DEFINE x == Ether * (c.flaggerReward + c.reviewerCount * c.reviewerReward)
           d == c.slashingFraction
           total == TotalRewards(c)
<1>1. /\ c.flaggerReward \in Nat /\ c.reviewerCount \in Nat /\ c.reviewerReward \in Nat
      /\ d \in Nat \ {0} /\ Ether \in Nat
  BY EtherAssumption DEF Config
<1>2. /\ net.flaggerReward = c.flaggerReward /\ net.reviewerCount = c.reviewerCount
      /\ net.reviewerReward = c.reviewerReward /\ net.slashingFraction = d
  BY DEF NetworkShows, ConfigFields
<1>3. net.minimumStake = x \div d
  BY <1>2 DEF MinimumShown, FlooredMinimum
<1>4. c.flaggerReward + c.reviewerCount * c.reviewerReward = total
  BY DEF TotalRewards
<1>5. total \in Nat
  BY <1>1 DEF TotalRewards
<1> HIDE DEF total
<1>6. x = total * Ether /\ x \in Nat
  BY <1>1, <1>4, <1>5
<1> HIDE DEF x, d
<1>7. MinimumStake(c) = (x + d - 1) \div d
  BY <1>6 DEF MinimumStake, DivByFraction, total, d
<1>8. (x + d - 1) \div d \in {x \div d, x \div d + 1}
  BY <1>1, <1>6, FloorsAreClose
<1>9. x \div d \in Int
  BY <1>1, <1>6
<1> QED
  BY <1>3, <1>7, <1>8, <1>9

-----------------------------------------------------------------------------
(* The logs of the transactions that move stakes *)

TotalFields == {"totalStakedWei", "operatorCount"}

TotalsTold(st, b) ==
    st.totalStakedWei = b.totalStaked /\ st.operatorCount = b.operatorCount

\* What a StakeUpdate makes of the Stake entity.
StakeTold(st, u, b, o) ==
    /\ b.staked[o] = 0 => o \notin DOMAIN u.stakes
    /\ b.staked[o] # 0 => /\ o \in DOMAIN u.stakes
                          /\ u.stakes[o].amountWei = b.staked[o]
                          /\ u.stakes[o].lockedWei = StakeEntity(st, o).lockedWei

LEMMA StakeIsTold ==
    ASSUME NEW st, IsStore(st), NEW b, NEW o \in Operators, b.staked[o] \in Int
    PROVE  LET u == Index!HandleAll(st, <<StakeUpdate(b, o)>>)
           IN  OnlyThese(st, u, {"stakes"}, {o}) /\ StakeTold(st, u, b, o)
<1> DEFINE e == StakeUpdate(b, o)
           u == Index!HandleAll(st, <<e>>)
           w == Index!Handle(st, e)
           stake == b.staked[o]
<1>1. e.name = "StakeUpdate" /\ e.operator = o /\ e.stakedWei = stake /\ stake \in Int
  BY DEF StakeUpdate
<1>2. u = w
  BY OneToHandle
<1> HIDE DEF e, stake
<1>3. /\ OnlyThese(st, w, {"stakes"}, {o})
      /\ stake = 0 => o \notin DOMAIN w.stakes
      /\ stake # 0 => /\ o \in DOMAIN w.stakes
                      /\ w.stakes[o].amountWei = stake
                      /\ w.stakes[o].lockedWei = StakeEntity(st, o).lockedWei
  BY <1>1, StakeUpdateHandled
<1> HIDE DEF u, w
<1> QED
  BY <1>2, <1>3 DEF u, e, stake, StakeTold

LEMMA TotalsAreTold ==
    ASSUME NEW st, IsStore(st), NEW b
    PROVE  LET u == Index!HandleAll(st, <<SponsorshipUpdate(b)>>)
           IN  OnlyThese(st, u, TotalFields, {}) /\ TotalsTold(u, b)
<1> DEFINE e == SponsorshipUpdate(b)
           u == Index!HandleAll(st, <<e>>)
           w == Index!Handle(st, e)
<1>1. /\ e.name = "SponsorshipUpdate"
      /\ e.totalStakedWei = b.totalStaked /\ e.operatorCount = b.operatorCount
  BY DEF SponsorshipUpdate
<1>2. u = w
  BY OneToHandle
<1> HIDE DEF e
<1>3. /\ OnlyThese(st, w, TotalFields, {})
      /\ w.totalStakedWei = e.totalStakedWei
      /\ w.operatorCount = e.operatorCount
  BY <1>1, SponsorshipUpdateHandled DEF TotalFields
<1> HIDE DEF u, w
<1> QED
  BY <1>1, <1>2, <1>3 DEF u, e, TotalsTold

\* A log that ends by reporting the totals
LEMMA TotalsToldLast ==
    ASSUME NEW st, IsStore(st), NEW log, NEW b, NEW fields, NEW P, IsLog(log),
           OnlyThese(st, Index!HandleAll(st, log), fields, P)
    PROVE  LET v == Index!HandleAll(st, log)
               u == Index!HandleAll(st, log \o <<SponsorshipUpdate(b)>>)
           IN  /\ OnlyThese(st, u, fields \cup TotalFields, P)
               /\ OnlyThese(v, u, TotalFields, {})
               /\ TotalsTold(u, b)
<1> DEFINE v == Index!HandleAll(st, log)
           last == <<SponsorshipUpdate(b)>>
           w == Index!HandleAll(v, last)
           u == Index!HandleAll(st, log \o last)
<1>1. OnlyThese(st, v, fields, P) /\ IsStore(v)
  BY DEF OnlyThese
<1> HIDE DEF v
<1>2. OnlyThese(v, w, TotalFields, {}) /\ TotalsTold(w, b)
  BY <1>1, TotalsAreTold
<1>3. u = w
  BY OneIsLog, LogsInTurn DEF v
<1> HIDE DEF u, w, last
<1>4. OnlyThese(st, w, fields \cup TotalFields, P \cup {})
  BY <1>1, <1>2, ChangesInTurn
<1>5. P \cup {} = P
  OBVIOUS
<1>6. OnlyThese(st, u, fields \cup TotalFields, P)
  BY <1>3, <1>4, <1>5
<1> QED
  BY <1>2, <1>3, <1>6 DEF u, v, last

LEMMA StakeEventsHandled ==
    ASSUME NEW st, IsStore(st), NEW b, NEW o \in Operators, b.staked[o] \in Int
    PROVE  LET u == Index!HandleAll(st, StakeEvents(b, o))
           IN  /\ OnlyThese(st, u, {"stakes"} \cup TotalFields, {o})
               /\ StakeTold(st, u, b, o)
               /\ TotalsTold(u, b)
               /\ IsLog(StakeEvents(b, o))
<1> DEFINE first == <<StakeUpdate(b, o)>>
           last == <<SponsorshipUpdate(b)>>
           v == Index!HandleAll(st, first)
           u == Index!HandleAll(st, first \o last)
<1>1. OnlyThese(st, v, {"stakes"}, {o}) /\ StakeTold(st, v, b, o)
  BY StakeIsTold
<1>2. IsLog(first) /\ IsLog(last)
  BY OneIsLog
<1>3. StakeEvents(b, o) = first \o last
  BY DEF StakeEvents
<1> HIDE DEF first
<1>4. /\ OnlyThese(st, u, {"stakes"} \cup TotalFields, {o})
      /\ OnlyThese(v, u, TotalFields, {})
      /\ TotalsTold(u, b)
  BY <1>1, <1>2, TotalsToldLast
<1>5. IsLog(first \o last)
  BY <1>2, LogsInTurn
<1> HIDE DEF u, v, last
<1>6. u.stakes = v.stakes
  BY <1>4 DEF OnlyThese, StoreFields, TotalFields
<1>7. StakeTold(st, u, b, o)
  BY <1>1, <1>6 DEF StakeTold
<1> QED
  BY <1>3, <1>4, <1>5, <1>7 DEF u

\* _addSponsorship: everything that is swept is reported, as one or as two.
LEMMA SponsorEventsHandled ==
    ASSUME NEW st, IsStore(st), NEW before, NEW after, NEW amount \in Nat,
           before.pool \in Int, after.pool \in Int, after.pool - before.pool >= amount,
           st.cumulativeSponsoring \in Int
    PROVE  LET u == Index!HandleAll(st, SponsorEvents(before, after, amount))
           IN  /\ OnlyThese(st, u, {"cumulativeSponsoring"} \cup TotalFields, {})
               /\ TotalsTold(u, after)
               /\ u.cumulativeSponsoring = st.cumulativeSponsoring + (after.pool - before.pool)
<1> DEFINE unknown == after.pool - before.pool - amount
           first == <<Received(amount)>>
           second == When(unknown > 0, Received(unknown))
           last == <<SponsorshipUpdate(after)>>
           v1 == Index!HandleAll(st, first)
           v2 == Index!HandleAll(v1, second)
           u == Index!HandleAll(st, first \o second \o last)
<1>1. SponsorEvents(before, after, amount) = first \o second \o last
  BY DEF SponsorEvents
<1>2. unknown \in Int /\ unknown >= 0 /\ amount + unknown = after.pool - before.pool
  OBVIOUS
<1> HIDE DEF unknown
<1>3. ASSUME NEW s, IsStore(s), NEW wei
      PROVE  LET w == Index!HandleAll(s, <<Received(wei)>>)
             IN  /\ OnlyThese(s, w, {"cumulativeSponsoring"}, {})
                 /\ w.cumulativeSponsoring = s.cumulativeSponsoring + wei
  <2> DEFINE e == Received(wei)
  <2>1. e.name = "SponsorshipReceived" /\ e.amount = wei
    BY DEF Received
  <2> HIDE DEF e
  <2>2. LET w == Index!Handle(s, e)
        IN  /\ OnlyThese(s, w, {"cumulativeSponsoring"}, {})
            /\ w.cumulativeSponsoring = s.cumulativeSponsoring + e.amount
    BY <1>3, <2>1, ReceivedHandled
  <2>3. Index!HandleAll(s, <<e>>) = Index!Handle(s, e)
    BY OneToHandle
  <2> QED
    BY <2>1, <2>2, <2>3 DEF e
<1>4. /\ OnlyThese(st, v1, {"cumulativeSponsoring"}, {})
      /\ v1.cumulativeSponsoring = st.cumulativeSponsoring + amount
  BY <1>3
<1>5. IsLog(first) /\ IsLog(second)
  <2>1. IsLog(<<Received(unknown)>>) /\ IsLog(<<>>)
    BY OneIsLog, NothingIsWritten DEF Writes
  <2> QED
    BY <2>1, OneIsLog DEF When
<1> HIDE DEF first, v1
<1>6. IsStore(v1)
  BY <1>4 DEF OnlyThese
<1>7. /\ OnlyThese(v1, v2, {"cumulativeSponsoring"}, {})
      /\ v2.cumulativeSponsoring = v1.cumulativeSponsoring + unknown
  <2>1. CASE unknown > 0
    <3>1. second = <<Received(unknown)>>
      BY <2>1 DEF When
    <3> QED
      BY <1>3, <1>6, <3>1
  <2>2. CASE ~(unknown > 0)
    <3>1. second = <<>>
      BY <2>2 DEF When
    <3>2. v2 = v1
      BY <3>1, NothingToHandle
    <3>3. OnlyThese(v1, v1, {"cumulativeSponsoring"}, {})
      BY <1>6 DEF OnlyThese, SameStake
    <3>4. unknown = 0 /\ v1.cumulativeSponsoring \in Int
      BY <1>2, <1>4, <2>2
    <3> HIDE DEF v2
    <3> QED
      BY <3>2, <3>3, <3>4
  <2> QED
    BY <2>1, <2>2
<1>8. Index!HandleAll(st, first \o second) = v2 /\ IsLog(first \o second)
  <2> HIDE DEF second
  <2>1. v2 = Index!HandleAll(Index!HandleAll(st, first), second)
    BY DEF v1
  <2> HIDE DEF v2
  <2> QED
    BY <1>5, <2>1, LogsInTurn
<1> HIDE DEF v2, second
<1>9. OnlyThese(st, v2, {"cumulativeSponsoring"}, {})
  BY <1>4, <1>7 DEF OnlyThese, SameStake
<1> DEFINE both == first \o second
<1>10. Index!HandleAll(st, both) = v2 /\ IsLog(both) /\ u = Index!HandleAll(st, both \o last)
  BY <1>8
<1> HIDE DEF both, u
<1>11. /\ OnlyThese(st, u, {"cumulativeSponsoring"} \cup TotalFields, {})
       /\ OnlyThese(v2, u, TotalFields, {})
       /\ TotalsTold(u, after)
  BY <1>9, <1>10, TotalsToldLast
<1>12. u.cumulativeSponsoring = v2.cumulativeSponsoring
  BY <1>11 DEF OnlyThese, StoreFields, TotalFields
<1>13. u.cumulativeSponsoring = st.cumulativeSponsoring + (after.pool - before.pool)
  BY <1>2, <1>4, <1>7, <1>12
<1> QED
  BY <1>1, <1>11, <1>13 DEF u

\* What is left of an operator that has gone.
GoneTold(st, u, gone, o) ==
    /\ OnlyThese(st, u, {"stakes"} \cup TotalFields, {o})
    /\ o \notin DOMAIN u.stakes
    /\ TotalsTold(u, gone)

\* A log that only slashes and locks, before it tells that the operator has gone.
LEMMA GoneIsTold ==
    ASSUME NEW st, IsStore(st), NEW log, NEW gone, NEW o \in Operators,
           Writes(log, {"stakes"}, {o}), gone.staked[o] = 0
    PROVE  /\ GoneTold(st, Index!HandleAll(st, log \o StakeEvents(gone, o)), gone, o)
           /\ IsLog(log \o StakeEvents(gone, o))
<1> DEFINE last == StakeEvents(gone, o)
           v == Index!HandleAll(st, log)
           w == Index!HandleAll(v, last)
           u == Index!HandleAll(st, log \o last)
<1>1. OnlyThese(st, v, {"stakes"}, {o}) /\ IsStore(v)
  BY DEF Writes, OnlyThese
<1> HIDE DEF v
<1>2. /\ OnlyThese(v, w, {"stakes"} \cup TotalFields, {o})
      /\ StakeTold(v, w, gone, o)
      /\ TotalsTold(w, gone)
      /\ IsLog(last)
  BY <1>1, StakeEventsHandled
<1> HIDE DEF last
<1>3. u = w /\ IsLog(log \o last)
  BY <1>2, LogsInTurn DEF v, Writes
<1> HIDE DEF u, w
<1>4. OnlyThese(st, w, {"stakes"} \cup TotalFields, {o})
  <2>1. OnlyThese(st, w, {"stakes"} \cup ({"stakes"} \cup TotalFields), {o} \cup {o})
    BY <1>1, <1>2, ChangesInTurn
  <2>2. {"stakes"} \cup ({"stakes"} \cup TotalFields) = {"stakes"} \cup TotalFields
    OBVIOUS
  <2>3. {o} \cup {o} = {o}
    OBVIOUS
  <2> QED
    BY <2>1, <2>2, <2>3
<1>5. GoneTold(st, w, gone, o)
  BY <1>2, <1>4 DEF GoneTold, StakeTold
<1> QED
  BY <1>3, <1>5 DEF u, last

LEMMA LockIsWritten ==
    ASSUME NEW b, NEW o \in Operators, NEW minimum
    PROVE  Writes(<<StakeLockUpdate(b, o, minimum)>>, {"stakes"}, {o})
<1> DEFINE e == StakeLockUpdate(b, o, minimum)
<1>1. e.name = "StakeLockUpdate" /\ e.operator = o
  BY DEF StakeLockUpdate
<1> HIDE DEF e
<1>2. ASSUME NEW st, IsStore(st)
      PROVE  OnlyThese(st, Index!Handle(st, e), {"stakes"}, {o})
  BY <1>1, <1>2, LockUpdateHandled
<1>3. Writes(<<e>>, {"stakes"}, {o})
  BY <1>2, OneIsWritten
<1> QED
  BY <1>3 DEF e

\* Slashing is not written at all, so it may be told anywhere.
LEMMA SlashedWhen ==
    ASSUME NEW o \in Operators, NEW amount, NEW condition \in BOOLEAN
    PROVE  Writes(When(condition, OperatorSlashed(o, amount)), {"stakes"}, {o})
<1>1. Writes(<<OperatorSlashed(o, amount)>>, {}, {})
  BY SlashedIsWritten
<1>2. Writes(<<OperatorSlashed(o, amount)>>, {"stakes"}, {o})
  BY <1>1, WritesMore
<1> QED
  BY <1>2, WritesWhen

LEMMA StakesWritten ==
    ASSUME NEW a, NEW b, NEW o, Writes(a, {"stakes"}, {o}), Writes(b, {"stakes"}, {o})
    PROVE  Writes(a \o b, {"stakes"}, {o})
<1>1. Writes(a \o b, {"stakes"} \cup {"stakes"}, {o} \cup {o})
  BY WritesInTurn
<1>2. {"stakes"} \cup {"stakes"} = {"stakes"} /\ {o} \cup {o} = {o}
  OBVIOUS
<1> QED
  BY <1>1, <1>2

\* _removeOperator: the last words about the Stake are that it is gone.
LEMMA LeaveEventsHandled ==
    ASSUME NEW st, IsStore(st), NEW b, NEW o \in Operators, NEW terms,
           b.locked[o] \in Int, terms.penalty \in Int,
           RemoveOperator(b, o, terms).staked[o] = 0
    PROVE  /\ GoneTold(st, Index!HandleAll(st, LeaveEvents(b, o, terms)),
                       RemoveOperator(b, o, terms), o)
           /\ IsLog(LeaveEvents(b, o, terms))
<1> DEFINE gone == RemoveOperator(b, o, terms)
           penalty == Smaller(terms.penalty, b.staked[o] - Forfeits(b, o))
           A == When(b.locked[o] > 0, OperatorSlashed(o, Forfeits(b, o)))
           B == When(b.locked[o] > 0, StakeLockUpdate(gone, o, 0))
           C == When(terms.penalty > 0, OperatorSlashed(o, penalty))
<1>1. LeaveEvents(b, o, terms) = A \o B \o C \o StakeEvents(gone, o)
  BY DEF LeaveEvents
<1>2. (b.locked[o] > 0) \in BOOLEAN /\ (terms.penalty > 0) \in BOOLEAN
  OBVIOUS
<1> HIDE DEF gone, penalty
<1>3. Writes(A, {"stakes"}, {o}) /\ Writes(C, {"stakes"}, {o})
  BY <1>2, SlashedWhen
<1>4. Writes(B, {"stakes"}, {o})
  BY <1>2, LockIsWritten, WritesWhen
<1> HIDE DEF A, B, C
<1>5. Writes(A \o B \o C, {"stakes"}, {o})
  BY <1>3, <1>4, StakesWritten
<1>6. gone.staked[o] = 0
  BY DEF gone
<1> DEFINE log == A \o B \o C
<1> HIDE DEF log
<1>7. /\ GoneTold(st, Index!HandleAll(st, log \o StakeEvents(gone, o)), gone, o)
      /\ IsLog(log \o StakeEvents(gone, o))
  BY <1>5, <1>6, GoneIsTold DEF log
<1> QED
  BY <1>1, <1>7 DEF log, gone

\* _kick: slashed before it leaves
LEMMA KickEventsHandled ==
    ASSUME NEW st, IsStore(st), NEW b, NEW o \in Operators, NEW slashing \in Int, NEW terms,
           ReduceStakeBy(b, o, slashing).locked[o] \in Int, terms.penalty \in Int,
           Kick(b, o, slashing, terms).staked[o] = 0
    PROVE  /\ GoneTold(st, Index!HandleAll(st, KickEvents(b, o, slashing, terms)),
                       Kick(b, o, slashing, terms), o)
           /\ IsLog(KickEvents(b, o, slashing, terms))
<1> DEFINE less == ReduceStakeBy(b, o, slashing)
           gone == RemoveOperator(less, o, terms)
           A == When(slashing > 0, OperatorSlashed(o, Reduction(b, o, slashing)))
           v == Index!HandleAll(st, A)
           L == LeaveEvents(less, o, terms)
<1>1. KickEvents(b, o, slashing, terms) = A \o L
  BY DEF KickEvents
<1>2. (slashing > 0) \in BOOLEAN
  OBVIOUS
<1>3. Writes(A, {"stakes"}, {o})
  BY <1>2, SlashedWhen
<1>4. IsLog(A) /\ OnlyThese(st, v, {"stakes"}, {o}) /\ IsStore(v)
  <2> HIDE DEF A
  <2> QED
    BY <1>3 DEF Writes, OnlyThese
<1>5. gone = Kick(b, o, slashing, terms)
  BY DEF Kick
<1>6. less.locked[o] \in Int /\ gone.staked[o] = 0
  BY <1>5
<1> HIDE DEF A, v, less
<1>7. GoneTold(v, Index!HandleAll(v, L), gone, o) /\ IsLog(L)
  BY <1>4, <1>6, LeaveEventsHandled
<1> HIDE DEF L, gone
<1>8. Index!HandleAll(st, A \o L) = Index!HandleAll(v, L) /\ IsLog(A \o L)
  BY <1>4, <1>7, LogsInTurn DEF v
<1> DEFINE w == Index!HandleAll(v, L)
<1>9. GoneTold(st, w, gone, o)
  <2> HIDE DEF w
  <2>1. OnlyThese(st, w, {"stakes"} \cup ({"stakes"} \cup TotalFields), {o} \cup {o})
    BY <1>4, <1>7, ChangesInTurn DEF GoneTold, w
  <2>2. {"stakes"} \cup ({"stakes"} \cup TotalFields) = {"stakes"} \cup TotalFields
    OBVIOUS
  <2>3. {o} \cup {o} = {o}
    OBVIOUS
  <2>4. OnlyThese(st, w, {"stakes"} \cup TotalFields, {o})
    BY <2>1, <2>2, <2>3
  <2> QED
    BY <1>7, <2>4 DEF GoneTold, w
<1> QED
  BY <1>1, <1>5, <1>8, <1>9

\* What a StakeLockUpdate makes of the Stake entity of an operator with stake.
LockTold(st, u, b, o) ==
    /\ OnlyThese(st, u, {"stakes"}, {o})
    /\ b.staked[o] = 0 => SameStake(st, u, o)
    /\ b.staked[o] > 0 => /\ o \in DOMAIN u.stakes
                          /\ u.stakes[o].lockedWei = b.locked[o]
                          /\ u.stakes[o].amountWei = StakeEntity(st, o).amountWei

LEMMA LockIsTold ==
    ASSUME NEW st, IsStore(st), NEW b, NEW o \in Operators, NEW minimum
    PROVE  LET u == Index!HandleAll(st, <<StakeLockUpdate(b, o, minimum)>>)
           IN  /\ OnlyThese(st, u, {"stakes"}, {o})
               /\ o \in DOMAIN u.stakes
               /\ u.stakes[o].lockedWei = b.locked[o]
               /\ u.stakes[o].amountWei = StakeEntity(st, o).amountWei
<1> DEFINE e == StakeLockUpdate(b, o, minimum)
           lock == b.locked[o]
           w == Index!Handle(st, e)
<1>1. e.name = "StakeLockUpdate" /\ e.operator = o /\ e.lockedStakeWei = lock
  BY DEF StakeLockUpdate
<1>2. Index!HandleAll(st, <<e>>) = w
  BY OneToHandle
<1> HIDE DEF e
<1>3. /\ OnlyThese(st, w, {"stakes"}, {o})
      /\ o \in DOMAIN w.stakes
      /\ w.stakes[o].lockedWei = e.lockedStakeWei
      /\ w.stakes[o].amountWei = StakeEntity(st, o).amountWei
  BY <1>1, LockUpdateHandled
<1> HIDE DEF w
<1> QED
  BY <1>1, <1>2, <1>3 DEF e, lock

LEMMA LockEventsHandled ==
    ASSUME NEW st, IsStore(st), NEW b, NEW o \in Operators, b.staked[o] \in Nat
    PROVE  /\ LockTold(st, Index!HandleAll(st, LockEvents(b, o)), b, o)
           /\ Writes(LockEvents(b, o), {"stakes"}, {o})
<1> DEFINE minimum == MinimumStakeOf(b, o, Open(o))
           e == StakeLockUpdate(b, o, minimum)
           u == Index!HandleAll(st, LockEvents(b, o))
<1>1. LockEvents(b, o) = When(b.staked[o] > 0, e)
  BY DEF LockEvents
<1>2. (b.staked[o] > 0) \in BOOLEAN
  OBVIOUS
<1>3. Writes(<<e>>, {"stakes"}, {o})
  BY LockIsWritten
<1>4. Writes(LockEvents(b, o), {"stakes"}, {o})
  <2> HIDE DEF e
  <2> QED
    BY <1>1, <1>2, <1>3, WritesWhen
<1>5. CASE b.staked[o] > 0
  <2>1. LockEvents(b, o) = <<e>>
    BY <1>1, <1>5 DEF When
  <2> HIDE DEF minimum
  <2>2. LET w == Index!HandleAll(st, <<e>>)
        IN  /\ OnlyThese(st, w, {"stakes"}, {o})
            /\ o \in DOMAIN w.stakes
            /\ w.stakes[o].lockedWei = b.locked[o]
            /\ w.stakes[o].amountWei = StakeEntity(st, o).amountWei
    BY LockIsTold
  <2> HIDE DEF e
  <2>3. LockTold(st, u, b, o)
    BY <1>5, <2>1, <2>2 DEF LockTold
  <2> QED
    BY <1>4, <2>3
<1>6. CASE b.staked[o] = 0
  <2>1. LockEvents(b, o) = <<>>
    BY <1>1, <1>6 DEF When
  <2>2. u = st
    BY <2>1, NothingToHandle
  <2>3. LockTold(st, st, b, o)
    BY <1>6 DEF LockTold, OnlyThese, SameStake
  <2> HIDE DEF u
  <2>4. LockTold(st, u, b, o)
    BY <2>2, <2>3
  <2> QED
    BY <1>4, <2>4 DEF u
<1> QED
  BY <1>5, <1>6

-----------------------------------------------------------------------------
(* The inductive invariant *)

StakeShown(st, b, o) ==
    /\ o \in DOMAIN st.stakes <=> o \in b.joined
    /\ o \in b.joined => /\ st.stakes[o].lockedWei = b.locked[o]
                         /\ st.stakes[o].amountWei \in Int
                         /\ st.stakes[o].amountWei >= b.staked[o]

\* Without rewards there is no minimum stake: an operator without stake may have
\* joined, and has no Stake entity.
StakesInv == RewardsPaid => \A o \in Operators : StakeShown(store, books, o)

TotalsInv ==
    /\ TotalsTold(store, books)
    /\ store.cumulativeSponsoring \in Int
    /\ store.cumulativeSponsoring >= books.pool

NetworkInv == NetworkShows(store.network, config) /\ MinimumShown(store.network)

FlagFields ==
    {"lastFlagIndex", "flagger", "result", "votesForKick", "votesAgainstKick",
     "reviewerCount", "targetStakeAtRiskWei", "reviewers"}

VotesOf(st, t, i) == {vote \in st.votes : vote.target = t /\ vote.index = i}

\* The entity of a flag that was raised, with its votes
EntryShown(st, t, i) ==
    /\ DOMAIN st.flags[t][i] = FlagFields
    /\ st.flags[t][i].flagger \in Operators
    /\ VotesAddUpTo(st.flags[t][i], VotesOf(st, t, i))

\* The entity of the open flag; a vote is stored only when it is cast.
OpenShown(st, t, i, flag) ==
    /\ st.flags[t][i].result \in {"waiting", "voting"}
    /\ st.flags[t][i].flagger = flag.flagger
    /\ st.flags[t][i].targetStakeAtRiskWei = flag.atRisk
    /\ ToSet(st.flags[t][i].reviewers) = ReviewersOf(flag)
    /\ st.flags[t][i].reviewerCount = Len(st.flags[t][i].reviewers)
    /\ st.flags[t][i].votesForKick = flag.votesFor
    /\ st.flags[t][i].votesAgainstKick = flag.votesAgainst
    /\ \A vote \in VotesOf(st, t, i) : vote.voter \in Voters /\ flag.state[vote.voter] < 0

\* The n flags there have been on a target, the last of which may be open.
HistoryShown(st, t, n, flag) ==
    /\ n \in Nat
    /\ DOMAIN st.flags[t] = 0 .. n - 1
    /\ n > 0 => st.flags[t][0].lastFlagIndex = n - 1
    /\ \A i \in 0 .. n - 1 :
         /\ EntryShown(st, t, i)
         /\ \/ st.flags[t][i].result \in {"kicked", "failed"}
            \/ flag.phase # "none" /\ i = n - 1
    /\ flag.phase # "none" => n > 0 /\ OpenShown(st, t, n - 1, flag)
    /\ \A vote \in st.votes : vote.target = t => vote.index \in 0 .. n - 1

VotesTyped(st) == IsFiniteSet(st.votes) /\ \A vote \in st.votes : vote.weight \in Int

HistoriesInv ==
    /\ VotesTyped(store)
    /\ \A t \in Operators : \E n : HistoryShown(store, t, n, flags[t])

IndexInv == IsStore(store) /\ StakesInv /\ TotalsInv /\ NetworkInv /\ HistoriesInv

\* What is known of the contract before and after a transaction
Sound == IInv /\ SettlementInv /\ VotesInv

LEMMA SoundFacts ==
    ASSUME Sound
    PROVE  /\ books \in Books /\ Covered(books) /\ Commits(books)
           /\ config \in Configs
           /\ RewardsPaid => Agree(books)
           /\ \A o \in Operators : /\ books.staked[o] \in Nat /\ books.locked[o] \in Nat
                                   /\ books.locked[o] <= books.staked[o]
           /\ books.pool \in Nat
<1>1. /\ books \in Books /\ Covered(books) /\ Commits(books)
      /\ config \in Configs
      /\ RewardsPaid => Agree(books)
  BY DEF Sound, IInv, BooksInv, FlagsInv, SettlementInv, AgreeInv
<1> QED
  BY <1>1 DEF Books, Covered, Commits

-----------------------------------------------------------------------------
(* Transactions that leave the flags alone *)

Quiet(fields) == fields \subseteq {"stakes", "cumulativeSponsoring"} \cup TotalFields

LEMMA HistoryStays ==
    ASSUME NEW st, NEW u, NEW t, NEW n, NEW flag, HistoryShown(st, t, n, flag),
           u.flags[t] = st.flags[t],
           \A vote : vote \in u.votes /\ vote.target = t <=> vote \in st.votes /\ vote.target = t
    PROVE  HistoryShown(u, t, n, flag)
<1>1. \A i : VotesOf(u, t, i) = VotesOf(st, t, i)
  BY DEF VotesOf
<1> QED
  BY <1>1 DEF HistoryShown, EntryShown, OpenShown

LEMMA FlagsStayShown ==
    ASSUME IndexInv, NEW fields, NEW P, OnlyThese(store, store', fields, P), Quiet(fields),
           UNCHANGED <<config, flags>>
    PROVE  IsStore(store') /\ NetworkInv' /\ HistoriesInv'
<1>1. IsStore(store')
  BY DEF OnlyThese
<1>2. /\ store'.network = store.network
      /\ store'.flags = store.flags
      /\ store'.votes = store.votes
  BY DEF OnlyThese, Quiet, StoreFields, TotalFields
<1>3. NetworkInv'
  BY <1>2 DEF IndexInv, NetworkInv
<1>4. VotesTyped(store')
  BY <1>2 DEF IndexInv, HistoriesInv, VotesTyped
<1>5. ASSUME NEW t \in Operators
      PROVE  \E n : HistoryShown(store', t, n, flags'[t])
  <2>1. PICK n : HistoryShown(store, t, n, flags[t])
    BY DEF IndexInv, HistoriesInv
  <2>2. HistoryShown(store', t, n, flags[t])
    BY <1>2, <2>1, HistoryStays
  <2> QED
    BY <2>2
<1>6. HistoriesInv'
  BY <1>4, <1>5 DEF HistoriesInv
<1> QED
  BY <1>1, <1>3, <1>6

\* The stakes of those the log is not about stay shown.
LEMMA StakesStayShown ==
    ASSUME Sound, Sound', StakesInv, NEW fields, NEW P, OnlyThese(store, store', fields, P),
           \A o \in Operators \ P : Same(books, books', o),
           RewardsPaid => \A o \in P : StakeShown(store', books', o)
    PROVE  StakesInv'
<1>1. ASSUME RewardsPaid, NEW o \in Operators, o \notin P
      PROVE  StakeShown(store', books', o)
  <2>1. Agree(books) /\ Agree(books')
    <3>1. RewardsPaid => Agree(books)
      BY SoundFacts
    <3>2. RewardsPaid' => Agree(books')
      BY DEF Sound, SettlementInv, AgreeInv
    <3> QED
      BY <1>1, <3>1, <3>2 DEF RewardsPaid
  <2>2. o \in books'.joined <=> o \in books.joined
    BY <1>1, <2>1 DEF Agree, Same
  <2>3. SameStake(store, store', o) /\ Same(books, books', o) /\ StakeShown(store, books, o)
    BY <1>1 DEF OnlyThese, StakesInv
  <2> QED
    BY <2>2, <2>3 DEF SameStake, Same, StakeShown
<1> QED
  BY <1>1 DEF StakesInv, RewardsPaid

LEMMA AgreeAfter ==
    ASSUME Sound', RewardsPaid
    PROVE  Agree(books')
  BY DEF Sound, SettlementInv, AgreeInv, RewardsPaid

\* A StakeUpdate shows the stake, and keeps the lock as it was.
LEMMA ToldStakeIsShown ==
    ASSUME NEW st, IsStore(st), NEW u, NEW b, NEW d, NEW o \in Operators, StakeTold(st, u, d, o),
           Agree(b), Agree(d), d.staked[o] \in Nat,
           b.staked[o] \in Nat, b.locked[o] \in Nat, b.locked[o] <= b.staked[o],
           d.locked[o] = b.locked[o], StakeShown(st, b, o)
    PROVE  StakeShown(u, d, o)
<1>1. /\ o \in d.joined <=> d.staked[o] > 0
      /\ o \in b.joined <=> b.staked[o] > 0
  BY DEF Agree
<1>2. CASE d.staked[o] = 0
  BY <1>1, <1>2 DEF StakeTold, StakeShown
<1>3. CASE d.staked[o] # 0
  <2>1. StakeEntity(st, o).lockedWei = b.locked[o]
    <3>1. CASE o \in DOMAIN st.stakes
      BY <3>1, EntityIs DEF StakeShown
    <3>2. CASE o \notin DOMAIN st.stakes
      <4>1. b.locked[o] = 0
        BY <1>1, <3>2 DEF StakeShown
      <4>2. StakeEntity(st, o) = Index!NewStake
        BY <3>2 DEF StakeEntity, Index!Entity
      <4> QED
        BY <4>1, <4>2 DEF Index!NewStake
    <3> QED
      BY <3>1, <3>2
  <2> QED
    BY <1>1, <1>3, <2>1 DEF StakeTold, StakeShown
<1> QED
  BY <1>2, <1>3

LEMMA IndexedSponsorKeeps ==
    ASSUME Sound, Sound', IndexInv, NEW amount \in Nat, IndexedSponsor(amount)
    PROVE  IndexInv'
<1>1. /\ store' = Index!HandleAll(store, SponsorEvents(books, books', amount))
      /\ Sponsor(amount)
  BY DEF IndexedSponsor, EmitsWithin, Emits
<1>2. /\ books \in Books /\ books.pool \in Nat /\ books'.pool \in Nat
  BY SoundFacts DEF Sound, IInv, BooksInv, Books, Commits
<1>3. /\ books'.pool - books.pool >= amount
      /\ books'.staked = books.staked /\ books'.locked = books.locked
      /\ UNCHANGED <<config, flags>>
  <2> DEFINE held == books.balance + amount
             swept == held - books.totalStaked - books.forfeited
  <2>1. /\ books' = [books EXCEPT !.balance = held, !.pool = swept]
        /\ swept - books.pool >= amount
        /\ UNCHANGED <<config, flags>>
    BY <1>1 DEF Sponsor, Commit
  <2> HIDE DEF held, swept
  <2> QED
    BY <1>2, <2>1 DEF Books
<1>4. IsStore(store) /\ store.cumulativeSponsoring \in Int
      /\ store.cumulativeSponsoring >= books.pool
  BY DEF IndexInv, TotalsInv
<1>5. /\ OnlyThese(store, store', {"cumulativeSponsoring"} \cup TotalFields, {})
      /\ TotalsTold(store', books')
      /\ store'.cumulativeSponsoring = store.cumulativeSponsoring + (books'.pool - books.pool)
  <2> DEFINE before == books
             after == books'
             u == Index!HandleAll(store, SponsorEvents(before, after, amount))
  <2>1. /\ before.pool \in Int /\ after.pool \in Int /\ after.pool - before.pool >= amount
        /\ store.cumulativeSponsoring \in Int /\ IsStore(store)
    BY <1>2, <1>3, <1>4
  <2>2. store' = u
    BY <1>1
  <2> HIDE DEF before, after
  <2>3. /\ OnlyThese(store, u, {"cumulativeSponsoring"} \cup TotalFields, {})
        /\ TotalsTold(u, after)
        /\ u.cumulativeSponsoring = store.cumulativeSponsoring + (after.pool - before.pool)
    BY <2>1, SponsorEventsHandled
  <2> HIDE DEF u
  <2> QED
    BY <2>2, <2>3 DEF before, after
<1>6. IsStore(store') /\ NetworkInv' /\ HistoriesInv'
  BY <1>3, <1>5, FlagsStayShown DEF Quiet
<1>7. StakesInv'
  <2>1. \A o \in Operators : Same(books, books', o)
    BY <1>3 DEF Same
  <2> QED
    BY <1>5, <2>1, StakesStayShown DEF IndexInv
<1>8. TotalsInv'
  BY <1>2, <1>3, <1>4, <1>5 DEF TotalsInv
<1> QED
  BY <1>6, <1>7, <1>8 DEF IndexInv

\* Stake and reduceStakeTo: the operator's stake changes, its lock does not.
LEMMA StakeChangeKeeps ==
    ASSUME Sound, Sound', IndexInv, NEW o \in Operators, Emits(StakeEvents(books', o)),
           UNCHANGED <<config, flags>>, books'.locked = books.locked,
           books'.pool = books.pool,
           \A p \in Operators \ {o} : books'.staked[p] = books.staked[p]
    PROVE  IndexInv'
<1> DEFINE fields == {"stakes"} \cup TotalFields
<1>1. IsStore(store) /\ StakesInv /\ TotalsInv
  BY DEF IndexInv
<1>2. \A p \in Operators : books'.staked[p] \in Nat
  BY DEF Sound, IInv, BooksInv, Books
<1>3. /\ OnlyThese(store, store', fields, {o})
      /\ StakeTold(store, store', books', o)
      /\ TotalsTold(store', books')
  <2> DEFINE b == books'
  <2>1. b.staked[o] \in Int
    BY <1>2
  <2> HIDE DEF b
  <2>2. LET u == Index!HandleAll(store, StakeEvents(b, o))
        IN  /\ OnlyThese(store, u, {"stakes"} \cup TotalFields, {o})
            /\ StakeTold(store, u, b, o)
            /\ TotalsTold(u, b)
    BY <1>1, <2>1, StakeEventsHandled
  <2> QED
    BY <2>2 DEF b, Emits
<1>4. IsStore(store') /\ NetworkInv' /\ HistoriesInv'
  BY <1>3, FlagsStayShown DEF Quiet
<1>5. TotalsInv'
  <2>1. store'.cumulativeSponsoring = store.cumulativeSponsoring
    BY <1>3 DEF OnlyThese, StoreFields, TotalFields
  <2> QED
    BY <1>1, <1>3, <2>1 DEF TotalsInv
<1>6. RewardsPaid => \A p \in {o} : StakeShown(store', books', p)
  <2> SUFFICES ASSUME RewardsPaid PROVE StakeShown(store', books', o)
    OBVIOUS
  <2>1. /\ books.staked[o] \in Nat /\ books.locked[o] \in Nat
        /\ books.locked[o] <= books.staked[o]
        /\ Agree(books)
    BY SoundFacts
  <2>2. Agree(books')
    BY AgreeAfter
  <2>3. books'.locked[o] = books.locked[o] /\ books'.staked[o] \in Nat
    BY <1>2
  <2>4. StakeShown(store, books, o)
    BY <1>1 DEF StakesInv
  <2> QED
    BY <1>1, <1>3, <2>1, <2>2, <2>3, <2>4, ToldStakeIsShown
<1>7. \A p \in Operators \ {o} : Same(books, books', p)
  BY DEF Same
<1>8. StakesInv'
  BY <1>1, <1>3, <1>6, <1>7, StakesStayShown
<1> QED
  BY <1>4, <1>5, <1>8 DEF IndexInv

LEMMA IndexedStakeKeeps ==
    ASSUME Sound, Sound', IndexInv, NEW o \in Operators, NEW amount \in Nat,
           IndexedStake(o, amount)
    PROVE  IndexInv'
<1> DEFINE stake == books.staked[o] + amount
           balance == books.balance + amount
           total == books.totalStaked + amount
           count == books.operatorCount + 1
           who == books.joined \cup {o}
           more == [books.staked EXCEPT ![o] = stake]
           paidIn == [books EXCEPT !.balance = balance, !.staked = more,
                                   !.totalStaked = total]
           joined == [paidIn EXCEPT !.operatorCount = count, !.joined = who]
<1>1. /\ books \in Books
      /\ Emits(StakeEvents(books', o))
      /\ books' = paidIn \/ books' = joined
      /\ UNCHANGED <<config, flags>>
  BY SoundFacts DEF IndexedStake, Stake, Commit, Books
<1>2. \A p \in Operators \ {o} : more[p] = books.staked[p]
  BY <1>1 DEF Books
<1> HIDE DEF stake, balance, total, count, who, more
<1>3. books'.locked = books.locked /\ books'.pool = books.pool /\ books'.staked = more
  BY <1>1 DEF Books
<1>4. /\ books'.locked = books.locked /\ books'.pool = books.pool
      /\ \A p \in Operators \ {o} : books'.staked[p] = books.staked[p]
  BY <1>2, <1>3
<1> QED
  BY <1>1, <1>4, StakeChangeKeeps

LEMMA IndexedReduceStakeToKeeps ==
    ASSUME Sound, Sound', IndexInv, NEW o \in Operators, NEW target \in Nat,
           IndexedReduceStakeTo(o, target)
    PROVE  IndexInv'
<1> DEFINE by == books.staked[o] - target
           less == ReduceStakeBy(books, o, by)
<1>1. /\ books \in Books /\ Covered(books) /\ books.staked[o] \in Nat
      /\ Emits(StakeEvents(books', o))
      /\ target < books.staked[o]
      /\ \E balance : books' = [less EXCEPT !.balance = balance]
      /\ UNCHANGED <<config, flags>>
  BY SoundFacts DEF IndexedReduceStakeTo, ReduceStakeTo, Commit
<1>2. by \in Nat
  BY <1>1
<1> HIDE DEF by
<1>3. less \in Books
  BY <1>1, <1>2, ReduceStakeByEffect
<1>4. \E stake : /\ less.staked = [books.staked EXCEPT ![o] = stake]
                 /\ less.locked = books.locked /\ less.pool = books.pool
  <2> DEFINE taken == Reduction(books, o, by)
  <2>1. /\ less.staked = [books.staked EXCEPT ![o] = books.staked[o] - taken]
        /\ less.locked = books.locked
        /\ less.joined = books.joined
        /\ less.operatorCount = books.operatorCount
        /\ less.totalStaked = books.totalStaked - taken
        /\ less.forfeited = books.forfeited
        /\ less.pool = books.pool
    BY <1>1, <1>2, ReduceStakeByFields
  <2> QED
    BY <2>1
<1> HIDE DEF less
<1>5. /\ books'.locked = books.locked /\ books'.pool = books.pool
      /\ \A p \in Operators \ {o} : books'.staked[p] = books.staked[p]
  BY <1>1, <1>3, <1>4 DEF Books
<1> QED
  BY <1>1, <1>5, StakeChangeKeeps

LEMMA IndexedWithdrawKeeps ==
    ASSUME Sound, Sound', IndexInv, NEW o \in Operators, NEW earnings \in Nat, NEW accepted,
           IndexedWithdraw(o, earnings, accepted)
    PROVE  IndexInv'
<1>1. /\ books \in Books
      /\ store' = Index!HandleAll(store, <<StakeUpdate(books, o)>>)
      /\ \E balance : books' = [books EXCEPT !.pool = books.pool - earnings,
                                             !.balance = balance]
      /\ UNCHANGED <<config, flags>>
  BY SoundFacts DEF IndexedWithdraw, Emits, Withdraw, Commit, WithdrawEarnings
<1>2. IsStore(store) /\ StakesInv /\ TotalsInv
  BY DEF IndexInv
<1>3. /\ books.staked[o] \in Nat /\ books.locked[o] \in Nat /\ books.locked[o] <= books.staked[o]
      /\ books.pool \in Nat
  BY SoundFacts
<1>4. /\ books'.staked = books.staked /\ books'.locked = books.locked
      /\ books'.totalStaked = books.totalStaked /\ books'.operatorCount = books.operatorCount
      /\ books'.pool = books.pool - earnings
  <2> DEFINE pool == books.pool - earnings
  <2> HIDE DEF pool
  <2>1. \E balance : books' = [books EXCEPT !.pool = pool, !.balance = balance]
    BY <1>1 DEF pool
  <2>2. /\ books'.staked = books.staked /\ books'.locked = books.locked
        /\ books'.totalStaked = books.totalStaked /\ books'.operatorCount = books.operatorCount
        /\ books'.pool = pool
    BY <1>1, <2>1 DEF Books
  <2> QED
    BY <2>2 DEF pool
<1>5. OnlyThese(store, store', {"stakes"}, {o}) /\ StakeTold(store, store', books, o)
  <2> DEFINE u == Index!HandleAll(store, <<StakeUpdate(books, o)>>)
  <2>1. OnlyThese(store, u, {"stakes"}, {o}) /\ StakeTold(store, u, books, o)
    BY <1>2, <1>3, StakeIsTold
  <2> HIDE DEF u
  <2> QED
    BY <1>1, <2>1 DEF u
<1>6. StakeTold(store, store', books', o)
  BY <1>4, <1>5 DEF StakeTold
<1>7. IsStore(store') /\ NetworkInv' /\ HistoriesInv'
  BY <1>1, <1>5, FlagsStayShown DEF Quiet
<1>8. TotalsInv'
  <2>1. /\ store'.cumulativeSponsoring = store.cumulativeSponsoring
        /\ store'.totalStakedWei = store.totalStakedWei
        /\ store'.operatorCount = store.operatorCount
    BY <1>5 DEF OnlyThese, StoreFields
  <2> QED
    BY <1>2, <1>3, <1>4, <2>1 DEF TotalsInv, TotalsTold
<1>9. RewardsPaid => \A p \in {o} : StakeShown(store', books', p)
  <2> SUFFICES ASSUME RewardsPaid PROVE StakeShown(store', books', o)
    OBVIOUS
  <2>1. Agree(books) /\ Agree(books')
    BY SoundFacts, AgreeAfter
  <2>2. books'.locked[o] = books.locked[o] /\ books'.staked[o] \in Nat
    BY <1>3, <1>4
  <2>3. StakeShown(store, books, o)
    BY <1>2 DEF StakesInv
  <2> QED
    BY <1>2, <1>3, <1>6, <2>1, <2>2, <2>3, ToldStakeIsShown
<1>10. \A p \in Operators \ {o} : Same(books, books', p)
  BY <1>4 DEF Same
<1>11. StakesInv'
  BY <1>2, <1>5, <1>9, <1>10, StakesStayShown
<1> QED
  BY <1>7, <1>8, <1>11 DEF IndexInv

LEMMA NoStakeIsLeft ==
    ASSUME NEW b \in Books, NEW o \in Operators, NEW terms \in LeaveTerms, Covered(b)
    PROVE  RemoveOperator(b, o, terms).staked[o] = 0
<1> DEFINE c == RemoveOperator(b, o, terms)
<1>1. /\ c.staked = [b.staked EXCEPT ![o] = 0]
      /\ c.locked = [b.locked EXCEPT ![o] = 0]
      /\ c.joined = b.joined \ {o}
      /\ c.operatorCount = b.operatorCount - 1
      /\ c.totalStaked = b.totalStaked - b.staked[o]
      /\ c.forfeited = b.forfeited + b.locked[o]
      /\ c.pool \in {b.pool, b.pool - terms.earnings}
  BY RemoveOperatorFields
<1> HIDE DEF c
<1> QED
  BY <1>1 DEF Books, c

\* An operator that has gone has no Stake entity any more.
LEMMA GoneKeeps ==
    ASSUME Sound, Sound', IndexInv, NEW o \in Operators, NEW terms \in LeaveTermsOf(o),
           books' = RemoveOperator(books, o, terms), GoneTold(store, store', books', o),
           UNCHANGED <<config, flags>>
    PROVE  IndexInv'
<1>1. /\ books \in Books /\ Covered(books) /\ books.pool \in Nat
      /\ terms \in LeaveTerms
  BY SoundFacts, LeaveTermsTyped DEF Sound, IInv
<1>2. /\ books'.staked = [books.staked EXCEPT ![o] = 0]
      /\ books'.locked = [books.locked EXCEPT ![o] = 0]
      /\ books'.joined = books.joined \ {o}
      /\ books'.pool \in {books.pool, books.pool - terms.earnings}
  BY <1>1, RemoveOperatorFields
<1>3. \A p \in Operators \ {o} : Same(books, books', p)
  BY <1>1, <1>2 DEF Same, Books
<1>4. OnlyThese(store, store', {"stakes"} \cup TotalFields, {o})
  BY DEF GoneTold
<1>5. IsStore(store') /\ NetworkInv' /\ HistoriesInv'
  BY <1>4, FlagsStayShown DEF Quiet
<1>6. StakeShown(store', books', o)
  BY <1>2 DEF GoneTold, StakeShown
<1>7. StakesInv'
  BY <1>3, <1>4, <1>6, StakesStayShown DEF IndexInv
<1>8. TotalsInv'
  <2>1. store'.cumulativeSponsoring = store.cumulativeSponsoring
    BY <1>4 DEF OnlyThese, StoreFields, TotalFields
  <2>2. terms.earnings \in Nat
    BY <1>1 DEF LeaveTerms
  <2>3. books'.pool \in Int /\ books'.pool <= books.pool
    BY <1>1, <1>2, <2>2
  <2>4. /\ store.cumulativeSponsoring \in Int
        /\ store.cumulativeSponsoring >= books.pool
    BY DEF IndexInv, TotalsInv
  <2>5. store'.cumulativeSponsoring \in Int /\ store'.cumulativeSponsoring >= books'.pool
    BY <1>1, <2>1, <2>3, <2>4
  <2> QED
    BY <2>5 DEF TotalsInv, GoneTold
<1> QED
  BY <1>5, <1>7, <1>8 DEF IndexInv

LEMMA LeavingKeeps ==
    ASSUME Sound, Sound', IndexInv, NEW o \in Operators, NEW terms \in LeaveTermsOf(o),
           Commit(RemoveOperator(books, o, terms)), Emits(LeaveEvents(books, o, terms)),
           UNCHANGED <<config, flags>>
    PROVE  IndexInv'
<1>1. /\ books \in Books /\ Covered(books) /\ terms \in LeaveTerms /\ IsStore(store)
      /\ books.locked[o] \in Int
  BY SoundFacts, LeaveTermsTyped DEF Sound, IInv, IndexInv
<1>2. books' = RemoveOperator(books, o, terms)
  BY DEF Commit
<1>3. RemoveOperator(books, o, terms).staked[o] = 0
  BY <1>1, NoStakeIsLeft
<1>4. terms.penalty \in Int
  BY <1>1 DEF LeaveTerms
<1>5. GoneTold(store, Index!HandleAll(store, LeaveEvents(books, o, terms)),
               RemoveOperator(books, o, terms), o)
  BY <1>1, <1>3, <1>4, LeaveEventsHandled
<1>6. GoneTold(store, store', books', o)
  BY <1>2, <1>5 DEF Emits
<1> QED
  BY <1>2, <1>6, GoneKeeps

LEMMA IndexedUnstakeKeeps ==
    ASSUME Sound, Sound', IndexInv, NEW o \in Operators, NEW terms \in LeaveTermsOf(o),
           IndexedUnstake(o, terms) \/ IndexedForceUnstake(o, terms)
    PROVE  IndexInv'
  BY LeavingKeeps DEF IndexedUnstake, IndexedForceUnstake, Unstake, ForceUnstake

\* Kicked at once: nothing is slashed, so the accounts are those of leaving.
LEMMA IndexedFlagKicksKeeps ==
    ASSUME Sound, Sound', IndexInv, NEW f, NEW t \in Operators, NEW terms \in LeaveTermsOf(t),
           IndexedFlagKicks(f, t, terms)
    PROVE  IndexInv'
<1>1. /\ books \in Books /\ Covered(books) /\ terms \in LeaveTerms /\ IsStore(store)
      /\ books.staked[t] \in Nat /\ books.locked[t] \in Nat
  BY SoundFacts, LeaveTermsTyped DEF Sound, IInv, IndexInv
<1>2. /\ books' = RemoveOperator(books, t, terms)
      /\ store' = Index!HandleAll(store, KickEvents(books, t, 0, terms))
      /\ UNCHANGED <<config, flags>>
  BY DEF IndexedFlagKicks, FlagKicks, Commit, Emits
<1>3. ReduceStakeBy(books, t, 0) = books
  <2>1. Reduction(books, t, 0) = 0
    BY <1>1 DEF Reduction, Smaller
  <2>2. /\ books.staked[t] - 0 = books.staked[t] /\ books.totalStaked - 0 = books.totalStaked
    BY <1>1 DEF Books
  <2>3. ReduceStakeBy(books, t, 0)
          = [books EXCEPT !.staked[t] = books.staked[t], !.totalStaked = books.totalStaked]
    BY <1>1, <2>1, <2>2 DEF ReduceStakeBy, Books
  <2> QED
    BY <1>1, <2>3 DEF Books
<1>4. Kick(books, t, 0, terms) = RemoveOperator(books, t, terms)
  BY <1>3 DEF Kick
<1>5. RemoveOperator(books, t, terms).staked[t] = 0
  BY <1>1, NoStakeIsLeft
<1>6. terms.penalty \in Int /\ books.locked[t] \in Int
  BY <1>1 DEF LeaveTerms
<1>7. GoneTold(store, Index!HandleAll(store, KickEvents(books, t, 0, terms)),
               Kick(books, t, 0, terms), t)
  <2>1. ReduceStakeBy(books, t, 0).locked[t] \in Int /\ Kick(books, t, 0, terms).staked[t] = 0
    BY <1>3, <1>4, <1>5, <1>6
  <2>2. 0 \in Int
    OBVIOUS
  <2> QED
    BY <1>1, <1>6, <2>1, <2>2, KickEventsHandled
<1>8. GoneTold(store, store', books', t)
  BY <1>2, <1>4, <1>7
<1> QED
  BY <1>2, <1>8, GoneKeeps

LEMMA IndexedChangeConfigKeeps ==
    ASSUME Sound, Sound', IndexInv, NEW c \in Configs, IndexedChangeConfig(c)
    PROVE  IndexInv'
<1>1. /\ config' = c /\ UNCHANGED <<books, flags>>
      /\ store' = Index!HandleAll(store, ConfigEvents(config, c))
  BY DEF IndexedChangeConfig, ChangeConfig, Emits
<1>2. /\ IsStore(store) /\ NetworkShows(store.network, config) /\ MinimumShown(store.network)
  BY DEF IndexInv, NetworkInv
<1>3. /\ OnlyThese(store, store', {"network"}, {})
      /\ NetworkShows(store'.network, c) /\ MinimumShown(store'.network)
  <2> DEFINE u == Index!HandleAll(store, ConfigEvents(config, c))
  <2>1. /\ OnlyThese(store, u, {"network"}, {})
        /\ NetworkShows(u.network, c) /\ MinimumShown(u.network)
    BY <1>2, ConfigEventsHandled
  <2> HIDE DEF u
  <2> QED
    BY <1>1, <2>1 DEF u
<1>4. /\ store'.flags = store.flags /\ store'.votes = store.votes
      /\ store'.totalStakedWei = store.totalStakedWei
      /\ store'.operatorCount = store.operatorCount
      /\ store'.cumulativeSponsoring = store.cumulativeSponsoring
      /\ IsStore(store')
  BY <1>3 DEF OnlyThese, StoreFields
<1>5. NetworkInv' /\ TotalsInv'
  BY <1>1, <1>3, <1>4 DEF IndexInv, NetworkInv, TotalsInv, TotalsTold
<1>6. HistoriesInv'
  <2>1. ASSUME NEW t \in Operators
        PROVE  \E n : HistoryShown(store', t, n, flags'[t])
    <3>1. PICK n : HistoryShown(store, t, n, flags[t])
      BY DEF IndexInv, HistoriesInv
    <3> QED
      BY <1>1, <1>4, <3>1, HistoryStays
  <2>2. VotesTyped(store')
    BY <1>4 DEF IndexInv, HistoriesInv, VotesTyped
  <2> QED
    BY <2>1, <2>2 DEF HistoriesInv
<1>7. StakesInv'
  <2>1. \A o \in Operators : Same(books, books', o)
    BY <1>1 DEF Same
  <2> QED
    BY <1>3, <2>1, StakesStayShown DEF IndexInv
<1> QED
  BY <1>4, <1>5, <1>6, <1>7 DEF IndexInv

-----------------------------------------------------------------------------
(* The entities of the flags *)

\* Of the flags, one is new or changed.
FlagKept(st, u, t, index, flag) ==
    /\ \A p \in Operators \ {t} : u.flags[p] = st.flags[p]
    /\ DOMAIN u.flags[t] = DOMAIN st.flags[t] \cup {index}
    /\ u.flags[t][index] = flag
    /\ \A i \in DOMAIN st.flags[t] \ {index} : u.flags[t][i] = st.flags[t][i]

\* One flag is saved, and nothing else.
FlagSaved(st, u, t, index, flag) ==
    OnlyThese(st, u, {"flags"}, {}) /\ FlagKept(st, u, t, index, flag)

LEMMA SavedFlag ==
    ASSUME NEW st, IsStore(st), NEW t \in Operators, NEW index, NEW flag
    PROVE  FlagSaved(st, Index!SaveFlag(st, t, index, flag), t, index, flag)
<1> DEFINE u == Index!SaveFlag(st, t, index, flag)
           saved == Index!Save(st.flags[t], index, flag)
           all == [st.flags EXCEPT ![t] = saved]
<1>1. u = [st EXCEPT !.flags = all]
  BY DEF Index!SaveFlag, IsStore, StoreFields
<1>2. /\ DOMAIN saved = DOMAIN st.flags[t] \cup {index}
      /\ saved[index] = flag
      /\ \A i \in DOMAIN st.flags[t] \ {index} : saved[i] = st.flags[t][i]
  BY DEF Index!Save
<1> HIDE DEF u, saved
<1>3. /\ DOMAIN all = Operators /\ all[t] = saved
      /\ \A p \in Operators \ {t} : all[p] = st.flags[p]
  BY DEF IsStore
<1> HIDE DEF all
<1>4. /\ DOMAIN u = StoreFields /\ u.flags = all
      /\ \A field \in StoreFields \ {"flags"} : u[field] = st[field]
  BY <1>1 DEF IsStore, StoreFields
<1>5. OnlyThese(st, u, {"flags"}, {})
  BY <1>3, <1>4, FieldsWritten
<1> QED
  BY <1>2, <1>3, <1>4, <1>5 DEF FlagSaved, FlagKept, u

\* There have been n flags: the next one gets index n.
Counted(st, t, n) ==
    /\ 0 \in DOMAIN st.flags[t] => st.flags[t][0].lastFlagIndex + 1 = n
    /\ 0 \notin DOMAIN st.flags[t] => n = 0

LEMMA ReviewRequestHandled ==
    ASSUME NEW st, IsStore(st), NEW t \in Operators, NEW n, Counted(st, t, n), NEW v
    PROVE  LET flag == Index!Entity(st.flags[t], n, Index!NewFlag)
           IN  FlagSaved(st, Index!Handle(st, ReviewRequest(t, v)), t, n,
                         [flag EXCEPT !.reviewers = Append(@, v)])
<1> DEFINE e == ReviewRequest(t, v)
           flag == Index!Entity(st.flags[t], n, Index!NewFlag)
           asked == [flag EXCEPT !.reviewers = Append(@, v)]
<1>1. e.name = "ReviewRequest" /\ e.target = t /\ e.reviewer = v
  BY DEF ReviewRequest
<1> HIDE DEF e
<1>2. Index!Handle(st, e) = Index!HandleReviewRequest(st, e)
  BY <1>1 DEF Index!Handle
<1>3. (IF 0 \in DOMAIN st.flags[t] THEN Index!FirstFlag(st, t).lastFlagIndex + 1 ELSE 0) = n
  BY DEF Counted, Index!FirstFlag, Index!Entity
<1>4. Index!HandleReviewRequest(st, e) = Index!SaveFlag(st, t, n, asked)
  BY <1>1, <1>3 DEF Index!HandleReviewRequest
<1> HIDE DEF asked
<1>5. FlagSaved(st, Index!SaveFlag(st, t, n, asked), t, n, asked)
  BY SavedFlag
<1> QED
  BY <1>2, <1>4, <1>5 DEF e, asked

NewFlagFor(reviewers) == [Index!NewFlag EXCEPT !.reviewers = reviewers]

\* The flag that follows n others, when these reviewers have been asked.
Asked(st, u, t, n, reviewers) == FlagSaved(st, u, t, n, NewFlagFor(reviewers))

LEMMA NextIsAsked ==
    ASSUME NEW st, IsStore(st), NEW t \in Operators, NEW n \in Nat, Counted(st, t, n),
           DOMAIN st.flags[t] = 0 .. n - 1,
           NEW w, NEW reviewers, (w = st /\ reviewers = <<>>) \/ Asked(st, w, t, n, reviewers),
           NEW v
    PROVE  Asked(st, Index!Handle(w, ReviewRequest(t, v)), t, n, Append(reviewers, v))
<1> DEFINE u == Index!Handle(w, ReviewRequest(t, v))
           entity == Index!Entity(w.flags[t], n, Index!NewFlag)
           more == Append(reviewers, v)
           asked == [entity EXCEPT !.reviewers = Append(@, v)]
           new == Index!NewFlag
<1>1. /\ DOMAIN new = FlagFields /\ new.reviewers = <<>> /\ new.lastFlagIndex = -1
  BY DEF Index!NewFlag, FlagFields
<1>2. \A rs : /\ DOMAIN NewFlagFor(rs) = FlagFields /\ NewFlagFor(rs).reviewers = rs
              /\ NewFlagFor(rs).lastFlagIndex = -1
              /\ [NewFlagFor(rs) EXCEPT !.reviewers = more] = NewFlagFor(more)
  BY <1>1 DEF NewFlagFor, FlagFields
<1>3. n \notin DOMAIN st.flags[t]
  OBVIOUS
<1>4. CASE w = st /\ reviewers = <<>>
  <2>1. entity = new
    BY <1>3, <1>4 DEF Index!Entity
  <2>2. asked = NewFlagFor(more)
    BY <1>1, <1>4, <2>1 DEF NewFlagFor
  <2> HIDE DEF asked, u, more
  <2>3. FlagSaved(st, u, t, n, asked)
    BY <1>4, ReviewRequestHandled DEF u, asked
  <2> QED
    BY <2>2, <2>3 DEF Asked, u, more
<1>5. CASE Asked(st, w, t, n, reviewers)
  <2>1. FlagSaved(st, w, t, n, NewFlagFor(reviewers))
    BY <1>5 DEF Asked
  <2>2. IsStore(w) /\ n \in DOMAIN w.flags[t] /\ w.flags[t][n] = NewFlagFor(reviewers)
    BY <2>1 DEF FlagSaved, FlagKept, OnlyThese
  <2>3. entity = NewFlagFor(reviewers)
    BY <2>2 DEF Index!Entity
  <2>4. asked = NewFlagFor(more)
    BY <1>2, <2>3
  <2>5. Counted(w, t, n)
    <3>1. CASE n = 0
      <4>1. w.flags[t][0].lastFlagIndex = -1 /\ 0 \in DOMAIN w.flags[t]
        BY <1>2, <2>2, <3>1
      <4> QED
        BY <3>1, <4>1 DEF Counted
    <3>2. CASE n > 0
      <4>1. 0 \in DOMAIN st.flags[t] /\ 0 # n
        BY <3>2
      <4>2. 0 \in DOMAIN w.flags[t] /\ w.flags[t][0] = st.flags[t][0]
        BY <2>1, <4>1 DEF FlagSaved, FlagKept
      <4> QED
        BY <4>1, <4>2 DEF Counted
    <3> QED
      BY <3>1, <3>2
  <2> HIDE DEF asked, u, more
  <2>6. FlagSaved(w, u, t, n, asked)
    BY <2>2, <2>5, ReviewRequestHandled DEF u, asked
  <2>7. FlagSaved(st, u, t, n, asked)
    BY <1>3, <2>1, <2>6 DEF FlagSaved, FlagKept, OnlyThese, SameStake
  <2> QED
    BY <2>4, <2>7 DEF Asked, u, more
<1> QED
  BY <1>4, <1>5

\* The first k reviewers of a list
FirstOf(list, k) == [i \in 1 .. k |-> list[i]]

LEMMA FirstOfGrows ==
    ASSUME NEW S, NEW list \in Seq(S), NEW k \in 1 .. Len(list)
    PROVE  /\ FirstOf(list, k) = Append(FirstOf(list, k - 1), list[k])
           /\ FirstOf(list, 0) = <<>>
           /\ FirstOf(list, Len(list)) = list
<1>1. /\ k \in Nat /\ k - 1 \in Nat
      /\ \A i \in 1 .. k : list[i] \in S
  OBVIOUS
<1>2. FirstOf(list, k - 1) \in Seq(S) /\ Len(FirstOf(list, k - 1)) = k - 1
  BY <1>1 DEF FirstOf
<1>3. FirstOf(list, k) = Append(FirstOf(list, k - 1), list[k])
  <2> DEFINE a == FirstOf(list, k - 1)
             b == Append(a, list[k])
  <2>1. b \in Seq(S) /\ Len(b) = k /\ b[k] = list[k] /\ \A i \in 1 .. k - 1 : b[i] = a[i]
    <3> HIDE DEF a
    <3>1. a \in Seq(S) /\ Len(a) = k - 1 /\ list[k] \in S
      BY <1>1, <1>2 DEF a
    <3> QED
      BY <1>1, <3>1, AppendProperties
  <2>2. \A i \in 1 .. k - 1 : a[i] = list[i]
    BY DEF FirstOf
  <2> HIDE DEF a, b
  <2>3. FirstOf(list, k) \in Seq(S) /\ Len(FirstOf(list, k)) = k
    BY <1>1 DEF FirstOf
  <2>4. \A i \in 1 .. k : b[i] = FirstOf(list, k)[i]
    BY <1>1, <2>1, <2>2 DEF FirstOf
  <2>5. b = FirstOf(list, k)
    BY <2>1, <2>3, <2>4, SeqEqual
  <2> QED
    BY <2>5 DEF a, b
<1>4. FirstOf(list, 0) = <<>>
  BY DEF FirstOf
<1>5. FirstOf(list, Len(list)) = list
  BY DEF FirstOf
<1> QED
  BY <1>3, <1>4, <1>5

\* onFlag: the reviewers are asked one by one.
LEMMA RequestsHandled ==
    ASSUME NEW st, IsStore(st), NEW t \in Operators, NEW n \in Nat, Counted(st, t, n),
           DOMAIN st.flags[t] = 0 .. n - 1, NEW S, NEW list \in Seq(S), Len(list) > 0
    PROVE  LET log == [i \in DOMAIN list |-> ReviewRequest(t, list[i])]
           IN  Asked(st, Index!HandleAll(st, log), t, n, list) /\ IsLog(log)
<1> DEFINE m == Len(list)
           log == [i \in DOMAIN list |-> ReviewRequest(t, list[i])]
<1>1. m \in Nat /\ DOMAIN list = 1 .. m /\ m > 0
  OBVIOUS
<1>2. /\ DOMAIN log = 1 .. m
      /\ \A i \in 1 .. m : log[i] = ReviewRequest(t, list[i])
      /\ log = [i \in 1 .. m |-> log[i]]
  BY <1>1
<1> HIDE DEF log
<1>3. IsLog(log)
  BY <1>1, <1>2, NumberedIsLog
<1> HIDE DEF m
<1>4. PICK iter : IsReading(st, log, m, iter) /\ Index!HandleAll(st, log) = iter[1 .. m]
  <2>1. m \in Nat /\ DOMAIN log = 1 .. m
    BY <1>1, <1>2
  <2> QED
    BY <2>1, LogIsRead
<1> DEFINE T == {k \in 1 .. m : Asked(st, iter[1 .. k], t, n, FirstOf(list, k))}
<1>5. ASSUME NEW k \in 1 .. m,
             \/ /\ iter[1 .. k - 1] = st
                /\ FirstOf(list, k - 1) = <<>>
             \/ Asked(st, iter[1 .. k - 1], t, n, FirstOf(list, k - 1))
      PROVE  k \in T
  <2>1. iter[1 .. k] = Index!Handle(iter[1 .. k - 1], ReviewRequest(t, list[k]))
    BY <1>2, <1>4 DEF IsReading
  <2> DEFINE w == iter[1 .. k - 1]
             rs == FirstOf(list, k - 1)
  <2>2. (w = st /\ rs = <<>>) \/ Asked(st, w, t, n, rs)
    BY <1>5
  <2> HIDE DEF w, rs
  <2>3. Asked(st, Index!Handle(w, ReviewRequest(t, list[k])), t, n, Append(rs, list[k]))
    BY <2>2, NextIsAsked
  <2>4. FirstOf(list, k) = Append(rs, list[k])
    BY FirstOfGrows DEF rs, m
  <2> QED
    BY <2>1, <2>3, <2>4 DEF w
<1>6. 1 \in T
  <2>1. 1 \in 1 .. m /\ 1 .. 0 = {} /\ 1 - 1 = 0
    BY <1>1
  <2>2. iter[1 .. 1 - 1] = st
    BY <1>4, <2>1 DEF IsReading
  <2>3. FirstOf(list, 1 - 1) = <<>>
    BY <2>1, FirstOfGrows DEF m
  <2> HIDE DEF T
  <2> QED
    BY <1>5, <2>1, <2>2, <2>3
<1>7. ASSUME NEW i \in 1 .. m, i < m, i \in T
      PROVE  i + 1 \in T
  <2>1. i + 1 \in 1 .. m /\ (i + 1) - 1 = i
    BY <1>1, <1>7
  <2>2. Asked(st, iter[1 .. i], t, n, FirstOf(list, i))
    BY <1>7
  <2> HIDE DEF T
  <2> QED
    BY <1>5, <2>1, <2>2
<1>8. m \in T
  <2> HIDE DEF T
  <2>1. 1 .. m \subseteq T
    BY <1>1, <1>6, <1>7, IntervalInduction
  <2> QED
    BY <1>1, <2>1
<1>9. FirstOf(list, m) = list
  <2>1. 1 \in 1 .. Len(list)
    BY <1>1 DEF m
  <2> QED
    BY <2>1, FirstOfGrows DEF m
<1> QED
  BY <1>3, <1>4, <1>8, <1>9 DEF log, m

\* The voters in some order
LEMMA ListOfSet ==
    ASSUME NEW R, IsFiniteSet(R)
    PROVE  /\ SetToSeq(R) \in Seq(R)
           /\ Len(SetToSeq(R)) = Cardinality(R)
           /\ ToSet(SetToSeq(R)) = R
<1> DEFINE n == Cardinality(R)
           list == SetToSeq(R)
<1>1. n \in Nat /\ ExistsBijection(1 .. n, R)
  BY FS_CardinalityType
<1>2. \E f \in [1 .. n -> R] : IsInjective(f)
  <2>1. PICK f : f \in Bijection(1 .. n, R)
    BY <1>1, Fun_ExistsBij
  <2>2. f \in [1 .. n -> R] /\ \A a, b \in 1 .. n : f[a] = f[b] => a = b
    <3> HIDE DEF n
    <3> QED
      BY <2>1, Fun_BijectionProperties
  <2> QED
    BY <2>2 DEF IsInjective
<1>3. list \in [1 .. n -> R] /\ IsInjective(list)
  BY <1>2 DEF SetToSeq
<1> HIDE DEF list, n
<1>4. list \in Injection(1 .. n, R)
  BY <1>3, Fun_IsInj DEF IsInjective
<1>5. list \in Surjection(1 .. n, R)
  <2>1. IsFiniteSet(1 .. n) /\ Cardinality(1 .. n) = n
    BY <1>1, FS_Interval
  <2> QED
    BY <1>4, <2>1, FS_Injection DEF n
<1>6. \A x \in R : \E i \in 1 .. n : list[i] = x
  BY <1>5 DEF Surjection
<1>7. list \in Seq(R) /\ Len(list) = n /\ DOMAIN list = 1 .. n
  BY <1>1, <1>3
<1>8. ToSet(list) = R
  BY <1>3, <1>6, <1>7 DEF ToSet
<1> QED
  BY <1>7, <1>8 DEF list, n

\* All fields but the running index stay.
SameButIndex(old, new) ==
    /\ DOMAIN new = DOMAIN old
    /\ \A field \in DOMAIN old \ {"lastFlagIndex"} : new[field] = old[field]

\* The flag with index n has been raised, after n others.
FlagRaised(st, u, t, n, flagger, atRisk, reviewers, count) ==
    /\ \A p \in Operators \ {t} : u.flags[p] = st.flags[p]
    /\ DOMAIN u.flags[t] = 0 .. n
    /\ u.flags[t][0].lastFlagIndex = n
    /\ \A i \in 0 .. n - 1 : SameButIndex(st.flags[t][i], u.flags[t][i])
    /\ DOMAIN u.flags[t][n] = FlagFields
    /\ u.flags[t][n].flagger = flagger
    /\ u.flags[t][n].targetStakeAtRiskWei = atRisk
    /\ u.flags[t][n].reviewerCount = count
    /\ u.flags[t][n].reviewers = reviewers
    /\ u.flags[t][n].result = "waiting"
    /\ u.flags[t][n].votesForKick = 0 /\ u.flags[t][n].votesAgainstKick = 0

\* What is known of the flags there have been on a target
FlagsCounted(st, t, n) ==
    /\ n \in Nat
    /\ DOMAIN st.flags[t] = 0 .. n - 1
    /\ Counted(st, t, n)
    /\ n > 0 => st.flags[t][0].lastFlagIndex = n - 1
    /\ \A i \in 0 .. n - 1 : DOMAIN st.flags[t][i] = FlagFields

LEMMA FlaggedHandled ==
    ASSUME NEW st, NEW t \in Operators, NEW n, FlagsCounted(st, t, n),
           NEW w, IsStore(w), NEW reviewers, FlagKept(st, w, t, n, NewFlagFor(reviewers)),
           NEW e, e.name = "Flagged", e.target = t
    PROVE  LET u == Index!Handle(w, e)
           IN  /\ OnlyThese(w, u, {"flags"}, {})
               /\ FlagRaised(st, u, t, n, e.flagger, e.targetStakeAtRiskWei, reviewers,
                             e.reviewerCount)
<1> DEFINE u == Index!Handle(w, e)
           new == NewFlagFor(reviewers)
           first == w.flags[t][0]
           counting == [first EXCEPT !.lastFlagIndex = n]
           marked == Index!SaveFlag(w, t, 0, counting)
           entity == marked.flags[t][n]
           raised == [entity EXCEPT !.flagger = e.flagger,
                                    !.reviewerCount = e.reviewerCount,
                                    !.targetStakeAtRiskWei = e.targetStakeAtRiskWei,
                                    !.lastFlagIndex = 0]
<1>1. /\ DOMAIN new = FlagFields /\ new.reviewers = reviewers /\ new.lastFlagIndex = -1
      /\ new.result = "waiting" /\ new.votesForKick = 0 /\ new.votesAgainstKick = 0
  BY DEF NewFlagFor, Index!NewFlag, FlagFields
<1>2. /\ n \in Nat /\ DOMAIN st.flags[t] = 0 .. n - 1 /\ Counted(st, t, n)
      /\ \A i \in 0 .. n - 1 : DOMAIN st.flags[t][i] = FlagFields
  BY DEF FlagsCounted
<1>3. FlagKept(st, w, t, n, new)
  OBVIOUS
<1> HIDE DEF new
<1>4. DOMAIN w.flags[t] = 0 .. n
  <2>1. (0 .. n - 1) \cup {n} = 0 .. n
    BY <1>2
  <2> QED
    BY <1>2, <1>3, <2>1 DEF FlagSaved, FlagKept
<1>5. w.flags[t][n] = new /\ \A i \in 0 .. n - 1 : w.flags[t][i] = st.flags[t][i]
  <2>1. \A i \in 0 .. n - 1 : i \in (0 .. n - 1) \ {n}
    BY <1>2
  <2> QED
    BY <1>2, <1>3, <2>1 DEF FlagSaved, FlagKept
<1>6. 0 \in DOMAIN w.flags[t] /\ n \in DOMAIN w.flags[t]
  BY <1>2, <1>4
<1>7. DOMAIN first = FlagFields /\ first.lastFlagIndex + 1 = n
  <2>1. CASE n = 0
    BY <1>1, <1>5, <2>1
  <2>2. CASE n > 0
    <3>1. 0 \in 0 .. n - 1
      BY <1>2, <2>2
    <3> QED
      BY <1>2, <1>5, <3>1 DEF Counted
  <2> QED
    BY <1>2, <2>1, <2>2
<1>8. /\ SameButIndex(first, counting)
      /\ DOMAIN counting = FlagFields /\ counting.lastFlagIndex = n
  <2> HIDE DEF first
  <2> QED
    BY <1>7 DEF SameButIndex, FlagFields
<1>9. FlagSaved(w, marked, t, 0, counting)
  BY <1>3, SavedFlag
<1>10. u = Index!SaveFlag(marked, t, n, raised)
  <2>1. u = Index!HandleFlagged(w, e)
    BY DEF Index!Handle
  <2>2. Index!FirstFlag(w, t) = first
    BY <1>6 DEF Index!FirstFlag, Index!Entity
  <2>3. n \in DOMAIN marked.flags[t]
    <3> HIDE DEF marked
    <3> QED
      BY <1>6, <1>9 DEF FlagSaved, FlagKept
  <2>4. Index!Entity(marked.flags[t], n, Index!NewFlag) = entity
    BY <2>3 DEF Index!Entity
  <2> HIDE DEF entity, first, u
  <2>5. first.lastFlagIndex + 1 = n
    BY <1>7
  <2> QED
    BY <2>1, <2>2, <2>4, <2>5 DEF Index!HandleFlagged
<1> HIDE DEF marked, counting, first
<1>11. IsStore(marked)
  BY <1>9 DEF FlagSaved, FlagKept, OnlyThese
<1>12. SameButIndex(new, entity) /\ DOMAIN entity = FlagFields
  <2>1. CASE n = 0
    <3>1. entity = counting /\ first = new
      BY <1>5, <1>9, <2>1 DEF FlagSaved, FlagKept, first
    <3> QED
      BY <1>8, <3>1
  <2>2. CASE n > 0
    <3>1. n \in DOMAIN w.flags[t] \ {0}
      BY <1>6, <2>2
    <3>2. entity = new
      BY <1>5, <1>9, <3>1 DEF FlagSaved, FlagKept
    <3> QED
      BY <1>1, <3>2 DEF SameButIndex
  <2> QED
    BY <1>2, <2>1, <2>2
<1>13. /\ entity.result = "waiting" /\ entity.votesForKick = 0 /\ entity.votesAgainstKick = 0
       /\ entity.reviewers = reviewers
  <2> HIDE DEF entity
  <2> QED
    BY <1>1, <1>12 DEF SameButIndex, FlagFields
<1> HIDE DEF entity
<1>14. /\ DOMAIN raised = FlagFields
       /\ raised.flagger = e.flagger
       /\ raised.reviewerCount = e.reviewerCount
       /\ raised.targetStakeAtRiskWei = e.targetStakeAtRiskWei
       /\ raised.lastFlagIndex = 0
       /\ raised.result = "waiting" /\ raised.votesForKick = 0 /\ raised.votesAgainstKick = 0
       /\ raised.reviewers = reviewers
  BY <1>12, <1>13 DEF FlagFields
<1> HIDE DEF raised
<1>15. FlagSaved(marked, u, t, n, raised)
  <2> HIDE DEF u
  <2> QED
    BY <1>10, <1>11, SavedFlag
<1> HIDE DEF u
<1>16. OnlyThese(w, u, {"flags"}, {})
  BY <1>9, <1>15 DEF FlagSaved, FlagKept, OnlyThese, SameStake
<1>17. DOMAIN u.flags[t] = 0 .. n /\ u.flags[t][n] = raised
  <2>1. DOMAIN marked.flags[t] = DOMAIN w.flags[t]
    BY <1>6, <1>9 DEF FlagSaved, FlagKept
  <2>2. DOMAIN u.flags[t] = DOMAIN marked.flags[t]
    BY <1>6, <1>15, <2>1 DEF FlagSaved, FlagKept
  <2> QED
    BY <1>4, <1>15, <2>1, <2>2 DEF FlagSaved, FlagKept
<1>18. u.flags[t][0].lastFlagIndex = n
  <2>1. CASE n = 0
    BY <1>14, <1>17, <2>1
  <2>2. CASE n > 0
    <3>1. 0 \in DOMAIN marked.flags[t] \ {n} /\ marked.flags[t][0] = counting
      BY <1>9, <2>2 DEF FlagSaved, FlagKept
    <3>2. u.flags[t][0] = counting
      BY <1>15, <3>1 DEF FlagSaved, FlagKept
    <3> QED
      BY <1>8, <3>2
  <2> QED
    BY <1>2, <2>1, <2>2
<1>19. ASSUME NEW i \in 0 .. n - 1
       PROVE  SameButIndex(st.flags[t][i], u.flags[t][i])
  <2>1. i \in DOMAIN w.flags[t] /\ i # n
    BY <1>2, <1>4
  <2>2. u.flags[t][i] = marked.flags[t][i]
    <3>1. i \in DOMAIN marked.flags[t] \ {n}
      BY <1>9, <2>1 DEF FlagSaved, FlagKept
    <3> QED
      BY <1>15, <3>1 DEF FlagSaved, FlagKept
  <2>3. CASE i = 0
    <3>1. marked.flags[t][i] = counting /\ first = st.flags[t][i]
      BY <1>5, <1>9, <2>3 DEF FlagSaved, FlagKept, first
    <3> QED
      BY <1>8, <2>2, <3>1
  <2>4. CASE i # 0
    <3>1. i \in DOMAIN w.flags[t] \ {0}
      BY <2>1, <2>4
    <3>2. marked.flags[t][i] = w.flags[t][i]
      BY <1>9, <3>1 DEF FlagSaved, FlagKept
    <3>3. u.flags[t][i] = st.flags[t][i]
      BY <1>5, <2>2, <3>2
    <3> QED
      BY <3>3 DEF SameButIndex
  <2> QED
    BY <2>3, <2>4
<1>20. \A p \in Operators \ {t} : u.flags[p] = st.flags[p]
  BY <1>3, <1>9, <1>15 DEF FlagSaved, FlagKept
<1>21. FlagRaised(st, u, t, n, e.flagger, e.targetStakeAtRiskWei, reviewers, e.reviewerCount)
  BY <1>14, <1>17, <1>18, <1>19, <1>20 DEF FlagRaised
<1> QED
  BY <1>16, <1>21 DEF u

\* What a lock makes of a Stake entity
LockShown(st, u, b, o) ==
    /\ o \in DOMAIN u.stakes
    /\ u.stakes[o].lockedWei = b.locked[o]
    /\ u.stakes[o].amountWei = StakeEntity(st, o).amountWei

LEMMA LockIsShown ==
    ASSUME NEW st, IsStore(st), NEW b, NEW o \in Operators, NEW minimum
    PROVE  LET u == Index!HandleAll(st, <<StakeLockUpdate(b, o, minimum)>>)
           IN  OnlyThese(st, u, {"stakes"}, {o}) /\ LockShown(st, u, b, o)
  BY LockIsTold DEF LockShown

LEMMA SameEntity ==
    ASSUME NEW st, NEW u, NEW o, SameStake(st, u, o)
    PROVE  StakeEntity(u, o) = StakeEntity(st, o)
  BY DEF SameStake, StakeEntity, Index!Entity

LEMMA ThreeInTurn ==
    ASSUME NEW a, NEW b, NEW c
    PROVE  <<a, b, c>> = <<a>> \o <<b>> \o <<c>>
<1> DEFINE S == {a, b, c}
           A == <<a>>
           B == <<b>>
           C == <<c>>
           all == <<a, b, c>>
<1>1. /\ A \in Seq(S) /\ Len(A) = 1 /\ A[1] = a
      /\ B \in Seq(S) /\ Len(B) = 1 /\ B[1] = b
      /\ C \in Seq(S) /\ Len(C) = 1 /\ C[1] = c
  OBVIOUS
<1>2. all \in Seq(S) /\ Len(all) = 3 /\ all[1] = a /\ all[2] = b /\ all[3] = c
  OBVIOUS
<1> HIDE DEF S, A, B, C, all
<1> DEFINE D == A \o B
<1>3. /\ D \in Seq(S) /\ Len(D) = Len(A) + Len(B)
      /\ \A i \in 1 .. Len(A) + Len(B) : D[i] = IF i <= Len(A) THEN A[i] ELSE B[i - Len(A)]
  BY <1>1, ConcatProperties
<1> HIDE DEF D
<1>4. D \in Seq(S) /\ Len(D) = 2 /\ D[1] = a /\ D[2] = b
  BY <1>1, <1>3
<1>5. /\ D \o C \in Seq(S) /\ Len(D \o C) = 3
      /\ (D \o C)[1] = a /\ (D \o C)[2] = b /\ (D \o C)[3] = c
  <2> DEFINE E == D \o C
  <2>1. /\ E \in Seq(S) /\ Len(E) = Len(D) + Len(C)
        /\ \A i \in 1 .. Len(D) + Len(C) : E[i] = IF i <= Len(D) THEN D[i] ELSE C[i - Len(D)]
    BY <1>1, <1>4, ConcatProperties
  <2> HIDE DEF E
  <2> QED
    BY <1>1, <1>4, <2>1 DEF E
<1>6. \A i \in 1 .. 3 : all[i] = (D \o C)[i]
  BY <1>2, <1>5
<1>7. all = D \o C
  BY <1>2, <1>5, <1>6, SeqEqual
<1> QED
  BY <1>7 DEF D, A, B, C, all

\* onFlag's log, from the reviewers asked to the flag raised
LEMMA FlagEventsHandled ==
    ASSUME NEW st, IsStore(st), NEW f \in Operators, NEW t \in Operators, f # t,
           NEW after, NEW weight, IsFiniteSet(DOMAIN weight), DOMAIN weight # {},
           NEW n, FlagsCounted(st, t, n)
    PROVE  LET u == Index!HandleAll(st, FlagEvents(after, f, t, weight))
           IN  /\ OnlyThese(st, u, {"flags", "stakes"}, {f, t})
               /\ LockShown(st, u, after, f) /\ LockShown(st, u, after, t)
               /\ FlagRaised(st, u, t, n, f, StakeAtRisk(config, books.staked[t]),
                             SetToSeq(DOMAIN weight), Cardinality(DOMAIN weight))
<1> DEFINE R == DOMAIN weight
           list == SetToSeq(R)
           atRisk == StakeAtRisk(config, books.staked[t])
           flagged(o) == o = t \/ Open(o)
           minimumF == MinimumStakeOf(after, f, flagged(f))
           minimumT == MinimumStakeOf(after, t, TRUE)
           asking == [i \in DOMAIN list |-> ReviewRequest(t, list[i])]
           lockF == StakeLockUpdate(after, f, minimumF)
           lockT == StakeLockUpdate(after, t, minimumT)
           raise == [name |-> "Flagged", target |-> t, flagger |-> f,
                     targetStakeAtRiskWei |-> atRisk, reviewerCount |-> Cardinality(R)]
           v == Index!HandleAll(st, asking)
           w1 == Index!HandleAll(v, <<lockF>>)
           w2 == Index!HandleAll(w1, <<lockT>>)
           u == Index!Handle(w2, raise)
<1>1. FlagEvents(after, f, t, weight) = asking \o <<lockF, lockT, raise>>
  BY DEF FlagEvents
<1>2. list \in Seq(R) /\ Len(list) = Cardinality(R) /\ Len(list) > 0
  <2>1. list \in Seq(R) /\ Len(list) = Cardinality(R)
    BY ListOfSet
  <2>2. Cardinality(R) \in Nat /\ Cardinality(R) # 0
    BY FS_CardinalityType, FS_EmptySet
  <2> QED
    BY <2>1, <2>2
<1> HIDE DEF list, R, atRisk, minimumF, minimumT
<1>3. /\ raise.name = "Flagged" /\ raise.target = t /\ raise.flagger = f
      /\ raise.targetStakeAtRiskWei = atRisk /\ raise.reviewerCount = Cardinality(R)
  OBVIOUS
<1> HIDE DEF raise
<1>4. Asked(st, v, t, n, list) /\ IsLog(asking)
  BY <1>2, RequestsHandled DEF FlagsCounted
<1> HIDE DEF asking, v
<1>5. IsStore(v) /\ OnlyThese(st, v, {"flags"}, {})
  BY <1>4 DEF Asked, FlagSaved, OnlyThese
<1>6. OnlyThese(v, w1, {"stakes"}, {f}) /\ LockShown(v, w1, after, f)
  BY <1>5, LockIsShown
<1> HIDE DEF w1, lockF
<1>7. IsStore(w1)
  BY <1>6 DEF OnlyThese
<1>8. OnlyThese(w1, w2, {"stakes"}, {t}) /\ LockShown(w1, w2, after, t)
  BY <1>7, LockIsShown
<1> HIDE DEF w2, lockT
<1>9. FlagKept(st, w2, t, n, NewFlagFor(list)) /\ IsStore(w2)
  <2>1. w2.flags = v.flags /\ IsStore(w2)
    BY <1>6, <1>8 DEF OnlyThese, StoreFields
  <2>2. FlagKept(st, v, t, n, NewFlagFor(list))
    BY <1>4 DEF Asked, FlagSaved
  <2> QED
    BY <2>1, <2>2 DEF FlagKept
<1>10. /\ OnlyThese(w2, u, {"flags"}, {})
       /\ FlagRaised(st, u, t, n, f, atRisk, list, Cardinality(R))
  BY <1>3, <1>9, FlaggedHandled
<1>11. Index!HandleAll(st, asking \o <<lockF, lockT, raise>>) = u
  <2>1. IsLog(<<lockF>>) /\ IsLog(<<lockT>>) /\ IsLog(<<raise>>)
    BY OneIsLog
  <2> DEFINE A == <<lockF>>
             B == <<lockT>>
             C == <<raise>>
  <2>2. <<lockF, lockT, raise>> = A \o B \o C
    BY ThreeInTurn
  <2>3. Index!HandleAll(w2, C) = u
    BY OneToHandle
  <2> HIDE DEF A, B, C, u
  <2>4. Index!HandleAll(v, A \o B) = w2 /\ IsLog(A \o B)
    BY <2>1, LogsInTurn DEF w1, w2, A, B
  <2>5. Index!HandleAll(v, A \o B \o C) = u /\ IsLog(A \o B \o C)
    BY <2>1, <2>3, <2>4, LogsInTurn DEF C
  <2>6. Index!HandleAll(st, asking \o (A \o B \o C)) = u
    BY <1>4, <2>5, LogsInTurn DEF v
  <2> QED
    BY <2>2, <2>6
<1> HIDE DEF u
<1>12. OnlyThese(st, u, {"flags", "stakes"}, {f, t})
  <2>1. \A p \in Operators \ {f, t} : SameStake(st, u, p)
    BY <1>5, <1>6, <1>8, <1>10 DEF OnlyThese, SameStake
  <2> QED
    BY <1>5, <1>6, <1>8, <1>10, <2>1 DEF OnlyThese
<1>13. LockShown(st, u, after, f)
  <2>1. SameStake(st, v, f) /\ SameStake(w1, u, f)
    BY <1>5, <1>8, <1>10 DEF OnlyThese, SameStake
  <2>2. StakeEntity(v, f) = StakeEntity(st, f)
    BY <2>1, SameEntity
  <2> QED
    BY <1>6, <2>1, <2>2 DEF LockShown, SameStake
<1>14. LockShown(st, u, after, t)
  <2>1. SameStake(st, w1, t) /\ SameStake(w2, u, t)
    BY <1>5, <1>6, <1>10 DEF OnlyThese, SameStake
  <2>2. StakeEntity(w1, t) = StakeEntity(st, t)
    BY <2>1, SameEntity
  <2> QED
    BY <1>8, <2>1, <2>2 DEF LockShown, SameStake
<1> QED
  BY <1>1, <1>10, <1>11, <1>12, <1>13, <1>14 DEF u, R, atRisk, list

\* Without votes there is nothing to add up.
LEMMA NoVotesAddUp ==
    ASSUME NEW flag, flag.votesForKick = 0, flag.votesAgainstKick = 0
    PROVE  VotesAddUpTo(flag, {})
<1> DEFINE weights(kick) == [vote \in {v \in {} : v.kick = kick} |-> vote.weight]
<1>1. ASSUME NEW kick
      PROVE  SumFunction(weights(kick)) = 0
  <2> DEFINE g == weights(kick)
  <2>1. DOMAIN g = {}
    OBVIOUS
  <2> HIDE DEF g
  <2>2. SumFunction(g) = 0
    BY <2>1, SumOverDomain, SumOfEmptySet
  <2> QED
    BY <2>2 DEF g
<1>2. SumFunction(weights(TRUE)) = 0 /\ SumFunction(weights(FALSE)) = 0
  <2> HIDE DEF weights
  <2> QED
    BY <1>1
<1> QED
  BY <1>2 DEF VotesAddUpTo

LEMMA SameVotesAddUp ==
    ASSUME NEW flag, NEW other, NEW votes, VotesAddUpTo(flag, votes),
           other.votesForKick = flag.votesForKick, other.votesAgainstKick = flag.votesAgainstKick
    PROVE  VotesAddUpTo(other, votes)
  BY DEF VotesAddUpTo

LEMMA HistoryIsCounted ==
    ASSUME NEW st, NEW t, NEW n, NEW flag, HistoryShown(st, t, n, flag)
    PROVE  FlagsCounted(st, t, n)
<1>1. /\ n \in Nat /\ DOMAIN st.flags[t] = 0 .. n - 1
      /\ n > 0 => st.flags[t][0].lastFlagIndex = n - 1
      /\ \A i \in 0 .. n - 1 : DOMAIN st.flags[t][i] = FlagFields
  BY DEF HistoryShown, EntryShown
<1>2. Counted(st, t, n)
  <2>1. CASE n = 0
    <3>1. 0 \notin DOMAIN st.flags[t]
      BY <1>1, <2>1
    <3> QED
      BY <2>1, <3>1 DEF Counted
  <2>2. CASE n > 0
    <3>1. 0 \in DOMAIN st.flags[t] /\ (n - 1) + 1 = n
      BY <1>1, <2>2
    <3> QED
      BY <1>1, <2>2, <3>1 DEF Counted
  <2> QED
    BY <1>1, <2>1, <2>2
<1> QED
  BY <1>1, <1>2 DEF FlagsCounted

\* A flag is added to those there have been, which are all resolved.
LEMMA RaisedIsShown ==
    ASSUME NEW st, NEW u, NEW t, NEW n, NEW old, HistoryShown(st, t, n, old), old.phase = "none",
           NEW flagger \in Operators, NEW atRisk, NEW R, IsFiniteSet(R),
           FlagRaised(st, u, t, n, flagger, atRisk, SetToSeq(R), Cardinality(R)),
           u.votes = st.votes,
           NEW flag, flag.phase # "none", flag.flagger = flagger, flag.atRisk = atRisk,
           ReviewersOf(flag) = R, flag.votesFor = 0, flag.votesAgainst = 0
    PROVE  HistoryShown(u, t, n + 1, flag)
<1>1. /\ n \in Nat /\ n + 1 \in Nat /\ (n + 1) - 1 = n /\ n + 1 > 0
      /\ \A i \in 0 .. n : i \in 0 .. n - 1 \/ i = n
      /\ \A i \in 0 .. n - 1 : i \in 0 .. n
  BY DEF HistoryShown
<1>2. \A i : VotesOf(u, t, i) = VotesOf(st, t, i)
  BY DEF VotesOf
<1>3. VotesOf(st, t, n) = {}
  BY <1>1 DEF VotesOf, HistoryShown
<1>4. /\ DOMAIN u.flags[t] = 0 .. n
      /\ u.flags[t][0].lastFlagIndex = n
      /\ \A i \in 0 .. n - 1 : SameButIndex(st.flags[t][i], u.flags[t][i])
      /\ DOMAIN u.flags[t][n] = FlagFields
      /\ u.flags[t][n].flagger = flagger
      /\ u.flags[t][n].targetStakeAtRiskWei = atRisk
      /\ u.flags[t][n].reviewerCount = Cardinality(R)
      /\ u.flags[t][n].reviewers = SetToSeq(R)
      /\ u.flags[t][n].result = "waiting"
      /\ u.flags[t][n].votesForKick = 0 /\ u.flags[t][n].votesAgainstKick = 0
  BY DEF FlagRaised
<1>5. ASSUME NEW i \in 0 .. n - 1
      PROVE  EntryShown(u, t, i) /\ u.flags[t][i].result \in {"kicked", "failed"}
  <2>1. EntryShown(st, t, i) /\ st.flags[t][i].result \in {"kicked", "failed"}
    BY DEF HistoryShown
  <2>2. /\ DOMAIN u.flags[t][i] = FlagFields
        /\ u.flags[t][i].flagger = st.flags[t][i].flagger
        /\ u.flags[t][i].result = st.flags[t][i].result
        /\ u.flags[t][i].votesForKick = st.flags[t][i].votesForKick
        /\ u.flags[t][i].votesAgainstKick = st.flags[t][i].votesAgainstKick
    BY <1>4, <2>1 DEF EntryShown, SameButIndex, FlagFields
  <2>3. VotesAddUpTo(u.flags[t][i], VotesOf(u, t, i))
    <3>1. VotesAddUpTo(st.flags[t][i], VotesOf(u, t, i))
      BY <1>2, <2>1 DEF EntryShown
    <3> QED
      BY <2>2, <3>1, SameVotesAddUp
  <2> QED
    BY <2>1, <2>2, <2>3 DEF EntryShown
<1>6. EntryShown(u, t, n)
  <2>1. VotesAddUpTo(u.flags[t][n], VotesOf(u, t, n))
    BY <1>2, <1>3, <1>4, NoVotesAddUp
  <2> QED
    BY <1>4, <2>1 DEF EntryShown
<1>7. OpenShown(u, t, n, flag)
  <2>1. Len(SetToSeq(R)) = Cardinality(R) /\ ToSet(SetToSeq(R)) = R
    BY ListOfSet
  <2>2. VotesOf(u, t, n) = {}
    BY <1>2, <1>3
  <2> QED
    BY <1>4, <2>1, <2>2 DEF OpenShown
<1>8. \A vote \in u.votes : vote.target = t => vote.index \in 0 .. n
  BY <1>1 DEF HistoryShown
<1>9. \A i \in 0 .. n : /\ EntryShown(u, t, i)
                        /\ u.flags[t][i].result \in {"kicked", "failed"} \/ i = n
  BY <1>1, <1>5, <1>6
<1> DEFINE m == n + 1
<1>10. m \in Nat /\ m - 1 = n /\ m > 0
  BY <1>1
<1> HIDE DEF m
<1>11. HistoryShown(u, t, m, flag)
  BY <1>4, <1>7, <1>8, <1>9, <1>10 DEF HistoryShown
<1> QED
  BY <1>11 DEF m

LEMMA LockedStakeIsShown ==
    ASSUME NEW st, IsStore(st), NEW u, NEW b, NEW d, NEW o \in Operators, o \in b.joined,
           LockShown(st, u, d, o), d.joined = b.joined, d.staked = b.staked, StakeShown(st, b, o)
    PROVE  StakeShown(u, d, o)
<1>1. o \in DOMAIN st.stakes /\ StakeEntity(st, o) = st.stakes[o]
  BY EntityIs DEF StakeShown
<1> QED
  BY <1>1 DEF StakeShown, LockShown

LEMMA IndexedFlagKeeps ==
    ASSUME Sound, Sound', IndexInv, NEW f \in Operators, NEW t \in Operators,
           NEW R \in SUBSET Voters, NEW weight \in [R -> Weights], IndexedFlag(f, t, weight)
    PROVE  IndexInv'
<1> DEFINE atRisk == StakeAtRisk(config, books.staked[t])
           locks == [books.locked EXCEPT ![t] = @ + atRisk, ![f] = @ + config.flagStake]
           after == [books EXCEPT !.locked = locks]
           new == flags'[t]
<1>1. /\ books \in Books /\ config \in Configs /\ FlagsInv /\ IsStore(store) /\ StakesInv
      /\ TotalsInv /\ NetworkInv /\ HistoriesInv
  BY SoundFacts DEF Sound, IInv, IndexInv
<1>2. /\ f # t /\ flags[t].phase = "none" /\ books.staked[t] > 0
      /\ R # {} /\ DOMAIN weight = R
      /\ after.staked[f] >= MinimumStakeOf(after, f, Open(f))
      /\ books' = after /\ config' = config
      /\ flags' = [flags EXCEPT ![t] =
           [phase |-> "review", flagger |-> f, atRisk |-> atRisk,
            flagStake |-> config.flagStake, flaggerReward |-> config.flaggerReward,
            reviewerReward |-> config.reviewerReward,
            state |-> [v \in Voters |-> IF v \in R THEN CapWeights(weight)[v] ELSE 0],
            votesFor |-> 0, votesAgainst |-> 0, total |-> SumFunction(CapWeights(weight))]]
      /\ store' = Index!HandleAll(store, FlagEvents(books', f, t, weight))
  <2>1. DOMAIN weight = R
    OBVIOUS
  <2> QED
    BY <2>1 DEF IndexedFlag, Flag, MayFlag, Open, Commit, Emits
<1>3. /\ new.phase = "review" /\ new.flagger = f /\ new.atRisk = atRisk
      /\ new.votesFor = 0 /\ new.votesAgainst = 0
      /\ ReviewersOf(new) = R
      /\ \A p \in Operators \ {t} : flags'[p] = flags[p]
  <2> DEFINE flag == [phase |-> "review", flagger |-> f, atRisk |-> atRisk,
            flagStake |-> config.flagStake, flaggerReward |-> config.flaggerReward,
            reviewerReward |-> config.reviewerReward,
            state |-> [v \in Voters |-> IF v \in R THEN CapWeights(weight)[v] ELSE 0],
            votesFor |-> 0, votesAgainst |-> 0, total |-> SumFunction(CapWeights(weight))]
  <2>1. /\ flag.phase = "review" /\ flag.flagger = f /\ flag.atRisk = atRisk
        /\ flag.votesFor = 0 /\ flag.votesAgainst = 0
        /\ flag.state = [v \in Voters |-> IF v \in R THEN CapWeights(weight)[v] ELSE 0]
        /\ flag.total = SumFunction(CapWeights(weight))
    OBVIOUS
  <2>2. flags' = [flags EXCEPT ![t] = flag]
    BY <1>2
  <2> HIDE DEF flag, atRisk
  <2>3. ReviewersOf(flag) = R
    <3>1. R # {} /\ flag.votesFor = 0 /\ flag.votesAgainst = 0
      BY <1>2, <2>1
    <3>2. flag.state = [v \in Voters |-> IF v \in R THEN CapWeights(weight)[v] ELSE 0]
      BY <2>1
    <3>3. flag.total = SumFunction(CapWeights(weight))
      BY <2>1
    <3> HIDE DEF locks, after, new
    <3>4. VotesSound(flag) /\ ReviewersOf(flag) = R
      BY <3>1, <3>2, <3>3, NewFlagVotes
    <3> QED
      BY <3>4
  <2>4. DOMAIN flags = Operators
    BY <1>1 DEF FlagsInv
  <2>5. new = flag /\ \A p \in Operators \ {t} : flags'[p] = flags[p]
    BY <2>2, <2>4
  <2> HIDE DEF new
  <2> QED
    BY <2>1, <2>3, <2>5
<1>4. /\ books'.staked = books.staked /\ books'.joined = books.joined /\ books'.pool = books.pool
      /\ books'.totalStaked = books.totalStaked
      /\ books'.operatorCount = books.operatorCount
      /\ \A o \in Operators \ {f, t} : books'.locked[o] = books.locked[o]
  <2>1. \A o \in Operators \ {f, t} : locks[o] = books.locked[o]
    BY <1>1 DEF Books
  <2> HIDE DEF locks
  <2> QED
    BY <1>1, <1>2, <2>1 DEF Books
<1>5. books' \in Books
  BY DEF Sound, IInv, BooksInv
<1>6. IsFiniteSet(R)
  BY FS_Subset, VoteKickAssumption
<1>7. PICK n : HistoryShown(store, t, n, flags[t])
  BY <1>1 DEF HistoriesInv
<1>8. FlagsCounted(store, t, n)
  BY <1>7, HistoryIsCounted
<1>9. /\ OnlyThese(store, store', {"flags", "stakes"}, {f, t})
      /\ LockShown(store, store', books', f) /\ LockShown(store, store', books', t)
      /\ FlagRaised(store, store', t, n, f, atRisk, SetToSeq(R), Cardinality(R))
  <2> DEFINE b == books'
             u == Index!HandleAll(store, FlagEvents(b, f, t, weight))
  <2>1. store' = u /\ IsFiniteSet(DOMAIN weight) /\ DOMAIN weight # {} /\ IsStore(store) /\ f # t
        /\ DOMAIN weight = R
    BY <1>1, <1>2, <1>6
  <2> HIDE DEF b
  <2>2. /\ OnlyThese(store, u, {"flags", "stakes"}, {f, t})
        /\ LockShown(store, u, b, f) /\ LockShown(store, u, b, t)
        /\ FlagRaised(store, u, t, n, f, StakeAtRisk(config, books.staked[t]),
                      SetToSeq(DOMAIN weight), Cardinality(DOMAIN weight))
    BY <1>8, <2>1, FlagEventsHandled
  <2> HIDE DEF u
  <2> QED
    BY <2>1, <2>2 DEF b
<1> HIDE DEF after, locks, atRisk
<1>10. /\ IsStore(store')
       /\ store'.network = store.network /\ store'.votes = store.votes
       /\ store'.totalStakedWei = store.totalStakedWei
       /\ store'.operatorCount = store.operatorCount
       /\ store'.cumulativeSponsoring = store.cumulativeSponsoring
  BY <1>9 DEF OnlyThese, StoreFields
<1>11. TotalsInv' /\ NetworkInv'
  BY <1>1, <1>2, <1>4, <1>10 DEF TotalsInv, TotalsTold, NetworkInv
<1>12. HistoriesInv'
  <2>1. VotesTyped(store')
    BY <1>1, <1>10 DEF HistoriesInv, VotesTyped
  <2>2. ASSUME NEW p \in Operators
        PROVE  \E m : HistoryShown(store', p, m, flags'[p])
    <3>1. CASE p = t
      <4>1. HistoryShown(store', t, n + 1, new)
        <5> HIDE DEF new
        <5>1. new.phase # "none"
          BY <1>3
        <5> QED
          BY <1>2, <1>3, <1>6, <1>7, <1>9, <1>10, <5>1, RaisedIsShown
      <4> QED
        BY <3>1, <4>1
    <3>2. CASE p # t
      <4>1. PICK m : HistoryShown(store, p, m, flags[p])
        BY <1>1 DEF HistoriesInv
      <4>2. store'.flags[p] = store.flags[p] /\ flags'[p] = flags[p]
        BY <1>3, <1>9, <3>2 DEF FlagRaised
      <4> QED
        BY <1>10, <4>1, <4>2, HistoryStays
    <3> QED
      BY <3>1, <3>2
  <2> QED
    BY <2>1, <2>2 DEF HistoriesInv
<1>13. StakesInv'
  <2>1. RewardsPaid => \A o \in {f, t} : StakeShown(store', books', o)
    <3> SUFFICES ASSUME RewardsPaid, NEW o \in {f, t}
                 PROVE  StakeShown(store', books', o)
      OBVIOUS
    <3>1. books'.staked[f] > 0
      <4>1. Open(f) \in BOOLEAN
        BY DEF Open
      <4>2. MinimumStakeOf(books', f, Open(f)) \in Nat /\ MinimumStakeOf(books', f, Open(f)) > 0
        <5> DEFINE b == books'
        <5>1. b \in Books
          BY <1>5
        <5> HIDE DEF b
        <5>2. /\ MinimumStakeOf(b, f, Open(f)) \in Nat
              /\ RewardsPaid => MinimumStakeOf(b, f, Open(f)) > 0
          BY <1>1, <4>1, <5>1, MinimumStakeIsMinimum
        <5> QED
          BY <5>2 DEF b
      <4>3. books'.staked[f] \in Nat
        BY <1>5 DEF Books
      <4> QED
        BY <1>2, <4>2, <4>3
    <3>2. o \in Operators /\ books.staked[o] > 0
      BY <1>2, <1>4, <3>1
    <3>3. o \in books.joined
      BY <3>2, SoundFacts DEF Agree
    <3>4. LockShown(store, store', books', o) /\ StakeShown(store, books, o)
      BY <1>1, <1>9, <3>2 DEF StakesInv
    <3> QED
      BY <1>1, <1>4, <3>2, <3>3, <3>4, LockedStakeIsShown
  <2>2. \A o \in Operators \ {f, t} : Same(books, books', o)
    BY <1>4 DEF Same
  <2> QED
    BY <1>1, <1>9, <2>1, <2>2, StakesStayShown
<1> QED
  BY <1>10, <1>11, <1>12, <1>13 DEF IndexInv

-----------------------------------------------------------------------------
(* Votes, and the end of the voting *)

\* One more vote adds its weight to its side.
LEMMA VoteAddsUp ==
    ASSUME NEW V, IsFiniteSet(V), \A x \in V : x.weight \in Int,
           NEW vote, vote \notin V, vote.weight \in Int, vote.kick \in BOOLEAN,
           NEW flag, VotesAddUpTo(flag, V), NEW other,
           other.votesForKick = IF vote.kick THEN flag.votesForKick + vote.weight
                                ELSE flag.votesForKick,
           other.votesAgainstKick = IF vote.kick THEN flag.votesAgainstKick
                                    ELSE flag.votesAgainstKick + vote.weight
    PROVE  VotesAddUpTo(other, V \cup {vote})
<1> DEFINE all == V \cup {vote}
           f == [x \in all |-> x.weight]
           side(votes, kick) == {x \in votes : x.kick = kick}
           g(votes, kick) == [x \in side(votes, kick) |-> x.weight]
           sum(votes, kick) == SumFunction(g(votes, kick))
<1>1. /\ \A x \in all : f[x] = x.weight /\ f[x] \in Int
      /\ V \subseteq all /\ vote \in all
  OBVIOUS
<1>2. IsFiniteSet(all)
  BY FS_AddElement
<1> HIDE DEF f, all
<1>3. ASSUME NEW votes \in SUBSET all, NEW kick
      PROVE  /\ IsFiniteSet(side(votes, kick))
             /\ sum(votes, kick) = SumFunctionOnSet(f, side(votes, kick))
  <2> DEFINE S == side(votes, kick)
             h == g(votes, kick)
  <2>1. S \in SUBSET all /\ DOMAIN h = S /\ \A x \in S : h[x] = x.weight
    OBVIOUS
  <2>2. IsFiniteSet(S)
    BY <1>2, <2>1, FS_Subset
  <2> HIDE DEF S, h
  <2>3. \A x \in S : f[x] \in Int /\ h[x] = f[x]
    BY <1>1, <2>1
  <2>4. SumFunction(h) = SumFunctionOnSet(f, S)
    BY <2>1, <2>2, <2>3, SumWrittenOut
  <2> QED
    BY <2>2, <2>4 DEF S, h
<1>4. ASSUME NEW kick \in BOOLEAN
      PROVE  sum(all, kick) = IF vote.kick = kick THEN sum(V, kick) + vote.weight
                              ELSE sum(V, kick)
  <2>1. V \in SUBSET all /\ all \in SUBSET all
    BY <1>1
  <2> HIDE DEF sum
  <2>2. /\ IsFiniteSet(side(V, kick))
        /\ sum(V, kick) = SumFunctionOnSet(f, side(V, kick))
        /\ sum(all, kick) = SumFunctionOnSet(f, side(all, kick))
    BY <1>3, <2>1
  <2>3. CASE vote.kick = kick
    <3> DEFINE S == side(V, kick)
    <3>1. side(all, kick) = S \cup {vote} /\ vote \notin S /\ S \subseteq all
      BY <2>1, <2>3 DEF all
    <3> HIDE DEF S, side
    <3>2. \A y \in S \cup {vote} : f[y] \in Int
      BY <1>1, <3>1
    <3>3. SumFunctionOnSet(f, S \cup {vote}) = SumFunctionOnSet(f, S) + f[vote]
      BY <2>2, <3>1, <3>2, SumAdds DEF S
    <3> QED
      BY <1>1, <2>2, <2>3, <3>1, <3>3 DEF S
  <2>4. CASE vote.kick # kick
    <3>1. side(all, kick) = side(V, kick)
      BY <2>4 DEF all
    <3> HIDE DEF side
    <3> QED
      BY <2>2, <2>4, <3>1
  <2> QED
    BY <2>3, <2>4
<1>5. sum(V, TRUE) = flag.votesForKick /\ sum(V, FALSE) = flag.votesAgainstKick
  BY DEF VotesAddUpTo
<1>6. sum(all, TRUE) = other.votesForKick /\ sum(all, FALSE) = other.votesAgainstKick
  <2> HIDE DEF sum
  <2>1. CASE vote.kick = TRUE
    BY <1>4, <1>5, <2>1
  <2>2. CASE vote.kick = FALSE
    BY <1>4, <1>5, <2>2
  <2> QED
    BY <2>1, <2>2
<1> QED
  BY <1>6 DEF VotesAddUpTo, all

\* What a FlagUpdate makes of the flag's entity
Updated(old, new, e) ==
    /\ DOMAIN new = FlagFields
    /\ \A field \in FlagFields \ {"result", "votesForKick", "votesAgainstKick"} :
         new[field] = old[field]
    /\ new.result = Index!FlagResults[e.status]
    /\ new.votesForKick = e.votesForKick
    /\ new.votesAgainstKick = e.votesAgainstKick

\* ... and of the store, n being the number of flags there have been
FlagUpdated(st, u, t, n, e) ==
    LET vote == [target |-> t, index |-> n - 1, voter |-> e.voter,
                 weight |-> e.voterWeight, kick |-> e.kick]
    IN  /\ OnlyThese(st, u, {"flags", "votes"}, {})
        /\ \E new : /\ FlagKept(st, u, t, n - 1, new)
                    /\ Updated(st.flags[t][n - 1], new, e)
        /\ u.votes = IF e.voterWeight > 0 THEN st.votes \cup {vote} ELSE st.votes

\* The event is about the last flag there has been.
LEMMA FlagUpdateHandled ==
    ASSUME NEW st, IsStore(st), NEW t \in Operators, NEW n, FlagsCounted(st, t, n), n > 0,
           NEW e, e.name = "FlagUpdate", e.target = t
    PROVE  FlagUpdated(st, Index!Handle(st, e), t, n, e)
<1> DEFINE u == Index!Handle(st, e)
           index == n - 1
           vote == [target |-> t, index |-> index, voter |-> e.voter,
                    weight |-> e.voterWeight, kick |-> e.kick]
           flag == st.flags[t][index]
           new == [flag EXCEPT !.result = Index!FlagResults[e.status],
                               !.votesForKick = e.votesForKick,
                               !.votesAgainstKick = e.votesAgainstKick]
           saved == Index!SaveFlag(st, t, index, new)
           votes == IF e.voterWeight > 0 THEN st.votes \cup {vote} ELSE st.votes
<1>1. /\ n \in Nat /\ index \in DOMAIN st.flags[t] /\ 0 \in DOMAIN st.flags[t]
      /\ st.flags[t][0].lastFlagIndex + 1 = n
      /\ DOMAIN flag = FlagFields
  BY DEF FlagsCounted, Counted
<1>2. st.flags[t][0].lastFlagIndex = index
  BY DEF FlagsCounted
<1>3. u = Index!HandleFlagUpdate(st, e)
  BY DEF Index!Handle
<1>4. u = [saved EXCEPT !.votes = votes]
  <2> HIDE DEF u, index
  <2>1. Index!HandleFlagUpdate(st, e) = [saved EXCEPT !.votes = votes]
    <3> DEFINE at == st.flags[t][0].lastFlagIndex
    <3>1. at = index
      BY <1>2
    <3> HIDE DEF at
    <3>2. Index!HandleFlagUpdate(st, e)
            = [Index!SaveFlag(st, t, at,
                 [st.flags[t][at] EXCEPT !.result = Index!FlagResults[e.status],
                                         !.votesForKick = e.votesForKick,
                                         !.votesAgainstKick = e.votesAgainstKick])
               EXCEPT !.votes = IF e.voterWeight > 0
                                THEN @ \cup {[target |-> t, index |-> at, voter |-> e.voter,
                                              weight |-> e.voterWeight, kick |-> e.kick]}
                                ELSE @]
      BY DEF Index!HandleFlagUpdate, at
    <3>3. saved.votes = st.votes
      <4> HIDE DEF saved, new
      <4>1. FlagSaved(st, saved, t, index, new)
        BY SavedFlag DEF saved
      <4> QED
        BY <4>1 DEF FlagSaved, OnlyThese, StoreFields
    <3> QED
      BY <3>1, <3>2, <3>3
  <2> QED
    BY <1>3, <2>1
<1>5. Updated(flag, new, e)
  <2> HIDE DEF flag
  <2> QED
    BY <1>1 DEF Updated, FlagFields
<1>6. FlagSaved(st, saved, t, index, new)
  <2> HIDE DEF new
  <2> QED
    BY SavedFlag
<1> HIDE DEF u, saved, new, votes, index, flag
<1>7. /\ DOMAIN u = StoreFields /\ u.flags = saved.flags /\ u.votes = votes
      /\ \A field \in StoreFields \ {"votes"} : u[field] = saved[field]
  BY <1>4, <1>6 DEF FlagSaved, OnlyThese, IsStore, StoreFields
<1>8. OnlyThese(st, u, {"flags", "votes"}, {})
  <2>1. DOMAIN u.flags = Operators
    BY <1>6, <1>7 DEF FlagSaved, OnlyThese, IsStore
  <2>2. \A field \in StoreFields \ {"flags", "votes"} : u[field] = st[field]
    BY <1>6, <1>7 DEF FlagSaved, OnlyThese
  <2> QED
    BY <1>7, <2>1, <2>2, FieldsWritten
<1>9. FlagKept(st, u, t, index, new)
  BY <1>6, <1>7 DEF FlagSaved, FlagKept
<1> QED
  BY <1>5, <1>7, <1>8, <1>9 DEF FlagUpdated, u, votes, index, flag

OthersStay(st, u, t) ==
    \A p \in Operators \ {t} :
       /\ u.flags[p] = st.flags[p]
       /\ \A vote : vote \in u.votes /\ vote.target = p <=> vote \in st.votes /\ vote.target = p

\* The last entity shows what became of the open flag.
LEMMA UpdateIsShown ==
    ASSUME NEW st, NEW t, NEW n, NEW flag, HistoryShown(st, t, n, flag), n > 0,
           NEW u, NEW new, FlagKept(st, u, t, n - 1, new),
           NEW e, Updated(st.flags[t][n - 1], new, e),
           NEW vote, vote.target = t, vote.index = n - 1,
           u.votes = st.votes \/ u.votes = st.votes \cup {vote},
           VotesAddUpTo(new, VotesOf(u, t, n - 1)),
           NEW other, other.phase = "none" => new.result \in {"kicked", "failed"},
           other.phase # "none" => OpenShown(u, t, n - 1, other)
    PROVE  HistoryShown(u, t, n, other) /\ OthersStay(st, u, t)
<1> DEFINE last == n - 1
<1>1. /\ n \in Nat /\ last \in 0 .. last /\ DOMAIN st.flags[t] = 0 .. last
      /\ st.flags[t][0].lastFlagIndex = last
      /\ last # 0 => 0 \in (0 .. last) \ {last}
  BY DEF HistoryShown
<1> HIDE DEF last
<1>2. /\ DOMAIN u.flags[t] = 0 .. last /\ u.flags[t][last] = new
      /\ \A i \in (0 .. last) \ {last} : u.flags[t][i] = st.flags[t][i]
      /\ \A p \in Operators \ {t} : u.flags[p] = st.flags[p]
  <2>1. FlagKept(st, u, t, last, new)
    BY DEF last
  <2>2. (0 .. last) \cup {last} = 0 .. last
    BY <1>1
  <2> QED
    BY <1>1, <2>1, <2>2 DEF FlagKept
<1>3. /\ DOMAIN new = FlagFields /\ new.flagger = st.flags[t][last].flagger
      /\ new.lastFlagIndex = st.flags[t][last].lastFlagIndex
  BY DEF Updated, FlagFields, last
<1>4. u.flags[t][0].lastFlagIndex = last
  <2>1. CASE last = 0
    BY <1>1, <1>2, <1>3, <2>1
  <2>2. CASE last # 0
    BY <1>1, <1>2, <2>2
  <2> QED
    BY <2>1, <2>2
<1>5. /\ EntryShown(u, t, last)
      /\ new.result \in {"kicked", "failed"} \/ other.phase # "none"
  <2>1. EntryShown(st, t, last)
    BY <1>1 DEF HistoryShown, last
  <2>2. VotesAddUpTo(u.flags[t][last], VotesOf(u, t, last))
    BY <1>2 DEF last
  <2> QED
    BY <1>2, <1>3, <2>1, <2>2 DEF EntryShown
<1>6. ASSUME NEW i \in 0 .. last, i # last
      PROVE  EntryShown(u, t, i) /\ u.flags[t][i].result \in {"kicked", "failed"}
  <2>1. EntryShown(st, t, i) /\ st.flags[t][i].result \in {"kicked", "failed"}
    BY <1>6 DEF HistoryShown, last
  <2>2. VotesOf(u, t, i) = VotesOf(st, t, i)
    BY <1>6 DEF VotesOf, last
  <2> QED
    BY <1>2, <1>6, <2>1, <2>2 DEF EntryShown
<1>7. \A i \in 0 .. last :
         /\ EntryShown(u, t, i)
         /\ \/ u.flags[t][i].result \in {"kicked", "failed"}
            \/ other.phase # "none" /\ i = last
  BY <1>2, <1>5, <1>6
<1>8. \A x \in u.votes : x.target = t => x.index \in 0 .. last
  <2>1. \A x \in st.votes : x.target = t => x.index \in 0 .. last
    BY DEF HistoryShown, last
  <2>2. vote.index = last
    BY DEF last
  <2> QED
    BY <1>1, <2>1, <2>2
<1>9. HistoryShown(u, t, n, other)
  BY <1>1, <1>2, <1>4, <1>7, <1>8 DEF HistoryShown, last
<1>10. OthersStay(st, u, t)
  BY <1>2 DEF OthersStay
<1> QED
  BY <1>9, <1>10

\* A vote is counted once: what is stored of a voter says that it has voted.
LEMMA VoteIsShown ==
    ASSUME NEW st, IsStore(st), NEW t \in Operators, NEW n, NEW flag,
           HistoryShown(st, t, n, flag), VotesTyped(st), FlagInv(flag), flag.phase # "none",
           NEW v \in Voters, flag.state[v] \in Int, flag.state[v] > 0, NEW kick \in BOOLEAN,
           NEW voted, voted = CastVote(flag, v, kick),
           NEW e, e = FlagUpdate(t, Voting, voted.votesFor, voted.votesAgainst, v,
                                 flag.state[v], kick)
    PROVE  LET u == Index!Handle(st, e)
           IN  /\ OnlyThese(st, u, {"flags", "votes"}, {})
               /\ HistoryShown(u, t, n, voted) /\ VotesTyped(u) /\ OthersStay(st, u, t)
<1> DEFINE u == Index!Handle(st, e)
           last == n - 1
           weight == flag.state[v]
           vote == [target |-> t, index |-> last, voter |-> v, weight |-> weight, kick |-> kick]
           old == st.flags[t][last]
<1>1. /\ e.name = "FlagUpdate" /\ e.target = t /\ e.status = 1 /\ e.votesForKick = voted.votesFor
      /\ e.votesAgainstKick = voted.votesAgainst /\ e.voter = v /\ e.voterWeight = weight
      /\ e.kick = kick
  BY DEF FlagUpdate, Voting
<1>2. /\ voted.phase = flag.phase /\ voted.flagger = flag.flagger /\ voted.atRisk = flag.atRisk
      /\ voted.state = [flag.state EXCEPT ![v] = IF kick THEN VotedKick ELSE VotedNoKick]
      /\ voted.votesFor = IF kick THEN flag.votesFor + weight ELSE flag.votesFor
      /\ voted.votesAgainst = IF kick THEN flag.votesAgainst ELSE flag.votesAgainst + weight
  BY CastVoteFields
<1>3. ReviewersOf(voted) = ReviewersOf(flag)
  BY CastVoteKeepsReviewers
<1>4. n > 0 /\ OpenShown(st, t, last, flag) /\ EntryShown(st, t, last) /\ FlagsCounted(st, t, n)
  <2>1. n > 0 /\ n \in Nat /\ OpenShown(st, t, last, flag)
    BY DEF HistoryShown
  <2>2. last \in 0 .. n - 1
    BY <2>1
  <2>3. EntryShown(st, t, last)
    BY <2>2 DEF HistoryShown
  <2> QED
    BY <2>1, <2>3, HistoryIsCounted
<1>5. PICK new : /\ OnlyThese(st, u, {"flags", "votes"}, {})
                 /\ FlagKept(st, u, t, last, new)
                 /\ Updated(old, new, e)
                 /\ u.votes = st.votes \cup {vote}
  <2>1. FlagUpdated(st, u, t, n, e)
    BY <1>1, <1>4, FlagUpdateHandled
  <2>2. e.voterWeight > 0
    BY <1>1
  <2> HIDE DEF u
  <2> QED
    BY <1>1, <2>1, <2>2 DEF FlagUpdated
<1>6. /\ vote.target = t /\ vote.index = last /\ vote.voter = v /\ vote.weight = weight
      /\ vote.kick = kick
  OBVIOUS
<1> HIDE DEF u, vote
<1>7. /\ VotesOf(u, t, last) = VotesOf(st, t, last) \cup {vote}
      /\ vote \notin VotesOf(st, t, last)
      /\ IsFiniteSet(VotesOf(st, t, last))
      /\ \A x \in VotesOf(st, t, last) : x.weight \in Int
  <2>1. \A x \in VotesOf(st, t, last) : flag.state[x.voter] < 0
    BY <1>4 DEF OpenShown
  <2>2. VotesOf(st, t, last) \subseteq st.votes
    BY DEF VotesOf
  <2>3. VotesOf(u, t, last) = VotesOf(st, t, last) \cup {vote}
    BY <1>5, <1>6 DEF VotesOf
  <2> QED
    BY <1>6, <2>1, <2>2, <2>3, FS_Subset DEF VotesTyped
<1>8. /\ new.votesForKick = voted.votesFor /\ new.votesAgainstKick = voted.votesAgainst
      /\ new.result = "voting" /\ new.flagger = old.flagger
      /\ new.targetStakeAtRiskWei = old.targetStakeAtRiskWei
      /\ new.reviewers = old.reviewers /\ new.reviewerCount = old.reviewerCount
  <2>1. Index!FlagResults[1] = "voting"
    BY DEF Index!FlagResults
  <2> QED
    BY <1>1, <1>5, <2>1 DEF Updated, FlagFields
<1>9. /\ old.votesForKick = flag.votesFor /\ old.votesAgainstKick = flag.votesAgainst
      /\ old.flagger = flag.flagger /\ old.targetStakeAtRiskWei = flag.atRisk
      /\ ToSet(old.reviewers) = ReviewersOf(flag)
      /\ old.reviewerCount = Len(old.reviewers)
      /\ \A x \in VotesOf(st, t, last) : x.voter \in Voters /\ flag.state[x.voter] < 0
      /\ VotesAddUpTo(old, VotesOf(st, t, last))
  BY <1>4 DEF OpenShown, EntryShown
<1>10. VotesAddUpTo(new, VotesOf(u, t, last))
  <2> DEFINE V == VotesOf(st, t, last)
  <2>1. /\ IsFiniteSet(V) /\ \A x \in V : x.weight \in Int
        /\ vote \notin V /\ vote.weight \in Int /\ vote.kick \in BOOLEAN
        /\ VotesAddUpTo(old, V)
    BY <1>6, <1>7, <1>9
  <2>2. /\ new.votesForKick = IF vote.kick THEN old.votesForKick + vote.weight
                              ELSE old.votesForKick
        /\ new.votesAgainstKick = IF vote.kick THEN old.votesAgainstKick
                                  ELSE old.votesAgainstKick + vote.weight
    BY <1>2, <1>6, <1>8, <1>9
  <2> HIDE DEF V, old
  <2>3. VotesAddUpTo(new, V \cup {vote})
    BY <2>1, <2>2, VoteAddsUp
  <2> QED
    BY <1>7, <2>3 DEF V
<1>11. OpenShown(u, t, last, voted)
  <2>1. u.flags[t][last] = new
    BY <1>5 DEF FlagKept
  <2>2. \A x \in VotesOf(u, t, last) : x.voter \in Voters /\ voted.state[x.voter] < 0
    <3>1. DOMAIN flag.state = Voters
      BY DEF FlagInv, FlagType
    <3>2. \A w \in Voters : voted.state[w] = IF w = v THEN (IF kick THEN -1 ELSE -2)
                                             ELSE flag.state[w]
      BY <1>2, <3>1 DEF VotedKick, VotedNoKick
    <3> QED
      BY <1>6, <1>7, <1>9, <3>2
  <2> HIDE DEF old
  <2> QED
    BY <1>2, <1>3, <1>8, <1>9, <2>1, <2>2 DEF OpenShown
<1>12. VotesTyped(u)
  <2>1. IsFiniteSet(st.votes \cup {vote})
    BY FS_AddElement DEF VotesTyped
  <2> QED
    BY <1>5, <1>6, <2>1 DEF VotesTyped
<1>13. HistoryShown(u, t, n, voted) /\ OthersStay(st, u, t)
  <2>1. /\ FlagKept(st, u, t, n - 1, new) /\ Updated(st.flags[t][n - 1], new, e)
        /\ vote.index = n - 1 /\ VotesAddUpTo(new, VotesOf(u, t, n - 1))
        /\ OpenShown(u, t, n - 1, voted)
    BY <1>5, <1>6, <1>10, <1>11
  <2>2. voted.phase # "none" /\ vote.target = t /\ u.votes = st.votes \cup {vote} /\ n > 0
    BY <1>2, <1>4, <1>5, <1>6
  <2> HIDE DEF last, old
  <2> QED
    BY <2>1, <2>2, UpdateIsShown
<1> QED
  BY <1>5, <1>12, <1>13 DEF u

\* The verdict resolves the flag, with the votes it has.
LEMMA VerdictIsShown ==
    ASSUME NEW st, IsStore(st), NEW t \in Operators, NEW n, NEW flag,
           HistoryShown(st, t, n, flag), flag.phase # "none",
           NEW status \in {Kicked, NotKicked},
           NEW voter, NEW kick,
           NEW e, e = FlagUpdate(t, status, flag.votesFor, flag.votesAgainst, voter, 0, kick)
    PROVE  LET u == Index!Handle(st, e)
           IN  /\ OnlyThese(st, u, {"flags", "votes"}, {})
               /\ HistoryShown(u, t, n, NoFlag) /\ u.votes = st.votes /\ OthersStay(st, u, t)
<1> DEFINE u == Index!Handle(st, e)
           last == n - 1
           old == st.flags[t][last]
           vote == [target |-> t, index |-> last]
<1>1. /\ e.name = "FlagUpdate" /\ e.target = t /\ e.status = status
      /\ e.votesForKick = flag.votesFor /\ e.votesAgainstKick = flag.votesAgainst
      /\ e.voterWeight = 0
  BY DEF FlagUpdate
<1>2. /\ n > 0 /\ OpenShown(st, t, last, flag)
      /\ VotesAddUpTo(old, VotesOf(st, t, last)) /\ FlagsCounted(st, t, n)
  <2>1. n > 0 /\ n \in Nat /\ OpenShown(st, t, last, flag)
    BY DEF HistoryShown
  <2>2. last \in 0 .. n - 1
    BY <2>1
  <2>3. EntryShown(st, t, last)
    BY <2>2 DEF HistoryShown
  <2> QED
    BY <2>1, <2>3, HistoryIsCounted DEF EntryShown
<1>3. PICK new : /\ OnlyThese(st, u, {"flags", "votes"}, {})
                 /\ FlagKept(st, u, t, last, new)
                 /\ Updated(old, new, e)
                 /\ u.votes = st.votes
  <2>1. FlagUpdated(st, u, t, n, e)
    BY <1>1, <1>2, FlagUpdateHandled
  <2> HIDE DEF u
  <2>2. ~(e.voterWeight > 0)
    BY <1>1
  <2> QED
    BY <2>1, <2>2 DEF FlagUpdated
<1> HIDE DEF u
<1>4. /\ new.result \in {"kicked", "failed"}
      /\ new.votesForKick = old.votesForKick /\ new.votesAgainstKick = old.votesAgainstKick
  <2>1. Index!FlagResults[2] = "kicked" /\ Index!FlagResults[3] = "failed"
    BY DEF Index!FlagResults
  <2> QED
    BY <1>1, <1>2, <1>3, <2>1 DEF Updated, OpenShown, Kicked, NotKicked
<1>5. VotesAddUpTo(new, VotesOf(u, t, last))
  <2>1. VotesOf(u, t, last) = VotesOf(st, t, last)
    BY <1>3 DEF VotesOf
  <2> HIDE DEF old
  <2> QED
    BY <1>2, <1>4, <2>1, SameVotesAddUp
<1>6. HistoryShown(u, t, n, NoFlag) /\ OthersStay(st, u, t)
  <2>1. /\ FlagKept(st, u, t, n - 1, new) /\ Updated(st.flags[t][n - 1], new, e)
        /\ vote.index = n - 1 /\ VotesAddUpTo(new, VotesOf(u, t, n - 1))
        /\ vote.target = t /\ n > 0 /\ u.votes = st.votes
    BY <1>2, <1>3, <1>5
  <2>2. NoFlag.phase = "none"
    BY DEF NoFlag
  <2> HIDE DEF last, old, vote
  <2> QED
    BY <1>4, <2>1, <2>2, UpdateIsShown
<1> QED
  BY <1>3, <1>6 DEF u

\* A lock that is told last is shown, whatever was slashed before it.
LEMMA LastLockIsShown ==
    ASSUME NEW st, IsStore(st), NEW u, NEW b, NEW c, NEW d, NEW o \in Operators,
           LockTold(st, u, c, o), c.staked[o] = d.staked[o], c.locked[o] = d.locked[o],
           b.staked[o] \in Nat, d.staked[o] \in Nat, d.staked[o] <= b.staked[o],
           o \in d.joined <=> o \in b.joined, o \in d.joined <=> d.staked[o] > 0,
           StakeShown(st, b, o)
    PROVE  StakeShown(u, d, o)
<1>1. CASE d.staked[o] = 0
  <2>1. o \notin d.joined /\ o \notin b.joined /\ SameStake(st, u, o)
    BY <1>1 DEF LockTold
  <2> QED
    BY <2>1 DEF StakeShown, SameStake
<1>2. CASE d.staked[o] > 0
  <2>1. o \in d.joined /\ o \in b.joined
    BY <1>2
  <2>2. o \in DOMAIN st.stakes /\ StakeEntity(st, o) = st.stakes[o]
    BY <2>1, EntityIs DEF StakeShown
  <2>3. /\ o \in DOMAIN u.stakes
        /\ u.stakes[o].lockedWei = d.locked[o]
        /\ u.stakes[o].amountWei = st.stakes[o].amountWei
    BY <1>2, <2>2 DEF LockTold
  <2>4. st.stakes[o].amountWei \in Int /\ st.stakes[o].amountWei >= b.staked[o]
    BY <2>1 DEF StakeShown
  <2> QED
    BY <2>1, <2>3, <2>4 DEF StakeShown
<1> QED
  BY <1>1, <1>2

LEMMA SameStakeIsShown ==
    ASSUME NEW st, NEW u, NEW b, NEW d, NEW o, SameStake(st, u, o), Same(b, d, o),
           o \in d.joined <=> o \in b.joined, StakeShown(st, b, o)
    PROVE  StakeShown(u, d, o)
BY DEF SameStake, Same, StakeShown

\* What a settlement tells before the verdict: the target's fate, then the lock
\* of the flagger; both parties are shown as the settlement leaves them.
PartiesTold(st, log, e, t, f, d) ==
    \E a, b :
       LET v == Index!HandleAll(st, a)
           w == Index!HandleAll(v, b)
       IN  /\ IsLog(a) /\ IsLog(b) /\ log = a \o b \o <<e>>
           /\ OnlyThese(st, v, {"stakes"} \cup TotalFields, {t})
           /\ OnlyThese(v, w, {"stakes"}, {f})
           /\ RewardsPaid => StakeShown(w, d, t) /\ StakeShown(w, d, f)

\* The books of a kick, party by party
LEMMA KickFields ==
    ASSUME NEW b \in Books, NEW o \in Operators, NEW slashing \in Nat,
           NEW terms \in LeaveTerms, Covered(b)
    PROVE  LET less == ReduceStakeBy(b, o, slashing)
               c == Kick(b, o, slashing, terms)
           IN  /\ less.locked[o] \in Int
               /\ c.staked[o] = 0 /\ c.locked[o] = 0 /\ c.joined = b.joined \ {o}
               /\ \A p \in Operators \ {o} : Same(b, c, p)
<1> DEFINE less == ReduceStakeBy(b, o, slashing)
           taken == Reduction(b, o, slashing)
           c == RemoveOperator(less, o, terms)
<1>1. /\ less \in Books /\ Covered(less)
      /\ less.locked = b.locked
      /\ less.balance = b.balance
      /\ less.forfeited = b.forfeited
      /\ less.joined = b.joined
      /\ Owed(less) = Owed(b) - taken
  BY ReduceStakeByEffect
<1>2. /\ less.staked = [b.staked EXCEPT ![o] = b.staked[o] - taken]
      /\ less.locked = b.locked
      /\ less.joined = b.joined
      /\ less.operatorCount = b.operatorCount
      /\ less.totalStaked = b.totalStaked - taken
      /\ less.forfeited = b.forfeited
      /\ less.pool = b.pool
  BY ReduceStakeByFields
<1>3. c = Kick(b, o, slashing, terms)
  BY DEF Kick
<1> HIDE DEF less
<1>4. /\ c.staked = [less.staked EXCEPT ![o] = 0]
      /\ c.locked = [less.locked EXCEPT ![o] = 0]
      /\ c.joined = less.joined \ {o}
      /\ c.operatorCount = less.operatorCount - 1
      /\ c.totalStaked = less.totalStaked - less.staked[o]
      /\ c.forfeited = less.forfeited + less.locked[o]
      /\ c.pool \in {less.pool, less.pool - terms.earnings}
  BY <1>1, RemoveOperatorFields
<1> HIDE DEF c, taken
<1>5. less.staked \in [Operators -> Nat] /\ less.locked \in [Operators -> Nat]
  BY <1>1 DEF Books
<1>6. b.staked \in [Operators -> Nat] /\ b.locked \in [Operators -> Nat]
  BY DEF Books
<1>7. \A p \in Operators \ {o} : Same(b, c, p)
  BY <1>2, <1>4, <1>5, <1>6 DEF Same
<1>8. c.staked[o] = 0 /\ c.locked[o] = 0 /\ c.joined = b.joined \ {o} /\ less.locked[o] \in Int
  BY <1>2, <1>4, <1>5
<1> QED
  BY <1>3, <1>7, <1>8 DEF less

\* What is told of the target on its way from one account to the other: that
\* it is gone, or the lock that is left.
TargetTold(st, log, b, c, t, amount) ==
    LET v == Index!HandleAll(st, log)
    IN  /\ c \in Books
        /\ IsLog(log) /\ OnlyThese(st, v, {"stakes"} \cup TotalFields, {t})
        /\ b.locked[t] >= amount => t \notin DOMAIN v.stakes
        /\ ~(b.locked[t] >= amount) => LockTold(st, v, c, t) /\ c.joined = b.joined
        /\ \/ t \notin c.joined /\ c.joined = b.joined \ {t}
           \/ ~(b.locked[t] >= amount) /\ c.staked[t] = b.staked[t]
        /\ \A p \in Operators \ {t} : Same(b, c, p)

LEMMA TargetIsTold ==
    ASSUME NEW st, IsStore(st), NEW b \in Books, Covered(b), NEW t \in Operators, NEW flag,
           flag.atRisk \in Nat, NEW terms \in LeaveTerms,
           NEW unlocked, unlocked = Unlock(b, t, flag.atRisk),
           NEW log, log = IF b.locked[t] >= flag.atRisk
                          THEN KickEvents(unlocked, t, flag.atRisk, terms)
                          ELSE LockEvents(unlocked, t)
    PROVE  TargetTold(st, log, b, SlashTarget(b, t, flag, terms), t, flag.atRisk)
<1> DEFINE c == SlashTarget(b, t, flag, terms)
           v == Index!HandleAll(st, log)
           atRisk == flag.atRisk
           lock == IF b.locked[t] >= atRisk THEN b.locked[t] - atRisk ELSE 0
<1>1. /\ unlocked.staked = b.staked
      /\ unlocked.locked = [b.locked EXCEPT ![t] = lock]
      /\ unlocked.joined = b.joined
      /\ unlocked.operatorCount = b.operatorCount
      /\ unlocked.totalStaked = b.totalStaked
      /\ unlocked.forfeited = b.forfeited - (atRisk - (b.locked[t] - lock))
      /\ unlocked.pool = b.pool
  BY UnlockFields
<1>2. unlocked \in Books /\ Covered(unlocked)
  <2> DEFINE d == Unlock(b, t, atRisk)
             remnant == Remnant(b, t, atRisk)
  <2>1. /\ d \in Books
        /\ Covered(d)
        /\ d.balance = b.balance
        /\ remnant \in Nat
        /\ remnant <= atRisk
        /\ b.locked[t] >= atRisk =>
             /\ remnant = 0
             /\ Owed(d) = Owed(b)
             /\ d.staked[t] - d.locked[t] >= atRisk
        /\ b.locked[t] < atRisk => Owed(d) = Owed(b) - (atRisk - remnant)
    BY UnlockEffect
  <2> QED
    BY <2>1
<1>3. \A p \in Operators \ {t} : Same(b, unlocked, p)
  BY <1>1 DEF Same, Books
<1>4. CASE b.locked[t] >= atRisk
  <2> DEFINE less == ReduceStakeBy(unlocked, t, atRisk)
             k == Kick(unlocked, t, atRisk, terms)
  <2>1. /\ less.locked[t] \in Int
        /\ k.staked[t] = 0 /\ k.locked[t] = 0 /\ k.joined = unlocked.joined \ {t}
        /\ \A p \in Operators \ {t} : Same(unlocked, k, p)
    BY <1>2, KickFields
  <2>2. c = k /\ log = KickEvents(unlocked, t, atRisk, terms)
    BY <1>4 DEF SlashTarget
  <2>3. GoneTold(st, v, k, t) /\ IsLog(log)
    <3>1. terms.penalty \in Int /\ atRisk \in Int
      BY DEF LeaveTerms
    <3> HIDE DEF k
    <3>2. /\ GoneTold(st, Index!HandleAll(st, KickEvents(unlocked, t, atRisk, terms)),
                      Kick(unlocked, t, atRisk, terms), t)
          /\ IsLog(KickEvents(unlocked, t, atRisk, terms))
      BY <2>1, <3>1, KickEventsHandled DEF k
    <3> QED
      BY <2>2, <3>2 DEF k
  <2>4. k \in Books
    <3> DEFINE remnant == Remnant(b, t, flag.atRisk)
    <3>1. /\ c \in Books
          /\ Covered(c)
          /\ c.balance <= b.balance
          /\ remnant \in Nat
          /\ remnant <= flag.atRisk
          /\ Owed(b) - Owed(c) >= b.balance - c.balance + flag.atRisk - remnant
      BY SlashTargetEffect
    <3> QED
      BY <2>2, <3>1
  <2> HIDE DEF k, c, v, less
  <2>5. \A p \in Operators \ {t} : Same(b, c, p)
    BY <1>3, <2>1, <2>2 DEF Same
  <2> QED
    BY <1>1, <1>4, <2>1, <2>2, <2>3, <2>4, <2>5 DEF TargetTold, GoneTold, c, v
<1>5. CASE ~(b.locked[t] >= atRisk)
  <2>1. c = unlocked /\ log = LockEvents(unlocked, t)
    BY <1>5 DEF SlashTarget
  <2>2. unlocked.staked[t] = b.staked[t] /\ b.staked[t] \in Nat
    BY <1>1 DEF Books
  <2>3. LockTold(st, v, unlocked, t) /\ Writes(log, {"stakes"}, {t})
    BY <2>1, <2>2, LockEventsHandled
  <2> HIDE DEF c, v
  <2>4. OnlyThese(st, v, {"stakes"} \cup TotalFields, {t}) /\ IsLog(log)
    <3>1. OnlyThese(st, v, {"stakes"}, {t})
      BY <2>3 DEF LockTold
    <3> QED
      BY <2>3, <3>1 DEF OnlyThese, Writes
  <2> QED
    BY <1>1, <1>2, <1>3, <1>5, <2>1, <2>2, <2>3, <2>4 DEF TargetTold, c, v
<1> QED
  BY <1>4, <1>5

\* What precedes a settlement, as far as a party is concerned
PartyBefore(st, b, d, o) ==
    /\ b.staked[o] \in Nat /\ d.staked[o] \in Nat
    /\ o \in d.joined <=> d.staked[o] > 0
    /\ StakeShown(st, b, o)

\* The verdict of a kick: the target is removed, the flagger's lock is told.
LEMMA KickIsTold ==
    ASSUME NEW st, IsStore(st), NEW b \in Books, Covered(b), NEW t \in Operators, NEW flag,
           flag.atRisk \in Nat, flag.flagStake \in Nat,
           flag.flagger \in Operators, flag.flagger # t,
           NEW terms \in LeaveTerms, NEW paid,
           NEW d, d = HandleKick(b, t, flag, terms, paid).books,
           RewardsPaid => PartyBefore(st, b, d, t) /\ PartyBefore(st, b, d, flag.flagger)
    PROVE  PartiesTold(st, HandleKickEvents(b, t, flag, terms),
                       FlagUpdate(t, Kicked, flag.votesFor, flag.votesAgainst, NoOne, 0, FALSE),
                       t, flag.flagger, d)
<1> DEFINE f == flag.flagger
           unlocked == Unlock(b, t, flag.atRisk)
           slashed == SlashTarget(b, t, flag, terms)
           settled == Unlock(slashed, f, flag.flagStake)
           lock == IF slashed.locked[f] >= flag.flagStake
                   THEN slashed.locked[f] - flag.flagStake ELSE 0
           e == FlagUpdate(t, Kicked, flag.votesFor, flag.votesAgainst, NoOne, 0, FALSE)
           log == HandleKickEvents(b, t, flag, terms)
           A == IF b.locked[t] >= flag.atRisk THEN KickEvents(unlocked, t, flag.atRisk, terms)
                ELSE LockEvents(unlocked, t)
           B == LockEvents(settled, f)
           v == Index!HandleAll(st, A)
           w == Index!HandleAll(v, B)
<1>1. log = A \o B \o <<e>>
  BY Zenon DEF HandleKickEvents
<1>2. \E balance : d = [settled EXCEPT !.balance = balance]
  BY DEF HandleKick
<1>3. /\ slashed \in Books
      /\ IsLog(A) /\ OnlyThese(st, v, {"stakes"} \cup TotalFields, {t})
      /\ b.locked[t] >= flag.atRisk => t \notin DOMAIN v.stakes
      /\ ~(b.locked[t] >= flag.atRisk) => LockTold(st, v, slashed, t) /\ slashed.joined = b.joined
      /\ \/ t \notin slashed.joined /\ slashed.joined = b.joined \ {t}
         \/ ~(b.locked[t] >= flag.atRisk) /\ slashed.staked[t] = b.staked[t]
      /\ \A p \in Operators \ {t} : Same(b, slashed, p)
  <2> HIDE DEF unlocked, slashed, v, A
  <2>1. /\ unlocked = Unlock(b, t, flag.atRisk)
        /\ A = IF b.locked[t] >= flag.atRisk THEN KickEvents(unlocked, t, flag.atRisk, terms)
               ELSE LockEvents(unlocked, t)
    BY DEF unlocked, A
  <2>2. TargetTold(st, A, b, slashed, t, flag.atRisk)
    BY <2>1, TargetIsTold DEF slashed
  <2> QED
    BY <2>2 DEF TargetTold, v
<1> HIDE DEF unlocked, slashed, e, log, A, v
<1>4. settled \in Books
  <2>1. Covered(slashed)
    <3> DEFINE remnant == Remnant(b, t, flag.atRisk)
    <3>1. /\ slashed \in Books
          /\ Covered(slashed)
          /\ slashed.balance <= b.balance
          /\ remnant \in Nat
          /\ remnant <= flag.atRisk
          /\ Owed(b) - Owed(slashed) >= b.balance - slashed.balance + flag.atRisk - remnant
      BY SlashTargetEffect DEF slashed
    <3> QED
      BY <3>1
  <2> DEFINE remnant == Remnant(slashed, f, flag.flagStake)
  <2>2. /\ settled \in Books
        /\ Covered(settled)
        /\ settled.balance = slashed.balance
        /\ remnant \in Nat
        /\ remnant <= flag.flagStake
        /\ slashed.locked[f] >= flag.flagStake =>
             /\ remnant = 0
             /\ Owed(settled) = Owed(slashed)
             /\ settled.staked[f] - settled.locked[f] >= flag.flagStake
        /\ slashed.locked[f] < flag.flagStake =>
             Owed(settled) = Owed(slashed) - (flag.flagStake - remnant)
    BY <1>3, <2>1, UnlockEffect
  <2> QED
    BY <2>2
<1>5. /\ settled.staked = slashed.staked
      /\ settled.locked = [slashed.locked EXCEPT ![f] = lock]
      /\ settled.joined = slashed.joined
      /\ settled.operatorCount = slashed.operatorCount
      /\ settled.totalStaked = slashed.totalStaked
      /\ settled.forfeited = slashed.forfeited - (flag.flagStake - (slashed.locked[f] - lock))
      /\ settled.pool = slashed.pool
  BY <1>3, UnlockFields
<1> HIDE DEF settled, lock
<1>6. /\ d.staked = settled.staked /\ d.locked = settled.locked /\ d.joined = settled.joined
  BY <1>2, <1>4 DEF Books
<1>7. /\ settled.staked[f] \in Nat /\ slashed.locked \in [Operators -> Nat]
  BY <1>3, <1>4 DEF Books
<1>8. LockTold(v, w, settled, f) /\ Writes(B, {"stakes"}, {f}) /\ IsStore(v)
  BY <1>3, <1>7, LockEventsHandled DEF OnlyThese
<1> HIDE DEF w, B
<1>9. IsLog(B) /\ OnlyThese(v, w, {"stakes"}, {f})
  BY <1>8 DEF Writes, LockTold
<1>10. ASSUME RewardsPaid
       PROVE  StakeShown(w, d, t) /\ StakeShown(w, d, f)
  <2>1. PartyBefore(st, b, d, t) /\ PartyBefore(st, b, d, f)
    BY <1>10
  <2>2. d.locked[t] = slashed.locked[t] /\ d.staked[t] = slashed.staked[t]
    BY <1>5, <1>6, <1>7
  <2>3. StakeShown(v, d, t)
    <3>1. CASE b.locked[t] >= flag.atRisk
      <4>1. t \notin DOMAIN v.stakes /\ t \notin d.joined
        BY <1>3, <1>5, <1>6, <3>1
      <4> QED
        BY <4>1 DEF StakeShown
    <3>2. CASE ~(b.locked[t] >= flag.atRisk)
      <4>1. LockTold(st, v, slashed, t) /\ d.joined = b.joined
        BY <1>3, <1>5, <1>6, <3>2
      <4>2. d.staked[t] <= b.staked[t]
        <5>1. /\ b.staked[t] \in Nat /\ d.staked[t] \in Nat
              /\ t \in d.joined <=> d.staked[t] > 0
              /\ t \in b.joined <=> t \in d.joined
          BY <2>1, <4>1 DEF PartyBefore
        <5> QED
          BY <1>3, <2>2, <3>2, <4>1, <5>1
      <4> QED
        BY <2>1, <2>2, <4>1, <4>2, LastLockIsShown DEF PartyBefore
    <3> QED
      BY <3>1, <3>2
  <2>4. StakeShown(w, d, t)
    <3>1. SameStake(v, w, t) /\ Same(d, d, t)
      BY <1>9 DEF OnlyThese, Same
    <3> QED
      BY <2>3, <3>1, SameStakeIsShown
  <2>5. StakeShown(v, b, f)
    <3>1. SameStake(st, v, f) /\ Same(b, b, f)
      BY <1>3 DEF OnlyThese, Same
    <3> QED
      BY <2>1, <3>1, SameStakeIsShown DEF PartyBefore
  <2>6. /\ f \in d.joined <=> f \in b.joined
        /\ d.staked[f] = b.staked[f]
        /\ settled.staked[f] = d.staked[f] /\ settled.locked[f] = d.locked[f]
    BY <1>3, <1>5, <1>6 DEF Same
  <2>7. StakeShown(w, d, f)
    <3>1. /\ b.staked[f] \in Nat /\ d.staked[f] \in Nat /\ d.staked[f] <= b.staked[f]
          /\ f \in d.joined <=> d.staked[f] > 0
      BY <2>1, <2>6 DEF PartyBefore
    <3> QED
      BY <1>8, <2>5, <2>6, <3>1, LastLockIsShown
  <2> QED
    BY <2>4, <2>7
<1>11. PartiesTold(st, log, e, t, f, d)
  <2> HIDE DEF f
  <2> QED
    BY <1>1, <1>3, <1>9, <1>10 DEF PartiesTold, v, w
<1> QED
  BY Zenon, <1>11 DEF log, e, f

\* A slashing of what is not locked, account by account
Charged(b, c, o) ==
    /\ c \in Books
    /\ c.locked = b.locked /\ c.joined = b.joined
    /\ c.staked[o] <= b.staked[o]
    /\ \A p \in Operators \ {o} : c.staked[p] = b.staked[p]

LEMMA ChargeFields ==
    ASSUME NEW b \in Books, NEW o \in Operators, NEW amount \in Nat, Covered(b)
    PROVE  Charged(b, ReduceStakeBy(b, o, amount), o)
<1> DEFINE c == ReduceStakeBy(b, o, amount)
           taken == Reduction(b, o, amount)
<1>1. /\ c.staked = [b.staked EXCEPT ![o] = b.staked[o] - taken]
      /\ c.locked = b.locked
      /\ c.joined = b.joined
      /\ c.operatorCount = b.operatorCount
      /\ c.totalStaked = b.totalStaked - taken
      /\ c.forfeited = b.forfeited
      /\ c.pool = b.pool
  BY ReduceStakeByFields
<1>2. /\ c \in Books
      /\ Covered(c)
      /\ c.locked = b.locked
      /\ c.balance = b.balance
      /\ c.forfeited = b.forfeited
      /\ c.joined = b.joined
      /\ Owed(c) = Owed(b) - taken
  BY ReduceStakeByEffect
<1>3. /\ taken \in Nat
      /\ taken <= amount
      /\ taken <= b.staked[o] - b.locked[o]
      /\ amount <= b.staked[o] - b.locked[o] => taken = amount
  BY ReductionBounds
<1>4. b.staked \in [Operators -> Nat]
  BY DEF Books
<1> HIDE DEF c, taken
<1>5. c.staked[o] <= b.staked[o] /\ \A p \in Operators \ {o} : c.staked[p] = b.staked[p]
  BY <1>1, <1>3, <1>4
<1> QED
  BY <1>1, <1>2, <1>5 DEF Charged, c

\* The verdict not to kick: the target is released, the flagger is slashed for
\* the reviewers' rewards, and then its lock is told.
LEMMA NoKickIsTold ==
    ASSUME NEW st, IsStore(st), NEW b \in Books, Covered(b), NEW t \in Operators, NEW flag,
           flag.atRisk \in Nat, flag.flagStake \in Nat,
           flag.flagger \in Operators, flag.flagger # t,
           NEW paid, NEW rewards \in Nat,
           rewards = Cardinality(paid \ {flag.flagger}) * flag.reviewerReward,
           NEW d, d = HandleNoKick(b, t, flag, paid).books,
           RewardsPaid => PartyBefore(st, b, d, t) /\ PartyBefore(st, b, d, flag.flagger)
    PROVE  PartiesTold(st, HandleNoKickEvents(b, t, flag, paid),
                       FlagUpdate(t, NotKicked, flag.votesFor, flag.votesAgainst, NoOne, 0, FALSE),
                       t, flag.flagger, d)
<1> DEFINE f == flag.flagger
           released == Unlock(b, t, flag.atRisk)
           lockT == IF b.locked[t] >= flag.atRisk THEN b.locked[t] - flag.atRisk ELSE 0
           unlocked == Unlock(released, f, flag.flagStake)
           lock == IF released.locked[f] >= flag.flagStake
                   THEN released.locked[f] - flag.flagStake ELSE 0
           flaggerCovered == released.locked[f] >= flag.flagStake
           charged == IF flaggerCovered THEN ReduceStakeBy(unlocked, f, rewards) ELSE unlocked
           e == FlagUpdate(t, NotKicked, flag.votesFor, flag.votesAgainst, NoOne, 0, FALSE)
           log == HandleNoKickEvents(b, t, flag, paid)
           slashing == OperatorSlashed(f, Reduction(unlocked, f, rewards))
           condition == released.locked[f] >= flag.flagStake /\ rewards > 0
           A == LockEvents(released, t)
           W == When(condition, slashing)
           B == LockEvents(d, f)
           a == Index!HandleAll(st, A)
           v == Index!HandleAll(a, W)
           w == Index!HandleAll(v, B)
<1>1. log = A \o W \o B \o <<e>>
  BY Zenon DEF HandleNoKickEvents
<1>2. \E balance : d = [charged EXCEPT !.balance = balance]
  BY DEF HandleNoKick
<1>3. /\ released.staked = b.staked
      /\ released.locked = [b.locked EXCEPT ![t] = lockT]
      /\ released.joined = b.joined
      /\ released.operatorCount = b.operatorCount
      /\ released.totalStaked = b.totalStaked
      /\ released.forfeited = b.forfeited - (flag.atRisk - (b.locked[t] - lockT))
      /\ released.pool = b.pool
  BY UnlockFields
<1>4. released \in Books /\ Covered(released)
  BY UnlockEffect
<1>5. condition \in BOOLEAN
  OBVIOUS
<1> HIDE DEF released, lockT, e, log, condition, A
<1>6. /\ unlocked.staked = released.staked
      /\ unlocked.locked = [released.locked EXCEPT ![f] = lock]
      /\ unlocked.joined = released.joined
      /\ unlocked.operatorCount = released.operatorCount
      /\ unlocked.totalStaked = released.totalStaked
      /\ unlocked.forfeited = released.forfeited - (flag.flagStake - (released.locked[f] - lock))
      /\ unlocked.pool = released.pool
  BY <1>4, UnlockFields
<1>7. unlocked \in Books /\ Covered(unlocked)
  BY <1>4, UnlockEffect
<1> HIDE DEF unlocked, lock
<1>8. /\ b.staked \in [Operators -> Nat] /\ b.locked \in [Operators -> Nat]
      /\ unlocked.staked = b.staked /\ unlocked.joined = b.joined
      /\ released.locked[t] = unlocked.locked[t] /\ released.staked[t] = b.staked[t]
      /\ released.locked \in [Operators -> Nat]
  BY <1>3, <1>4, <1>6 DEF Books
<1>9. /\ charged \in Books
      /\ charged.locked = unlocked.locked /\ charged.joined = b.joined
      /\ charged.staked[f] <= b.staked[f] /\ charged.staked[t] = b.staked[t]
  <2>1. CASE flaggerCovered
    <3>1. f \in Operators /\ unlocked \in Books /\ Covered(unlocked)
      BY <1>7
    <3>2. charged = ReduceStakeBy(unlocked, f, rewards)
      BY <2>1
    <3> HIDE DEF f, charged, flaggerCovered, slashing, W, B
    <3>3. Charged(unlocked, charged, f)
      BY <3>1, <3>2, ChargeFields
    <3>4. t \in Operators \ {f}
      BY DEF f
    <3> QED
      BY <1>8, <3>3, <3>4 DEF Charged
  <2>2. CASE ~flaggerCovered
    <3>1. charged = unlocked
      BY <2>2
    <3> HIDE DEF charged, flaggerCovered
    <3> QED
      BY <1>7, <1>8, <3>1
  <2> QED
    BY <2>1, <2>2
<1> HIDE DEF charged, flaggerCovered
<1>10. /\ d.staked = charged.staked /\ d.locked = charged.locked /\ d.joined = charged.joined
       /\ d.staked[f] \in Nat /\ d.staked[t] \in Nat
  BY <1>2, <1>9 DEF Books
<1>11. LockTold(st, a, released, t) /\ Writes(A, {"stakes"}, {t}) /\ IsStore(a)
  <2>1. released.staked[t] \in Nat
    BY <1>8
  <2>2. LockTold(st, a, released, t) /\ Writes(A, {"stakes"}, {t})
    BY <2>1, LockEventsHandled DEF A
  <2> QED
    BY <2>2 DEF LockTold, OnlyThese
<1> HIDE DEF a
<1>12. Writes(W, {}, {}) /\ OnlyThese(a, v, {}, {}) /\ IsStore(v)
  <2>1. Writes(<<slashing>>, {}, {})
    BY SlashedIsWritten
  <2> HIDE DEF slashing
  <2>2. Writes(W, {}, {})
    BY <1>5, <2>1, WritesWhen
  <2> HIDE DEF W
  <2> QED
    BY <1>11, <2>2 DEF Writes, OnlyThese
<1> HIDE DEF v, W, slashing
<1>13. LockTold(v, w, d, f) /\ Writes(B, {"stakes"}, {f})
  BY <1>10, <1>12, LockEventsHandled
<1> HIDE DEF w, B
<1>14. IsLog(B) /\ OnlyThese(v, w, {"stakes"}, {f})
  BY <1>13 DEF Writes, LockTold
<1>15. /\ IsLog(A \o W) /\ v = Index!HandleAll(st, A \o W)
       /\ OnlyThese(st, v, {"stakes"} \cup TotalFields, {t})
  <2>1. IsLog(A) /\ IsLog(W)
    BY <1>11, <1>12 DEF Writes
  <2>2. Index!HandleAll(st, A \o W) = Index!HandleAll(Index!HandleAll(st, A), W) /\ IsLog(A \o W)
    BY <2>1, LogsInTurn
  <2>3. OnlyThese(st, a, {"stakes"}, {t})
    BY <1>11 DEF LockTold
  <2>4. OnlyThese(st, v, {"stakes"} \cup {}, {t} \cup {})
    BY <1>12, <2>3, ChangesInTurn
  <2>5. OnlyThese(st, v, {"stakes"} \cup TotalFields, {t})
    <3>1. {"stakes"} \cup {} = {"stakes"} /\ {t} \cup {} = {t}
      OBVIOUS
    <3>2. OnlyThese(st, v, {"stakes"}, {t})
      BY <2>4, <3>1
    <3> QED
      BY <3>2 DEF OnlyThese
  <2> QED
    BY <2>2, <2>5 DEF v, a
<1>16. ASSUME RewardsPaid
       PROVE  StakeShown(w, d, t) /\ StakeShown(w, d, f)
  <2>1. PartyBefore(st, b, d, t) /\ PartyBefore(st, b, d, f)
    BY <1>16
  <2>2. /\ d.locked[t] = released.locked[t] /\ d.staked[t] = released.staked[t]
        /\ d.staked[t] = b.staked[t] /\ d.joined = b.joined
        /\ b.staked[t] \in Nat /\ b.staked[f] \in Nat
    BY <1>8, <1>9, <1>10
  <2>3. StakeShown(a, d, t)
    <3>1. /\ released.staked[t] = d.staked[t] /\ released.locked[t] = d.locked[t]
          /\ b.staked[t] \in Nat /\ d.staked[t] \in Nat /\ d.staked[t] <= b.staked[t]
          /\ t \in d.joined <=> t \in b.joined
          /\ t \in d.joined <=> d.staked[t] > 0
          /\ StakeShown(st, b, t)
      BY <2>1, <2>2 DEF PartyBefore
    <3> QED
      BY <1>11, <3>1, LastLockIsShown
  <2>4. StakeShown(v, d, t) /\ StakeShown(w, d, t)
    <3>1. SameStake(a, v, t) /\ SameStake(v, w, t) /\ Same(d, d, t)
      BY <1>12, <1>14 DEF OnlyThese, Same
    <3>2. StakeShown(v, d, t)
      BY <2>3, <3>1, SameStakeIsShown
    <3> QED
      BY <3>1, <3>2, SameStakeIsShown
  <2>5. StakeShown(v, b, f)
    <3>1. SameStake(st, v, f) /\ Same(b, b, f)
      BY <1>15 DEF OnlyThese, Same
    <3> QED
      BY <2>1, <3>1, SameStakeIsShown DEF PartyBefore
  <2>6. StakeShown(w, d, f)
    <3>1. /\ b.staked[f] \in Nat /\ d.staked[f] \in Nat /\ d.staked[f] <= b.staked[f]
          /\ f \in d.joined <=> d.staked[f] > 0
          /\ f \in d.joined <=> f \in b.joined
      BY <1>9, <1>10, <2>1, <2>2 DEF PartyBefore
    <3> QED
      BY <1>12, <1>13, <2>5, <3>1, LastLockIsShown
  <2> QED
    BY <2>4, <2>6
<1>17. PartiesTold(st, log, e, t, f, d)
  <2> HIDE DEF f
  <2>1. log = (A \o W) \o B \o <<e>>
    BY <1>1
  <2> QED
    BY <1>14, <1>15, <1>16, <2>1 DEF PartiesTold, w
<1> QED
  BY Zenon, <1>17 DEF log, e, f

\* What the events of a settlement leave in the store
EndTold(st, log, t, f, n, d) ==
    LET u == Index!HandleAll(st, log)
    IN  /\ IsLog(log)
        /\ OnlyThese(st, u, {"stakes", "flags", "votes"} \cup TotalFields, {t, f})
        /\ TotalsTold(u, d)
        /\ HistoryShown(u, t, n, NoFlag) /\ u.votes = st.votes /\ OthersStay(st, u, t)
        /\ RewardsPaid => StakeShown(u, d, t) /\ StakeShown(u, d, f)

\* The parties, the verdict and then the totals are told.
LEMMA EndIsTold ==
    ASSUME NEW st, IsStore(st), NEW t \in Operators, NEW f \in Operators, NEW n, NEW flag,
           HistoryShown(st, t, n, flag), flag.phase # "none",
           NEW status \in {Kicked, NotKicked}, NEW voter, NEW kick,
           NEW e, e = FlagUpdate(t, status, flag.votesFor, flag.votesAgainst, voter, 0, kick),
           NEW log, NEW d, PartiesTold(st, log, e, t, f, d)
    PROVE  EndTold(st, log \o <<SponsorshipUpdate(d)>>, t, f, n, d)
<1>1. PICK a, b :
         LET v == Index!HandleAll(st, a)
             w == Index!HandleAll(v, b)
         IN  /\ IsLog(a) /\ IsLog(b) /\ log = a \o b \o <<e>>
             /\ OnlyThese(st, v, {"stakes"} \cup TotalFields, {t})
             /\ OnlyThese(v, w, {"stakes"}, {f})
             /\ RewardsPaid => StakeShown(w, d, t) /\ StakeShown(w, d, f)
  BY DEF PartiesTold
<1> DEFINE v == Index!HandleAll(st, a)
           w == Index!HandleAll(v, b)
           y == Index!Handle(w, e)
           whole == log \o <<SponsorshipUpdate(d)>>
           u == Index!HandleAll(st, whole)
           touched == {"stakes"} \cup TotalFields
           fields == {"stakes", "flags", "votes"} \cup TotalFields
<1>2. /\ IsLog(a) /\ IsLog(b) /\ log = (a \o b) \o <<e>>
      /\ OnlyThese(st, v, touched, {t}) /\ OnlyThese(v, w, {"stakes"}, {f})
      /\ RewardsPaid => StakeShown(w, d, t) /\ StakeShown(w, d, f)
  BY <1>1
<1>3. IsLog(log) /\ Index!HandleAll(st, log) = y
  <2>1. Index!HandleAll(st, a \o b) = w /\ IsLog(a \o b)
    BY <1>2, LogsInTurn
  <2>2. IsLog(<<e>>) /\ Index!HandleAll(w, <<e>>) = y
    BY OneIsLog, OneToHandle
  <2> HIDE DEF w, y
  <2>3. /\ Index!HandleAll(st, (a \o b) \o <<e>>)
             = Index!HandleAll(Index!HandleAll(st, a \o b), <<e>>)
        /\ IsLog((a \o b) \o <<e>>)
    BY <2>1, <2>2, LogsInTurn
  <2> QED
    BY <1>2, <2>1, <2>2, <2>3
<1> HIDE DEF v, w
<1>4. OnlyThese(st, w, touched, {t, f}) /\ IsStore(w)
  <2>1. OnlyThese(st, w, touched \cup {"stakes"}, {t} \cup {f})
    BY <1>2, ChangesInTurn
  <2>2. touched \cup {"stakes"} = touched /\ {t} \cup {f} = {t, f}
    OBVIOUS
  <2>3. OnlyThese(st, w, touched, {t, f})
    BY <2>1, <2>2
  <2> QED
    BY <2>3 DEF OnlyThese
<1>5. w.flags = st.flags /\ w.votes = st.votes
  BY <1>4 DEF OnlyThese, StoreFields, TotalFields
<1>6. HistoryShown(w, t, n, flag)
  BY <1>5, HistoryStays
<1>7. /\ OnlyThese(w, y, {"flags", "votes"}, {})
      /\ HistoryShown(y, t, n, NoFlag) /\ y.votes = w.votes /\ OthersStay(w, y, t)
  BY <1>4, <1>6, VerdictIsShown
<1> HIDE DEF y
<1>8. OnlyThese(st, y, fields, {t, f})
  <2>1. OnlyThese(st, y, touched \cup {"flags", "votes"}, {t, f} \cup {})
    BY <1>4, <1>7, ChangesInTurn
  <2>2. touched \cup {"flags", "votes"} = fields /\ {t, f} \cup {} = {t, f}
    OBVIOUS
  <2> QED
    BY <2>1, <2>2
<1>9. /\ OnlyThese(st, u, fields, {t, f}) /\ OnlyThese(y, u, TotalFields, {})
      /\ TotalsTold(u, d) /\ IsLog(whole)
  <2>1. OnlyThese(st, Index!HandleAll(st, log), fields, {t, f})
    BY <1>3, <1>8
  <2> HIDE DEF fields
  <2>2. /\ OnlyThese(st, u, fields \cup TotalFields, {t, f})
        /\ OnlyThese(Index!HandleAll(st, log), u, TotalFields, {})
        /\ TotalsTold(u, d)
    BY <1>3, <2>1, TotalsToldLast
  <2>3. fields \cup TotalFields = fields
    BY DEF fields
  <2>4. IsLog(whole)
    BY <1>3, OneIsLog, LogsInTurn
  <2> QED
    BY <1>3, <2>2, <2>3, <2>4
<1> HIDE DEF u, whole
<1>10. u.flags = y.flags /\ u.votes = y.votes /\ \A o \in Operators : SameStake(y, u, o)
  BY <1>9 DEF OnlyThese, StoreFields, TotalFields
<1>11. HistoryShown(u, t, n, NoFlag)
  BY <1>7, <1>10, HistoryStays
<1>12. OthersStay(st, u, t)
  BY <1>5, <1>7, <1>10 DEF OthersStay
<1>13. ASSUME RewardsPaid, NEW o \in {t, f}
       PROVE  StakeShown(u, d, o)
  <2>1. SameStake(w, y, o) /\ SameStake(y, u, o) /\ Same(d, d, o)
    BY <1>7, <1>10 DEF OnlyThese, Same
  <2>2. StakeShown(w, d, o)
    BY <1>2, <1>13
  <2>3. StakeShown(y, d, o)
    BY <2>1, <2>2, SameStakeIsShown
  <2> QED
    BY <2>1, <2>3, SameStakeIsShown
<1>14. EndTold(st, whole, t, f, n, d)
  BY <1>5, <1>7, <1>9, <1>10, <1>11, <1>12, <1>13 DEF EndTold, u
<1> QED
  BY <1>14 DEF whole

LEMMA SettlementIsTold ==
    ASSUME NEW st, IsStore(st), books \in Books, Covered(books),
           NEW t \in Operators, NEW flag, FlagInv(flag), flag.phase # "none", flag.flagger # t,
           NEW terms \in LeaveTerms, NEW paid \in PaidSets(flag),
           NEW n, HistoryShown(st, t, n, flag),
           NEW d, d = Settlement(books, t, flag, terms, paid).books,
           RewardsPaid => /\ PartyBefore(st, books, d, t)
                          /\ PartyBefore(st, books, d, flag.flagger)
    PROVE  EndTold(st, SettlementEvents(t, flag, terms, paid), t, flag.flagger, n, d)
<1> DEFINE b == books
           f == flag.flagger
           silent == SettlementEventsSilent(t, flag, terms, paid)
           rewards == Cardinality(paid \ {flag.flagger}) * flag.reviewerReward
<1>1. flag.atRisk \in Nat /\ flag.flagStake \in Nat /\ f \in Operators
  BY DEF FlagInv, FlagType
<1>2. rewards \in Nat
  BY RewardsBound
<1>3. \E status \in {Kicked, NotKicked} : \E voter, kick :
         PartiesTold(st, silent, FlagUpdate(t, status, flag.votesFor, flag.votesAgainst,
                                            voter, 0, kick), t, f, d)
  <2>1. CASE Verdict(flag) = VotedKick
    <3> DEFINE e == FlagUpdate(t, Kicked, flag.votesFor, flag.votesAgainst, NoOne, 0, FALSE)
               log == HandleKickEvents(b, t, flag, terms)
    <3>1. d = HandleKick(b, t, flag, terms, paid).books /\ silent = log
      BY <2>1 DEF Settlement, SettlementEventsSilent
    <3> HIDE DEF b
    <3>2. PartiesTold(st, log, e, t, f, d)
      <4>1. /\ b \in Books /\ Covered(b) /\ d = HandleKick(b, t, flag, terms, paid).books
            /\ RewardsPaid => PartyBefore(st, b, d, t) /\ PartyBefore(st, b, d, flag.flagger)
        BY <3>1 DEF b
      <4> QED
        BY <1>1, <4>1, KickIsTold
    <3> HIDE DEF log, silent
    <3>3. PartiesTold(st, silent, e, t, f, d)
      BY Zenon, <3>1, <3>2
    <3> QED
      BY Zenon, <3>3
  <2>2. CASE Verdict(flag) # VotedKick
    <3> DEFINE e == FlagUpdate(t, NotKicked, flag.votesFor, flag.votesAgainst, NoOne, 0, FALSE)
               log == HandleNoKickEvents(b, t, flag, paid)
    <3>1. d = HandleNoKick(b, t, flag, paid).books /\ silent = log
      BY <2>2 DEF Settlement, SettlementEventsSilent
    <3> HIDE DEF b
    <3>2. PartiesTold(st, log, e, t, f, d)
      <4>1. /\ b \in Books /\ Covered(b) /\ d = HandleNoKick(b, t, flag, paid).books
            /\ RewardsPaid => PartyBefore(st, b, d, t) /\ PartyBefore(st, b, d, flag.flagger)
        BY <3>1 DEF b
      <4> QED
        BY <1>1, <1>2, <4>1, NoKickIsTold
    <3> HIDE DEF log, silent
    <3>3. PartiesTold(st, silent, e, t, f, d)
      BY Zenon, <3>1, <3>2
    <3> QED
      BY Zenon, <3>3
  <2> QED
    BY <2>1, <2>2
<1>4. SettlementEvents(t, flag, terms, paid) = silent \o <<SponsorshipUpdate(d)>>
  BY DEF SettlementEvents
<1> HIDE DEF silent
<1>5. EndTold(st, silent \o <<SponsorshipUpdate(d)>>, t, f, n, d)
  <2>1. PICK status \in {Kicked, NotKicked} : \E voter, kick :
           PartiesTold(st, silent, FlagUpdate(t, status, flag.votesFor, flag.votesAgainst,
                                              voter, 0, kick), t, f, d)
    BY <1>3
  <2>2. PICK voter, kick :
           PartiesTold(st, silent, FlagUpdate(t, status, flag.votesFor, flag.votesAgainst,
                                              voter, 0, kick), t, f, d)
    BY <2>1
  <2> DEFINE e == FlagUpdate(t, status, flag.votesFor, flag.votesAgainst, voter, 0, kick)
  <2>3. /\ e = FlagUpdate(t, status, flag.votesFor, flag.votesAgainst, voter, 0, kick)
        /\ PartiesTold(st, silent, e, t, f, d)
    BY <2>2
  <2> HIDE DEF e
  <2> QED
    BY <1>1, <2>3, EndIsTold
<1> QED
  BY <1>4, <1>5

\* The flags that nothing was told of are shown as before.
LEMMA HistoriesAfter ==
    ASSUME FlagsInv, HistoriesInv, NEW t \in Operators, NEW n, NEW flag,
           HistoryShown(store', t, n, flag), OthersStay(store, store', t), VotesTyped(store'),
           flags' = [flags EXCEPT ![t] = flag]
    PROVE  HistoriesInv'
<1>1. ASSUME NEW p \in Operators
      PROVE  \E m : HistoryShown(store', p, m, flags'[p])
  <2>1. CASE p = t
    <3>1. flags'[t] = flag
      BY DEF FlagsInv
    <3> QED
      BY <2>1, <3>1
  <2>2. CASE p # t
    <3>1. flags'[p] = flags[p]
      BY <2>2 DEF FlagsInv
    <3>2. PICK m : HistoryShown(store, p, m, flags[p])
      BY DEF HistoriesInv
    <3>3. HistoryShown(store', p, m, flags[p])
      BY <2>2, <3>2, HistoryStays DEF OthersStay
    <3> QED
      BY <3>1, <3>3
  <2> QED
    BY <2>1, <2>2
<1> QED
  BY <1>1 DEF HistoriesInv

\* What is told before a flag is settled: nothing, or the last vote.
EarlierTold(st, t, n, flag) ==
    /\ OnlyThese(store, st, {"flags", "votes"}, {})
    /\ HistoryShown(st, t, n, flag) /\ VotesTyped(st) /\ OthersStay(store, st, t)

\* The end of a voting: both parties, the flag and the totals are shown.
LEMMA EndsVoteKeeps ==
    ASSUME Sound, Sound', IndexInv, NEW t \in Operators, NEW flag, Settled(t, flag),
           NEW earlier, IsLog(earlier),
           NEW st, st = Index!HandleAll(store, earlier), NEW n, EarlierTold(st, t, n, flag),
           EndsVote(t, flag, earlier)
    PROVE  IndexInv'
<1> DEFINE f == flag.flagger
           fields == {"stakes", "flags", "votes"} \cup TotalFields
<1>1. /\ IInv /\ SettlementInv /\ BooksInv /\ FlagsInv /\ books \in Books /\ Covered(books)
      /\ books.pool \in Nat /\ IsStore(store) /\ IsStore(st)
      /\ StakesInv /\ TotalsInv /\ NetworkInv /\ HistoriesInv
  BY SoundFacts DEF Sound, IInv, IndexInv, EarlierTold, OnlyThese
<1>2. /\ FlagInv(flag) /\ Promises(t, flag) /\ SameTerms(flag, flags[t]) /\ EndVote(t, flag)
      /\ flag.phase # "none" /\ f # t /\ f \in Operators
  <2>1. FlagInv(flag) /\ Promises(t, flag) /\ SameTerms(flag, flags[t]) /\ EndVote(t, flag)
    BY DEF Settled
  <2> QED
    BY <2>1 DEF SameTerms, Promises, FlagInv, FlagType
<1>3. /\ flags' = [flags EXCEPT ![t] = NoFlag] /\ config' = config
      /\ \A o \in Operators \ {t, f} : Same(books, books', o)
      /\ books'.pool \in Int /\ books'.pool <= books.pool
  <2>1. PICK terms \in LeaveTermsOf(t) : \E s :
           /\ books' = s.books
           /\ SettlesFlag(books, t, flag, terms, Due(flags), s)
    BY <1>1, <1>2, EndVoteSettles
  <2>2. terms.earnings \in Nat
    <3>1. terms \in LeaveTerms
      BY <1>1, LeaveTermsTyped
    <3> QED
      BY <3>1 DEF LeaveTerms
  <2>3. /\ \A o \in Operators \ {t, f} : Same(books, books', o)
        /\ books'.pool \in {books.pool, books.pool - terms.earnings}
    BY <2>1 DEF SettlesFlag
  <2>4. flags' = [flags EXCEPT ![t] = NoFlag] /\ config' = config
    BY <1>2 DEF EndVote
  <2> QED
    BY <1>1, <2>2, <2>3, <2>4
<1>4. PICK terms \in LeaveTermsOf(t), paid \in PaidSets(flag) :
         /\ Settlement(books, t, flag, terms, paid).books = books'
         /\ store' = Index!HandleAll(store, earlier \o SettlementEvents(t, flag, terms, paid))
  BY DEF EndsVote, Emits
<1> DEFINE log == SettlementEvents(t, flag, terms, paid)
<1>5. RewardsPaid => PartyBefore(st, books, books', t) /\ PartyBefore(st, books, books', f)
  <2> HIDE DEF f
  <2>1. ASSUME RewardsPaid, NEW o \in {t, f}
        PROVE  PartyBefore(st, books, books', o)
    <3>1. books.staked[o] \in Nat /\ books'.staked[o] \in Nat
      <4>1. books' \in Books /\ o \in Operators
        BY <1>2, SoundFacts DEF Sound, IInv, BooksInv
      <4> QED
        BY <1>1, <4>1 DEF Books
    <3>2. Agree(books')
      <4>1. RewardsPaid
        BY <2>1
      <4> QED
        BY <4>1, AgreeAfter
    <3>3. StakeShown(store, books, o) /\ SameStake(store, st, o) /\ Same(books, books, o)
      BY <1>1, <1>2, <2>1 DEF StakesInv, EarlierTold, OnlyThese, Same
    <3>4. StakeShown(st, books, o)
      BY <3>3, SameStakeIsShown
    <3> QED
      BY <1>2, <3>1, <3>2, <3>4 DEF PartyBefore, Agree
  <2> QED
    BY <2>1
<1>6. EndTold(st, log, t, f, n, books')
  <2>1. terms \in LeaveTerms
    BY <1>1, LeaveTermsTyped
  <2>2. HistoryShown(st, t, n, flag)
    BY DEF EarlierTold
  <2> QED
    BY <1>1, <1>2, <1>4, <1>5, <2>1, <2>2, SettlementIsTold
<1> HIDE DEF log
<1>7. store' = Index!HandleAll(st, log)
  <2>1. IsLog(log)
    BY <1>6 DEF EndTold
  <2>2. Index!HandleAll(store, earlier \o log) = Index!HandleAll(Index!HandleAll(store, earlier), log)
    BY <2>1, LogsInTurn
  <2> QED
    BY <1>4, <2>2 DEF log
<1>8. /\ OnlyThese(st, store', fields, {t, f})
      /\ TotalsTold(store', books')
      /\ HistoryShown(store', t, n, NoFlag) /\ store'.votes = st.votes
      /\ OthersStay(st, store', t)
      /\ RewardsPaid => StakeShown(store', books', t) /\ StakeShown(store', books', f)
  BY <1>6, <1>7 DEF EndTold
<1>9. OnlyThese(store, store', fields, {t, f}) /\ IsStore(store')
  <2>1. OnlyThese(store, store', {"flags", "votes"} \cup fields, {} \cup {t, f})
    BY <1>8, ChangesInTurn DEF EarlierTold
  <2>2. {"flags", "votes"} \cup fields = fields /\ {} \cup {t, f} = {t, f}
    OBVIOUS
  <2>3. OnlyThese(store, store', fields, {t, f})
    BY <2>1, <2>2
  <2> QED
    BY <2>3 DEF OnlyThese
<1>10. StakesInv'
  <2>1. RewardsPaid => \A o \in {t, f} : StakeShown(store', books', o)
    BY <1>8
  <2> HIDE DEF fields, f
  <2> QED
    BY <1>1, <1>3, <1>9, <2>1, StakesStayShown
<1>11. /\ store'.network = store.network
       /\ store'.cumulativeSponsoring = store.cumulativeSponsoring
  BY <1>9 DEF OnlyThese, StoreFields, TotalFields
<1>12. TotalsInv'
  <2>1. store.cumulativeSponsoring \in Int /\ store.cumulativeSponsoring >= books.pool
    BY <1>1 DEF TotalsInv
  <2>2. store'.cumulativeSponsoring \in Int /\ store'.cumulativeSponsoring >= books'.pool
    BY <1>1, <1>3, <1>11, <2>1
  <2> QED
    BY <1>8, <2>2 DEF TotalsInv
<1>13. NetworkInv'
  BY <1>1, <1>3, <1>11 DEF NetworkInv
<1>14. HistoriesInv'
  <2>1. OthersStay(store, store', t)
    BY <1>8 DEF EarlierTold, OthersStay
  <2>2. VotesTyped(store')
    BY <1>8 DEF EarlierTold, VotesTyped
  <2> QED
    BY <1>1, <1>3, <1>8, <2>1, <2>2, HistoriesAfter
<1> QED
  BY <1>9, <1>10, <1>12, <1>13, <1>14 DEF IndexInv

LEMMA IndexedVoteKeeps ==
    ASSUME Sound, Sound', IndexInv, NEW t \in Operators, NEW v \in Voters, NEW kick \in BOOLEAN,
           IndexedVote(t, v, kick)
    PROVE  IndexInv'
<1> DEFINE flag == flags[t]
           voted == CastVote(flag, v, kick)
           e == VoteEvent(t, v, kick)
           st == Index!Handle(store, e)
<1>1. /\ FlagsInv /\ PromisesInv /\ FlagInv(flag) /\ IsStore(store)
      /\ StakesInv /\ TotalsInv /\ NetworkInv /\ HistoriesInv
  BY DEF Sound, IInv, FlagsInv, SettlementInv, IndexInv
<1>2. flag.phase # "none" /\ flag.state[v] > 0 /\ flag.state[v] \in Int
  <2>1. flag.phase = "voting" /\ flag.state[v] > 0
    BY DEF IndexedVote, Vote
  <2>2. flag.state \in [Voters -> Int]
    BY DEF Sound, VotesInv, VotesSound
  <2> QED
    BY <2>1, <2>2
<1>3. FlagInv(voted) /\ Promises(t, voted) /\ SameTerms(voted, flag)
  BY <1>1, <1>2, CastVotePromises
<1>4. PICK n : HistoryShown(store, t, n, flag)
  BY <1>1 DEF HistoriesInv
<1>5. EarlierTold(st, t, n, voted)
  <2>1. e = FlagUpdate(t, Voting, voted.votesFor, voted.votesAgainst, v, flag.state[v], kick)
    BY DEF VoteEvent
  <2>2. VotesTyped(store)
    BY <1>1 DEF HistoriesInv
  <2> DEFINE other == voted
  <2>3. other = CastVote(flag, v, kick)
    OBVIOUS
  <2> HIDE DEF e, other
  <2>4. e = FlagUpdate(t, Voting, other.votesFor, other.votesAgainst, v, flag.state[v], kick)
    BY <2>1 DEF other
  <2> HIDE DEF flag
  <2>5. /\ OnlyThese(store, st, {"flags", "votes"}, {})
        /\ HistoryShown(st, t, n, other) /\ VotesTyped(st) /\ OthersStay(store, st, t)
    BY <1>1, <1>2, <1>4, <2>2, <2>3, <2>4, VoteIsShown
  <2> QED
    BY <2>3, <2>5 DEF EarlierTold
<1>6. IsLog(<<e>>) /\ Index!HandleAll(store, <<e>>) = st
  BY OneIsLog, OneToHandle
<1> HIDE DEF e, st
<1>7. CASE AllVoted(voted)
  <2>1. EndVote(t, voted) /\ EndsVote(t, voted, <<e>>)
    BY <1>7 DEF IndexedVote, Vote, e
  <2> HIDE DEF voted
  <2>2. Settled(t, voted)
    BY <1>3, <2>1 DEF Settled
  <2> HIDE DEF flag
  <2> QED
    BY <1>5, <1>6, <2>1, <2>2, EndsVoteKeeps
<1>8. CASE ~AllVoted(voted)
  <2>1. /\ flags' = [flags EXCEPT ![t] = voted] /\ UNCHANGED <<books, config>>
        /\ store' = st
    BY <1>6, <1>8 DEF IndexedVote, Vote, Emits, e
  <2> HIDE DEF voted
  <2>2. /\ OnlyThese(store, store', {"flags", "votes"}, {})
        /\ HistoryShown(store', t, n, voted) /\ VotesTyped(store') /\ OthersStay(store, store', t)
    BY <1>5, <2>1 DEF EarlierTold
  <2>3. HistoriesInv'
    BY <1>1, <2>1, <2>2, HistoriesAfter
  <2>4. StakesInv'
    <3>1. \A o \in Operators : Same(books, books', o)
      BY <2>1 DEF Same
    <3> QED
      BY <1>1, <2>2, <3>1, StakesStayShown
  <2>5. /\ store'.network = store.network
        /\ store'.totalStakedWei = store.totalStakedWei
        /\ store'.operatorCount = store.operatorCount
        /\ store'.cumulativeSponsoring = store.cumulativeSponsoring
        /\ IsStore(store')
    BY <2>2 DEF OnlyThese, StoreFields
  <2>6. NetworkInv' /\ TotalsInv'
    BY <1>1, <2>1, <2>5 DEF NetworkInv, TotalsInv, TotalsTold
  <2> QED
    BY <2>3, <2>4, <2>5, <2>6 DEF IndexInv
<1> QED
  BY <1>7, <1>8

LEMMA IndexedEndVotingPeriodKeeps ==
    ASSUME Sound, Sound', IndexInv, NEW t \in Operators, IndexedEndVotingPeriod(t)
    PROVE  IndexInv'
<1>1. Settled(t, flags[t])
  BY EndVotingPeriodSettles DEF IndexedEndVotingPeriod, Sound
<1>2. PICK n : HistoryShown(store, t, n, flags[t])
  BY DEF IndexInv, HistoriesInv
<1>3. EarlierTold(store, t, n, flags[t])
  BY <1>2 DEF EarlierTold, IndexInv, HistoriesInv, OnlyThese, SameStake, OthersStay
<1>4. store = Index!HandleAll(store, <<>>) /\ IsLog(<<>>)
  BY NothingToHandle DEF IsLog
<1>5. EndsVote(t, flags[t], <<>>)
  BY DEF IndexedEndVotingPeriod
<1> QED
  BY <1>1, <1>3, <1>4, <1>5, EndsVoteKeeps

\* Steps whose transactions emit no event that the subgraph follows
LEMMA UnindexedKeeps ==
    ASSUME Sound, Sound', IndexInv, Unindexed
    PROVE  IndexInv'
<1>1. /\ FlagsInv /\ IsStore(store) /\ StakesInv /\ TotalsInv /\ NetworkInv /\ HistoriesInv
      /\ store' = store
  BY DEF Sound, IInv, IndexInv, Unindexed
<1>2. /\ config' = config
      /\ books'.staked = books.staked /\ books'.locked = books.locked
      /\ books'.joined = books.joined /\ books'.pool = books.pool
      /\ books'.totalStaked = books.totalStaked /\ books'.operatorCount = books.operatorCount
  <2>1. ASSUME NEW amount, PlainTransfer(amount)
        PROVE  /\ config' = config
               /\ books'.staked = books.staked /\ books'.locked = books.locked
               /\ books'.joined = books.joined /\ books'.pool = books.pool
               /\ books'.totalStaked = books.totalStaked
               /\ books'.operatorCount = books.operatorCount
    <3>1. books \in Books
      BY SoundFacts
    <3> QED
      BY <2>1, <3>1 DEF PlainTransfer, Books
  <2>2. ASSUME NEW t, PhaseEnds(t) \/ ProtectionEnds(t)
        PROVE  UNCHANGED <<books, config>>
    BY <2>2 DEF PhaseEnds, ProtectionEnds
  <2> QED
    BY <2>1, <2>2 DEF Unindexed
<1>3. StakesInv' /\ TotalsInv' /\ NetworkInv'
  BY <1>1, <1>2 DEF StakesInv, StakeShown, TotalsInv, TotalsTold, NetworkInv, RewardsPaid
<1>4. HistoriesInv'
  <2>1. CASE UNCHANGED flags
    BY <1>1, <2>1 DEF HistoriesInv
  <2>2. ASSUME NEW t \in Operators, PhaseEnds(t)
        PROVE  HistoriesInv'
    <3> DEFINE flag == flags[t]
               new == [flag EXCEPT !.phase = IF @ = "review" THEN "voting" ELSE "ended"]
    <3>1. flag.phase # "none" /\ flags' = [flags EXCEPT ![t] = new]
      BY <1>1, <2>2 DEF PhaseEnds, FlagsInv
    <3>2. /\ new.phase # "none" /\ new.flagger = flag.flagger /\ new.atRisk = flag.atRisk
          /\ new.state = flag.state /\ new.votesFor = flag.votesFor
          /\ new.votesAgainst = flag.votesAgainst
      <4>1. FlagInv(flag)
        BY <1>1 DEF FlagsInv
      <4> HIDE DEF flag
      <4> QED
        BY <4>1 DEF FlagInv, FlagType
    <3>3. PICK n : HistoryShown(store, t, n, flag)
      BY <1>1 DEF HistoriesInv
    <3> HIDE DEF flag, new
    <3>4. HistoryShown(store', t, n, new)
      BY <1>1, <3>1, <3>2, <3>3 DEF HistoryShown, OpenShown, ReviewersOf
    <3>5. OthersStay(store, store', t) /\ VotesTyped(store')
      BY <1>1 DEF OthersStay, HistoriesInv
    <3> QED
      BY <1>1, <3>1, <3>4, <3>5, HistoriesAfter
  <2> QED
    BY <2>1, <2>2 DEF Unindexed, PlainTransfer, ProtectionEnds
<1> QED
  BY <1>1, <1>3, <1>4 DEF IndexInv

LEMMA InitIndexInv == IndexedInit => IndexInv
<1> SUFFICES ASSUME IndexedInit PROVE IndexInv
  OBVIOUS
<1> DEFINE created == Index!NewStore(Operators)
           net == created.network
           log == ConfigEvents(net, config)
<1>1. /\ books = EmptyBooks /\ config \in Configs /\ flags = [t \in Operators |-> NoFlag]
      /\ store = Index!HandleAll(created, log)
  BY DEF IndexedInit, Init
<1>2. /\ created.stakes = <<>> /\ created.totalStakedWei = 0 /\ created.operatorCount = 0
      /\ created.cumulativeSponsoring = 0 /\ created.votes = {}
      /\ created.flags = [t \in Operators |-> <<>>]
      /\ DOMAIN created = StoreFields
      /\ net = Index!NewNetwork
  BY DEF Index!NewStore, StoreFields
<1> HIDE DEF created
<1>3. DOMAIN (<<>>) = {}
  OBVIOUS
<1>4. IsStore(created)
  BY <1>2, <1>3 DEF IsStore
<1>5. NetworkShows(net, net) /\ net["slashingFraction"] = 0
  BY <1>2 DEF NetworkShows, NetworkFields, ConfigFields, Index!NewNetwork
<1>6. net["slashingFraction"] # config["slashingFraction"]
  <2>1. config \in Config
    BY <1>1, VoteKickAssumption
  <2>2. config.slashingFraction \in 1 .. Ether
    BY <2>1, ConfigFacts
  <2>3. config["slashingFraction"] \in Int /\ config["slashingFraction"] >= 1
    BY <2>2, EtherAssumption
  <2> QED
    BY <1>5, <2>3
<1>7. /\ OnlyThese(created, store, {"network"}, {})
      /\ NetworkShows(store.network, config) /\ MinimumShown(store.network)
  <2> DEFINE u == Index!HandleAll(created, ConfigEvents(net, config))
  <2>1. /\ OnlyThese(created, u, {"network"}, {})
        /\ NetworkShows(u.network, config) /\ MinimumShown(u.network)
    BY <1>4, <1>5, <1>6, ConfigEventsHandled
  <2> HIDE DEF u
  <2> QED
    BY <1>1, <2>1 DEF u
<1>8. /\ IsStore(store) /\ store.stakes = <<>> /\ store.totalStakedWei = 0
      /\ store.operatorCount = 0 /\ store.cumulativeSponsoring = 0 /\ store.votes = {}
      /\ store.flags = [t \in Operators |-> <<>>]
  BY <1>2, <1>7 DEF OnlyThese, StoreFields
<1>9. StakesInv
  BY <1>1, <1>3, <1>8 DEF StakesInv, StakeShown, EmptyBooks
<1>10. TotalsInv
  BY <1>1, <1>8 DEF TotalsInv, TotalsTold, EmptyBooks
<1>11. HistoriesInv
  <2>1. VotesTyped(store)
    BY <1>8, FS_EmptySet DEF VotesTyped
  <2>2. ASSUME NEW t \in Operators
        PROVE  HistoryShown(store, t, 0, flags[t])
    <3>1. flags[t].phase = "none" /\ store.flags[t] = <<>>
      BY <1>1, <1>8 DEF NoFlag
    <3>2. 0 .. 0 - 1 = {} /\ 0 \in Nat /\ ~(0 > 0)
      OBVIOUS
    <3> QED
      BY <1>3, <1>8, <3>1, <3>2 DEF HistoryShown
  <2> QED
    BY <2>1, <2>2 DEF HistoriesInv
<1> QED
  BY <1>7, <1>8, <1>9, <1>10, <1>11 DEF IndexInv, NetworkInv

LEMMA IndexedSteps == IndexedNext => Next
<1> SUFFICES ASSUME IndexedNext PROVE Next
  OBVIOUS
<1>1. ASSUME NEW amount \in SponsorAmounts \cup {0}, IndexedSponsor(amount)
      PROVE  Next
  BY <1>1 DEF IndexedSponsor, Next
<1>2. ASSUME NEW o \in Operators, NEW amount \in StakeAmounts, IndexedStake(o, amount)
      PROVE  Next
  BY <1>2 DEF IndexedStake, Next
<1>3. ASSUME NEW o \in Operators, NEW target \in StakeAmounts, IndexedReduceStakeTo(o, target)
      PROVE  Next
  BY <1>3 DEF IndexedReduceStakeTo, Next
<1>4. ASSUME NEW o \in Operators, NEW earnings \in 1 .. books.pool, NEW accepted \in Accepts(o),
             IndexedWithdraw(o, earnings, accepted)
      PROVE  Next
  BY <1>4 DEF IndexedWithdraw, Next
<1>5. ASSUME NEW o \in Operators, NEW terms \in LeaveTermsOf(o),
             IndexedUnstake(o, terms) \/ IndexedForceUnstake(o, terms)
      PROVE  Next
  BY <1>5 DEF IndexedUnstake, IndexedForceUnstake, Next
<1>6. ASSUME NEW f \in Flaggers, NEW t \in Operators, NEW terms \in LeaveTermsOf(t),
             IndexedFlagKicks(f, t, terms)
      PROVE  Next
  BY <1>6 DEF IndexedFlagKicks, Next
<1>7. ASSUME NEW f \in Flaggers, NEW t \in Operators, NEW R \in SUBSET Voters,
             NEW weight \in [R -> Weights], IndexedFlag(f, t, weight)
      PROVE  Next
  BY <1>7 DEF IndexedFlag, Next
<1>8. ASSUME NEW t \in Operators, NEW v \in Voters, NEW kick \in BOOLEAN, IndexedVote(t, v, kick)
      PROVE  Next
  BY <1>8 DEF IndexedVote, Next
<1>9. ASSUME NEW t \in Operators, IndexedEndVotingPeriod(t)
      PROVE  Next
  BY <1>9 DEF IndexedEndVotingPeriod, Next
<1>10. ASSUME NEW c \in Configs, IndexedChangeConfig(c)
       PROVE  Next
  BY <1>10 DEF IndexedChangeConfig, Next
<1>11. ASSUME Unindexed
       PROVE  Next
  BY <1>11 DEF Unindexed, Next
<1> QED
  BY <1>1, <1>2, <1>3, <1>4, <1>5, <1>6, <1>7, <1>8, <1>9, <1>10, <1>11 DEF IndexedNext

LEMMA NextIsSound == Sound /\ [IndexedNext]_indexedVars => Sound'
<1> SUFFICES ASSUME Sound, [IndexedNext]_indexedVars PROVE Sound'
  OBVIOUS
<1>1. [Next]_vars
  BY IndexedSteps DEF indexedVars, vars
<1>2. IInv /\ SettlementInv /\ VotesInv /\ FlagsInv
  BY DEF Sound, IInv
<1>3. IInv'
  BY <1>1, <1>2, NextIInv
<1>4. SettlementInv'
  BY <1>1, <1>2, SettlementNext, SettledKeeps
<1>5. VotesInv'
  BY <1>1, <1>2, VotesNext
<1> QED
  BY <1>3, <1>4, <1>5 DEF Sound

LEMMA NextIndexInv ==
    ASSUME Sound, Sound', IndexInv, [IndexedNext]_indexedVars
    PROVE  IndexInv'
<1>1. StakeAmounts \subseteq Nat /\ SponsorAmounts \subseteq Nat /\ Flaggers \subseteq Operators
  BY VoteKickAssumption
<1>2. ASSUME NEW amount \in SponsorAmounts \cup {0}, IndexedSponsor(amount)
      PROVE  IndexInv'
  <2>1. amount \in Nat
    BY <1>1
  <2> QED
    BY <1>2, <2>1, IndexedSponsorKeeps
<1>3. ASSUME NEW o \in Operators, NEW amount \in StakeAmounts,
             IndexedStake(o, amount) \/ IndexedReduceStakeTo(o, amount)
      PROVE  IndexInv'
  <2>1. amount \in Nat
    BY <1>1
  <2> QED
    BY <1>3, <2>1, IndexedStakeKeeps, IndexedReduceStakeToKeeps
<1>4. ASSUME NEW o \in Operators, NEW earnings \in 1 .. books.pool, NEW accepted \in Accepts(o),
             IndexedWithdraw(o, earnings, accepted)
      PROVE  IndexInv'
  <2>1. earnings \in Nat
    BY SoundFacts
  <2> QED
    BY <1>4, <2>1, IndexedWithdrawKeeps
<1>5. ASSUME NEW o \in Operators, NEW terms \in LeaveTermsOf(o),
             IndexedUnstake(o, terms) \/ IndexedForceUnstake(o, terms)
      PROVE  IndexInv'
  BY <1>5, IndexedUnstakeKeeps
<1>6. ASSUME NEW f \in Flaggers, NEW t \in Operators, NEW terms \in LeaveTermsOf(t),
             IndexedFlagKicks(f, t, terms)
      PROVE  IndexInv'
  BY <1>6, IndexedFlagKicksKeeps
<1>7. ASSUME NEW f \in Flaggers, NEW t \in Operators, NEW R \in SUBSET Voters,
             NEW weight \in [R -> Weights], IndexedFlag(f, t, weight)
      PROVE  IndexInv'
  <2>1. f \in Operators
    BY <1>1
  <2> QED
    BY <1>7, <2>1, IndexedFlagKeeps
<1>8. ASSUME NEW t \in Operators, NEW v \in Voters, NEW kick \in BOOLEAN, IndexedVote(t, v, kick)
      PROVE  IndexInv'
  BY <1>8, IndexedVoteKeeps
<1>9. ASSUME NEW t \in Operators, IndexedEndVotingPeriod(t)
      PROVE  IndexInv'
  BY <1>9, IndexedEndVotingPeriodKeeps
<1>10. ASSUME NEW c \in Configs, IndexedChangeConfig(c)
       PROVE  IndexInv'
  BY <1>10, IndexedChangeConfigKeeps
<1>11. ASSUME Unindexed
       PROVE  IndexInv'
  BY <1>11, UnindexedKeeps
<1>12. CASE IndexedNext
  BY <1>2, <1>3, <1>4, <1>5, <1>6, <1>7, <1>8, <1>9, <1>10, <1>11, <1>12 DEF IndexedNext
<1>13. CASE UNCHANGED indexedVars
  BY <1>13 DEF indexedVars, IndexInv, StakesInv, TotalsInv, NetworkInv, HistoriesInv, RewardsPaid
<1> QED
  BY <1>12, <1>13

-----------------------------------------------------------------------------
(* The theorems *)

LEMMA InitSound == IndexedInit => Sound
<1> SUFFICES ASSUME IndexedInit PROVE Sound
  OBVIOUS
<1>1. Init
  BY DEF IndexedInit
<1>2. VotesInv
  BY <1>1, NoFlagVotes DEF Init, VotesInv
<1> QED
  BY <1>1, <1>2, InitIInv, InitSettlementInv DEF Sound

LEMMA IndexedInvariance == IndexedSpec => [](Sound /\ IndexInv)
<1>1. IndexedInit => Sound /\ IndexInv
  BY InitSound, InitIndexInv
<1>2. (Sound /\ IndexInv) /\ [IndexedNext]_indexedVars => (Sound /\ IndexInv)'
  <2> SUFFICES ASSUME Sound, IndexInv, [IndexedNext]_indexedVars
               PROVE  Sound' /\ IndexInv'
    OBVIOUS
  <2>1. Sound'
    BY NextIsSound
  <2>2. IndexInv'
    BY <2>1, NextIndexInv
  <2> QED
    BY <2>1, <2>2
<1> QED
  BY <1>1, <1>2, PTL DEF IndexedSpec

\* Between transactions there is a Stake entity for exactly the operators that
\* have stake and it shows their lock, whatever a transaction emits on its way
\* (handleStakeUpdate, handleStakeLockUpdate), if the rewards are not all zero:
\* without rewards there is no minimum stake and one may join with none.
THEOREM StakesAreAlwaysShown ==
    ASSUME RewardsPaid
    PROVE  IndexedSpec => []StakesShown
<1>1. Sound /\ IndexInv => StakesShown
  <2> SUFFICES ASSUME Sound, IndexInv PROVE StakesShown
    OBVIOUS
  <2>1. books.joined \subseteq Operators
    BY SoundFacts DEF Books
  <2>2. DOMAIN store.stakes \subseteq Operators
    BY DEF IndexInv, IsStore
  <2>3. \A o \in Operators : StakeShown(store, books, o)
    BY DEF IndexInv, StakesInv
  <2> QED
    BY <2>1, <2>2, <2>3 DEF StakesShown, StakeShown
<1> QED
  BY <1>1, IndexedInvariance, PTL

\* The totals of the Sponsorship entity are the contract's, the sponsoring and
\* the stakes are never shown smaller than they are, and the Network entity shows
\* the configuration, with a minimum stake less than one wei short
\* (handleSponsorshipUpdate, updateMinimumStake).
THEOREM TotalsAreAlwaysShown ==
    ASSUME RewardsPaid
    PROVE  IndexedSpec => []TotalsShown
<1>1. Sound /\ IndexInv => TotalsShown
  <2> SUFFICES ASSUME Sound, IndexInv PROVE TotalsShown
    OBVIOUS
  <2>1. ConfigShown
    <3>1. config \in Config
      BY SoundFacts, VoteKickAssumption
    <3>2. NetworkShows(store.network, config) /\ MinimumShown(store.network)
      BY DEF IndexInv, NetworkInv
    <3>3. store.network.minimumStake \in {MinimumStake(config) - 1, MinimumStake(config)}
      BY <3>1, <3>2, MinimumIsClose
    <3>4. DOMAIN config = ConfigFields
      BY <3>1 DEF Config, ConfigFields
    <3> QED
      BY <3>2, <3>3, <3>4 DEF ConfigShown, NetworkShows
  <2>2. \A o \in books.joined : store.stakes[o].amountWei >= books.staked[o]
    <3>1. books.joined \subseteq Operators
      BY SoundFacts DEF Books
    <3>2. \A o \in Operators : StakeShown(store, books, o)
      BY DEF IndexInv, StakesInv
    <3> QED
      BY <3>1, <3>2 DEF StakeShown
  <2> QED
    BY <2>1, <2>2 DEF TotalsShown, IndexInv, TotalsInv, TotalsTold
<1> QED
  BY <1>1, IndexedInvariance, PTL

\* Every flag of the subgraph has a flagger and, unless it is the one open now, a
\* result; the open one shows the flagger, the stake at risk and the reviewers of
\* the contract, in its last entity; and the Vote entities of each add up to its
\* votes (handleFlagged, handleFlagUpdate).  For any reviewers and configurations.
THEOREM FlagsAreAlwaysShown == IndexedSpec => []FlagsShown
<1>1. Sound /\ IndexInv => FlagsShown
  <2> SUFFICES ASSUME Sound, IndexInv, NEW t \in Operators
               PROVE  /\ \A i \in DOMAIN store.flags[t] :
                           /\ store.flags[t][i].flagger \in Operators
                           /\ \/ store.flags[t][i].result \in {"kicked", "failed"}
                              \/ Open(t) /\ i = LastIndex(t)
                           /\ VotesAddUpTo(store.flags[t][i], VotesOf(store, t, i))
                      /\ Open(t) => LatestFlagShown(t)
    BY DEF FlagsShown, VotesOf
  <2>1. PICK n : HistoryShown(store, t, n, flags[t])
    BY DEF IndexInv, HistoriesInv
  <2>2. Open(t) <=> flags[t].phase # "none"
    BY DEF Open
  <2>3. ASSUME NEW i \in DOMAIN store.flags[t]
        PROVE  /\ store.flags[t][i].flagger \in Operators
               /\ \/ store.flags[t][i].result \in {"kicked", "failed"}
                  \/ Open(t) /\ i = LastIndex(t)
               /\ VotesAddUpTo(store.flags[t][i], VotesOf(store, t, i))
    <3>1. n \in Nat /\ i \in 0 .. n - 1
      BY <2>1, <2>3 DEF HistoryShown
    <3>2. LastIndex(t) = n - 1
      BY <2>1, <3>1 DEF HistoryShown, LastIndex
    <3>3. /\ EntryShown(store, t, i)
          /\ \/ store.flags[t][i].result \in {"kicked", "failed"}
             \/ flags[t].phase # "none" /\ i = n - 1
      BY <2>1, <3>1 DEF HistoryShown
    <3> QED
      BY <2>2, <3>2, <3>3 DEF EntryShown
  <2>4. ASSUME Open(t)
        PROVE  LatestFlagShown(t)
    <3>1. n \in Nat /\ n > 0 /\ OpenShown(store, t, n - 1, flags[t])
      BY <2>1, <2>2, <2>4 DEF HistoryShown
    <3>2. LastIndex(t) = n - 1
      BY <2>1, <3>1 DEF HistoryShown, LastIndex
    <3> QED
      BY <3>1, <3>2 DEF LatestFlagShown, LastFlag, OpenShown
  <2> QED
    BY <2>3, <2>4
<1> QED
  BY <1>1, IndexedInvariance, PTL

=============================================================================
