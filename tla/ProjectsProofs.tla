---------------------------- MODULE ProjectsProofs ----------------------------
(***************************************************************************)
(* The Hub, for any projects, users, streams and amounts: after every      *)
(* transaction the subgraph's entities show what the contracts hold for    *)
(* each project, and the stakes of its users.                              *)
(***************************************************************************)
EXTENDS Projects, SumProofs, SequenceTheorems, TLAPS

-----------------------------------------------------------------------------
(* What the contracts hold for a project, and what the entities show of it *)

\* Everything the contracts hold for p
Held(p) ==
    [state |-> state[p], streams |-> streams[p], index |-> index[p],
     permissions |-> permissions[p], subscriptions |-> subscriptions[p],
     payments |-> payments[p], staked |-> staked[p], projectStake |-> projectStake[p],
     bought |-> bought[p], repeated |-> p \in repeated]

StoreFields ==
    {"projects", "permissions", "subscriptions", "payments", "purchases", "stakes", "days"}

Entities ==
    [streams : Seq(Streams), permissions : SUBSET Targets, subscriptions : SUBSET Users,
     payments : SUBSET Domains, purchases : SUBSET (Users \X Nat), counter : Nat,
     score : Int, stakedWei : Int]

Buckets == [stakeAtStart : Int, stakeChange : Int, stakingsWei : Int, unstakingsWei : Int]

\* The types of the entities.
IsStore(st) ==
    /\ DOMAIN st = StoreFields
    /\ DOMAIN st.projects \subseteq Projs
    /\ \A p \in DOMAIN st.projects : st.projects[p] \in Entities
    /\ \A i \in DOMAIN st.days : st.days[i] \in Buckets

\* Every stream is where the index says, and no other has a position.
IsListing(list, positions) ==
    /\ \A i \in 1 .. Len(list) : positions[list[i]] = i
    /\ \A s \in Streams : positions[s] # 0 =>
          positions[s] \in 1 .. Len(list) /\ list[positions[s]] = s

NoRepeats(list) == \A i, j \in 1 .. Len(list) : list[i] = list[j] => i = j

\* The list names each stream that has a position once.
NamesThem(list, positions) ==
    /\ NoRepeats(list)
    /\ \A s \in Streams : positions[s] # 0 <=> \E i \in 1 .. Len(list) : list[i] = s

StreamsOK(st, p, c) ==
    ~c.repeated => /\ IsListing(c.streams, c.index)
                   /\ NamesThem(Project(st, p).streams, c.index)

\* What the keys of a version say, and what the entities say
RightsAt(keys, version, user) ==
    IF <<version, user>> \in DOMAIN keys THEN keys[<<version, user>>] ELSE {}
RightsShown(st, p, user) ==
    IF user \in Project(st, p).permissions THEN st.permissions[<<p, user>>] ELSE {}

RightsOK(st, p, keys, version) ==
    \A user \in Targets :
        /\ RightsAt(keys, version, user) = RightsShown(st, p, user)
        /\ user \in Project(st, p).permissions => <<p, user>> \in DOMAIN st.permissions

SubscriptionsOK(st, p, c) ==
    \A user \in Users :
        /\ c.subscriptions[user] = IF user \in Project(st, p).subscriptions
                                   THEN st.subscriptions[<<p, user>>] ELSE 0
        /\ user \in Project(st, p).subscriptions => <<p, user>> \in DOMAIN st.subscriptions

PaymentsOK(st, p, details) ==
    \A d \in DOMAIN details :
        /\ d \in Project(st, p).payments /\ <<p, d>> \in DOMAIN st.payments
        /\ st.payments[<<p, d>>] = details[d]

PurchasesOK(st, p, c) ==
    LET project == Project(st, p)
    IN  /\ project.purchases \subseteq Users \X (1 .. project.counter)
        /\ IsFiniteSet(project.purchases)
        /\ Cardinality(project.purchases) = c.bought

\* A project that was never created may have an entity, from permissions that the
\* trusted role set and from unstaking nothing.
Fresh(st, p, c) ==
    /\ \A user \in Targets : <<1, user>> \notin DOMAIN c.permissions
    /\ \A user \in Users : c.subscriptions[user] = 0
    /\ c.bought = 0
    /\ Project(st, p).subscriptions = {} /\ Project(st, p).purchases = {}

\* The stake that follows day d in the buckets, if total is the stake now
Following(st, p, total, d) ==
    LET later == {e \in d + 1 .. MaxDay : <<p, e>> \in DOMAIN st.days}
    IN  IF later = {} THEN total ELSE st.days[<<p, Min(later)>>].stakeAtStart

DaysOK(st, p, total) ==
    \A d \in 1 .. MaxDay :
        <<p, d>> \in DOMAIN st.days =>
            LET bucket == st.days[<<p, d>>]
            IN  /\ bucket.stakeChange = bucket.stakingsWei - bucket.unstakingsWei
                /\ bucket.stakeAtStart + bucket.stakeChange = Following(st, p, total, d)

\* Until a project is deleted its entity shows its stake, even before it is created.
StakesOK(st, p, c, today) ==
    /\ \A user \in Users : ProjectStake(st, p, user) = c.staked[user]
    /\ c.projectStake = SumFunction(c.staked)
    /\ \A d \in 1 .. MaxDay : <<p, d>> \in DOMAIN st.days => d <= today
    /\ c.state = 0 => \A user \in Users : c.staked[user] = 0
    /\ c.state # 2 => /\ Project(st, p).stakedWei = c.projectStake
                      /\ Project(st, p).score = c.projectStake
                      /\ DaysOK(st, p, c.projectStake)

IsShown(st, p, c) ==
    /\ p \in DOMAIN st.projects
    /\ StreamsOK(st, p, c)
    /\ RightsOK(st, p, c.permissions, 1)
    /\ SubscriptionsOK(st, p, c)
    /\ PaymentsOK(st, p, c.payments)
    /\ PurchasesOK(st, p, c)

Correct(st, p, c, today) ==
    /\ StakesOK(st, p, c, today)
    /\ c.state = 0 => Fresh(st, p, c)
    /\ c.state = 1 => IsShown(st, p, c)

TypesInv ==
    /\ state \in [Projs -> 0 .. 2]
    /\ streams \in [Projs -> Seq(Streams)] /\ index \in [Projs -> [Streams -> Nat]]
    /\ DOMAIN permissions = Projs
    /\ subscriptions \in [Projs -> [Users -> Nat]]
    /\ DOMAIN payments = Projs /\ \A p \in Projs : DOMAIN payments[p] \subseteq Domains
    /\ staked \in [Projs -> [Users -> Nat]] /\ projectStake \in [Projs -> Int]
    /\ day \in Nat /\ 1 <= day /\ (1 <= MaxDay => day <= MaxDay)
    /\ repeated \subseteq Projs /\ bought \in [Projs -> Nat]

ProjectsInv ==
    /\ TypesInv /\ IsStore(store)
    /\ \A p \in Projs : Correct(store, p, Held(p), day)

-----------------------------------------------------------------------------
(* What an event leaves alone *)

\* The entries of g under q are those of f.
SameEntries(f, g, q) ==
    \A x : /\ <<q, x>> \in DOMAIN f <=> <<q, x>> \in DOMAIN g
           /\ <<q, x>> \in DOMAIN f => g[<<q, x>>] = f[<<q, x>>]

\* All that is stored about q is the same.
SameAt(st, t, q) ==
    /\ q \in DOMAIN st.projects <=> q \in DOMAIN t.projects
    /\ Project(t, q) = Project(st, q)
    /\ SameEntries(st.permissions, t.permissions, q)
    /\ SameEntries(st.subscriptions, t.subscriptions, q)
    /\ SameEntries(st.payments, t.payments, q)
    /\ SameEntries(st.stakes, t.stakes, q)
    /\ SameEntries(st.days, t.days, q)

EntityFields == {"streams", "permissions", "subscriptions", "payments", "purchases",
                 "counter", "score", "stakedWei"}

\* Only the parts of the entities of p may differ, and p has an entity.
Changes(st, t, p, parts) ==
    /\ IsStore(t)
    /\ \A q \in Projs \ {p} : SameAt(st, t, q)
    /\ p \in DOMAIN st.projects => p \in DOMAIN t.projects
    /\ \A f \in EntityFields \ parts : Project(t, p)[f] = Project(st, p)[f]
    /\ "permissions" \notin parts => SameEntries(st.permissions, t.permissions, p)
    /\ "subscriptions" \notin parts => SameEntries(st.subscriptions, t.subscriptions, p)
    /\ "payments" \notin parts => SameEntries(st.payments, t.payments, p)
    /\ "stakedWei" \notin parts => SameEntries(st.stakes, t.stakes, p)
                                   /\ SameEntries(st.days, t.days, p)

LEMMA NothingChanges ==
    ASSUME NEW st, IsStore(st), NEW p, NEW parts
    PROVE  Changes(st, st, p, parts)
  BY DEF Changes, SameAt, SameEntries

LEMMA SameEntriesChain ==
    ASSUME NEW f, NEW g, NEW h, NEW q, SameEntries(f, g, q), SameEntries(g, h, q)
    PROVE  SameEntries(f, h, q)
  BY DEF SameEntries

LEMMA SameAtChain ==
    ASSUME NEW a, NEW b, NEW c, NEW q, SameAt(a, b, q), SameAt(b, c, q)
    PROVE  SameAt(a, c, q)
  BY SameEntriesChain DEF SameAt

\* Two changes, one after the other, are one.
LEMMA ChangesChain ==
    ASSUME NEW a, NEW b, NEW c, NEW p, NEW some, NEW others,
           Changes(a, b, p, some), Changes(b, c, p, others)
    PROVE  Changes(a, c, p, some \cup others)
<1> DEFINE parts == some \cup others
<1>1. \A q \in Projs \ {p} : SameAt(a, c, q)
  BY SameAtChain DEF Changes
<1>2. /\ IsStore(c)
      /\ p \in DOMAIN a.projects => p \in DOMAIN c.projects
  BY DEF Changes
<1>3. \A f \in EntityFields \ parts : Project(c, p)[f] = Project(a, p)[f]
  BY DEF Changes
<1>4. "permissions" \notin parts => SameEntries(a.permissions, c.permissions, p)
  BY SameEntriesChain DEF Changes
<1>5. "subscriptions" \notin parts => SameEntries(a.subscriptions, c.subscriptions, p)
  BY SameEntriesChain DEF Changes
<1>6. "payments" \notin parts => SameEntries(a.payments, c.payments, p)
  BY SameEntriesChain DEF Changes
<1>7. "stakedWei" \notin parts => SameEntries(a.stakes, c.stakes, p)
                                  /\ SameEntries(a.days, c.days, p)
  BY SameEntriesChain DEF Changes
<1> QED
  BY <1>1, <1>2, <1>3, <1>4, <1>5, <1>6, <1>7 DEF Changes

-----------------------------------------------------------------------------
(* Saving an entity *)

LEMMA SavedElsewhere ==
    ASSUME NEW f, NEW p, NEW y, NEW e, NEW q, q # p
    PROVE  SameEntries(f, Save(f, <<p, y>>, e), q)
<1> DEFINE g == Save(f, <<p, y>>, e)
<1>1. /\ DOMAIN g = DOMAIN f \cup {<<p, y>>}
      /\ \A x \in DOMAIN f : x # <<p, y>> => g[x] = f[x]
  BY DEF Save
<1> HIDE DEF g
<1>2. ASSUME NEW x
      PROVE  /\ <<q, x>> \in DOMAIN f <=> <<q, x>> \in DOMAIN g
             /\ <<q, x>> \in DOMAIN f => g[<<q, x>>] = f[<<q, x>>]
  <2>1. <<q, x>> # <<p, y>>
    OBVIOUS
  <2> QED
    BY <1>1, <2>1
<1>3. SameEntries(f, g, q)
  BY <1>2 DEF SameEntries
<1> QED
  BY <1>3 DEF g

LEMMA SameIsSame ==
    ASSUME NEW f, NEW q
    PROVE  SameEntries(f, f, q)
  BY DEF SameEntries

LEMMA ProjectIsEntity ==
    ASSUME NEW st, IsStore(st), NEW p
    PROVE  Project(st, p) \in Entities
<1>1. NewProject \in Entities
  <2>1. <<>> \in Seq(Streams)
    OBVIOUS
  <2> QED
    BY <2>1 DEF NewProject, Entities
<1> HIDE DEF NewProject, Entities
<1> QED
  BY <1>1 DEF Project, IsStore

WithProject(st, p, e) == [st EXCEPT !.projects = Save(@, p, e)]

\* Saving the Project entity of p alone, with some of its fields changed.
LEMMA ProjectSaved ==
    ASSUME NEW st, IsStore(st), NEW p \in Projs, NEW e \in Entities, NEW parts,
           \A f \in EntityFields \ parts : e[f] = Project(st, p)[f]
    PROVE  LET t == WithProject(st, p, e)
           IN  /\ Changes(st, t, p, parts)
               /\ p \in DOMAIN t.projects /\ Project(t, p) = e
               /\ \A f \in StoreFields \ {"projects"} : t[f] = st[f]
<1> DEFINE t == WithProject(st, p, e)
<1>1. DOMAIN st = StoreFields
  BY DEF IsStore
<1>2. /\ DOMAIN t = StoreFields /\ t.projects = Save(st.projects, p, e)
      /\ \A f \in StoreFields \ {"projects"} : t[f] = st[f]
  BY <1>1 DEF StoreFields, WithProject
<1> HIDE DEF t
<1>3. /\ DOMAIN t.projects = DOMAIN st.projects \cup {p} /\ t.projects[p] = e
      /\ \A q \in DOMAIN st.projects : q # p => t.projects[q] = st.projects[q]
  BY <1>2 DEF Save
<1>4. /\ t.permissions = st.permissions /\ t.subscriptions = st.subscriptions
      /\ t.payments = st.payments /\ t.stakes = st.stakes /\ t.days = st.days
  BY <1>2 DEF StoreFields
<1>5. IsStore(t)
  BY <1>2, <1>3, <1>4 DEF IsStore
<1>6. Project(t, p) = e
  BY <1>3 DEF Project
<1>7. \A q \in Projs \ {p} : SameAt(st, t, q)
  BY <1>3, <1>4, SameIsSame DEF SameAt, Project
<1>8. Changes(st, t, p, parts)
  <2>1. /\ SameEntries(st.permissions, t.permissions, p)
        /\ SameEntries(st.subscriptions, t.subscriptions, p)
        /\ SameEntries(st.payments, t.payments, p)
        /\ SameEntries(st.stakes, t.stakes, p) /\ SameEntries(st.days, t.days, p)
    BY <1>4, SameIsSame
  <2>2. \A f \in EntityFields \ parts : Project(t, p)[f] = Project(st, p)[f]
    BY <1>6
  <2>3. p \in DOMAIN st.projects => p \in DOMAIN t.projects
    BY <1>3
  <2> QED
    BY <1>5, <1>7, <2>1, <2>2, <2>3 DEF Changes
<1> QED
  BY <1>2, <1>3, <1>6, <1>8 DEF t

\* Saving an entry of p in the entities of one kind as well.
LEMMA EntrySaved ==
    ASSUME NEW st, IsStore(st), NEW p \in Projs, NEW e \in Entities,
           NEW kind \in {"permissions", "subscriptions", "payments"},
           \A f \in EntityFields \ {kind} : e[f] = Project(st, p)[f],
           NEW x, NEW v, NEW t, DOMAIN t = StoreFields,
           t.projects = Save(st.projects, p, e),
           t[kind] = Save(st[kind], <<p, x>>, v),
           \A f \in StoreFields \ {"projects", kind} : t[f] = st[f]
    PROVE  /\ Changes(st, t, p, {kind})
           /\ p \in DOMAIN t.projects /\ Project(t, p) = e
<1>1. /\ DOMAIN t.projects = DOMAIN st.projects \cup {p} /\ t.projects[p] = e
      /\ \A q \in DOMAIN st.projects : q # p => t.projects[q] = st.projects[q]
  BY DEF Save
<1>2. t.stakes = st.stakes /\ t.days = st.days
  BY DEF StoreFields
<1>3. /\ kind # "permissions" => t.permissions = st.permissions
      /\ kind # "subscriptions" => t.subscriptions = st.subscriptions
      /\ kind # "payments" => t.payments = st.payments
  BY DEF StoreFields
<1>4. \A q \in Projs \ {p} : SameEntries(st[kind], t[kind], q)
  BY SavedElsewhere
<1>5. \A q \in Projs \ {p} : /\ SameEntries(st.permissions, t.permissions, q)
                             /\ SameEntries(st.subscriptions, t.subscriptions, q)
                             /\ SameEntries(st.payments, t.payments, q)
  <2> SUFFICES ASSUME NEW q \in Projs \ {p}
               PROVE  /\ SameEntries(st.permissions, t.permissions, q)
                      /\ SameEntries(st.subscriptions, t.subscriptions, q)
                      /\ SameEntries(st.payments, t.payments, q)
    OBVIOUS
  <2>1. SameEntries(st[kind], t[kind], q)
    BY <1>4
  <2> QED
    BY <1>3, <2>1, SameIsSame
<1>6. IsStore(t)
  BY <1>1, <1>2 DEF IsStore
<1>7. Project(t, p) = e
  BY <1>1 DEF Project
<1>8. \A q \in Projs \ {p} : SameAt(st, t, q)
  BY <1>1, <1>2, <1>5, SameIsSame DEF SameAt, Project
<1>9. Changes(st, t, p, {kind})
  <2>1. /\ "permissions" \notin {kind} => SameEntries(st.permissions, t.permissions, p)
        /\ "subscriptions" \notin {kind} => SameEntries(st.subscriptions, t.subscriptions, p)
        /\ "payments" \notin {kind} => SameEntries(st.payments, t.payments, p)
        /\ SameEntries(st.stakes, t.stakes, p) /\ SameEntries(st.days, t.days, p)
    BY <1>2, <1>3, SameIsSame
  <2>2. \A f \in EntityFields \ {kind} : Project(t, p)[f] = Project(st, p)[f]
    BY <1>7
  <2>3. p \in DOMAIN st.projects => p \in DOMAIN t.projects
    BY <1>1
  <2> QED
    BY <1>6, <1>8, <2>1, <2>2, <2>3 DEF Changes
<1> QED
  BY <1>1, <1>7, <1>9

-----------------------------------------------------------------------------
(* Lists of streams *)

\* Where a stream is found first.
LEMMA FirstIsFound ==
    ASSUME NEW list \in Seq(Streams), NEW s, \E i \in 1 .. Len(list) : list[i] = s
    PROVE  \E k \in 1 .. Len(list) : /\ list[k] = s
                                     /\ RemoveFirst(list, s) = RemoveAt(list, k)
<1> DEFINE I == {i \in 1 .. Len(list) : list[i] = s}
           k == SelectInSeq(list, LAMBDA v : v = s)
<1>1. I # {} /\ I \in SUBSET Int /\ IsFiniteSet(I)
  <2>1. IsFiniteSet(1 .. Len(list)) /\ I \subseteq 1 .. Len(list)
    BY FS_Interval
  <2>2. I # {} /\ I \in SUBSET Int
    OBVIOUS
  <2> HIDE DEF I
  <2> QED
    BY <2>1, <2>2, FS_Subset
<1>2. k = Min(I)
  BY <1>1 DEF SelectInSeq
<1>3. \E m \in I : \A i \in I : m <= i
  <2> HIDE DEF I
  <2> QED
    BY <1>1, SmallestExists
<1>4. Min(I) \in I
  BY <1>3 DEF Min
<1>5. RemoveFirst(list, s) = RemoveAt(list, k)
  BY DEF RemoveFirst
<1> QED
  BY <1>2, <1>4, <1>5

LEMMA RemoveFirstIsTyped ==
    ASSUME NEW list \in Seq(Streams), NEW s
    PROVE  RemoveFirst(list, s) \in Seq(Streams)
<1>1. CASE \E i \in 1 .. Len(list) : list[i] = s
  <2>1. PICK k \in 1 .. Len(list) : RemoveFirst(list, s) = RemoveAt(list, k)
    BY <1>1, FirstIsFound
  <2> QED
    BY <2>1, RemoveAtProperties
<1>2. CASE ~ \E i \in 1 .. Len(list) : list[i] = s
  BY <1>2 DEF RemoveFirst
<1> QED
  BY <1>1, <1>2

\* The list of the streams that have a position, when s loses its own.
LEMMA OneNameLess ==
    ASSUME NEW list \in Seq(Streams), NEW positions, NamesThem(list, positions),
           NEW s \in Streams, positions[s] # 0,
           NEW others, \A r \in Streams : others[r] # 0 <=> positions[r] # 0 /\ r # s
    PROVE  NamesThem(RemoveFirst(list, s), others)
<1> DEFINE rest == RemoveFirst(list, s)
           n == Len(list)
<1>1. /\ NoRepeats(list) /\ n \in Nat
      /\ \A r \in Streams : positions[r] # 0 <=> \E i \in 1 .. n : list[i] = r
  BY DEF NamesThem
<1>2. PICK k \in 1 .. n : list[k] = s /\ rest = RemoveAt(list, k)
  BY <1>1, FirstIsFound
<1>3. /\ rest \in Seq(Streams) /\ Len(rest) = n - 1
      /\ \A i \in 1 .. n - 1 : rest[i] = IF i < k THEN list[i] ELSE list[i + 1]
  <2>1. /\ RemoveAt(list, k) \in Seq(Streams) /\ Len(RemoveAt(list, k)) = n - 1
        /\ \A i \in 1 .. n - 1 :
             RemoveAt(list, k)[i] = IF i < k THEN list[i] ELSE list[i + 1]
    BY RemoveAtProperties
  <2> HIDE DEF rest
  <2> QED
    BY <1>2, <2>1
<1> HIDE DEF rest, n
<1>4. NoRepeats(rest)
  <2> SUFFICES ASSUME NEW i \in 1 .. n - 1, NEW j \in 1 .. n - 1, rest[i] = rest[j]
               PROVE  i = j
    BY <1>3 DEF NoRepeats
  <2> DEFINE At(m) == IF m < k THEN m ELSE m + 1
  <2>1. At(i) \in 1 .. n /\ At(j) \in 1 .. n
    BY <1>1
  <2>2. rest[i] = list[At(i)] /\ rest[j] = list[At(j)]
    BY <1>3
  <2>3. list[At(i)] = list[At(j)]
    BY <2>2
  <2>4. At(i) = At(j)
    <3> HIDE DEF At
    <3> QED
      BY <1>1, <2>1, <2>3 DEF NoRepeats, n
  <2> QED
    BY <1>1, <2>4
<1>5. ASSUME NEW r \in Streams
      PROVE  others[r] # 0 <=> \E i \in 1 .. n - 1 : rest[i] = r
  <2>1. ASSUME others[r] # 0
        PROVE  \E i \in 1 .. n - 1 : rest[i] = r
    <3>1. PICK i \in 1 .. n : list[i] = r
      BY <1>1, <2>1
    <3>2. i # k
      BY <1>2, <2>1, <3>1
    <3>3. CASE i < k
      <4>1. i \in 1 .. n - 1
        BY <1>1, <3>3
      <4> QED
        BY <1>3, <3>1, <3>3, <4>1
    <3>4. CASE i > k
      <4>1. i - 1 \in 1 .. n - 1 /\ ~(i - 1 < k) /\ (i - 1) + 1 = i
        BY <1>1, <3>4
      <4> QED
        BY <1>3, <3>1, <4>1
    <3> QED
      BY <1>1, <3>2, <3>3, <3>4
  <2>2. ASSUME NEW i \in 1 .. n - 1, rest[i] = r
        PROVE  others[r] # 0
    <3> DEFINE m == IF i < k THEN i ELSE i + 1
    <3>1. m \in 1 .. n /\ m # k
      BY <1>1
    <3>2. rest[i] = list[m]
      BY <1>3
    <3> HIDE DEF m
    <3>3. list[m] = r
      BY <2>2, <3>2
    <3>4. r # s
      BY <1>1, <1>2, <3>1, <3>3 DEF NoRepeats, n
    <3>5. positions[r] # 0
      BY <1>1, <3>1, <3>3
    <3> QED
      BY <3>4, <3>5
  <2> QED
    BY <2>1, <2>2
<1> QED
  BY <1>3, <1>4, <1>5 DEF NamesThem, rest

\* ... and when s is given one.
LEMMA OneNameMore ==
    ASSUME NEW list \in Seq(Streams), NEW positions, NamesThem(list, positions),
           NEW s \in Streams, positions[s] = 0,
           NEW others, \A r \in Streams : others[r] # 0 <=> positions[r] # 0 \/ r = s
    PROVE  NamesThem(Append(list, s), others)
<1> DEFINE more == Append(list, s)
           n == Len(list)
<1>1. /\ NoRepeats(list) /\ n \in Nat
      /\ \A r \in Streams : positions[r] # 0 <=> \E i \in 1 .. n : list[i] = r
  BY DEF NamesThem
<1>2. /\ Len(more) = n + 1 /\ more[n + 1] = s
      /\ \A i \in 1 .. n : more[i] = list[i] /\ list[i] \in Streams
  OBVIOUS
<1>3. \A i \in 1 .. n : list[i] # s
  BY <1>1
<1>4. \A i \in 1 .. n + 1 : i \in 1 .. n \/ i = n + 1
  BY <1>1
<1>5. \A i \in 1 .. n : i \in 1 .. n + 1
  BY <1>1
<1>6. n + 1 \in 1 .. n + 1
  BY <1>1
<1>7. \A i, j \in 1 .. n : list[i] = list[j] => i = j
  BY <1>1 DEF NoRepeats, n
<1> HIDE DEF more, n
<1>8. NoRepeats(more)
  <2> SUFFICES ASSUME NEW i \in 1 .. n + 1, NEW j \in 1 .. n + 1, more[i] = more[j]
               PROVE  i = j
    BY <1>2 DEF NoRepeats
  <2>1. CASE i \in 1 .. n /\ j \in 1 .. n
    BY <1>2, <1>7, <2>1
  <2>2. CASE i = n + 1 /\ j \in 1 .. n
    BY <1>2, <1>3, <2>2
  <2>3. CASE i \in 1 .. n /\ j = n + 1
    BY <1>2, <1>3, <2>3
  <2> QED
    BY <1>4, <2>1, <2>2, <2>3
<1>9. ASSUME NEW r \in Streams
      PROVE  others[r] # 0 <=> \E i \in 1 .. n + 1 : more[i] = r
  <2>1. CASE r = s
    BY <1>2, <1>6, <2>1
  <2>2. CASE r # s
    BY <1>1, <1>2, <1>4, <1>5, <2>2
  <2> QED
    BY <2>1, <2>2
<1> QED
  BY <1>2, <1>8, <1>9 DEF NamesThem, more

-----------------------------------------------------------------------------
(* The handlers *)

LEMMA NewStreams ==
    ASSUME NEW e \in Entities, NEW list \in Seq(Streams)
    PROVE  LET e2 == [e EXCEPT !.streams = list]
           IN  /\ e2 \in Entities /\ e2.streams = list
               /\ \A f \in EntityFields \ {"streams"} : e2[f] = e[f]
  BY DEF Entities, EntityFields

LEMMA AdditionHandled ==
    ASSUME NEW st, IsStore(st), NEW p \in Projs, NEW e, e.name = "StreamAdded",
           e.project = p, e.stream \in Streams
    PROVE  LET t == Handle(st, e)
           IN  /\ Changes(st, t, p, {"streams"}) /\ p \in DOMAIN t.projects
               /\ Project(t, p).streams = Append(Project(st, p).streams, e.stream)
<1> DEFINE old == Project(st, p)
           list == Append(old.streams, e.stream)
           new == [old EXCEPT !.streams = list]
           t == WithProject(st, p, new)
<1>1. old \in Entities
  BY ProjectIsEntity
<1>2. Handle(st, e) = t
  <2>1. Handle(st, e) = HandleStreamAddition(st, e)
    BY DEF Handle
  <2>2. new = [Project(st, e.project) EXCEPT !.streams = Append(@, e.stream)]
    OBVIOUS
  <2> HIDE DEF new
  <2> QED
    BY <2>1, <2>2 DEF HandleStreamAddition, WithProject
<1>3. list \in Seq(Streams)
  BY <1>1 DEF Entities
<1> HIDE DEF old, list
<1>4. new \in Entities /\ new.streams = list
      /\ \A f \in EntityFields \ {"streams"} : new[f] = old[f]
  BY <1>1, <1>3, NewStreams
<1> HIDE DEF new
<1>5. /\ Changes(st, t, p, {"streams"}) /\ p \in DOMAIN t.projects /\ Project(t, p) = new
  BY <1>4, ProjectSaved DEF old
<1> QED
  BY <1>2, <1>4, <1>5 DEF old, list

LEMMA RemovalHandled ==
    ASSUME NEW st, IsStore(st), NEW p \in Projs, NEW e, e.name = "StreamRemoved",
           e.project = p, e.stream \in Streams
    PROVE  LET t == Handle(st, e)
           IN  /\ Changes(st, t, p, {"streams"}) /\ p \in DOMAIN t.projects
               /\ Project(t, p).streams = RemoveFirst(Project(st, p).streams, e.stream)
<1> DEFINE old == Project(st, p)
           list == RemoveFirst(old.streams, e.stream)
           new == [old EXCEPT !.streams = list]
           t == WithProject(st, p, new)
<1>1. old \in Entities
  BY ProjectIsEntity
<1>2. Handle(st, e) = t
  <2>1. Handle(st, e) = HandleStreamRemoval(st, e)
    BY DEF Handle
  <2>2. new = [Project(st, e.project) EXCEPT !.streams = RemoveFirst(@, e.stream)]
    OBVIOUS
  <2> HIDE DEF new
  <2> QED
    BY <2>1, <2>2 DEF HandleStreamRemoval, WithProject
<1>3. list \in Seq(Streams)
  BY <1>1, RemoveFirstIsTyped DEF Entities
<1> HIDE DEF old, list
<1>4. new \in Entities /\ new.streams = list
      /\ \A f \in EntityFields \ {"streams"} : new[f] = old[f]
  BY <1>1, <1>3, NewStreams
<1> HIDE DEF new
<1>5. /\ Changes(st, t, p, {"streams"}) /\ p \in DOMAIN t.projects /\ Project(t, p) = new
  BY <1>4, ProjectSaved DEF old
<1> QED
  BY <1>2, <1>4, <1>5 DEF old, list

LEMMA UpdateHandled ==
    ASSUME NEW st, IsStore(st), NEW p \in Projs, NEW e, e.name = "ProjectUpdated",
           e.project = p, e.streams \in Seq(Streams)
    PROVE  LET t == Handle(st, e)
           IN  /\ Changes(st, t, p, {"streams"}) /\ p \in DOMAIN t.projects
               /\ Project(t, p).streams = e.streams
<1> DEFINE old == Project(st, p)
           list == e.streams
           new == [old EXCEPT !.streams = list]
           t == WithProject(st, p, new)
<1>1. old \in Entities
  BY ProjectIsEntity
<1>2. Handle(st, e) = t
  <2>1. Handle(st, e) = HandleProjectUpdate(st, e)
    BY DEF Handle
  <2> QED
    BY <2>1 DEF HandleProjectUpdate, WithProject
<1>3. list \in Seq(Streams)
  OBVIOUS
<1> HIDE DEF old, list
<1>4. /\ new \in Entities /\ new.streams = list
      /\ \A f \in EntityFields \ {"streams"} : new[f] = old[f]
  BY <1>1, <1>3, NewStreams
<1> HIDE DEF new
<1>5. /\ Changes(st, t, p, {"streams"}) /\ p \in DOMAIN t.projects /\ Project(t, p) = new
  BY <1>4, ProjectSaved DEF old
<1> QED
  BY <1>2, <1>4, <1>5 DEF list

\* The parts of a project that its creation sets
CreatedParts == {"streams", "permissions", "counter", "score"}

LEMMA CreationHandled ==
    ASSUME NEW st, IsStore(st), NEW p \in Projs, NEW e, e.name = "ProjectCreated",
           e.project = p, e.streams \in Seq(Streams)
    PROVE  LET t == Handle(st, e)
           IN  /\ Changes(st, t, p, CreatedParts) /\ p \in DOMAIN t.projects
               /\ Project(t, p).streams = e.streams /\ Project(t, p).permissions = {}
               /\ Project(t, p).counter = 0 /\ Project(t, p).score = 0
<1> DEFINE old == Project(st, p)
           list == e.streams
           new == [old EXCEPT !.streams = list, !.permissions = {}, !.counter = 0, !.score = 0]
           t == WithProject(st, p, new)
<1>1. old \in Entities
  BY ProjectIsEntity
<1>2. Handle(st, e) = t
  <2>1. Handle(st, e) = HandleProjectCreation(st, e)
    BY DEF Handle
  <2> QED
    BY <2>1 DEF HandleProjectCreation, WithProject
<1>3. list \in Seq(Streams)
  OBVIOUS
<1> HIDE DEF old, list
<1>4. /\ new \in Entities /\ new.streams = list /\ new.permissions = {}
      /\ new.counter = 0 /\ new.score = 0
      /\ \A f \in EntityFields \ CreatedParts : new[f] = old[f]
  <2>1. /\ new.streams = list /\ new.permissions = {} /\ new.counter = 0 /\ new.score = 0
        /\ \A f \in EntityFields \ CreatedParts : new[f] = old[f]
    BY <1>1, <1>3 DEF Entities, EntityFields, CreatedParts
  <2>2. {} \in SUBSET Targets /\ 0 \in Nat /\ 0 \in Int
    OBVIOUS
  <2> DEFINE a == [old EXCEPT !.streams = list]
             b == [a EXCEPT !.permissions = {}]
             c == [b EXCEPT !.counter = 0]
  <2>3. a \in Entities
    BY <1>1, <1>3 DEF Entities
  <2>4. b \in Entities
    <3> HIDE DEF a
    <3> QED
      BY <2>2, <2>3 DEF Entities
  <2>5. c \in Entities
    <3> HIDE DEF b
    <3> QED
      BY <2>2, <2>4 DEF Entities
  <2>6. [c EXCEPT !.score = 0] \in Entities
    <3> HIDE DEF c
    <3> QED
      BY <2>2, <2>5 DEF Entities
  <2>7. new = [c EXCEPT !.score = 0]
    OBVIOUS
  <2> HIDE DEF new, c
  <2> QED
    BY <2>1, <2>6, <2>7
<1> HIDE DEF new
<1>5. /\ Changes(st, t, p, CreatedParts) /\ p \in DOMAIN t.projects /\ Project(t, p) = new
  BY <1>4, ProjectSaved DEF old
<1> QED
  BY <1>2, <1>4, <1>5 DEF list

LEMMA PermissionHandled ==
    ASSUME NEW st, IsStore(st), NEW p \in Projs, NEW e, e.name = "PermissionUpdated",
           e.project = p, e.user \in Targets
    PROVE  LET t == Handle(st, e)
           IN  /\ Changes(st, t, p, {"permissions"}) /\ p \in DOMAIN t.projects
               /\ Project(t, p).permissions = Project(st, p).permissions \cup {e.user}
               /\ t.permissions = Save(st.permissions, <<p, e.user>>, e.permission)
<1> DEFINE old == Project(st, p)
           users == old.permissions \cup {e.user}
           new == [old EXCEPT !.permissions = users]
           t == [st EXCEPT !.permissions = Save(@, <<p, e.user>>, e.permission),
                           !.projects = Save(@, p, new)]
<1>1. old \in Entities
  BY ProjectIsEntity
<1>2. Handle(st, e) = t
  <2>1. Handle(st, e) = HandlePermissionUpdate(st, e)
    BY DEF Handle
  <2>2. new = [Project(st, e.project) EXCEPT !.permissions = @ \cup {e.user}]
    OBVIOUS
  <2> HIDE DEF new
  <2> QED
    BY <2>1, <2>2 DEF HandlePermissionUpdate
<1>3. users \in SUBSET Targets
  BY <1>1 DEF Entities
<1> HIDE DEF old, users
<1>4. /\ new \in Entities /\ new.permissions = users
      /\ \A f \in EntityFields \ {"permissions"} : new[f] = old[f]
  BY <1>1, <1>3 DEF Entities, EntityFields
<1> HIDE DEF new
<1>5. DOMAIN st = StoreFields
  BY DEF IsStore
<1>6. /\ DOMAIN t = StoreFields /\ t.projects = Save(st.projects, p, new)
      /\ t.permissions = Save(st.permissions, <<p, e.user>>, e.permission)
      /\ t["permissions"] = Save(st["permissions"], <<p, e.user>>, e.permission)
      /\ \A f \in StoreFields \ {"projects", "permissions"} : t[f] = st[f]
  BY <1>5 DEF StoreFields
<1> HIDE DEF t
<1>7. Changes(st, t, p, {"permissions"}) /\ p \in DOMAIN t.projects /\ Project(t, p) = new
  BY <1>4, <1>6, EntrySaved DEF old
<1> QED
  BY <1>2, <1>4, <1>6, <1>7 DEF old, users

LEMMA SubscriptionHandled ==
    ASSUME NEW st, IsStore(st), NEW p \in Projs, NEW e, e.name = "Subscribed",
           e.project = p, e.user \in Users
    PROVE  LET t == Handle(st, e)
           IN  /\ Changes(st, t, p, {"subscriptions"}) /\ p \in DOMAIN t.projects
               /\ Project(t, p).subscriptions = Project(st, p).subscriptions \cup {e.user}
               /\ t.subscriptions = Save(st.subscriptions, <<p, e.user>>, e.end)
<1> DEFINE old == Project(st, p)
           users == old.subscriptions \cup {e.user}
           new == [old EXCEPT !.subscriptions = users]
           t == [st EXCEPT !.subscriptions = Save(@, <<p, e.user>>, e.end),
                           !.projects = Save(@, p, new)]
<1>1. old \in Entities
  BY ProjectIsEntity
<1>2. Handle(st, e) = t
  <2>1. Handle(st, e) = HandleSubscriptionUpdate(st, e)
    BY DEF Handle
  <2>2. new = [Project(st, e.project) EXCEPT !.subscriptions = @ \cup {e.user}]
    OBVIOUS
  <2> HIDE DEF new
  <2> QED
    BY <2>1, <2>2 DEF HandleSubscriptionUpdate
<1>3. users \in SUBSET Users
  BY <1>1 DEF Entities
<1> HIDE DEF old, users
<1>4. /\ new \in Entities /\ new.subscriptions = users
      /\ \A f \in EntityFields \ {"subscriptions"} : new[f] = old[f]
  BY <1>1, <1>3 DEF Entities, EntityFields
<1> HIDE DEF new
<1>5. DOMAIN st = StoreFields
  BY DEF IsStore
<1>6. /\ DOMAIN t = StoreFields /\ t.projects = Save(st.projects, p, new)
      /\ t.subscriptions = Save(st.subscriptions, <<p, e.user>>, e.end)
      /\ t["subscriptions"] = Save(st["subscriptions"], <<p, e.user>>, e.end)
      /\ \A f \in StoreFields \ {"projects", "subscriptions"} : t[f] = st[f]
  BY <1>5 DEF StoreFields
<1> HIDE DEF t
<1>7. Changes(st, t, p, {"subscriptions"}) /\ p \in DOMAIN t.projects /\ Project(t, p) = new
  BY <1>4, <1>6, EntrySaved DEF old
<1> QED
  BY <1>2, <1>4, <1>6, <1>7 DEF old, users

LEMMA PaymentHandled ==
    ASSUME NEW st, IsStore(st), NEW p \in Projs, NEW e, e.name = "PaymentDetailsByChainUpdated",
           e.project = p, e.domain \in Domains
    PROVE  LET t == Handle(st, e)
           IN  /\ Changes(st, t, p, {"payments"}) /\ p \in DOMAIN t.projects
               /\ Project(t, p).payments = Project(st, p).payments \cup {e.domain}
               /\ t.payments = Save(st.payments, <<p, e.domain>>, e.price)
<1> DEFINE old == Project(st, p)
           domains == old.payments \cup {e.domain}
           new == [old EXCEPT !.payments = domains]
           t == [st EXCEPT !.payments = Save(@, <<p, e.domain>>, e.price),
                           !.projects = Save(@, p, new)]
<1>1. old \in Entities
  BY ProjectIsEntity
<1>2. Handle(st, e) = t
  <2>1. Handle(st, e) = HandlePaymentDetailsByChainUpdate(st, e)
    BY DEF Handle
  <2>2. new = [Project(st, e.project) EXCEPT !.payments = @ \cup {e.domain}]
    OBVIOUS
  <2> HIDE DEF new
  <2> QED
    BY <2>1, <2>2 DEF HandlePaymentDetailsByChainUpdate
<1>3. domains \in SUBSET Domains
  BY <1>1 DEF Entities
<1> HIDE DEF old, domains
<1>4. /\ new \in Entities /\ new.payments = domains
      /\ \A f \in EntityFields \ {"payments"} : new[f] = old[f]
  BY <1>1, <1>3 DEF Entities, EntityFields
<1> HIDE DEF new
<1>5. DOMAIN st = StoreFields
  BY DEF IsStore
<1>6. /\ DOMAIN t = StoreFields /\ t.projects = Save(st.projects, p, new)
      /\ t.payments = Save(st.payments, <<p, e.domain>>, e.price)
      /\ t["payments"] = Save(st["payments"], <<p, e.domain>>, e.price)
      /\ \A f \in StoreFields \ {"projects", "payments"} : t[f] = st[f]
  BY <1>5 DEF StoreFields
<1> HIDE DEF t
<1>7. Changes(st, t, p, {"payments"}) /\ p \in DOMAIN t.projects /\ Project(t, p) = new
  BY <1>4, <1>6, EntrySaved DEF old
<1> QED
  BY <1>2, <1>4, <1>6, <1>7 DEF old, domains

LEMMA PurchaseHandled ==
    ASSUME NEW st, IsStore(st), NEW p \in Projs, NEW e, e.name = "ProjectPurchased",
           e.project = p, e.user \in Users
    PROVE  LET t == Handle(st, e)
               old == Project(st, p)
           IN  /\ Changes(st, t, p, {"purchases", "counter"}) /\ p \in DOMAIN t.projects
               /\ Project(t, p).counter = old.counter + 1
               /\ Project(t, p).purchases = old.purchases \cup {<<e.user, old.counter + 1>>}
<1> DEFINE old == Project(st, p)
           bought2 == old.purchases \cup {<<e.user, old.counter + 1>>}
           new == [old EXCEPT !.counter = @ + 1, !.purchases = bought2]
           without == WithProject(st, p, new)
           t == Handle(st, e)
<1>1. old \in Entities
  BY ProjectIsEntity
<1>2. t = [st EXCEPT !.purchases = @ \cup Ids(p, {<<e.user, old.counter + 1>>}),
                     !.projects = Save(@, p, new)]
  <2>1. t = HandleProjectPurchase(st, e)
    BY DEF Handle
  <2>2. new = [old EXCEPT !.counter = @ + 1,
                          !.purchases = @ \cup {<<e.user, old.counter + 1>>}]
    OBVIOUS
  <2> HIDE DEF new, t
  <2> QED
    BY <2>1, <2>2 DEF HandleProjectPurchase
<1>3. bought2 \in SUBSET (Users \X Nat) /\ old.counter \in Nat
  <2>1. old.counter \in Nat /\ old.purchases \in SUBSET (Users \X Nat)
    BY <1>1 DEF Entities
  <2>2. <<e.user, old.counter + 1>> \in Users \X Nat
    BY <2>1
  <2> HIDE DEF old
  <2> QED
    BY <2>1, <2>2
<1> HIDE DEF old, bought2, t
<1>4. /\ new \in Entities /\ new.counter = old.counter + 1 /\ new.purchases = bought2
      /\ \A f \in EntityFields \ {"purchases", "counter"} : new[f] = old[f]
  <2> DEFINE a == [old EXCEPT !.counter = @ + 1]
             b == [a EXCEPT !.purchases = bought2]
  <2>1. /\ a \in Entities /\ a.counter = old.counter + 1
        /\ \A f \in EntityFields \ {"counter"} : a[f] = old[f]
    BY <1>1, <1>3 DEF Entities, EntityFields
  <2>2. new = b
    OBVIOUS
  <2> HIDE DEF new, a
  <2>3. /\ b \in Entities /\ b.purchases = bought2
        /\ \A f \in EntityFields \ {"purchases"} : b[f] = a[f]
    BY <1>3, <2>1 DEF Entities, EntityFields
  <2> HIDE DEF b
  <2> QED
    BY <2>1, <2>2, <2>3 DEF EntityFields
<1> HIDE DEF new
<1>5. /\ Changes(st, without, p, {"purchases", "counter"})
      /\ p \in DOMAIN without.projects /\ Project(without, p) = new
      /\ \A f \in StoreFields \ {"projects"} : without[f] = st[f]
  BY <1>4, ProjectSaved DEF old
<1>6. DOMAIN st = StoreFields
  BY DEF IsStore
<1>7. /\ DOMAIN t = StoreFields /\ t.projects = without.projects
      /\ t.permissions = without.permissions /\ t.subscriptions = without.subscriptions
      /\ t.payments = without.payments /\ t.stakes = without.stakes /\ t.days = without.days
  BY <1>2, <1>6 DEF StoreFields, WithProject
<1> HIDE DEF without
<1>8. IsStore(t) /\ \A q : Project(t, q) = Project(without, q)
  BY <1>5, <1>7 DEF Changes, IsStore, Project
<1>9. \A q : SameAt(st, without, q) => SameAt(st, t, q)
  BY <1>7, <1>8 DEF SameAt
<1>10. Changes(st, t, p, {"purchases", "counter"})
  BY <1>5, <1>7, <1>8, <1>9 DEF Changes
<1> QED
  BY <1>4, <1>5, <1>7, <1>8, <1>10 DEF old, bought2, t

LEMMA ProjectStakeIs ==
    ASSUME NEW st, NEW p, NEW user
    PROVE  ProjectStake(st, p, user) = IF <<p, user>> \in DOMAIN st.stakes
                                       THEN st.stakes[<<p, user>>] ELSE 0
  BY DEF ProjectStake

\* What handleStake and handleUnstake save.
LEMMA StakeChangedIs ==
    ASSUME NEW st, IsStore(st), NEW p \in Projs, NEW e, e.project = p,
           e.projectStake \in Int, NEW change \in Int, NEW bucket \in Buckets
    PROVE  LET t == StakeChanged(st, e, change, bucket)
               new == [bucket EXCEPT !.stakeChange = @ + change]
           IN  /\ Changes(st, t, p, {"score", "stakedWei"}) /\ p \in DOMAIN t.projects
               /\ Project(t, p).stakedWei = e.projectStake
               /\ Project(t, p).score = Project(st, p).score + change
               /\ t.stakes = Save(st.stakes, <<p, e.user>>, ProjectStake(st, p, e.user) + change)
               /\ t.days = Save(st.days, <<p, e.day>>, new)
<1> DEFINE old == Project(st, p)
           total == e.projectStake
           new == [old EXCEPT !.score = @ + change, !.stakedWei = total]
           stakes == Save(st.stakes, <<p, e.user>>, ProjectStake(st, p, e.user) + change)
           entry == [bucket EXCEPT !.stakeChange = @ + change]
           days == Save(st.days, <<p, e.day>>, entry)
           t == StakeChanged(st, e, change, bucket)
<1>1. old \in Entities
  BY ProjectIsEntity
<1>2. t = [st EXCEPT !.stakes = stakes, !.days = days, !.projects = Save(@, p, new)]
  <2>1. new = [Project(st, e.project) EXCEPT !.score = @ + change, !.stakedWei = e.projectStake]
    OBVIOUS
  <2> HIDE DEF new
  <2> QED
    BY <2>1 DEF StakeChanged
<1>3. entry \in Buckets
  BY DEF Buckets
<1>4. total \in Int
  OBVIOUS
<1>5. DOMAIN st = StoreFields
  BY DEF IsStore
<1> HIDE DEF old, total, entry
<1>6. /\ new \in Entities /\ new.score = old.score + change /\ new.stakedWei = total
      /\ \A f \in EntityFields \ {"score", "stakedWei"} : new[f] = old[f]
  <2> DEFINE score == old.score + change
             a == [old EXCEPT !.score = score]
             b == [a EXCEPT !.stakedWei = total]
  <2>1. score \in Int
    BY <1>1 DEF Entities
  <2>2. new = b
    OBVIOUS
  <2> HIDE DEF new, score
  <2>3. /\ a \in Entities /\ a.score = score
        /\ \A f \in EntityFields \ {"score"} : a[f] = old[f]
    BY <1>1, <2>1 DEF Entities, EntityFields
  <2> HIDE DEF a
  <2>4. /\ b \in Entities /\ b.stakedWei = total
        /\ \A f \in EntityFields \ {"stakedWei"} : b[f] = a[f]
    BY <1>4, <2>3 DEF Entities, EntityFields
  <2> HIDE DEF b
  <2> QED
    BY <2>2, <2>3, <2>4 DEF EntityFields, score
<1>7. /\ DOMAIN days = DOMAIN st.days \cup {<<p, e.day>>} /\ days[<<p, e.day>>] = entry
      /\ \A x \in DOMAIN st.days : x # <<p, e.day>> => days[x] = st.days[x]
  BY DEF Save
<1>8. \A q \in Projs \ {p} : SameEntries(st.days, days, q) /\ SameEntries(st.stakes, stakes, q)
  BY SavedElsewhere
<1> HIDE DEF new, stakes, days, t
<1>9. /\ DOMAIN t = StoreFields /\ t.projects = Save(st.projects, p, new)
      /\ t.stakes = stakes /\ t.days = days
      /\ t.permissions = st.permissions /\ t.subscriptions = st.subscriptions
      /\ t.payments = st.payments
  BY <1>2, <1>5 DEF StoreFields
<1>10. /\ DOMAIN t.projects = DOMAIN st.projects \cup {p} /\ t.projects[p] = new
       /\ \A q \in DOMAIN st.projects : q # p => t.projects[q] = st.projects[q]
  BY <1>9 DEF Save
<1>11. IsStore(t)
  BY <1>3, <1>6, <1>7, <1>9, <1>10 DEF IsStore
<1>12. Project(t, p) = new
  BY <1>10 DEF Project
<1>13. \A q \in Projs \ {p} : SameAt(st, t, q)
  BY <1>8, <1>9, <1>10, SameIsSame DEF SameAt, Project
<1>14. Changes(st, t, p, {"score", "stakedWei"})
  <2>1. \A f \in EntityFields \ {"score", "stakedWei"} : Project(t, p)[f] = Project(st, p)[f]
    BY <1>6, <1>12 DEF old
  <2>2. /\ SameEntries(st.permissions, t.permissions, p)
        /\ SameEntries(st.subscriptions, t.subscriptions, p)
        /\ SameEntries(st.payments, t.payments, p)
    BY <1>9, SameIsSame
  <2> QED
    BY <1>10, <1>11, <1>13, <2>1, <2>2 DEF Changes
<1> QED
  BY <1>6, <1>9, <1>10, <1>12, <1>14 DEF old, total, stakes, days, entry, t

LEMMA BucketIs ==
    ASSUME NEW st, IsStore(st), NEW p, NEW d
    PROVE  LET bucket == StakingBucket(st, p, d)
           IN  /\ bucket \in Buckets
               /\ <<p, d>> \in DOMAIN st.days => bucket = st.days[<<p, d>>]
               /\ <<p, d>> \notin DOMAIN st.days =>
                    /\ bucket.stakeAtStart = Project(st, p).stakedWei
                    /\ bucket.stakeChange = 0
                    /\ bucket.stakingsWei = 0 /\ bucket.unstakingsWei = 0
<1>1. CASE <<p, d>> \in DOMAIN st.days
  BY <1>1 DEF StakingBucket, IsStore
<1>2. CASE <<p, d>> \notin DOMAIN st.days
  <2> DEFINE start == IF p \in DOMAIN st.projects THEN st.projects[p].stakedWei ELSE 0
  <2>1. start = Project(st, p).stakedWei
    BY DEF Project, NewProject
  <2>2. Project(st, p).stakedWei \in Int
    BY ProjectIsEntity DEF Entities
  <2>3. StakingBucket(st, p, d) = [stakeAtStart |-> start, stakeChange |-> 0,
                                   stakingsWei |-> 0, unstakingsWei |-> 0]
    BY <1>2 DEF StakingBucket
  <2> HIDE DEF start
  <2> QED
    BY <1>2, <2>1, <2>2, <2>3 DEF Buckets
<1> QED
  BY <1>1, <1>2

\* What a stake event reports: change is added, or taken if it is negative.
ChangeOf(e) == IF e.name = "Stake" THEN e.amount ELSE -e.amount

StakeIsTold(st, t, p, user, today, total, change) ==
    LET was == StakingBucket(st, p, today)
    IN  /\ Changes(st, t, p, {"score", "stakedWei"})
        /\ Project(t, p).stakedWei = total
        /\ Project(t, p).score = Project(st, p).score + change
        /\ t.stakes = Save(st.stakes, <<p, user>>, ProjectStake(st, p, user) + change)
        /\ \E new \in Buckets :
             /\ t.days = Save(st.days, <<p, today>>, new)
             /\ new.stakeAtStart = was.stakeAtStart
             /\ new.stakeChange = was.stakeChange + change
             /\ new.stakingsWei - new.unstakingsWei = was.stakingsWei - was.unstakingsWei + change

LEMMA StakeHandled ==
    ASSUME NEW st, IsStore(st), NEW p \in Projs, NEW e, e.project = p,
           e.projectStake \in Int, e.amount \in Nat, e.name \in {"Stake", "Unstake"}
    PROVE  StakeIsTold(st, Handle(st, e), p, e.user, e.day, e.projectStake, ChangeOf(e))
<1> DEFINE was == StakingBucket(st, p, e.day)
<1>1. was \in Buckets
  BY BucketIs
<1> HIDE DEF was
<1>2. CASE e.name = "Stake"
  <2> DEFINE bucket == [was EXCEPT !.stakingsWei = @ + e.amount]
             new == [bucket EXCEPT !.stakeChange = @ + e.amount]
  <2>1. Handle(st, e) = StakeChanged(st, e, e.amount, bucket)
    <3>1. Handle(st, e) = HandleStake(st, e)
      BY <1>2 DEF Handle
    <3> QED
      BY <3>1 DEF HandleStake, was
  <2>2. bucket \in Buckets /\ e.amount \in Int
    BY <1>1 DEF Buckets
  <2>3. /\ new \in Buckets /\ new.stakeAtStart = was.stakeAtStart
        /\ new.stakeChange = was.stakeChange + e.amount
        /\ new.stakingsWei - new.unstakingsWei = was.stakingsWei - was.unstakingsWei + e.amount
    <3>1. /\ bucket.stakingsWei = was.stakingsWei + e.amount
          /\ bucket.unstakingsWei = was.unstakingsWei
          /\ bucket.stakeAtStart = was.stakeAtStart /\ bucket.stakeChange = was.stakeChange
      BY <1>1 DEF Buckets
    <3> HIDE DEF bucket
    <3>2. /\ new \in Buckets /\ new.stakeChange = bucket.stakeChange + e.amount
          /\ new.stakingsWei = bucket.stakingsWei /\ new.unstakingsWei = bucket.unstakingsWei
          /\ new.stakeAtStart = bucket.stakeAtStart
      BY <2>2 DEF Buckets
    <3>3. was.stakingsWei \in Int /\ was.unstakingsWei \in Int /\ was.stakeChange \in Int
      BY <1>1 DEF Buckets
    <3> HIDE DEF new
    <3> QED
      BY <3>1, <3>2, <3>3
  <2> HIDE DEF bucket
  <2>4. LET t == StakeChanged(st, e, e.amount, bucket)
        IN  /\ Changes(st, t, p, {"score", "stakedWei"}) /\ p \in DOMAIN t.projects
            /\ Project(t, p).stakedWei = e.projectStake
            /\ Project(t, p).score = Project(st, p).score + e.amount
            /\ t.stakes = Save(st.stakes, <<p, e.user>>, ProjectStake(st, p, e.user) + e.amount)
            /\ t.days = Save(st.days, <<p, e.day>>, new)
    BY <2>2, StakeChangedIs
  <2> HIDE DEF new
  <2> QED
    BY <1>2, <2>1, <2>3, <2>4 DEF was, StakeIsTold, ChangeOf
<1>3. CASE e.name = "Unstake"
  <2> DEFINE bucket == [was EXCEPT !.unstakingsWei = @ + e.amount]
             new == [bucket EXCEPT !.stakeChange = @ + (-e.amount)]
  <2>1. Handle(st, e) = StakeChanged(st, e, -e.amount, bucket)
    <3>1. Handle(st, e) = HandleUnstake(st, e)
      BY <1>3 DEF Handle
    <3> QED
      BY <3>1 DEF HandleUnstake, was
  <2>2. bucket \in Buckets /\ -e.amount \in Int
    BY <1>1 DEF Buckets
  <2>3. /\ new \in Buckets /\ new.stakeAtStart = was.stakeAtStart
        /\ new.stakeChange = was.stakeChange + (-e.amount)
        /\ new.stakingsWei - new.unstakingsWei
             = was.stakingsWei - was.unstakingsWei + (-e.amount)
    <3>1. /\ bucket.unstakingsWei = was.unstakingsWei + e.amount
          /\ bucket.stakingsWei = was.stakingsWei
          /\ bucket.stakeAtStart = was.stakeAtStart /\ bucket.stakeChange = was.stakeChange
      BY <1>1 DEF Buckets
    <3> HIDE DEF bucket
    <3>2. /\ new \in Buckets /\ new.stakeChange = bucket.stakeChange + (-e.amount)
          /\ new.stakingsWei = bucket.stakingsWei /\ new.unstakingsWei = bucket.unstakingsWei
          /\ new.stakeAtStart = bucket.stakeAtStart
      BY <2>2 DEF Buckets
    <3>3. was.stakingsWei \in Int /\ was.unstakingsWei \in Int /\ was.stakeChange \in Int
      BY <1>1 DEF Buckets
    <3> HIDE DEF new
    <3> QED
      BY <3>1, <3>2, <3>3
  <2> HIDE DEF bucket
  <2>4. LET t == StakeChanged(st, e, -e.amount, bucket)
        IN  /\ Changes(st, t, p, {"score", "stakedWei"}) /\ p \in DOMAIN t.projects
            /\ Project(t, p).stakedWei = e.projectStake
            /\ Project(t, p).score = Project(st, p).score + (-e.amount)
            /\ t.stakes = Save(st.stakes, <<p, e.user>>,
                               ProjectStake(st, p, e.user) + (-e.amount))
            /\ t.days = Save(st.days, <<p, e.day>>, new)
    BY <2>2, StakeChangedIs
  <2> HIDE DEF new
  <2> QED
    BY <1>3, <2>1, <2>3, <2>4 DEF was, StakeIsTold, ChangeOf
<1> QED
  BY <1>2, <1>3

\* What belongs to the project goes with it, but for its stakes.
LEMMA DeletionHandled ==
    ASSUME NEW st, IsStore(st), NEW p \in Projs, NEW e, e.name = "ProjectDeleted",
           e.project = p
    PROVE  LET t == Handle(st, e)
           IN  /\ IsStore(t) /\ t.stakes = st.stakes /\ t.days = st.days
               /\ \A q \in Projs \ {p} : SameAt(st, t, q)
<1> DEFINE old == Project(st, p)
           t == Handle(st, e)
<1>1. t = [st EXCEPT !.projects = Lacking(@, {p}),
                     !.permissions = Lacking(@, Ids(p, old.permissions)),
                     !.subscriptions = Lacking(@, Ids(p, old.subscriptions)),
                     !.payments = Lacking(@, Ids(p, old.payments)),
                     !.purchases = @ \ Ids(p, old.purchases)]
  <2>1. t = HandleProjectDeletion(st, e)
    BY DEF Handle
  <2> QED
    BY <2>1 DEF HandleProjectDeletion
<1>2. DOMAIN st = StoreFields
  BY DEF IsStore
<1> HIDE DEF t, old
<1>3. /\ DOMAIN t = StoreFields /\ t.projects = Lacking(st.projects, {p})
      /\ t.permissions = Lacking(st.permissions, Ids(p, old.permissions))
      /\ t.subscriptions = Lacking(st.subscriptions, Ids(p, old.subscriptions))
      /\ t.payments = Lacking(st.payments, Ids(p, old.payments))
      /\ t.stakes = st.stakes /\ t.days = st.days
  BY <1>1, <1>2 DEF StoreFields
<1>4. /\ DOMAIN t.projects = DOMAIN st.projects \ {p}
      /\ \A q \in DOMAIN t.projects : t.projects[q] = st.projects[q]
  BY <1>3 DEF Lacking
<1>5. IsStore(t)
  BY <1>3, <1>4 DEF IsStore
<1>6. ASSUME NEW f, NEW S, NEW q, q # p
      PROVE  SameEntries(f, Lacking(f, Ids(p, S)), q)
  <2>1. \A x : <<q, x>> \notin Ids(p, S)
    BY <1>6 DEF Ids
  <2> QED
    BY <2>1 DEF SameEntries, Lacking
<1>7. ASSUME NEW q \in Projs \ {p}
      PROVE  SameAt(st, t, q)
  <2>1. /\ SameEntries(st.permissions, t.permissions, q)
        /\ SameEntries(st.subscriptions, t.subscriptions, q)
        /\ SameEntries(st.payments, t.payments, q)
    BY <1>3, <1>6
  <2>2. SameEntries(st.stakes, t.stakes, q) /\ SameEntries(st.days, t.days, q)
    BY <1>3, SameIsSame
  <2>3. /\ q \in DOMAIN st.projects <=> q \in DOMAIN t.projects
        /\ Project(t, q) = Project(st, q)
    BY <1>4 DEF Project
  <2> QED
    BY <2>1, <2>2, <2>3 DEF SameAt
<1> QED
  BY <1>3, <1>5, <1>7 DEF t

-----------------------------------------------------------------------------
(* The store after a transaction's log *)

\* The store after the first k events is iter[1 .. k].
IsReading(st, log, n, iter) ==
    iter[{}] = st /\ \A k \in 1 .. n : iter[1 .. k] = Handle(iter[1 .. k - 1], log[k])

\* The events of a log are handled one after the other.
LEMMA LogIsRead ==
    ASSUME NEW st, NEW log, NEW n \in Nat, DOMAIN log = 1 .. n
    PROVE  \E iter : /\ IsReading(st, log, n, iter)
                     /\ HandleAll(st, log) = iter[1 .. n]
<1> DEFINE Step(h, s) == IF s = {} THEN st ELSE Handle(h[s \ {Max(s)}], log[Max(s)])
           RunTo(h, k) == [s \in SUBSET (1 .. k) |-> Step(h, s)]
           iter == CHOOSE h : h = RunTo(h, n)
<1>1. HandleAll(st, log) = iter[1 .. n]
  BY DEF HandleAll, FoldLeft, MapThenFoldSet
<1>2. \E h : h = RunTo(h, n)
  <2> DEFINE T == {k \in 1 .. n + 1 : \E h : h = RunTo(h, k - 1)}
  <2>1. 1 \in T
    <3> DEFINE g == [s \in SUBSET (1 .. 1 - 1) |-> st]
    <3>1. \A s \in SUBSET (1 .. 1 - 1) : s = {}
      OBVIOUS
    <3>2. g = RunTo(g, 1 - 1)
      BY <3>1
    <3>3. 1 \in 1 .. n + 1
      OBVIOUS
    <3> HIDE DEF RunTo
    <3> QED
      BY <3>2, <3>3
  <2>2. ASSUME NEW k \in 1 .. n + 1, k < n + 1, k \in T
        PROVE  k + 1 \in T
    <3>1. PICK g : g = RunTo(g, k - 1)
      <4> HIDE DEF RunTo
      <4> QED
        BY <2>2
    <3> DEFINE h == [s \in SUBSET (1 .. k) |->
                       IF k \in s THEN Handle(g[s \ {k}], log[k]) ELSE g[s]]
    <3>2. \A s \in SUBSET (1 .. k - 1) : g[s] = Step(g, s)
      <4> HIDE DEF Step
      <4> QED
        BY <3>1
    <3>3. ASSUME NEW s \in SUBSET (1 .. k)
          PROVE  h[s] = Step(h, s)
      <4>1. CASE k \in s
        <5>1. Max(s) = k
          <6>1. s \in SUBSET Int /\ \A x \in s : x <= k
            OBVIOUS
          <6> QED
            BY <6>1, <4>1, MaxIs
        <5>2. h[s \ {k}] = g[s \ {k}]
          OBVIOUS
        <5> QED
          BY <4>1, <5>1, <5>2
      <4>2. CASE k \notin s
        <5>1. s \in SUBSET (1 .. k - 1)
          BY <4>2
        <5>2. h[s] = g[s] /\ h[s \ {Max(s)}] = g[s \ {Max(s)}]
          BY <4>2
        <5> HIDE DEF h
        <5> QED
          BY <3>2, <5>1, <5>2
      <4> QED
        BY <4>1, <4>2
    <3> HIDE DEF Step
    <3>4. h = RunTo(h, k)
      BY <3>3
    <3>5. (k + 1) - 1 = k /\ k + 1 \in 1 .. n + 1
      BY <2>2
    <3> HIDE DEF RunTo
    <3> QED
      BY <3>4, <3>5
  <2> HIDE DEF RunTo
  <2>3. n + 1 \in T
    <3> HIDE DEF T
    <3>1. n + 1 \in Nat /\ n + 1 \in 1 .. n + 1
      OBVIOUS
    <3>2. 1 .. n + 1 \subseteq T
      BY <2>1, <2>2, <3>1, IntervalInduction
    <3> QED
      BY <3>1, <3>2
  <2>4. (n + 1) - 1 = n
    OBVIOUS
  <2> QED
    BY <2>3, <2>4
<1>3. iter = RunTo(iter, n)
  <2> HIDE DEF RunTo
  <2> QED
    BY <1>2
<1> HIDE DEF iter
<1>4. \A s \in SUBSET (1 .. n) : iter[s] = Step(iter, s)
  <2> HIDE DEF Step
  <2> QED
    BY <1>3
<1>5. iter[{}] = st
  BY <1>4
<1>6. ASSUME NEW k \in 1 .. n
      PROVE  iter[1 .. k] = Handle(iter[1 .. k - 1], log[k])
  <2>1. Max(1 .. k) = k /\ (1 .. k) \ {k} = 1 .. k - 1 /\ 1 .. k # {}
    <3>1. k \in Nat /\ k > 0
      OBVIOUS
    <3> QED
      BY <3>1, LastOfInterval
  <2>2. 1 .. k \in SUBSET (1 .. n)
    OBVIOUS
  <2> QED
    BY <1>4, <2>1, <2>2
<1> HIDE DEF Step, RunTo
<1> QED
  BY <1>1, <1>5, <1>6 DEF IsReading

\* A log with one event more: that one is handled last.
LEMMA EventIsHandledLast ==
    ASSUME NEW st, NEW E, NEW log \in Seq(E), NEW e
    PROVE  /\ HandleAll(st, Append(log, e)) = Handle(HandleAll(st, log), e)
           /\ Append(log, e) \in Seq(E \cup {e})
<1> DEFINE n == Len(log)
           more == Append(log, e)
<1>1. log \in Seq(E \cup {e})
  OBVIOUS
<1>2. more \in Seq(E \cup {e})
  BY <1>1
<1>3. /\ n \in Nat /\ DOMAIN log = 1 .. n
      /\ n + 1 \in Nat /\ DOMAIN more = 1 .. n + 1
      /\ more[n + 1] = e /\ \A k \in 1 .. n : more[k] = log[k]
  BY <1>1
<1> HIDE DEF n, more
<1>4. PICK a : IsReading(st, log, n, a) /\ HandleAll(st, log) = a[1 .. n]
  BY <1>3, LogIsRead
<1>5. PICK b : IsReading(st, more, n + 1, b) /\ HandleAll(st, more) = b[1 .. n + 1]
  BY <1>3, LogIsRead
<1> DEFINE T == {k \in 1 .. n : a[1 .. k] = b[1 .. k]}
<1>6. 1 .. 0 = {} /\ 1 .. 1 - 1 = {} /\ a[{}] = b[{}]
  BY <1>4, <1>5 DEF IsReading
<1>7. \A k \in 1 .. n : a[1 .. k - 1] = b[1 .. k - 1] => a[1 .. k] = b[1 .. k]
  <2> SUFFICES ASSUME NEW k \in 1 .. n, a[1 .. k - 1] = b[1 .. k - 1]
               PROVE  a[1 .. k] = b[1 .. k]
    OBVIOUS
  <2>1. k \in 1 .. n + 1
    BY <1>3
  <2> QED
    BY <1>3, <1>4, <1>5, <2>1 DEF IsReading
<1>8. a[1 .. n] = b[1 .. n]
  <2>1. CASE n = 0
    BY <1>6, <2>1
  <2>2. CASE n > 0
    <3>1. 1 \in T
      <4>1. 1 \in 1 .. n
        BY <1>3, <2>2
      <4> QED
        BY <1>6, <1>7, <4>1
    <3>2. ASSUME NEW i \in 1 .. n, i < n, i \in T
          PROVE  i + 1 \in T
      <4>1. i + 1 \in 1 .. n /\ (i + 1) - 1 = i
        BY <1>3, <3>2
      <4> QED
        BY <1>7, <3>2, <4>1
    <3> HIDE DEF T
    <3>3. 1 .. n \subseteq T
      BY <1>3, <3>1, <3>2, IntervalInduction
    <3>4. n \in T
      BY <1>3, <2>2, <3>3
    <3> QED
      BY <3>4 DEF T
  <2> QED
    BY <1>3, <2>1, <2>2
<1>9. b[1 .. n + 1] = Handle(b[1 .. n], e)
  <2>1. n + 1 \in 1 .. n + 1 /\ (n + 1) - 1 = n
    BY <1>3
  <2> QED
    BY <1>3, <1>5, <2>1 DEF IsReading
<1>10. HandleAll(st, more) = Handle(HandleAll(st, log), e)
  BY <1>4, <1>5, <1>8, <1>9
<1> QED
  BY <1>2, <1>10 DEF more

LEMMA NothingToHandle ==
    ASSUME NEW st
    PROVE  HandleAll(st, <<>>) = st
<1>1. DOMAIN <<>> = 1 .. 0 /\ 0 \in Nat /\ 1 .. 0 = {}
  OBVIOUS
<1>2. PICK iter : IsReading(st, <<>>, 0, iter) /\ HandleAll(st, <<>>) = iter[1 .. 0]
  BY <1>1, LogIsRead
<1> QED
  BY <1>1, <1>2 DEF IsReading

LEMMA OneToHandle ==
    ASSUME NEW st, NEW e
    PROVE  HandleAll(st, <<e>>) = Handle(st, e)
<1>1. /\ DOMAIN <<e>> = 1 .. 1 /\ 1 \in Nat /\ 1 .. 0 = {} /\ 1 - 1 = 0
      /\ <<e>>[1] = e /\ 1 \in 1 .. 1
  OBVIOUS
<1>2. PICK iter : IsReading(st, <<e>>, 1, iter) /\ HandleAll(st, <<e>>) = iter[1 .. 1]
  BY <1>1, LogIsRead
<1>3. iter[1 .. 0] = st
  BY <1>1, <1>2 DEF IsReading
<1>4. iter[1 .. 1] = Handle(iter[1 .. 0], e)
  BY <1>1, <1>2 DEF IsReading
<1> QED
  BY <1>2, <1>3, <1>4


\* A log that follows another.
LEMMA LogsAreReadInTurn ==
    ASSUME NEW st, NEW E, NEW a \in Seq(E), NEW b \in Seq(E)
    PROVE  HandleAll(st, a \o b) = HandleAll(HandleAll(st, a), b)
<1> DEFINE n == Len(a)
           m == Len(b)
           both == a \o b
           middle == HandleAll(st, a)
<1>1. /\ n \in Nat /\ m \in Nat /\ DOMAIN a = 1 .. n /\ DOMAIN b = 1 .. m
      /\ both \in Seq(E) /\ Len(both) = n + m /\ DOMAIN both = 1 .. n + m
      /\ \A i \in 1 .. n : both[i] = a[i]
      /\ \A i \in 1 .. m : both[n + i] = b[i]
  <2>1. /\ both \in Seq(E) /\ Len(both) = n + m
        /\ \A i \in 1 .. n + m : both[i] = IF i <= n THEN a[i] ELSE b[i - n]
    BY ConcatProperties
  <2>2. \A i \in 1 .. n : i \in 1 .. n + m /\ i <= n
    OBVIOUS
  <2>3. \A i \in 1 .. m : n + i \in 1 .. n + m /\ ~(n + i <= n) /\ (n + i) - n = i
    OBVIOUS
  <2> HIDE DEF both
  <2> QED
    BY <2>1, <2>2, <2>3
<1> HIDE DEF n, m, both
<1>2. PICK f : IsReading(st, a, n, f) /\ HandleAll(st, a) = f[1 .. n]
  <2>1. n \in Nat /\ DOMAIN a = 1 .. n
    BY <1>1
  <2> QED
    BY <2>1, LogIsRead
<1> HIDE DEF middle
<1>3. PICK g : IsReading(middle, b, m, g) /\ HandleAll(middle, b) = g[1 .. m]
  <2>1. m \in Nat /\ DOMAIN b = 1 .. m
    BY <1>1
  <2> QED
    BY <2>1, LogIsRead
<1>4. n + m \in Nat
  BY <1>1
<1>5. PICK h : IsReading(st, both, n + m, h) /\ HandleAll(st, both) = h[1 .. n + m]
  BY <1>1, <1>4, LogIsRead
<1>6. 1 .. 0 = {} /\ 1 - 1 = 0
  OBVIOUS
<1> DEFINE First == {k \in 1 .. n : h[1 .. k] = f[1 .. k]}
           Second == {k \in 1 .. m : h[1 .. n + k] = g[1 .. k]}
<1>7. h[1 .. n] = middle
  <2>1. \A k \in 1 .. n : h[1 .. k - 1] = f[1 .. k - 1] => h[1 .. k] = f[1 .. k]
    <3> SUFFICES ASSUME NEW k \in 1 .. n, h[1 .. k - 1] = f[1 .. k - 1]
                 PROVE  h[1 .. k] = f[1 .. k]
      OBVIOUS
    <3>1. k \in 1 .. n + m
      BY <1>1
    <3>2. h[1 .. k] = Handle(h[1 .. k - 1], a[k])
      BY <1>1, <1>5, <3>1 DEF IsReading
    <3>3. f[1 .. k] = Handle(f[1 .. k - 1], a[k])
      BY <1>2 DEF IsReading
    <3> QED
      BY <3>2, <3>3
  <2>2. h[{}] = f[{}]
    BY <1>2, <1>5 DEF IsReading
  <2>3. CASE n = 0
    BY <1>2, <1>6, <2>2, <2>3 DEF middle
  <2>4. CASE n > 0
    <3>1. 1 \in First
      <4>1. 1 \in 1 .. n
        BY <1>1, <2>4
      <4> QED
        BY <1>6, <2>1, <2>2, <4>1
    <3>2. ASSUME NEW i \in 1 .. n, i < n, i \in First
          PROVE  i + 1 \in First
      <4>1. i + 1 \in 1 .. n /\ (i + 1) - 1 = i
        BY <1>1, <3>2
      <4> QED
        BY <2>1, <3>2, <4>1
    <3> HIDE DEF First
    <3>3. 1 .. n \subseteq First
      BY <1>1, <3>1, <3>2, IntervalInduction
    <3>4. n \in First
      BY <1>1, <2>4, <3>3
    <3> QED
      BY <1>2, <3>4 DEF First, middle
  <2> QED
    BY <1>1, <2>3, <2>4
<1>8. h[1 .. n + m] = g[1 .. m]
  <2>1. \A k \in 1 .. m : h[1 .. n + (k - 1)] = g[1 .. k - 1] => h[1 .. n + k] = g[1 .. k]
    <3> SUFFICES ASSUME NEW k \in 1 .. m, h[1 .. n + (k - 1)] = g[1 .. k - 1]
                 PROVE  h[1 .. n + k] = g[1 .. k]
      OBVIOUS
    <3>1. n + k \in 1 .. n + m /\ (n + k) - 1 = n + (k - 1)
      BY <1>1
    <3>2. h[1 .. n + k] = Handle(h[1 .. (n + k) - 1], both[n + k])
      BY <1>5, <3>1 DEF IsReading
    <3>3. h[1 .. n + k] = Handle(h[1 .. n + (k - 1)], b[k])
      BY <1>1, <3>1, <3>2
    <3>4. g[1 .. k] = Handle(g[1 .. k - 1], b[k])
      BY <1>3 DEF IsReading
    <3> QED
      BY <3>3, <3>4
  <2>2. g[{}] = middle /\ n + 0 = n
    BY <1>1, <1>3 DEF IsReading
  <2>3. CASE m = 0
    BY <1>6, <1>7, <2>2, <2>3
  <2>4. CASE m > 0
    <3>1. 1 \in Second
      <4>1. 1 \in 1 .. m /\ n + (1 - 1) = n
        BY <1>1, <2>4
      <4> QED
        BY <1>6, <1>7, <2>1, <2>2, <4>1
    <3>2. ASSUME NEW i \in 1 .. m, i < m, i \in Second
          PROVE  i + 1 \in Second
      <4>1. i + 1 \in 1 .. m /\ (i + 1) - 1 = i
        BY <1>1, <3>2
      <4> QED
        BY <2>1, <3>2, <4>1
    <3> HIDE DEF Second
    <3>3. 1 .. m \subseteq Second
      BY <1>1, <3>1, <3>2, IntervalInduction
    <3>4. m \in Second
      BY <1>1, <2>4, <3>3
    <3> QED
      BY <3>4 DEF Second
  <2> QED
    BY <1>1, <2>3, <2>4
<1> QED
  BY <1>3, <1>5, <1>8 DEF both, middle

-----------------------------------------------------------------------------
(* The lists of streams, the positions and the events *)

StreamEvents(p) ==
    {[name |-> n, project |-> p, stream |-> s] : n \in {"StreamAdded", "StreamRemoved"},
                                                 s \in Streams}

Listings(p) == [streams : Seq(Streams), index : [Streams -> Nat], events : Seq(StreamEvents(p))]

\* The streams shown after the events of l
StreamsShownAfter(st, p, l) == Project(HandleAll(st, l.events), p).streams

\* The contract's list is in order, and the entities list the same streams.
InStep(st, p, l) ==
    /\ IsListing(l.streams, l.index)
    /\ NamesThem(StreamsShownAfter(st, p, l), l.index)

\* A fold that takes one position after the other.
LEMMA RunReaches ==
    ASSUME NEW n \in Nat, NEW h, NEW G, h[{}] \in G[0],
           \A k \in 1 .. n : h[1 .. k - 1] \in G[k - 1] => h[1 .. k] \in G[k]
    PROVE  h[1 .. n] \in G[n]
<1> DEFINE T == {k \in 1 .. n : h[1 .. k] \in G[k]}
<1>1. 1 .. 0 = {} /\ 1 - 1 = 0
  OBVIOUS
<1>2. CASE n = 0
  BY <1>1, <1>2
<1>3. CASE n > 0
  <2>1. 1 \in T
    <3>1. 1 \in 1 .. n
      BY <1>3
    <3>2. h[1 .. 1 - 1] \in G[1 - 1]
      BY <1>1
    <3> QED
      BY <3>1, <3>2
  <2>2. ASSUME NEW i \in 1 .. n, i < n, i \in T
        PROVE  i + 1 \in T
    <3>1. i + 1 \in 1 .. n /\ (i + 1) - 1 = i
      BY <2>2
    <3> QED
      BY <2>2, <3>1
  <2> HIDE DEF T
  <2>3. 1 .. n \subseteq T
    BY <2>1, <2>2, IntervalInduction
  <2>4. n \in T
    BY <1>3, <2>3
  <2> QED
    BY <2>4 DEF T
<1> QED
  BY <1>2, <1>3

LEMMA StreamAddedEvent ==
    ASSUME NEW p, NEW s \in Streams, NEW n \in {"StreamAdded", "StreamRemoved"}
    PROVE  [name |-> n, project |-> p, stream |-> s] \in StreamEvents(p)
  BY DEF StreamEvents

\* _addStream
LEMMA WithStreamIsTyped ==
    ASSUME NEW p, NEW l \in Listings(p), NEW s \in Streams
    PROVE  LET more == WithStream(p, l, s)
           IN  /\ more \in Listings(p)
               /\ more.streams = Append(l.streams, s)
               /\ more.index[s] = Len(l.streams) + 1
               /\ \A r \in Streams : r # s => more.index[r] = l.index[r]
               /\ more.events = Append(l.events, [name |-> "StreamAdded", project |-> p,
                                                  stream |-> s])
<1> DEFINE e == [name |-> "StreamAdded", project |-> p, stream |-> s]
           index2 == [l.index EXCEPT ![s] = Len(l.streams) + 1]
           more == WithStream(p, l, s)
<1>1. e \in StreamEvents(p)
  BY StreamAddedEvent
<1> HIDE DEF e
<1>2. /\ l.streams \in Seq(Streams) /\ l.index \in [Streams -> Nat]
      /\ l.events \in Seq(StreamEvents(p))
  BY DEF Listings
<1>3. Append(l.streams, s) \in Seq(Streams) /\ Append(l.events, e) \in Seq(StreamEvents(p))
  BY <1>1, <1>2
<1>4. Len(l.streams) + 1 \in Nat
  BY <1>2
<1>5. /\ index2 \in [Streams -> Nat] /\ index2[s] = Len(l.streams) + 1
      /\ \A r \in Streams : r # s => index2[r] = l.index[r]
  BY <1>2, <1>4
<1> HIDE DEF index2
<1>6. more = [streams |-> Append(l.streams, s), index |-> index2, events |-> Append(l.events, e)]
  BY DEF WithStream, index2, e
<1> HIDE DEF more
<1>7. more \in Listings(p)
  BY <1>3, <1>5, <1>6 DEF Listings
<1> QED
  BY <1>5, <1>6, <1>7 DEF more, e

\* The listing that has one stream more is in order.
LEMMA MoreIsListing ==
    ASSUME NEW list \in Seq(Streams), NEW positions \in [Streams -> Nat],
           IsListing(list, positions), NEW s \in Streams, positions[s] = 0,
           NEW others \in [Streams -> Nat], others[s] = Len(list) + 1,
           \A r \in Streams : r # s => others[r] = positions[r]
    PROVE  IsListing(Append(list, s), others)
<1> DEFINE more == Append(list, s)
           n == Len(list)
<1>1. /\ n \in Nat /\ Len(more) = n + 1 /\ more[n + 1] = s
      /\ \A i \in 1 .. n : more[i] = list[i] /\ list[i] \in Streams
  OBVIOUS
<1>2. /\ \A i \in 1 .. n : positions[list[i]] = i
      /\ \A r \in Streams : positions[r] # 0 =>
            positions[r] \in 1 .. n /\ list[positions[r]] = r
  BY DEF IsListing
<1>3. \A i \in 1 .. n : list[i] # s
  BY <1>2
<1>4. \A i \in 1 .. n + 1 : i \in 1 .. n \/ i = n + 1
  BY <1>1
<1>5. n + 1 \in 1 .. n + 1 /\ \A i \in 1 .. n : i \in 1 .. n + 1
  BY <1>1
<1>6. others[s] = n + 1
  OBVIOUS
<1> HIDE DEF more, n
<1>7. ASSUME NEW i \in 1 .. n + 1
      PROVE  others[more[i]] = i
  <2>1. CASE i \in 1 .. n
    BY <1>1, <1>2, <1>3, <2>1
  <2>2. CASE i = n + 1
    BY <1>1, <1>6, <2>2
  <2> QED
    BY <1>4, <2>1, <2>2
<1>8. ASSUME NEW r \in Streams, others[r] # 0
      PROVE  others[r] \in 1 .. n + 1 /\ more[others[r]] = r
  <2>1. CASE r = s
    BY <1>1, <1>5, <1>6, <2>1
  <2>2. CASE r # s
    BY <1>1, <1>2, <1>5, <1>8, <2>2
  <2> QED
    BY <2>1, <2>2
<1>9. IsListing(more, others)
  BY <1>1, <1>7, <1>8 DEF IsListing
<1> QED
  BY <1>9 DEF more

\* The events of the streams of p change nothing else.
LEMMA StreamLogIs ==
    ASSUME NEW st, IsStore(st), NEW p \in Projs, NEW log \in Seq(StreamEvents(p))
    PROVE  Changes(st, HandleAll(st, log), p, {"streams"})
<1> DEFINE n == Len(log)
<1>1. n \in Nat /\ DOMAIN log = 1 .. n /\ \A i \in 1 .. n : log[i] \in StreamEvents(p)
  OBVIOUS
<1> HIDE DEF n
<1>2. PICK iter : IsReading(st, log, n, iter) /\ HandleAll(st, log) = iter[1 .. n]
  BY <1>1, LogIsRead
<1> DEFINE Good(k) == Changes(st, iter[1 .. k], p, {"streams"})
           T == {k \in 1 .. n + 1 : Good(k - 1)}
<1>3. ASSUME NEW k \in 1 .. n, Good(k - 1)
      PROVE  Good(k)
  <2> DEFINE old == iter[1 .. k - 1]
             e == log[k]
  <2>1. IsStore(old)
    BY <1>3 DEF Changes
  <2>2. /\ e.project = p /\ e.stream \in Streams
        /\ e.name = "StreamAdded" \/ e.name = "StreamRemoved"
    BY <1>1 DEF StreamEvents
  <2>3. iter[1 .. k] = Handle(old, e)
    BY <1>2 DEF IsReading
  <2> HIDE DEF old, e
  <2>4. Changes(old, Handle(old, e), p, {"streams"})
    BY <2>1, <2>2, AdditionHandled, RemovalHandled
  <2>5. Changes(st, Handle(old, e), p, {"streams"} \cup {"streams"})
    BY <1>3, <2>4, ChangesChain DEF old
  <2>6. {"streams"} \cup {"streams"} = {"streams"}
    OBVIOUS
  <2> QED
    BY <2>3, <2>5, <2>6
<1>4. Good(0)
  <2>1. 1 .. 0 = {}
    OBVIOUS
  <2>2. iter[1 .. 0] = st
    BY <1>2, <2>1 DEF IsReading
  <2> QED
    BY <2>2, NothingChanges
<1> HIDE DEF Good
<1>5. 1 \in T
  <2>1. 1 \in 1 .. n + 1 /\ 1 - 1 = 0
    BY <1>1
  <2> QED
    BY <1>4, <2>1
<1>6. ASSUME NEW k \in 1 .. n + 1, k < n + 1, k \in T
      PROVE  k + 1 \in T
  <2>1. k \in 1 .. n /\ k + 1 \in 1 .. n + 1 /\ (k + 1) - 1 = k
    BY <1>1, <1>6
  <2> QED
    BY <1>3, <1>6, <2>1
<1>7. n + 1 \in T
  <2> HIDE DEF T
  <2>1. n + 1 \in Nat /\ n + 1 \in 1 .. n + 1
    BY <1>1
  <2>2. 1 .. n + 1 \subseteq T
    BY <1>5, <1>6, <2>1, IntervalInduction
  <2> QED
    BY <2>1, <2>2
<1>8. Good(n)
  <2>1. (n + 1) - 1 = n
    BY <1>1
  <2> QED
    BY <1>7, <2>1
<1> QED
  BY <1>2, <1>8 DEF Good

LEMMA OneStreamEventMore ==
    ASSUME NEW st, NEW p, NEW log \in Seq(StreamEvents(p)), NEW e
    PROVE  HandleAll(st, Append(log, e)) = Handle(HandleAll(st, log), e)
<1> DEFINE E == StreamEvents(p)
<1>1. log \in Seq(E)
  OBVIOUS
<1> HIDE DEF E
<1>2. /\ HandleAll(st, Append(log, e)) = Handle(HandleAll(st, log), e)
      /\ Append(log, e) \in Seq(E \cup {e})
  BY <1>1, EventIsHandledLast
<1> QED
  BY <1>2

LEMMA WithStreamInStep ==
    ASSUME NEW st, IsStore(st), NEW p \in Projs, NEW l \in Listings(p), InStep(st, p, l),
           NEW s \in Streams, l.index[s] = 0
    PROVE  InStep(st, p, WithStream(p, l, s))
<1> DEFINE more == WithStream(p, l, s)
           e == [name |-> "StreamAdded", project |-> p, stream |-> s]
           mid == HandleAll(st, l.events)
           shown == Project(mid, p).streams
<1>1. /\ more \in Listings(p)
      /\ more.streams = Append(l.streams, s)
      /\ more.index[s] = Len(l.streams) + 1
      /\ \A r \in Streams : r # s => more.index[r] = l.index[r]
      /\ more.events = Append(l.events, e)
  BY WithStreamIsTyped
<1>2. /\ l.streams \in Seq(Streams) /\ l.index \in [Streams -> Nat]
      /\ l.events \in Seq(StreamEvents(p)) /\ more.index \in [Streams -> Nat]
  BY <1>1 DEF Listings
<1>3. e.name = "StreamAdded" /\ e.project = p /\ e.stream = s
  OBVIOUS
<1> HIDE DEF more, e
<1>4. Changes(st, mid, p, {"streams"})
  BY <1>2, StreamLogIs
<1>5. IsStore(mid)
  BY <1>4 DEF Changes
<1>6. HandleAll(st, more.events) = Handle(mid, e)
  <2> DEFINE log == l.events
             E == StreamEvents(p)
  <2>1. more.events = Append(log, e) /\ mid = HandleAll(st, log)
    BY <1>1
  <2>2. log \in Seq(E)
    BY <1>2
  <2> HIDE DEF log, E, mid
  <2>3. HandleAll(st, Append(log, e)) = Handle(HandleAll(st, log), e)
    BY <2>2, OneStreamEventMore DEF E
  <2> QED
    BY <2>1, <2>3
<1> HIDE DEF mid
<1>7. Project(Handle(mid, e), p).streams = Append(shown, s)
  BY <1>3, <1>5, AdditionHandled
<1>8. shown \in Seq(Streams)
  BY <1>5, ProjectIsEntity DEF Entities
<1>9. IsListing(l.streams, l.index) /\ NamesThem(shown, l.index)
  BY DEF InStep, StreamsShownAfter, mid
<1> HIDE DEF shown
<1>10. Len(l.streams) + 1 # 0
  BY <1>2
<1>11. \A r \in Streams : more.index[r] # 0 <=> l.index[r] # 0 \/ r = s
  BY <1>1, <1>10
<1>12. NamesThem(Append(shown, s), more.index)
  BY <1>8, <1>9, <1>11, OneNameMore
<1>13. IsListing(more.streams, more.index)
  <2> DEFINE a == l.streams
             f == l.index
             g == more.index
  <2>1. /\ a \in Seq(Streams) /\ f \in [Streams -> Nat] /\ g \in [Streams -> Nat]
        /\ IsListing(a, f) /\ f[s] = 0 /\ g[s] = Len(a) + 1
        /\ \A r \in Streams : r # s => g[r] = f[r]
    BY <1>1, <1>2, <1>9
  <2> HIDE DEF a, f, g
  <2>2. IsListing(Append(a, s), g)
    BY <2>1, MoreIsListing
  <2> QED
    BY <1>1, <2>2 DEF a, g
<1> QED
  BY <1>6, <1>7, <1>12, <1>13 DEF InStep, StreamsShownAfter, more

\* The step of the loop in addStreams
AddedIfMissing(p, l, s) == IF l.index[s] > 0 THEN l ELSE WithStream(p, l, s)

LEMMA WithStreamsIsRun ==
    ASSUME NEW p, NEW base \in Listings(p), NEW list \in Seq(Streams)
    PROVE  \E iter : /\ iter[{}] = base
                     /\ \A k \in 1 .. Len(list) :
                          iter[1 .. k - 1] \in Listings(p) =>
                             iter[1 .. k] = AddedIfMissing(p, iter[1 .. k - 1], list[k])
                     /\ WithStreams(p, base, list) = iter[1 .. Len(list)]
<1> DEFINE n == Len(list)
           States == Listings(p)
           Step(h, s) == IF s = {} THEN base
                         ELSE AddedIfMissing(p, h[s \ {Max(s)}], list[Max(s)])
           Run(h) == [s \in SUBSET (1 .. n) |-> Step(h, s)]
           iter == CHOOSE h : h = Run(h)
           step == [q \in States \X (1 .. n) |-> AddedIfMissing(p, q[1], list[q[2]])]
<1>1. n \in Nat /\ DOMAIN list = 1 .. n /\ \A i \in 1 .. n : list[i] \in Streams
  OBVIOUS
<1>2. WithStreams(p, base, list) = iter[1 .. n]
  BY <1>1 DEF WithStreams, FoldLeft, MapThenFoldSet, AddedIfMissing
<1> HIDE DEF States, n
<1>3. \A l \in States, i \in 1 .. n : AddedIfMissing(p, l, list[i]) \in States
  BY <1>1, WithStreamIsTyped DEF AddedIfMissing, States
<1>4. step \in [States \X (1 .. n) -> States]
  BY <1>3
<1>5. \E h : h = Run(h)
  <2>1. PICK g \in [SUBSET (1 .. n) -> States] : IsStepwise(g, base, step, n)
    <3> HIDE DEF step
    <3>1. base \in States
      BY DEF States
    <3> QED
      BY <1>1, <1>4, <3>1, RunExists
  <2>2. ASSUME NEW s \in SUBSET (1 .. n)
        PROVE  g[s] = Step(g, s)
    <3>1. s # {} => Max(s) \in 1 .. n /\ g[s \ {Max(s)}] \in States
      BY <1>1, MaxInSet
    <3>2. g[s] = IF s = {} THEN base ELSE step[<<g[s \ {Max(s)}], Max(s)>>]
      BY <2>1 DEF IsStepwise
    <3> QED
      BY <3>1, <3>2
  <2> HIDE DEF Step
  <2>3. g = Run(g)
    BY <2>2
  <2> QED
    BY <2>3
<1>6. iter = Run(iter)
  <2> HIDE DEF Run
  <2> QED
    BY <1>5
<1> HIDE DEF iter
<1>7. \A s \in SUBSET (1 .. n) : iter[s] = Step(iter, s)
  <2> HIDE DEF Step
  <2> QED
    BY <1>6
<1>8. ASSUME NEW k \in 1 .. n
      PROVE  iter[1 .. k] = AddedIfMissing(p, iter[1 .. k - 1], list[k])
  <2>1. Max(1 .. k) = k /\ (1 .. k) \ {k} = 1 .. k - 1 /\ 1 .. k # {}
    <3>1. k \in Nat /\ k > 0
      BY <1>1
    <3> QED
      BY <3>1, LastOfInterval
  <2>2. 1 .. k \in SUBSET (1 .. n)
    BY <1>1
  <2> QED
    BY <1>7, <2>1, <2>2
<1>9. iter[{}] = base
  BY <1>7
<1> QED
  BY <1>2, <1>8, <1>9 DEF n

\* addStreams, and the end of setStreams
LEMMA WithStreamsIs ==
    ASSUME NEW st, IsStore(st), NEW p \in Projs, NEW base \in Listings(p),
           NEW list \in Seq(Streams)
    PROVE  LET l == WithStreams(p, base, list)
           IN  /\ l \in Listings(p)
               /\ InStep(st, p, base) => InStep(st, p, l)
               /\ \A s \in Streams :
                    l.index[s] # 0 <=> \/ base.index[s] # 0
                                       \/ \E i \in 1 .. Len(list) : list[i] = s
<1> DEFINE n == Len(list)
           Fine(l, k) ==
             /\ InStep(st, p, base) => InStep(st, p, l)
             /\ \A s \in Streams : l.index[s] # 0 <=> \/ base.index[s] # 0
                                                      \/ \E i \in 1 .. k : list[i] = s
           G == [k \in 0 .. n |-> {l \in Listings(p) : Fine(l, k)}]
<1>1. n \in Nat /\ \A i \in 1 .. n : list[i] \in Streams
  OBVIOUS
<1>2. PICK iter : /\ iter[{}] = base
                  /\ \A k \in 1 .. n :
                       iter[1 .. k - 1] \in Listings(p) =>
                          iter[1 .. k] = AddedIfMissing(p, iter[1 .. k - 1], list[k])
                  /\ WithStreams(p, base, list) = iter[1 .. n]
  BY WithStreamsIsRun
<1> HIDE DEF n
<1>3. iter[{}] \in G[0]
  <2>1. 0 \in 0 .. n /\ 1 .. 0 = {}
    BY <1>1
  <2>2. Fine(base, 0)
    BY <2>1
  <2> HIDE DEF Fine
  <2> QED
    BY <1>2, <2>1, <2>2
<1>4. ASSUME NEW k \in 1 .. n, iter[1 .. k - 1] \in G[k - 1]
      PROVE  iter[1 .. k] \in G[k]
  <2> DEFINE l == iter[1 .. k - 1]
             s == list[k]
             more == AddedIfMissing(p, l, s)
  <2>1. k - 1 \in 0 .. n /\ k \in 0 .. n /\ s \in Streams
    BY <1>1
  <2>2. l \in Listings(p) /\ Fine(l, k - 1)
    <3> HIDE DEF Fine
    <3> QED
      BY <1>4, <2>1
  <2>3. iter[1 .. k] = more
    BY <1>2, <2>2
  <2>4. \A i \in 1 .. k : i \in 1 .. k - 1 \/ i = k
    BY <1>1
  <2>5. k \in 1 .. k /\ \A i \in 1 .. k - 1 : i \in 1 .. k
    BY <1>1
  <2> HIDE DEF l
  <2>6. l.index \in [Streams -> Nat] /\ l.streams \in Seq(Streams)
    BY <2>2 DEF Listings
  <2>7. more \in Listings(p) /\ Fine(more, k)
    <3>1. CASE l.index[s] > 0
      <4>1. more = l
        BY <3>1 DEF AddedIfMissing
      <4>2. l.index[s] # 0
        BY <2>1, <2>6, <3>1
      <4> HIDE DEF more
      <4>3. \A r \in Streams : (\E i \in 1 .. k : list[i] = r) <=>
                                  ((\E i \in 1 .. k - 1 : list[i] = r) \/ r = s)
        BY <2>4, <2>5
      <4> QED
        BY <2>2, <4>1, <4>2, <4>3
    <3>2. CASE ~(l.index[s] > 0)
      <4>1. more = WithStream(p, l, s)
        BY <3>2 DEF AddedIfMissing
      <4>2. l.index[s] = 0
        BY <2>1, <2>6, <3>2
      <4> HIDE DEF more, s
      <4>8. l \in Listings(p) /\ s \in Streams
        BY <2>1, <2>2
      <4>3. /\ more \in Listings(p)
            /\ more.index[s] = Len(l.streams) + 1
            /\ \A r \in Streams : r # s => more.index[r] = l.index[r]
        <5>1. LET m == WithStream(p, l, s)
              IN  /\ m \in Listings(p)
                  /\ m.streams = Append(l.streams, s)
                  /\ m.index[s] = Len(l.streams) + 1
                  /\ \A r \in Streams : r # s => m.index[r] = l.index[r]
                  /\ m.events = Append(l.events, [name |-> "StreamAdded", project |-> p,
                                                   stream |-> s])
          BY <4>8, WithStreamIsTyped
        <5> QED
          BY <4>1, <5>1
      <4>4. more.index[s] # 0
        BY <2>6, <4>3
      <4>5. InStep(st, p, base) => InStep(st, p, more)
        BY <2>1, <2>2, <4>1, <4>2, WithStreamInStep
      <4>6. \A r \in Streams : (\E i \in 1 .. k : list[i] = r) <=>
                                  ((\E i \in 1 .. k - 1 : list[i] = r) \/ r = s)
        BY <2>4, <2>5 DEF s
      <4>7. \A r \in Streams : more.index[r] # 0 <=> \/ base.index[r] # 0
                                                     \/ \E i \in 1 .. k : list[i] = r
        BY <2>2, <4>3, <4>4, <4>6
      <4> QED
        BY <4>3, <4>5, <4>7
    <3> QED
      BY <3>1, <3>2
  <2> HIDE DEF Fine, more
  <2> QED
    BY <2>1, <2>3, <2>7
<1> HIDE DEF G
<1>5. iter[1 .. n] \in G[n]
  BY <1>1, <1>3, <1>4, RunReaches
<1>6. n \in 0 .. n
  BY <1>1
<1>7. iter[1 .. n] \in Listings(p) /\ Fine(iter[1 .. n], n)
  <2> HIDE DEF Fine
  <2> QED
    BY <1>5, <1>6 DEF G
<1> QED
  BY <1>2, <1>7 DEF n

\* createProject: the streams one after the other
NoStreams == [streams |-> <<>>, index |-> [s \in Streams |-> 0], events |-> <<>>]
AddedInTurn(p, list) == FoldLeft(LAMBDA l, s : WithStream(p, l, s), NoStreams, list)

LEMMA AddedInTurnIsRun ==
    ASSUME NEW p, NEW list \in Seq(Streams)
    PROVE  \E iter : /\ iter[{}] = NoStreams
                     /\ \A k \in 1 .. Len(list) :
                          iter[1 .. k - 1] \in Listings(p) =>
                             iter[1 .. k] = WithStream(p, iter[1 .. k - 1], list[k])
                     /\ AddedInTurn(p, list) = iter[1 .. Len(list)]
                     /\ NoStreams \in Listings(p)
<1> DEFINE n == Len(list)
           States == Listings(p)
           Step(h, s) == IF s = {} THEN NoStreams
                         ELSE WithStream(p, h[s \ {Max(s)}], list[Max(s)])
           Run(h) == [s \in SUBSET (1 .. n) |-> Step(h, s)]
           iter == CHOOSE h : h = Run(h)
           step == [q \in States \X (1 .. n) |-> WithStream(p, q[1], list[q[2]])]
<1>1. n \in Nat /\ DOMAIN list = 1 .. n /\ \A i \in 1 .. n : list[i] \in Streams
  OBVIOUS
<1>2. AddedInTurn(p, list) = iter[1 .. n]
  BY <1>1 DEF AddedInTurn, FoldLeft, MapThenFoldSet
<1>a. NoStreams \in States
  BY DEF NoStreams, Listings
<1> HIDE DEF States, n
<1>3. \A l \in States, i \in 1 .. n : WithStream(p, l, list[i]) \in States
  BY <1>1, WithStreamIsTyped DEF States
<1>4. step \in [States \X (1 .. n) -> States]
  BY <1>3
<1>5. \E h : h = Run(h)
  <2>1. PICK g \in [SUBSET (1 .. n) -> States] : IsStepwise(g, NoStreams, step, n)
    <3> HIDE DEF step
    <3> QED
      BY <1>1, <1>4, <1>a, RunExists
  <2>2. ASSUME NEW s \in SUBSET (1 .. n)
        PROVE  g[s] = Step(g, s)
    <3>1. s # {} => Max(s) \in 1 .. n /\ g[s \ {Max(s)}] \in States
      BY <1>1, MaxInSet
    <3>2. g[s] = IF s = {} THEN NoStreams ELSE step[<<g[s \ {Max(s)}], Max(s)>>]
      BY <2>1 DEF IsStepwise
    <3> QED
      BY <3>1, <3>2
  <2> HIDE DEF Step
  <2>3. g = Run(g)
    BY <2>2
  <2> QED
    BY <2>3
<1>6. iter = Run(iter)
  <2> HIDE DEF Run
  <2> QED
    BY <1>5
<1> HIDE DEF iter
<1>7. \A s \in SUBSET (1 .. n) : iter[s] = Step(iter, s)
  <2> HIDE DEF Step
  <2> QED
    BY <1>6
<1>8. ASSUME NEW k \in 1 .. n
      PROVE  iter[1 .. k] = WithStream(p, iter[1 .. k - 1], list[k])
  <2>1. Max(1 .. k) = k /\ (1 .. k) \ {k} = 1 .. k - 1 /\ 1 .. k # {}
    <3>1. k \in Nat /\ k > 0
      BY <1>1
    <3> QED
      BY <3>1, LastOfInterval
  <2>2. 1 .. k \in SUBSET (1 .. n)
    BY <1>1
  <2> QED
    BY <1>7, <2>1, <2>2
<1>9. iter[{}] = NoStreams
  BY <1>7
<1> QED
  BY <1>2, <1>8, <1>9, <1>a DEF n, States

\* The new project has the streams of the list; their positions are right unless it
\* names one of them twice.
LEMMA AddedInTurnIs ==
    ASSUME NEW p, NEW list \in Seq(Streams)
    PROVE  LET l == AddedInTurn(p, list)
           IN  /\ l \in Listings(p)
               /\ NoRepeats(list) => IsListing(l.streams, l.index) /\ NamesThem(list, l.index)
<1> DEFINE n == Len(list)
           Fine(l, k) ==
             /\ Len(l.streams) = k
             /\ \A i \in 1 .. k : l.streams[i] = list[i]
             /\ \A s \in Streams : l.index[s] # 0 <=> \E i \in 1 .. k : list[i] = s
             /\ NoRepeats(list) => \A i \in 1 .. k : l.index[list[i]] = i
           G == [k \in 0 .. n |-> {l \in Listings(p) : Fine(l, k)}]
<1>1. n \in Nat /\ \A i \in 1 .. n : list[i] \in Streams
  OBVIOUS
<1>2. PICK iter : /\ iter[{}] = NoStreams
                  /\ \A k \in 1 .. n :
                       iter[1 .. k - 1] \in Listings(p) =>
                          iter[1 .. k] = WithStream(p, iter[1 .. k - 1], list[k])
                  /\ AddedInTurn(p, list) = iter[1 .. n]
                  /\ NoStreams \in Listings(p)
  BY AddedInTurnIsRun
<1>a. NoRepeats(list) => \A i, j \in 1 .. n : list[i] = list[j] => i = j
  BY DEF NoRepeats
<1> HIDE DEF n
<1>3. iter[{}] \in G[0]
  <2>1. 0 \in 0 .. n /\ 1 .. 0 = {}
    BY <1>1
  <2>2. Fine(NoStreams, 0)
    BY <2>1 DEF NoStreams
  <2> HIDE DEF Fine
  <2> QED
    BY <1>2, <2>1, <2>2
<1>4. ASSUME NEW k \in 1 .. n, iter[1 .. k - 1] \in G[k - 1]
      PROVE  iter[1 .. k] \in G[k]
  <2> DEFINE l == iter[1 .. k - 1]
             s == list[k]
             m == k - 1
             more == WithStream(p, l, s)
  <2>1. m \in 0 .. n /\ k \in 0 .. n /\ s \in Streams /\ m + 1 = k /\ m \in Nat
    BY <1>1
  <2>2. l \in Listings(p) /\ Fine(l, m)
    <3> HIDE DEF Fine
    <3> QED
      BY <1>4, <2>1
  <2>3. iter[1 .. k] = more
    BY <1>2, <2>2
  <2>4. \A i \in 1 .. k : i \in 1 .. m \/ i = k
    BY <1>1
  <2>5. k \in 1 .. k /\ k # 0 /\ \A i \in 1 .. m : i \in 1 .. k /\ i \in 1 .. n /\ i # k
    BY <1>1
  <2> HIDE DEF l, m
  <2>6. l.index \in [Streams -> Nat] /\ l.streams \in Seq(Streams)
    BY <2>2 DEF Listings
  <2>7. s \in Streams /\ l \in Listings(p)
    BY <2>1, <2>2
  <2>8. /\ more \in Listings(p)
        /\ more.streams = Append(l.streams, s)
        /\ more.index[s] = Len(l.streams) + 1
        /\ \A r \in Streams : r # s => more.index[r] = l.index[r]
    <3> HIDE DEF s
    <3>1. LET x == WithStream(p, l, s)
          IN  /\ x \in Listings(p)
              /\ x.streams = Append(l.streams, s)
              /\ x.index[s] = Len(l.streams) + 1
              /\ \A r \in Streams : r # s => x.index[r] = l.index[r]
              /\ x.events = Append(l.events, [name |-> "StreamAdded", project |-> p,
                                               stream |-> s])
      BY <2>7, WithStreamIsTyped
    <3> QED
      BY <3>1
  <2> HIDE DEF more, s
  <2>9. Len(l.streams) = m
    BY <2>2
  <2>10. Len(more.streams) = k
    BY <2>1, <2>6, <2>8, <2>9
  <2>11. \A i \in 1 .. k : more.streams[i] = list[i]
    <3>1. more.streams[k] = s /\ \A i \in 1 .. m : more.streams[i] = l.streams[i]
      BY <2>1, <2>6, <2>8, <2>9
    <3>2. \A i \in 1 .. m : l.streams[i] = list[i]
      BY <2>2
    <3> QED
      BY <2>4, <3>1, <3>2 DEF s
  <2>12. more.index[s] = k
    BY <2>1, <2>8, <2>9
  <2>13. \A r \in Streams : more.index[r] # 0 <=> \E i \in 1 .. k : list[i] = r
    <3>1. \A r \in Streams : l.index[r] # 0 <=> \E i \in 1 .. m : list[i] = r
      BY <2>2
    <3>2. \A r \in Streams : (\E i \in 1 .. k : list[i] = r) <=>
                                ((\E i \in 1 .. m : list[i] = r) \/ r = s)
      BY <2>4, <2>5 DEF s
    <3> QED
      BY <2>5, <2>8, <2>12, <3>1, <3>2
  <2>14. ASSUME NoRepeats(list), NEW i \in 1 .. k
         PROVE  more.index[list[i]] = i
    <3>1. CASE i = k
      BY <2>12, <3>1 DEF s
    <3>2. CASE i \in 1 .. m
      <4>1. list[i] # s /\ list[i] \in Streams
        BY <1>1, <1>a, <2>5, <2>14, <3>2 DEF s
      <4>2. l.index[list[i]] = i
        BY <2>2, <2>14, <3>2
      <4> QED
        BY <2>8, <4>1, <4>2
    <3> QED
      BY <2>4, <3>1, <3>2
  <2>15. Fine(more, k)
    BY <2>10, <2>11, <2>13, <2>14
  <2> HIDE DEF Fine
  <2> QED
    BY <2>1, <2>3, <2>8, <2>15
<1> HIDE DEF G
<1>5. iter[1 .. n] \in G[n]
  BY <1>1, <1>3, <1>4, RunReaches
<1>6. n \in 0 .. n
  BY <1>1
<1> DEFINE last == iter[1 .. n]
<1>7. last \in Listings(p) /\ Fine(last, n)
  <2> HIDE DEF Fine
  <2> QED
    BY <1>5, <1>6 DEF G
<1> HIDE DEF last
<1>8. ASSUME NoRepeats(list)
      PROVE  IsListing(last.streams, last.index) /\ NamesThem(list, last.index)
  <2>1. Len(last.streams) = n /\ \A i \in 1 .. n : last.streams[i] = list[i]
    BY <1>7
  <2>2. \A i \in 1 .. n : last.index[list[i]] = i
    BY <1>7, <1>8
  <2>3. \A s \in Streams : last.index[s] # 0 <=> \E i \in 1 .. n : list[i] = s
    BY <1>7
  <2>4. \A i \in 1 .. n : last.index[last.streams[i]] = i
    BY <2>1, <2>2
  <2>5. \A s \in Streams : last.index[s] # 0 => /\ last.index[s] \in 1 .. n
                                                /\ last.streams[last.index[s]] = s
    BY <2>1, <2>2, <2>3
  <2>6. IsListing(last.streams, last.index)
    BY <2>1, <2>4, <2>5 DEF IsListing
  <2>7. NamesThem(list, last.index)
    BY <1>8, <2>3 DEF NamesThem, n
  <2> QED
    BY <2>6, <2>7
<1> QED
  BY <1>2, <1>7, <1>8 DEF last

\* A list that has as many elements as there are in it repeats none.
LEMMA RepeatsOrNot ==
    ASSUME NEW list \in Seq(Streams), ~Repeats(list)
    PROVE  NoRepeats(list)
<1> DEFINE n == Len(list)
           S == ToSet(list)
<1>1. /\ n \in Nat /\ S = {list[i] : i \in 1 .. n} /\ DOMAIN list = 1 .. n
      /\ list \in [1 .. n -> S]
  BY DEF ToSet
<1>2. IsFiniteSet(1 .. n) /\ Cardinality(1 .. n) = n
  <2>1. 1 \in Int /\ n \in Int
    BY <1>1
  <2>2. IsFiniteSet(1 .. n) /\ Cardinality(1 .. n) = IF 1 > n THEN 0 ELSE n - 1 + 1
    BY <2>1, FS_Interval
  <2> QED
    BY <1>1, <2>2
<1>3. list \in Surjection(1 .. n, S)
  BY <1>1 DEF Surjection
<1>4. /\ IsFiniteSet(S) /\ Cardinality(S) <= Cardinality(1 .. n)
      /\ Cardinality(S) = Cardinality(1 .. n) <=> list \in Injection(1 .. n, S)
  BY <1>2, <1>3, FS_Surjection
<1>5. Cardinality(S) \in Nat
  BY <1>4, FS_CardinalityType
<1>6. Cardinality(S) = n
  BY <1>1, <1>2, <1>4, <1>5 DEF Repeats
<1> HIDE DEF S
<1>7. list \in Injection(1 .. n, S)
  BY <1>2, <1>4, <1>6
<1> QED
  BY <1>7 DEF Injection, NoRepeats, IsInjective

\* setStreams: the loop that keeps the streams that are marked
MarkedListings(p) ==
    [streams : Seq(Streams), index : [Streams -> Nat], events : Seq(StreamEvents(p)),
     marked : SUBSET Streams]
Marking(positions, marks) ==
    [streams |-> <<>>, index |-> positions, events |-> <<>>, marked |-> marks]
KeptFrom(p, base, list) == FoldLeft(LAMBDA l, s : KeepIfMarked(p, l, s), base, list)

\* One stream is kept, or it loses its position and an event says so.
KeptOrRemoved(p, l, s, more) ==
    /\ more \in MarkedListings(p)
    /\ \A r \in Streams : r # s => more.index[r] = l.index[r]
    /\ s \in l.marked => /\ more.streams = Append(l.streams, s)
                         /\ more.index[s] = Len(l.streams) + 1
                         /\ more.marked = l.marked \ {s}
                         /\ more.events = l.events
    /\ s \notin l.marked =>
          /\ more.streams = l.streams
          /\ more.index[s] = 0 /\ more.marked = l.marked
          /\ more.events = Append(l.events, [name |-> "StreamRemoved", project |-> p,
                                             stream |-> s])

LEMMA KeepIsTyped ==
    ASSUME NEW p, NEW l \in MarkedListings(p), NEW s \in Streams
    PROVE  KeptOrRemoved(p, l, s, KeepIfMarked(p, l, s))
<1> DEFINE e == [name |-> "StreamRemoved", project |-> p, stream |-> s]
           more == KeepIfMarked(p, l, s)
<1>1. e \in StreamEvents(p)
  BY StreamAddedEvent
<1> HIDE DEF e
<1>2. /\ l.streams \in Seq(Streams) /\ l.index \in [Streams -> Nat]
      /\ l.events \in Seq(StreamEvents(p)) /\ l.marked \in SUBSET Streams
      /\ l = [streams |-> l.streams, index |-> l.index, events |-> l.events,
              marked |-> l.marked]
  BY DEF MarkedListings
<1>3. /\ Append(l.streams, s) \in Seq(Streams) /\ Append(l.events, e) \in Seq(StreamEvents(p))
      /\ Len(l.streams) + 1 \in Nat /\ l.marked \ {s} \in SUBSET Streams
  BY <1>1, <1>2
<1>4. CASE s \in l.marked
  <2> DEFINE positions == [l.index EXCEPT ![s] = Len(l.streams) + 1]
  <2>1. /\ positions \in [Streams -> Nat] /\ positions[s] = Len(l.streams) + 1
        /\ \A r \in Streams : r # s => positions[r] = l.index[r]
    BY <1>2, <1>3
  <2>2. more = [streams |-> Append(l.streams, s), index |-> positions, events |-> l.events,
                marked |-> l.marked \ {s}]
    BY <1>2, <1>4 DEF KeepIfMarked
  <2> HIDE DEF positions, more
  <2>3. more \in MarkedListings(p)
    BY <1>2, <1>3, <2>1, <2>2 DEF MarkedListings
  <2> QED
    BY <1>4, <2>1, <2>2, <2>3 DEF more, KeptOrRemoved
<1>5. CASE s \notin l.marked
  <2> DEFINE positions == [l.index EXCEPT ![s] = 0]
  <2>1. /\ positions \in [Streams -> Nat] /\ positions[s] = 0
        /\ \A r \in Streams : r # s => positions[r] = l.index[r]
    BY <1>2
  <2>2. more = [streams |-> l.streams, index |-> positions, events |-> Append(l.events, e),
                marked |-> l.marked]
    BY <1>2, <1>5 DEF KeepIfMarked, e
  <2> HIDE DEF positions, more
  <2>3. more \in MarkedListings(p)
    BY <1>2, <1>3, <2>1, <2>2 DEF MarkedListings
  <2> QED
    BY <1>5, <2>1, <2>2, <2>3 DEF more, e, KeptOrRemoved
<1> QED
  BY <1>4, <1>5

LEMMA KeptIsRun ==
    ASSUME NEW p, NEW list \in Seq(Streams), NEW base \in MarkedListings(p)
    PROVE  \E iter :
              /\ iter[{}] = base
              /\ \A k \in 1 .. Len(list) :
                   iter[1 .. k - 1] \in MarkedListings(p) =>
                      iter[1 .. k] = KeepIfMarked(p, iter[1 .. k - 1], list[k])
              /\ KeptFrom(p, base, list) = iter[1 .. Len(list)]
<1> DEFINE n == Len(list)
           States == MarkedListings(p)
           Step(h, s) == IF s = {} THEN base
                         ELSE KeepIfMarked(p, h[s \ {Max(s)}], list[Max(s)])
           Run(h) == [s \in SUBSET (1 .. n) |-> Step(h, s)]
           iter == CHOOSE h : h = Run(h)
           step == [q \in States \X (1 .. n) |-> KeepIfMarked(p, q[1], list[q[2]])]
<1>1. n \in Nat /\ DOMAIN list = 1 .. n /\ \A i \in 1 .. n : list[i] \in Streams
  OBVIOUS
<1>2. KeptFrom(p, base, list) = iter[1 .. n]
  BY <1>1 DEF KeptFrom, FoldLeft, MapThenFoldSet
<1>3. base \in States
  OBVIOUS
<1> HIDE DEF States, n
<1>4. \A l \in States, i \in 1 .. n : KeepIfMarked(p, l, list[i]) \in States
  BY <1>1, KeepIsTyped DEF States, KeptOrRemoved
<1>5. step \in [States \X (1 .. n) -> States]
  BY <1>4
<1>6. \E h : h = Run(h)
  <2>1. PICK g \in [SUBSET (1 .. n) -> States] : IsStepwise(g, base, step, n)
    <3> HIDE DEF step
    <3> QED
      BY <1>1, <1>3, <1>5, RunExists
  <2>2. ASSUME NEW s \in SUBSET (1 .. n)
        PROVE  g[s] = Step(g, s)
    <3>1. s # {} => Max(s) \in 1 .. n /\ g[s \ {Max(s)}] \in States
      BY <1>1, MaxInSet
    <3>2. g[s] = IF s = {} THEN base ELSE step[<<g[s \ {Max(s)}], Max(s)>>]
      BY <2>1 DEF IsStepwise
    <3> QED
      BY <3>1, <3>2
  <2> HIDE DEF Step
  <2>3. g = Run(g)
    BY <2>2
  <2> QED
    BY <2>3
<1>7. iter = Run(iter)
  <2> HIDE DEF Run
  <2> QED
    BY <1>6
<1> HIDE DEF iter
<1>8. \A s \in SUBSET (1 .. n) : iter[s] = Step(iter, s)
  <2> HIDE DEF Step
  <2> QED
    BY <1>7
<1>9. ASSUME NEW k \in 1 .. n
      PROVE  iter[1 .. k] = KeepIfMarked(p, iter[1 .. k - 1], list[k])
  <2>1. Max(1 .. k) = k /\ (1 .. k) \ {k} = 1 .. k - 1 /\ 1 .. k # {}
    <3>1. k \in Nat /\ k > 0
      BY <1>1
    <3> QED
      BY <3>1, LastOfInterval
  <2>2. 1 .. k \in SUBSET (1 .. n)
    BY <1>1
  <2> QED
    BY <1>8, <2>1, <2>2
<1>10. iter[{}] = base
  BY <1>8
<1> QED
  BY <1>2, <1>9, <1>10 DEF n

\* What is kept of the first k streams of the list
KeptOf(list, positions, marks, k, l) ==
    /\ \A r \in Streams : r \in l.marked <=> r \in marks /\ positions[r] > k
    /\ \A r \in Streams : positions[r] > k => l.index[r] = positions[r]
    /\ \A r \in Streams : positions[r] <= k => (l.index[r] # 0 <=> r \in marks)
    /\ \A i \in 1 .. Len(l.streams) : /\ l.index[l.streams[i]] = i
                                      /\ positions[l.streams[i]] <= k
    /\ \A r \in marks : positions[r] <= k => /\ l.index[r] \in 1 .. Len(l.streams)
                                             /\ l.streams[l.index[r]] = r

LEMMA KeepingOneMore ==
    ASSUME NEW p, NEW list \in Seq(Streams), NEW positions \in [Streams -> Nat],
           IsListing(list, positions), NEW marks \in SUBSET Streams,
           NEW k \in 1 .. Len(list), NEW l \in MarkedListings(p),
           KeptOf(list, positions, marks, k - 1, l)
    PROVE  /\ KeptOf(list, positions, marks, k, KeepIfMarked(p, l, list[k]))
           /\ list[k] \in l.marked <=> list[k] \in marks
           /\ l.index[list[k]] # 0
<1> DEFINE s == list[k]
           m == k - 1
           more == KeepIfMarked(p, l, s)
           n == Len(l.streams)
<1>1. k \in Nat /\ k # 0 /\ m \in Nat /\ k = m + 1 /\ s \in Streams
  OBVIOUS
<1>2. positions[s] = k
  BY DEF IsListing
<1>3. \A r \in Streams : positions[r] = k => r = s
  BY <1>1 DEF IsListing
<1>4. \A r \in Streams : /\ positions[r] \in Nat
                         /\ positions[r] > k <=> positions[r] > m /\ r # s
                         /\ positions[r] <= k <=> positions[r] <= m \/ r = s
                         /\ r # s \/ ~(positions[r] <= m)
  BY <1>1, <1>2, <1>3
<1>5. /\ l.streams \in Seq(Streams) /\ l.index \in [Streams -> Nat]
      /\ l.marked \in SUBSET Streams /\ n \in Nat /\ l \in MarkedListings(p)
  BY DEF MarkedListings
<1>6. KeptOf(list, positions, marks, m, l)
  OBVIOUS
<1> HIDE DEF s, m
<1>7. /\ more \in MarkedListings(p)
      /\ \A r \in Streams : r # s => more.index[r] = l.index[r]
      /\ s \in l.marked => /\ more.streams = Append(l.streams, s)
                           /\ more.index[s] = n + 1
                           /\ more.marked = l.marked \ {s}
      /\ s \notin l.marked => /\ more.streams = l.streams
                              /\ more.index[s] = 0 /\ more.marked = l.marked
  <2>1. l \in MarkedListings(p) /\ s \in Streams
    BY <1>1, <1>5
  <2>2. KeptOrRemoved(p, l, s, more)
    BY <2>1, KeepIsTyped
  <2> QED
    BY <2>2 DEF KeptOrRemoved, n
<1> HIDE DEF more, n
<1>8. /\ \A r \in Streams : r \in l.marked <=> r \in marks /\ positions[r] > m
      /\ \A r \in Streams : positions[r] > m => l.index[r] = positions[r]
      /\ \A r \in Streams : positions[r] <= m => (l.index[r] # 0 <=> r \in marks)
      /\ \A i \in 1 .. n : l.index[l.streams[i]] = i /\ positions[l.streams[i]] <= m
      /\ \A r \in marks : positions[r] <= m => /\ l.index[r] \in 1 .. n
                                               /\ l.streams[l.index[r]] = r
  BY <1>6 DEF KeptOf, n
<1>9. positions[s] > m
  BY <1>1, <1>2
<1>10. (s \in l.marked <=> s \in marks) /\ l.index[s] # 0
  BY <1>1, <1>2, <1>8, <1>9
<1>11. \A r \in Streams : r \in more.marked <=> r \in marks /\ positions[r] > k
  BY <1>4, <1>7, <1>8, <1>10
<1>12. \A r \in Streams : positions[r] > k => more.index[r] = positions[r]
  BY <1>4, <1>7, <1>8
<1>13. n + 1 # 0 /\ n + 1 \in 1 .. n + 1 /\ \A i \in 1 .. n : i \in 1 .. n + 1
  BY <1>5
<1>14. \A r \in Streams : positions[r] <= k => (more.index[r] # 0 <=> r \in marks)
  BY <1>4, <1>7, <1>8, <1>10, <1>13
<1>15. \A i \in 1 .. n : l.streams[i] \in Streams /\ l.streams[i] # s
  <2> SUFFICES ASSUME NEW i \in 1 .. n
               PROVE  l.streams[i] \in Streams /\ l.streams[i] # s
    OBVIOUS
  <2>1. l.streams[i] \in Streams
    BY <1>5 DEF n
  <2>2. positions[l.streams[i]] <= m
    BY <1>8
  <2> QED
    BY <1>4, <2>1, <2>2
<1>16. ASSUME s \in l.marked
       PROVE  KeptOf(list, positions, marks, k, more)
  <2>1. /\ Len(more.streams) = n + 1 /\ more.streams[n + 1] = s
        /\ \A i \in 1 .. n : more.streams[i] = l.streams[i]
    <3> DEFINE a == l.streams
    <3>1. a \in Seq(Streams) /\ n = Len(a) /\ more.streams = Append(a, s)
      BY <1>5, <1>7, <1>16 DEF n
    <3> HIDE DEF a
    <3>2. /\ Len(Append(a, s)) = Len(a) + 1 /\ Append(a, s)[Len(a) + 1] = s
          /\ \A i \in 1 .. Len(a) : Append(a, s)[i] = a[i]
      BY <1>1, <3>1
    <3> QED
      BY <3>1, <3>2 DEF a
  <2>2. \A i \in 1 .. n + 1 : i \in 1 .. n \/ i = n + 1
    BY <1>5
  <2>3. \A i \in 1 .. n + 1 : /\ more.index[more.streams[i]] = i
                              /\ positions[more.streams[i]] <= k
    <3> SUFFICES ASSUME NEW i \in 1 .. n + 1
                 PROVE  /\ more.index[more.streams[i]] = i
                        /\ positions[more.streams[i]] <= k
      OBVIOUS
    <3>1. CASE i = n + 1
      BY <1>1, <1>4, <1>7, <1>16, <2>1, <3>1
    <3>2. CASE i \in 1 .. n
      <4> DEFINE r == l.streams[i]
      <4>1. more.streams[i] = r /\ r \in Streams /\ r # s
        BY <1>15, <2>1, <3>2
      <4>2. l.index[r] = i /\ positions[r] <= m
        BY <1>8, <3>2
      <4> HIDE DEF r
      <4> QED
        BY <1>4, <1>7, <4>1, <4>2
    <3> QED
      BY <2>2, <3>1, <3>2
  <2>4. \A r \in marks : positions[r] <= k => /\ more.index[r] \in 1 .. n + 1
                                              /\ more.streams[more.index[r]] = r
    <3> SUFFICES ASSUME NEW r \in marks, positions[r] <= k
                 PROVE  more.index[r] \in 1 .. n + 1 /\ more.streams[more.index[r]] = r
      OBVIOUS
    <3>1. CASE r = s
      BY <1>7, <1>13, <1>16, <2>1, <3>1
    <3>2. CASE r # s
      <4>1. r \in Streams /\ positions[r] <= m
        BY <1>4, <3>2
      <4>2. /\ more.index[r] = l.index[r]
            /\ l.index[r] \in 1 .. n /\ l.streams[l.index[r]] = r
        BY <1>7, <1>8, <3>2, <4>1
      <4> QED
        BY <1>13, <2>1, <4>2
    <3> QED
      BY <3>1, <3>2
  <2>5. /\ \A i \in 1 .. Len(more.streams) : /\ more.index[more.streams[i]] = i
                                            /\ positions[more.streams[i]] <= k
        /\ \A r \in marks : positions[r] <= k => /\ more.index[r] \in 1 .. Len(more.streams)
                                                /\ more.streams[more.index[r]] = r
    BY <2>1, <2>3, <2>4
  <2> QED
    BY <1>11, <1>12, <1>14, <2>5, Zenon DEF KeptOf
<1>17. ASSUME s \notin l.marked
       PROVE  KeptOf(list, positions, marks, k, more)
  <2>1. Len(more.streams) = n /\ more.streams = l.streams
    BY <1>7, <1>17 DEF n
  <2>2. \A i \in 1 .. n : more.index[l.streams[i]] = i /\ positions[l.streams[i]] <= k
    <3> SUFFICES ASSUME NEW i \in 1 .. n
                 PROVE  more.index[l.streams[i]] = i /\ positions[l.streams[i]] <= k
      OBVIOUS
    <3>1. l.streams[i] \in Streams /\ l.streams[i] # s
      BY <1>15
    <3>2. l.index[l.streams[i]] = i /\ positions[l.streams[i]] <= m
      BY <1>8
    <3> QED
      BY <1>4, <1>7, <3>1, <3>2
  <2>3. \A r \in marks : r # s
    BY <1>10, <1>17
  <2>4. \A r \in marks : positions[r] <= k => /\ more.index[r] \in 1 .. n
                                              /\ l.streams[more.index[r]] = r
    BY <1>4, <1>7, <1>8, <2>3
  <2>5. /\ \A i \in 1 .. Len(more.streams) : /\ more.index[more.streams[i]] = i
                                            /\ positions[more.streams[i]] <= k
        /\ \A r \in marks : positions[r] <= k => /\ more.index[r] \in 1 .. Len(more.streams)
                                                /\ more.streams[more.index[r]] = r
    BY <2>1, <2>2, <2>4
  <2> QED
    BY <1>11, <1>12, <1>14, <2>5, Zenon DEF KeptOf
<1>18. KeptOf(list, positions, marks, k, more)
  BY <1>16, <1>17
<1> QED
  BY <1>10, <1>18 DEF more, s

LEMMA NothingIsKeptYet ==
    ASSUME NEW p, NEW list \in Seq(Streams), NEW positions \in [Streams -> Nat],
           NEW marks \in SUBSET Streams, \A r \in marks : positions[r] # 0
    PROVE  /\ Marking(positions, marks) \in MarkedListings(p)
           /\ KeptOf(list, positions, marks, 0, Marking(positions, marks))
<1> DEFINE l == Marking(positions, marks)
<1>1. /\ l.streams = <<>> /\ l.index = positions /\ l.marked = marks /\ Len(<<>>) = 0
      /\ l \in MarkedListings(p)
  BY DEF Marking, MarkedListings
<1> HIDE DEF l
<1>2. \A r \in Streams : /\ positions[r] \in Nat
                         /\ positions[r] > 0 <=> positions[r] # 0
                         /\ positions[r] <= 0 <=> positions[r] = 0
  OBVIOUS
<1>3. KeptOf(list, positions, marks, 0, l)
  BY <1>1, <1>2 DEF KeptOf
<1> QED
  BY <1>1, <1>3 DEF l

\* The events of the loop tell which streams are gone.
LEMMA KeepingInStep ==
    ASSUME NEW st, IsStore(st), NEW p \in Projs, NEW l \in MarkedListings(p), NEW s \in Streams,
           l.index[s] # 0, NamesThem(StreamsShownAfter(st, p, l), l.index)
    PROVE  LET more == KeepIfMarked(p, l, s)
           IN  NamesThem(StreamsShownAfter(st, p, more), more.index)
<1> DEFINE more == KeepIfMarked(p, l, s)
           e == [name |-> "StreamRemoved", project |-> p, stream |-> s]
           mid == HandleAll(st, l.events)
           shown == Project(mid, p).streams
<1>1. KeptOrRemoved(p, l, s, more)
  BY KeepIsTyped
<1> HIDE DEF more
<1>2. /\ l.streams \in Seq(Streams) /\ l.index \in [Streams -> Nat]
      /\ l.events \in Seq(StreamEvents(p)) /\ more.index \in [Streams -> Nat]
  BY <1>1 DEF MarkedListings, KeptOrRemoved
<1>3. e.name = "StreamRemoved" /\ e.project = p /\ e.stream = s
  OBVIOUS
<1>4. s \notin l.marked => more.events = Append(l.events, e)
  BY <1>1 DEF KeptOrRemoved
<1> HIDE DEF e
<1>5. Changes(st, mid, p, {"streams"})
  BY <1>2, StreamLogIs
<1>6. IsStore(mid)
  BY <1>5 DEF Changes
<1>7. Project(mid, p) \in Entities
  BY <1>6, ProjectIsEntity
<1>8. shown \in Seq(Streams)
  BY <1>7 DEF Entities
<1>9. NamesThem(shown, l.index)
  BY DEF StreamsShownAfter
<1>10. CASE s \in l.marked
  <2>1. more.events = l.events
    BY <1>1, <1>10 DEF KeptOrRemoved
  <2>2. more.index[s] # 0
    <3>1. more.index[s] = Len(l.streams) + 1
      BY <1>1, <1>10 DEF KeptOrRemoved
    <3> QED
      BY <1>2, <3>1
  <2>3. \A r \in Streams : more.index[r] # 0 <=> l.index[r] # 0
    BY <1>1, <2>2 DEF KeptOrRemoved
  <2> HIDE DEF shown, mid
  <2>4. NamesThem(shown, more.index)
    BY <1>9, <2>3 DEF NamesThem
  <2> QED
    BY <2>1, <2>4 DEF StreamsShownAfter, more, shown, mid
<1>11. CASE s \notin l.marked
  <2>1. HandleAll(st, more.events) = Handle(mid, e)
    <3> DEFINE log == l.events
               E == StreamEvents(p)
    <3>1. more.events = Append(log, e) /\ mid = HandleAll(st, log)
      BY <1>4, <1>11
    <3>2. log \in Seq(E)
      BY <1>2
    <3> HIDE DEF log, E, mid
    <3>3. HandleAll(st, Append(log, e)) = Handle(HandleAll(st, log), e)
      BY <3>2, OneStreamEventMore DEF E
    <3> QED
      BY <3>1, <3>3
  <2> HIDE DEF mid
  <2>2. Project(Handle(mid, e), p).streams = RemoveFirst(shown, s)
    BY <1>3, <1>6, RemovalHandled
  <2> HIDE DEF shown
  <2>3. \A r \in Streams : more.index[r] # 0 <=> l.index[r] # 0 /\ r # s
    BY <1>1, <1>11 DEF KeptOrRemoved
  <2>4. NamesThem(RemoveFirst(shown, s), more.index)
    <3> DEFINE f == l.index
               g == more.index
    <3>1. /\ NamesThem(shown, f) /\ f[s] # 0
          /\ \A r \in Streams : g[r] # 0 <=> f[r] # 0 /\ r # s
      BY <1>9, <2>3
    <3> HIDE DEF f, g
    <3>2. NamesThem(RemoveFirst(shown, s), g)
      BY <1>8, <3>1, OneNameLess
    <3> QED
      BY <3>2 DEF g
  <2> QED
    BY <2>1, <2>2, <2>4 DEF StreamsShownAfter, more
<1> QED
  BY <1>10, <1>11

\* What is left of a listing that was in order: the streams that were marked.
IsKept(st, p, list, positions, marks, l) ==
    /\ l \in MarkedListings(p)
    /\ IsListing(list, positions) /\ NamesThem(Project(st, p).streams, positions) =>
          InStep(st, p, l) /\ \A r \in Streams : l.index[r] # 0 <=> r \in marks

LEMMA KeptIs ==
    ASSUME NEW st, IsStore(st), NEW p \in Projs, NEW list \in Seq(Streams),
           NEW positions \in [Streams -> Nat], NEW marks \in SUBSET Streams,
           \A r \in marks : positions[r] # 0
    PROVE  IsKept(st, p, list, positions, marks, KeptFrom(p, Marking(positions, marks), list))
<1> DEFINE n == Len(list)
           base == Marking(positions, marks)
           Before == IsListing(list, positions) /\ NamesThem(Project(st, p).streams, positions)
           Fine(l, k) == Before => /\ KeptOf(list, positions, marks, k, l)
                                   /\ NamesThem(StreamsShownAfter(st, p, l), l.index)
           G == [k \in 0 .. n |-> {l \in MarkedListings(p) : Fine(l, k)}]
<1>1. n \in Nat /\ \A i \in 1 .. n : list[i] \in Streams
  OBVIOUS
<1>2. base \in MarkedListings(p) /\ KeptOf(list, positions, marks, 0, base)
  BY NothingIsKeptYet
<1>3. base.events = <<>> /\ base.index = positions
  BY DEF Marking
<1> HIDE DEF base
<1>4. PICK iter : /\ iter[{}] = base
                  /\ \A k \in 1 .. n :
                       iter[1 .. k - 1] \in MarkedListings(p) =>
                          iter[1 .. k] = KeepIfMarked(p, iter[1 .. k - 1], list[k])
                  /\ KeptFrom(p, base, list) = iter[1 .. n]
  BY <1>2, KeptIsRun
<1>5. Before => IsListing(list, positions)
  OBVIOUS
<1>6. iter[{}] \in G[0]
  <2>1. 0 \in 0 .. n
    BY <1>1
  <2>2. HandleAll(st, <<>>) = st
    BY NothingToHandle
  <2>3. Fine(base, 0)
    BY <1>2, <1>3, <2>2 DEF StreamsShownAfter
  <2> HIDE DEF Fine
  <2> QED
    BY <1>2, <1>4, <2>1, <2>3
<1> HIDE DEF Before
<1>7. ASSUME NEW k \in 1 .. n, iter[1 .. k - 1] \in G[k - 1]
      PROVE  iter[1 .. k] \in G[k]
  <2> DEFINE l == iter[1 .. k - 1]
             s == list[k]
             more == KeepIfMarked(p, l, s)
  <2>1. k - 1 \in 0 .. n /\ k \in 0 .. n /\ s \in Streams /\ k \in 1 .. Len(list)
    BY <1>1 DEF n
  <2>2. l \in MarkedListings(p) /\ Fine(l, k - 1)
    <3> HIDE DEF Fine
    <3> QED
      BY <1>7, <2>1
  <2>3. iter[1 .. k] = more
    BY <1>4, <2>2
  <2> HIDE DEF l
  <2>4. more \in MarkedListings(p)
    <3> HIDE DEF s
    <3> QED
      BY <2>1, <2>2, KeepIsTyped DEF KeptOrRemoved
  <2>5. ASSUME Before
        PROVE  /\ KeptOf(list, positions, marks, k, more)
               /\ NamesThem(StreamsShownAfter(st, p, more), more.index)
    <3>1. /\ KeptOf(list, positions, marks, k - 1, l) /\ l \in MarkedListings(p)
          /\ NamesThem(StreamsShownAfter(st, p, l), l.index)
      BY <2>2, <2>5
    <3>2. IsListing(list, positions)
      BY <1>5, <2>5
    <3>3. KeptOf(list, positions, marks, k, KeepIfMarked(p, l, list[k])) /\ l.index[list[k]] # 0
      BY <2>1, <3>1, <3>2, KeepingOneMore
    <3>4. NamesThem(StreamsShownAfter(st, p, more), more.index)
      BY <2>1, <3>1, <3>3, KeepingInStep
    <3> QED
      BY <3>3, <3>4
  <2>6. Fine(more, k)
    BY <2>5
  <2> HIDE DEF Fine, more
  <2> QED
    BY <2>1, <2>3, <2>4, <2>6
<1> HIDE DEF G
<1>8. iter[1 .. n] \in G[n]
  BY <1>1, <1>6, <1>7, RunReaches
<1>9. n \in 0 .. n
  BY <1>1
<1> DEFINE last == iter[1 .. n]
<1>10. last \in MarkedListings(p) /\ Fine(last, n)
  <2> HIDE DEF Fine
  <2> QED
    BY <1>8, <1>9 DEF G
<1> HIDE DEF last
<1>11. ASSUME Before
       PROVE  InStep(st, p, last) /\ \A r \in Streams : last.index[r] # 0 <=> r \in marks
  <2>1. /\ KeptOf(list, positions, marks, n, last)
        /\ NamesThem(StreamsShownAfter(st, p, last), last.index)
    BY <1>10, <1>11
  <2>2. \A r \in Streams : positions[r] <= n
    <3>1. \A r \in Streams : positions[r] # 0 => positions[r] \in 1 .. n
      BY <1>5, <1>11 DEF IsListing, n
    <3>2. \A r \in Streams : positions[r] \in Nat
      OBVIOUS
    <3> QED
      BY <1>1, <3>1, <3>2
  <2>3. \A r \in Streams : last.index[r] # 0 <=> r \in marks
    BY <2>1, <2>2 DEF KeptOf
  <2>4. \A i \in 1 .. Len(last.streams) : last.index[last.streams[i]] = i
    BY <2>1 DEF KeptOf
  <2>5. \A r \in Streams : last.index[r] # 0 =>
           last.index[r] \in 1 .. Len(last.streams) /\ last.streams[last.index[r]] = r
    BY <2>1, <2>2, <2>3 DEF KeptOf
  <2>6. IsListing(last.streams, last.index)
    BY <2>4, <2>5 DEF IsListing
  <2> QED
    BY <2>1, <2>3, <2>6 DEF InStep
<1> QED
  BY <1>4, <1>10, <1>11 DEF last, base, Before, IsKept

\* setStreams: afterwards the streams are those of the list.
LEMMA StreamsAreSet ==
    ASSUME NEW st, IsStore(st), NEW p \in Projs, NEW list \in Seq(Streams),
           streams[p] \in Seq(Streams), index[p] \in [Streams -> Nat]
    PROVE  LET l == WithStreamsSet(p, list)
           IN  /\ l \in Listings(p)
               /\ IsListing(streams[p], index[p]) /\ NamesThem(Project(st, p).streams, index[p]) =>
                     /\ InStep(st, p, l)
                     /\ \A s \in Streams : l.index[s] # 0 <=> \E i \in 1 .. Len(list) : list[i] = s
<1> DEFINE marks == {s \in ToSet(list) : index[p][s] > 0}
           kept == KeptFrom(p, Marking(index[p], marks), streams[p])
           base == [streams |-> kept.streams, index |-> kept.index, events |-> kept.events]
           l == WithStreams(p, base, list)
           Before == IsListing(streams[p], index[p]) /\ NamesThem(Project(st, p).streams, index[p])
<1>1. WithStreamsSet(p, list) = l
  BY DEF WithStreamsSet, KeptFrom, Marking
<1>2. /\ marks \in SUBSET Streams /\ \A r \in marks : index[p][r] # 0
      /\ \A r \in marks : \E i \in 1 .. Len(list) : list[i] = r
  BY DEF ToSet
<1> HIDE DEF marks
<1>3. /\ kept \in MarkedListings(p)
      /\ Before => InStep(st, p, kept) /\ \A r \in Streams : kept.index[r] # 0 <=> r \in marks
  <2> DEFINE some == streams[p]
             positions == index[p]
  <2>1. /\ some \in Seq(Streams) /\ positions \in [Streams -> Nat]
        /\ \A r \in marks : positions[r] # 0
    BY <1>2
  <2> HIDE DEF some, positions
  <2>2. IsKept(st, p, some, positions, marks, kept)
    <3>1. kept = KeptFrom(p, Marking(positions, marks), some)
      BY DEF kept, some, positions
    <3>2. marks \in SUBSET Streams
      BY <1>2
    <3> QED
      BY <2>1, <3>1, <3>2, KeptIs
  <2> QED
    BY <2>2 DEF some, positions, IsKept
<1> HIDE DEF kept
<1>4. base \in Listings(p)
  BY <1>3 DEF MarkedListings, Listings
<1>5. Before => InStep(st, p, base)
  BY <1>3 DEF InStep, StreamsShownAfter
<1>6. base.index = kept.index
  OBVIOUS
<1> HIDE DEF base
<1>7. /\ l \in Listings(p)
      /\ InStep(st, p, base) => InStep(st, p, l)
      /\ \A s \in Streams : l.index[s] # 0 <=> \/ base.index[s] # 0
                                               \/ \E i \in 1 .. Len(list) : list[i] = s
  BY <1>4, WithStreamsIs
<1> HIDE DEF l
<1>8. Before => \A s \in Streams : l.index[s] # 0 <=> \E i \in 1 .. Len(list) : list[i] = s
  <2> HIDE DEF Before
  <2>1. Before => \A s \in Streams : base.index[s] # 0 <=> s \in marks
    BY <1>3, <1>6
  <2> QED
    BY <1>2, <1>7, <2>1
<1>9. Before => InStep(st, p, l)
  BY <1>5, <1>7
<1> QED
  BY <1>1, <1>7, <1>8, <1>9

\* removeStream: the last stream takes the place of the one that goes.
LEMMA LastTakesThePlace ==
    ASSUME NEW list \in Seq(Streams), NEW i \in Nat
    PROVE  LET less == Front(ReplaceAt(list, i, list[Len(list)]))
           IN  /\ less \in Seq(Streams)
               /\ Len(list) > 0 =>
                     /\ Len(less) = Len(list) - 1
                     /\ \A j \in 1 .. Len(list) - 1 :
                          less[j] = IF j = i THEN list[Len(list)] ELSE list[j]
<1> DEFINE n == Len(list)
           last == list[n]
           a == ReplaceAt(list, i, last)
<1>1. n \in Nat /\ list \in [1 .. n -> Streams]
  OBVIOUS
<1>2. n > 0 => last \in Streams
  BY <1>1
<1>3. a = [j \in 1 .. n |-> IF j = i THEN last ELSE list[j]]
  BY <1>1 DEF ReplaceAt
<1> HIDE DEF a, last
<1>4. a \in [1 .. n -> Streams]
  <2>1. CASE n = 0
    BY <1>3, <2>1
  <2>2. CASE n > 0
    BY <1>1, <1>2, <1>3, <2>2
  <2> QED
    BY <1>1, <2>1, <2>2
<1>5. a \in Seq(Streams) /\ Len(a) = n
  <2> HIDE DEF n
  <2> QED
    BY <1>1, <1>4
<1>6. \A j \in 1 .. n - 1 : a[j] \in Streams /\ j \in 1 .. n
  BY <1>1, <1>4
<1>7. 1 \in Int /\ n - 1 \in Int
  BY <1>1
<1> HIDE DEF n
<1>8. /\ SubSeq(a, 1, n - 1) \in Seq(Streams)
      /\ Len(SubSeq(a, 1, n - 1)) = IF 1 <= n - 1 THEN n - 1 - 1 + 1 ELSE 0
      /\ \A j \in 1 .. n - 1 - 1 + 1 : SubSeq(a, 1, n - 1)[j] = a[1 + j - 1]
  BY <1>6, <1>7, SubSeqProperties
<1>9. Front(a) = SubSeq(a, 1, n - 1)
  BY <1>5 DEF Front
<1> DEFINE less == SubSeq(a, 1, n - 1)
<1> HIDE DEF less
<1>10. n > 0 => /\ Len(less) = n - 1
                /\ \A j \in 1 .. n - 1 : less[j] = a[j]
  <2>1. n > 0 => (1 <= n - 1 \/ n - 1 = 0) /\ n - 1 - 1 + 1 = n - 1
    BY <1>1
  <2>2. \A j \in 1 .. n - 1 : j \in 1 .. n - 1 - 1 + 1 /\ 1 + j - 1 = j
    BY <1>1
  <2> QED
    BY <1>1, <1>8, <2>1, <2>2 DEF less
<1>11. \A j \in 1 .. n - 1 : a[j] = IF j = i THEN last ELSE list[j]
  BY <1>3, <1>6
<1> QED
  BY <1>8, <1>9, <1>10, <1>11 DEF less, a, last, n

LEMMA StreamIsRemoved ==
    ASSUME NEW st, IsStore(st), NEW p \in Projs, NEW s \in Streams,
           streams[p] \in Seq(Streams), index[p] \in [Streams -> Nat], index[p][s] > 0
    PROVE  LET l == WithoutStream(p, s)
           IN  /\ l \in Listings(p)
               /\ IsListing(streams[p], index[p]) /\ NamesThem(Project(st, p).streams, index[p]) =>
                     InStep(st, p, l)
<1> DEFINE list == streams[p]
           n == Len(list)
           last == list[n]
           f == index[p]
           i == f[s]
           less == Front(ReplaceAt(list, i, last))
           moved == IF n > 1 THEN [f EXCEPT ![last] = i] ELSE f
           g == [moved EXCEPT ![s] = 0]
           e == [name |-> "StreamRemoved", project |-> p, stream |-> s]
           l == [streams |-> less, index |-> g, events |-> <<e>>]
<1>1. WithoutStream(p, s) = l
  BY DEF WithoutStream
<1>2. /\ list \in Seq(Streams) /\ f \in [Streams -> Nat] /\ i \in Nat /\ i > 0 /\ i = f[s]
      /\ n \in Nat /\ n = Len(list) /\ last = list[n]
      /\ list \in [1 .. n -> Streams]
  OBVIOUS
<1>3. e \in StreamEvents(p) /\ e.name = "StreamRemoved" /\ e.project = p /\ e.stream = s
  BY StreamAddedEvent
<1>4. /\ less \in Seq(Streams)
      /\ n > 0 => /\ Len(less) = n - 1
                  /\ \A j \in 1 .. n - 1 : less[j] = IF j = i THEN last ELSE list[j]
  <2> HIDE DEF list, i
  <2> QED
    BY <1>2, LastTakesThePlace DEF n, last
<1> HIDE DEF list, n, last, i, less, f, e
<1>5. moved \in [Streams -> Nat]
  BY <1>2
<1>6. /\ g \in [Streams -> Nat] /\ g[s] = 0
      /\ \A r \in Streams : r # s => g[r] = moved[r]
  BY <1>5
<1>7. l \in Listings(p)
  <2>1. <<e>> \in Seq(StreamEvents(p))
    BY <1>3
  <2> HIDE DEF g
  <2> QED
    BY <1>4, <1>6, <2>1 DEF Listings
<1>8. ASSUME IsListing(list, f), NamesThem(Project(st, p).streams, f)
      PROVE  InStep(st, p, l)
  <2>1. /\ \A j \in 1 .. n : f[list[j]] = j
        /\ \A r \in Streams : f[r] # 0 => f[r] \in 1 .. n /\ list[f[r]] = r
    BY <1>2, <1>8 DEF IsListing
  <2>2. i \in 1 .. n /\ list[i] = s
    BY <1>2, <2>1
  <2>3. n > 0 /\ n \in 1 .. n /\ last \in Streams /\ f[last] = n
    BY <1>2, <2>1, <2>2
  <2>4. /\ Len(less) = n - 1
        /\ \A j \in 1 .. n - 1 : less[j] = IF j = i THEN last ELSE list[j]
    BY <1>4, <2>3
  <2>5. \A r \in Streams : r # s => g[r] = IF r = last THEN i ELSE f[r]
    <3>1. CASE n > 1
      <4>1. moved = [f EXCEPT ![last] = i]
        BY <3>1
      <4>2. \A r \in Streams : moved[r] = IF r = last THEN i ELSE f[r]
        BY <1>2, <2>3, <4>1
      <4> HIDE DEF g, moved
      <4> QED
        BY <1>6, <4>2
    <3>2. CASE ~(n > 1)
      <4>1. i = 1 /\ n = 1
        BY <1>2, <2>2, <3>2
      <4>2. last = s
        BY <1>2, <2>2, <4>1
      <4> QED
        BY <1>6, <3>2, <4>2
    <3> QED
      BY <3>1, <3>2
  <2>6. last = s <=> i = n
    BY <1>2, <2>2, <2>3
  <2> HIDE DEF g, moved
  <2>7. ASSUME NEW j \in 1 .. n - 1
        PROVE  g[less[j]] = j
    <3>1. j \in 1 .. n /\ j # n
      <4>1. n \in Nat
        BY <1>2
      <4> QED
        BY <4>1
    <3>2. CASE j = i
      <4>1. less[j] = last /\ last # s
        BY <2>4, <2>6, <3>1, <3>2
      <4> QED
        BY <2>3, <2>5, <3>2, <4>1
    <3>3. CASE j # i
      <4>1. less[j] = list[j] /\ list[j] \in Streams /\ f[list[j]] = j
        BY <1>2, <2>1, <2>4, <3>1, <3>3
      <4>2. list[j] # s /\ list[j] # last
        BY <1>2, <2>3, <3>1, <3>3, <4>1
      <4> QED
        BY <2>5, <4>1, <4>2
    <3> QED
      BY <3>2, <3>3
  <2>8. ASSUME NEW r \in Streams, g[r] # 0
        PROVE  g[r] \in 1 .. n - 1 /\ less[g[r]] = r
    <3>1. r # s
      BY <1>6, <2>8
    <3>2. CASE r = last
      <4>1. g[r] = i /\ i # n
        BY <2>5, <2>6, <3>1, <3>2
      <4>2. i \in 1 .. n - 1
        BY <1>2, <2>2, <4>1
      <4> QED
        BY <2>4, <3>2, <4>1, <4>2
    <3>3. CASE r # last
      <4>1. g[r] = f[r]
        BY <2>5, <3>1, <3>3
      <4>2. f[r] \in 1 .. n /\ list[f[r]] = r
        BY <2>1, <2>8, <4>1
      <4>3. f[r] # n /\ f[r] # i
        BY <1>2, <2>2, <3>1, <3>3, <4>2
      <4>4. f[r] \in 1 .. n - 1
        BY <1>2, <4>2, <4>3
      <4> QED
        BY <2>4, <4>1, <4>2, <4>3, <4>4
    <3> QED
      BY <3>2, <3>3
  <2>9. IsListing(less, g)
    BY <2>4, <2>7, <2>8 DEF IsListing
  <2>10. \A r \in Streams : g[r] # 0 <=> f[r] # 0 /\ r # s
    <3>1. i # 0 /\ f[last] # 0
      BY <1>2, <2>3
    <3> QED
      BY <1>6, <2>5, <3>1
  <2>11. HandleAll(st, <<e>>) = Handle(st, e)
    BY OneToHandle
  <2> DEFINE shown == Project(st, p).streams
  <2>12. Project(Handle(st, e), p).streams = RemoveFirst(shown, s)
    BY <1>3, RemovalHandled
  <2>13. shown \in Seq(Streams)
    <3>1. Project(st, p) \in Entities
      BY ProjectIsEntity
    <3> QED
      BY <3>1 DEF Entities
  <2>14. NamesThem(shown, f) /\ f[s] # 0
    BY <1>2, <1>8
  <2> HIDE DEF shown
  <2>15. NamesThem(RemoveFirst(shown, s), g)
    BY <2>10, <2>13, <2>14, OneNameLess
  <2> QED
    BY <2>9, <2>11, <2>12, <2>15 DEF InStep, StreamsShownAfter
<1> HIDE DEF l
<1> QED
  BY <1>1, <1>7, <1>8 DEF list, f

-----------------------------------------------------------------------------
(* The permissions *)

\* From 0 to n, one by one.
LEMMA StepByStep ==
    ASSUME NEW n \in Nat, NEW T, 0 \in T, \A k \in 1 .. n : k - 1 \in T => k \in T
    PROVE  n \in T
<1> DEFINE U == {k \in 1 .. n : k \in T}
<1>1. CASE n = 0
  BY <1>1
<1>2. CASE n > 0
  <2>1. 1 \in U
    <3>1. 1 \in 1 .. n /\ 1 - 1 = 0
      BY <1>2
    <3> QED
      BY <3>1
  <2>2. ASSUME NEW i \in 1 .. n, i < n, i \in U
        PROVE  i + 1 \in U
    <3>1. i + 1 \in 1 .. n /\ (i + 1) - 1 = i
      BY <2>2
    <3> QED
      BY <2>2, <3>1
  <2> HIDE DEF U
  <2>3. 1 .. n \subseteq U
    BY <2>1, <2>2, IntervalInduction
  <2>4. n \in U
    BY <1>2, <2>3
  <2> QED
    BY <2>4 DEF U
<1> QED
  BY <1>1, <1>2

\* Values that are saved under their keys one after the other: there is a function that
\* FoldLeft can choose.
SavesOnSets(g, base, keys, values, n) ==
    /\ g = [s \in SUBSET (1 .. n) |-> g[s]]
    /\ \A s \in SUBSET (1 .. n) :
         g[s] = IF s = {} THEN base
                ELSE Save(g[s \ {Max(s)}], keys[Max(s)], values[Max(s)])

LEMMA SavesInTurn ==
    ASSUME NEW n \in Nat, NEW base, NEW keys, NEW values
    PROVE  \E g : SavesOnSets(g, base, keys, values, n)
<1> DEFINE Step(h, s) == IF s = {} THEN base
                         ELSE Save(h[s \ {Max(s)}], keys[Max(s)], values[Max(s)])
           RunTo(h, k) == [s \in SUBSET (1 .. k) |-> Step(h, s)]
           T == {k \in 0 .. n : \E h : h = RunTo(h, k)}
<1>1. 0 \in T
  <2> DEFINE g == [s \in SUBSET (1 .. 0) |-> base]
  <2>1. \A s \in SUBSET (1 .. 0) : s = {}
    OBVIOUS
  <2>2. g = RunTo(g, 0)
    BY <2>1
  <2>3. 0 \in 0 .. n
    OBVIOUS
  <2> HIDE DEF RunTo
  <2> QED
    BY <2>2, <2>3
<1>2. ASSUME NEW k \in 1 .. n, k - 1 \in T
      PROVE  k \in T
  <2>1. PICK g : g = RunTo(g, k - 1)
    <3> HIDE DEF RunTo
    <3> QED
      BY <1>2
  <2> DEFINE h == [s \in SUBSET (1 .. k) |->
                     IF k \in s THEN Save(g[s \ {k}], keys[k], values[k]) ELSE g[s]]
  <2>2. \A s \in SUBSET (1 .. k - 1) : g[s] = Step(g, s)
    <3> HIDE DEF Step
    <3> QED
      BY <2>1
  <2>3. ASSUME NEW s \in SUBSET (1 .. k)
        PROVE  h[s] = Step(h, s)
    <3>1. CASE k \in s
      <4>1. Max(s) = k
        <5>1. s \in SUBSET Int /\ \A x \in s : x <= k
          OBVIOUS
        <5> QED
          BY <5>1, <3>1, MaxIs
      <4>2. h[s \ {k}] = g[s \ {k}]
        OBVIOUS
      <4> QED
        BY <3>1, <4>1, <4>2
    <3>2. CASE k \notin s
      <4>1. s \in SUBSET (1 .. k - 1)
        BY <3>2
      <4>2. h[s] = g[s] /\ h[s \ {Max(s)}] = g[s \ {Max(s)}]
        BY <3>2
      <4> HIDE DEF h
      <4> QED
        BY <2>2, <4>1, <4>2
    <3> QED
      BY <3>1, <3>2
  <2> HIDE DEF Step
  <2>4. h = RunTo(h, k)
    BY <2>3
  <2>5. k \in 0 .. n
    OBVIOUS
  <2> HIDE DEF RunTo
  <2> QED
    BY <2>4, <2>5
<1> HIDE DEF T
<1>3. n \in T
  BY <1>1, <1>2, StepByStep
<1>4. PICK g : g = RunTo(g, n)
  <2> HIDE DEF RunTo
  <2> QED
    BY <1>3 DEF T
<1>5. \A s \in SUBSET (1 .. n) : g[s] = Step(g, s)
  <2> HIDE DEF Step
  <2> QED
    BY <1>4
<1>6. g = [s \in SUBSET (1 .. n) |-> g[s]]
  <2> HIDE DEF Step
  <2> QED
    BY <1>4
<1>7. SavesOnSets(g, base, keys, values, n)
  BY <1>5, <1>6 DEF SavesOnSets
<1> QED
  BY <1>7

\* keys[k] gets values[k], for k from 1 to n.
IsSaving(base, keys, values, n, iter) ==
    /\ iter[{}] = base
    /\ \A k \in 1 .. n : iter[1 .. k] = Save(iter[1 .. k - 1], keys[k], values[k])

LEMMA SavedOneByOne ==
    ASSUME NEW n \in Nat, NEW base, NEW keys, NEW values, NEW g,
           \A s \in SUBSET (1 .. n) :
              g[s] = IF s = {} THEN base
                     ELSE Save(g[s \ {Max(s)}], keys[Max(s)], values[Max(s)])
    PROVE  IsSaving(base, keys, values, n, g)
<1>1. ASSUME NEW k \in 1 .. n
      PROVE  g[1 .. k] = Save(g[1 .. k - 1], keys[k], values[k])
  <2>1. Max(1 .. k) = k /\ (1 .. k) \ {k} = 1 .. k - 1 /\ 1 .. k # {}
    <3>1. k \in Nat /\ k > 0
      OBVIOUS
    <3> QED
      BY <3>1, LastOfInterval
  <2>2. 1 .. k \in SUBSET (1 .. n)
    OBVIOUS
  <2>3. g[1 .. k] = IF 1 .. k = {} THEN base
                    ELSE Save(g[(1 .. k) \ {Max(1 .. k)}], keys[Max(1 .. k)],
                              values[Max(1 .. k)])
    BY <2>2
  <2> QED
    BY <2>1, <2>3
<1>2. g[{}] = base
  OBVIOUS
<1> QED
  BY <1>1, <1>2 DEF IsSaving

\* _setPermissionBooleans, for one user after the other
AddressKeys(p, users, n) == [i \in 1 .. n |-> AddressKey(p, users[i])]
SavedFor(p, base, users, rightsOf) ==
    FoldLeft(LAMBDA ps, i : Save(ps, AddressKey(p, users[i]), rightsOf[i]), base,
             [i \in DOMAIN users |-> i])

LEMMA PermissionsAreSaved ==
    ASSUME NEW p, NEW base, NEW users, NEW rightsOf, NEW n \in Nat, DOMAIN users = 1 .. n
    PROVE  \E iter :
              /\ IsSaving(base, AddressKeys(p, users, n), rightsOf, n, iter)
              /\ SavedFor(p, base, users, rightsOf) = iter[1 .. n]
<1> DEFINE keys == [i \in 1 .. n |-> AddressKey(p, users[i])]
           seq == [i \in DOMAIN users |-> i]
           Step(h, s) == IF s = {} THEN base
                         ELSE Save(h[s \ {Max(s)}], AddressKey(p, users[seq[Max(s)]]),
                                   rightsOf[seq[Max(s)]])
           Run(h) == [s \in SUBSET (1 .. n) |-> Step(h, s)]
           iter == CHOOSE h : h = Run(h)
           result == FoldLeft(LAMBDA ps, i : Save(ps, AddressKey(p, users[i]), rightsOf[i]),
                              base, seq)
<1>1. DOMAIN seq = 1 .. n /\ \A i \in 1 .. n : seq[i] = i
  OBVIOUS
<1> HIDE DEF seq
<1>2. result = iter[1 .. n]
  BY <1>1 DEF FoldLeft, MapThenFoldSet
<1> HIDE DEF result
<1>3. PICK g : SavesOnSets(g, base, keys, rightsOf, n)
  <2> HIDE DEF keys
  <2> QED
    BY SavesInTurn
<1>4. ASSUME NEW h, NEW s \in SUBSET (1 .. n)
      PROVE  Step(h, s) = IF s = {} THEN base
                          ELSE Save(h[s \ {Max(s)}], keys[Max(s)], rightsOf[Max(s)])
  <2>1. CASE s = {}
    BY <2>1
  <2>2. CASE s # {}
    <3>1. Max(s) \in 1 .. n
      BY <2>2, MaxInSet
    <3>2. seq[Max(s)] = Max(s) /\ keys[Max(s)] = AddressKey(p, users[Max(s)])
      BY <1>1, <3>1
    <3> HIDE DEF keys
    <3> QED
      BY <2>2, <3>2
  <2> QED
    BY <2>1, <2>2
<1> HIDE DEF keys, Step
<1>5. g = Run(g)
  BY <1>3, <1>4 DEF SavesOnSets
<1>6. iter = Run(iter)
  <2> HIDE DEF Run
  <2> QED
    BY <1>5
<1> HIDE DEF iter
<1>7. \A s \in SUBSET (1 .. n) : iter[s] = Step(iter, s)
  BY <1>6
<1>8. \A s \in SUBSET (1 .. n) :
         iter[s] = IF s = {} THEN base
                   ELSE Save(iter[s \ {Max(s)}], keys[Max(s)], rightsOf[Max(s)])
  BY <1>4, <1>7
<1>9. IsSaving(base, keys, rightsOf, n, iter)
  BY <1>8, SavedOneByOne
<1> QED
  BY <1>2, <1>9 DEF keys, result, seq, SavedFor, AddressKeys

\* createProject: what the owners get
GivenTo(base, owners) == FoldLeft(LAMBDA ps, u : Save(ps, <<1, u>>, Rights), base, owners)

LEMMA OwnersAreSaved ==
    ASSUME NEW base, NEW owners, NEW n \in Nat, DOMAIN owners = 1 .. n
    PROVE  \E iter :
              /\ IsSaving(base, [i \in 1 .. n |-> <<1, owners[i]>>], [i \in 1 .. n |-> Rights],
                          n, iter)
              /\ GivenTo(base, owners) = iter[1 .. n]
<1> DEFINE keys == [i \in 1 .. n |-> <<1, owners[i]>>]
           values == [i \in 1 .. n |-> Rights]
           Step(h, s) == IF s = {} THEN base
                         ELSE Save(h[s \ {Max(s)}], <<1, owners[Max(s)]>>, Rights)
           Run(h) == [s \in SUBSET (1 .. n) |-> Step(h, s)]
           iter == CHOOSE h : h = Run(h)
           result == FoldLeft(LAMBDA ps, u : Save(ps, <<1, u>>, Rights), base, owners)
<1>2. result = iter[1 .. n]
  BY DEF FoldLeft, MapThenFoldSet
<1> HIDE DEF result
<1>3. PICK g : SavesOnSets(g, base, keys, values, n)
  <2> HIDE DEF keys, values
  <2> QED
    BY SavesInTurn
<1>4. ASSUME NEW h, NEW s \in SUBSET (1 .. n)
      PROVE  Step(h, s) = IF s = {} THEN base
                          ELSE Save(h[s \ {Max(s)}], keys[Max(s)], values[Max(s)])
  <2>1. CASE s = {}
    BY <2>1
  <2>2. CASE s # {}
    <3>1. Max(s) \in 1 .. n
      BY <2>2, MaxInSet
    <3>2. keys[Max(s)] = <<1, owners[Max(s)]>> /\ values[Max(s)] = Rights
      BY <3>1
    <3> HIDE DEF keys, values
    <3> QED
      BY <2>2, <3>2
  <2> QED
    BY <2>1, <2>2
<1> HIDE DEF keys, values, Step
<1>5. g = Run(g)
  BY <1>3, <1>4 DEF SavesOnSets
<1>6. iter = Run(iter)
  <2> HIDE DEF Run
  <2> QED
    BY <1>5
<1> HIDE DEF iter
<1>7. \A s \in SUBSET (1 .. n) : iter[s] = Step(iter, s)
  BY <1>6
<1>8. \A s \in SUBSET (1 .. n) :
         iter[s] = IF s = {} THEN base
                   ELSE Save(iter[s \ {Max(s)}], keys[Max(s)], values[Max(s)])
  BY <1>4, <1>7
<1>9. IsSaving(base, keys, values, n, iter)
  BY <1>8, SavedOneByOne
<1> QED
  BY <1>2, <1>9 DEF keys, values, result, GivenTo

\* What is saved for a user is what the event tells.
LEMMA RightsSaved ==
    ASSUME NEW st, NEW t, NEW p, NEW keys, NEW u, NEW r, RightsOK(st, p, keys, 1),
           Project(t, p).permissions = Project(st, p).permissions \cup {u},
           t.permissions = Save(st.permissions, <<p, u>>, r)
    PROVE  RightsOK(t, p, Save(keys, <<1, u>>, r), 1)
<1> DEFINE more == Save(keys, <<1, u>>, r)
           shown == Project(st, p).permissions
<1>1. /\ DOMAIN t.permissions = DOMAIN st.permissions \cup {<<p, u>>}
      /\ t.permissions[<<p, u>>] = r
      /\ \A x \in DOMAIN st.permissions : x # <<p, u>> => t.permissions[x] = st.permissions[x]
  BY DEF Save
<1>2. /\ DOMAIN more = DOMAIN keys \cup {<<1, u>>} /\ more[<<1, u>>] = r
      /\ \A x \in DOMAIN keys : x # <<1, u>> => more[x] = keys[x]
  BY DEF Save
<1> HIDE DEF more
<1>3. ASSUME NEW user \in Targets
      PROVE  /\ RightsAt(more, 1, user) = RightsShown(t, p, user)
             /\ user \in Project(t, p).permissions => <<p, user>> \in DOMAIN t.permissions
  <2>1. /\ RightsAt(keys, 1, user) = RightsShown(st, p, user)
        /\ user \in shown => <<p, user>> \in DOMAIN st.permissions
    BY DEF RightsOK
  <2>2. CASE user = u
    <3>1. RightsAt(more, 1, user) = r
      BY <1>2, <2>2 DEF RightsAt
    <3>2. RightsShown(t, p, user) = r
      BY <1>1, <2>2 DEF RightsShown
    <3> QED
      BY <1>1, <2>2, <3>1, <3>2
  <2>3. CASE user # u
    <3>1. <<1, user>> # <<1, u>> /\ <<p, user>> # <<p, u>>
      BY <2>3
    <3>2. RightsAt(more, 1, user) = RightsAt(keys, 1, user)
      BY <1>2, <3>1 DEF RightsAt
    <3>3. user \in Project(t, p).permissions <=> user \in shown
      BY <2>3
    <3>4. RightsShown(t, p, user) = RightsShown(st, p, user)
      BY <1>1, <2>1, <3>1, <3>3 DEF RightsShown
    <3> QED
      BY <1>1, <2>1, <3>2, <3>3, <3>4
  <2> QED
    BY <2>2, <2>3
<1> QED
  BY <1>3 DEF RightsOK, more

\* No user has a key of the version of projects that exist.
NoKeys(keys) == \A user \in Targets : <<1, user>> \notin DOMAIN keys

\* The permissions of users, one after the other, and the events that tell
RightsSet(p, version, base, users, rightsOf, n, iter, log) ==
    /\ n \in Nat /\ version \in Nat
    /\ \A i \in 1 .. n : users[i] \in Targets
    /\ IsSaving(base, [i \in 1 .. n |-> <<version, users[i]>>], rightsOf, n, iter)
    /\ DOMAIN log = 1 .. n
    /\ \A i \in 1 .. n : log[i] = PermissionEvent(p, users[i], rightsOf[i])

\* t shows the permissions last, as st showed base, unless the project is not there yet.
RightsFollow(st, t, p, version, base, last) ==
    /\ Changes(st, t, p, {"permissions"})
    /\ version = 1 /\ RightsOK(st, p, base, 1) => RightsOK(t, p, last, 1)
    /\ version = 0 /\ NoKeys(base) => NoKeys(last)

\* The events tell what was saved for the users.
LEMMA RightsAreLogged ==
    ASSUME NEW st, IsStore(st), NEW p \in Projs, NEW n, NEW users, NEW rightsOf,
           NEW version, NEW base, NEW iter, NEW log,
           RightsSet(p, version, base, users, rightsOf, n, iter, log)
    PROVE  RightsFollow(st, HandleAll(st, log), p, version, base, iter[1 .. n])
<1> DEFINE keys == [i \in 1 .. n |-> <<version, users[i]>>]
<1>1. /\ n \in Nat /\ version \in Nat
      /\ DOMAIN log = 1 .. n /\ IsSaving(base, keys, rightsOf, n, iter)
      /\ \A i \in 1 .. n : /\ users[i] \in Targets
                            /\ log[i] = PermissionEvent(p, users[i], rightsOf[i])
  BY DEF RightsSet
<1>2. \A i \in 1 .. n : keys[i] = <<version, users[i]>>
  OBVIOUS
<1> HIDE DEF keys
<1>3. PICK h : IsReading(st, log, n, h) /\ HandleAll(st, log) = h[1 .. n]
  BY <1>1, LogIsRead
<1> DEFINE Good(k) ==
             /\ Changes(st, h[1 .. k], p, {"permissions"})
             /\ version = 1 /\ RightsOK(st, p, base, 1) => RightsOK(h[1 .. k], p, iter[1 .. k], 1)
             /\ version = 0 /\ NoKeys(base) => NoKeys(iter[1 .. k])
           T == {k \in 0 .. n : Good(k)}
<1>4. 0 \in T
  <2>1. 1 .. 0 = {} /\ 0 \in 0 .. n
    BY <1>1
  <2>2. h[1 .. 0] = st /\ iter[1 .. 0] = base
    BY <1>1, <1>3, <2>1 DEF IsReading, IsSaving
  <2>3. Good(0)
    BY <2>2, NothingChanges
  <2> HIDE DEF Good
  <2> QED
    BY <2>1, <2>3
<1>5. ASSUME NEW k \in 1 .. n, k - 1 \in T
      PROVE  k \in T
  <2> DEFINE old == h[1 .. k - 1]
             e == log[k]
             u == users[k]
             r == rightsOf[k]
             new == Handle(old, e)
             was == iter[1 .. k - 1]
  <2>1. Good(k - 1)
    <3> HIDE DEF Good
    <3> QED
      BY <1>5
  <2>2. /\ Changes(st, old, p, {"permissions"})
        /\ version = 1 /\ RightsOK(st, p, base, 1) => RightsOK(old, p, was, 1)
        /\ version = 0 /\ NoKeys(base) => NoKeys(was)
    BY <2>1
  <2>3. IsStore(old)
    BY <2>2 DEF Changes
  <2>4. /\ e.name = "PermissionUpdated" /\ e.project = p /\ e.user = u
        /\ e.permission = r /\ u \in Targets
    BY <1>1 DEF PermissionEvent
  <2>5. h[1 .. k] = new /\ iter[1 .. k] = Save(was, <<version, u>>, r)
    BY <1>1, <1>2, <1>3 DEF IsReading, IsSaving
  <2> HIDE DEF old, e, u, r, was
  <2>6. /\ Changes(old, new, p, {"permissions"}) /\ p \in DOMAIN new.projects
        /\ Project(new, p).permissions = Project(old, p).permissions \cup {u}
        /\ new.permissions = Save(old.permissions, <<p, u>>, r)
    BY <2>3, <2>4, PermissionHandled
  <2> HIDE DEF new
  <2>7. Changes(st, new, p, {"permissions"})
    <3>1. Changes(st, new, p, {"permissions"} \cup {"permissions"})
      BY <2>2, <2>6, ChangesChain
    <3>2. {"permissions"} \cup {"permissions"} = {"permissions"}
      OBVIOUS
    <3> QED
      BY <3>1, <3>2
  <2>8. ASSUME version = 1, RightsOK(st, p, base, 1)
        PROVE  RightsOK(new, p, iter[1 .. k], 1)
    <3>1. RightsOK(new, p, Save(was, <<1, u>>, r), 1)
      BY <2>2, <2>6, <2>8, RightsSaved
    <3> QED
      BY <2>5, <2>8, <3>1
  <2>9. ASSUME version = 0, NoKeys(base)
        PROVE  NoKeys(iter[1 .. k])
    <3>1. DOMAIN iter[1 .. k] = DOMAIN was \cup {<<0, u>>}
      BY <2>5, <2>9 DEF Save
    <3>2. \A user \in Targets : <<1, user>> # <<0, u>>
      OBVIOUS
    <3> QED
      BY <2>2, <2>9, <3>1, <3>2 DEF NoKeys
  <2>10. Good(k)
    BY <2>5, <2>7, <2>8, <2>9
  <2> HIDE DEF Good
  <2> QED
    BY <2>10
<1> HIDE DEF T
<1>6. n \in T
  BY <1>1, <1>4, <1>5, StepByStep
<1>7. Good(n)
  <2> HIDE DEF Good
  <2> QED
    BY <1>6 DEF T
<1> QED
  BY <1>3, <1>7 DEF RightsFollow

-----------------------------------------------------------------------------
(* The payment details *)

\* SetToSeq names every element of a finite set.
LEMMA AllAreNamed ==
    ASSUME NEW S, IsFiniteSet(S)
    PROVE  /\ Cardinality(S) \in Nat
           /\ \A i \in 1 .. Cardinality(S) : SetToSeq(S)[i] \in S
           /\ \A d \in S : \E i \in 1 .. Cardinality(S) : SetToSeq(S)[i] = d
<1> DEFINE n == Cardinality(S)
           list == SetToSeq(S)
<1>1. n \in Nat /\ ExistsBijection(1 .. n, S)
  BY FS_CardinalityType
<1> HIDE DEF n
<1>2. \E f \in [1 .. n -> S] : IsInjective(f)
  BY <1>1 DEF ExistsBijection, Bijection, Injection
<1>3. list \in [1 .. n -> S] /\ IsInjective(list)
  BY <1>2 DEF SetToSeq, n
<1> HIDE DEF list
<1>4. list \in Injection(1 .. n, S)
  BY <1>3 DEF Injection
<1>5. Cardinality(1 .. n) = n
  <2>1. 1 \in Int /\ n \in Int
    BY <1>1
  <2>2. Cardinality(1 .. n) = IF 1 > n THEN 0 ELSE n - 1 + 1
    BY <2>1, FS_Interval
  <2> QED
    BY <1>1, <2>2
<1>6. Cardinality(1 .. n) = Cardinality(S) <=> list \in Surjection(1 .. n, S)
  BY <1>4, FS_Injection
<1>7. list \in Surjection(1 .. n, S)
  BY <1>5, <1>6 DEF n
<1> QED
  BY <1>1, <1>3, <1>7 DEF Surjection, n, list

\* What is shown for domain d.
ShowsPayment(st, p, d, price) ==
    /\ d \in Project(st, p).payments /\ <<p, d>> \in DOMAIN st.payments
    /\ st.payments[<<p, d>>] = price

LEMMA PaymentSaved ==
    ASSUME NEW st, NEW t, NEW p, NEW d, NEW price,
           Project(t, p).payments = Project(st, p).payments \cup {d},
           t.payments = Save(st.payments, <<p, d>>, price)
    PROVE  /\ ShowsPayment(t, p, d, price)
           /\ \A e, other : e # d /\ ShowsPayment(st, p, e, other) => ShowsPayment(t, p, e, other)
<1>1. /\ DOMAIN t.payments = DOMAIN st.payments \cup {<<p, d>>}
      /\ t.payments[<<p, d>>] = price
      /\ \A x \in DOMAIN st.payments : x # <<p, d>> => t.payments[x] = st.payments[x]
  BY DEF Save
<1>2. \A e : e # d => <<p, e>> # <<p, d>>
  OBVIOUS
<1> QED
  BY <1>1, <1>2 DEF ShowsPayment

\* The payment details of a call are shown, in whatever order their events come, and
\* the others stay.
LEMMA PaymentsAreLogged ==
    ASSUME NEW st, IsStore(st), NEW p \in Projs, NEW details, DOMAIN details \subseteq Domains
    PROVE  LET t == HandleAll(st, PaymentEvents(p, details))
           IN  /\ Changes(st, t, p, {"payments"})
               /\ \A d \in DOMAIN details : ShowsPayment(t, p, d, details[d])
               /\ \A d, price : d \notin DOMAIN details /\ ShowsPayment(st, p, d, price) =>
                     ShowsPayment(t, p, d, price)
<1> DEFINE D == DOMAIN details
           n == Cardinality(D)
           list == SetToSeq(D)
           log == PaymentEvents(p, details)
<1>1. IsFiniteSet(D)
  BY ProjectsAssumption, FS_Subset
<1> HIDE DEF D
<1>2. /\ n \in Nat /\ \A i \in 1 .. n : list[i] \in D
      /\ \A d \in D : \E i \in 1 .. n : list[i] = d
  BY <1>1, AllAreNamed
<1>3. /\ DOMAIN log = 1 .. n
      /\ \A i \in 1 .. n : log[i] = [name |-> "PaymentDetailsByChainUpdated", project |-> p,
                                     domain |-> list[i], price |-> details[list[i]]]
  BY DEF PaymentEvents, D
<1> HIDE DEF n, list, log
<1>4. PICK h : IsReading(st, log, n, h) /\ HandleAll(st, log) = h[1 .. n]
  BY <1>2, <1>3, LogIsRead
<1> DEFINE Good(k) ==
             /\ Changes(st, h[1 .. k], p, {"payments"})
             /\ \A i \in 1 .. k : ShowsPayment(h[1 .. k], p, list[i], details[list[i]])
             /\ \A d, price : d \notin D /\ ShowsPayment(st, p, d, price) =>
                   ShowsPayment(h[1 .. k], p, d, price)
           T == {k \in 0 .. n : Good(k)}
<1>5. 0 \in T
  <2>1. 1 .. 0 = {} /\ 0 \in 0 .. n
    BY <1>2
  <2>2. h[1 .. 0] = st
    BY <1>4, <2>1 DEF IsReading
  <2>3. Good(0)
    BY <2>1, <2>2, NothingChanges
  <2> HIDE DEF Good
  <2> QED
    BY <2>1, <2>3
<1>6. ASSUME NEW k \in 1 .. n, k - 1 \in T
      PROVE  k \in T
  <2> DEFINE old == h[1 .. k - 1]
             e == log[k]
             c == list[k]
             new == Handle(old, e)
  <2>1. Good(k - 1) /\ k \in 0 .. n
    <3> HIDE DEF Good
    <3> QED
      BY <1>2, <1>6
  <2>2. /\ Changes(st, old, p, {"payments"})
        /\ \A i \in 1 .. k - 1 : ShowsPayment(old, p, list[i], details[list[i]])
        /\ \A d, price : d \notin D /\ ShowsPayment(st, p, d, price) =>
              ShowsPayment(old, p, d, price)
    BY <2>1
  <2>3. IsStore(old)
    BY <2>2 DEF Changes
  <2>4. /\ e.name = "PaymentDetailsByChainUpdated" /\ e.project = p /\ e.domain = c
        /\ e.price = details[c] /\ c \in D
    BY <1>2, <1>3
  <2>5. h[1 .. k] = new
    BY <1>4 DEF IsReading
  <2>6. c \in Domains
    BY <2>4 DEF D
  <2> HIDE DEF old, e, c
  <2>7. /\ Changes(old, new, p, {"payments"}) /\ p \in DOMAIN new.projects
        /\ Project(new, p).payments = Project(old, p).payments \cup {c}
        /\ new.payments = Save(old.payments, <<p, c>>, details[c])
    BY <2>3, <2>4, <2>6, PaymentHandled
  <2> HIDE DEF new
  <2>8. Changes(st, new, p, {"payments"})
    <3>1. Changes(st, new, p, {"payments"} \cup {"payments"})
      BY <2>2, <2>7, ChangesChain
    <3>2. {"payments"} \cup {"payments"} = {"payments"}
      OBVIOUS
    <3> QED
      BY <3>1, <3>2
  <2>9. /\ ShowsPayment(new, p, c, details[c])
        /\ \A d, price : d # c /\ ShowsPayment(old, p, d, price) => ShowsPayment(new, p, d, price)
    BY <2>7, PaymentSaved
  <2>10. ASSUME NEW i \in 1 .. k
         PROVE  ShowsPayment(new, p, list[i], details[list[i]])
    <3>1. CASE list[i] = c
      BY <2>9, <3>1
    <3>2. CASE list[i] # c
      <4>1. i # k
        BY <3>2 DEF c
      <4>2. i \in 1 .. k - 1
        BY <1>2, <4>1
      <4> QED
        BY <2>2, <2>9, <3>2, <4>2
    <3> QED
      BY <3>1, <3>2
  <2>11. \A d, price : d \notin D /\ ShowsPayment(st, p, d, price) => ShowsPayment(new, p, d, price)
    BY <2>2, <2>4, <2>9
  <2>12. Good(k)
    BY <2>5, <2>8, <2>10, <2>11
  <2> HIDE DEF Good
  <2> QED
    BY <2>1, <2>12
<1> HIDE DEF T
<1>7. n \in T
  BY <1>2, <1>5, <1>6, StepByStep
<1>8. Good(n)
  <2> HIDE DEF Good
  <2> QED
    BY <1>7 DEF T
<1>9. \A d \in D : ShowsPayment(h[1 .. n], p, d, details[d])
  BY <1>2, <1>8
<1> QED
  BY <1>4, <1>8, <1>9 DEF D, log

-----------------------------------------------------------------------------
(* What stays right *)

LEMMA StreamsStay ==
    ASSUME NEW st, NEW t, NEW p, NEW parts, Changes(st, t, p, parts), "streams" \notin parts,
           NEW c, NEW d, d.streams = c.streams, d.index = c.index, d.repeated = c.repeated,
           StreamsOK(st, p, c)
    PROVE  StreamsOK(t, p, d)
<1>1. Project(t, p).streams = Project(st, p).streams
  BY DEF Changes, EntityFields
<1> QED
  BY <1>1 DEF StreamsOK

LEMMA RightsStay ==
    ASSUME NEW st, NEW t, NEW p, NEW parts, Changes(st, t, p, parts),
           "permissions" \notin parts, NEW keys, RightsOK(st, p, keys, 1)
    PROVE  RightsOK(t, p, keys, 1)
<1>1. /\ Project(t, p).permissions = Project(st, p).permissions
      /\ SameEntries(st.permissions, t.permissions, p)
  BY DEF Changes, EntityFields
<1>2. ASSUME NEW user \in Targets
      PROVE  /\ RightsAt(keys, 1, user) = RightsShown(t, p, user)
             /\ user \in Project(t, p).permissions => <<p, user>> \in DOMAIN t.permissions
  <2>1. /\ RightsAt(keys, 1, user) = RightsShown(st, p, user)
        /\ user \in Project(st, p).permissions => <<p, user>> \in DOMAIN st.permissions
    BY DEF RightsOK
  <2>2. user \in Project(st, p).permissions =>
           /\ <<p, user>> \in DOMAIN t.permissions
           /\ t.permissions[<<p, user>>] = st.permissions[<<p, user>>]
    BY <1>1, <2>1 DEF SameEntries
  <2>3. RightsShown(t, p, user) = RightsShown(st, p, user)
    BY <1>1, <2>2 DEF RightsShown
  <2> QED
    BY <1>1, <2>1, <2>2, <2>3
<1> QED
  BY <1>2 DEF RightsOK

LEMMA SubscriptionsStay ==
    ASSUME NEW st, NEW t, NEW p, NEW parts, Changes(st, t, p, parts),
           "subscriptions" \notin parts, NEW c, NEW d, d.subscriptions = c.subscriptions,
           SubscriptionsOK(st, p, c)
    PROVE  SubscriptionsOK(t, p, d)
<1>1. /\ Project(t, p).subscriptions = Project(st, p).subscriptions
      /\ SameEntries(st.subscriptions, t.subscriptions, p)
  BY DEF Changes, EntityFields
<1>2. ASSUME NEW user \in Users
      PROVE  /\ d.subscriptions[user] = IF user \in Project(t, p).subscriptions
                                        THEN t.subscriptions[<<p, user>>] ELSE 0
             /\ user \in Project(t, p).subscriptions =>
                   <<p, user>> \in DOMAIN t.subscriptions
  <2>1. /\ c.subscriptions[user] = IF user \in Project(st, p).subscriptions
                                   THEN st.subscriptions[<<p, user>>] ELSE 0
        /\ user \in Project(st, p).subscriptions => <<p, user>> \in DOMAIN st.subscriptions
    BY DEF SubscriptionsOK
  <2>2. user \in Project(st, p).subscriptions =>
           /\ <<p, user>> \in DOMAIN t.subscriptions
           /\ t.subscriptions[<<p, user>>] = st.subscriptions[<<p, user>>]
    BY <1>1, <2>1 DEF SameEntries
  <2> QED
    BY <1>1, <2>1, <2>2
<1> QED
  BY <1>2 DEF SubscriptionsOK

LEMMA PaymentsStay ==
    ASSUME NEW st, NEW t, NEW p, NEW parts, Changes(st, t, p, parts), "payments" \notin parts,
           NEW details, PaymentsOK(st, p, details)
    PROVE  PaymentsOK(t, p, details)
<1>1. /\ Project(t, p).payments = Project(st, p).payments
      /\ SameEntries(st.payments, t.payments, p)
  BY DEF Changes, EntityFields
<1> QED
  BY <1>1 DEF PaymentsOK, SameEntries

LEMMA PurchasesStay ==
    ASSUME NEW st, NEW t, NEW p, NEW parts, Changes(st, t, p, parts),
           "purchases" \notin parts, "counter" \notin parts,
           NEW c, NEW d, d.bought = c.bought, PurchasesOK(st, p, c)
    PROVE  PurchasesOK(t, p, d)
<1>1. /\ Project(t, p).purchases = Project(st, p).purchases
      /\ Project(t, p).counter = Project(st, p).counter
  BY DEF Changes, EntityFields
<1> QED
  BY <1>1 DEF PurchasesOK

LEMMA FreshStays ==
    ASSUME NEW st, NEW t, NEW p, NEW parts, Changes(st, t, p, parts),
           "purchases" \notin parts, "subscriptions" \notin parts,
           NEW c, NEW d, NoKeys(c.permissions) => NoKeys(d.permissions),
           d.subscriptions = c.subscriptions, d.bought = c.bought, Fresh(st, p, c)
    PROVE  Fresh(t, p, d)
<1>1. /\ Project(t, p).purchases = Project(st, p).purchases
      /\ Project(t, p).subscriptions = Project(st, p).subscriptions
  BY DEF Changes, EntityFields
<1> QED
  BY <1>1 DEF Fresh, NoKeys

LEMMA DaysStay ==
    ASSUME NEW st, NEW t, NEW p, SameEntries(st.days, t.days, p), NEW total,
           DaysOK(st, p, total)
    PROVE  DaysOK(t, p, total)
<1>1. ASSUME NEW d \in 1 .. MaxDay
      PROVE  Following(t, p, total, d) = Following(st, p, total, d)
  <2> DEFINE before == {e \in d + 1 .. MaxDay : <<p, e>> \in DOMAIN st.days}
             later == {e \in d + 1 .. MaxDay : <<p, e>> \in DOMAIN t.days}
  <2>1. later = before
    BY DEF SameEntries
  <2>2. ASSUME later # {}
        PROVE  t.days[<<p, Min(later)>>] = st.days[<<p, Min(later)>>]
    <3>1. later \in SUBSET Int /\ IsFiniteSet(later)
      <4>1. later \subseteq d + 1 .. MaxDay
        OBVIOUS
      <4>2. d + 1 \in Int /\ MaxDay \in Int
        BY ProjectsAssumption
      <4>3. IsFiniteSet(d + 1 .. MaxDay) /\ d + 1 .. MaxDay \subseteq Int
        BY <4>2, FS_Interval
      <4> HIDE DEF later
      <4> QED
        BY <4>1, <4>3, FS_Subset
    <3>2. \E m \in later : \A i \in later : m <= i
      <4> HIDE DEF later
      <4> QED
        BY <2>2, <3>1, SmallestExists
    <3>3. Min(later) \in later
      BY <3>2 DEF Min
    <3> QED
      BY <3>3 DEF SameEntries
  <2> QED
    BY <2>1, <2>2 DEF Following
<1> QED
  BY <1>1 DEF DaysOK, SameEntries

\* The stakes: if no event is about them, and the project is not brought back.
LEMMA StakesStay ==
    ASSUME NEW st, NEW t, NEW p, SameEntries(st.stakes, t.stakes, p),
           SameEntries(st.days, t.days, p), NEW c, NEW d, d.staked = c.staked,
           d.projectStake = c.projectStake, d.state = 0 => c.state = 0,
           d.state # 2 => /\ c.state # 2
                          /\ Project(t, p).stakedWei = Project(st, p).stakedWei
                          /\ Project(t, p).score = Project(st, p).score,
           NEW today \in Nat, NEW later \in Nat, today <= later, StakesOK(st, p, c, today)
    PROVE  StakesOK(t, p, d, later)
<1>1. ASSUME NEW user
      PROVE  ProjectStake(t, p, user) = ProjectStake(st, p, user)
  BY DEF ProjectStake, SameEntries
<1>2. ASSUME NEW e \in 1 .. MaxDay, <<p, e>> \in DOMAIN t.days
      PROVE  e <= later
  <2>1. e <= today
    BY <1>2 DEF SameEntries, StakesOK
  <2> QED
    BY <2>1
<1>3. /\ \A user \in Users : ProjectStake(st, p, user) = c.staked[user]
      /\ c.projectStake = SumFunction(c.staked)
      /\ c.state = 0 => \A user \in Users : c.staked[user] = 0
      /\ c.state # 2 => /\ Project(st, p).stakedWei = c.projectStake
                        /\ Project(st, p).score = c.projectStake
                        /\ DaysOK(st, p, c.projectStake)
  BY DEF StakesOK
<1>4. d.state # 2 => DaysOK(t, p, d.projectStake)
  BY <1>3, DaysStay
<1> QED
  BY <1>1, <1>2, <1>3, <1>4 DEF StakesOK

\* What is right for q stays right when nothing about q changes.
LEMMA CorrectStays ==
    ASSUME NEW st, NEW t, NEW q \in Projs, SameAt(st, t, q), IsStore(t), NEW c,
           NEW today \in Nat, NEW later \in Nat, today <= later, Correct(st, q, c, today)
    PROVE  Correct(t, q, c, later)
<1>1. Project(t, q) = Project(st, q) /\ (q \in DOMAIN st.projects => q \in DOMAIN t.projects)
  BY DEF SameAt
<1>3. StakesOK(t, q, c, later)
  BY <1>1, StakesStay DEF SameAt, Correct
<1>4. c.state = 0 => Fresh(t, q, c)
  BY <1>1 DEF Correct, Fresh
<1>5. ASSUME c.state = 1
      PROVE  IsShown(t, q, c)
  <2>1. /\ q \in DOMAIN st.projects /\ StreamsOK(st, q, c) /\ RightsOK(st, q, c.permissions, 1)
        /\ SubscriptionsOK(st, q, c) /\ PaymentsOK(st, q, c.payments) /\ PurchasesOK(st, q, c)
    BY <1>5 DEF Correct, IsShown
  <2>2. StreamsOK(t, q, c) /\ PurchasesOK(t, q, c)
    BY <1>1, <2>1 DEF StreamsOK, PurchasesOK
  <2>3. RightsOK(t, q, c.permissions, 1)
    <3> SUFFICES ASSUME NEW user \in Targets
                 PROVE  /\ RightsAt(c.permissions, 1, user) = RightsShown(t, q, user)
                        /\ user \in Project(t, q).permissions =>
                              <<q, user>> \in DOMAIN t.permissions
      BY DEF RightsOK
    <3>1. /\ RightsAt(c.permissions, 1, user) = RightsShown(st, q, user)
          /\ user \in Project(st, q).permissions => <<q, user>> \in DOMAIN st.permissions
      BY <2>1 DEF RightsOK
    <3>2. SameEntries(st.permissions, t.permissions, q)
      BY DEF SameAt
    <3> QED
      BY <1>1, <3>1, <3>2 DEF RightsShown, SameEntries
  <2>4. SubscriptionsOK(t, q, c)
    <3> SUFFICES ASSUME NEW user \in Users
                 PROVE  /\ c.subscriptions[user] = IF user \in Project(t, q).subscriptions
                                                   THEN t.subscriptions[<<q, user>>] ELSE 0
                        /\ user \in Project(t, q).subscriptions =>
                              <<q, user>> \in DOMAIN t.subscriptions
      BY DEF SubscriptionsOK
    <3>1. /\ c.subscriptions[user] = IF user \in Project(st, q).subscriptions
                                     THEN st.subscriptions[<<q, user>>] ELSE 0
          /\ user \in Project(st, q).subscriptions => <<q, user>> \in DOMAIN st.subscriptions
      BY <2>1 DEF SubscriptionsOK
    <3>2. SameEntries(st.subscriptions, t.subscriptions, q)
      BY DEF SameAt
    <3> QED
      BY <1>1, <3>1, <3>2 DEF SameEntries
  <2>5. PaymentsOK(t, q, c.payments)
    <3>1. SameEntries(st.payments, t.payments, q)
      BY DEF SameAt
    <3> QED
      BY <1>1, <2>1, <3>1 DEF PaymentsOK, SameEntries
  <2> QED
    BY <1>1, <2>1, <2>2, <2>3, <2>4, <2>5 DEF IsShown
<1> QED
  BY <1>3, <1>4, <1>5 DEF Correct

IsLog(log) == \E E : log \in Seq(E)

\* One log after the other, of whatever events
LEMMA LogsInTurn ==
    ASSUME NEW st, NEW a, NEW b, IsLog(a), IsLog(b)
    PROVE  /\ HandleAll(st, a \o b) = HandleAll(HandleAll(st, a), b)
           /\ IsLog(a \o b)
<1>1. PICK A : a \in Seq(A)
  BY DEF IsLog
<1>2. PICK B : b \in Seq(B)
  BY DEF IsLog
<1> DEFINE E == A \cup B
<1>3. a \in Seq(E) /\ b \in Seq(E)
  BY <1>1, <1>2
<1> HIDE DEF E
<1>4. HandleAll(st, a \o b) = HandleAll(HandleAll(st, a), b)
  BY <1>3, LogsAreReadInTurn
<1>5. a \o b \in Seq(E)
  BY <1>3, ConcatProperties
<1> QED
  BY <1>4, <1>5 DEF IsLog

\* The events that are numbered from 1 to n
LEMMA NumberedIsLog ==
    ASSUME NEW n \in Nat, NEW f, f = [i \in 1 .. n |-> f[i]]
    PROVE  IsLog(f)
<1>1. f \in Seq({f[i] : i \in 1 .. n})
  OBVIOUS
<1> QED
  BY <1>1 DEF IsLog

LEMMA PaymentEventsAreLog ==
    ASSUME NEW p, NEW details, DOMAIN details \subseteq Domains
    PROVE  IsLog(PaymentEvents(p, details))
<1> DEFINE n == Cardinality(DOMAIN details)
           log == PaymentEvents(p, details)
<1>1. n \in Nat
  <2>1. IsFiniteSet(DOMAIN details)
    BY ProjectsAssumption, FS_Subset
  <2> QED
    BY <2>1, AllAreNamed
<1> HIDE DEF n
<1>2. log = [i \in 1 .. n |-> log[i]]
  BY DEF PaymentEvents, n
<1> HIDE DEF log
<1>3. IsLog(log)
  BY <1>1, <1>2, NumberedIsLog
<1> QED
  BY <1>3 DEF log

-----------------------------------------------------------------------------
(* The calls *)

LEMMA OnlyOneChanges ==
    ASSUME ProjectsInv, NEW p \in Projs, TypesInv', day' = day,
           \A q \in Projs \ {p} : Held(q)' = Held(q),
           IsStore(store'), \A q \in Projs \ {p} : SameAt(store, store', q),
           Correct(store', p, Held(p)', day)
    PROVE  ProjectsInv'
<1>1. ASSUME NEW q \in Projs
      PROVE  Correct(store', q, Held(q)', day')
  <2>1. CASE q = p
    BY <2>1
  <2>2. CASE q # p
    <3>1. Held(q)' = Held(q) /\ SameAt(store, store', q) /\ Correct(store, q, Held(q), day)
      BY <2>2 DEF ProjectsInv
    <3>2. day \in Nat /\ day <= day
      BY DEF ProjectsInv, TypesInv
    <3>3. Correct(store', q, Held(q), day)
      BY <3>1, <3>2, CorrectStays
    <3> QED
      BY <3>1, <3>3
  <2> QED
    BY <2>1, <2>2
<1> QED
  BY <1>1 DEF ProjectsInv

\* A call that changes the streams of an existing project, after which the listing is
\* in step with what its events tell.
LEMMA StreamsChange ==
    ASSUME ProjectsInv, NEW p \in Projs, NEW sender, NEW l \in Listings(p),
           StreamsOK(store, p, Held(p)) /\ p \notin repeated => InStep(store, p, l),
           ChangeStreams(p, sender, l)
    PROVE  ProjectsInv'
<1> DEFINE t == HandleAll(store, l.events)
           c == Held(p)
           d == Held(p)'
<1>1. /\ l.streams \in Seq(Streams) /\ l.index \in [Streams -> Nat]
      /\ l.events \in Seq(StreamEvents(p))
  BY DEF Listings
<1>2. /\ TypesInv /\ IsStore(store) /\ Correct(store, p, c, day)
  BY DEF ProjectsInv
<1>3. store' = t
  BY DEF ChangeStreams, Emit
<1>4. Changes(store, t, p, {"streams"})
  BY <1>1, <1>2, StreamLogIs
<1>5. /\ state[p] = 1
      /\ streams' = [streams EXCEPT ![p] = l.streams]
      /\ index' = [index EXCEPT ![p] = l.index]
      /\ UNCHANGED <<state, permissions, subscriptions, payments, staked, projectStake, day,
                     repeated, bought>>
  BY DEF ChangeStreams, HasPermissionType, Exists, SetListing, stakingVars
<1>6. TypesInv'
  BY <1>1, <1>2, <1>5 DEF TypesInv
<1>7. \A q \in Projs \ {p} : Held(q)' = Held(q)
  BY <1>2, <1>5 DEF Held, TypesInv
<1>8. /\ c.state = 1 /\ d.state = 1
      /\ d.streams = l.streams /\ d.index = l.index
      /\ d.permissions = c.permissions /\ d.subscriptions = c.subscriptions
      /\ d.payments = c.payments /\ d.staked = c.staked
      /\ d.projectStake = c.projectStake /\ d.bought = c.bought /\ d.repeated = c.repeated
      /\ c.repeated <=> p \in repeated
  BY <1>2, <1>5 DEF Held, TypesInv
<1> HIDE DEF c, d, t
<1>9. IsShown(store, p, c) /\ StakesOK(store, p, c, day)
  BY <1>2, <1>8 DEF Correct
<1>10. IsShown(t, p, d)
  <2>1. StreamsOK(t, p, d)
    <3>1. ~c.repeated => InStep(store, p, l)
      BY <1>8, <1>9 DEF IsShown, c
    <3> QED
      BY <1>8, <3>1 DEF StreamsOK, InStep, StreamsShownAfter, t
  <2>2. p \in DOMAIN t.projects
    BY <1>4, <1>9 DEF Changes, IsShown
  <2>3. RightsOK(t, p, d.permissions, 1)
    BY <1>4, <1>8, <1>9, RightsStay DEF IsShown
  <2>4. SubscriptionsOK(t, p, d)
    BY <1>4, <1>8, <1>9, SubscriptionsStay DEF IsShown
  <2>5. PaymentsOK(t, p, d.payments)
    BY <1>4, <1>8, <1>9, PaymentsStay DEF IsShown
  <2>6. PurchasesOK(t, p, d)
    BY <1>4, <1>8, <1>9, PurchasesStay DEF IsShown
  <2> QED
    BY <2>1, <2>2, <2>3, <2>4, <2>5, <2>6 DEF IsShown
<1>11. StakesOK(t, p, d, day)
  <2>1. /\ SameEntries(store.stakes, t.stakes, p) /\ SameEntries(store.days, t.days, p)
        /\ Project(t, p).stakedWei = Project(store, p).stakedWei
        /\ Project(t, p).score = Project(store, p).score
    BY <1>4 DEF Changes, EntityFields
  <2>2. day \in Nat /\ day <= day
    BY <1>2 DEF TypesInv
  <2> QED
    BY <1>8, <1>9, <2>1, <2>2, StakesStay
<1>12. Correct(t, p, d, day)
  BY <1>8, <1>10, <1>11 DEF Correct
<1> QED
  BY <1>3, <1>4, <1>5, <1>6, <1>7, <1>12, OnlyOneChanges DEF Changes, d

LEMMA ListingIs ==
    ASSUME ProjectsInv, NEW p \in Projs
    PROVE  /\ Listing(p) \in Listings(p) /\ Listing(p).index = index[p]
           /\ streams[p] \in Seq(Streams) /\ index[p] \in [Streams -> Nat] /\ IsStore(store)
           /\ StreamsOK(store, p, Held(p)) /\ p \notin repeated =>
                 /\ InStep(store, p, Listing(p))
                 /\ IsListing(streams[p], index[p])
                 /\ NamesThem(Project(store, p).streams, index[p])
<1> DEFINE l == Listing(p)
<1>1. streams[p] \in Seq(Streams) /\ index[p] \in [Streams -> Nat] /\ IsStore(store)
  BY DEF ProjectsInv, TypesInv
<1>2. l.streams = streams[p] /\ l.index = index[p] /\ l.events = <<>>
  BY DEF Listing
<1>3. l \in Listings(p)
  BY <1>1 DEF Listing, Listings
<1>4. HandleAll(store, <<>>) = store
  BY NothingToHandle
<1> HIDE DEF l
<1>5. ASSUME StreamsOK(store, p, Held(p)), p \notin repeated
      PROVE  /\ InStep(store, p, l)
             /\ IsListing(streams[p], index[p])
             /\ NamesThem(Project(store, p).streams, index[p])
  <2>1. IsListing(streams[p], index[p]) /\ NamesThem(Project(store, p).streams, index[p])
    BY <1>5 DEF StreamsOK, Held
  <2>2. InStep(store, p, l)
    BY <1>2, <1>4, <2>1 DEF InStep, StreamsShownAfter
  <2> QED
    BY <2>1, <2>2
<1> QED
  BY <1>1, <1>2, <1>3, <1>5 DEF l

LEMMA AddStreamKeeps ==
    ASSUME ProjectsInv, NEW p \in Projs, NEW sender, NEW s \in Streams, AddStream(p, sender, s)
    PROVE  ProjectsInv'
<1> DEFINE more == WithStream(p, Listing(p), s)
<1>1. /\ Listing(p) \in Listings(p) /\ Listing(p).index[s] = 0 /\ IsStore(store)
      /\ StreamsOK(store, p, Held(p)) /\ p \notin repeated => InStep(store, p, Listing(p))
  BY ListingIs DEF AddStream
<1>2. more \in Listings(p)
  BY <1>1, WithStreamIsTyped
<1>3. InStep(store, p, Listing(p)) => InStep(store, p, more)
  BY <1>1, WithStreamInStep
<1>4. ChangeStreams(p, sender, more)
  BY DEF AddStream
<1> HIDE DEF more
<1> QED
  BY <1>1, <1>2, <1>3, <1>4, StreamsChange

LEMMA AddStreamsKeeps ==
    ASSUME ProjectsInv, NEW p \in Projs, NEW sender, NEW list \in StreamLists,
           AddStreams(p, sender, list)
    PROVE  ProjectsInv'
<1> DEFINE more == WithStreams(p, Listing(p), list)
<1>1. /\ Listing(p) \in Listings(p) /\ IsStore(store)
      /\ StreamsOK(store, p, Held(p)) /\ p \notin repeated => InStep(store, p, Listing(p))
  BY ListingIs
<1>2. list \in Seq(Streams)
  BY ProjectsAssumption
<1>3. more \in Listings(p) /\ (InStep(store, p, Listing(p)) => InStep(store, p, more))
  BY <1>1, <1>2, WithStreamsIs
<1>4. ChangeStreams(p, sender, more)
  BY DEF AddStreams
<1> HIDE DEF more
<1> QED
  BY <1>1, <1>3, <1>4, StreamsChange

LEMMA RemoveStreamKeeps ==
    ASSUME ProjectsInv, NEW p \in Projs, NEW sender, NEW s \in Streams,
           RemoveStream(p, sender, s)
    PROVE  ProjectsInv'
<1> DEFINE less == WithoutStream(p, s)
<1>1. /\ streams[p] \in Seq(Streams) /\ index[p] \in [Streams -> Nat] /\ IsStore(store)
      /\ StreamsOK(store, p, Held(p)) /\ p \notin repeated =>
            IsListing(streams[p], index[p]) /\ NamesThem(Project(store, p).streams, index[p])
  BY ListingIs
<1>2. index[p][s] > 0 /\ ChangeStreams(p, sender, less)
  BY DEF RemoveStream
<1>3. /\ less \in Listings(p)
      /\ IsListing(streams[p], index[p]) /\ NamesThem(Project(store, p).streams, index[p]) =>
            InStep(store, p, less)
  BY <1>1, <1>2, StreamIsRemoved
<1> HIDE DEF less
<1> QED
  BY <1>1, <1>2, <1>3, StreamsChange

LEMMA SetStreamsKeeps ==
    ASSUME ProjectsInv, NEW p \in Projs, NEW sender, NEW list \in StreamLists,
           SetStreams(p, sender, list)
    PROVE  ProjectsInv'
<1> DEFINE l == WithStreamsSet(p, list)
<1>1. /\ streams[p] \in Seq(Streams) /\ index[p] \in [Streams -> Nat] /\ IsStore(store)
      /\ StreamsOK(store, p, Held(p)) /\ p \notin repeated =>
            IsListing(streams[p], index[p]) /\ NamesThem(Project(store, p).streams, index[p])
  BY ListingIs
<1>2. list \in Seq(Streams)
  BY ProjectsAssumption
<1>3. ChangeStreams(p, sender, l)
  BY DEF SetStreams
<1>4. /\ l \in Listings(p)
      /\ IsListing(streams[p], index[p]) /\ NamesThem(Project(store, p).streams, index[p]) =>
            InStep(store, p, l)
  BY <1>1, <1>2, StreamsAreSet
<1> HIDE DEF l
<1> QED
  BY <1>1, <1>3, <1>4, StreamsChange

\* The payment details that are stored, when those of a call are added.
LEMMA PaymentsAreMerged ==
    ASSUME NEW st, NEW t, NEW p, NEW old, NEW details, NEW new, PaymentsOK(st, p, old),
           DOMAIN new = DOMAIN old \cup DOMAIN details,
           \A d \in DOMAIN details : new[d] = details[d],
           \A d \in DOMAIN old \ DOMAIN details : new[d] = old[d],
           \A d \in DOMAIN details : ShowsPayment(t, p, d, details[d]),
           \A d, price : d \notin DOMAIN details /\ ShowsPayment(st, p, d, price) =>
              ShowsPayment(t, p, d, price)
    PROVE  PaymentsOK(t, p, new)
<1>1. \A d \in DOMAIN old : ShowsPayment(st, p, d, old[d])
  BY DEF PaymentsOK, ShowsPayment
<1>2. \A d \in DOMAIN new : ShowsPayment(t, p, d, new[d])
  BY <1>1
<1> QED
  BY <1>2 DEF PaymentsOK, ShowsPayment

LEMMA UpdatePaymentDetailsByChainKeeps ==
    ASSUME ProjectsInv, NEW p \in Projs, NEW sender, NEW x \in Domains, NEW price,
           UpdatePaymentDetailsByChain(p, sender, x, price)
    PROVE  ProjectsInv'
<1> DEFINE details == [e \in {x} |-> price]
           t == HandleAll(store, PaymentEvents(p, details))
           c == Held(p)
           d == Held(p)'
<1>1. /\ TypesInv /\ IsStore(store) /\ Correct(store, p, c, day)
  BY DEF ProjectsInv
<1>2. /\ store' = t /\ state[p] = 1
      /\ payments' = [payments EXCEPT ![p] = Save(@, x, price)]
      /\ UNCHANGED <<state, streams, index, permissions, subscriptions, staked, projectStake, day,
                     repeated, bought>>
  BY DEF UpdatePaymentDetailsByChain, Emit, HasPermissionType, Exists, stakingVars
<1>3. DOMAIN details = {x} /\ details[x] = price /\ DOMAIN details \subseteq Domains
  OBVIOUS
<1> HIDE DEF details
<1>4. /\ Changes(store, t, p, {"payments"})
      /\ \A e \in DOMAIN details : ShowsPayment(t, p, e, details[e])
      /\ \A e, price2 : e \notin DOMAIN details /\ ShowsPayment(store, p, e, price2) =>
            ShowsPayment(t, p, e, price2)
  BY <1>1, <1>3, PaymentsAreLogged
<1> HIDE DEF t
<1>5. TypesInv'
  <2>1. DOMAIN payments' = Projs /\ \A q \in Projs : DOMAIN payments'[q] \subseteq Domains
    BY <1>1, <1>2 DEF TypesInv, Save
  <2> QED
    BY <1>1, <1>2, <2>1 DEF TypesInv
<1>6. \A q \in Projs \ {p} : Held(q)' = Held(q)
  BY <1>1, <1>2 DEF Held, TypesInv
<1>7. /\ c.state = 1 /\ d.state = 1
      /\ d.streams = c.streams /\ d.index = c.index /\ d.permissions = c.permissions
      /\ d.subscriptions = c.subscriptions /\ d.staked = c.staked
      /\ d.projectStake = c.projectStake /\ d.bought = c.bought /\ d.repeated = c.repeated
      /\ d.payments = Save(c.payments, x, price)
  BY <1>1, <1>2 DEF Held, TypesInv
<1> HIDE DEF c, d
<1>8. IsShown(store, p, c) /\ StakesOK(store, p, c, day)
  BY <1>1, <1>7 DEF Correct
<1>9. PaymentsOK(t, p, d.payments)
  <2> DEFINE new == d.payments
             old == c.payments
  <2>1. /\ DOMAIN new = DOMAIN old \cup DOMAIN details
        /\ \A e \in DOMAIN details : new[e] = details[e]
        /\ \A e \in DOMAIN old \ DOMAIN details : new[e] = old[e]
    BY <1>3, <1>7 DEF Save
  <2>2. PaymentsOK(store, p, old)
    BY <1>8 DEF IsShown
  <2> HIDE DEF new, old
  <2>3. PaymentsOK(t, p, new)
    BY <1>4, <2>1, <2>2, PaymentsAreMerged
  <2> QED
    BY <2>3 DEF new
<1>10. IsShown(t, p, d)
  <2>1. StreamsOK(t, p, d)
    BY <1>4, <1>7, <1>8, StreamsStay DEF IsShown
  <2>2. p \in DOMAIN t.projects
    BY <1>4, <1>8 DEF Changes, IsShown
  <2>3. RightsOK(t, p, d.permissions, 1)
    BY <1>4, <1>7, <1>8, RightsStay DEF IsShown
  <2>4. SubscriptionsOK(t, p, d)
    BY <1>4, <1>7, <1>8, SubscriptionsStay DEF IsShown
  <2>5. PurchasesOK(t, p, d)
    BY <1>4, <1>7, <1>8, PurchasesStay DEF IsShown
  <2> QED
    BY <1>9, <2>1, <2>2, <2>3, <2>4, <2>5 DEF IsShown
<1>11. StakesOK(t, p, d, day)
  <2>1. /\ SameEntries(store.stakes, t.stakes, p) /\ SameEntries(store.days, t.days, p)
        /\ Project(t, p).stakedWei = Project(store, p).stakedWei
        /\ Project(t, p).score = Project(store, p).score
    BY <1>4 DEF Changes, EntityFields
  <2>2. day \in Nat /\ day <= day
    BY <1>1 DEF TypesInv
  <2> QED
    BY <1>7, <1>8, <2>1, <2>2, StakesStay
<1>12. Correct(t, p, d, day)
  BY <1>7, <1>10, <1>11 DEF Correct
<1> QED
  BY <1>2, <1>4, <1>5, <1>6, <1>12, OnlyOneChanges DEF Changes, d

LEMMA UpdateProjectKeeps ==
    ASSUME ProjectsInv, NEW p \in Projs, NEW sender, NEW list \in StreamLists,
           NEW details \in PaymentDetails, UpdateProject(p, sender, list, details)
    PROVE  ProjectsInv'
<1> DEFINE l == WithStreamsSet(p, list)
           e == [name |-> "ProjectUpdated", project |-> p, streams |-> list]
           first == HandleAll(store, l.events)
           second == Handle(first, e)
           t == HandleAll(second, PaymentEvents(p, details))
           c == Held(p)
           d == Held(p)'
<1>1. /\ TypesInv /\ IsStore(store) /\ Correct(store, p, c, day)
  BY DEF ProjectsInv
<1>2. list \in Seq(Streams) /\ DOMAIN details \subseteq Domains
  BY ProjectsAssumption DEF PaymentDetails
<1>3. /\ streams[p] \in Seq(Streams) /\ index[p] \in [Streams -> Nat]
      /\ StreamsOK(store, p, Held(p)) /\ p \notin repeated =>
            IsListing(streams[p], index[p]) /\ NamesThem(Project(store, p).streams, index[p])
  BY ListingIs
<1>4. /\ l \in Listings(p)
      /\ IsListing(streams[p], index[p]) /\ NamesThem(Project(store, p).streams, index[p]) =>
            /\ InStep(store, p, l)
            /\ \A s \in Streams : l.index[s] # 0 <=> \E i \in 1 .. Len(list) : list[i] = s
  BY <1>1, <1>2, <1>3, StreamsAreSet
<1>5. /\ state[p] = 1
      /\ streams' = [streams EXCEPT ![p] = l.streams]
      /\ index' = [index EXCEPT ![p] = l.index]
      /\ payments' = [payments EXCEPT ![p] =
           [x \in DOMAIN @ \cup DOMAIN details |->
              IF x \in DOMAIN details THEN details[x] ELSE @[x]]]
      /\ store' = HandleAll(store, l.events \o <<e>> \o PaymentEvents(p, details))
      /\ repeated' = IF Repeats(list) THEN repeated \cup {p} ELSE repeated
      /\ UNCHANGED <<state, permissions, subscriptions, staked, projectStake, day, bought>>
  BY DEF UpdateProject, HasPermissionType, Exists, SetListing, stakingVars, Emit, NoteRepeats
<1>6. e.name = "ProjectUpdated" /\ e.project = p /\ e.streams = list
  OBVIOUS
<1> HIDE DEF l, e
<1>7. /\ l.streams \in Seq(Streams) /\ l.index \in [Streams -> Nat]
      /\ l.events \in Seq(StreamEvents(p))
  BY <1>4 DEF Listings
<1>8. store' = t
  <2> DEFINE a == l.events
             b == <<e>>
             f == PaymentEvents(p, details)
  <2>1. IsLog(a) /\ IsLog(b) /\ IsLog(f)
    <3>1. b \in Seq({e})
      OBVIOUS
    <3>2. IsLog(f)
      BY <1>2, PaymentEventsAreLog
    <3> QED
      BY <1>7, <3>1, <3>2 DEF IsLog
  <2>2. HandleAll(first, b) = second
    BY OneToHandle
  <2>3. store' = HandleAll(store, a \o b \o f) /\ first = HandleAll(store, a)
        /\ t = HandleAll(second, f)
    BY <1>5
  <2> HIDE DEF a, b, f, first, second, t
  <2> DEFINE ab == a \o b
  <2>4. HandleAll(store, ab) = second /\ IsLog(ab)
    BY <2>1, <2>2, <2>3, LogsInTurn
  <2>5. store' = HandleAll(store, ab \o f)
    BY <2>3
  <2> HIDE DEF ab
  <2>6. HandleAll(store, ab \o f) = HandleAll(HandleAll(store, ab), f)
    BY <2>1, <2>4, LogsInTurn
  <2> QED
    BY <2>3, <2>4, <2>5, <2>6
<1>9. Changes(store, first, p, {"streams"})
  BY <1>1, <1>7, StreamLogIs
<1>10. IsStore(first)
  BY <1>9 DEF Changes
<1> HIDE DEF first
<1>11. /\ Changes(first, second, p, {"streams"})
       /\ Project(second, p).streams = list
  BY <1>2, <1>6, <1>10, UpdateHandled
<1> HIDE DEF second
<1>12. IsStore(second)
  BY <1>11 DEF Changes
<1>13. /\ Changes(second, t, p, {"payments"})
       /\ \A x \in DOMAIN details : ShowsPayment(t, p, x, details[x])
       /\ \A x, price : x \notin DOMAIN details /\ ShowsPayment(second, p, x, price) =>
             ShowsPayment(t, p, x, price)
  BY <1>2, <1>12, PaymentsAreLogged
<1> HIDE DEF t
<1>14. Changes(store, second, p, {"streams"})
  <2>1. Changes(store, second, p, {"streams"} \cup {"streams"})
    BY <1>9, <1>11, ChangesChain
  <2>2. {"streams"} \cup {"streams"} = {"streams"}
    OBVIOUS
  <2> QED
    BY <2>1, <2>2
<1> DEFINE parts == {"streams"} \cup {"payments"}
<1>15. Changes(store, t, p, parts)
  BY <1>13, <1>14, ChangesChain
<1>16. parts = {"streams", "payments"}
  OBVIOUS
<1> HIDE DEF parts
<1>17. TypesInv'
  <2>1. DOMAIN payments' = Projs /\ \A q \in Projs : DOMAIN payments'[q] \subseteq Domains
    BY <1>1, <1>2, <1>5 DEF TypesInv
  <2>2. repeated' \subseteq Projs
    BY <1>1, <1>5 DEF TypesInv
  <2> QED
    BY <1>1, <1>5, <1>7, <2>1, <2>2 DEF TypesInv
<1>18. \A q \in Projs \ {p} : Held(q)' = Held(q)
  <2> SUFFICES ASSUME NEW q \in Projs \ {p}
               PROVE  Held(q)' = Held(q)
    OBVIOUS
  <2>1. /\ streams'[q] = streams[q] /\ index'[q] = index[q] /\ payments'[q] = payments[q]
        /\ q \in repeated' <=> q \in repeated
    BY <1>1, <1>5 DEF TypesInv
  <2> QED
    BY <1>5, <2>1 DEF Held
<1>19. /\ c.state = 1 /\ d.state = 1
       /\ d.streams = l.streams /\ d.index = l.index
       /\ d.permissions = c.permissions /\ d.subscriptions = c.subscriptions
       /\ d.staked = c.staked /\ d.projectStake = c.projectStake /\ d.bought = c.bought
       /\ c.repeated = (p \in repeated) /\ d.repeated = (p \in repeated')
  BY <1>1, <1>5 DEF Held, TypesInv
<1>20. d.payments = [x \in DOMAIN c.payments \cup DOMAIN details |->
                       IF x \in DOMAIN details THEN details[x] ELSE c.payments[x]]
  BY <1>1, <1>5 DEF Held, TypesInv
<1> HIDE DEF d
<1>21. IsShown(store, p, c) /\ StakesOK(store, p, c, day)
  BY <1>1, <1>19 DEF Correct
<1>22. StreamsOK(t, p, d)
  <2> SUFFICES ASSUME ~d.repeated
               PROVE  IsListing(d.streams, d.index) /\ NamesThem(Project(t, p).streams, d.index)
    BY DEF StreamsOK
  <2>1. p \notin repeated /\ ~Repeats(list)
    BY <1>5, <1>19
  <2>2. IsListing(streams[p], index[p]) /\ NamesThem(Project(store, p).streams, index[p])
    BY <1>3, <1>21, <2>1 DEF IsShown
  <2>3. /\ IsListing(l.streams, l.index)
        /\ \A s \in Streams : l.index[s] # 0 <=> \E i \in 1 .. Len(list) : list[i] = s
    BY <1>4, <2>2 DEF InStep
  <2>4. NoRepeats(list)
    BY <1>2, <2>1, RepeatsOrNot
  <2>5. Project(t, p).streams = list
    BY <1>11, <1>13 DEF Changes, EntityFields
  <2> QED
    BY <1>19, <2>3, <2>4, <2>5 DEF NamesThem
<1> HIDE DEF c
<1>23. PaymentsOK(t, p, d.payments)
  <2> DEFINE new == d.payments
             old == c.payments
  <2>1. /\ DOMAIN new = DOMAIN old \cup DOMAIN details
        /\ \A x \in DOMAIN details : new[x] = details[x]
        /\ \A x \in DOMAIN old \ DOMAIN details : new[x] = old[x]
    BY <1>20
  <2>2. PaymentsOK(second, p, old)
    BY <1>14, <1>21, PaymentsStay DEF IsShown
  <2> HIDE DEF new, old
  <2>3. PaymentsOK(t, p, new)
    BY <1>13, <2>1, <2>2, PaymentsAreMerged
  <2> QED
    BY <2>3 DEF new
<1>24. IsShown(t, p, d)
  <2>1. p \in DOMAIN t.projects
    BY <1>15, <1>21 DEF Changes, IsShown
  <2>2. RightsOK(t, p, d.permissions, 1)
    BY <1>15, <1>16, <1>19, <1>21, RightsStay DEF IsShown
  <2>3. SubscriptionsOK(t, p, d)
    BY <1>15, <1>16, <1>19, <1>21, SubscriptionsStay DEF IsShown
  <2>4. PurchasesOK(t, p, d)
    BY <1>15, <1>16, <1>19, <1>21, PurchasesStay DEF IsShown
  <2> QED
    BY <1>22, <1>23, <2>1, <2>2, <2>3, <2>4 DEF IsShown
<1>25. StakesOK(t, p, d, day)
  <2>1. /\ SameEntries(store.stakes, t.stakes, p) /\ SameEntries(store.days, t.days, p)
        /\ Project(t, p).stakedWei = Project(store, p).stakedWei
        /\ Project(t, p).score = Project(store, p).score
    BY <1>15, <1>16 DEF Changes, EntityFields
  <2>2. day \in Nat /\ day <= day
    BY <1>1 DEF TypesInv
  <2> QED
    BY <1>19, <1>21, <2>1, <2>2, StakesStay
<1>26. Correct(t, p, d, day)
  BY <1>19, <1>24, <1>25 DEF Correct
<1> QED
  BY <1>5, <1>8, <1>15, <1>17, <1>18, <1>26, OnlyOneChanges DEF Changes, d

LEMMA SetPermissionsKeeps ==
    ASSUME ProjectsInv, NEW p \in Projs, NEW users, NEW rightsOf, NEW n \in Nat,
           DOMAIN users = 1 .. n, \A i \in 1 .. n : users[i] \in Targets,
           SetPermissions(p, users, rightsOf)
    PROVE  ProjectsInv'
<1> DEFINE log == [i \in DOMAIN users |-> PermissionEvent(p, users[i], rightsOf[i])]
           t == HandleAll(store, log)
           c == Held(p)
           d == Held(p)'
           base == permissions[p]
           last == SavedFor(p, base, users, rightsOf)
<1>1. /\ TypesInv /\ IsStore(store) /\ Correct(store, p, c, day)
  BY DEF ProjectsInv
<1>2. /\ store' = t
      /\ permissions' = [permissions EXCEPT ![p] = last]
      /\ UNCHANGED <<state, streams, index, subscriptions, payments, staked, projectStake, day,
                     repeated, bought>>
  <2> HIDE DEF t
  <2> QED
    BY DEF SetPermissions, Emit, stakingVars, SavedFor, t
<1>3. PICK iter : IsSaving(base, AddressKeys(p, users, n), rightsOf, n, iter) /\ last = iter[1 .. n]
  <2> HIDE DEF base, log, t, c, d
  <2>1. \E iter : /\ IsSaving(base, AddressKeys(p, users, n), rightsOf, n, iter)
                 /\ SavedFor(p, base, users, rightsOf) = iter[1 .. n]
    BY PermissionsAreSaved
  <2> QED
    BY <2>1
<1> HIDE DEF last
<1>4. /\ DOMAIN log = 1 .. n
      /\ \A i \in 1 .. n : log[i] = PermissionEvent(p, users[i], rightsOf[i])
  OBVIOUS
<1>5. /\ state[p] \in Nat /\ state[p] \in 0 .. 2
      /\ AddressKeys(p, users, n) = [i \in 1 .. n |-> <<state[p], users[i]>>]
  BY <1>1 DEF TypesInv, AddressKeys, AddressKey
<1> HIDE DEF log, base
<1>6. RightsFollow(store, t, p, state[p], base, last)
  <2>1. RightsSet(p, state[p], base, users, rightsOf, n, iter, log)
    BY <1>3, <1>4, <1>5 DEF RightsSet
  <2>2. RightsFollow(store, HandleAll(store, log), p, state[p], base, iter[1 .. n])
    BY <1>1, <2>1, RightsAreLogged
  <2> QED
    BY <1>3, <2>2
<1> HIDE DEF t
<1>7. TypesInv'
  BY <1>1, <1>2 DEF TypesInv
<1>8. \A q \in Projs \ {p} : Held(q)' = Held(q)
  BY <1>1, <1>2 DEF Held, TypesInv
<1>9. /\ c.state = state[p] /\ d.state = state[p]
      /\ d.streams = c.streams /\ d.index = c.index /\ d.payments = c.payments
      /\ d.subscriptions = c.subscriptions /\ d.staked = c.staked
      /\ d.projectStake = c.projectStake /\ d.bought = c.bought /\ d.repeated = c.repeated
      /\ c.permissions = base /\ d.permissions = last
  BY <1>1, <1>2 DEF Held, TypesInv, base
<1> HIDE DEF c, d
<1>10. StakesOK(t, p, d, day)
  <2>1. /\ SameEntries(store.stakes, t.stakes, p) /\ SameEntries(store.days, t.days, p)
        /\ Project(t, p).stakedWei = Project(store, p).stakedWei
        /\ Project(t, p).score = Project(store, p).score
    BY <1>6 DEF RightsFollow, Changes, EntityFields
  <2>2. day \in Nat /\ day <= day /\ StakesOK(store, p, c, day)
    BY <1>1 DEF TypesInv, Correct
  <2> QED
    BY <1>9, <2>1, <2>2, StakesStay
<1>11. ASSUME d.state = 0
       PROVE  Fresh(t, p, d)
  <2>1. Fresh(store, p, c)
    BY <1>1, <1>9, <1>11 DEF Correct
  <2>2. NoKeys(c.permissions) => NoKeys(d.permissions)
    BY <1>6, <1>9, <1>11 DEF RightsFollow
  <2> QED
    BY <1>6, <1>9, <2>1, <2>2, FreshStays DEF RightsFollow
<1>12. ASSUME d.state = 1
       PROVE  IsShown(t, p, d)
  <2>1. IsShown(store, p, c)
    BY <1>1, <1>9, <1>12 DEF Correct
  <2>2. StreamsOK(t, p, d)
    BY <1>6, <1>9, <2>1, StreamsStay DEF IsShown, RightsFollow
  <2>3. p \in DOMAIN t.projects
    BY <1>6, <2>1 DEF RightsFollow, Changes, IsShown
  <2>4. RightsOK(t, p, d.permissions, 1)
    BY <1>6, <1>9, <1>12, <2>1 DEF RightsFollow, IsShown
  <2>5. SubscriptionsOK(t, p, d)
    BY <1>6, <1>9, <2>1, SubscriptionsStay DEF IsShown, RightsFollow
  <2>6. PaymentsOK(t, p, d.payments)
    BY <1>6, <1>9, <2>1, PaymentsStay DEF IsShown, RightsFollow
  <2>7. PurchasesOK(t, p, d)
    BY <1>6, <1>9, <2>1, PurchasesStay DEF IsShown, RightsFollow
  <2> QED
    BY <2>2, <2>3, <2>4, <2>5, <2>6, <2>7 DEF IsShown
<1>13. Correct(t, p, d, day)
  BY <1>10, <1>11, <1>12 DEF Correct
<1> QED
  BY <1>2, <1>6, <1>7, <1>8, <1>13, OnlyOneChanges DEF RightsFollow, Changes, d

\* One user, or two.
LEMMA OneUserKeeps ==
    ASSUME ProjectsInv, NEW p \in Projs, NEW user \in Targets, NEW rightsOf,
           SetPermissions(p, <<user>>, rightsOf)
    PROVE  ProjectsInv'
<1> DEFINE users == <<user>>
<1>1. DOMAIN users = 1 .. 1 /\ (\A i \in 1 .. 1 : users[i] \in Targets) /\ 1 \in Nat
  OBVIOUS
<1>2. SetPermissions(p, users, rightsOf)
  OBVIOUS
<1> HIDE DEF users
<1> QED
  BY <1>1, <1>2, SetPermissionsKeeps

LEMMA TwoUsersKeep ==
    ASSUME ProjectsInv, NEW p \in Projs, NEW first \in Targets, NEW second \in Targets,
           NEW rightsOf, SetPermissions(p, <<first, second>>, rightsOf)
    PROVE  ProjectsInv'
<1> DEFINE users == <<first, second>>
<1>1. DOMAIN users = 1 .. 2 /\ (\A i \in 1 .. 2 : users[i] \in Targets) /\ 2 \in Nat
  OBVIOUS
<1>2. SetPermissions(p, users, rightsOf)
  OBVIOUS
<1> HIDE DEF users
<1> QED
  BY <1>1, <1>2, SetPermissionsKeeps

LEMMA DeleteProjectKeeps ==
    ASSUME ProjectsInv, NEW p \in Projs, NEW sender, DeleteProject(p, sender)
    PROVE  ProjectsInv'
<1> DEFINE e == [name |-> "ProjectDeleted", project |-> p]
           t == Handle(store, e)
           c == Held(p)
           d == Held(p)'
<1>1. /\ TypesInv /\ IsStore(store) /\ Correct(store, p, c, day)
  BY DEF ProjectsInv
<1>2. /\ store' = t
      /\ state' = [state EXCEPT ![p] = 2]
      /\ UNCHANGED <<streams, index, permissions, subscriptions, payments, staked,
                     projectStake, day, repeated, bought>>
  BY OneToHandle DEF DeleteProject, Emit, stakingVars
<1>3. e.name = "ProjectDeleted" /\ e.project = p
  OBVIOUS
<1> HIDE DEF e
<1>4. /\ IsStore(t) /\ t.stakes = store.stakes /\ t.days = store.days
      /\ \A q \in Projs \ {p} : SameAt(store, t, q)
  BY <1>1, <1>3, DeletionHandled
<1> HIDE DEF t
<1>5. TypesInv'
  BY <1>1, <1>2 DEF TypesInv
<1>6. \A q \in Projs \ {p} : Held(q)' = Held(q)
  BY <1>1, <1>2 DEF Held, TypesInv
<1>7. d.state = 2 /\ d.staked = c.staked /\ d.projectStake = c.projectStake
  BY <1>1, <1>2 DEF Held, TypesInv
<1> HIDE DEF c, d
<1>8. StakesOK(t, p, d, day)
  <2>1. SameEntries(store.stakes, t.stakes, p) /\ SameEntries(store.days, t.days, p)
    BY <1>4, SameIsSame
  <2>2. day \in Nat /\ day <= day /\ StakesOK(store, p, c, day)
    BY <1>1 DEF TypesInv, Correct
  <2>3. ~(d.state = 0) /\ ~(d.state # 2)
    BY <1>7
  <2> QED
    BY <1>7, <2>1, <2>2, <2>3, StakesStay
<1>9. Correct(t, p, d, day)
  BY <1>7, <1>8 DEF Correct
<1> QED
  BY <1>2, <1>4, <1>5, <1>6, <1>9, OnlyOneChanges DEF d

\* _addOrExtendSubscription: one subscription more, or a longer one
LEMMA SubscriptionSaved ==
    ASSUME NEW st, NEW t, NEW p, NEW c, NEW d, NEW user, NEW end,
           DOMAIN c.subscriptions = Users, SubscriptionsOK(st, p, c),
           d.subscriptions = [c.subscriptions EXCEPT ![user] = end],
           Project(t, p).subscriptions = Project(st, p).subscriptions \cup {user},
           t.subscriptions = Save(st.subscriptions, <<p, user>>, end)
    PROVE  SubscriptionsOK(t, p, d)
<1> DEFINE shown == Project(st, p).subscriptions
           more == Project(t, p).subscriptions
<1>1. /\ DOMAIN t.subscriptions = DOMAIN st.subscriptions \cup {<<p, user>>}
      /\ t.subscriptions[<<p, user>>] = end
      /\ \A x \in DOMAIN st.subscriptions :
            x # <<p, user>> => t.subscriptions[x] = st.subscriptions[x]
  BY DEF Save
<1>2. more = shown \cup {user}
  OBVIOUS
<1> HIDE DEF shown, more
<1>3. ASSUME NEW u \in Users
      PROVE  /\ d.subscriptions[u] = IF u \in more THEN t.subscriptions[<<p, u>>] ELSE 0
             /\ u \in more => <<p, u>> \in DOMAIN t.subscriptions
  <2>1. /\ c.subscriptions[u] = IF u \in shown THEN st.subscriptions[<<p, u>>] ELSE 0
        /\ u \in shown => <<p, u>> \in DOMAIN st.subscriptions
    BY DEF SubscriptionsOK, shown
  <2>2. CASE u = user
    <3>1. d.subscriptions[u] = end
      BY <2>2
    <3> QED
      BY <1>1, <1>2, <2>2, <3>1
  <2>3. CASE u # user
    <3>1. d.subscriptions[u] = c.subscriptions[u] /\ <<p, u>> # <<p, user>>
      BY <2>3
    <3>2. u \in more <=> u \in shown
      BY <1>2, <2>3
    <3> QED
      BY <1>1, <2>1, <3>1, <3>2
  <2> QED
    BY <2>2, <2>3
<1> QED
  BY <1>3 DEF SubscriptionsOK, more

LEMMA PurchaseSaved ==
    ASSUME NEW st, IsStore(st), NEW t, NEW p, NEW c, NEW d, NEW user \in Users,
           PurchasesOK(st, p, c), c.bought \in Nat, d.bought = c.bought + 1,
           Project(t, p).counter = Project(st, p).counter + 1,
           Project(t, p).purchases =
              Project(st, p).purchases \cup {<<user, Project(st, p).counter + 1>>}
    PROVE  PurchasesOK(t, p, d)
<1> DEFINE n == Project(st, p).counter
           S == Project(st, p).purchases
           new == <<user, n + 1>>
<1>1. n \in Nat
  BY ProjectIsEntity DEF Entities
<1>2. S \subseteq Users \X (1 .. n) /\ IsFiniteSet(S) /\ Cardinality(S) = c.bought
  BY DEF PurchasesOK
<1>3. Project(t, p).counter = n + 1 /\ Project(t, p).purchases = S \cup {new}
  OBVIOUS
<1> HIDE DEF n, S
<1>4. new \notin S
  <2>1. n + 1 \notin 1 .. n
    BY <1>1
  <2> QED
    BY <1>2, <2>1
<1>5. S \cup {new} \subseteq Users \X (1 .. n + 1)
  <2>1. 1 .. n \subseteq 1 .. n + 1 /\ n + 1 \in 1 .. n + 1
    BY <1>1
  <2>2. new \in Users \X (1 .. n + 1)
    BY <2>1
  <2>3. S \subseteq Users \X (1 .. n + 1)
    BY <1>2, <2>1
  <2> HIDE DEF new
  <2> QED
    BY <2>2, <2>3
<1> HIDE DEF new
<1>6. IsFiniteSet(S \cup {new}) /\ Cardinality(S \cup {new}) = c.bought + 1
  BY <1>2, <1>4, FS_AddElement
<1> QED
  BY <1>3, <1>5, <1>6 DEF PurchasesOK

\* grantSubscription and buyFor: what the events tell of an existing project
LEMMA SubscribingKeeps ==
    ASSUME ProjectsInv, NEW p \in Projs, NEW user \in Users, NEW end \in Nat, NEW t,
           NEW parts, parts \subseteq {"subscriptions", "purchases", "counter"},
           Changes(store, t, p, parts), store' = t, state[p] = 1,
           subscriptions' = [subscriptions EXCEPT ![p][user] = end],
           bought' \in [Projs -> Nat], \A q \in Projs \ {p} : bought'[q] = bought[q],
           UNCHANGED <<state, streams, index, permissions, payments, staked, projectStake,
                       day, repeated>>,
           SubscriptionsOK(t, p, Held(p)'), PurchasesOK(t, p, Held(p)')
    PROVE  ProjectsInv'
<1> DEFINE c == Held(p)
           d == Held(p)'
<1>1. /\ TypesInv /\ IsStore(store) /\ Correct(store, p, c, day)
  BY DEF ProjectsInv
<1>2. subscriptions' \in [Projs -> [Users -> Nat]]
  BY <1>1 DEF TypesInv
<1>3. TypesInv'
  BY <1>1, <1>2 DEF TypesInv
<1>4. \A q \in Projs \ {p} : Held(q)' = Held(q)
  <2> SUFFICES ASSUME NEW q \in Projs \ {p}
               PROVE  Held(q)' = Held(q)
    OBVIOUS
  <2>1. subscriptions'[q] = subscriptions[q] /\ bought'[q] = bought[q]
    BY <1>1 DEF TypesInv
  <2>2. /\ state' = state /\ streams' = streams /\ index' = index /\ payments' = payments
        /\ permissions' = permissions /\ staked' = staked /\ projectStake' = projectStake
        /\ repeated' = repeated
    OBVIOUS
  <2> QED
    BY <2>1, <2>2 DEF Held
<1>5. /\ c.state = 1 /\ d.state = 1
      /\ d.streams = c.streams /\ d.index = c.index /\ d.payments = c.payments
      /\ d.permissions = c.permissions /\ d.staked = c.staked
      /\ d.projectStake = c.projectStake /\ d.repeated = c.repeated
  BY DEF Held
<1>6. /\ "streams" \notin parts /\ "permissions" \notin parts /\ "payments" \notin parts
      /\ "score" \notin parts /\ "stakedWei" \notin parts
  OBVIOUS
<1>7. SubscriptionsOK(t, p, d) /\ PurchasesOK(t, p, d)
  OBVIOUS
<1> HIDE DEF c, d
<1>8. IsShown(store, p, c) /\ StakesOK(store, p, c, day)
  BY <1>1, <1>5 DEF Correct
<1>9. IsShown(t, p, d)
  <2>1. StreamsOK(t, p, d)
    BY <1>5, <1>6, <1>8, StreamsStay DEF IsShown
  <2>2. p \in DOMAIN t.projects
    BY <1>8 DEF Changes, IsShown
  <2>3. RightsOK(t, p, d.permissions, 1)
    BY <1>5, <1>6, <1>8, RightsStay DEF IsShown
  <2>4. PaymentsOK(t, p, d.payments)
    BY <1>5, <1>6, <1>8, PaymentsStay DEF IsShown
  <2> QED
    BY <1>7, <2>1, <2>2, <2>3, <2>4 DEF IsShown
<1>10. StakesOK(t, p, d, day)
  <2>1. /\ SameEntries(store.stakes, t.stakes, p) /\ SameEntries(store.days, t.days, p)
        /\ Project(t, p).stakedWei = Project(store, p).stakedWei
        /\ Project(t, p).score = Project(store, p).score
    BY <1>6 DEF Changes, EntityFields
  <2>2. day \in Nat /\ day <= day
    BY <1>1 DEF TypesInv
  <2> QED
    BY <1>5, <1>8, <2>1, <2>2, StakesStay
<1>11. Correct(t, p, d, day)
  BY <1>5, <1>9, <1>10 DEF Correct
<1>12. IsStore(t) /\ \A q \in Projs \ {p} : SameAt(store, t, q)
  BY DEF Changes
<1> QED
  BY <1>3, <1>4, <1>11, <1>12, OnlyOneChanges DEF d

\* _addOrExtendSubscription: what its event tells
LEMMA ExtensionIs ==
    ASSUME ProjectsInv, NEW p \in Projs, NEW user \in Users, NEW events, IsLog(events),
           state[p] = 1, Extend(p, user, events)
    PROVE  \E end, first :
              /\ end \in Nat
              /\ subscriptions' = [subscriptions EXCEPT ![p][user] = end]
              /\ store' = HandleAll(first, events)
              /\ Changes(store, first, p, {"subscriptions"})
              /\ SubscriptionsOK(first, p, Held(p)')
              /\ PurchasesOK(first, p, Held(p))
<1> DEFINE end == (IF subscriptions[p][user] > day THEN subscriptions[p][user] ELSE day) + 1
           e == [name |-> "Subscribed", project |-> p, user |-> user, end |-> end]
           first == Handle(store, e)
           c == Held(p)
           d == Held(p)'
<1>1. /\ TypesInv /\ IsStore(store) /\ Correct(store, p, c, day)
  BY DEF ProjectsInv
<1>2. end \in Nat
  <2>1. subscriptions[p][user] \in Nat /\ day \in Nat
    BY <1>1 DEF TypesInv
  <2> QED
    BY <2>1
<1>3. /\ subscriptions' = [subscriptions EXCEPT ![p][user] = end]
      /\ store' = HandleAll(store, <<e>> \o events)
  BY DEF Extend, Emit
<1>4. e.name = "Subscribed" /\ e.project = p /\ e.user = user /\ e.end = end
  OBVIOUS
<1> HIDE DEF e, end
<1>5. store' = HandleAll(first, events)
  <2> DEFINE a == <<e>>
  <2>1. IsLog(a)
    <3>1. a \in Seq({e})
      OBVIOUS
    <3> QED
      BY <3>1 DEF IsLog
  <2>2. HandleAll(store, a) = first
    BY OneToHandle
  <2>3. store' = HandleAll(store, a \o events)
    BY <1>3
  <2> HIDE DEF a, first
  <2>4. HandleAll(store, a \o events) = HandleAll(HandleAll(store, a), events)
    BY <2>1, LogsInTurn
  <2> QED
    BY <2>2, <2>3, <2>4
<1>6. /\ Changes(store, first, p, {"subscriptions"})
      /\ Project(first, p).subscriptions = Project(store, p).subscriptions \cup {user}
      /\ first.subscriptions = Save(store.subscriptions, <<p, user>>, end)
  BY <1>1, <1>4, SubscriptionHandled
<1> HIDE DEF first
<1>7. /\ c.state = 1 /\ DOMAIN c.subscriptions = Users
      /\ d.subscriptions = [c.subscriptions EXCEPT ![user] = end]
  <2>1. /\ subscriptions[p] \in [Users -> Nat]
        /\ subscriptions'[p] = [subscriptions[p] EXCEPT ![user] = end]
    BY <1>1, <1>3 DEF TypesInv
  <2> QED
    BY <2>1 DEF Held
<1> HIDE DEF c, d
<1>8. IsShown(store, p, c)
  BY <1>1, <1>7 DEF Correct
<1>9. SubscriptionsOK(first, p, d)
  BY <1>6, <1>7, <1>8, SubscriptionSaved DEF IsShown
<1>10. PurchasesOK(first, p, c)
  BY <1>6, <1>8, PurchasesStay DEF IsShown
<1> QED
  BY <1>2, <1>3, <1>5, <1>6, <1>9, <1>10 DEF c, d

LEMMA GrantSubscriptionKeeps ==
    ASSUME ProjectsInv, NEW p \in Projs, NEW user \in Users, GrantSubscription(p, user)
    PROVE  ProjectsInv'
<1>1. IsLog(<<>>)
  <2>1. <<>> \in Seq({})
    OBVIOUS
  <2> QED
    BY <2>1 DEF IsLog
<1>2. /\ state[p] = 1 /\ Extend(p, user, <<>>) /\ bought' = bought
      /\ UNCHANGED <<state, streams, index, permissions, payments, staked, projectStake,
                     day, repeated>>
  BY DEF GrantSubscription, Exists, Extend, stakingVars
<1>3. PICK end, t :
         /\ end \in Nat
         /\ subscriptions' = [subscriptions EXCEPT ![p][user] = end]
         /\ store' = HandleAll(t, <<>>)
         /\ Changes(store, t, p, {"subscriptions"})
         /\ SubscriptionsOK(t, p, Held(p)')
         /\ PurchasesOK(t, p, Held(p))
  BY <1>1, <1>2, ExtensionIs
<1>4. store' = t
  BY <1>3, NothingToHandle
<1>5. PurchasesOK(t, p, Held(p)')
  <2>1. Held(p).bought = bought[p] /\ Held(p)'.bought = bought'[p]
    BY DEF Held
  <2> QED
    BY <1>2, <1>3, <2>1 DEF PurchasesOK
<1>6. bought' \in [Projs -> Nat] /\ \A q \in Projs \ {p} : bought'[q] = bought[q]
  BY <1>2 DEF ProjectsInv, TypesInv
<1>7. {"subscriptions"} \subseteq {"subscriptions", "purchases", "counter"}
  OBVIOUS
<1> DEFINE parts == {"subscriptions"}
<1> HIDE DEF parts
<1> QED
  BY <1>2, <1>3, <1>4, <1>5, <1>6, <1>7, SubscribingKeeps DEF parts

LEMMA BuyForKeeps ==
    ASSUME ProjectsInv, NEW p \in Projs, NEW user \in Users, BuyFor(p, user)
    PROVE  ProjectsInv'
<1> DEFINE e == [name |-> "ProjectPurchased", project |-> p, user |-> user]
           log == <<e>>
<1>1. IsLog(log)
  <2>1. log \in Seq({e})
    OBVIOUS
  <2> QED
    BY <2>1 DEF IsLog
<1>2. /\ state[p] = 1 /\ Extend(p, user, log)
      /\ bought' = [bought EXCEPT ![p] = @ + 1]
      /\ UNCHANGED <<state, streams, index, permissions, payments, staked, projectStake,
                     day, repeated>>
  BY DEF BuyFor, HasPermissionType, Exists, Extend, stakingVars
<1>3. e.name = "ProjectPurchased" /\ e.project = p /\ e.user = user
  OBVIOUS
<1> HIDE DEF e
<1>4. \A st : HandleAll(st, log) = Handle(st, e)
  BY OneToHandle
<1> HIDE DEF log
<1>5. PICK end, first :
         /\ end \in Nat
         /\ subscriptions' = [subscriptions EXCEPT ![p][user] = end]
         /\ store' = HandleAll(first, log)
         /\ Changes(store, first, p, {"subscriptions"})
         /\ SubscriptionsOK(first, p, Held(p)')
         /\ PurchasesOK(first, p, Held(p))
  BY <1>1, <1>2, ExtensionIs
<1> DEFINE t == Handle(first, e)
           others == {"purchases", "counter"}
           parts == {"subscriptions"} \cup others
<1>6. IsStore(first)
  BY <1>5 DEF Changes
<1>7. /\ Changes(first, t, p, others)
      /\ Project(t, p).counter = Project(first, p).counter + 1
      /\ Project(t, p).purchases =
            Project(first, p).purchases \cup {<<user, Project(first, p).counter + 1>>}
  BY <1>3, <1>6, PurchaseHandled
<1>8. store' = t
  BY <1>4, <1>5
<1> HIDE DEF t
<1>9. "subscriptions" \notin others /\ parts \subseteq {"subscriptions", "purchases", "counter"}
  OBVIOUS
<1>10. Changes(store, t, p, parts)
  <2> HIDE DEF others
  <2> QED
    BY <1>5, <1>7, ChangesChain
<1> HIDE DEF parts, others
<1>11. bought \in [Projs -> Nat]
  BY DEF ProjectsInv, TypesInv
<1>12. bought' \in [Projs -> Nat] /\ \A q \in Projs \ {p} : bought'[q] = bought[q]
  BY <1>2, <1>11
<1>13. PurchasesOK(t, p, Held(p)')
  <2>1. /\ Held(p).bought = bought[p] /\ Held(p)'.bought = bought'[p]
        /\ bought'[p] = bought[p] + 1 /\ bought[p] \in Nat
    BY <1>2, <1>11 DEF Held
  <2> DEFINE c == Held(p)
             d == Held(p)'
  <2>2. PurchasesOK(first, p, c) /\ c.bought \in Nat /\ d.bought = c.bought + 1
    BY <1>5, <2>1
  <2> HIDE DEF c, d
  <2>3. PurchasesOK(t, p, d)
    BY <1>6, <1>7, <2>2, PurchaseSaved
  <2> QED
    BY <2>3 DEF d
<1>14. SubscriptionsOK(t, p, Held(p)')
  <2> DEFINE d == Held(p)'
  <2>1. SubscriptionsOK(first, p, d)
    BY <1>5
  <2> HIDE DEF d
  <2>2. SubscriptionsOK(t, p, d)
    BY <1>7, <1>9, <2>1, SubscriptionsStay
  <2> QED
    BY <2>2 DEF d
<1> QED
  BY <1>2, <1>5, <1>8, <1>9, <1>10, <1>12, <1>13, <1>14, SubscribingKeeps

-----------------------------------------------------------------------------
(* The stakes *)

LEMMA FollowingIs ==
    ASSUME NEW st, NEW p, NEW total, NEW d \in Int, NEW m \in d + 1 .. MaxDay,
           <<p, m>> \in DOMAIN st.days,
           \A e \in d + 1 .. MaxDay : <<p, e>> \in DOMAIN st.days => m <= e
    PROVE  Following(st, p, total, d) = st.days[<<p, m>>].stakeAtStart
<1> DEFINE later == {e \in d + 1 .. MaxDay : <<p, e>> \in DOMAIN st.days}
<1>1. m \in later /\ \A e \in later : m <= e
  OBVIOUS
<1>2. later \in SUBSET Int
  BY ProjectsAssumption
<1> HIDE DEF later
<1>3. Min(later) \in later /\ \A e \in later : Min(later) <= e
  BY <1>1 DEF Min
<1>4. Min(later) = m
  <2> DEFINE k == Min(later)
  <2>1. k \in later /\ k <= m /\ m <= k
    BY <1>1, <1>3
  <2>2. k \in Int /\ m \in Int
    BY <1>1, <1>2, <2>1
  <2> HIDE DEF k
  <2>3. k = m
    BY <2>1, <2>2
  <2> QED
    BY <2>3 DEF k
<1>5. later # {}
  BY <1>1
<1> QED
  BY <1>4, <1>5 DEF Following, later

LEMMA NothingFollows ==
    ASSUME NEW st, NEW p, NEW total, NEW d,
           \A e \in d + 1 .. MaxDay : <<p, e>> \notin DOMAIN st.days
    PROVE  Following(st, p, total, d) = total
  BY DEF Following

LEMMA NextDayExists ==
    ASSUME NEW st, NEW p, NEW d \in Int, NEW e \in d + 1 .. MaxDay, <<p, e>> \in DOMAIN st.days
    PROVE  \E m \in d + 1 .. MaxDay :
              /\ <<p, m>> \in DOMAIN st.days
              /\ \A i \in d + 1 .. MaxDay : <<p, i>> \in DOMAIN st.days => m <= i
<1> DEFINE later == {i \in d + 1 .. MaxDay : <<p, i>> \in DOMAIN st.days}
<1>1. later \in SUBSET Int /\ IsFiniteSet(later)
  <2>1. d + 1 \in Int /\ MaxDay \in Int /\ later \subseteq d + 1 .. MaxDay
    BY ProjectsAssumption
  <2>2. IsFiniteSet(d + 1 .. MaxDay) /\ d + 1 .. MaxDay \subseteq Int
    BY <2>1, FS_Interval
  <2> HIDE DEF later
  <2> QED
    BY <2>1, <2>2, FS_Subset
<1>2. later # {}
  OBVIOUS
<1>3. PICK m \in later : \A i \in later : m <= i
  <2> HIDE DEF later
  <2> QED
    BY <1>1, <1>2, SmallestExists
<1> QED
  BY <1>3

\* The bucket of today takes the change: it and the buckets before it still add up.
LEMMA TodayTakesTheChange ==
    ASSUME NEW st, IsStore(st), NEW t, NEW p, NEW today \in Nat, 1 <= today,
           1 <= MaxDay => today <= MaxDay, NEW total \in Int, NEW change \in Int,
           DaysOK(st, p, total), Project(st, p).stakedWei = total,
           \A e \in 1 .. MaxDay : <<p, e>> \in DOMAIN st.days => e <= today,
           NEW new \in Buckets, t.days = Save(st.days, <<p, today>>, new),
           new.stakeAtStart = StakingBucket(st, p, today).stakeAtStart,
           new.stakeChange = StakingBucket(st, p, today).stakeChange + change,
           new.stakingsWei - new.unstakingsWei
              = StakingBucket(st, p, today).stakingsWei - StakingBucket(st, p, today).unstakingsWei
                   + change
    PROVE  DaysOK(t, p, total + change)
<1> DEFINE was == StakingBucket(st, p, today)
           sum == total + change
<1>1. MaxDay \in Nat
  BY ProjectsAssumption
<1>2. /\ was \in Buckets
      /\ <<p, today>> \in DOMAIN st.days => was = st.days[<<p, today>>]
      /\ <<p, today>> \notin DOMAIN st.days =>
           /\ was.stakeAtStart = total
           /\ was.stakeChange = 0 /\ was.stakingsWei = 0 /\ was.unstakingsWei = 0
  BY BucketIs
<1>3. /\ new.stakeAtStart = was.stakeAtStart
      /\ new.stakeChange = was.stakeChange + change
      /\ new.stakingsWei - new.unstakingsWei = was.stakingsWei - was.unstakingsWei + change
  OBVIOUS
<1> HIDE DEF was
<1>4. /\ DOMAIN t.days = DOMAIN st.days \cup {<<p, today>>} /\ t.days[<<p, today>>] = new
      /\ \A e : e # today => /\ <<p, e>> \in DOMAIN t.days <=> <<p, e>> \in DOMAIN st.days
                             /\ <<p, e>> \in DOMAIN st.days =>
                                   t.days[<<p, e>>] = st.days[<<p, e>>]
  <2>1. /\ DOMAIN t.days = DOMAIN st.days \cup {<<p, today>>} /\ t.days[<<p, today>>] = new
        /\ \A x \in DOMAIN st.days : x # <<p, today>> => t.days[x] = st.days[x]
    BY DEF Save
  <2>2. \A e : e # today => <<p, e>> # <<p, today>>
    OBVIOUS
  <2> QED
    BY <2>1, <2>2
<1>5. /\ was.stakeAtStart \in Int /\ was.stakeChange \in Int
      /\ was.stakingsWei \in Int /\ was.unstakingsWei \in Int
  BY <1>2 DEF Buckets
<1>6. ASSUME NEW d \in 1 .. MaxDay, <<p, d>> \in DOMAIN st.days
      PROVE  /\ st.days[<<p, d>>].stakeChange
                  = st.days[<<p, d>>].stakingsWei - st.days[<<p, d>>].unstakingsWei
             /\ st.days[<<p, d>>].stakeAtStart + st.days[<<p, d>>].stakeChange
                  = Following(st, p, total, d)
  BY <1>6 DEF DaysOK
<1>7. ASSUME today \in 1 .. MaxDay
      PROVE  /\ was.stakeChange = was.stakingsWei - was.unstakingsWei
             /\ was.stakeAtStart + was.stakeChange = total
  <2>1. CASE <<p, today>> \in DOMAIN st.days
    <3>1. \A e \in today + 1 .. MaxDay : <<p, e>> \notin DOMAIN st.days
      BY <1>1, <1>7
    <3>2. Following(st, p, total, today) = total
      BY <3>1, NothingFollows
    <3> QED
      BY <1>2, <1>6, <1>7, <2>1, <3>2
  <2>2. CASE <<p, today>> \notin DOMAIN st.days
    BY <1>2, <2>2
  <2> QED
    BY <2>1, <2>2
<1>8. ASSUME NEW d \in 1 .. MaxDay, <<p, d>> \in DOMAIN t.days
      PROVE  LET bucket == t.days[<<p, d>>]
             IN  /\ bucket.stakeChange = bucket.stakingsWei - bucket.unstakingsWei
                 /\ bucket.stakeAtStart + bucket.stakeChange = Following(t, p, sum, d)
  <2>1. today \in 1 .. MaxDay /\ d \in Int
    BY <1>1
  <2>2. CASE d = today
    <3>1. \A e \in today + 1 .. MaxDay : <<p, e>> \notin DOMAIN t.days
      BY <1>1, <1>4, <2>1
    <3>2. Following(t, p, sum, today) = sum
      BY <3>1, NothingFollows
    <3>3. new.stakeChange = new.stakingsWei - new.unstakingsWei
      BY <1>3, <1>5, <1>7, <2>1
    <3>4. new.stakeAtStart + new.stakeChange = sum
      <4> DEFINE x == was.stakeAtStart
                 y == was.stakeChange
      <4>1. x \in Int /\ y \in Int /\ x + y = total
        BY <1>5, <1>7, <2>1
      <4>2. new.stakeAtStart = x /\ new.stakeChange = y + change
        BY <1>3
      <4> HIDE DEF x, y
      <4>3. x + (y + change) = (x + y) + change
        BY <4>1
      <4> QED
        BY <4>1, <4>2, <4>3
    <3> QED
      BY <1>4, <2>2, <3>2, <3>3, <3>4
  <2>3. CASE d # today
    <3>1. <<p, d>> \in DOMAIN st.days /\ t.days[<<p, d>>] = st.days[<<p, d>>] /\ d < today
      <4>1. <<p, d>> \in DOMAIN st.days /\ t.days[<<p, d>>] = st.days[<<p, d>>]
        BY <1>4, <1>8, <2>3
      <4> QED
        BY <2>1, <2>3, <4>1
    <3>2. today \in d + 1 .. MaxDay /\ <<p, today>> \in DOMAIN t.days
      BY <1>1, <1>4, <2>1, <3>1
    <3>3. PICK m \in d + 1 .. MaxDay :
             /\ <<p, m>> \in DOMAIN t.days
             /\ \A i \in d + 1 .. MaxDay : <<p, i>> \in DOMAIN t.days => m <= i
      BY <2>1, <3>2, NextDayExists
    <3>4. Following(t, p, sum, d) = t.days[<<p, m>>].stakeAtStart
      BY <2>1, <3>3, FollowingIs
    <3>5. Following(st, p, total, d) = t.days[<<p, m>>].stakeAtStart
      <4>1. CASE <<p, m>> \in DOMAIN st.days
        <5>1. \A i \in d + 1 .. MaxDay : <<p, i>> \in DOMAIN st.days => m <= i
          BY <1>4, <3>3
        <5>2. Following(st, p, total, d) = st.days[<<p, m>>].stakeAtStart
          BY <2>1, <4>1, <5>1, FollowingIs
        <5>3. t.days[<<p, m>>].stakeAtStart = st.days[<<p, m>>].stakeAtStart
          BY <1>2, <1>3, <1>4, <4>1
        <5> QED
          BY <5>2, <5>3
      <4>2. CASE <<p, m>> \notin DOMAIN st.days
        <5>1. m = today
          BY <1>4, <3>3, <4>2
        <5>2. \A e \in d + 1 .. MaxDay : <<p, e>> \notin DOMAIN st.days
          <6> SUFFICES ASSUME NEW e \in d + 1 .. MaxDay, <<p, e>> \in DOMAIN st.days
                       PROVE  FALSE
            OBVIOUS
          <6>1. e \in 1 .. MaxDay /\ e # today
            BY <1>1, <4>2, <5>1
          <6>2. e <= today /\ <<p, e>> \in DOMAIN t.days
            BY <1>4, <6>1
          <6>3. today <= e
            BY <3>3, <5>1, <6>2
          <6> QED
            BY <1>1, <6>1, <6>2, <6>3
        <5>3. Following(st, p, total, d) = total
          BY <5>2, NothingFollows
        <5>4. t.days[<<p, m>>].stakeAtStart = total
          BY <1>2, <1>3, <1>4, <4>2, <5>1
        <5> QED
          BY <5>3, <5>4
      <4> QED
        BY <4>1, <4>2
    <3> QED
      BY <1>6, <3>1, <3>4, <3>5
  <2> QED
    BY <2>2, <2>3
<1> QED
  BY <1>8 DEF DaysOK

\* What the events of stake and unstake tell, whatever becomes of the project.
LEMMA StakeSaved ==
    ASSUME NEW st, IsStore(st), NEW p \in Projs, NEW c, NEW d, NEW today \in Nat, 1 <= today,
           1 <= MaxDay => today <= MaxDay, StakesOK(st, p, c, today),
           NEW user \in Users, NEW change \in Int, c.staked \in [Users -> Nat],
           d.staked \in [Users -> Nat], d.staked = [c.staked EXCEPT ![user] = @ + change],
           d.projectStake = c.projectStake + change, c.projectStake \in Int,
           d.state = c.state, c.state = 0 => change = 0,
           NEW t, StakeIsTold(st, t, p, user, today, d.projectStake, change)
    PROVE  StakesOK(t, p, d, today)
<1>1. /\ Project(t, p).stakedWei = d.projectStake
      /\ Project(t, p).score = Project(st, p).score + change
      /\ t.stakes = Save(st.stakes, <<p, user>>, ProjectStake(st, p, user) + change)
  BY DEF StakeIsTold
<1>2. PICK new \in Buckets :
         /\ t.days = Save(st.days, <<p, today>>, new)
         /\ new.stakeAtStart = StakingBucket(st, p, today).stakeAtStart
         /\ new.stakeChange = StakingBucket(st, p, today).stakeChange + change
         /\ new.stakingsWei - new.unstakingsWei
              = StakingBucket(st, p, today).stakingsWei
                   - StakingBucket(st, p, today).unstakingsWei + change
  BY DEF StakeIsTold
<1>3. /\ \A u \in Users : ProjectStake(st, p, u) = c.staked[u]
      /\ c.projectStake = SumFunction(c.staked)
      /\ \A e \in 1 .. MaxDay : <<p, e>> \in DOMAIN st.days => e <= today
      /\ c.state = 0 => \A u \in Users : c.staked[u] = 0
      /\ c.state # 2 => /\ Project(st, p).stakedWei = c.projectStake
                        /\ Project(st, p).score = c.projectStake
                        /\ DaysOK(st, p, c.projectStake)
  BY DEF StakesOK
<1>4. /\ d.staked[user] = c.staked[user] + change
      /\ \A u \in Users : u # user => d.staked[u] = c.staked[u]
  OBVIOUS
<1>5. ASSUME NEW u \in Users
      PROVE  ProjectStake(t, p, u) = d.staked[u]
  <2>1. /\ DOMAIN t.stakes = DOMAIN st.stakes \cup {<<p, user>>}
        /\ t.stakes[<<p, user>>] = ProjectStake(st, p, user) + change
        /\ \A x \in DOMAIN st.stakes : x # <<p, user>> => t.stakes[x] = st.stakes[x]
    BY <1>1 DEF Save
  <2>2. CASE u = user
    BY <1>3, <1>4, <2>1, <2>2, ProjectStakeIs
  <2>3. CASE u # user
    <3>1. <<p, u>> # <<p, user>>
      BY <2>3
    <3>2. ProjectStake(t, p, u) = ProjectStake(st, p, u)
      BY <2>1, <3>1, ProjectStakeIs
    <3> QED
      BY <1>3, <1>4, <2>3, <3>2
  <2> QED
    BY <2>2, <2>3
<1>6. d.projectStake = SumFunction(d.staked)
  <2> DEFINE f == c.staked
             g == d.staked
  <2>1. /\ \A u \in Users : f[u] \in Int /\ g[u] \in Int
        /\ \A u \in Users \ {user} : g[u] = f[u]
        /\ DOMAIN f = Users /\ DOMAIN g = Users /\ g[user] = f[user] + change
    BY <1>4
  <2>2. SumFunction(f) = SumFunctionOnSet(f, Users) /\ SumFunction(g) = SumFunctionOnSet(g, Users)
    BY <2>1, SumOverDomain
  <2> HIDE DEF f, g
  <2>3. SumFunctionOnSet(g, Users) = SumFunctionOnSet(f, Users) - f[user] + g[user]
    <3>1. IsFiniteSet(Users)
      BY ProjectsAssumption
    <3> QED
      BY <2>1, <3>1, SumChangesAtOne
  <2>4. c.projectStake = SumFunction(f) /\ f[user] \in Int
    BY <1>3, <2>1 DEF f
  <2>5. d.projectStake = SumFunction(g)
    BY <2>1, <2>2, <2>3, <2>4
  <2> QED
    BY <2>5 DEF g
<1>7. ASSUME NEW e \in 1 .. MaxDay, <<p, e>> \in DOMAIN t.days
      PROVE  e <= today
  <2>1. DOMAIN t.days = DOMAIN st.days \cup {<<p, today>>}
    BY <1>2 DEF Save
  <2>2. CASE e = today
    BY <2>2
  <2>3. CASE e # today
    <3>1. <<p, e>> # <<p, today>>
      BY <2>3
    <3> QED
      BY <1>3, <1>7, <2>1, <3>1
  <2> QED
    BY <2>2, <2>3
<1>8. ASSUME d.state = 0, NEW u \in Users
      PROVE  d.staked[u] = 0
  BY <1>3, <1>4, <1>8
<1>9. ASSUME d.state # 2
      PROVE  /\ Project(t, p).stakedWei = d.projectStake
             /\ Project(t, p).score = d.projectStake
             /\ DaysOK(t, p, d.projectStake)
  <2> DEFINE total == c.projectStake
  <2>1. total \in Int /\ DaysOK(st, p, total) /\ Project(st, p).stakedWei = total
    BY <1>3, <1>9
  <2> HIDE DEF total
  <2>2. DaysOK(t, p, total + change)
    BY <1>3, <1>2, <2>1, TodayTakesTheChange
  <2> QED
    BY <1>3, <1>9, <1>1, <2>2 DEF total
<1> QED
  BY <1>5, <1>6, <1>7, <1>8, <1>9 DEF StakesOK

LEMMA StakeChangeKeeps ==
    ASSUME ProjectsInv, NEW p \in Projs, NEW user \in Users, NEW amount \in Nat,
           NEW change \in Int, NEW name,
           \/ name = "Stake" /\ change = amount
           \/ name = "Unstake" /\ change = -amount,
           staked[p][user] + change >= 0, state[p] = 0 => change = 0,
           StakeChange(p, user, amount, change, name)
    PROVE  ProjectsInv'
<1> DEFINE total == projectStake[p] + change
           e == [name |-> name, project |-> p, user |-> user, amount |-> amount, day |-> day,
                 projectStake |-> total]
           t == Handle(store, e)
           c == Held(p)
           d == Held(p)'
           parts == {"score", "stakedWei"}
<1>1. /\ TypesInv /\ IsStore(store) /\ Correct(store, p, c, day)
  BY DEF ProjectsInv
<1>2. /\ staked' = [staked EXCEPT ![p][user] = @ + change]
      /\ projectStake' = [projectStake EXCEPT ![p] = @ + change]
      /\ store' = HandleAll(store, <<e>>)
      /\ UNCHANGED <<state, streams, index, permissions, subscriptions, payments, day,
                     repeated, bought>>
  BY DEF StakeChange, Emit
<1>3. store' = t
  BY <1>2, OneToHandle
<1>4. total \in Int
  BY <1>1 DEF TypesInv
<1>5. /\ e.name \in {"Stake", "Unstake"} /\ e.project = p /\ e.user = user
      /\ e.amount \in Nat /\ e.day = day /\ e.projectStake \in Int /\ e.projectStake = total
      /\ change = IF e.name = "Stake" THEN e.amount ELSE -e.amount
  BY <1>4
<1> HIDE DEF e
<1>6. StakeIsTold(store, t, p, user, day, total, change)
  <2>1. StakeIsTold(store, t, p, e.user, e.day, e.projectStake, ChangeOf(e))
    BY <1>1, <1>5, StakeHandled
  <2>2. ChangeOf(e) = change
    BY <1>5 DEF ChangeOf
  <2> QED
    BY <1>5, <2>1, <2>2
<1>7. Changes(store, t, p, parts)
  BY <1>6 DEF StakeIsTold
<1> HIDE DEF t
<1>8. /\ staked'[p] = [staked[p] EXCEPT ![user] = @ + change] /\ staked'[p] \in [Users -> Nat]
      /\ staked[p] \in [Users -> Nat] /\ projectStake'[p] = total /\ projectStake[p] \in Int
      /\ DOMAIN staked' = Projs /\ DOMAIN projectStake' = Projs
      /\ \A q \in Projs \ {p} : staked'[q] = staked[q] /\ projectStake'[q] = projectStake[q]
  <2>1. staked \in [Projs -> [Users -> Nat]] /\ projectStake \in [Projs -> Int]
    BY <1>1 DEF TypesInv
  <2>2. staked[p][user] + change \in Nat
    BY <2>1
  <2> QED
    BY <1>2, <2>1, <2>2
<1>9. TypesInv'
  <2>1. staked' \in [Projs -> [Users -> Nat]]
    <3>1. \A q \in Projs : staked'[q] \in [Users -> Nat]
      BY <1>1, <1>8 DEF TypesInv
    <3>2. staked' = [q \in Projs |-> staked'[q]]
      BY <1>1, <1>2 DEF TypesInv
    <3> QED
      BY <3>1, <3>2
  <2>2. projectStake' \in [Projs -> Int]
    BY <1>1, <1>2, <1>4 DEF TypesInv
  <2> QED
    BY <1>1, <1>2, <2>1, <2>2 DEF TypesInv
<1>10. \A q \in Projs \ {p} : Held(q)' = Held(q)
  BY <1>2, <1>8 DEF Held
<1>11. /\ c.state = state[p] /\ d.state = c.state
       /\ d.streams = c.streams /\ d.index = c.index /\ d.payments = c.payments
       /\ d.permissions = c.permissions /\ d.subscriptions = c.subscriptions
       /\ d.bought = c.bought /\ d.repeated = c.repeated
  BY <1>2 DEF Held
<1>12. /\ c.staked \in [Users -> Nat] /\ d.staked \in [Users -> Nat]
       /\ d.staked = [c.staked EXCEPT ![user] = @ + change]
       /\ d.projectStake = c.projectStake + change /\ c.projectStake \in Int
       /\ d.projectStake = total
  BY <1>8 DEF Held
<1> HIDE DEF c, d, total
<1>13. StakesOK(t, p, d, day)
  <2>1. /\ day \in Nat /\ 1 <= day /\ (1 <= MaxDay => day <= MaxDay)
        /\ StakesOK(store, p, c, day)
    BY <1>1 DEF TypesInv, Correct
  <2>2. c.state = 0 => change = 0
    BY <1>11
  <2>3. StakeIsTold(store, t, p, user, day, d.projectStake, change)
    BY <1>6, <1>12
  <2> QED
    BY <1>1, <1>11, <1>12, <2>1, <2>2, <2>3, StakeSaved
<1>14. /\ "streams" \notin parts /\ "permissions" \notin parts /\ "subscriptions" \notin parts
       /\ "payments" \notin parts /\ "purchases" \notin parts /\ "counter" \notin parts
  OBVIOUS
<1> HIDE DEF parts
<1>15. ASSUME d.state = 0
       PROVE  Fresh(t, p, d)
  <2>1. Fresh(store, p, c)
    BY <1>1, <1>11, <1>15 DEF Correct
  <2> QED
    BY <1>7, <1>11, <1>14, <2>1, FreshStays
<1>16. ASSUME d.state = 1
       PROVE  IsShown(t, p, d)
  <2>1. IsShown(store, p, c)
    BY <1>1, <1>11, <1>16 DEF Correct
  <2>2. StreamsOK(t, p, d)
    BY <1>7, <1>11, <1>14, <2>1, StreamsStay DEF IsShown
  <2>3. p \in DOMAIN t.projects
    BY <1>7, <2>1 DEF Changes, IsShown
  <2>4. RightsOK(t, p, d.permissions, 1)
    BY <1>7, <1>11, <1>14, <2>1, RightsStay DEF IsShown
  <2>5. SubscriptionsOK(t, p, d)
    BY <1>7, <1>11, <1>14, <2>1, SubscriptionsStay DEF IsShown
  <2>6. PaymentsOK(t, p, d.payments)
    BY <1>7, <1>11, <1>14, <2>1, PaymentsStay DEF IsShown
  <2>7. PurchasesOK(t, p, d)
    BY <1>7, <1>11, <1>14, <2>1, PurchasesStay DEF IsShown
  <2> QED
    BY <2>2, <2>3, <2>4, <2>5, <2>6, <2>7 DEF IsShown
<1>17. Correct(t, p, d, day)
  BY <1>13, <1>15, <1>16 DEF Correct
<1> QED
  BY <1>2, <1>3, <1>7, <1>9, <1>10, <1>17, OnlyOneChanges DEF Changes, d

LEMMA StakeKeeps ==
    ASSUME ProjectsInv, NEW p \in Projs, NEW user \in Users, NEW amount \in Nat,
           Stake(p, user, amount)
    PROVE  ProjectsInv'
<1>1. state[p] = 1 /\ StakeChange(p, user, amount, amount, "Stake")
  BY DEF Stake, Exists
<1>2. staked[p][user] \in Nat
  BY DEF ProjectsInv, TypesInv
<1>3. amount \in Int /\ staked[p][user] + amount >= 0 /\ (state[p] = 0 => amount = 0)
  BY <1>1, <1>2
<1> QED
  BY <1>1, <1>3, StakeChangeKeeps

LEMMA UnstakeKeeps ==
    ASSUME ProjectsInv, NEW p \in Projs, NEW user \in Users, NEW amount \in Nat,
           Unstake(p, user, amount)
    PROVE  ProjectsInv'
<1>1. staked[p][user] >= amount /\ StakeChange(p, user, amount, -amount, "Unstake")
  BY DEF Unstake
<1>2. staked[p][user] \in Nat
  BY DEF ProjectsInv, TypesInv
<1> DEFINE change == -amount
<1>3. change \in Int /\ staked[p][user] + change >= 0
  BY <1>1, <1>2
<1>4. state[p] = 0 => change = 0
  <2> SUFFICES ASSUME state[p] = 0
               PROVE  change = 0
    OBVIOUS
  <2>1. staked[p][user] = 0
    <3>1. StakesOK(store, p, Held(p), day)
      BY DEF ProjectsInv, Correct
    <3>2. Held(p).state = state[p] /\ Held(p).staked = staked[p]
      BY DEF Held
    <3> QED
      BY <3>1, <3>2 DEF StakesOK
  <2> QED
    BY <1>1, <2>1
<1>5. StakeChange(p, user, amount, change, "Unstake") /\ change = -amount
  BY <1>1
<1> HIDE DEF change
<1> QED
  BY <1>3, <1>4, <1>5, StakeChangeKeeps

-----------------------------------------------------------------------------
(* createProject *)

Owners(user, isPublicPurchable) == <<user>> \o IF isPublicPurchable THEN <<Public>> ELSE <<>>

LEMMA OwnersAre ==
    ASSUME NEW user \in Users, NEW isPublicPurchable
    PROVE  \E n \in Nat :
              /\ DOMAIN Owners(user, isPublicPurchable) = 1 .. n
              /\ \A i \in 1 .. n : Owners(user, isPublicPurchable)[i] \in Targets
<1> DEFINE a == <<user>>
           b == IF isPublicPurchable THEN <<Public>> ELSE <<>>
           owners == a \o b
<1>1. a \in Seq(Targets) /\ b \in Seq(Targets)
  <2>1. user \in Targets /\ Public \in Targets
    BY DEF Targets
  <2>2. <<user>> \in Seq(Targets) /\ <<Public>> \in Seq(Targets) /\ <<>> \in Seq(Targets)
    BY <2>1
  <2> QED
    BY <2>2, Zenon
<1> HIDE DEF a, b
<1>2. owners \in Seq(Targets)
  BY <1>1
<1>3. Owners(user, isPublicPurchable) = owners
  BY DEF Owners, a, b
<1> HIDE DEF owners
<1>4. /\ Len(owners) \in Nat /\ DOMAIN owners = 1 .. Len(owners)
      /\ \A i \in 1 .. Len(owners) : owners[i] \in Targets
  BY <1>2
<1> QED
  BY <1>3, <1>4

\* What the entities show of a project after the events of createProject.
CreationIsTold(st, t, p, list, details, keys) ==
    /\ Changes(st, t, p, CreatedParts \cup {"payments"}) /\ p \in DOMAIN t.projects
    /\ Project(t, p).streams = list
    /\ Project(t, p).counter = 0 /\ Project(t, p).score = 0
    /\ RightsOK(t, p, keys, 1)
    /\ PaymentsOK(t, p, details)

LEMMA CreationTold ==
    ASSUME NEW st, IsStore(st), NEW p \in Projs, NEW a \in Seq(StreamEvents(p)),
           NEW list \in Seq(Streams), NEW e, e.name = "ProjectCreated", e.project = p,
           e.streams = list, NEW details, DOMAIN details \subseteq Domains,
           NEW base, NoKeys(base), NEW users, NEW rightsOf, NEW n, NEW iter, NEW log,
           RightsSet(p, 1, base, users, rightsOf, n, iter, log), IsLog(log)
    PROVE  CreationIsTold(st, HandleAll(st, a \o <<e>> \o PaymentEvents(p, details) \o log),
                          p, list, details, iter[1 .. n])
<1> DEFINE b == <<e>>
           f == PaymentEvents(p, details)
           ab == a \o b
           abf == ab \o f
           first == HandleAll(st, a)
           second == Handle(first, e)
           third == HandleAll(second, f)
           t == HandleAll(third, log)
           last == iter[1 .. n]
<1>1. IsLog(a) /\ IsLog(b) /\ IsLog(f)
  <2>1. b \in Seq({e})
    OBVIOUS
  <2>2. IsLog(f)
    BY PaymentEventsAreLog
  <2> QED
    BY <2>1, <2>2 DEF IsLog
<1>2. HandleAll(first, b) = second
  BY OneToHandle
<1>3. HandleAll(st, a \o <<e>> \o PaymentEvents(p, details) \o log) = t
  <2>1. HandleAll(st, ab) = second /\ IsLog(ab)
    <3> HIDE DEF b, second
    <3> QED
      BY <1>1, <1>2, LogsInTurn
  <2>2. HandleAll(st, abf) = third /\ IsLog(abf)
    <3> HIDE DEF ab, f, second
    <3> QED
      BY <1>1, <2>1, LogsInTurn
  <2>3. HandleAll(st, abf \o log) = t
    <3> HIDE DEF abf, third
    <3> QED
      BY <2>2, LogsInTurn
  <2> HIDE DEF t
  <2> QED
    BY <2>3
<1> HIDE DEF b, ab, abf
<1>4. Changes(st, first, p, {"streams"})
  BY StreamLogIs
<1> HIDE DEF first
<1>5. IsStore(first)
  BY <1>4 DEF Changes
<1>6. /\ Changes(first, second, p, CreatedParts) /\ p \in DOMAIN second.projects
      /\ Project(second, p).streams = list /\ Project(second, p).permissions = {}
      /\ Project(second, p).counter = 0 /\ Project(second, p).score = 0
  BY <1>5, CreationHandled
<1> HIDE DEF second
<1>7. IsStore(second)
  BY <1>6 DEF Changes
<1>8. /\ Changes(second, third, p, {"payments"})
      /\ \A d \in DOMAIN details : ShowsPayment(third, p, d, details[d])
  BY <1>7, PaymentsAreLogged
<1> HIDE DEF third
<1>9. IsStore(third) /\ p \in DOMAIN third.projects
  BY <1>6, <1>8 DEF Changes
<1>10. RightsFollow(third, t, p, 1, base, last)
  <2> HIDE DEF last
  <2>1. RightsFollow(third, t, p, 1, base, iter[1 .. n])
    BY <1>9, RightsAreLogged
  <2> QED
    BY <2>1 DEF last
<1> HIDE DEF t, last
<1>11. Changes(third, t, p, {"permissions"}) /\ p \in DOMAIN t.projects
  BY <1>9, <1>10 DEF RightsFollow, Changes
<1>12. RightsOK(t, p, last, 1)
  <2>1. Project(third, p).permissions = {}
    BY <1>6, <1>8 DEF Changes, EntityFields
  <2>2. RightsOK(third, p, base, 1)
    BY <2>1 DEF RightsOK, RightsAt, RightsShown, NoKeys
  <2> QED
    BY <1>10, <2>2 DEF RightsFollow
<1>13. PaymentsOK(t, p, details)
  <2>1. PaymentsOK(third, p, details)
    BY <1>8 DEF PaymentsOK, ShowsPayment
  <2> QED
    BY <1>11, <2>1, PaymentsStay
<1>14. /\ Project(t, p).streams = list
       /\ Project(t, p).counter = 0 /\ Project(t, p).score = 0
  BY <1>6, <1>8, <1>11 DEF Changes, EntityFields
<1>15. Changes(st, t, p, CreatedParts \cup {"payments"})
  <2> DEFINE two == {"streams"} \cup CreatedParts
             three == two \cup {"payments"}
             four == three \cup {"permissions"}
  <2>1. Changes(st, second, p, two)
    BY <1>4, <1>6, ChangesChain
  <2> HIDE DEF two
  <2>2. Changes(st, third, p, three)
    BY <1>8, <2>1, ChangesChain
  <2> HIDE DEF three
  <2>3. Changes(st, t, p, four)
    BY <1>11, <2>2, ChangesChain
  <2>4. four = CreatedParts \cup {"payments"}
    BY DEF four, three, two, CreatedParts
  <2> QED
    BY <2>3, <2>4
<1> QED
  BY <1>3, <1>11, <1>12, <1>13, <1>14, <1>15 DEF CreationIsTold, last

LEMMA CreateProjectKeeps ==
    ASSUME ProjectsInv, NEW p \in Projs, NEW user \in Users, NEW list \in StreamLists,
           NEW details \in PaymentDetails, NEW isPublicPurchable,
           CreateProject(p, user, list, details, isPublicPurchable)
    PROVE  ProjectsInv'
<1> DEFINE l == AddedInTurn(p, list)
           owners == Owners(user, isPublicPurchable)
           e == [name |-> "ProjectCreated", project |-> p, streams |-> list]
           log == [i \in DOMAIN owners |-> PermissionEvent(p, owners[i], Rights)]
           base == permissions[p]
           last == GivenTo(base, owners)
           a == l.events
           f == PaymentEvents(p, details)
           t == HandleAll(store, a \o <<e>> \o f \o log)
           c == Held(p)
           d == Held(p)'
           parts == CreatedParts \cup {"payments"}
<1>1. /\ TypesInv /\ IsStore(store) /\ Correct(store, p, c, day)
  BY DEF ProjectsInv
<1>2. list \in Seq(Streams) /\ DOMAIN details \subseteq Domains
  BY ProjectsAssumption DEF PaymentDetails
<1>3. /\ state[p] = 0
      /\ state' = [state EXCEPT ![p] = 1]
      /\ streams' = [streams EXCEPT ![p] = l.streams]
      /\ index' = [index EXCEPT ![p] = l.index]
      /\ payments' = [payments EXCEPT ![p] = details]
      /\ permissions' = [permissions EXCEPT ![p] = last]
      /\ store' = t
      /\ repeated' = IF Repeats(list) THEN repeated \cup {p} ELSE repeated
      /\ UNCHANGED <<subscriptions, staked, projectStake, day, bought>>
  <2> HIDE DEF f, e
  <2> QED
    BY DEF CreateProject, SetListing, stakingVars, Emit, NoteRepeats, AddedInTurn, NoStreams,
           GivenTo, Owners, f, e
<1>4. /\ l \in Listings(p)
      /\ NoRepeats(list) => IsListing(l.streams, l.index) /\ NamesThem(list, l.index)
  BY <1>2, AddedInTurnIs
<1>5. e.name = "ProjectCreated" /\ e.project = p /\ e.streams = list
  OBVIOUS
<1> HIDE DEF l, e
<1>6. /\ l.streams \in Seq(Streams) /\ l.index \in [Streams -> Nat]
      /\ a \in Seq(StreamEvents(p))
  BY <1>4 DEF Listings
<1>7. PICK n \in Nat : DOMAIN owners = 1 .. n /\ \A i \in 1 .. n : owners[i] \in Targets
  BY OwnersAre
<1> HIDE DEF owners
<1>8. PICK iter :
         /\ IsSaving(base, [i \in 1 .. n |-> <<1, owners[i]>>], [i \in 1 .. n |-> Rights],
                     n, iter)
         /\ last = iter[1 .. n]
  <2> HIDE DEF base
  <2> QED
    BY <1>7, OwnersAreSaved
<1> HIDE DEF last
<1> DEFINE rightsOf == [i \in 1 .. n |-> Rights]
<1>9. RightsSet(p, 1, base, owners, rightsOf, n, iter, log) /\ IsLog(log)
  <2>1. /\ DOMAIN log = 1 .. n /\ log = [i \in 1 .. n |-> log[i]]
        /\ \A i \in 1 .. n : log[i] = PermissionEvent(p, owners[i], rightsOf[i])
    BY <1>7
  <2>2. IsSaving(base, [i \in 1 .. n |-> <<1, owners[i]>>], rightsOf, n, iter)
    BY <1>8
  <2> HIDE DEF log, rightsOf, base
  <2>3. IsLog(log)
    BY <2>1, NumberedIsLog
  <2> QED
    BY <1>7, <2>1, <2>2, <2>3 DEF RightsSet
<1> HIDE DEF log, rightsOf
<1>10. c.state = 0 /\ c.permissions = base
  BY <1>3 DEF Held
<1>11. Fresh(store, p, c) /\ StakesOK(store, p, c, day)
  BY <1>1, <1>10 DEF Correct
<1>12. NoKeys(base)
  BY <1>10, <1>11 DEF Fresh, NoKeys
<1> HIDE DEF base, a
<1>13. CreationIsTold(store, t, p, list, details, last)
  <2>1. CreationIsTold(store, t, p, list, details, iter[1 .. n])
    BY <1>1, <1>2, <1>5, <1>6, <1>9, <1>12, CreationTold
  <2> QED
    BY <1>8, <2>1
<1> HIDE DEF t
<1>14. Changes(store, t, p, parts) /\ p \in DOMAIN t.projects
  BY <1>13 DEF CreationIsTold
<1>15. TypesInv'
  <2>1. DOMAIN payments' = Projs /\ \A q \in Projs : DOMAIN payments'[q] \subseteq Domains
    BY <1>1, <1>2, <1>3 DEF TypesInv
  <2>2. repeated' \subseteq Projs
    BY <1>1, <1>3 DEF TypesInv
  <2> QED
    BY <1>1, <1>3, <1>6, <2>1, <2>2 DEF TypesInv
<1>16. \A q \in Projs \ {p} : Held(q)' = Held(q)
  <2> SUFFICES ASSUME NEW q \in Projs \ {p}
               PROVE  Held(q)' = Held(q)
    OBVIOUS
  <2>1. /\ state'[q] = state[q] /\ streams'[q] = streams[q] /\ index'[q] = index[q]
        /\ payments'[q] = payments[q] /\ permissions'[q] = permissions[q]
        /\ q \in repeated' <=> q \in repeated
    BY <1>1, <1>3 DEF TypesInv
  <2> QED
    BY <1>3, <2>1 DEF Held
<1>17. /\ d.state = 1
       /\ d.streams = l.streams /\ d.index = l.index /\ d.permissions = last
       /\ d.payments = details /\ d.subscriptions = c.subscriptions
       /\ d.staked = c.staked /\ d.projectStake = c.projectStake /\ d.bought = c.bought
       /\ d.repeated = (p \in repeated')
  BY <1>1, <1>3 DEF Held, TypesInv
<1>18. c.staked \in [Users -> Nat] /\ c.projectStake \in Int
  BY <1>1 DEF Held, TypesInv
<1> HIDE DEF c, d, last
<1>19. StreamsOK(t, p, d)
  <2> SUFFICES ASSUME ~d.repeated
               PROVE  IsListing(d.streams, d.index) /\ NamesThem(Project(t, p).streams, d.index)
    BY DEF StreamsOK
  <2>1. NoRepeats(list)
    BY <1>2, <1>3, <1>17, RepeatsOrNot
  <2>2. Project(t, p).streams = list
    BY <1>13 DEF CreationIsTold
  <2> QED
    BY <1>4, <1>17, <2>1, <2>2
<1>20. SubscriptionsOK(t, p, d)
  <2>1. Project(t, p).subscriptions = {}
    BY <1>11, <1>14 DEF Fresh, Changes, EntityFields, CreatedParts
  <2> QED
    BY <1>11, <1>17, <2>1 DEF Fresh, SubscriptionsOK
<1>21. PurchasesOK(t, p, d)
  <2>1. Project(t, p).purchases = {}
    BY <1>11, <1>14 DEF Fresh, Changes, EntityFields, CreatedParts
  <2>2. d.bought = 0
    BY <1>11, <1>17 DEF Fresh
  <2>3. IsFiniteSet({}) /\ Cardinality({}) = 0
    BY FS_EmptySet
  <2> QED
    BY <2>1, <2>2, <2>3 DEF PurchasesOK
<1>22. IsShown(t, p, d)
  BY <1>13, <1>14, <1>17, <1>19, <1>20, <1>21 DEF CreationIsTold, IsShown
<1>23. c.projectStake = 0
  <2>1. /\ c.projectStake = SumFunction(c.staked)
        /\ \A u \in Users : c.staked[u] = 0
    BY <1>10, <1>11 DEF StakesOK
  <2>2. SumFunction(c.staked) = SumFunctionOnSet(c.staked, Users)
    BY <1>18, SumOverDomain
  <2> DEFINE g == c.staked
  <2>3. \A u \in Users : g[u] = 0
    BY <2>1
  <2> HIDE DEF g
  <2>4. SumFunctionOnSet(g, Users) = 0
    <3>1. IsFiniteSet(Users)
      BY ProjectsAssumption
    <3> QED
      BY <2>3, <3>1, SumOfZeros
  <2> QED
    BY <2>1, <2>2, <2>4 DEF g
<1>24. StakesOK(t, p, d, day)
  <2>1. /\ SameEntries(store.stakes, t.stakes, p) /\ SameEntries(store.days, t.days, p)
        /\ Project(t, p).stakedWei = Project(store, p).stakedWei
    BY <1>14 DEF Changes, EntityFields, CreatedParts
  <2>2. Project(t, p).score = 0 /\ Project(store, p).score = 0
    BY <1>10, <1>11, <1>13, <1>23 DEF CreationIsTold, StakesOK
  <2>3. day \in Nat /\ day <= day
    BY <1>1 DEF TypesInv
  <2> QED
    BY <1>10, <1>11, <1>17, <2>1, <2>2, <2>3, StakesStay
<1>25. Correct(t, p, d, day)
  BY <1>17, <1>22, <1>24 DEF Correct
<1> QED
  BY <1>3, <1>14, <1>15, <1>16, <1>25, OnlyOneChanges DEF Changes, d

-----------------------------------------------------------------------------
(* Every step keeps the entities correct *)

LEMMA InitIsCorrect ==
    ASSUME Init
    PROVE  ProjectsInv
<1>1. TypesInv
  <2>1. <<>> \in Seq(Streams) /\ MaxDay \in Nat /\ DOMAIN <<>> = {}
    BY ProjectsAssumption
  <2> QED
    BY <2>1 DEF Init, TypesInv
<1>2. IsStore(NewStore)
  BY DEF IsStore, NewStore, StoreFields
<1>3. /\ \A p : Project(NewStore, p) = NewProject
      /\ \A p, user : ProjectStake(NewStore, p, user) = 0
      /\ \A p, d : <<p, d>> \notin DOMAIN NewStore.days
  BY DEF Project, ProjectStake, NewStore
<1>4. store = NewStore
  BY DEF Init
<1> HIDE DEF NewStore
<1>5. ASSUME NEW p \in Projs
      PROVE  Correct(store, p, Held(p), day)
  <2> DEFINE c == Held(p)
             zeros == [u \in Users |-> 0]
  <2>1. /\ c.state = 0 /\ c.staked = zeros /\ c.projectStake = 0 /\ c.bought = 0
        /\ c.permissions = <<>> /\ c.subscriptions = zeros
    BY DEF Init, Held
  <2>2. SumFunction(zeros) = 0
    <3>1. IsFiniteSet(Users) /\ DOMAIN zeros = Users /\ \A u \in Users : zeros[u] = 0
      BY ProjectsAssumption
    <3> HIDE DEF zeros
    <3>2. SumFunctionOnSet(zeros, Users) = 0
      BY <3>1, SumOfZeros
    <3> QED
      BY <3>1, <3>2, SumOverDomain
  <2> HIDE DEF c
  <2>3. StakesOK(store, p, c, day)
    <3>1. NewProject.stakedWei = 0 /\ NewProject.score = 0
      BY DEF NewProject
    <3>2. DaysOK(store, p, 0)
      BY <1>3, <1>4 DEF DaysOK
    <3>3. \A u \in Users : c.staked[u] = 0
      BY <2>1
    <3> HIDE DEF zeros
    <3> QED
      BY <1>3, <1>4, <2>1, <2>2, <3>1, <3>2, <3>3 DEF StakesOK
  <2>4. Fresh(store, p, c)
    <3>1. NewProject.subscriptions = {} /\ NewProject.purchases = {}
      BY DEF NewProject
    <3> QED
      BY <1>3, <1>4, <2>1, <3>1 DEF Fresh
  <2>5. Correct(store, p, c, day)
    BY <2>1, <2>3, <2>4 DEF Correct
  <2> QED
    BY <2>5 DEF c
<1> QED
  BY <1>1, <1>2, <1>4, <1>5 DEF ProjectsInv

LEMMA TickKeeps ==
    ASSUME ProjectsInv, Tick
    PROVE  ProjectsInv'
<1>1. /\ day < MaxDay /\ day' = day + 1
      /\ UNCHANGED <<state, streams, index, permissions, subscriptions, payments, staked,
                     projectStake, store, repeated, bought>>
  BY DEF Tick, stakingVars
<1>2. MaxDay \in Nat /\ day \in Nat /\ day' \in Nat /\ day <= day' /\ TypesInv
  BY <1>1, ProjectsAssumption DEF ProjectsInv, TypesInv
<1>3. TypesInv'
  BY <1>1, <1>2 DEF TypesInv
<1>4. ASSUME NEW p \in Projs
      PROVE  Correct(store', p, Held(p)', day')
  <2>1. SameAt(store, store, p)
    BY SameIsSame DEF SameAt
  <2>2. Correct(store, p, Held(p), day) /\ IsStore(store)
    BY DEF ProjectsInv
  <2>3. Held(p)' = Held(p)
    BY <1>1 DEF Held
  <2>4. Correct(store, p, Held(p), day')
    BY <1>2, <2>1, <2>2, CorrectStays
  <2> QED
    BY <1>1, <2>3, <2>4
<1> QED
  BY <1>1, <1>3, <1>4 DEF ProjectsInv

LEMMA EditorCallKeeps ==
    ASSUME ProjectsInv, NEW p \in Projs, NEW sender \in Users, EditorCall(p, sender)
    PROVE  ProjectsInv'
<1>1. CASE \E list \in StreamLists, details \in PaymentDetails :
             UpdateProject(p, sender, list, details)
  BY <1>1, UpdateProjectKeeps
<1>2. CASE \E d \in Domains, price \in Prices : UpdatePaymentDetailsByChain(p, sender, d, price)
  BY <1>2, UpdatePaymentDetailsByChainKeeps
<1>3. CASE \E s \in Streams : AddStream(p, sender, s)
  BY <1>3, AddStreamKeeps
<1>4. CASE \E list \in StreamLists : AddStreams(p, sender, list)
  BY <1>4, AddStreamsKeeps
<1>5. CASE \E s \in Streams : RemoveStream(p, sender, s)
  BY <1>5, RemoveStreamKeeps
<1>6. CASE \E list \in StreamLists : SetStreams(p, sender, list)
  BY <1>6, SetStreamsKeeps
<1> QED
  BY <1>1, <1>2, <1>3, <1>4, <1>5, <1>6 DEF EditorCall

LEMMA PermissionCallKeeps ==
    ASSUME ProjectsInv, NEW p \in Projs, NEW sender \in Users, PermissionCall(p, sender)
    PROVE  ProjectsInv'
<1>1. sender \in Targets
  BY DEF Targets
<1>2. CASE DeleteProject(p, sender)
  BY <1>2, DeleteProjectKeeps
<1>3. CASE \E user \in Targets : EnablePermissionType(p, sender, user, "Edit")
  BY <1>3, OneUserKeeps DEF EnablePermissionType
<1>4. CASE \E user \in Targets : RevokePermissionType(p, sender, user, "Edit")
  BY <1>4, OneUserKeeps DEF RevokePermissionType
<1>5. CASE \E user \in Targets, rights \in {{}, {"Grant"}} :
             SetPermissionBooleans(p, sender, user, rights)
  BY <1>5, OneUserKeeps DEF SetPermissionBooleans
<1>6. CASE \E user \in Targets : TransferPermissionType(p, sender, user, "Edit")
  BY <1>1, <1>6, TwoUsersKeep DEF TransferPermissionType
<1>7. CASE \E user \in Targets : TransferAllPermissionsToUser(p, sender, user)
  BY <1>1, <1>7, TwoUsersKeep DEF TransferAllPermissionsToUser
<1> QED
  BY <1>2, <1>3, <1>4, <1>5, <1>6, <1>7 DEF PermissionCall

LEMMA UserCallKeeps ==
    ASSUME ProjectsInv, NEW p \in Projs, NEW user \in Users, UserCall(p, user)
    PROVE  ProjectsInv'
<1>1. CASE \E list \in StreamLists, details \in PaymentDetails, public \in BOOLEAN :
             CreateProject(p, user, list, details, public)
  BY <1>1, CreateProjectKeeps
<1>2. CASE EditorCall(p, user)
  BY <1>2, EditorCallKeeps
<1>3. CASE PermissionCall(p, user)
  BY <1>3, PermissionCallKeeps
<1>4. CASE TrustedSetPermissions(p, user, Rights)
  BY <1>4, OneUserKeeps DEF TrustedSetPermissions, Targets
<1>5. CASE GrantSubscription(p, user)
  BY <1>5, GrantSubscriptionKeeps
<1>6. CASE BuyFor(p, user)
  BY <1>6, BuyForKeeps
<1>7. CASE \E amount \in 1 .. MaxStake : Stake(p, user, amount)
  <2>1. 1 .. MaxStake \subseteq Nat
    OBVIOUS
  <2> QED
    BY <1>7, <2>1, StakeKeeps
<1>8. CASE \E amount \in 0 .. MaxStake : Unstake(p, user, amount)
  <2>1. 0 .. MaxStake \subseteq Nat
    OBVIOUS
  <2> QED
    BY <1>8, <2>1, UnstakeKeeps
<1> QED
  BY <1>1, <1>2, <1>3, <1>4, <1>5, <1>6, <1>7, <1>8 DEF UserCall

LEMMA NextKeeps ==
    ASSUME ProjectsInv, [Next]_projectVars
    PROVE  ProjectsInv'
<1>1. CASE Tick
  BY <1>1, TickKeeps
<1>2. CASE \E p \in Projs, user \in Users : UserCall(p, user)
  BY <1>2, UserCallKeeps
<1>3. CASE UNCHANGED projectVars
  BY <1>3 DEF projectVars, stakingVars, ProjectsInv, TypesInv, Held
<1> QED
  BY <1>1, <1>2, <1>3 DEF Next

LEMMA ProjectsInvHolds == Spec => []ProjectsInv
<1> QED
  BY InitIsCorrect, NextKeeps, PTL DEF Spec

-----------------------------------------------------------------------------
(* What that says *)

LEMMA NoRepeatsIsCounted ==
    ASSUME NEW list \in Seq(Streams), NoRepeats(list)
    PROVE  Cardinality(ToSet(list)) = Len(list)
<1> DEFINE n == Len(list)
           S == ToSet(list)
<1>1. /\ n \in Nat /\ S = {list[i] : i \in 1 .. n} /\ DOMAIN list = 1 .. n
      /\ list \in [1 .. n -> S]
  BY DEF ToSet
<1>2. list \in Injection(1 .. n, S)
  BY <1>1 DEF Injection, IsInjective, NoRepeats
<1>3. list \in Surjection(1 .. n, S)
  BY <1>1 DEF Surjection
<1>4. list \in Bijection(1 .. n, S)
  BY <1>2, <1>3 DEF Bijection
<1>5. ExistsBijection(1 .. n, S)
  BY <1>4 DEF ExistsBijection
<1> HIDE DEF S, n
<1>6. Cardinality(S) = n
  BY <1>1, <1>5, FS_CountingElements
<1> QED
  BY <1>6 DEF S, n

LEMMA StreamsListed ==
    ASSUME NEW list \in Seq(Streams), NEW shown \in Seq(Streams),
           NEW positions \in [Streams -> Nat],
           IsListing(list, positions), NamesThem(shown, positions)
    PROVE  /\ ToSet(shown) = ToSet(list)
           /\ Len(shown) = Len(list)
           /\ \A s \in Streams : positions[s] = 0 <=> s \notin ToSet(list)
           /\ \A i \in DOMAIN list : positions[list[i]] = i
<1>1. /\ DOMAIN list = 1 .. Len(list) /\ Len(list) \in Nat
      /\ DOMAIN shown = 1 .. Len(shown) /\ Len(shown) \in Nat
      /\ \A i \in 1 .. Len(list) : list[i] \in Streams
      /\ \A i \in 1 .. Len(shown) : shown[i] \in Streams
  OBVIOUS
<1>2. /\ \A s : s \in ToSet(list) <=> \E i \in 1 .. Len(list) : list[i] = s
      /\ \A s : s \in ToSet(shown) <=> \E i \in 1 .. Len(shown) : shown[i] = s
  BY <1>1 DEF ToSet
<1>3. ASSUME NEW s \in Streams
      PROVE  positions[s] # 0 <=> s \in ToSet(list)
  <2>1. ASSUME positions[s] # 0
        PROVE  s \in ToSet(list)
    BY <1>2, <2>1 DEF IsListing
  <2>2. ASSUME NEW i \in 1 .. Len(list), list[i] = s
        PROVE  positions[s] # 0
    BY <1>1, <2>2 DEF IsListing
  <2> QED
    BY <1>2, <2>1, <2>2
<1>4. ToSet(shown) = ToSet(list)
  <2>1. \A s \in Streams : s \in ToSet(shown) <=> s \in ToSet(list)
    BY <1>2, <1>3 DEF NamesThem
  <2>2. ToSet(shown) \subseteq Streams /\ ToSet(list) \subseteq Streams
    BY <1>1, <1>2
  <2> QED
    BY <2>1, <2>2
<1>5. NoRepeats(list)
  BY DEF IsListing, NoRepeats
<1>6. Len(shown) = Len(list)
  BY <1>4, <1>5, NoRepeatsIsCounted DEF NamesThem
<1> QED
  BY <1>1, <1>3, <1>4, <1>6 DEF IsListing

LEMMA InvShowsProjects == ProjectsInv => ProjectsShown
<1> SUFFICES ASSUME ProjectsInv, NEW p \in Projs, Exists(p)
             PROVE  /\ p \in DOMAIN store.projects
                    /\ StreamsAreListed(p) /\ RightsAreListed(p) /\ SubscriptionsAreListed(p)
  BY DEF ProjectsShown
<1> DEFINE c == Held(p)
           shown == store.projects[p]
<1>1. TypesInv /\ IsStore(store) /\ Correct(store, p, c, day)
  BY DEF ProjectsInv
<1>2. /\ state[p] = 1 /\ c.state = 1
      /\ c.streams = streams[p] /\ c.index = index[p] /\ c.permissions = permissions[p]
      /\ c.subscriptions = subscriptions[p] /\ c.payments = payments[p]
      /\ c.bought = bought[p] /\ c.repeated = (p \in repeated)
  BY DEF Exists, Held
<1> HIDE DEF c
<1>3. IsShown(store, p, c)
  BY <1>1, <1>2 DEF Correct
<1>4. p \in DOMAIN store.projects /\ Project(store, p) = shown
  BY <1>3 DEF IsShown, Project
<1>5. StreamsAreListed(p)
  <2> SUFFICES ASSUME p \notin repeated
               PROVE  /\ ToSet(shown.streams) = ToSet(streams[p])
                      /\ Len(shown.streams) = Len(streams[p])
                      /\ \A s \in Streams : index[p][s] = 0 <=> s \notin ToSet(streams[p])
                      /\ \A i \in DOMAIN streams[p] : index[p][streams[p][i]] = i
    BY DEF StreamsAreListed
  <2> DEFINE list == streams[p]
             names == shown.streams
             positions == index[p]
  <2>1. list \in Seq(Streams) /\ positions \in [Streams -> Nat] /\ names \in Seq(Streams)
    <3>1. shown \in Entities
      BY <1>1, <1>4 DEF IsStore
    <3> QED
      BY <1>1, <3>1 DEF TypesInv, Entities
  <2>2. IsListing(list, positions) /\ NamesThem(names, positions)
    BY <1>2, <1>3, <1>4 DEF IsShown, StreamsOK
  <2> HIDE DEF list, names, positions
  <2>3. /\ ToSet(names) = ToSet(list)
        /\ Len(names) = Len(list)
        /\ \A s \in Streams : positions[s] = 0 <=> s \notin ToSet(list)
        /\ \A i \in DOMAIN list : positions[list[i]] = i
    BY <2>1, <2>2, StreamsListed
  <2> QED
    BY <2>3 DEF list, names, positions
<1>6. RightsAreListed(p)
  <2> SUFFICES ASSUME NEW user \in Targets
               PROVE  PermissionOf(p, user) = IF user \in shown.permissions
                                              THEN store.permissions[<<p, user>>] ELSE {}
    BY DEF RightsAreListed
  <2>1. PermissionOf(p, user) = RightsAt(c.permissions, 1, user)
    BY <1>2 DEF PermissionOf, AddressKey, RightsAt
  <2>2. RightsAt(c.permissions, 1, user) = RightsShown(store, p, user)
    BY <1>3 DEF IsShown, RightsOK
  <2> QED
    BY <1>4, <2>1, <2>2 DEF RightsShown
<1>7. SubscriptionsAreListed(p)
  <2>1. \A user \in Users :
           subscriptions[p][user] = IF user \in shown.subscriptions
                                    THEN store.subscriptions[<<p, user>>] ELSE 0
    BY <1>2, <1>3, <1>4 DEF IsShown, SubscriptionsOK
  <2>2. \A d \in DOMAIN payments[p] :
           d \in shown.payments /\ store.payments[<<p, d>>] = payments[p][d]
    BY <1>2, <1>3, <1>4 DEF IsShown, PaymentsOK
  <2>3. Cardinality(shown.purchases) = bought[p]
    BY <1>2, <1>3, <1>4 DEF IsShown, PurchasesOK
  <2> QED
    BY <2>1, <2>2, <2>3 DEF SubscriptionsAreListed
<1> QED
  BY <1>4, <1>5, <1>6, <1>7

LEMMA InvShowsStakes == ProjectsInv => ProjectStakesShown
<1> SUFFICES ASSUME ProjectsInv, NEW p \in Projs
             PROVE  /\ \A user \in Users : ProjectStake(store, p, user) = staked[p][user]
                    /\ Exists(p) => /\ store.projects[p].stakedWei = SumFunction(staked[p])
                                    /\ store.projects[p].score = SumFunction(staked[p])
                                    /\ DaysAddUp(p)
  BY DEF ProjectStakesShown
<1> DEFINE c == Held(p)
           total == projectStake[p]
<1>1. Correct(store, p, c, day)
  BY DEF ProjectsInv
<1>2. c.state = state[p] /\ c.staked = staked[p] /\ c.projectStake = total
  BY DEF Held
<1> HIDE DEF c
<1>3. StakesOK(store, p, c, day)
  BY <1>1 DEF Correct
<1>4. \A user \in Users : ProjectStake(store, p, user) = staked[p][user]
  BY <1>2, <1>3 DEF StakesOK
<1>5. ASSUME Exists(p)
      PROVE  /\ store.projects[p].stakedWei = SumFunction(staked[p])
             /\ store.projects[p].score = SumFunction(staked[p])
             /\ DaysAddUp(p)
  <2>1. p \in DOMAIN store.projects /\ c.state = 1
    BY <1>1, <1>2, <1>5 DEF Correct, Exists, IsShown
  <2>2. /\ Project(store, p).stakedWei = total /\ Project(store, p).score = total
        /\ DaysOK(store, p, total) /\ total = SumFunction(staked[p])
    BY <1>2, <1>3, <2>1 DEF StakesOK
  <2>3. DaysAddUp(p)
    <3> SUFFICES ASSUME NEW d \in 1 .. MaxDay, <<p, d>> \in DOMAIN store.days
                 PROVE  LET bucket == store.days[<<p, d>>]
                        IN  /\ bucket.stakeChange = bucket.stakingsWei - bucket.unstakingsWei
                            /\ bucket.stakeAtStart + bucket.stakeChange = StakeAtEnd(p, d)
      BY DEF DaysAddUp
    <3>1. StakeAtEnd(p, d) = Following(store, p, total, d)
      BY DEF StakeAtEnd, Following
    <3> QED
      BY <2>2, <3>1 DEF DaysOK
  <2> QED
    BY <2>1, <2>2, <2>3 DEF Project
<1> QED
  BY <1>4, <1>5

\* ProjectsShown: the Project entity of a project that exists shows its streams, what each
\* user may do, its subscriptions, payment details and purchases, after any sequence of
\* calls of ProjectRegistryV1 and MarketplaceV4.
THEOREM ProjectsAreAlwaysShown == Spec => []ProjectsShown
<1> QED
  BY ProjectsInvHolds, InvShowsProjects, PTL

\* ProjectStakesShown: the stakes in ProjectStakingV1 are those shown, user by user and
\* in all, and the days of a project follow each other.
THEOREM ProjectStakesAreAlwaysShown == Spec => []ProjectStakesShown
<1> QED
  BY ProjectsInvHolds, InvShowsStakes, PTL

=============================================================================
