------------------------ MODULE PolicyLimiterProofs ------------------------
(***************************************************************************)
(* Theorems about PolicyLimiter, for any number of threads and keys, any   *)
(* finite set of requests, and policies with any counts and windows.       *)
(***************************************************************************)
EXTENDS PolicyLimiter, WellFoundedInduction, TLAPS

\* What a bucket knows of the actions that got past it.  None did since its window
\* was over; of those since it began the first came in its first tick, so the later
\* ticks have fewer than it counts; and of the window before, what is still recent
\* lacks its first one likewise.
Accounts(b, passes, limits) ==
    /\ b.exists => /\ b.limit \in limits
                   /\ b.count > 0 \/ b.limit.max_count = 0
    /\ \A n \in DOMAIN passes :
           \/ passes[n] = 0
           \/ /\ n > 0 /\ b.exists
              /\ n > b.age + 1 - b.limit.window
              /\ n <= b.age => passes[n] < b.count
              /\ passes[n] < b.count + Largest(limits)

Accounted ==
    /\ Accounts(bucket, recent, Limits)
    /\ \A k \in Keys : Accounts(by_key[k], recent_by[k], KeyLimits)

-----------------------------------------------------------------------------
\* Bounds of finite sets of numbers

\* A set of natural numbers with a member has a least one.
LEMMA LeastNatural ==
    ASSUME NEW S, S \subseteq Nat, S # {}
    PROVE  \E m \in S : \A n \in S : m <= n
  <1>1. PICK m \in S : \A n \in S : ~(<<n, m>> \in OpToRel(<, Nat))
    BY WFMin, NatLessThanWellFounded, Zenon
  <1>2. \A n \in S : ~(n < m)
    BY <1>1 DEF OpToRel
  <1> QED
    BY <1>2

\* What every request has one of is bounded, for there are finitely many requests.
LEMMA Bounded ==
    ASSUME NEW v \in [Requests -> Nat]
    PROVE  \E b \in Nat : \A r \in Requests : v[r] <= b
  <1>1. PICK q \in Seq(Requests) : \A r \in Requests : \E i \in 1 .. Len(q) : q[i] = r
    BY FiniteAssumption DEF IsFiniteSet
  <1>2. Len(q) \in Nat /\ \A i \in 1 .. Len(q) : q[i] \in Requests
    BY <1>1
  <1> DEFINE BoundedTo(n) == \E b \in Nat : \A i \in 1 .. n : v[q[i]] <= b
             Bad == {n \in 0 .. Len(q) : ~BoundedTo(n)}
  <1>3. BoundedTo(0)
    OBVIOUS
  <1>4. ASSUME NEW m \in 1 .. Len(q), BoundedTo(m - 1) PROVE BoundedTo(m)
    <2>1. PICK b \in Nat : \A i \in 1 .. m - 1 : v[q[i]] <= b
      BY <1>4
    <2>2. m \in Nat /\ \A i \in 1 .. m : v[q[i]] \in Nat
      BY <1>2
    <2> DEFINE c == b + v[q[m]]
    <2>3. c \in Nat /\ b <= c /\ v[q[m]] <= c
      BY <2>2
    <2>4. \A i \in 1 .. m : i = m \/ i \in 1 .. m - 1
      BY <2>2
    <2> HIDE DEF c
    <2>5. \A i \in 1 .. m : v[q[i]] <= c
      BY <2>1, <2>2, <2>3, <2>4
    <2> QED  BY <2>3, <2>5
  <1> HIDE DEF BoundedTo
  <1>5. Bad = {}
    <2> SUFFICES ASSUME Bad # {} PROVE FALSE
      OBVIOUS
    <2>1. Bad \subseteq Nat
      BY <1>2
    <2>2. PICK m \in Bad : \A n \in Bad : m <= n
      BY <2>1, LeastNatural
    <2>3. m \in 1 .. Len(q)
      BY <1>2, <1>3
    <2>4. m - 1 \in 0 .. Len(q) /\ m - 1 \notin Bad
      BY <1>2, <2>2, <2>3
    <2> QED  BY <1>4, <2>3, <2>4
  <1>6. BoundedTo(Len(q))
    BY <1>2, <1>5
  <1> QED
    BY <1>1, <1>6 DEF BoundedTo

\* Max of a set of natural numbers with a member and a bound.
LEMMA MaxProperty ==
    ASSUME NEW S, S \subseteq Nat, S # {}, NEW b \in Nat, \A n \in S : n <= b
    PROVE  Max(S) \in S /\ \A n \in S : n <= Max(S)
  <1> DEFINE Bounds == {c \in Nat : \A n \in S : n <= c}
  <1>1. PICK m \in Bounds : \A c \in Bounds : m <= c
    <2>1. Bounds \subseteq Nat /\ b \in Bounds
      OBVIOUS
    <2> QED  BY <2>1, LeastNatural
  <1>2. m \in S
    <2> SUFFICES ASSUME m \notin S PROVE FALSE
      OBVIOUS
    <2>1. m \in Nat /\ \A n \in S : n \in Nat /\ n <= m /\ n # m
      BY <1>1
    <2>2. \A n \in S : n <= m - 1
      BY <2>1
    <2>3. m - 1 \in Nat
      <3>1. PICK n \in S : TRUE
        OBVIOUS
      <3> QED  BY <2>1, <3>1
    <2>4. m - 1 \in Bounds
      BY <2>2, <2>3
    <2> QED  BY <1>1, <2>1, <2>4
  <1>3. \E x \in S : \A y \in S : x >= y
    BY <1>1, <1>2
  <1>4. Max(S) \in S /\ \A y \in S : Max(S) >= y
    BY <1>3, Zenon DEF Max
  <1> QED
    BY <1>4

\* Min of a set of natural numbers with a member.
LEMMA MinProperty ==
    ASSUME NEW S, S \subseteq Nat, S # {}
    PROVE  Min(S) \in S /\ \A n \in S : Min(S) <= n
  <1>1. \E x \in S : \A y \in S : x =< y
    BY LeastNatural
  <1> QED
    BY <1>1, Zenon DEF Min

-----------------------------------------------------------------------------
\* Limits

\* A set of limits with a shortest window, a bound on the windows and a largest count.
Bounds(limits) ==
    /\ limits \subseteq LimitType
    /\ \E w \in Nat : \A l \in limits : l.window <= w
    /\ Shortest(limits) \in Nat /\ \A l \in limits : Shortest(limits) <= l.window
    /\ Largest(limits) \in Nat /\ \A l \in limits : l.max_count <= Largest(limits)

\* The limits of the requests are such a set.
LEMMA LimitBounds ==
    ASSUME NEW limit \in [Requests -> LimitType], NEW limits,
           limits = Real({limit[r] : r \in Requests})
    PROVE  Bounds(limits)
  <1>1. limits \subseteq LimitType /\ \A l \in limits : l.window \in Nat /\ l.max_count \in Nat
    BY DEF Real, LimitType
  <1>2. PICK w \in Nat : \A l \in limits : l.window <= w
    <2>1. [r \in Requests |-> limit[r].window] \in [Requests -> Nat]
      BY DEF LimitType
    <2>2. PICK w \in Nat : \A r \in Requests : [s \in Requests |-> limit[s].window][r] <= w
      BY <2>1, Bounded
    <2>3. \A r \in Requests : limit[r].window <= w
      BY <2>2
    <2> QED  BY <2>3 DEF Real
  <1>3. PICK c \in Nat : \A l \in limits : l.max_count <= c
    <2>1. [r \in Requests |-> limit[r].max_count] \in [Requests -> Nat]
      BY DEF LimitType
    <2>2. PICK c \in Nat : \A r \in Requests : [s \in Requests |-> limit[s].max_count][r] <= c
      BY <2>1, Bounded
    <2>3. \A r \in Requests : limit[r].max_count <= c
      BY <2>2
    <2> QED  BY <2>3 DEF Real
  <1>4. Longest(limits) \in Nat
    <2> DEFINE S == {l.window : l \in limits} \cup {1}
    <2>1. S \subseteq Nat /\ S # {} /\ w + 1 \in Nat /\ \A n \in S : n <= w + 1
      BY <1>1, <1>2
    <2> HIDE DEF S
    <2>2. Max(S) \in Nat
      BY <2>1, MaxProperty
    <2> QED  BY <2>2 DEF Longest, S
  <1>5. Shortest(limits) \in Nat /\ \A l \in limits : Shortest(limits) <= l.window
    <2> DEFINE S == {l.window : l \in limits} \cup {Longest(limits)}
    <2>1. S \subseteq Nat /\ S # {}
      BY <1>1, <1>4
    <2>2. \A l \in limits : l.window \in S
      OBVIOUS
    <2>3. Shortest(limits) = Min(S)
      BY DEF Shortest
    <2> HIDE DEF S
    <2>4. Min(S) \in S /\ \A n \in S : Min(S) <= n
      BY <2>1, MinProperty
    <2> QED  BY <2>1, <2>2, <2>3, <2>4
  <1>6. Largest(limits) \in Nat /\ \A l \in limits : l.max_count <= Largest(limits)
    <2> DEFINE S == {l.max_count : l \in limits} \cup {0}
    <2>1. S \subseteq Nat /\ S # {} /\ \A n \in S : n <= c
      BY <1>1, <1>3
    <2>2. \A l \in limits : l.max_count \in S
      OBVIOUS
    <2>3. Largest(limits) = Max(S)
      BY DEF Largest
    <2> HIDE DEF S
    <2>4. Max(S) \in S /\ \A n \in S : n <= Max(S)
      BY <2>1, MaxProperty
    <2> QED  BY <2>1, <2>2, <2>3, <2>4
  <1> QED
    BY <1>1, <1>2, <1>5, <1>6 DEF Bounds

\* So are the limits of the action, and those of the keys.
LEMMA RequestLimits ==
    /\ Bounds(Limits) /\ Bounds(KeyLimits)
    /\ Longest(Limits \cup KeyLimits) \in Nat
  <1> DEFINE f == [r \in Requests |-> LimitOf(r)]
             g == [r \in Requests |-> KeyLimitOf(r)]
  <1>1. f \in [Requests -> LimitType] /\ g \in [Requests -> LimitType]
    BY RequestsAssumption
  <1>2. Limits = Real({f[r] : r \in Requests}) /\ KeyLimits = Real({g[r] : r \in Requests})
    BY DEF Limits, KeyLimits
  <1> HIDE DEF f, g
  <1>3. Bounds(Limits) /\ Bounds(KeyLimits)
    BY <1>1, <1>2, LimitBounds
  <1>4. PICK w \in Nat : \A l \in Limits \cup KeyLimits : l.window <= w
    <2>1. PICK u \in Nat : \A l \in Limits : l.window <= u
      BY <1>3 DEF Bounds
    <2>2. PICK v \in Nat : \A l \in KeyLimits : l.window <= v
      BY <1>3 DEF Bounds
    <2>3. \A l \in Limits \cup KeyLimits : l.window \in Nat
      BY <1>3 DEF Bounds, LimitType
    <2>4. \A l \in Limits \cup KeyLimits : l.window <= u + v
      BY <2>1, <2>2, <2>3
    <2> QED  BY <2>4
  <1>5. Longest(Limits \cup KeyLimits) \in Nat
    <2> DEFINE S == {l.window : l \in Limits \cup KeyLimits} \cup {1}
    <2>1. \A l \in Limits \cup KeyLimits : l.window \in Nat
      BY <1>3 DEF Bounds, LimitType
    <2>2. S \subseteq Nat /\ S # {} /\ w + 1 \in Nat /\ \A n \in S : n <= w + 1
      BY <1>4, <2>1
    <2>3. Longest(Limits \cup KeyLimits) = Max(S)
      BY DEF Longest
    <2> HIDE DEF S
    <2> QED  BY <2>2, <2>3, MaxProperty
  <1> QED
    BY <1>3, <1>5

-----------------------------------------------------------------------------
\* Buckets

\* A bucket that is made or reset is well formed, and keeps its limit.
LEMMA FreshBucket ==
    ASSUME NEW b, WellFormed(b), NEW limit \in LimitType
    PROVE  /\ WellFormed(Fresh(b, limit))
           /\ Fresh(b, limit).exists
           /\ Fresh(b, limit).limit = IF b.exists THEN b.limit ELSE limit
           /\ IF b.exists /\ ~Expired(b) THEN Fresh(b, limit) = b
              ELSE Fresh(b, limit).count = 0 /\ Fresh(b, limit).age = 0
  <1>1. CASE ~b.exists
    BY <1>1 DEF Fresh, WellFormed, LimitType
  <1>2. CASE b.exists /\ Expired(b)
    <2>1. Fresh(b, limit) = [b EXCEPT !.count = 0, !.age = 0]
      BY <1>2 DEF Fresh
    <2>2. b.limit.max_count \in Nat /\ b.limit \in LimitType /\ b.exists \in BOOLEAN
      BY DEF WellFormed, LimitType
    <2>3. b \in [exists : BOOLEAN, count : Nat, age : Nat, limit : LimitType]
      BY DEF WellFormed
    <2>4. /\ Fresh(b, limit) \in [exists : BOOLEAN, count : Nat, age : Nat, limit : LimitType]
          /\ Fresh(b, limit).exists /\ Fresh(b, limit).limit = b.limit
          /\ Fresh(b, limit).count = 0 /\ Fresh(b, limit).age = 0
      <3>1. /\ [b EXCEPT !.count = 0, !.age = 0] \in [exists : BOOLEAN, count : Nat, age : Nat, limit : LimitType]
            /\ [b EXCEPT !.count = 0, !.age = 0].count = 0
            /\ [b EXCEPT !.count = 0, !.age = 0].age = 0
        BY <2>3
      <3>2. /\ [b EXCEPT !.count = 0, !.age = 0].exists = b.exists
            /\ [b EXCEPT !.count = 0, !.age = 0].limit = b.limit
        BY <2>3
      <3> QED  BY <1>2, <2>1, <3>1, <3>2, Zenon
    <2>5. Fresh(b, limit).count <= Fresh(b, limit).limit.max_count
      BY <2>2, <2>4
    <2>6. WellFormed(Fresh(b, limit))
      BY <2>4, <2>5 DEF WellFormed
    <2> QED  BY <1>2, <2>4, <2>6
  <1>3. CASE b.exists /\ ~Expired(b)
    BY <1>3 DEF Fresh
  <1> QED
    BY <1>1, <1>2, <1>3 DEF WellFormed

\* A bucket that is charged stays within its limit.
LEMMA ChargedBucket ==
    ASSUME NEW b, WellFormed(b), NEW limit \in LimitType
    PROVE  LET f == Fresh(b, limit)
               c == Charged(b, limit)
           IN  /\ WellFormed(c) /\ c.exists /\ c.limit = f.limit /\ c.age = f.age
               /\ Passes(b, limit) \in BOOLEAN
               /\ IF Passes(b, limit) THEN c.count = f.count + 1 /\ c.limit.max_count > 0
                  ELSE c.count = f.count /\ f.count = f.limit.max_count
  <1> DEFINE f == Fresh(b, limit)
  <1>1. WellFormed(f) /\ f.exists
    BY FreshBucket
  <1>2. f \in [exists : BOOLEAN, count : Nat, age : Nat, limit : LimitType] /\ f.limit.max_count \in Nat
    BY <1>1 DEF WellFormed, LimitType
  <1>3. Charged(b, limit) = [f EXCEPT !.count = IF f.count < f.limit.max_count THEN f.count + 1 ELSE f.count]
    BY <1>2 DEF Charged, Passes
  <1>4. Passes(b, limit) <=> f.count < f.limit.max_count
    BY DEF Passes
  <1>5. Passes(b, limit) \in BOOLEAN
    BY DEF Passes
  <1> HIDE DEF f
  <1>6. f.count <= f.limit.max_count
    BY <1>1 DEF WellFormed
  <1>7. CASE f.count < f.limit.max_count
    <2>1. Charged(b, limit) = [f EXCEPT !.count = f.count + 1]
      BY <1>3, <1>7
    <2>2. WellFormed(Charged(b, limit))
      BY <1>2, <1>7, <2>1 DEF WellFormed
    <2> QED  BY <1>1, <1>2, <1>4, <1>5, <1>7, <2>1, <2>2 DEF f
  <1>8. CASE ~(f.count < f.limit.max_count)
    <2>1. Charged(b, limit) = f
      BY <1>2, <1>3, <1>8
    <2> QED  BY <1>1, <1>2, <1>4, <1>5, <1>6, <1>8, <2>1 DEF f
  <1> QED
    BY <1>7, <1>8

\* Charging a bucket keeps its accounts.
LEMMA ChargedAccounts ==
    ASSUME NEW limits, Bounds(limits), NEW b, WellFormed(b), NEW limit \in limits,
           NEW passes \in [0 .. Shortest(limits) -> Nat], Accounts(b, passes, limits)
    PROVE  /\ Count(passes, Passes(b, limit)) \in [0 .. Shortest(limits) -> Nat]
           /\ Accounts(Charged(b, limit), Count(passes, Passes(b, limit)), limits)
  <1> DEFINE f == Fresh(b, limit)
             c == Charged(b, limit)
             yes == Passes(b, limit)
             after == Count(passes, yes)
             L == Largest(limits)
  <1>1. limit \in LimitType /\ L \in Nat /\ Shortest(limits) \in Nat
    BY DEF Bounds
  <1>2. /\ WellFormed(c) /\ c.exists /\ c.limit = f.limit /\ c.age = f.age /\ yes \in BOOLEAN
        /\ IF yes THEN c.count = f.count + 1 /\ c.limit.max_count > 0
           ELSE c.count = f.count /\ f.count = f.limit.max_count
    BY <1>1, ChargedBucket
  <1>3. /\ WellFormed(f)
        /\ f.limit = IF b.exists THEN b.limit ELSE limit
        /\ IF b.exists /\ ~Expired(b) THEN f = b ELSE f.count = 0 /\ f.age = 0
    BY <1>1, FreshBucket
  <1>4. /\ after \in [0 .. Shortest(limits) -> Nat]
        /\ \A n \in 0 .. Shortest(limits) : after[n] = IF yes /\ n > 0 THEN passes[n] + 1 ELSE passes[n]
    BY <1>2 DEF Count
  <1> HIDE DEF f, c, yes, after, L
  <1>5. f.limit \in limits /\ f.limit.max_count \in Nat /\ f.limit.window \in Nat
        /\ Shortest(limits) <= f.limit.window /\ f.limit.max_count <= L
    BY <1>3 DEF Accounts, Bounds, LimitType, L
  <1>6. f.count \in Nat /\ f.age \in Nat /\ c.count \in Nat /\ b.count \in Nat /\ b.age \in Nat
    BY <1>2, <1>3 DEF WellFormed
  <1>7. c.count > 0 \/ c.limit.max_count = 0
    BY <1>2, <1>5, <1>6
  <1>8. ASSUME NEW n \in 0 .. Shortest(limits), after[n] # 0
        PROVE  /\ n > 0 /\ n > c.age + 1 - c.limit.window
               /\ n <= c.age => after[n] < c.count
               /\ after[n] < c.count + L
    <2>1. n \in Nat /\ passes[n] \in Nat /\ n <= Shortest(limits)
      BY <1>1
    <2>2. \/ passes[n] = 0
          \/ /\ n > 0 /\ b.exists
             /\ n > b.age + 1 - b.limit.window
             /\ n <= b.age => passes[n] < b.count
             /\ passes[n] < b.count + L
      BY DEF Accounts, L
    <2>3. n > 0
      BY <1>4, <1>8, <2>1, <2>2
    <2>4. CASE b.exists /\ ~Expired(b)
      <3>1. f = b /\ b.age < b.limit.window
        BY <1>3, <1>5, <1>6, <2>4 DEF Expired
      <3>2. b.count > 0 \/ b.limit.max_count = 0
        BY <2>4 DEF Accounts
      <3>3. n > c.age + 1 - c.limit.window
        BY <1>2, <1>5, <1>6, <2>1, <2>3, <3>1
      <3>4. CASE yes
        <4>1. after[n] = passes[n] + 1 /\ c.count = b.count + 1 /\ b.count > 0 /\ L > 0
          BY <1>1, <1>2, <1>4, <1>5, <1>6, <2>3, <3>1, <3>2, <3>4 DEF L
        <4> QED  BY <1>1, <1>2, <1>6, <2>1, <2>2, <2>3, <3>1, <3>3, <4>1 DEF L
      <3>5. CASE ~yes
        <4>1. after[n] = passes[n] /\ c.count = b.count
          BY <1>2, <1>4, <3>1, <3>5
        <4> QED  BY <1>1, <1>2, <1>6, <1>8, <2>1, <2>2, <2>3, <3>1, <3>3, <4>1 DEF L
      <3> QED  BY <3>4, <3>5
    <2>5. CASE ~(b.exists /\ ~Expired(b))
      <3>1. f.count = 0 /\ c.age = 0
        BY <1>2, <1>3, <2>5
      <3>2. passes[n] = 0 \/ passes[n] < L
        <4>1. CASE ~b.exists
          BY <2>2, <4>1
        <4>2. CASE b.exists
          <5>1. n <= b.age
            BY <1>1, <1>3, <1>5, <1>6, <2>1, <2>5, <4>2 DEF Expired
          <5>2. b.count <= b.limit.max_count /\ b.limit = f.limit
            BY <1>3, <4>2 DEF WellFormed
          <5> QED  BY <1>1, <1>5, <1>6, <2>1, <2>2, <5>1, <5>2 DEF L
        <4> QED  BY <4>1, <4>2
      <3>3. n > c.age + 1 - c.limit.window
        BY <1>1, <1>2, <1>5, <2>1, <2>3, <3>1
      <3>4. CASE yes
        BY <1>1, <1>2, <1>4, <1>5, <2>1, <2>3, <3>1, <3>2, <3>3, <3>4 DEF L
      <3>5. CASE ~yes
        <4>1. after[n] = passes[n] /\ c.count = 0
          BY <1>2, <1>4, <3>1, <3>5
        <4> QED  BY <1>1, <1>8, <2>1, <2>3, <3>1, <3>2, <3>3, <4>1 DEF L
      <3> QED  BY <3>4, <3>5
    <2> QED  BY <2>4, <2>5
  <1>9. DOMAIN after = 0 .. Shortest(limits)
    BY <1>4
  <1>10. c.limit \in limits
    BY <1>2, <1>5
  <1>11. Accounts(c, after, limits)
    BY <1>2, <1>7, <1>8, <1>9, <1>10 DEF Accounts, L
  <1> QED
    BY <1>4, <1>11 DEF after, c, yes

\* So does time.
LEMMA OlderAccounts ==
    ASSUME NEW limits, Bounds(limits), NEW b, WellFormed(b),
           NEW passes \in [0 .. Shortest(limits) -> Nat], Accounts(b, passes, limits)
    PROVE  /\ WellFormed(Older(b))
           /\ Shift(passes) \in [0 .. Shortest(limits) -> Nat]
           /\ Accounts(Older(b), Shift(passes), limits)
  <1> DEFINE o == Older(b)
             after == Shift(passes)
  <1>1. Shortest(limits) \in Nat /\ Largest(limits) \in Nat /\ Longest(Limits \cup KeyLimits) \in Nat
    BY RequestLimits DEF Bounds
  <1>2. b \in [exists : BOOLEAN, count : Nat, age : Nat, limit : LimitType] /\ b.count <= b.limit.max_count
    BY DEF WellFormed
  <1>3. PICK a \in Nat : o = [b EXCEPT !.age = a] /\ a \in {b.age, b.age + 1}
    <2>1. CASE b.exists /\ b.age < 2 * Longest(Limits \cup KeyLimits)
      <3>1. o = [b EXCEPT !.age = b.age + 1]
        BY <2>1 DEF Older
      <3>2. b.age + 1 \in Nat
        BY <1>2
      <3> QED  BY <3>1, <3>2
    <2>2. CASE ~(b.exists /\ b.age < 2 * Longest(Limits \cup KeyLimits))
      BY <1>2, <2>2 DEF Older
    <2> QED  BY <2>1, <2>2
  <1>4. /\ o \in [exists : BOOLEAN, count : Nat, age : Nat, limit : LimitType]
        /\ o.count = b.count /\ o.limit = b.limit /\ o.age = a
    BY <1>2, <1>3
  <1>5. o.exists = b.exists
    BY <1>2, <1>3
  <1>6. WellFormed(o)
    BY <1>2, <1>4 DEF WellFormed
  <1>7. /\ after \in [0 .. Shortest(limits) -> Nat]
        /\ \A n \in 0 .. Shortest(limits) : after[n] = IF n = 0 THEN 0 ELSE passes[n - 1]
    BY <1>1 DEF Shift
  <1> HIDE DEF o, after
  <1>8. ASSUME NEW n \in 0 .. Shortest(limits), after[n] # 0
        PROVE  /\ n > 0 /\ o.exists /\ n > o.age + 1 - o.limit.window
               /\ n <= o.age => after[n] < o.count
               /\ after[n] < o.count + Largest(limits)
    <2>1. n > 0 /\ n - 1 \in 0 .. Shortest(limits) /\ after[n] = passes[n - 1]
      BY <1>1, <1>7, <1>8
    <2>2. /\ n - 1 > 0 /\ b.exists
          /\ n - 1 > b.age + 1 - b.limit.window
          /\ n - 1 <= b.age => passes[n - 1] < b.count
          /\ passes[n - 1] < b.count + Largest(limits)
      <3>1. passes[n - 1] # 0 /\ n - 1 \in DOMAIN passes
        BY <1>8, <2>1
      <3> QED
        BY <3>1, Zenon DEF Accounts
    <2>3. b.limit.window \in Nat /\ b.age \in Nat
      BY <1>2 DEF LimitType
    <2>4. n \in Nat /\ b.age <= a /\ a <= b.age + 1
      BY <1>1, <1>3, <2>3
    <2>5. n > a + 1 - b.limit.window
      BY <2>2, <2>3, <2>4
    <2>6. n <= a => passes[n - 1] < b.count
      BY <2>2, <2>3, <2>4
    <2> QED  BY <1>4, <1>5, <2>1, <2>2, <2>5, <2>6
  <1>9. o.exists => o.limit \in limits /\ (o.count > 0 \/ o.limit.max_count = 0)
    BY <1>4, <1>5 DEF Accounts
  <1>10. DOMAIN after = 0 .. Shortest(limits)
    BY <1>7
  <1>11. Accounts(o, after, limits)
    BY <1>8, <1>9, <1>10 DEF Accounts
  <1> QED
    BY <1>6, <1>7, <1>11 DEF o, after

\* A bucket that is not there.
LEMMA NoBucketWellFormed == WellFormed(NoBucket) /\ ~NoBucket.exists
  BY DEF WellFormed, NoBucket, NoLimit, LimitType

\* cleanup_expired only forgets a bucket when what it counted is no longer recent.
LEMMA StaleAccounts ==
    ASSUME NEW limits, Bounds(limits), NEW b, WellFormed(b), Stale(b),
           NEW passes \in [0 .. Shortest(limits) -> Nat], Accounts(b, passes, limits)
    PROVE  Accounts(NoBucket, passes, limits)
  <1>1. /\ Shortest(limits) \in Nat /\ b.exists /\ b.limit \in limits /\ Shortest(limits) <= b.limit.window
        /\ b.age >= 2 * b.limit.window
    BY DEF Bounds, Stale, Accounts
  <1>2. b.age \in Nat /\ b.limit.window \in Nat
    BY DEF WellFormed, LimitType
  <1>3. \A n \in 0 .. Shortest(limits) : passes[n] = 0
    <2> SUFFICES ASSUME NEW n \in 0 .. Shortest(limits), passes[n] # 0 PROVE FALSE
      OBVIOUS
    <2>1. n > b.age + 1 - b.limit.window
      BY DEF Accounts
    <2> QED  BY <1>1, <1>2, <2>1
  <1> QED
    BY <1>3, NoBucketWellFormed DEF Accounts

\* Neither bucket nor passes: in the beginning and after a reset.
LEMMA EmptyAccounts ==
    ASSUME NEW limits, Bounds(limits)
    PROVE  /\ NoPasses(limits) \in [0 .. Shortest(limits) -> Nat]
           /\ Accounts(NoBucket, NoPasses(limits), limits)
  BY NoBucketWellFormed DEF NoPasses, Accounts

-----------------------------------------------------------------------------
\* The engine

Inv == TypeOK /\ Accounted

\* The checks before the rate limits end with a violation or with none.
LEMMA DenialType ==
    ASSUME NEW r
    PROVE  Denial(r) \in {"None"} \cup PolicyViolation
  BY DEF Denial, PolicyViolation

\* A limit that is looked up is one of the limits.
LEMMA RequestedLimits ==
    ASSUME TypeOK, NEW t \in Threads
    PROVE  /\ ~LimitOf(request[t]).unlimited => LimitOf(request[t]) \in Limits
           /\ ~KeyLimitOf(request[t]).unlimited => KeyLimitOf(request[t]) \in KeyLimits
           /\ request[t].key \in Keys \cup {NoKey}
  <1>1. request[t] \in Requests
    BY DEF TypeOK
  <1> QED
    BY <1>1, RequestsAssumption DEF Limits, KeyLimits, Real

\* The engine starts with empty trackers.
LEMMA InitInv == Init => Inv
  <1> SUFFICES ASSUME Init PROVE Inv
    OBVIOUS
  <1>1. Bounds(Limits) /\ Bounds(KeyLimits)
    BY RequestLimits
  <1>2. TypeOK
    BY <1>1, EmptyAccounts, NoBucketWellFormed, NobodyAssumption DEF Init, TypeOK
  <1>3. Accounted
    BY <1>1, EmptyAccounts DEF Init, Accounted
  <1> QED
    BY <1>2, <1>3 DEF Inv

\* A step of a thread that does not touch the trackers: it goes on, decides, or takes or
\* leaves the lock.
LEMMA QuietStep ==
    ASSUME Inv, NEW t \in Threads, UNCHANGED <<request, trackers, janitor, history>>,
           NEW to \in {"idle", "limit", "status", "remaining", "key"}, pc' = [pc EXCEPT ![t] = to],
           NEW d \in {"None", "Panic"} \cup PolicyDecision,
           decision' \in {decision, [decision EXCEPT ![t] = d]},
           holder' = IF to = "remaining" THEN t ELSE IF pc[t] = "remaining" THEN Nobody ELSE holder,
           to = "remaining" => Unlocked
    PROVE  Inv'
  <1>1. \A s \in Threads : (holder' = s) <=> pc'[s] = "remaining"
    BY NobodyAssumption DEF Inv, TypeOK, Unlocked
  <1>2. /\ pc' \in [Threads -> {"idle", "limit", "status", "remaining", "key"}]
        /\ decision' \in [Threads -> {"None", "Panic"} \cup PolicyDecision]
        /\ holder' \in Threads \cup {Nobody}
    BY DEF Inv, TypeOK
  <1>3. TypeOK'
    BY <1>1, <1>2 DEF Inv, TypeOK, trackers, history
  <1>4. Accounted'
    BY DEF Inv, Accounted, trackers, history
  <1> QED
    BY <1>3, <1>4 DEF Inv

\* Every step of a thread keeps the invariant.
LEMMA ThreadStepInv ==
    ASSUME Inv, NEW t \in Threads, ThreadStep(t)
    PROVE  Inv'
  <1> DEFINE Next1 == {"idle", "limit", "status", "remaining", "key"}
             Decisions == {"None", "Panic"} \cup PolicyDecision
  <1>1. CASE Deny(t)
    <2>1. Denial(request[t]) \in Decisions
      BY DenialType DEF PolicyDecision
    <2>2. /\ pc' = [pc EXCEPT ![t] = "idle"] /\ pc[t] = "idle" /\ holder' = holder
          /\ decision' = [decision EXCEPT ![t] = Denial(request[t])]
          /\ UNCHANGED <<request, trackers, janitor, history>>
      BY <1>1 DEF Deny, Decide, Go
    <2> QED  BY <2>1, <2>2, QuietStep
  <1>2. CASE Admit(t)
    <2>1. /\ pc' = [pc EXCEPT ![t] = "limit"] /\ pc[t] = "idle" /\ holder' = holder
          /\ decision' = [decision EXCEPT ![t] = "None"]
          /\ UNCHANGED <<request, trackers, janitor, history>>
      BY <1>2 DEF Admit, Go
    <2> QED  BY <2>1, QuietStep
  <1>3. CASE SkipLimit(t)
    <2>1. /\ pc' = [pc EXCEPT ![t] = "key"] /\ pc[t] = "limit" /\ holder' = holder
          /\ decision' = decision
          /\ UNCHANGED <<request, trackers, janitor, history>>
      BY <1>3 DEF SkipLimit, Go
    <2> QED  BY <2>1, QuietStep
  <1>4. CASE ReadStatus(t)
    <2>1. /\ UNCHANGED <<request, trackers, janitor, history>> /\ pc[t] = "status" /\ Unlocked
          /\ \/ pc' = [pc EXCEPT ![t] = "remaining"] /\ holder' = t /\ decision' = decision
             \/ /\ pc' = [pc EXCEPT ![t] = "idle"] /\ holder' = holder
                /\ decision' = [decision EXCEPT ![t] = "RateLimitExceeded"]
      BY <1>4 DEF ReadStatus, Decide, Go
    <2>2. "RateLimitExceeded" \in Decisions
      BY DEF PolicyDecision, PolicyViolation
    <2> QED  BY <2>1, <2>2, QuietStep
  <1>5. CASE ReadRemaining(t)
    <2>1. PICK d \in {"Panic", "RateLimitExceeded"} : decision' = [decision EXCEPT ![t] = d]
      BY <1>5 DEF ReadRemaining, Decide
    <2>2. /\ pc' = [pc EXCEPT ![t] = "idle"] /\ pc[t] = "remaining" /\ holder' = Nobody
          /\ UNCHANGED <<request, trackers, janitor, history>>
      BY <1>5 DEF ReadRemaining, Decide, Go
    <2>3. d \in Decisions
      BY <2>1 DEF PolicyDecision, PolicyViolation
    <2> QED  BY <2>1, <2>2, <2>3, QuietStep
  <1>6. CASE SkipKeyLimit(t)
    <2>1. /\ pc' = [pc EXCEPT ![t] = "idle"] /\ pc[t] = "key" /\ holder' = holder
          /\ decision' = [decision EXCEPT ![t] = "Allowed"]
          /\ UNCHANGED <<request, trackers, janitor, history>>
      BY <1>6 DEF SkipKeyLimit, Decide, Go
    <2>2. "Allowed" \in Decisions
      BY DEF PolicyDecision
    <2> QED  BY <2>1, <2>2, QuietStep
  <1>7. CASE CheckLimit(t)
    <2> DEFINE limit == LimitOf(request[t])
               yes == Passes(bucket, limit)
    <2>1. /\ pc[t] = "limit" /\ Unlocked /\ ~limit.unlimited
          /\ pc' = [pc EXCEPT ![t] = IF yes THEN "key" ELSE "status"]
          /\ bucket' = Charged(bucket, limit) /\ recent' = Count(recent, yes)
          /\ UNCHANGED <<request, decision, by_key, holder, janitor, recent_by>>
      BY <1>7 DEF CheckLimit, Go
    <2>2. limit \in Limits
      BY <2>1, RequestedLimits DEF Inv
    <2>3. limit \in LimitType
      BY <2>2, RequestLimits DEF Bounds
    <2> HIDE DEF limit, yes
    <2>4. WellFormed(bucket) /\ recent \in [0 .. Shortest(Limits) -> Nat] /\ Accounts(bucket, recent, Limits)
      BY DEF Inv, TypeOK, Accounted
    <2>5. WellFormed(bucket')
      BY <2>1, <2>3, <2>4, ChargedBucket
    <2>6. recent' \in [0 .. Shortest(Limits) -> Nat] /\ Accounts(bucket', recent', Limits)
      BY <2>1, <2>2, <2>4, ChargedAccounts, RequestLimits DEF yes
    <2>7. /\ pc' \in [Threads -> Next1]
          /\ \A s \in Threads : holder' = s <=> pc'[s] = "remaining"
      BY <2>1, NobodyAssumption DEF Inv, TypeOK, Unlocked
    <2>8. TypeOK'
      BY <2>1, <2>5, <2>6, <2>7 DEF Inv, TypeOK
    <2>9. Accounted'
      BY <2>1, <2>6 DEF Inv, Accounted
    <2> QED  BY <2>8, <2>9 DEF Inv
  <1>8. CASE CheckKeyLimit(t)
    <2> DEFINE limit == KeyLimitOf(request[t])
               k == request[t].key
               yes == Passes(by_key[k], limit)
    <2>1. /\ pc[t] = "key" /\ ~limit.unlimited /\ k # NoKey
          /\ pc' = [pc EXCEPT ![t] = "idle"]
          /\ decision' = [decision EXCEPT ![t] = IF yes THEN "Allowed" ELSE "RateLimitExceeded"]
          /\ by_key' = [by_key EXCEPT ![k] = Charged(by_key[k], limit)]
          /\ recent_by' = [recent_by EXCEPT ![k] = Count(recent_by[k], yes)]
          /\ UNCHANGED <<request, bucket, holder, janitor, recent>>
      BY <1>8 DEF CheckKeyLimit, Decide, Go
    <2>2. limit \in KeyLimits /\ k \in Keys
      BY <2>1, RequestedLimits DEF Inv
    <2>3. limit \in LimitType
      BY <2>2, RequestLimits DEF Bounds
    <2> HIDE DEF limit, k, yes
    <2>4. /\ WellFormed(by_key[k]) /\ recent_by[k] \in [0 .. Shortest(KeyLimits) -> Nat]
          /\ Accounts(by_key[k], recent_by[k], KeyLimits)
      BY <2>2 DEF Inv, TypeOK, Accounted
    <2>5. WellFormed(Charged(by_key[k], limit))
      BY <2>3, <2>4, ChargedBucket
    <2>6. /\ Count(recent_by[k], yes) \in [0 .. Shortest(KeyLimits) -> Nat]
          /\ Accounts(Charged(by_key[k], limit), Count(recent_by[k], yes), KeyLimits)
      BY <2>2, <2>4, ChargedAccounts, RequestLimits DEF yes
    <2>7. /\ DOMAIN by_key' = Keys
          /\ \A j \in Keys : by_key'[j] = IF j = k THEN Charged(by_key[k], limit) ELSE by_key[j]
          /\ \A j \in Keys : recent_by'[j] = IF j = k THEN Count(recent_by[k], yes) ELSE recent_by[j]
      BY <2>1, <2>2 DEF Inv, TypeOK
    <2>8. recent_by' \in [Keys -> [0 .. Shortest(KeyLimits) -> Nat]]
      BY <2>1, <2>2, <2>6 DEF Inv, TypeOK
    <2>9. /\ pc' \in [Threads -> Next1]
          /\ decision' \in [Threads -> Decisions]
          /\ \A s \in Threads : holder' = s <=> pc'[s] = "remaining"
      BY <2>1, NobodyAssumption DEF Inv, TypeOK, PolicyDecision, PolicyViolation
    <2>10. \A j \in Keys : WellFormed(by_key'[j])
      BY <2>5, <2>7 DEF Inv, TypeOK
    <2>11. \A j \in Keys : Accounts(by_key'[j], recent_by'[j], KeyLimits)
      BY <2>6, <2>7 DEF Inv, Accounted
    <2>12. TypeOK'
      BY <2>1, <2>7, <2>8, <2>9, <2>10 DEF Inv, TypeOK
    <2>13. Accounted'
      BY <2>1, <2>11 DEF Inv, Accounted
    <2> QED  BY <2>12, <2>13 DEF Inv
  <1> QED
    BY <1>1, <1>2, <1>3, <1>4, <1>5, <1>6, <1>7, <1>8 DEF ThreadStep

\* So does every other step.
LEMMA NextInv == Inv /\ [Next]_vars => Inv'
  <1> SUFFICES ASSUME Inv, [Next]_vars PROVE Inv'
    OBVIOUS
  <1>1. Bounds(Limits) /\ Bounds(KeyLimits)
    BY RequestLimits
  <1>2. /\ WellFormed(bucket) /\ recent \in [0 .. Shortest(Limits) -> Nat]
        /\ Accounts(bucket, recent, Limits)
        /\ DOMAIN by_key = Keys /\ recent_by \in [Keys -> [0 .. Shortest(KeyLimits) -> Nat]]
        /\ \A k \in Keys : /\ WellFormed(by_key[k]) /\ recent_by[k] \in [0 .. Shortest(KeyLimits) -> Nat]
                           /\ Accounts(by_key[k], recent_by[k], KeyLimits)
    BY DEF Inv, TypeOK, Accounted
  <1>3. CASE UNCHANGED vars
    BY <1>3 DEF vars, trackers, history, Inv, TypeOK, Accounted
  <1>4. CASE \E t \in Threads : ThreadStep(t)
    BY <1>4, ThreadStepInv
  <1>5. CASE CleanupActions
    <2>1. /\ bucket' = IF Stale(bucket) THEN NoBucket ELSE bucket
          /\ janitor' = "cleanup"
          /\ UNCHANGED <<request, pc, decision, by_key, holder, recent, recent_by>>
      BY <1>5 DEF CleanupActions, history
    <2>2. WellFormed(bucket') /\ Accounts(bucket', recent, Limits)
      BY <1>1, <1>2, <2>1, NoBucketWellFormed, StaleAccounts
    <2>3. TypeOK'
      BY <2>1, <2>2 DEF Inv, TypeOK
    <2>4. Accounted'
      BY <2>1, <2>2 DEF Inv, Accounted
    <2> QED  BY <2>3, <2>4 DEF Inv
  <1>6. CASE CleanupKeys
    <2>1. /\ by_key' = [k \in Keys |-> IF Stale(by_key[k]) THEN NoBucket ELSE by_key[k]]
          /\ janitor' = "idle"
          /\ UNCHANGED <<request, pc, decision, bucket, holder, recent, recent_by>>
      BY <1>6 DEF CleanupKeys, history
    <2>2. \A k \in Keys : WellFormed(by_key'[k]) /\ Accounts(by_key'[k], recent_by[k], KeyLimits)
      <3> SUFFICES ASSUME NEW k \in Keys
                   PROVE  WellFormed(by_key'[k]) /\ Accounts(by_key'[k], recent_by[k], KeyLimits)
        OBVIOUS
      <3>1. CASE Stale(by_key[k])
        <4>1. by_key'[k] = NoBucket
          BY <2>1, <3>1
        <4> QED  BY <1>1, <1>2, <3>1, <4>1, NoBucketWellFormed, StaleAccounts
      <3>2. CASE ~Stale(by_key[k])
        BY <1>2, <2>1, <3>2
      <3> QED  BY <3>1, <3>2
    <2>3. TypeOK'
      BY <2>1, <2>2 DEF Inv, TypeOK
    <2>4. Accounted'
      BY <2>1, <2>2 DEF Inv, Accounted
    <2> QED  BY <2>3, <2>4 DEF Inv
  <1>7. CASE ResetActions
    <2>1. /\ bucket' = NoBucket /\ recent' = NoPasses(Limits) /\ janitor' = "reset"
          /\ UNCHANGED <<request, pc, decision, by_key, holder, recent_by>>
      BY <1>7 DEF ResetActions
    <2>2. /\ WellFormed(bucket') /\ recent' \in [0 .. Shortest(Limits) -> Nat]
          /\ Accounts(bucket', recent', Limits)
      BY <1>1, <2>1, NoBucketWellFormed, EmptyAccounts
    <2>3. TypeOK'
      BY <2>1, <2>2 DEF Inv, TypeOK
    <2>4. Accounted'
      BY <2>1, <2>2 DEF Inv, Accounted
    <2> QED  BY <2>3, <2>4 DEF Inv
  <1>8. CASE ResetKeys
    <2>1. /\ by_key' = [k \in Keys |-> NoBucket] /\ janitor' = "idle"
          /\ recent_by' = [k \in Keys |-> NoPasses(KeyLimits)]
          /\ UNCHANGED <<request, pc, decision, bucket, holder, recent>>
      BY <1>8 DEF ResetKeys
    <2>2. NoPasses(KeyLimits) \in [0 .. Shortest(KeyLimits) -> Nat] /\ Accounts(NoBucket, NoPasses(KeyLimits), KeyLimits)
      BY <1>1, EmptyAccounts
    <2>3. TypeOK'
      BY <2>1, <2>2, NoBucketWellFormed DEF Inv, TypeOK
    <2>4. Accounted'
      BY <2>1, <2>2 DEF Inv, Accounted
    <2> QED  BY <2>3, <2>4 DEF Inv
  <1>9. CASE Tick
    <2>1. /\ bucket' = Older(bucket) /\ by_key' = [k \in Keys |-> Older(by_key[k])]
          /\ recent' = Shift(recent) /\ recent_by' = [k \in Keys |-> Shift(recent_by[k])]
          /\ UNCHANGED <<request, pc, decision, holder, janitor>>
      BY <1>9 DEF Tick
    <2>2. /\ WellFormed(bucket') /\ recent' \in [0 .. Shortest(Limits) -> Nat]
          /\ Accounts(bucket', recent', Limits)
      BY <1>1, <1>2, <2>1, OlderAccounts
    <2>3. \A k \in Keys : /\ WellFormed(Older(by_key[k]))
                          /\ Shift(recent_by[k]) \in [0 .. Shortest(KeyLimits) -> Nat]
                          /\ Accounts(Older(by_key[k]), Shift(recent_by[k]), KeyLimits)
      BY <1>1, <1>2, OlderAccounts
    <2>4. TypeOK'
      BY <2>1, <2>2, <2>3 DEF Inv, TypeOK
    <2>5. Accounted'
      BY <2>1, <2>2, <2>3 DEF Accounted
    <2> QED  BY <2>4, <2>5 DEF Inv
  <1> QED
    BY <1>3, <1>4, <1>5, <1>6, <1>7, <1>8, <1>9 DEF Next

\* What a bucket knows bounds what got past it.
LEMMA AccountsBound ==
    ASSUME NEW limits, Bounds(limits), NEW b, WellFormed(b),
           NEW passes \in [0 .. Shortest(limits) -> Nat], Accounts(b, passes, limits)
    PROVE  passes[Shortest(limits)] <= Burst(limits)
  <1> DEFINE n == Shortest(limits)
             L == Largest(limits)
             S == {0, 2 * L - 1}
  <1>1. n \in Nat /\ L \in Nat /\ n \in 0 .. n /\ passes[n] \in Nat
    BY DEF Bounds
  <1>2. \E x \in S : \A y \in S : x >= y
    <2>1. CASE L = 0
      BY <2>1
    <2>2. CASE L # 0
      BY <1>1, <2>2
    <2> QED  BY <2>1, <2>2
  <1>3. Burst(limits) \in S /\ \A y \in S : Burst(limits) >= y
    <2>1. Burst(limits) = Max(S)
      BY DEF Burst
    <2> HIDE DEF S
    <2> QED  BY <1>2, <2>1, Zenon DEF Max
  <1>4. passes[n] = 0 \/ passes[n] <= 2 * L - 1
    <2> SUFFICES ASSUME passes[n] # 0 PROVE passes[n] <= 2 * L - 1
      OBVIOUS
    <2>1. b.exists /\ b.limit \in limits /\ passes[n] < b.count + L
      BY <1>1 DEF Accounts
    <2>2. b.count \in Nat /\ b.limit.max_count \in Nat /\ b.count <= b.limit.max_count
      BY DEF WellFormed, LimitType
    <2>3. b.limit.max_count <= L
      BY <2>1 DEF Bounds
    <2> QED  BY <1>1, <2>1, <2>2, <2>3
  <1> QED
    BY <1>1, <1>3, <1>4

-----------------------------------------------------------------------------
\* Every variable keeps its shape, no bucket of the two trackers counts more than its own
\* limit, and the lock of rate_limit_tracker is held exactly by the thread between the two
\* elapsed() of rate_limit_status, the one that panics included.
THEOREM TypeCorrect == Spec => []TypeOK
  <1>1. Inv => TypeOK
    BY DEF Inv
  <1> QED
    BY <1>1, InitInv, NextInv, PTL DEF Spec

\* However many threads share the trackers, whichever limits their policies have and
\* whenever cleanup and reset_rate_limits come in between, no stretch of time as long as
\* the shortest window sees more than one less than twice the largest limit get past
\* check_rate_limit; and the same for each key.
THEOREM RatesAreBounded == Spec => []RateBound
  <1>1. Inv => RateBound
    BY AccountsBound, RequestLimits DEF Inv, TypeOK, Accounted, RateBound
  <1> QED
    BY <1>1, InitInv, NextInv, PTL DEF Spec

=============================================================================
