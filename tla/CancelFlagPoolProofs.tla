------------------------ MODULE CancelFlagPoolProofs ------------------------
(***************************************************************************)
(* The cancel flags of the worker pool: for every capacity and every       *)
(* history of acquire, grow, release and cancel, a slot is either in use   *)
(* or on the free stack, once, and only a slot in use has its flag raised. *)
(***************************************************************************)
EXTENDS CancelFlagPool, Functions, FiniteSetTheorems, SequenceTheorems,
        NaturalsInduction, WellFoundedInduction, TLAPS

-----------------------------------------------------------------------------
(* Natural numbers.                                                        *)

Less == {ss \in Nat \X Nat : ss[1] < ss[2]}

\* A set of naturals that is not empty has a least element.
LEMMA LeastExists ==
    ASSUME NEW S \in SUBSET Nat, S # {}
    PROVE  \E x \in S : \A y \in S : x <= y
<1>1. Less = OpToRel(<, Nat)
  BY DEF Less, OpToRel
<1>2. IsWellFoundedOn(Less, Nat)
  BY <1>1, NatLessThanWellFounded
<1>3. PICK x \in S : \A y \in S : ~ (<<y, x>> \in Less)
  BY <1>2, WFMin
<1>4. ASSUME NEW y \in S PROVE x <= y
  <2>1. x \in Nat /\ y \in Nat /\ ~ (<<y, x>> \in Less)
    BY <1>3
  <2> QED BY <2>1 DEF Less
<1> QED BY <1>4

\* Induction over the naturals, for a set.
LEMMA NatSets ==
    ASSUME NEW S \in SUBSET Nat, 0 \in S, \A n \in S : n + 1 \in S
    PROVE  S = Nat
<1> SUFFICES ASSUME S # Nat PROVE FALSE
  OBVIOUS
<1>1. PICK x \in Nat \ S : \A y \in Nat \ S : x <= y
  BY LeastExists
<1>2. x \in Nat /\ x # 0 /\ x - 1 \in Nat
  BY <1>1
<1>3. x - 1 \in S
  BY <1>1, <1>2
<1>4. (x - 1) + 1 \in S
  BY <1>3
<1> QED BY <1>1, <1>2, <1>4

\* Induction along a loop of n rounds.
LEMMA UpTo ==
    ASSUME NEW n \in Nat, NEW S, 0 \in S, \A k \in 1 .. n : k - 1 \in S => k \in S
    PROVE  n \in S
<1> DEFINE G == {m \in Nat : m <= n => m \in S}
<1>1. 0 \in G
  OBVIOUS
<1>2. ASSUME NEW m \in G PROVE m + 1 \in G
  <2>1. m \in Nat /\ (m <= n => m \in S)
    OBVIOUS
  <2>2. ASSUME m + 1 <= n PROVE m + 1 \in S
    <3>1. m + 1 \in 1 .. n /\ (m + 1) - 1 = m /\ m <= n
      BY <2>1, <2>2
    <3> QED BY <2>1, <3>1
  <2> QED BY <2>1, <2>2
<1>3. G = Nat
  <2>1. G \in SUBSET Nat
    OBVIOUS
  <2> HIDE DEF G
  <2> QED BY <1>1, <1>2, <2>1, NatSets
<1> QED BY <1>3

-----------------------------------------------------------------------------
(* Sequences without repetition.                                           *)

Distinct(s) == \A j, k \in DOMAIN s : s[j] = s[k] => j = k

\* Pushing a new element.
LEMMA Pushed ==
    ASSUME NEW S, NEW s \in Seq(S), NEW x \in S
    PROVE  /\ Append(s, x) \in Seq(S) /\ Range(Append(s, x)) = Range(s) \cup {x}
           /\ Distinct(s) /\ x \notin Range(s) => Distinct(Append(s, x))
<1> DEFINE u == Append(s, x)
<1>1. u \in Seq(S) /\ DOMAIN s = 1 .. Len(s) /\ DOMAIN u = 1 .. (Len(s) + 1) /\ Len(s) \in Nat
  OBVIOUS
<1>2. \A k \in DOMAIN s : u[k] = s[k]
  OBVIOUS
<1>3. u[Len(s) + 1] = x
  OBVIOUS
<1> HIDE DEF u
<1>4. Range(u) = Range(s) \cup {x}
  BY <1>1, <1>2, <1>3 DEF Range
<1>5. ASSUME Distinct(s), x \notin Range(s) PROVE Distinct(u)
  BY <1>1, <1>2, <1>3, <1>5 DEF Distinct, Range
<1> QED BY <1>1, <1>4, <1>5 DEF u

\* Taking the last element off.
LEMMA LastPopped ==
    ASSUME NEW S, NEW s \in Seq(S), s # << >>
    PROVE  LET u == SubSeq(s, 1, Len(s) - 1) IN
           /\ u \in Seq(S) /\ s[Len(s)] \in Range(s) /\ s[Len(s)] \in S
           /\ Distinct(s) => Distinct(u) /\ Range(u) = Range(s) \ {s[Len(s)]}
<1> DEFINE u == SubSeq(s, 1, Len(s) - 1)
<1>1. Len(s) \in Nat /\ Len(s) # 0 /\ DOMAIN s = 1 .. Len(s)
  OBVIOUS
<1>2. DOMAIN u = 1 .. (Len(s) - 1) /\ \A k \in DOMAIN u : u[k] = s[k]
  BY <1>1
<1>3. u \in Seq(S)
  BY <1>1
<1> HIDE DEF u
<1>4. s[Len(s)] \in Range(s) /\ s[Len(s)] \in S
  BY <1>1 DEF Range
<1>5. ASSUME Distinct(s) PROVE Distinct(u) /\ Range(u) = Range(s) \ {s[Len(s)]}
  <2>1. Distinct(u)
    BY <1>1, <1>2, <1>5 DEF Distinct
  <2>2. \A k \in DOMAIN s : k \in DOMAIN u \/ k = Len(s)
    BY <1>1, <1>2
  <2>3. \A k \in DOMAIN u : k \in DOMAIN s /\ k # Len(s)
    BY <1>1, <1>2
  <2>4. \A k \in DOMAIN u : s[k] # s[Len(s)]
    BY <1>1, <1>5, <2>3 DEF Distinct
  <2> QED BY <1>2, <2>1, <2>2, <2>3, <2>4 DEF Range
<1> QED BY <1>3, <1>4, <1>5 DEF u

\* Cutting a sequence after its first n elements.
LEMMA Cut ==
    ASSUME NEW S, NEW s \in Seq(S), NEW n \in 0 .. Len(s)
    PROVE  LET u == SubSeq(s, 1, n)
               v == SubSeq(s, n + 1, Len(s)) IN
           /\ u \in Seq(S) /\ DOMAIN u = 1 .. n /\ \A k \in 1 .. n : u[k] = s[k]
           /\ v \in Seq(S) /\ Range(s) = Range(u) \cup Range(v)
           /\ n = Len(s) <=> v = << >>
           /\ n < Len(s) => Head(v) = s[n + 1]
           /\ Distinct(s) => Distinct(u) /\ Distinct(v) /\ Range(u) \cap Range(v) = {}
<1> DEFINE u == SubSeq(s, 1, n)
           v == SubSeq(s, n + 1, Len(s))
           m == Len(s) - n
<1>1. Len(s) \in Nat /\ n \in Nat /\ n <= Len(s) /\ m \in Nat /\ DOMAIN s = 1 .. Len(s)
  OBVIOUS
<1>2. u \in Seq(S) /\ DOMAIN u = 1 .. n /\ \A k \in 1 .. n : u[k] = s[k]
  BY <1>1
<1>3. v \in Seq(S) /\ Len(v) = m /\ DOMAIN v = 1 .. m /\ \A k \in 1 .. m : v[k] = s[n + k]
  <2>1. v \in Seq(S)
    BY <1>1
  <2>2. Len(v) = m
    <3>1. n + 1 \in Int /\ Len(s) \in Int /\ \A k \in (n + 1) .. Len(s) : s[k] \in S
      BY <1>1
    <3>2. Len(v) = IF n + 1 <= Len(s) THEN Len(s) - (n + 1) + 1 ELSE 0
      BY <3>1, SubSeqProperties, ZenonT(60)
    <3>3. \A a, b \in Nat : a <= b => (IF a + 1 <= b THEN b - (a + 1) + 1 ELSE 0) = b - a
      OBVIOUS
    <3>4. (IF n + 1 <= Len(s) THEN Len(s) - (n + 1) + 1 ELSE 0) = Len(s) - n
      BY <1>1, <3>3, Zenon
    <3> HIDE DEF v
    <3> QED BY <3>2, <3>4
  <2>3. DOMAIN v = 1 .. m
    BY <2>1, <2>2
  <2>4. ASSUME NEW k \in 1 .. m PROVE v[k] = s[n + k]
    BY <1>1
  <2> QED BY <2>1, <2>2, <2>3, <2>4
<1> HIDE DEF u, v
<1>4. Range(s) = Range(u) \cup Range(v)
  <2>1. ASSUME NEW k \in DOMAIN s PROVE s[k] \in Range(u) \cup Range(v)
    <3>1. CASE k \in 1 .. n
      BY <1>2, <3>1 DEF Range
    <3>2. CASE k \notin 1 .. n
      <4>1. k - n \in 1 .. m /\ n + (k - n) = k
        BY <1>1, <3>2
      <4>2. v[k - n] = s[k]
        BY <1>3, <4>1
      <4> QED BY <1>3, <4>1, <4>2 DEF Range
    <3> QED BY <3>1, <3>2
  <2>2. \A k \in DOMAIN u : u[k] \in Range(s)
    BY <1>1, <1>2 DEF Range
  <2>3. ASSUME NEW k \in DOMAIN v PROVE v[k] \in Range(s)
    <3>1. n + k \in DOMAIN s
      BY <1>1, <1>3
    <3> QED BY <1>3, <3>1 DEF Range
  <2> QED BY <2>1, <2>2, <2>3 DEF Range
<1>5. n = Len(s) <=> v = << >>
  <2>1. n = Len(s) <=> m = 0
    BY <1>1
  <2>2. m = 0 <=> v = << >>
    BY <1>3
  <2> QED BY <2>1, <2>2
<1>6. n < Len(s) => Head(v) = s[n + 1]
  BY <1>1, <1>3
<1>7. ASSUME Distinct(s) PROVE Distinct(u) /\ Distinct(v) /\ Range(u) \cap Range(v) = {}
  <2>1. Distinct(u)
    BY <1>1, <1>2, <1>7 DEF Distinct
  <2>2. \A k \in 1 .. m : n + k \in DOMAIN s
    BY <1>1
  <2>3. Distinct(v)
    <3>1. ASSUME NEW j \in 1 .. m, NEW k \in 1 .. m, v[j] = v[k] PROVE j = k
      <4>1. s[n + j] = s[n + k]
        BY <1>3, <3>1
      <4>2. n + j = n + k
        BY <1>7, <2>2, <4>1 DEF Distinct
      <4> QED BY <1>1, <4>2
    <3> QED BY <1>3, <3>1 DEF Distinct
  <2>4. ASSUME NEW j \in DOMAIN u, NEW k \in DOMAIN v PROVE u[j] # v[k]
    <3>1. j \in DOMAIN s /\ n + k \in DOMAIN s /\ j # n + k
      BY <1>1, <1>2, <1>3
    <3> QED BY <1>2, <1>3, <1>7, <3>1 DEF Distinct
  <2> QED BY <2>1, <2>3, <2>4 DEF Range
<1> QED BY <1>2, <1>3, <1>4, <1>5, <1>6, <1>7 DEF u, v

\* Taking the head off.
LEMMA HeadPopped ==
    ASSUME NEW S, NEW s \in Seq(S), s # << >>
    PROVE  /\ Tail(s) \in Seq(S) /\ Head(s) \in Range(s) /\ Head(s) \in S
           /\ Range(s) = Range(Tail(s)) \cup {Head(s)}
           /\ \A k \in DOMAIN Tail(s) : k + 1 \in DOMAIN s /\ Tail(s)[k] = s[k + 1] /\ k \in Nat \ {0}
           /\ Distinct(s) => Distinct(Tail(s)) /\ Head(s) \notin Range(Tail(s))
<1> DEFINE v == Tail(s)
           m == Len(s) - 1
<1>1. Len(s) \in Nat /\ m \in Nat /\ DOMAIN s = 1 .. (m + 1) /\ Head(s) = s[1]
  OBVIOUS
<1>2. v \in Seq(S) /\ DOMAIN v = 1 .. m /\ \A k \in 1 .. m : v[k] = s[k + 1]
  BY <1>1
<1> HIDE DEF v
<1>3. Head(s) \in Range(s) /\ Head(s) \in S
  BY <1>1 DEF Range
<1>4. \A k \in DOMAIN v : k + 1 \in DOMAIN s /\ v[k] = s[k + 1] /\ k \in Nat \ {0}
  BY <1>1, <1>2
<1>5. ASSUME NEW k \in DOMAIN s, k # 1 PROVE s[k] \in Range(v)
  <2>1. k - 1 \in 1 .. m /\ (k - 1) + 1 = k
    BY <1>1, <1>5
  <2>2. v[k - 1] = s[k]
    BY <1>2, <2>1
  <2> QED BY <1>2, <2>1, <2>2 DEF Range
<1>6. Range(s) = Range(v) \cup {Head(s)}
  BY <1>1, <1>3, <1>4, <1>5 DEF Range
<1>7. ASSUME Distinct(s) PROVE Distinct(v) /\ Head(s) \notin Range(v)
  <2>1. Distinct(v)
    BY <1>1, <1>2, <1>4, <1>7 DEF Distinct
  <2>2. \A k \in DOMAIN v : k + 1 # 1 /\ v[k] # s[1]
    BY <1>1, <1>4, <1>7 DEF Distinct
  <2> QED BY <1>1, <2>1, <2>2 DEF Range
<1> QED BY <1>2, <1>3, <1>4, <1>6, <1>7 DEF v

-----------------------------------------------------------------------------
(* The pool.                                                               *)

CancelPools == [capacity : Nat, free : Seq(Nat), inUse : SUBSET Nat, flag : SUBSET Nat]

Booked(pool) ==
    /\ pool \in CancelPools
    /\ pool.capacity # 0
    /\ pool.inUse \subseteq 0 .. (pool.capacity - 1)
    /\ pool.flag \subseteq pool.inUse
    /\ Range(pool.free) = (0 .. (pool.capacity - 1)) \ pool.inUse
    /\ Distinct(pool.free)

\* The stack of new slots.
LEMMA MintedFacts ==
    ASSUME NEW from \in Nat, NEW to \in Nat, from <= to
    PROVE  /\ Minted(from, to) \in Seq(Nat) /\ Distinct(Minted(from, to))
           /\ Range(Minted(from, to)) = from .. (to - 1)
<1> DEFINE n == to - from
           u == Minted(from, to)
<1>1. n \in Nat /\ DOMAIN u = 1 .. n /\ \A k \in 1 .. n : u[k] = to - k /\ u[k] \in Nat
  BY DEF Minted
<1>2. u \in Seq(Nat)
  BY <1>1 DEF Minted
<1>3. Distinct(u)
  BY <1>1 DEF Distinct
<1>4. ASSUME NEW x \in from .. (to - 1) PROVE x \in Range(u)
  <2>1. to - x \in 1 .. n /\ u[to - x] = x
    BY <1>1
  <2> QED BY <1>1, <2>1 DEF Range
<1>5. ASSUME NEW x \in Range(u) PROVE x \in from .. (to - 1)
  <2>1. PICK k \in 1 .. n : x = to - k
    BY <1>1 DEF Range
  <2> QED BY <2>1
<1> QED BY <1>2, <1>3, <1>4, <1>5

\* The constructor's pool.
LEMMA NewPoolBooked == Booked(NewPool) /\ NewPool.inUse = {}
<1> DEFINE c == IF InitialSlots < MaxCapacity THEN InitialSlots ELSE MaxCapacity
<1>1. c \in Nat /\ c # 0
  BY CapacityAssumption
<1>2. NewPool = [capacity |-> c, free |-> Minted(0, c), inUse |-> {}, flag |-> {}]
  BY DEF NewPool
<1> HIDE DEF c
<1>3. Minted(0, c) \in Seq(Nat) /\ Distinct(Minted(0, c)) /\ Range(Minted(0, c)) = 0 .. (c - 1)
  BY <1>1, MintedFacts
<1> QED BY <1>1, <1>2, <1>3 DEF Booked, CancelPools

\* grow, when the stack is empty.
LEMMA AvailableBooked ==
    ASSUME NEW pool, Booked(pool)
    PROVE  /\ Booked(Available(pool))
           /\ Available(pool).inUse = pool.inUse /\ Available(pool).flag = pool.flag
<1> DEFINE c == pool.capacity
           n == IF 2 * c < MaxCapacity THEN 2 * c ELSE MaxCapacity
           g == [pool EXCEPT !.capacity = n, !.free = @ \o Minted(c, n)]
<1>1. CASE pool.free # << >> \/ pool.capacity >= MaxCapacity
  BY <1>1 DEF Available, Grow
<1>2. CASE pool.free = << >> /\ ~(pool.capacity >= MaxCapacity)
  <2>1. Available(pool) = g
    BY <1>2 DEF Available, Grow
  <2>2. c \in Nat /\ c # 0 /\ n \in Nat /\ c <= n /\ n # 0
    BY <1>2, CapacityAssumption DEF Booked, CancelPools
  <2> HIDE DEF n
  <2>3. Minted(c, n) \in Seq(Nat) /\ Distinct(Minted(c, n)) /\ Range(Minted(c, n)) = c .. (n - 1)
    BY <2>2, MintedFacts
  <2>4. pool.free \o Minted(c, n) = Minted(c, n)
    BY <1>2, <2>3
  <2>5. g \in CancelPools /\ g.capacity = n /\ g.free = Minted(c, n) /\ g.inUse = pool.inUse /\ g.flag = pool.flag
    BY <2>2, <2>3, <2>4 DEF Booked, CancelPools
  <2>6. pool.inUse = 0 .. (c - 1)
    <3>1. Range(pool.free) = {}
      BY <1>2 DEF Range
    <3> QED BY <3>1 DEF Booked
  <2>7. c .. (n - 1) = (0 .. (n - 1)) \ pool.inUse /\ pool.inUse \subseteq 0 .. (n - 1)
    BY <2>2, <2>6
  <2> HIDE DEF c, g
  <2> QED BY <2>1, <2>2, <2>3, <2>5, <2>7 DEF Booked
<1> QED BY <1>1, <1>2

\* acquire hands out a free slot with its flag down, or none when all are taken.
LEMMA AcquireBooked ==
    ASSUME NEW pool, Booked(pool)
    PROVE  /\ Booked(Acquire(pool)) /\ AcquiredSlot(pool) \in Int
           /\ IF AcquiredSlot(pool) = NoSlot
              THEN Acquire(pool).inUse = pool.inUse /\ Acquire(pool).flag = pool.flag
              ELSE /\ AcquiredSlot(pool) \notin pool.inUse
                   /\ Acquire(pool).inUse = pool.inUse \cup {AcquiredSlot(pool)}
                   /\ Acquire(pool).flag = pool.flag
<1> DEFINE after == Available(pool)
           idx == AcquiredSlot(pool)
           n == Len(after.free)
<1>1. Booked(after) /\ after.inUse = pool.inUse /\ after.flag = pool.flag
  BY AvailableBooked
<1>2. idx = IF after.free = << >> THEN NoSlot ELSE after.free[n]
  BY DEF AcquiredSlot
<1>3. Acquire(pool) = IF idx = NoSlot THEN after
                      ELSE [after EXCEPT !.free  = SubSeq(@, 1, Len(@) - 1),
                                         !.inUse = @ \union {idx},
                                         !.flag  = @ \ {idx}]
  BY DEF Acquire
<1> HIDE DEF after, idx
<1>4. CASE after.free = << >>
  BY <1>1, <1>2, <1>3, <1>4 DEF NoSlot, idx
<1>5. CASE after.free # << >>
  <2> DEFINE u == SubSeq(after.free, 1, n - 1)
  <2>1. after.free \in Seq(Nat)
    BY <1>1 DEF Booked, CancelPools
  <2>2. /\ u \in Seq(Nat) /\ idx \in Range(after.free) /\ idx \in Nat
        /\ Distinct(u) /\ Range(u) = Range(after.free) \ {idx}
    BY <1>1, <1>2, <1>5, <2>1, LastPopped DEF Booked
  <2>3. idx # NoSlot
    BY <2>2 DEF NoSlot
  <2>4. Acquire(pool) = [capacity |-> after.capacity, free |-> u, inUse |-> after.inUse \cup {idx}, flag |-> after.flag \ {idx}]
    BY <1>1, <1>3, <2>3 DEF Booked, CancelPools
  <2> HIDE DEF u
  <2>5. idx \notin after.inUse /\ idx \notin after.flag /\ idx \in 0 .. (after.capacity - 1)
    BY <1>1, <2>2 DEF Booked
  <2>6. after.flag \ {idx} = after.flag
    BY <2>5
  <2>7. Booked(Acquire(pool))
    BY <1>1, <2>2, <2>4, <2>5, <2>6 DEF Booked, CancelPools
  <2> QED BY <1>1, <2>2, <2>3, <2>4, <2>5, <2>6, <2>7 DEF idx
<1> QED BY <1>4, <1>5

\* release returns a slot in use and lowers its flag.
LEMMA ReleaseBooked ==
    ASSUME NEW pool, Booked(pool), NEW idx \in Int
    PROVE  /\ Booked(Release(pool, idx))
           /\ Release(pool, idx).inUse = pool.inUse \ {idx}
           /\ Release(pool, idx).flag = pool.flag \ {idx}
<1> DEFINE r == [pool EXCEPT !.inUse = @ \ {idx}, !.flag = @ \ {idx}, !.free = Append(@, idx)]
<1>1. CASE idx \notin pool.inUse
  BY <1>1 DEF Release, Booked
<1>2. CASE idx \in pool.inUse
  <2>1. idx \in Nat /\ idx < pool.capacity /\ idx \in 0 .. (pool.capacity - 1)
    BY <1>2 DEF Booked, CancelPools
  <2>2. Release(pool, idx) = r
    BY <1>2, <2>1 DEF Release, Booked, CancelPools
  <2>3. /\ Append(pool.free, idx) \in Seq(Nat) /\ Range(Append(pool.free, idx)) = Range(pool.free) \cup {idx}
        /\ Distinct(Append(pool.free, idx))
    BY <1>2, <2>1, Pushed DEF Booked, CancelPools
  <2>4. /\ r \in CancelPools /\ r.capacity = pool.capacity /\ r.free = Append(pool.free, idx)
        /\ r.inUse = pool.inUse \ {idx} /\ r.flag = pool.flag \ {idx}
    BY <2>3 DEF Booked, CancelPools
  <2> HIDE DEF r
  <2>5. Booked(r)
    BY <1>2, <2>1, <2>3, <2>4 DEF Booked, CancelPools
  <2> QED BY <2>2, <2>4, <2>5
<1> QED BY <1>1, <1>2

\* cancel raises the flag of a slot in use.
LEMMA CancelBooked ==
    ASSUME NEW pool, Booked(pool), NEW idx \in Int, idx \in pool.inUse \/ idx = NoSlot
    PROVE  /\ Booked(Cancel(pool, idx))
           /\ Cancel(pool, idx).inUse = pool.inUse
           /\ Cancel(pool, idx).flag = IF idx = NoSlot THEN pool.flag ELSE pool.flag \cup {idx}
<1>1. CASE idx = NoSlot
  BY <1>1 DEF Cancel, NoSlot
<1>2. CASE idx # NoSlot
  <2>1. idx \in pool.inUse /\ idx \in Nat /\ idx < pool.capacity
    BY <1>2 DEF Booked, CancelPools
  <2>2. Cancel(pool, idx) = [pool EXCEPT !.flag = @ \union {idx}]
    BY <2>1 DEF Cancel, Booked, CancelPools
  <2> QED BY <1>2, <2>1, <2>2 DEF Booked, CancelPools
<1> QED BY <1>1, <1>2
=============================================================================
