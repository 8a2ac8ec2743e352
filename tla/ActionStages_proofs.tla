------------------------ MODULE ActionStages_proofs ------------------------
(***************************************************************************)
(* Proofs about the Action framework, for any stages, any dependency table *)
(* and any results.  First the order resolve_action_order() returns; its   *)
(* loops are recursive functions, and what is said of them is by induction *)
(* over the turns.  Then the run of the stages, from StagesInv, and what   *)
(* the dependencies of the shipped Actions are enough for.                 *)
(***************************************************************************)
EXTENDS MCActionStages, SequenceTheorems, FunctionTheorems, FiniteSetTheorems,
        WellFoundedInduction, TLAPS

-----------------------------------------------------------------------------
(* The loops of resolve_action_order(). *)

(* Every set of naturals has a least element. *)
LEMMA LeastExists ==
  ASSUME NEW S \in SUBSET Nat, S # {}
  PROVE  \E x \in S : \A y \in S : x =< y
<1>1. PICK n \in S : n \in Nat
  OBVIOUS
<1> DEFINE Below(k) == {y \in S : y =< k}
           Cuts == {Below(k) : k \in Below(n)}
<1>2. \A k \in Below(n) : Below(k) \in FiniteSubsetsOf(S)
  <2> SUFFICES ASSUME NEW k \in Below(n) PROVE Below(k) \in FiniteSubsetsOf(S)
    OBVIOUS
  <2>1. Below(k) \in SUBSET Nat /\ k \in Nat /\ \A s \in Below(k) : s =< k
    OBVIOUS
  <2>2. IsFiniteSet(Below(k))
    BY <2>1, FS_BoundedSetOfNaturals
  <2>3. QED
    BY <2>2 DEF FiniteSubsetsOf
<1>3. Cuts \subseteq FiniteSubsetsOf(S) /\ Below(n) \in Cuts
  BY <1>1, <1>2
<1>4. PICK T \in Cuts : \A U \in Cuts : <<U, T>> \notin StrictSubsetOrdering(S)
  <2> HIDE DEF Cuts
  <2>1. QED
    BY <1>3, FS_StrictSubsetOrderingWellFounded, WFMin
<1>5. PICK k \in Below(n) : T = Below(k)
  OBVIOUS
<1>6. ASSUME NEW y \in S, y < k PROVE FALSE
  <2>1. y \in Nat /\ k \in Nat /\ y =< n /\ k =< n /\ n \in Nat
    BY <1>1, <1>6
  <2>2. Below(y) \in Cuts
    BY <1>6, <2>1
  <2>3. Below(y) \subseteq Below(k) /\ k \in Below(k) /\ k \notin Below(y)
    <3>1. \A z \in S : z =< y => z =< k
      BY <1>6, <2>1
    <3>2. k \in S /\ k =< k /\ ~(k =< y)
      BY <1>6, <2>1
    <3> HIDE DEF Cuts
    <3>3. QED
      BY <3>1, <3>2, Zenon
  <2>4. Below(y) \in SUBSET S /\ Below(k) \in SUBSET S
    OBVIOUS
  <2> HIDE DEF Below, Cuts
  <2>5. QED
    BY <1>4, <1>5, <2>2, <2>3, <2>4 DEF StrictSubsetOrdering
<1>7. QED
  BY <1>6

(* Hence what holds of 0, and of each k when it holds of k - 1, holds up to N. *)
LEMMA Climb ==
  ASSUME NEW N \in Nat, NEW Good, 0 \in Good,
         \A k \in 1 .. N : k - 1 \in Good => k \in Good
  PROVE  \A k \in 0 .. N : k \in Good
<1> DEFINE Bad == {k \in 0 .. N : k \notin Good}
<1> SUFFICES ASSUME Bad # {} PROVE FALSE
  OBVIOUS
<1>1. Bad \in SUBSET Nat
  OBVIOUS
<1>2. PICK k \in Bad : \A y \in Bad : k =< y
  BY <1>1, LeastExists
<1>3. k \in 1 .. N /\ k - 1 \in 0 .. N
  BY <1>2
<1>4. k - 1 \notin Bad
  BY <1>2, <1>3
<1>5. QED
  BY <1>3, <1>4

(* f starts with s0 and goes from each value to the next by the function G. *)
Recursion(f, N, s0, G) == f[0] = s0 /\ \A k \in 1 .. N : f[k] = G[<<k, f[k - 1]>>]

(* A recursive function on 0 .. N exists: s0 is its first value and the     *)
(* function G gives each of the others from the one before it.              *)
LEMMA Iterates ==
  ASSUME NEW S, NEW s0 \in S, NEW N \in Nat, NEW G \in [(1 .. N) \X S -> S]
  PROVE  \E f \in [0 .. N -> S] : Recursion(f, N, s0, G)
<1> DEFINE Good == {n \in 0 .. N : \E f \in [0 .. n -> S] :
                      f[0] = s0 /\ \A k \in 1 .. n : f[k] = G[<<k, f[k - 1]>>]}
<1>1. 0 \in Good
  <2> DEFINE h == [k \in 0 .. 0 |-> s0]
  <2>1. h \in [0 .. 0 -> S] /\ h[0] = s0
    OBVIOUS
  <2> HIDE DEF h
  <2>2. QED
    BY <2>1
<1>2. ASSUME NEW n \in 1 .. N, n - 1 \in Good PROVE n \in Good
  <2>1. PICK f \in [0 .. (n - 1) -> S] :
           f[0] = s0 /\ \A k \in 1 .. (n - 1) : f[k] = G[<<k, f[k - 1]>>]
    BY <1>2
  <2>2. f[n - 1] \in S /\ n - 1 \in 0 .. (n - 1)
    OBVIOUS
  <2>3. G[<<n, f[n - 1]>>] \in S
    BY <2>2
  <2> DEFINE h == [k \in 0 .. n |-> IF k = n THEN G[<<n, f[n - 1]>>] ELSE f[k]]
  <2>4. h \in [0 .. n -> S]
    BY <2>3
  <2>5. h[n] = G[<<n, f[n - 1]>>] /\ \A k \in 0 .. (n - 1) : h[k] = f[k]
    OBVIOUS
  <2> HIDE DEF h
  <2>6. h[0] = s0 /\ h[n] = G[<<n, h[n - 1]>>]
    BY <2>1, <2>5
  <2>7. ASSUME NEW k \in 1 .. n PROVE h[k] = G[<<k, h[k - 1]>>]
    <3>1. CASE k = n
      BY <2>6, <3>1
    <3>2. CASE k # n
      <4>1. k \in 1 .. (n - 1) /\ k \in 0 .. (n - 1) /\ k - 1 \in 0 .. (n - 1)
        BY <3>2
      <4>2. QED
        BY <2>1, <2>5, <4>1
    <3>3. QED
      BY <3>1, <3>2
  <2>8. QED
    BY <2>4, <2>6, <2>7
<1> HIDE DEF Good
<1>3. N \in Good
  BY <1>1, <1>2, Climb
<1>4. QED
  BY <1>3 DEF Good, Recursion

(* The states the loops pass through.  What has been yielded are distinct    *)
(* Actions, each after everything it depends on, and the rest is unresolved. *)
Passing(table, previous, A) ==
  {st \in [order : Seq(A), resolved : SUBSET (previous \cup A), unresolved : SUBSET A] :
     /\ IsInjective(st.order)
     /\ st.resolved = previous \cup ToSet(st.order)
     /\ A = ToSet(st.order) \cup st.unresolved
     /\ ToSet(st.order) \cap st.unresolved = {}
     /\ \A i \in DOMAIN st.order :
          table[st.order[i]] \subseteq previous \cup {st.order[j] : j \in 1 .. (i - 1)}}

(* Examining an Action passes from such a state to such a state. *)
LEMMA ExaminePasses ==
  ASSUME NEW table, NEW previous, NEW A, NEW first \in BOOLEAN,
         NEW st \in Passing(table, previous, A), NEW a \in A
  PROVE  /\ Examine(table, first, st, a) \in Passing(table, previous, A)
         /\ Examine(table, first, st, a) = st \/ Examine(table, first, st, a) = Yield(st, a)
<1>1. CASE Examine(table, first, st, a) = st
  BY <1>1
<1>2. CASE Examine(table, first, st, a) # st
  <2>1. /\ a \in st.unresolved
        /\ table[a] \subseteq IF first THEN {} ELSE st.resolved
        /\ Examine(table, first, st, a) = Yield(st, a)
    BY <1>2 DEF Examine
  <2>2. table[a] \subseteq st.resolved
    BY <2>1
  <2> DEFINE s == st.order
             r == Append(s, a)
             n == Len(s)
  <2>3. /\ st \in [order : Seq(A), resolved : SUBSET (previous \cup A), unresolved : SUBSET A]
        /\ IsInjective(s)
        /\ st.resolved = previous \cup ToSet(s)
        /\ A = ToSet(s) \cup st.unresolved
        /\ ToSet(s) \cap st.unresolved = {}
        /\ \A i \in DOMAIN s : table[s[i]] \subseteq previous \cup {s[j] : j \in 1 .. (i - 1)}
    BY DEF Passing
  <2>4. s \in Seq(A) /\ n \in Nat /\ DOMAIN s = 1 .. n
    BY <2>3
  <2>5. /\ r \in Seq(A) /\ DOMAIN r = 1 .. (n + 1) /\ r[n + 1] = a
        /\ \A i \in 1 .. n : r[i] = s[i]
    BY <2>4
  <2>6. Yield(st, a) = [order |-> r, resolved |-> st.resolved \cup {a},
                        unresolved |-> st.unresolved \ {a}]
    BY DEF Yield
  <2> HIDE DEF r, s, n
  <2>7. ToSet(r) = ToSet(s) \cup {a}
    <3>1. \A i \in DOMAIN r : i \in 1 .. n \/ i = n + 1
      BY <2>4, <2>5
    <3>2. ToSet(r) \subseteq ToSet(s) \cup {a}
      BY <2>4, <2>5, <3>1 DEF ToSet
    <3>3. ToSet(s) \subseteq ToSet(r)
      <4>1. \A i \in 1 .. n : i \in 1 .. (n + 1)
        BY <2>4
      <4>2. QED
        BY <2>4, <2>5, <4>1 DEF ToSet
    <3>4. n + 1 \in DOMAIN r
      BY <2>4, <2>5
    <3>5. a \in ToSet(r)
      BY <2>5, <3>4 DEF ToSet
    <3>6. QED
      BY <3>2, <3>3, <3>5
  <2>8. a \notin ToSet(s)
    BY <2>1, <2>3
  <2>9. IsInjective(r)
    <3> SUFFICES ASSUME NEW i \in DOMAIN r, NEW j \in DOMAIN r, r[i] = r[j] PROVE i = j
      BY DEF IsInjective
    <3>1. (i \in 1 .. n \/ i = n + 1) /\ (j \in 1 .. n \/ j = n + 1)
      BY <2>4, <2>5
    <3>2. \A k \in 1 .. n : s[k] # a
      BY <2>4, <2>8 DEF ToSet
    <3>3. CASE i \in 1 .. n /\ j \in 1 .. n
      BY <2>3, <2>4, <2>5, <3>3 DEF IsInjective
    <3>4. CASE i = n + 1 \/ j = n + 1
      BY <2>5, <3>1, <3>2, <3>4
    <3>5. QED
      BY <3>1, <3>3, <3>4
  <2>10. ASSUME NEW i \in DOMAIN r
         PROVE  table[r[i]] \subseteq previous \cup {r[j] : j \in 1 .. (i - 1)}
    <3>1. CASE i \in 1 .. n
      <4>1. \A j \in 1 .. (i - 1) : r[j] = s[j]
        BY <2>4, <2>5, <3>1
      <4>2. {r[j] : j \in 1 .. (i - 1)} = {s[j] : j \in 1 .. (i - 1)}
        BY <4>1
      <4>3. table[s[i]] \subseteq previous \cup {s[j] : j \in 1 .. (i - 1)} /\ r[i] = s[i]
        BY <2>3, <2>4, <2>5, <3>1
      <4>4. QED
        BY <4>2, <4>3
    <3>2. CASE i = n + 1
      <4>1. i - 1 = n
        BY <2>4, <3>2
      <4>2. ToSet(s) \subseteq {r[j] : j \in 1 .. (i - 1)}
        BY <2>4, <2>5, <4>1 DEF ToSet
      <4>3. table[r[i]] \subseteq previous \cup ToSet(s)
        BY <2>2, <2>3, <2>5, <3>2
      <4>4. QED
        BY <4>2, <4>3
    <3>3. QED
      BY <2>4, <2>5, <3>1, <3>2
  <2>11. st.resolved \cup {a} = previous \cup ToSet(r)
    BY <2>3, <2>7
  <2>12. /\ A = ToSet(r) \cup (st.unresolved \ {a})
         /\ ToSet(r) \cap (st.unresolved \ {a}) = {}
    BY <2>1, <2>3, <2>7
  <2>13. Yield(st, a) \in [order : Seq(A), resolved : SUBSET (previous \cup A), unresolved : SUBSET A]
    BY <2>3, <2>5, <2>6
  <2>14. Yield(st, a) \in Passing(table, previous, A)
    <3> DEFINE y == Yield(st, a)
    <3>1. y.order = r /\ y.resolved = st.resolved \cup {a} /\ y.unresolved = st.unresolved \ {a}
      BY <2>6
    <3> HIDE DEF y
    <3>2. y \in [order : Seq(A), resolved : SUBSET (previous \cup A), unresolved : SUBSET A]
      BY <2>13 DEF y
    <3>3. y \in Passing(table, previous, A)
      BY <2>9, <2>10, <2>11, <2>12, <3>1, <3>2 DEF Passing
    <3>4. QED
      BY <3>3 DEF y
  <2>15. QED
    BY <2>1, <2>14
<1>3. QED
  BY <1>1, <1>2

(* One pass of a loop is a sequence of such states, and the last of them is  *)
(* what it returns.                                                          *)
LEMMA LoopRuns ==
  ASSUME NEW table, NEW previous, NEW A, NEW potential \in Seq(A), NEW first \in BOOLEAN,
         NEW st \in Passing(table, previous, A)
  PROVE  \E f \in [0 .. Len(potential) -> Passing(table, previous, A)] :
            /\ f[0] = st
            /\ \A k \in 1 .. Len(potential) : f[k] = Examine(table, first, f[k - 1], potential[k])
            /\ Loop(table, first, potential, st) = f[Len(potential)]
<1> DEFINE N == Len(potential)
           S == Passing(table, previous, A)
           G == [x \in (1 .. N) \X S |-> Examine(table, first, x[2], potential[x[1]])]
           IsRun(f) == f = [k \in 0 .. N |-> IF k = 0 THEN st
                                             ELSE Examine(table, first, f[k - 1], potential[k])]
           after == CHOOSE f : IsRun(f)
<1>1. N \in Nat /\ \A k \in 1 .. N : potential[k] \in A
  OBVIOUS
<1>2. Loop(table, first, potential, st) = after[N]
  BY DEF Loop
<1> HIDE DEF N
<1>3. G \in [(1 .. N) \X S -> S]
  <2>1. \A x \in (1 .. N) \X S : Examine(table, first, x[2], potential[x[1]]) \in S
    <3> SUFFICES ASSUME NEW k \in 1 .. N, NEW s \in S
                 PROVE  Examine(table, first, s, potential[k]) \in S
      OBVIOUS
    <3>1. QED
      BY <1>1, ExaminePasses
  <2> HIDE DEF S
  <2>2. QED
    BY <2>1
<1>4. PICK g \in [0 .. N -> S] : Recursion(g, N, st, G)
  <2>1. st \in S
    OBVIOUS
  <2> HIDE DEF S, G
  <2>2. QED
    BY <1>1, <1>3, <2>1, Iterates, Zenon
<1> HIDE DEF S
<1>5. IsRun(g)
  <2>1. \A k \in 1 .. N : k - 1 \in 0 .. N /\ g[k - 1] \in S
    BY <1>1
  <2>2. \A k \in 1 .. N : G[<<k, g[k - 1]>>] = Examine(table, first, g[k - 1], potential[k])
    BY <2>1
  <2> HIDE DEF G
  <2>3. \A k \in 0 .. N : k # 0 => k \in 1 .. N
    BY <1>1
  <2>4. \A k \in 0 .. N : g[k] = IF k = 0 THEN st ELSE Examine(table, first, g[k - 1], potential[k])
    BY <1>4, <2>2, <2>3 DEF Recursion
  <2>5. QED
    BY <2>4
<1>6. IsRun(after)
  <2> HIDE DEF IsRun
  <2>1. QED
    BY <1>5
<1> HIDE DEF after
<1>7. DOMAIN after = 0 .. N /\ after[0] = st
  BY <1>1, <1>6
<1>8. \A k \in 1 .. N : after[k] = Examine(table, first, after[k - 1], potential[k])
  <2>1. \A k \in 1 .. N : k \in 0 .. N /\ k # 0
    BY <1>1
  <2>2. QED
    BY <1>6, <2>1
<1>9. \A k \in 0 .. N : after[k] \in S
  <2> DEFINE Good == {k \in 0 .. N : after[k] \in S}
  <2>1. 0 \in Good
    BY <1>1, <1>7 DEF S
  <2>2. ASSUME NEW k \in 1 .. N, k - 1 \in Good PROVE k \in Good
    BY <1>1, <1>8, <2>2, ExaminePasses DEF S
  <2> HIDE DEF Good
  <2>3. \A k \in 0 .. N : k \in Good
    BY <1>1, <2>1, <2>2, Climb
  <2>4. QED
    BY <2>3 DEF Good
<1>10. after \in [0 .. N -> S]
  BY <1>6, <1>7, <1>9
<1>11. QED
  BY <1>2, <1>7, <1>8, <1>10 DEF N, S

(* What one pass of a loop does: it only ever yields, and it yields every    *)
(* Action that was ready when it began.                                      *)
LEMMA LoopYields ==
  ASSUME NEW table, NEW previous, NEW A, NEW potential \in Seq(A), A = ToSet(potential),
         NEW first \in BOOLEAN, NEW st \in Passing(table, previous, A),
         NEW r, r = Loop(table, first, potential, st)
  PROVE  /\ r \in Passing(table, previous, A)
         /\ r.unresolved \subseteq st.unresolved
         /\ r.unresolved = st.unresolved => r = st
         /\ \A a \in r.unresolved : ~(table[a] \subseteq IF first THEN {} ELSE st.resolved)
<1> DEFINE N == Len(potential)
<1>1. N \in Nat /\ DOMAIN potential = 1 .. N /\ \A k \in 1 .. N : potential[k] \in A
  OBVIOUS
<1>2. PICK f \in [0 .. N -> Passing(table, previous, A)] :
         /\ f[0] = st
         /\ \A k \in 1 .. N : f[k] = Examine(table, first, f[k - 1], potential[k])
         /\ r = f[N]
  BY LoopRuns
<1> HIDE DEF N
<1>3. ASSUME NEW k \in 1 .. N
      PROVE  /\ f[k].unresolved \subseteq f[k - 1].unresolved
             /\ f[k - 1].resolved \subseteq f[k].resolved
             /\ f[k].unresolved = f[k - 1].unresolved => f[k] = f[k - 1]
  <2> DEFINE s == f[k - 1]
             a == potential[k]
  <2>1. f[k] = Examine(table, first, s, a)
    BY <1>2
  <2> HIDE DEF s, a
  <2>2. CASE f[k] = s
    BY <2>2 DEF s
  <2>3. CASE f[k] # s
    <3>1. a \in s.unresolved /\ f[k] = Yield(s, a)
      BY <2>1, <2>3 DEF Examine
    <3>2. f[k].unresolved = s.unresolved \ {a} /\ f[k].resolved = s.resolved \cup {a}
      BY <3>1 DEF Yield
    <3>3. QED
      BY <3>1, <3>2 DEF s
  <2>4. QED
    BY <2>2, <2>3
<1>4. ASSUME NEW k \in 0 .. N
      PROVE  /\ f[k].unresolved \subseteq st.unresolved
             /\ st.resolved \subseteq f[k].resolved
             /\ f[k].unresolved = st.unresolved => f[k] = st
  <2> DEFINE Good == {j \in 0 .. N : /\ f[j].unresolved \subseteq st.unresolved
                                     /\ st.resolved \subseteq f[j].resolved
                                     /\ f[j].unresolved = st.unresolved => f[j] = st}
  <2>1. 0 \in Good
    BY <1>1, <1>2
  <2>2. ASSUME NEW j \in 1 .. N, j - 1 \in Good PROVE j \in Good
    <3>1. j \in 0 .. N
      BY <1>1
    <3>2. QED
      BY <1>3, <2>2, <3>1
  <2> HIDE DEF Good
  <2>3. k \in Good
    BY <1>1, <2>1, <2>2, Climb
  <2>4. QED
    BY <2>3 DEF Good
<1>5. ASSUME NEW a \in A, table[a] \subseteq IF first THEN {} ELSE st.resolved
      PROVE  a \notin r.unresolved
  <2>1. PICK p \in 1 .. N : potential[p] = a
    BY <1>1 DEF ToSet
  <2> DEFINE Good == {j \in 0 .. N : j < p \/ a \notin f[j].unresolved}
  <2>2. 0 \in Good
    BY <1>1
  <2>3. ASSUME NEW j \in 1 .. N, j - 1 \in Good PROVE j \in Good
    <3>1. j \in 0 .. N /\ j - 1 \in 0 .. N /\ p \in Nat /\ j \in Nat
      BY <1>1
    <3>2. CASE j < p
      BY <3>1, <3>2
    <3>3. CASE j = p
      <4>1. st.resolved \subseteq f[j - 1].resolved
        BY <1>4, <3>1
      <4>2. f[j] = Examine(table, first, f[j - 1], a)
        BY <1>2, <2>1, <3>3
      <4>3. table[a] \subseteq IF first THEN {} ELSE f[j - 1].resolved
        BY <1>5, <4>1
      <4>4. a \notin f[j].unresolved
        <5>1. CASE a \in f[j - 1].unresolved
          <6>1. f[j] = Yield(f[j - 1], a)
            BY <4>2, <4>3, <5>1 DEF Examine
          <6>2. QED
            BY <6>1 DEF Yield
        <5>2. CASE a \notin f[j - 1].unresolved
          BY <1>3, <5>2
        <5>3. QED
          BY <5>1, <5>2
      <4>5. QED
        BY <3>1, <4>4
    <3>4. CASE j > p
      <4>1. a \notin f[j - 1].unresolved
        BY <2>3, <3>1, <3>4
      <4>2. a \notin f[j].unresolved
        BY <1>3, <4>1
      <4>3. QED
        BY <3>1, <4>2
    <3>5. QED
      BY <3>1, <3>2, <3>3, <3>4
  <2> HIDE DEF Good
  <2>4. N \in Good
    <3>1. N \in 0 .. N
      BY <1>1
    <3>2. QED
      BY <1>1, <2>2, <2>3, <3>1, Climb
  <2>5. QED
    BY <1>1, <1>2, <2>4 DEF Good
<1>6. N \in 0 .. N
  BY <1>1
<1>7. r \in Passing(table, previous, A)
  BY <1>2, <1>6
<1>8. r.unresolved \subseteq A
  BY <1>7 DEF Passing
<1>9. QED
  BY <1>2, <1>4, <1>5, <1>6, <1>7, <1>8

(* The while loop ends in a state in which nothing is ready. *)
LEMMA TurnsEndIdle ==
  ASSUME NEW table, NEW previous, NEW A, NEW potential \in Seq(A), A = ToSet(potential),
         IsFiniteSet(A), NEW st \in Passing(table, previous, A),
         NEW r, r = Turns(table, potential, st)
  PROVE  /\ r \in Passing(table, previous, A)
         /\ \A a \in r.unresolved : ~(table[a] \subseteq r.resolved)
<1> DEFINE M == Cardinality(st.unresolved)
           S == Passing(table, previous, A)
           G == [x \in (1 .. M) \X S |-> Turn(table, potential, x[2])]
           IsRun(f) == f = [n \in 0 .. M |-> IF n = 0 THEN st
                                             ELSE Turn(table, potential, f[n - 1])]
           after == CHOOSE f : IsRun(f)
           Idle(n) == Turn(table, potential, after[n]) = after[n]
           idle == CHOOSE n \in 0 .. M : Idle(n)
<1>1. r = after[idle]
  BY DEF Turns
<1>2. \A s \in S : s.unresolved \subseteq A /\ IsFiniteSet(s.unresolved)
                   /\ Cardinality(s.unresolved) \in Nat
  <2>1. \A s \in S : s.unresolved \subseteq A
    BY DEF Passing
  <2>2. QED
    BY <2>1, FS_Subset, FS_CardinalityType
<1>3. M \in Nat /\ st \in S
  BY <1>2
<1>4. ASSUME NEW s \in S
      PROVE  /\ Turn(table, potential, s) \in S
             /\ Turn(table, potential, s).unresolved \subseteq s.unresolved
             /\ Turn(table, potential, s).unresolved = s.unresolved => Turn(table, potential, s) = s
             /\ Turn(table, potential, s) = s =>
                  \A a \in s.unresolved : ~(table[a] \subseteq s.resolved)
  <2> DEFINE t == Turn(table, potential, s)
             first == FALSE
  <2>1. t = Loop(table, first, potential, s) /\ first \in BOOLEAN
    BY DEF Turn
  <2> HIDE DEF t, first
  <2>2. /\ t \in S /\ t.unresolved \subseteq s.unresolved
        /\ t.unresolved = s.unresolved => t = s
        /\ \A a \in t.unresolved : ~(table[a] \subseteq IF first THEN {} ELSE s.resolved)
    BY <2>1, LoopYields
  <2>3. QED
    BY <2>2 DEF t, first
<1> HIDE DEF M, S, idle, Idle
<1>5. G \in [(1 .. M) \X S -> S]
  BY <1>4
<1>6. PICK g \in [0 .. M -> S] : Recursion(g, M, st, G)
  <2> HIDE DEF G
  <2>1. QED
    BY <1>3, <1>5, Iterates, Zenon
<1>7. IsRun(g)
  <2>1. \A k \in 1 .. M : k - 1 \in 0 .. M /\ g[k - 1] \in S
    BY <1>3
  <2>2. \A k \in 1 .. M : G[<<k, g[k - 1]>>] = Turn(table, potential, g[k - 1])
    BY <2>1
  <2> HIDE DEF G
  <2>3. \A k \in 0 .. M : k # 0 => k \in 1 .. M
    BY <1>3
  <2>4. \A k \in 0 .. M : g[k] = IF k = 0 THEN st ELSE Turn(table, potential, g[k - 1])
    BY <1>6, <2>2, <2>3 DEF Recursion
  <2>5. QED
    BY <2>4
<1>8. IsRun(after)
  <2> HIDE DEF IsRun
  <2>1. QED
    BY <1>7
<1> HIDE DEF after
<1>9. after[0] = st /\ \A k \in 1 .. M : after[k] = Turn(table, potential, after[k - 1])
  <2>1. 0 \in 0 .. M /\ \A k \in 1 .. M : k \in 0 .. M /\ k # 0
    BY <1>3
  <2>2. QED
    BY <1>8, <2>1
(* Each turn that is not idle leaves fewer unresolved. *)
<1>10. ASSUME NEW k \in 0 .. M
       PROVE  /\ after[k] \in S
              /\ (\A n \in 0 .. M : ~Idle(n)) => Cardinality(after[k].unresolved) =< M - k
  <2> DEFINE Good == {j \in 0 .. M :
                        /\ after[j] \in S
                        /\ (\A n \in 0 .. M : ~Idle(n)) => Cardinality(after[j].unresolved) =< M - j}
  <2>1. 0 \in Good
    BY <1>3, <1>9 DEF M
  <2>2. ASSUME NEW j \in 1 .. M, j - 1 \in Good PROVE j \in Good
    <3> DEFINE s == after[j - 1]
               t == after[j]
    <3>1. s \in S /\ t = Turn(table, potential, s) /\ t \in S /\ j \in 0 .. M /\ j - 1 \in 0 .. M
      BY <1>3, <1>4, <1>9, <2>2
    <3>2. ASSUME \A n \in 0 .. M : ~Idle(n) PROVE Cardinality(t.unresolved) =< M - j
      <4>1. Cardinality(s.unresolved) =< M - (j - 1)
        BY <2>2, <3>2
      <4>2. t # s
        BY <3>1, <3>2 DEF Idle
      <4> HIDE DEF s, t
      <4>3. t.unresolved \subseteq s.unresolved /\ t.unresolved # s.unresolved
        BY <1>4, <3>1, <4>2
      <4>4. /\ Cardinality(t.unresolved) =< Cardinality(s.unresolved)
            /\ Cardinality(t.unresolved) # Cardinality(s.unresolved)
        BY <1>2, <3>1, <4>3, FS_Subset
      <4>5. Cardinality(t.unresolved) \in Nat /\ Cardinality(s.unresolved) \in Nat
        BY <1>2, <3>1
      <4>6. QED
        BY <1>3, <3>1, <4>1, <4>4, <4>5
    <3>3. QED
      BY <3>1, <3>2
  <2> HIDE DEF Good
  <2>3. k \in Good
    BY <1>3, <2>1, <2>2, Climb
  <2>4. QED
    BY <2>3 DEF Good
<1>11. \E n \in 0 .. M : Idle(n)
  <2> SUFFICES ASSUME \A n \in 0 .. M : ~Idle(n) PROVE FALSE
    OBVIOUS
  <2> DEFINE s == after[M]
  <2>1. M \in 0 .. M
    BY <1>3
  <2>2. s \in S /\ Cardinality(s.unresolved) =< M - M
    BY <1>10, <2>1
  <2> HIDE DEF s
  <2>3. Cardinality(s.unresolved) = 0
    BY <1>2, <1>3, <2>2
  <2>4. s.unresolved = {}
    BY <1>2, <2>2, <2>3, FS_EmptySet
  <2>5. Turn(table, potential, s) = s
    <3>1. /\ Turn(table, potential, s).unresolved \subseteq s.unresolved
          /\ Turn(table, potential, s).unresolved = s.unresolved => Turn(table, potential, s) = s
      BY <1>4, <2>2
    <3>2. QED
      BY <2>4, <3>1
  <2>6. Idle(M)
    BY <2>5 DEF Idle, s
  <2>7. QED
    BY <2>1, <2>6
<1>12. idle \in 0 .. M /\ Idle(idle)
  BY <1>11 DEF idle
<1>13. r \in S /\ Turn(table, potential, r) = r
  BY <1>1, <1>10, <1>12 DEF Idle
<1>14. QED
  BY <1>4, <1>13 DEF S

(* What s leaves out of A can never run after it. *)
Stuck(table, done, A, s) == \A a \in A \ ToSet(s) : ~(table[a] \subseteq done \cup ToSet(s))

(* resolve_action_order() yields distinct Actions of the stage, each after   *)
(* everything it depends on; what it leaves out depends on something neither *)
(* of the stage's yield nor done before, and then DependencyError follows.   *)
LEMMA OrderResolves ==
  ASSUME NEW table, NEW previous, IsFiniteSet(previous), NEW A, NEW potential \in Seq(A),
         A = ToSet(potential), previous \cap A = {},
         NEW r, r = ResolveActionOrder(table, potential, previous)
  PROVE  /\ Queue(table, previous, A, r.order)
         /\ Stuck(table, previous, A, r.order)
         /\ ToSet(r.order) # A <=> r.error
<1> DEFINE init  == [order |-> <<>>, resolved |-> previous, unresolved |-> ToSet(potential)]
           first == TRUE
           start == FreeFirst(table, potential, previous)
           turned == Turns(table, potential, start)
           enter == Len(potential) + Cardinality(previous) # Cardinality(start.unresolved)
           end   == IF enter THEN turned ELSE start
<1>1. r = [order |-> end.order, error |-> end.unresolved # {}]
  BY DEF ResolveActionOrder
<1>2. start = Loop(table, first, potential, init) /\ first \in BOOLEAN
  BY DEF FreeFirst
<1>3. IsFiniteSet(A) /\ Cardinality(A) =< Len(potential) /\ Len(potential) \in Nat
  <2> DEFINE n == Len(potential)
  <2>1. n \in Nat /\ potential \in [1 .. n -> A] /\ DOMAIN potential = 1 .. n
    BY LenProperties
  <2>2. \A a \in A : \E i \in 1 .. n : potential[i] = a
    BY <2>1 DEF ToSet
  <2> HIDE DEF n
  <2>3. potential \in Surjection(1 .. n, A)
    BY <2>1, <2>2 DEF Surjection
  <2>4. IsFiniteSet(1 .. n) /\ Cardinality(1 .. n) = n
    <3>1. 1 \in Int /\ n \in Int
      BY <2>1
    <3>2. /\ IsFiniteSet(1 .. n)
          /\ Cardinality(1 .. n) = IF 1 > n THEN 0 ELSE n - 1 + 1
      BY <3>1, FS_Interval, Zenon
    <3>3. QED
      BY <2>1, <3>2
  <2>5. QED
    BY <2>1, <2>3, <2>4, FS_Surjection DEF n
<1>4. init \in Passing(table, previous, A)
  <2>1. <<>> \in Seq(A) /\ ToSet(<<>>) = {} /\ DOMAIN <<>> = {} /\ IsInjective(<<>>)
    BY DEF ToSet, IsInjective
  <2>2. QED
    BY <2>1 DEF Passing
<1> HIDE DEF start, turned, enter, end
<1>5. /\ start \in Passing(table, previous, A)
      /\ \A a \in start.unresolved : ~(table[a] \subseteq IF first THEN {} ELSE init.resolved)
  <2> HIDE DEF init, first
  <2>1. QED
    BY <1>2, <1>4, LoopYields
<1>6. /\ end \in Passing(table, previous, A)
      /\ \A a \in end.unresolved : ~(table[a] \subseteq end.resolved)
  <2>1. CASE enter
    <3>1. /\ turned \in Passing(table, previous, A)
          /\ \A a \in turned.unresolved : ~(table[a] \subseteq turned.resolved)
      BY <1>3, <1>5, TurnsEndIdle DEF turned
    <3>2. QED
      BY <2>1, <3>1 DEF end
  <2>2. CASE ~enter
    <3>1. end = start /\ Len(potential) + Cardinality(previous) = Cardinality(start.unresolved)
      BY <2>2 DEF end, enter
    <3>2. start.unresolved \in SUBSET A
      BY <1>5 DEF Passing
    <3>3. /\ Cardinality(A) \in Nat /\ Cardinality(previous) \in Nat
          /\ Cardinality(start.unresolved) \in Nat /\ Cardinality(start.unresolved) =< Cardinality(A)
      BY <1>3, <3>2, FS_Subset, FS_CardinalityType
    <3>4. Cardinality(previous) = 0 /\ Cardinality(start.unresolved) = Cardinality(A)
      BY <1>3, <3>1, <3>3
    <3>5. previous = {} /\ start.unresolved = A
      BY <1>3, <3>2, <3>4, FS_Subset, FS_EmptySet
    <3>6. start.resolved = {}
      BY <1>5, <3>5 DEF Passing
    <3>7. \A a \in start.unresolved : ~(table[a] \subseteq {})
      BY <1>5
    <3>8. QED
      BY <1>5, <3>1, <3>6, <3>7
  <2>3. QED
    BY <2>1, <2>2
<1>7. /\ end.order \in Seq(A) /\ IsInjective(end.order)
      /\ end.resolved = previous \cup ToSet(end.order)
      /\ A = ToSet(end.order) \cup end.unresolved
      /\ ToSet(end.order) \cap end.unresolved = {}
      /\ \A i \in DOMAIN end.order :
           table[end.order[i]] \subseteq previous \cup {end.order[j] : j \in 1 .. (i - 1)}
  BY <1>6 DEF Passing
<1>8. r.order = end.order /\ (r.error <=> end.unresolved # {})
  <2>1. r.order = end.order /\ r.error = (end.unresolved # {})
    BY <1>1
  <2>2. CASE end.unresolved # {}
    BY <2>1, <2>2, Zenon
  <2>3. CASE end.unresolved = {}
    BY <2>1, <2>3, Zenon
  <2>4. QED
    BY <2>1, <2>2, <2>3
<1>9. A \ ToSet(r.order) = end.unresolved
  BY <1>7, <1>8
<1>10. ToSet(r.order) \cap previous = {}
  BY <1>7, <1>8
<1>11. Queue(table, previous, A, r.order)
  BY <1>7, <1>8, <1>10 DEF Queue
<1>12. QED
  BY <1>6, <1>7, <1>8, <1>9, <1>11 DEF Stuck

-----------------------------------------------------------------------------
(* The stages of a chain. *)

(* The two stages: distinct Actions, none in both. *)
LEMMA ChainFacts ==
  ASSUME plan \in Plans
  PROVE  /\ DOMAIN Stages = 1 .. 2 /\ DOMAIN plan.stages = 1 .. 2 /\ Len(Stages) = 2
         /\ \A i \in 1 .. 2 : /\ Stages[i] = ToSet(plan.stages[i])
                              /\ plan.stages[i] \in Seq(Stages[i])
                              /\ IsFiniteSet(Stages[i])
         /\ Stages[1] \cap Stages[2] = {}
         /\ StageActions = Stages[1] \cup Stages[2]
<1> USE PlansAssumption
<1>1. DOMAIN plan.stages = 1 .. 2
  OBVIOUS
<1>2. DOMAIN Stages = 1 .. 2 /\ \A i \in 1 .. 2 : Stages[i] = ToSet(plan.stages[i])
  BY <1>1 DEF Stages
<1>3. Len(Stages) = 2
  <2>1. Stages = [i \in 1 .. 2 |-> ToSet(plan.stages[i])]
    BY <1>1 DEF Stages
  <2>2. QED
    BY <2>1
<1>4. ASSUME NEW i \in 1 .. 2
      PROVE  plan.stages[i] \in Seq(Stages[i]) /\ IsFiniteSet(Stages[i])
  <2> DEFINE s == plan.stages[i]
             n == Len(s)
  <2>1. n \in Nat /\ DOMAIN s = 1 .. n /\ s = [k \in 1 .. n |-> s[k]]
    BY LenProperties
  <2> HIDE DEF s, n
  <2>2. Stages[i] = {s[k] : k \in 1 .. n}
    BY <1>2, <2>1 DEF ToSet, s
  <2>3. s \in [1 .. n -> Stages[i]] /\ s \in Surjection(1 .. n, Stages[i])
    BY <2>1, <2>2 DEF Surjection
  <2>4. s \in Seq(Stages[i])
    BY <2>1, <2>3, SeqDef
  <2>5. IsFiniteSet(1 .. n)
    <3>1. 1 \in Int /\ n \in Int
      BY <2>1
    <3>2. QED
      BY <3>1, FS_Interval, Zenon
  <2>6. QED
    BY <2>3, <2>4, <2>5, FS_Surjection DEF s
<1>5. Stages[1] \cap Stages[2] = {}
  BY <1>2
<1>6. StageActions = Stages[1] \cup Stages[2]
  BY <1>2 DEF StageActions
<1>7. QED
  BY <1>1, <1>2, <1>3, <1>4, <1>5, <1>6

(* The order of a stage, once the Actions of the stages before are done. *)
LEMMA StageOrder ==
  ASSUME plan \in Plans, NEW i \in 1 .. 2, NEW previous,
         previous = IF i = 1 THEN {} ELSE Stages[1],
         NEW r, r = ResolveActionOrder(deps, plan.stages[i], previous)
  PROVE  /\ Queue(deps, previous, Stages[i], r.order)
         /\ Stuck(deps, previous, Stages[i], r.order)
         /\ ToSet(r.order) # Stages[i] <=> r.error
<1> DEFINE A == Stages[i]
           potential == plan.stages[i]
           table == deps
<1>1. A = ToSet(potential) /\ potential \in Seq(A) /\ IsFiniteSet(previous) /\ previous \cap A = {}
  BY ChainFacts, FS_EmptySet
<1>2. r = ResolveActionOrder(table, potential, previous)
  OBVIOUS
<1> HIDE DEF A, potential, table
<1>3. /\ Queue(table, previous, A, r.order)
      /\ Stuck(table, previous, A, r.order)
      /\ ToSet(r.order) # A <=> r.error
  BY <1>1, <1>2, OrderResolves
<1>4. QED
  BY <1>3 DEF A, table

(* check_dependencies() decides what it should. *)
LEMMA SatisfiedIffSchedulable ==
  ASSUME plan \in Plans
  PROVE  DependenciesSatisfied(deps, plan.stages) <=> Schedulable
<1> DEFINE previous(i) == IF i = 1 THEN {} ELSE Stages[1]
           r(i) == ResolveActionOrder(deps, plan.stages[i], previous(i))
<1>1. DependenciesSatisfied(deps, plan.stages) <=> \A i \in 1 .. 2 : ~r(i).error
  <2>1. \A i \in 1 .. 2 : (IF i = 1 THEN {} ELSE ToSet(plan.stages[i - 1])) = previous(i)
    BY ChainFacts
  <2>2. DOMAIN plan.stages = 1 .. 2
    BY ChainFacts
  <2>3. QED
    BY <2>1, <2>2 DEF DependenciesSatisfied
<1>2. \A i \in 1 .. 2 :
        /\ Queue(deps, previous(i), Stages[i], r(i).order)
        /\ Stuck(deps, previous(i), Stages[i], r(i).order)
        /\ ToSet(r(i).order) # Stages[i] <=> r(i).error
  BY StageOrder
<1>3. \A i \in 1 .. 2 : UNION {Stages[j] : j \in 1 .. i} = previous(i) \cup Stages[i]
  <2>1. \A i \in 1 .. 2 : i = 1 \/ i = 2
    OBVIOUS
  <2>2. UNION {Stages[j] : j \in 1 .. 1} = Stages[1]
    OBVIOUS
  <2>3. UNION {Stages[j] : j \in 1 .. 2} = Stages[1] \cup Stages[2]
    OBVIOUS
  <2>4. QED
    BY <2>1, <2>2, <2>3
<1>4. DOMAIN Stages = 1 .. 2 /\ \A i \in 1 .. 2 : previous(i) \cap Stages[i] = {}
  BY ChainFacts
<1> HIDE DEF previous, r
<1>5. ASSUME NEW i \in 1 .. 2, ~r(i).error
      PROVE  /\ \A a \in Stages[i] : deps[a] \subseteq previous(i) \cup Stages[i]
             /\ \A S \in SUBSET Stages[i] : S # {} => \E a \in S : deps[a] \cap S = {}
  <2> DEFINE s == r(i).order
             n == Len(s)
  <2>1. /\ s \in Seq(Stages[i]) /\ ToSet(s) = Stages[i]
        /\ \A k \in DOMAIN s : deps[s[k]] \subseteq previous(i) \cup {s[j] : j \in 1 .. (k - 1)}
    BY <1>2, <1>5 DEF Queue
  <2> HIDE DEF s
  <2>2. n \in Nat /\ DOMAIN s = 1 .. n
    BY <2>1, LenProperties
  <2> HIDE DEF n
  <2>3. \A k \in 1 .. n : {s[j] : j \in 1 .. (k - 1)} \subseteq Stages[i]
    <3>1. \A k \in 1 .. n : \A j \in 1 .. (k - 1) : j \in 1 .. n
      BY <2>2
    <3>2. \A k \in 1 .. n : s[k] \in Stages[i]
      BY <2>1, <2>2 DEF ToSet
    <3>3. QED
      BY <3>1, <3>2
  <2>4. \A a \in Stages[i] : \E k \in 1 .. n : a = s[k]
    BY <2>1, <2>2 DEF ToSet
  <2>5. \A a \in Stages[i] : deps[a] \subseteq previous(i) \cup Stages[i]
    BY <2>1, <2>2, <2>3, <2>4
  <2>6. ASSUME NEW S \in SUBSET Stages[i], S # {} PROVE \E a \in S : deps[a] \cap S = {}
    <3> DEFINE places == {k \in 1 .. n : s[k] \in S}
    <3>1. places \in SUBSET Nat /\ places # {}
      BY <2>2, <2>4, <2>6
    <3>2. PICK k \in places : \A j \in places : k =< j
      BY <3>1, LeastExists
    <3>3. k \in 1 .. n /\ s[k] \in S
      OBVIOUS
    <3>4. \A j \in 1 .. (k - 1) : s[j] \notin S
      <4>1. \A j \in 1 .. (k - 1) : j \in 1 .. n /\ ~(k =< j)
        BY <2>2, <3>3
      <4>2. QED
        BY <3>2, <4>1
    <3>5. deps[s[k]] \subseteq previous(i) \cup {s[j] : j \in 1 .. (k - 1)}
      BY <2>1, <2>2, <3>3
    <3>6. previous(i) \cap S = {}
      BY <1>4
    <3>7. deps[s[k]] \cap S = {}
      BY <3>4, <3>5, <3>6
    <3>8. QED
      BY <3>3, <3>7
  <2>7. QED
    BY <2>5, <2>6
<1>6. ASSUME NEW i \in 1 .. 2, r(i).error,
             \A a \in Stages[i] : deps[a] \subseteq previous(i) \cup Stages[i],
             \A S \in SUBSET Stages[i] : S # {} => \E a \in S : deps[a] \cap S = {}
      PROVE  FALSE
  <2> DEFINE S == Stages[i] \ ToSet(r(i).order)
             s == r(i).order
  <2>1. S # {}
    <3>1. ToSet(s) \subseteq Stages[i]
      <4>1. s \in Seq(Stages[i])
        BY <1>2 DEF Queue
      <4> HIDE DEF s
      <4>2. QED
        BY <4>1 DEF ToSet
    <3>2. ToSet(s) # Stages[i]
      BY <1>2, <1>6, Zenon
    <3> HIDE DEF s
    <3>3. Stages[i] \ ToSet(s) # {}
      BY <3>1, <3>2
    <3>4. QED
      BY <3>3 DEF s
  <2>2. PICK a \in S : deps[a] \cap S = {}
    BY <1>6, <2>1
  <2>3. deps[a] \subseteq previous(i) \cup ToSet(s)
    BY <1>6, <2>2
  <2>4. QED
    BY <1>2, <2>3 DEF Stuck
<1>7. CASE \A i \in 1 .. 2 : ~r(i).error
  BY <1>1, <1>3, <1>4, <1>5, <1>7 DEF Schedulable
<1>8. CASE \E i \in 1 .. 2 : r(i).error
  <2>1. PICK i \in 1 .. 2 : r(i).error
    BY <1>8
  <2>2. ~Schedulable
    <3> SUFFICES ASSUME Schedulable PROVE FALSE
      OBVIOUS
    <3>1. /\ \A a \in Stages[i] : deps[a] \subseteq previous(i) \cup Stages[i]
          /\ \A S \in SUBSET Stages[i] : S # {} => \E a \in S : deps[a] \cap S = {}
      BY <1>3, <1>4 DEF Schedulable
    <3>2. QED
      BY <1>6, <2>1, <3>1
  <2>3. QED
    BY <1>1, <2>1, <2>2
<1>9. QED
  BY <1>7, <1>8

-----------------------------------------------------------------------------
(* The run of the chain. *)

(* Taking the first of what is left to run: all it depends on is done, and   *)
(* once it is done what is left is in order again.                           *)
LEMMA Behead ==
  ASSUME NEW table, NEW done, NEW A, NEW s, Queue(table, done, A, s), s # <<>>
  PROVE  /\ Head(s) \in A /\ Head(s) \notin done /\ table[Head(s)] \subseteq done
         /\ \A a : a \in ToSet(s) <=> a = Head(s) \/ a \in ToSet(Tail(s))
         /\ Queue(table, done \cup {Head(s)}, A, Tail(s))
<1> DEFINE h == Head(s)
           t == Tail(s)
           n == Len(t)
<1>1. /\ s \in Seq(A) /\ IsInjective(s) /\ ToSet(s) \cap done = {}
      /\ \A i \in DOMAIN s : table[s[i]] \subseteq done \cup {s[j] : j \in 1 .. (i - 1)}
  BY DEF Queue
<1>2. /\ t \in Seq(A) /\ n \in Nat /\ DOMAIN t = 1 .. n /\ DOMAIN s = 1 .. (n + 1)
      /\ s[1] = h /\ \A i \in 1 .. n : t[i] = s[i + 1]
  BY <1>1
<1> HIDE DEF n, h, t
<1>3. \A i \in 1 .. n : i + 1 \in 1 .. (n + 1) /\ i + 1 # 1
  BY <1>2
<1>4. 1 \in 1 .. (n + 1) /\ \A i \in 1 .. (n + 1) : i = 1 \/ \E j \in 1 .. n : i = j + 1
  <2>1. \A i \in 1 .. (n + 1) : i = 1 \/ (i - 1 \in 1 .. n /\ i = (i - 1) + 1)
    BY <1>2
  <2>2. QED
    BY <1>2, <2>1
<1>5. ToSet(s) = {s[i] : i \in 1 .. (n + 1)} /\ ToSet(t) = {t[i] : i \in 1 .. n}
  BY <1>2 DEF ToSet
<1>6. ToSet(s) = {h} \cup ToSet(t)
  <2>1. \A i \in 1 .. n : t[i] \in ToSet(s)
    BY <1>2, <1>3, <1>5
  <2>2. h \in ToSet(s)
    BY <1>2, <1>4, <1>5
  <2>3. ASSUME NEW i \in 1 .. (n + 1) PROVE s[i] = h \/ s[i] \in ToSet(t)
    <3>1. CASE i = 1
      BY <1>2, <3>1
    <3>2. CASE i # 1
      <4>1. PICK j \in 1 .. n : i = j + 1
        BY <1>4, <3>2
      <4>2. QED
        BY <1>2, <1>5, <4>1
    <3>3. QED
      BY <3>1, <3>2
  <2>4. QED
    BY <1>5, <2>1, <2>2, <2>3
<1>7. h \in A /\ h \notin done
  BY <1>1, <1>2, <1>6
<1>8. table[h] \subseteq done
  <2>1. table[s[1]] \subseteq done \cup {s[j] : j \in 1 .. (1 - 1)}
    BY <1>1, <1>2, <1>4
  <2>2. {s[j] : j \in 1 .. (1 - 1)} = {}
    OBVIOUS
  <2>3. QED
    BY <1>2, <2>1, <2>2
<1>9. \A i \in 1 .. n : t[i] # h
  BY <1>1, <1>2, <1>3, <1>4 DEF IsInjective
<1>10. ToSet(t) \cap (done \cup {h}) = {}
  BY <1>1, <1>5, <1>6, <1>9
<1>11. IsInjective(t)
  <2> SUFFICES ASSUME NEW i \in 1 .. n, NEW j \in 1 .. n, t[i] = t[j] PROVE i = j
    BY <1>2 DEF IsInjective
  <2>1. s[i + 1] = s[j + 1] /\ i + 1 \in DOMAIN s /\ j + 1 \in DOMAIN s
    BY <1>2, <1>3
  <2>2. i + 1 = j + 1
    BY <1>1, <2>1 DEF IsInjective
  <2>3. QED
    BY <2>2
<1>12. ASSUME NEW i \in 1 .. n
       PROVE  table[t[i]] \subseteq (done \cup {h}) \cup {t[j] : j \in 1 .. (i - 1)}
  <2>1. table[s[i + 1]] \subseteq done \cup {s[j] : j \in 1 .. ((i + 1) - 1)}
    BY <1>1, <1>2, <1>3
  <2>2. ASSUME NEW j \in 1 .. ((i + 1) - 1) PROVE s[j] \in {h} \cup {t[k] : k \in 1 .. (i - 1)}
    <3>1. CASE j = 1
      BY <1>2, <3>1
    <3>2. CASE j # 1
      <4>1. j - 1 \in 1 .. (i - 1) /\ j - 1 \in 1 .. n /\ (j - 1) + 1 = j
        BY <1>2, <3>2
      <4>2. t[j - 1] = s[j]
        BY <1>2, <4>1
      <4>3. QED
        BY <4>1, <4>2
    <3>3. QED
      BY <3>1, <3>2
  <2>3. QED
    BY <1>2, <2>1, <2>2
<1>13. Queue(table, done \cup {h}, A, t)
  BY <1>2, <1>10, <1>11, <1>12 DEF Queue
<1>14. QED
  BY <1>6, <1>7, <1>8, <1>13 DEF h, t

(* In the initial state nothing has been done. *)
LEMMA StagesInit ==
  ASSUME Init
  PROVE  StagesInv
<1>1. plan \in Plans /\ pc = "check" /\ stage = 1 /\ todo = <<>> /\ failedIds = {}
      /\ successes = {} /\ failures = {} /\ skips = {} /\ Finished = {}
  BY DEF Init, Finished
<1>2. DOMAIN Stages = 1 .. 2
  BY <1>1, ChainFacts
<1>3. ToSet(todo) = {} /\ DOMAIN todo = {} /\ todo \in Seq(Stages[stage])
  BY <1>1 DEF ToSet
<1>4. TypeOK
  BY <1>1, <1>2, <1>3 DEF TypeOK
<1>5. Progress /\ Results
  BY <1>1 DEF Progress, Results
<1>6. Queue(deps, Finished, Stages[stage], todo)
  BY <1>1, <1>3 DEF Queue, IsInjective
<1>7. DependenciesFinishFirst /\ SkipsExactlyTheAffected
  BY <1>1 DEF DependenciesFinishFirst, SkipsExactlyTheAffected
<1>8. QED
  BY <1>4, <1>5, <1>6, <1>7 DEF StagesInv

(* What an accepted chain runs when it enters a stage: all of its Actions. *)
LEMMA WholeStage ==
  ASSUME plan \in Plans, DependenciesSatisfied(deps, plan.stages), NEW i \in 1 .. 2,
         Finished = IF i = 1 THEN {} ELSE Stages[1],
         NEW s, s = ResolveActionOrder(deps, plan.stages[i], Finished).order
  PROVE  Queue(deps, Finished, Stages[i], s) /\ ToSet(s) = Stages[i]
<1> DEFINE r == ResolveActionOrder(deps, plan.stages[i], Finished)
<1>1. DOMAIN plan.stages = 1 .. 2 /\ Stages[1] = ToSet(plan.stages[1])
  BY ChainFacts
<1>2. ~r.error
  <2>1. Finished = IF i = 1 THEN {} ELSE ToSet(plan.stages[i - 1])
    <3>1. i = 1 \/ (i = 2 /\ i - 1 = 1)
      OBVIOUS
    <3>2. QED
      BY <1>1, <3>1
  <2>2. ~ResolveActionOrder(deps, plan.stages[i],
                            IF i = 1 THEN {} ELSE ToSet(plan.stages[i - 1])).error
    BY <1>1 DEF DependenciesSatisfied
  <2>3. QED
    BY <2>1, <2>2
<1> HIDE DEF r
<1>3. /\ Queue(deps, Finished, Stages[i], r.order)
      /\ ToSet(r.order) # Stages[i] <=> r.error
  BY StageOrder DEF r
<1>4. s = r.order
  BY DEF r
<1>5. QED
  BY <1>2, <1>3, <1>4

(* The check lets a chain run only if it can run to its end. *)
LEMMA StagesCheck ==
  ASSUME StagesInv, Check
  PROVE  StagesInv'
<1>1. /\ plan \in Plans /\ pc = "check" /\ stage = 1 /\ todo = <<>> /\ Finished = {}
      /\ successes = {} /\ failures = {} /\ skips = {}
  BY DEF StagesInv, TypeOK, Progress, Check, Finished
<1>2. /\ plan' = plan /\ deps' = deps /\ Stages' = Stages /\ StageActions' = StageActions
      /\ successes' = {} /\ failures' = {} /\ skips' = {} /\ Finished' = {}
  BY <1>1 DEF Check, lists, deps, Stages, StageActions, Finished
<1>3. /\ DOMAIN Stages = 1 .. 2 /\ Stages[1] \subseteq StageActions
  BY <1>1, ChainFacts
<1>4. CASE DependenciesSatisfied(deps, plan.stages)
  <2>1. /\ pc' = "run" /\ stage' = 1 /\ failedIds' = {}
        /\ todo' = ResolveActionOrder(deps, plan.stages[1], Finished).order
    BY <1>4 DEF Check, Enter
  <2>2. Queue(deps, Finished, Stages[1], todo') /\ ToSet(todo') = Stages[1]
    <3> DEFINE s == ResolveActionOrder(deps, plan.stages[1], Finished).order
    <3>1. Queue(deps, Finished, Stages[1], s) /\ ToSet(s) = Stages[1]
      BY <1>1, <1>4, WholeStage
    <3>2. QED
      BY <2>1, <3>1
  <2>3. TypeOK'
    BY <1>1, <1>2, <1>3, <2>1, <2>2 DEF TypeOK, ToSet
  <2>4. Progress'
    BY <1>2, <1>4, <2>1, <2>2 DEF Progress, ToSet
  <2>5. Results'
    BY <1>2, <2>1 DEF Results
  <2>6. Queue(deps, Finished, Stages[stage], todo)'
    BY <1>1, <1>2, <2>1, <2>2 DEF Queue, IsInjective, ToSet
  <2>7. DependenciesFinishFirst' /\ SkipsExactlyTheAffected'
    BY <1>2 DEF DependenciesFinishFirst, SkipsExactlyTheAffected
  <2>8. QED
    BY <2>3, <2>4, <2>5, <2>6, <2>7 DEF StagesInv
<1>5. CASE ~DependenciesSatisfied(deps, plan.stages)
  <2>1. pc' = "dependency_error" /\ UNCHANGED <<stage, todo, failedIds>>
    BY <1>5 DEF Check
  <2>2. TypeOK'
    BY <1>1, <1>2, <2>1 DEF StagesInv, TypeOK, ToSet
  <2>3. Progress'
    BY <1>1, <1>2, <1>5, <2>1 DEF Progress
  <2>4. Results'
    BY <1>1, <1>2, <2>1 DEF StagesInv, Results
  <2>5. Queue(deps, Finished, Stages[stage], todo)'
    BY <1>1, <1>2, <2>1 DEF StagesInv, Queue, IsInjective, ToSet
  <2>6. DependenciesFinishFirst' /\ SkipsExactlyTheAffected'
    BY <1>2 DEF DependenciesFinishFirst, SkipsExactlyTheAffected
  <2>7. QED
    BY <2>2, <2>3, <2>4, <2>5, <2>6 DEF StagesInv
<1>6. QED
  BY <1>4, <1>5

(* Whatever result the next Action gets, the stage stays in order. *)
LEMMA StagesAdvance ==
  ASSUME StagesInv, pc = "run", todo # <<>>, NEW h, h = Head(todo), todo' = Tail(todo),
         UNCHANGED <<plan, pc, stage>>, Finished' = Finished \cup {h}
  PROVE  /\ deps' = deps /\ Stages' = Stages /\ stage \in 1 .. 2
         /\ DOMAIN Stages = 1 .. 2 /\ Stages[1] \cap Stages[2] = {}
         /\ h \in Stages[stage] /\ h \notin Finished /\ deps[h] \subseteq Finished
         /\ ToSet(todo') \subseteq Stages[stage] /\ Finished' \subseteq StageActions'
         /\ Progress' /\ DependenciesFinishFirst'
         /\ Queue(deps, Finished, Stages[stage], todo)'
<1>1. /\ plan \in Plans /\ stage \in DOMAIN Stages /\ Finished \subseteq StageActions
      /\ ToSet(todo) \subseteq Stages[stage]
      /\ Queue(deps, Finished, Stages[stage], todo)
  BY DEF StagesInv, TypeOK
<1>2. /\ deps' = deps /\ Stages' = Stages /\ StageActions' = StageActions
      /\ plan' = plan /\ stage' = stage /\ pc' = pc
  BY DEF deps, Stages, StageActions
<1>3. /\ DOMAIN Stages = 1 .. 2 /\ Stages[1] \cap Stages[2] = {}
      /\ StageActions = Stages[1] \cup Stages[2]
  BY <1>1, ChainFacts
<1> DEFINE t == Tail(todo)
           done == Finished
           A == Stages[stage]
           table == deps
<1>4. Queue(table, done, A, todo)
  BY <1>1
<1>5. todo' = t
  OBVIOUS
<1> HIDE DEF t
<1>6. t = Tail(todo)
  BY DEF t
<1> HIDE DEF done, A, table
<1> DEFINE s == todo
<1>7. Queue(table, done, A, s) /\ s # <<>> /\ h = Head(s) /\ t = Tail(s)
  BY <1>4, <1>6
<1> HIDE DEF s
<1>8. /\ h \in A /\ h \notin done /\ table[h] \subseteq done
      /\ \A a : a \in ToSet(s) <=> a = h \/ a \in ToSet(t)
      /\ Queue(table, done \cup {h}, A, t)
  <2>1. /\ Head(s) \in A /\ Head(s) \notin done /\ table[Head(s)] \subseteq done
        /\ \A a : a \in ToSet(s) <=> a = Head(s) \/ a \in ToSet(Tail(s))
        /\ Queue(table, done \cup {Head(s)}, A, Tail(s))
    BY <1>7, Behead, Zenon
  <2>2. QED
    BY <1>7, <2>1, Zenon
<1>9. ToSet(todo) = {h} \cup ToSet(t)
  BY <1>8 DEF s
<1>10. h \in Stages[stage] /\ h \notin Finished /\ deps[h] \subseteq Finished
  BY <1>8 DEF A, done, table
<1>11. Queue(deps, Finished, Stages[stage], todo)'
  <2>1. Queue(deps, Finished', Stages[stage], t)
    BY <1>8 DEF A, done, table
  <2>2. Queue(deps', Finished', Stages'[stage'], todo')
    BY <1>2, <1>5, <2>1
  <2>3. QED
    BY <2>2
<1>12. ToSet(todo') \subseteq Stages[stage] /\ Finished' \subseteq StageActions'
  <2>1. ToSet(t) \subseteq ToSet(todo)
    BY <1>9
  <2>2. ToSet(todo') = ToSet(t)
    BY <1>5
  <2>3. Stages[stage] \subseteq StageActions
    BY <1>1, <1>3
  <2>4. QED
    BY <1>1, <1>2, <1>10, <2>1, <2>2, <2>3
<1>13. Finished' \cup ToSet(todo') = Finished \cup ToSet(todo)
  BY <1>5, <1>9
<1>14. Progress'
  <2>1. ToSet(todo)' = ToSet(todo')
    BY DEF ToSet
  <2>2. /\ DependenciesSatisfied(deps, plan.stages)
        /\ Stages[stage] \subseteq Finished \cup ToSet(todo)
        /\ stage = 1 => Finished \subseteq Stages[1]
        /\ stage = 2 => Stages[1] \subseteq Finished
    BY DEF StagesInv, Progress
  <2>3. Stages[stage] \subseteq Finished' \cup ToSet(todo')
    BY <1>13, <2>2
  <2>4. /\ stage = 1 => Finished' \subseteq Stages[1]
        /\ stage = 2 => Stages[1] \subseteq Finished'
    BY <1>10, <2>2
  <2>5. DependenciesSatisfied(deps, plan.stages)'
    BY <1>2, <2>2 
  <2>6. QED
    BY <1>2, <2>1, <2>3, <2>4, <2>5 DEF Progress
<1>15. DependenciesFinishFirst'
  <2>1. \A a \in Finished : deps[a] \subseteq Finished
    BY DEF StagesInv, DependenciesFinishFirst
  <2>2. \A a \in Finished' : deps[a] \subseteq Finished'
    BY <1>10, <2>1
  <2>3. QED
    BY <1>2, <2>2 DEF DependenciesFinishFirst
<1>16. QED
  BY <1>1, <1>2, <1>3, <1>10, <1>11, <1>12, <1>14, <1>15

(* What an Action that runs or is skipped leaves behind: the part of the     *)
(* invariant that speaks of results, for the stage it is in and the other.   *)
LEMMA StagesResult ==
  ASSUME StagesInv, pc = "run", todo # <<>>, SkipAction \/ \E level \in Levels : RunAction(level)
  PROVE  StagesInv'
<1> DEFINE h == Head(todo)
<1>1. /\ todo' = Tail(todo) /\ UNCHANGED <<plan, pc, stage>>
      /\ \/ /\ deps[h] \cap failedIds # {}
            /\ skips' = skips \cup {h} /\ failedIds' = failedIds \cup {h}
            /\ UNCHANGED <<successes, failures>>
         \/ /\ deps[h] \cap failedIds = {}
            /\ successes' = successes \cup {h} /\ UNCHANGED <<failures, skips, failedIds>>
         \/ /\ deps[h] \cap failedIds = {}
            /\ failures' = failures \cup {h} /\ failedIds' = failedIds \cup {h}
            /\ UNCHANGED <<successes, skips>>
  <2>1. CASE SkipAction
    BY <2>1 DEF SkipAction, FailedDeps
  <2>2. CASE \E level \in Levels : RunAction(level)
    <3>1. PICK level \in Levels : RunAction(level)
      BY <2>2
    <3>2. CASE level = "SUCCESS"
      BY <3>1, <3>2 DEF RunAction, FailedDeps
    <3>3. CASE level # "SUCCESS"
      BY <3>1, <3>3 DEF RunAction, FailedDeps
    <3>4. QED
      BY <3>2, <3>3
  <2>3. QED
    BY <2>1, <2>2
<1>2. h = Head(todo)
  OBVIOUS
<1> HIDE DEF h
<1>3. Finished' = Finished \cup {h}
  BY <1>1 DEF Finished
<1>4. /\ deps' = deps /\ Stages' = Stages /\ stage \in 1 .. 2 /\ stage' = stage
      /\ DOMAIN Stages = 1 .. 2 /\ Stages[1] \cap Stages[2] = {}
      /\ h \in Stages[stage] /\ h \notin Finished /\ deps[h] \subseteq Finished
      /\ ToSet(todo') \subseteq Stages[stage] /\ Finished' \subseteq StageActions'
      /\ Progress' /\ DependenciesFinishFirst'
      /\ Queue(deps, Finished, Stages[stage], todo)'
  BY <1>1, <1>2, <1>3, StagesAdvance
<1>5. /\ successes \cap failures = {} /\ successes \cap skips = {} /\ failures \cap skips = {}
      /\ failedIds = (failures \cup skips) \cap Stages[stage]
  BY DEF StagesInv, Results
<1>6. h \notin successes /\ h \notin failures /\ h \notin skips
  BY <1>4 DEF Finished
<1>7. Results'
  BY <1>1, <1>4, <1>5, <1>6 DEF Results
<1>8. TypeOK'
  <2>1. plan' \in Plans /\ pc' = "run"
    BY <1>1 DEF StagesInv, TypeOK
  <2>2. failedIds' \subseteq Stages'[stage']
    BY <1>4, <1>7 DEF Results
  <2>3. ToSet(todo)' \subseteq Stages'[stage']
    BY <1>4 DEF ToSet
  <2>4. QED
    BY <1>4, <2>1, <2>2, <2>3 DEF TypeOK
<1>9. ASSUME NEW i \in 1 .. 2
      PROVE  /\ \A a \in Stages[i] \cap (successes' \cup failures') :
                   deps[a] \cap Stages[i] \subseteq successes'
             /\ \A a \in Stages[i] \cap skips' :
                   deps[a] \cap Stages[i] \cap (failures' \cup skips') # {}
             /\ skips' \cap Stages[i] # {} => failures' \cap Stages[i] # {}
  <2>1. /\ \A a \in Stages[i] \cap (successes \cup failures) :
              deps[a] \cap Stages[i] \subseteq successes
        /\ \A a \in Stages[i] \cap skips : deps[a] \cap Stages[i] \cap (failures \cup skips) # {}
        /\ skips \cap Stages[i] # {} => failures \cap Stages[i] # {}
    BY <1>4 DEF StagesInv, SkipsExactlyTheAffected
  <2>2. /\ successes \subseteq successes' /\ failures \subseteq failures' /\ skips \subseteq skips'
        /\ successes' \subseteq successes \cup {h} /\ failures' \subseteq failures \cup {h}
        /\ skips' \subseteq skips \cup {h}
    BY <1>1
  <2>3. h \in Stages[i] => i = stage
    BY <1>4
  <2>4. ASSUME NEW a \in Stages[i] \cap (successes' \cup failures')
        PROVE  deps[a] \cap Stages[i] \subseteq successes'
    <3>1. CASE a = h
      <4>1. deps[h] \cap failedIds = {} /\ i = stage
        BY <1>1, <1>6, <2>3, <3>1
      <4>2. QED
        BY <1>4, <1>5, <2>2, <3>1, <4>1 DEF Finished
    <3>2. CASE a # h
      BY <2>1, <2>2, <3>2
    <3>3. QED
      BY <3>1, <3>2
  <2>5. ASSUME NEW a \in Stages[i] \cap skips'
        PROVE  deps[a] \cap Stages[i] \cap (failures' \cup skips') # {}
    <3>1. CASE a = h
      <4>1. deps[h] \cap failedIds # {} /\ i = stage
        BY <1>1, <1>6, <2>3, <3>1
      <4>2. QED
        BY <1>5, <2>2, <3>1, <4>1
    <3>2. CASE a # h
      BY <2>1, <2>2, <3>2
    <3>3. QED
      BY <3>1, <3>2
  <2>6. ASSUME skips' \cap Stages[i] # {} PROVE failures' \cap Stages[i] # {}
    <3>1. CASE skips \cap Stages[i] # {}
      BY <2>1, <2>2, <3>1
    <3>2. CASE skips \cap Stages[i] = {}
      <4>1. h \in Stages[i] /\ h \in skips' /\ i = stage
        BY <2>2, <2>3, <2>6, <3>2
      <4>2. failedIds # {}
        BY <1>1, <1>6, <4>1
      <4>3. QED
        BY <1>5, <2>2, <3>2, <4>1, <4>2
    <3>3. QED
      BY <3>1, <3>2
  <2>7. QED
    BY <2>4, <2>5, <2>6
<1>10. SkipsExactlyTheAffected'
  BY <1>4, <1>9 DEF SkipsExactlyTheAffected
<1>11. QED
  BY <1>4, <1>7, <1>8, <1>10 DEF StagesInv

(* At the end of a stage everything in it is done, and the next one begins. *)
LEMMA StagesEnd ==
  ASSUME StagesInv, EndStage
  PROVE  StagesInv'
<1>1. /\ plan \in Plans /\ pc = "run" /\ todo = <<>> /\ stage \in DOMAIN Stages
      /\ Finished \subseteq StageActions
  BY DEF StagesInv, TypeOK, EndStage
<1>2. /\ DOMAIN Stages = 1 .. 2 /\ Len(Stages) = 2 /\ Stages[1] \cap Stages[2] = {}
      /\ StageActions = Stages[1] \cup Stages[2]
  BY <1>1, ChainFacts
<1>3. /\ plan' = plan /\ deps' = deps /\ Stages' = Stages /\ StageActions' = StageActions
      /\ successes' = successes /\ failures' = failures /\ skips' = skips /\ Finished' = Finished
  BY DEF EndStage, lists, deps, Stages, StageActions, Finished
<1>4. /\ DependenciesSatisfied(deps, plan.stages) /\ Stages[stage] \subseteq Finished
      /\ stage = 1 => Finished \subseteq Stages[1]
      /\ stage = 2 => Stages[1] \subseteq Finished
  BY <1>1 DEF StagesInv, Progress, ToSet
<1>5. DependenciesFinishFirst' /\ SkipsExactlyTheAffected'
  BY <1>3 DEF StagesInv, DependenciesFinishFirst, SkipsExactlyTheAffected
<1>6. /\ successes \cap failures = {} /\ successes \cap skips = {} /\ failures \cap skips = {}
      /\ failedIds = (failures \cup skips) \cap Stages[stage]
  BY DEF StagesInv, Results
<1>7. CASE stage = 1
  <2>1. Finished = Stages[1]
    BY <1>4, <1>7
  <2>2. /\ pc' = "run" /\ stage' = 2 /\ failedIds' = {}
        /\ todo' = ResolveActionOrder(deps, plan.stages[2], Finished).order
    BY <1>1, <1>2, <1>4, <1>7 DEF EndStage, Enter
  <2>3. Queue(deps, Finished, Stages[2], todo') /\ ToSet(todo') = Stages[2]
    <3> DEFINE s == ResolveActionOrder(deps, plan.stages[2], Finished).order
               i == 2
    <3>1. i \in 1 .. 2 /\ Finished = (IF i = 1 THEN {} ELSE Stages[1])
          /\ s = ResolveActionOrder(deps, plan.stages[i], Finished).order
      BY <2>1
    <3> HIDE DEF s, i
    <3>2. Queue(deps, Finished, Stages[i], s) /\ ToSet(s) = Stages[i]
      BY <1>1, <1>4, <3>1, WholeStage
    <3>3. QED
      BY <2>2, <3>2 DEF s, i
  <2>4. ToSet(todo)' = ToSet(todo')
    BY DEF ToSet
  <2>5. TypeOK'
    BY <1>1, <1>2, <1>3, <2>2, <2>3, <2>4 DEF TypeOK
  <2>6. Progress'
    <3>1. DependenciesSatisfied(deps, plan.stages)'
      BY <1>3, <1>4
    <3>2. QED
      BY <1>3, <2>1, <2>2, <2>3, <2>4, <3>1 DEF Progress
  <2>7. Results'
    BY <1>2, <1>3, <1>6, <2>1, <2>2 DEF Results, Finished
  <2>8. Queue(deps, Finished, Stages[stage], todo)'
    <3>1. Queue(deps', Finished', Stages'[stage'], todo')
      BY <1>3, <2>2, <2>3
    <3>2. QED
      BY <3>1
  <2>9. QED
    BY <1>5, <2>5, <2>6, <2>7, <2>8 DEF StagesInv
<1>8. CASE stage = 2
  <2>1. pc' = "done" /\ UNCHANGED <<stage, todo, failedIds>>
    BY <1>2, <1>4, <1>8 DEF EndStage
  <2>2. ToSet(todo)' = ToSet(todo)
    BY <2>1 DEF ToSet
  <2>3. TypeOK'
    BY <1>1, <1>3, <2>1, <2>2 DEF StagesInv, TypeOK
  <2>4. Progress'
    <3>1. DependenciesSatisfied(deps, plan.stages)'
      BY <1>3, <1>4
    <3>2. QED
      BY <1>1, <1>2, <1>3, <1>4, <1>8, <2>1, <2>2, <3>1 DEF Progress
  <2>5. Results'
    BY <1>3, <1>6, <2>1 DEF Results
  <2>6. Queue(deps, Finished, Stages[stage], todo)'
    <3>1. Queue(deps', Finished', Stages'[stage'], todo')
      BY <1>3, <2>1 DEF StagesInv
    <3>2. QED
      BY <3>1
  <2>7. QED
    BY <1>5, <2>3, <2>4, <2>5, <2>6 DEF StagesInv
<1>9. QED
  BY <1>1, <1>2, <1>7, <1>8

(* An interruption only stops the run; a stuttering step changes nothing. *)
LEMMA StagesStop ==
  ASSUME StagesInv, Interrupt \/ UNCHANGED vars
  PROVE  StagesInv'
<1>1. /\ UNCHANGED <<plan, stage, todo, failedIds, successes, failures, skips>>
      /\ pc' = pc \/ (pc = "run" /\ pc' = "interrupted")
  BY DEF Interrupt, vars, lists
<1>2. /\ deps' = deps /\ Stages' = Stages /\ StageActions' = StageActions /\ Finished' = Finished
      /\ ToSet(todo)' = ToSet(todo)
  BY <1>1 DEF deps, Stages, StageActions, Finished, ToSet
<1>3. TypeOK'
  BY <1>1, <1>2 DEF StagesInv, TypeOK
<1>4. Progress'
  <2>1. DependenciesSatisfied(deps, plan.stages)' <=> DependenciesSatisfied(deps, plan.stages)
    BY <1>1, <1>2
  <2>2. Progress
    BY DEF StagesInv
  <2>3. CASE pc' = pc
    BY <1>1, <1>2, <2>1, <2>2, <2>3 DEF Progress
  <2>4. CASE pc = "run" /\ pc' = "interrupted"
    BY <1>1, <1>2, <2>1, <2>2, <2>4 DEF Progress
  <2>5. QED
    BY <1>1, <2>3, <2>4
<1>5. Results'
  BY <1>1, <1>2 DEF StagesInv, Results
<1>6. Queue(deps, Finished, Stages[stage], todo)'
  <2>1. Queue(deps', Finished', Stages'[stage'], todo')
    BY <1>1, <1>2 DEF StagesInv
  <2>2. QED
    BY <2>1
<1>7. DependenciesFinishFirst' /\ SkipsExactlyTheAffected'
  BY <1>1, <1>2 DEF StagesInv, DependenciesFinishFirst, SkipsExactlyTheAffected
<1>8. QED
  BY <1>3, <1>4, <1>5, <1>6, <1>7 DEF StagesInv

LEMMA StagesStep ==
  ASSUME StagesInv, [Next]_vars
  PROVE  StagesInv'
<1>1. CASE Check
  BY <1>1, StagesCheck
<1>2. CASE SkipAction
  BY <1>2, StagesResult DEF SkipAction
<1>3. CASE \E level \in Levels : RunAction(level)
  BY <1>3, StagesResult DEF RunAction
<1>4. CASE EndStage
  BY <1>4, StagesEnd
<1>5. CASE Interrupt \/ UNCHANGED vars
  BY <1>5, StagesStop
<1>6. QED
  BY <1>1, <1>2, <1>3, <1>4, <1>5 DEF Next

LEMMA StagesInvariant == Spec => []StagesInv
<1>1. Init => StagesInv
  BY StagesInit
<1>2. StagesInv /\ [Next]_vars => StagesInv'
  BY StagesStep
<1>3. QED
  BY <1>1, <1>2, PTL DEF Spec

(* Whatever has been run or skipped had everything it depends on finished,   *)
(* in whatever order its stage was sorted and whatever the results were.     *)
THEOREM DependenciesHold == Spec => []DependenciesFinishFirst
<1>1. StagesInv => DependenciesFinishFirst
  BY DEF StagesInv
<1>2. QED
  BY <1>1, StagesInvariant, PTL

(* In each stage an Action runs only after the success of all it depends on  *)
(* there, and is skipped only because of one that failed.                    *)
THEOREM SkipsAreJustified == Spec => []SkipsExactlyTheAffected
<1>1. StagesInv => SkipsExactlyTheAffected
  BY DEF StagesInv
<1>2. QED
  BY <1>1, StagesInvariant, PTL

(* check_dependencies() refuses exactly the tables that no order satisfies,  *)
(* so no DependencyError comes out of a run that has begun.                  *)
THEOREM ChecksDecide == Spec => []RejectsExactlyUnschedulable
<1>1. StagesInv => RejectsExactlyUnschedulable
  <2> SUFFICES ASSUME StagesInv PROVE RejectsExactlyUnschedulable
    OBVIOUS
  <2>1. DependenciesSatisfied(deps, plan.stages) <=> Schedulable
    BY SatisfiedIffSchedulable DEF StagesInv, TypeOK
  <2>2. Progress
    BY DEF StagesInv
  <2>3. QED
    BY <2>1, <2>2 DEF Progress, RejectsExactlyUnschedulable
<1>2. QED
  BY <1>1, StagesInvariant, PTL

(* Sets without a common element add up. *)
LEMMA DisjointUnion ==
  ASSUME NEW S, IsFiniteSet(S), NEW T, IsFiniteSet(T), S \cap T = {}
  PROVE  /\ IsFiniteSet(S \cup T)
         /\ Cardinality(S \cup T) = Cardinality(S) + Cardinality(T)
<1>1. /\ IsFiniteSet(S \cup T)
      /\ Cardinality(S \cup T) = Cardinality(S) + Cardinality(T) - Cardinality(S \cap T)
  BY FS_Union, Zenon
<1>2. Cardinality(S) \in Nat /\ Cardinality(T) \in Nat
  BY FS_CardinalityType
<1>3. Cardinality(S \cap T) = 0
  BY FS_EmptySet, Zenon
<1>4. QED
  BY <1>1, <1>2, <1>3

(* The lists a finished chain returns hold every Action exactly once. *)
THEOREM EveryActionHasAResult == Spec => []EveryActionReported
<1>1. StagesInv => EveryActionReported
  <2> SUFFICES ASSUME StagesInv, pc = "done"
               PROVE  /\ Finished = StageActions
                      /\ Cardinality(successes) + Cardinality(failures) + Cardinality(skips)
                           = Cardinality(StageActions)
    BY DEF EveryActionReported
  <2>1. Finished = StageActions
    BY DEF StagesInv, Progress
  <2>2. IsFiniteSet(StageActions)
    <3>1. /\ IsFiniteSet(Stages[1]) /\ IsFiniteSet(Stages[2])
          /\ StageActions = Stages[1] \cup Stages[2]
      BY ChainFacts DEF StagesInv, TypeOK
    <3>2. QED
      BY <3>1, FS_Union
  <2>3. IsFiniteSet(successes) /\ IsFiniteSet(failures) /\ IsFiniteSet(skips)
    BY <2>1, <2>2, FS_Subset DEF Finished
  <2>4. /\ successes \cap failures = {} /\ (successes \cup failures) \cap skips = {}
    BY DEF StagesInv, Results
  <2>5. /\ IsFiniteSet(successes \cup failures)
        /\ Cardinality(successes \cup failures) = Cardinality(successes) + Cardinality(failures)
    BY <2>3, <2>4, DisjointUnion
  <2>6. Cardinality((successes \cup failures) \cup skips)
          = Cardinality(successes \cup failures) + Cardinality(skips)
    BY <2>3, <2>4, <2>5, DisjointUnion
  <2>7. QED
    BY <2>1, <2>5, <2>6 DEF Finished
<1>2. QED
  BY <1>1, StagesInvariant, PTL

-----------------------------------------------------------------------------
(* The shipped Actions. *)

(* The dependencies the shipped Actions declare are there, those of the same *)
(* stage in that stage.  Other Actions, and other dependencies, may be too.  *)
ShippedDependencies(a) == PreDependencies(a) \cup PostDependencies(a)
TablesKept ==
  \A p \in Plans : \A i \in 1 .. 2 : \A a \in ToSet(p.stages[i]) :
    /\ ShippedDependencies(a) \subseteq p.deps[a]
    /\ ShippedDependencies(a) \ ToSet(SystemChecks) \subseteq ToSet(p.stages[i])

(* An Action that ran had the success of those it declares in its stage. *)
LEMMA SucceededBefore ==
  ASSUME StagesInv, TablesKept, NEW a \in Ran, NEW b \in ShippedDependencies(a),
         b \notin ToSet(SystemChecks)
  PROVE  b \in successes
<1>1. /\ plan \in Plans /\ a \in StageActions
      /\ DOMAIN Stages = 1 .. 2 /\ StageActions = Stages[1] \cup Stages[2]
      /\ \A i \in 1 .. 2 : Stages[i] = ToSet(plan.stages[i])
  BY ChainFacts DEF StagesInv, TypeOK, Finished, Ran
<1>2. PICK i \in 1 .. 2 : a \in Stages[i]
  BY <1>1
<1>3. b \in deps[a] /\ b \in Stages[i]
  <2>1. /\ ShippedDependencies(a) \subseteq plan.deps[a]
        /\ ShippedDependencies(a) \ ToSet(SystemChecks) \subseteq ToSet(plan.stages[i])
    BY <1>1, <1>2 DEF TablesKept
  <2>2. QED
    BY <1>1, <2>1 DEF deps
<1>4. deps[a] \cap Stages[i] \subseteq successes
  BY <1>1, <1>2 DEF StagesInv, SkipsExactlyTheAffected, Ran
<1>5. QED
  BY <1>3, <1>4

(* None of the names below is one of a system check. *)
LEMMA NotASystemCheck ==
  /\ DOMAIN SystemChecks = 1 .. 4
  /\ ToSet(SystemChecks) =
       {"CHECK_FIREWALLD_AVAILABILITY", "EFI", "ELS_SYSTEM_CHECK", "EUS_SYSTEM_CHECK"}
<1>1. DOMAIN SystemChecks = 1 .. 4
  BY DEF SystemChecks
<1>2. /\ SystemChecks[1] = "CHECK_FIREWALLD_AVAILABILITY" /\ SystemChecks[2] = "EFI"
      /\ SystemChecks[3] = "ELS_SYSTEM_CHECK" /\ SystemChecks[4] = "EUS_SYSTEM_CHECK"
  BY DEF SystemChecks
<1> HIDE DEF SystemChecks
<1>3. 1 .. 4 = {1, 2, 3, 4}
  OBVIOUS
<1>4. QED
  BY <1>1, <1>2, <1>3 DEF ToSet

(* Whatever Actions are added and however they are ordered, no package is    *)
(* removed before all that a rollback needs has been backed up.              *)
THEOREM BackupsComeFirst ==
  ASSUME TablesKept PROVE Spec => []RemovalNeedsBackups
<1>1. StagesInv => RemovalNeedsBackups
  <2> SUFFICES ASSUME StagesInv PROVE RemovalNeedsBackups
    OBVIOUS
  <2>1. /\ ShippedDependencies("REMOVE_SPECIAL_PACKAGES") =
             {"BACKUP_REPOSITORY", "BACKUP_PACKAGE_FILES", "BACKUP_REDHAT_RELEASE",
              "BACKUP_YUM_VARIABLES"}
        /\ "BACKUP_PACKAGE_FILES" \in ShippedDependencies("VALIDATE_PACKAGE_MANAGER_TRANSACTION")
        /\ {"BACKUP_REPOSITORY", "BACKUP_REDHAT_RELEASE", "BACKUP_YUM_VARIABLES"}
             \subseteq ShippedDependencies("BACKUP_PACKAGE_FILES")
    BY DEF ShippedDependencies, PreDependencies, PostDependencies
  <2>2. successes \subseteq Ran
    BY DEF Ran
  <2>3. "REMOVE_SPECIAL_PACKAGES" \in Ran =>
          {"BACKUP_REDHAT_RELEASE", "BACKUP_REPOSITORY", "BACKUP_YUM_VARIABLES",
           "BACKUP_PACKAGE_FILES"} \subseteq successes
    BY <2>1, SucceededBefore, NotASystemCheck
  <2>4. "VALIDATE_PACKAGE_MANAGER_TRANSACTION" \in Ran => "BACKUP_PACKAGE_FILES" \in successes
    BY <2>1, SucceededBefore, NotASystemCheck
  <2>5. "BACKUP_PACKAGE_FILES" \in successes =>
          {"BACKUP_REDHAT_RELEASE", "BACKUP_REPOSITORY", "BACKUP_YUM_VARIABLES"} \subseteq successes
    BY <2>1, <2>2, SucceededBefore, NotASystemCheck
  <2>6. QED
    BY <2>3, <2>4, <2>5 DEF RemovalNeedsBackups
<1>2. QED
  BY <1>1, StagesInvariant, PTL

(* Likewise the RHEL repositories are used only after the Actions that       *)
(* remove the conflicting packages, install the key and the certificate and  *)
(* subscribe the system have succeeded.                                      *)
THEOREM SubscriptionComesFirst ==
  ASSUME TablesKept PROVE Spec => []ValidationNeedsSubscription
<1>1. StagesInv => ValidationNeedsSubscription
  <2> SUFFICES ASSUME StagesInv PROVE ValidationNeedsSubscription
    OBVIOUS
  <2>1. /\ {"SUBSCRIBE_SYSTEM", "INSTALL_RED_HAT_GPG_KEY", "REMOVE_IWLAX2XX_FIRMWARE"}
             \subseteq ShippedDependencies("VALIDATE_PACKAGE_MANAGER_TRANSACTION")
        /\ "PRE_SUBSCRIPTION" \in ShippedDependencies("SUBSCRIBE_SYSTEM")
        /\ {"REMOVE_SPECIAL_PACKAGES", "INSTALL_RED_HAT_CERT_FOR_YUM"}
             \subseteq ShippedDependencies("PRE_SUBSCRIPTION")
    BY DEF ShippedDependencies, PreDependencies, PostDependencies
  <2>2. successes \subseteq Ran
    BY DEF Ran
  <2>3. "VALIDATE_PACKAGE_MANAGER_TRANSACTION" \in Ran =>
          {"SUBSCRIBE_SYSTEM", "INSTALL_RED_HAT_GPG_KEY", "REMOVE_IWLAX2XX_FIRMWARE"}
             \subseteq successes
    BY <2>1, SucceededBefore, NotASystemCheck
  <2>4. "SUBSCRIBE_SYSTEM" \in successes => "PRE_SUBSCRIPTION" \in successes
    BY <2>1, <2>2, SucceededBefore, NotASystemCheck
  <2>5. "PRE_SUBSCRIPTION" \in successes =>
          {"REMOVE_SPECIAL_PACKAGES", "INSTALL_RED_HAT_CERT_FOR_YUM"} \subseteq successes
    BY <2>1, <2>2, SucceededBefore, NotASystemCheck
  <2>6. QED
    BY <2>3, <2>4, <2>5 DEF ValidationNeedsSubscription
<1>2. QED
  BY <1>1, StagesInvariant, PTL

(* And what the system boots from is replaced before it is removed. *)
THEOREM BootPathComesFirst ==
  ASSUME TablesKept PROVE Spec => []BootPathKept
<1>1. StagesInv => BootPathKept
  <2> SUFFICES ASSUME StagesInv PROVE BootPathKept
    OBVIOUS
  <2>1. /\ "CONVERT_SYSTEM_PACKAGES" \in ShippedDependencies("INSTALL_RHEL_KERNEL")
        /\ "INSTALL_RHEL_KERNEL" \in ShippedDependencies("REMOVE_NON_RHEL_KERNELS")
        /\ "REMOVE_NON_RHEL_KERNELS" \in ShippedDependencies("FIX_INVALID_GRUB2_ENTRIES")
        /\ "FIX_INVALID_GRUB2_ENTRIES" \in ShippedDependencies("FIX_DEFAULT_KERNEL")
        /\ "FIX_DEFAULT_KERNEL" \in ShippedDependencies("NEW_DEFAULT_EFI_BIN")
        /\ "NEW_DEFAULT_EFI_BIN" \in ShippedDependencies("EFIBOOTMGR_UTILITY_INSTALLED")
        /\ "EFIBOOTMGR_UTILITY_INSTALLED" \in ShippedDependencies("MOVE_GRUB_FILES")
        /\ "MOVE_GRUB_FILES" \in ShippedDependencies("REMOVE_EFI_CENTOS")
        /\ "REMOVE_EFI_CENTOS" \in ShippedDependencies("REPLACE_EFI_BOOT_ENTRY")
    BY DEF ShippedDependencies, PreDependencies, PostDependencies
  <2>2. successes \subseteq Ran
    BY DEF Ran
  <2>3. "REMOVE_NON_RHEL_KERNELS" \in Ran => "INSTALL_RHEL_KERNEL" \in successes
    BY <2>1, SucceededBefore, NotASystemCheck
  <2>4. "INSTALL_RHEL_KERNEL" \in successes => "CONVERT_SYSTEM_PACKAGES" \in successes
    BY <2>1, <2>2, SucceededBefore, NotASystemCheck
  <2>5. "REPLACE_EFI_BOOT_ENTRY" \in Ran => "REMOVE_EFI_CENTOS" \in Ran
    BY <2>1, <2>2, SucceededBefore, NotASystemCheck
  <2>6. "REMOVE_EFI_CENTOS" \in Ran => "MOVE_GRUB_FILES" \in successes
    BY <2>1, SucceededBefore, NotASystemCheck
  <2>7. "MOVE_GRUB_FILES" \in successes => "NEW_DEFAULT_EFI_BIN" \in successes
    <3>1. "MOVE_GRUB_FILES" \in successes => "EFIBOOTMGR_UTILITY_INSTALLED" \in successes
      BY <2>1, <2>2, SucceededBefore, NotASystemCheck
    <3>2. "EFIBOOTMGR_UTILITY_INSTALLED" \in successes => "NEW_DEFAULT_EFI_BIN" \in successes
      BY <2>1, <2>2, SucceededBefore, NotASystemCheck
    <3>3. QED
      BY <3>1, <3>2
  <2>8. "NEW_DEFAULT_EFI_BIN" \in successes => "FIX_DEFAULT_KERNEL" \in successes
    BY <2>1, <2>2, SucceededBefore, NotASystemCheck
  <2>9. "FIX_DEFAULT_KERNEL" \in successes => "REMOVE_NON_RHEL_KERNELS" \in successes
    <3>1. "FIX_DEFAULT_KERNEL" \in successes => "FIX_INVALID_GRUB2_ENTRIES" \in successes
      BY <2>1, <2>2, SucceededBefore, NotASystemCheck
    <3>2. "FIX_INVALID_GRUB2_ENTRIES" \in successes => "REMOVE_NON_RHEL_KERNELS" \in successes
      BY <2>1, <2>2, SucceededBefore, NotASystemCheck
    <3>3. QED
      BY <3>1, <3>2
  <2>10. QED
    BY <2>2, <2>3, <2>4, <2>5, <2>6, <2>7, <2>8, <2>9 DEF BootPathKept
<1>2. QED
  BY <1>1, StagesInvariant, PTL
=============================================================================
