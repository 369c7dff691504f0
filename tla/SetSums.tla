------------------------------- MODULE SetSums -------------------------------
(***************************************************************************)
(* What the proofs need of arithmetic.  Of multiples: the dates of a plan  *)
(* are a step apart.  Of sums over a finite set: the equations of          *)
(* SumFunctionOnSet.  Its recursion has no induction theorem that the      *)
(* provers can instantiate; each lemma here takes a least set on which it  *)
(* would fail.                                                             *)
(***************************************************************************)
EXTENDS Integers, Functions, PlannedDates, FiniteSetTheorems, TLAPS

LEMMA Quotient ==
  ASSUME NEW x \in Int, NEW k \in Nat \ {0}
  PROVE  x = k * (x \div k) + (x % k)
  OBVIOUS

LEMMA Multiple ==
  ASSUME NEW q \in Int, NEW x \in Int, NEW k \in Nat \ {0}, x = k * q
  PROVE  x % k = 0
  OBVIOUS

LEMMA StillDivides ==
  ASSUME NEW x \in Int, NEW k \in Nat \ {0}, x % k = 0
  PROVE  (x + k) % k = 0
<1> DEFINE q == x \div k
<1>1. q \in Int /\ x = k * q
  BY Quotient
<1> HIDE DEF q
<1>2. x + k = k * (q + 1)
  BY <1>1
<1>3. x + k \in Int /\ q + 1 \in Int
  BY <1>1
<1> QED
  BY <1>2, <1>3, Multiple

\* Two multiples of a step are a step apart.
LEMMA MultiplesApart ==
  ASSUME NEW x \in Int, NEW y \in Int, NEW k \in Nat \ {0},
         x % k = 0, y % k = 0, x < y
  PROVE  x + k <= y
<1> DEFINE p == x \div k
           q == y \div k
<1>1. p \in Int /\ q \in Int /\ x = k * p /\ y = k * q
  BY Quotient
<1> HIDE DEF p, q
<1>2. p < q
  <2> SUFFICES ASSUME q <= p PROVE FALSE
    BY <1>1
  <2>1. p - q \in Nat /\ k * (p - q) >= 0
    BY <1>1
  <2>2. k * (p - q) = x - y
    BY <1>1
  <2> QED
    BY <2>1, <2>2
<1>3. k * (q - p - 1) >= 0
  <2>1. q - p - 1 \in Nat
    BY <1>1, <1>2
  <2> QED
    BY <2>1
<1>4. k * (q - p - 1) = y - x - k
  BY <1>1
<1> QED
  BY <1>1, <1>3, <1>4

\* The dates of a plan are a step apart, and the plan goes on up to its horizon.
LEMMA PlanSpaced ==
  ASSUME NEW first \in Nat, NEW step \in Nat \ {0}, NEW last \in Nat,
         NEW d \in PlanFrom(first, step, last)
  PROVE  /\ d \in Nat /\ d <= last /\ first <= d
         /\ d + step <= last => d + step \in PlanFrom(first, step, last)
         /\ \A e \in PlanFrom(first, step, last) : d < e => d + step <= e
<1>1. d \in first..last /\ (d - first) % step = 0
  BY DEF PlanFrom
<1> PICK x \in Nat : x = d - first
  BY <1>1
<1>2. x % step = 0 /\ d = first + x
  BY <1>1
<1>3. (x + step) % step = 0
  BY <1>2, StillDivides
<1>4. ASSUME NEW e \in PlanFrom(first, step, last), d < e
      PROVE  d + step <= e
  <2>1. e \in first..last /\ (e - first) % step = 0
    BY DEF PlanFrom
  <2> PICK y \in Nat : y = e - first
    BY <2>1
  <2>2. y % step = 0 /\ e = first + y /\ x < y
    BY <1>2, <1>4, <2>1
  <2>3. x + step <= y
    <3>1. x \in Int /\ y \in Int
      OBVIOUS
    <3> QED
      BY ONLY <1>2, <2>2, <3>1, step \in Nat \ {0}, MultiplesApart, Zenon
  <2> QED
    BY <1>2, <2>2, <2>3
<1>5. d + step <= last => d + step \in PlanFrom(first, step, last)
  <2>1. d + step - first = x + step /\ d + step >= first
    BY <1>2
  <2>2. (d + step - first) % step = 0
    BY <1>3, <2>1
  <2> QED
    BY <1>2, <2>1, <2>2 DEF PlanFrom
<1> QED
  BY <1>1, <1>4, <1>5

LEMMA PlanStarts ==
  ASSUME NEW first \in Nat, NEW step \in Nat \ {0}, NEW last \in Nat
  PROVE  /\ first <= last => first \in PlanFrom(first, step, last)
         /\ PlanFrom(first, step, last) \subseteq 0..last
         /\ \A d \in PlanFrom(first, step, last) : first <= d
<1>1. first - first = 0 /\ 0 = step * 0
  OBVIOUS
<1>2. (first - first) % step = 0
  BY <1>1, Multiple
<1> QED
  BY <1>2 DEF PlanFrom

Pick(s) == CHOOSE x \in s : TRUE

\* h is the function that the recursion of a sum of g over S defines.
SumsOf(g, S, h) ==
  h = [s \in SUBSET S |-> IF s = {} THEN 0 ELSE g[Pick(s)] + h[s \ {Pick(s)}]]

LEMMA SumIsChosen ==
  ASSUME NEW g, NEW S
  PROVE  SumFunctionOnSet(g, S) = (CHOOSE h : SumsOf(g, S, h))[S]
  BY DEF SumFunctionOnSet, FoldFunctionOnSet, MapThenFoldSet, SumsOf, Pick

\* A nonempty set of subsets of a finite set has a minimal one.
LEMMA LeastSubset ==
  ASSUME NEW S, IsFiniteSet(S), NEW Bad \in SUBSET (SUBSET S), Bad # {}
  PROVE  \E T \in Bad : \A U \in SUBSET T : U # T => U \notin Bad
<1>1. IsWellFoundedOn(StrictSubsetOrdering(S), SUBSET S)
  BY FS_StrictSubsetOrderingWellFounded, FS_FiniteSubsetsOfFinite
<1>2. PICK T \in Bad : \A U \in Bad : <<U, T>> \notin StrictSubsetOrdering(S)
  BY <1>1, WFMin
<1>3. ASSUME NEW U \in SUBSET T, U # T
      PROVE  U \notin Bad
  BY <1>2, <1>3 DEF StrictSubsetOrdering
<1> QED
  BY <1>3

LEMMA PickIsMember == ASSUME NEW s, s # {} PROVE Pick(s) \in s
  BY DEF Pick

\* The recursion determines its values.
LEMMA SumsAgree ==
  ASSUME NEW g, NEW S, IsFiniteSet(S), NEW A, NEW B,
         S \subseteq A, S \subseteq B,
         NEW h, SumsOf(g, A, h), NEW k, SumsOf(g, B, k)
  PROVE  h[S] = k[S]
<1> DEFINE Bad == {T \in SUBSET S : h[T] # k[T]}
<1> SUFFICES ASSUME Bad # {} PROVE FALSE
  OBVIOUS
<1>1. PICK T \in Bad : \A U \in SUBSET T : U # T => U \notin Bad
  <2>1. Bad \in SUBSET (SUBSET S)
    OBVIOUS
  <2> HIDE DEF Bad
  <2> QED
    BY <2>1, LeastSubset
<1>2. /\ h[T] = IF T = {} THEN 0 ELSE g[Pick(T)] + h[T \ {Pick(T)}]
      /\ k[T] = IF T = {} THEN 0 ELSE g[Pick(T)] + k[T \ {Pick(T)}]
  <2>1. T \in SUBSET A /\ T \in SUBSET B
    OBVIOUS
  <2> QED
    BY <2>1 DEF SumsOf
<1>3. T # {} => h[T \ {Pick(T)}] = k[T \ {Pick(T)}]
  <2>1. T # {} => T \ {Pick(T)} # T
    BY PickIsMember
  <2> QED
    BY <1>1, <2>1
<1> QED
  BY <1>2, <1>3

LEMMA SumsExist ==
  ASSUME NEW g, NEW S, IsFiniteSet(S)
  PROVE  \E h : SumsOf(g, S, h)
<1> DEFINE Total(s) == SumFunctionOnSet(g, s)
           Bad == {T \in SUBSET S : ~\E h : SumsOf(g, T, h)}
<1> SUFFICES ASSUME Bad # {} PROVE FALSE
  OBVIOUS
<1>1. PICK T \in Bad : \A U \in SUBSET T : U # T => U \notin Bad
  <2>1. Bad \in SUBSET (SUBSET S)
    OBVIOUS
  <2> HIDE DEF Bad
  <2> QED
    BY <2>1, LeastSubset
<1>2. \A U \in SUBSET T : U # T => \E h : SumsOf(g, U, h)
  BY <1>1
<1>3. ASSUME NEW U \in SUBSET T, U # T
      PROVE  Total(U) = IF U = {} THEN 0 ELSE g[Pick(U)] + Total(U \ {Pick(U)})
  <2> DEFINE k == CHOOSE h : SumsOf(g, U, h)
             W == U \ {Pick(U)}
             l == CHOOSE h : SumsOf(g, W, h)
  <2>1. SumsOf(g, U, k)
    BY <1>2, <1>3
  <2>2. k[U] = IF U = {} THEN 0 ELSE g[Pick(U)] + k[W]
    BY <2>1 DEF SumsOf
  <2>3. W \in SUBSET T /\ W # T
    BY <1>3
  <2>4. SumsOf(g, W, l)
    BY <1>2, <2>3
  <2>5. IsFiniteSet(W)
    BY <2>3, FS_Subset
  <2>6. k[W] = l[W]
    <3> HIDE DEF k, l
    <3>1. W \subseteq U /\ W \subseteq W
      OBVIOUS
    <3> HIDE DEF W
    <3> QED
      BY <2>1, <2>4, <2>5, <3>1, SumsAgree
  <2>7. Total(U) = k[U] /\ Total(W) = l[W]
    BY SumIsChosen
  <2> QED
    BY <2>2, <2>6, <2>7
<1> DEFINE f == [s \in SUBSET T |-> IF s = {} THEN 0
                                     ELSE g[Pick(s)] + Total(s \ {Pick(s)})]
<1>4. SumsOf(g, T, f)
  <2> HIDE DEF Total
  <2>1. ASSUME NEW s \in SUBSET T, s # {}
        PROVE  f[s \ {Pick(s)}] = Total(s \ {Pick(s)})
    <3> DEFINE U == s \ {Pick(s)}
    <3>1. U \in SUBSET T /\ U # T
      BY <2>1, PickIsMember
    <3>2. f[U] = IF U = {} THEN 0 ELSE g[Pick(U)] + Total(U \ {Pick(U)})
      BY <3>1
    <3> HIDE DEF U, f
    <3>3. f[U] = Total(U)
      BY <1>3, <3>1, <3>2
    <3> QED
      BY <3>3 DEF U
  <2>2. \A s \in SUBSET T :
          f[s] = IF s = {} THEN 0 ELSE g[Pick(s)] + f[s \ {Pick(s)}]
    BY <2>1
  <2>3. f = [s \in SUBSET T |-> f[s]]
    OBVIOUS
  <2> HIDE DEF f
  <2>4. f = [s \in SUBSET T |-> IF s = {} THEN 0 ELSE g[Pick(s)] + f[s \ {Pick(s)}]]
    BY <2>2, <2>3
  <2> QED
    BY <2>4 DEF SumsOf
<1> QED
  BY <1>1, <1>4

LEMMA SumEmpty == ASSUME NEW g PROVE SumFunctionOnSet(g, {}) = 0
<1> DEFINE k == CHOOSE h : SumsOf(g, {}, h)
<1>1. SumsOf(g, {}, k)
  BY FS_EmptySet, SumsExist
<1> HIDE DEF k
<1>2. k[{}] = 0
  BY <1>1 DEF SumsOf
<1> QED
  BY <1>2, SumIsChosen DEF k

LEMMA SumIsSum ==
  ASSUME NEW g, NEW S, IsFiniteSet(S), NEW A, S \subseteq A,
         NEW h, SumsOf(g, A, h)
  PROVE  SumFunctionOnSet(g, S) = h[S]
<1> DEFINE k == CHOOSE l : SumsOf(g, S, l)
<1>1. SumsOf(g, S, k)
  BY SumsExist
<1>2. SumFunctionOnSet(g, S) = k[S]
  BY SumIsChosen
<1> HIDE DEF k
<1>3. S \subseteq S
  OBVIOUS
<1>4. k[S] = h[S]
  BY <1>1, <1>3, SumsAgree
<1> QED
  BY <1>2, <1>4

LEMMA SumPick ==
  ASSUME NEW g, NEW S, IsFiniteSet(S), S # {}
  PROVE  SumFunctionOnSet(g, S)
           = g[Pick(S)] + SumFunctionOnSet(g, S \ {Pick(S)})
<1>1. IsFiniteSet(S \ {Pick(S)}) /\ S \ {Pick(S)} \subseteq S /\ S \subseteq S
  BY FS_Subset
<1>2. PICK h : SumsOf(g, S, h)
  BY SumsExist
<1>3. h[S] = g[Pick(S)] + h[S \ {Pick(S)}]
  BY <1>2 DEF SumsOf
<1>4. SumFunctionOnSet(g, S) = h[S]
  BY <1>1, <1>2, SumIsSum
<1>5. SumFunctionOnSet(g, S \ {Pick(S)}) = h[S \ {Pick(S)}]
  BY <1>1, <1>2, SumIsSum
<1> QED
  BY <1>3, <1>4, <1>5

LEMMA SumType ==
  ASSUME NEW g, NEW S, IsFiniteSet(S), \A x \in S : g[x] \in Int
  PROVE  SumFunctionOnSet(g, S) \in Int
<1> DEFINE Bad == {T \in SUBSET S : SumFunctionOnSet(g, T) \notin Int}
<1> SUFFICES ASSUME Bad # {} PROVE FALSE
  OBVIOUS
<1>1. PICK T \in Bad : \A U \in SUBSET T : U # T => U \notin Bad
  <2>1. Bad \in SUBSET (SUBSET S)
    OBVIOUS
  <2> HIDE DEF Bad
  <2> QED
    BY <2>1, LeastSubset
<1>2. T # {}
  BY SumEmpty
<1>3. Pick(T) \in T /\ IsFiniteSet(T)
  BY <1>2, PickIsMember, FS_Subset
<1>4. SumFunctionOnSet(g, T) = g[Pick(T)] + SumFunctionOnSet(g, T \ {Pick(T)})
  BY <1>2, <1>3, SumPick
<1>5. SumFunctionOnSet(g, T \ {Pick(T)}) \in Int
  BY <1>1, <1>3
<1> QED
  BY <1>3, <1>4, <1>5

\* Any element may be taken out first.
LEMMA SumRemove ==
  ASSUME NEW g, NEW S, IsFiniteSet(S), \A x \in S : g[x] \in Int, NEW a \in S
  PROVE  SumFunctionOnSet(g, S) = g[a] + SumFunctionOnSet(g, S \ {a})
<1> DEFINE Total(s) == SumFunctionOnSet(g, s)
           Bad == {T \in SUBSET S : \E x \in T : Total(T) # g[x] + Total(T \ {x})}
<1> SUFFICES ASSUME Bad # {} PROVE FALSE
  OBVIOUS
<1>1. PICK T \in Bad : \A U \in SUBSET T : U # T => U \notin Bad
  <2>1. Bad \in SUBSET (SUBSET S)
    OBVIOUS
  <2> HIDE DEF Bad
  <2> QED
    BY <2>1, LeastSubset
<1>2. PICK x \in T : Total(T) # g[x] + Total(T \ {x})
  OBVIOUS
<1> DEFINE y == Pick(T)
<1>3. y \in T /\ IsFiniteSet(T)
  BY <1>2, PickIsMember, FS_Subset
<1>4. Total(T) = g[y] + Total(T \ {y})
  BY <1>2, <1>3, SumPick
<1>5. x # y
  BY <1>2, <1>4
<1>6. \A U \in SUBSET S : Total(U) \in Int
  BY FS_Subset, SumType
<1> HIDE DEF Total, y
<1>7. Total(T \ {y}) = g[x] + Total((T \ {y}) \ {x})
  <2>1. T \ {y} \in SUBSET T /\ T \ {y} # T /\ x \in T \ {y}
    BY <1>3, <1>5
  <2> QED
    BY <1>1, <2>1
<1>8. Total(T \ {x}) = g[y] + Total((T \ {x}) \ {y})
  <2>1. T \ {x} \in SUBSET T /\ T \ {x} # T /\ y \in T \ {x}
    BY <1>3, <1>5
  <2> QED
    BY <1>1, <2>1
<1> DEFINE rest == Total((T \ {x}) \ {y})
<1>9. Total((T \ {y}) \ {x}) = rest
  <2>1. (T \ {y}) \ {x} = (T \ {x}) \ {y}
    OBVIOUS
  <2> QED
    BY <2>1
<1>10. g[x] \in Int /\ g[y] \in Int /\ rest \in Int
  BY <1>3, <1>6
<1>11. Total(T) = g[y] + (g[x] + rest) /\ Total(T \ {x}) = g[y] + rest
  BY <1>4, <1>7, <1>8, <1>9, Zenon
<1> HIDE DEF rest
<1> QED
  BY <1>2, <1>10, <1>11

LEMMA SumAdd ==
  ASSUME NEW g, NEW S, IsFiniteSet(S), NEW a, a \notin S,
         \A x \in S \cup {a} : g[x] \in Int
  PROVE  SumFunctionOnSet(g, S \cup {a}) = SumFunctionOnSet(g, S) + g[a]
<1>1. IsFiniteSet(S \cup {a})
  BY FS_AddElement
<1>2. (S \cup {a}) \ {a} = S
  OBVIOUS
<1>3. SumFunctionOnSet(g, S \cup {a}) = g[a] + SumFunctionOnSet(g, (S \cup {a}) \ {a})
  <2> DEFINE W == S \cup {a}
  <2>1. IsFiniteSet(W) /\ a \in W /\ \A x \in W : g[x] \in Int
    BY <1>1
  <2> HIDE DEF W
  <2>2. SumFunctionOnSet(g, W) = g[a] + SumFunctionOnSet(g, W \ {a})
    BY <2>1, SumRemove
  <2> QED
    BY <2>2 DEF W
<1>4. SumFunctionOnSet(g, S) \in Int /\ g[a] \in Int
  BY SumType
<1>5. SumFunctionOnSet(g, S \cup {a}) = g[a] + SumFunctionOnSet(g, S)
  BY <1>2, <1>3
<1> QED
  BY <1>4, <1>5

\* A sum is that of the values on the set.
LEMMA SumSame ==
  ASSUME NEW g, NEW f, NEW S, IsFiniteSet(S), \A x \in S : g[x] = f[x]
  PROVE  SumFunctionOnSet(g, S) = SumFunctionOnSet(f, S)
<1> DEFINE Bad == {T \in SUBSET S : SumFunctionOnSet(g, T) # SumFunctionOnSet(f, T)}
<1> SUFFICES ASSUME Bad # {} PROVE FALSE
  OBVIOUS
<1>1. PICK T \in Bad : \A U \in SUBSET T : U # T => U \notin Bad
  <2>1. Bad \in SUBSET (SUBSET S)
    OBVIOUS
  <2> HIDE DEF Bad
  <2> QED
    BY <2>1, LeastSubset
<1>2. T # {}
  BY SumEmpty
<1>3. Pick(T) \in T /\ IsFiniteSet(T)
  BY <1>2, PickIsMember, FS_Subset
<1>4. /\ SumFunctionOnSet(g, T) = g[Pick(T)] + SumFunctionOnSet(g, T \ {Pick(T)})
      /\ SumFunctionOnSet(f, T) = f[Pick(T)] + SumFunctionOnSet(f, T \ {Pick(T)})
  BY <1>2, <1>3, SumPick
<1>5. SumFunctionOnSet(g, T \ {Pick(T)}) = SumFunctionOnSet(f, T \ {Pick(T)})
  BY <1>1, <1>3
<1> QED
  BY <1>3, <1>4, <1>5

\* A sum of natural numbers is one.
LEMMA SumNat ==
  ASSUME NEW g, NEW S, IsFiniteSet(S), \A x \in S : g[x] \in Nat
  PROVE  SumFunctionOnSet(g, S) \in Nat
<1> DEFINE Bad == {T \in SUBSET S : SumFunctionOnSet(g, T) \notin Nat}
<1> SUFFICES ASSUME Bad # {} PROVE FALSE
  OBVIOUS
<1>1. PICK T \in Bad : \A U \in SUBSET T : U # T => U \notin Bad
  <2>1. Bad \in SUBSET (SUBSET S)
    OBVIOUS
  <2> HIDE DEF Bad
  <2> QED
    BY <2>1, LeastSubset
<1>2. T # {}
  BY SumEmpty
<1>3. Pick(T) \in T /\ IsFiniteSet(T)
  BY <1>2, PickIsMember, FS_Subset
<1>4. SumFunctionOnSet(g, T) = g[Pick(T)] + SumFunctionOnSet(g, T \ {Pick(T)})
  BY <1>2, <1>3, SumPick
<1>5. SumFunctionOnSet(g, T \ {Pick(T)}) \in Nat
  BY <1>1, <1>3
<1> QED
  BY <1>3, <1>4, <1>5

\* A sum is at most that of values at least as large.
LEMMA SumLeq ==
  ASSUME NEW g, NEW f, NEW S, IsFiniteSet(S),
         \A x \in S : g[x] \in Int /\ f[x] \in Int /\ g[x] <= f[x]
  PROVE  SumFunctionOnSet(g, S) <= SumFunctionOnSet(f, S)
<1> DEFINE Bad == {T \in SUBSET S : ~(SumFunctionOnSet(g, T) <= SumFunctionOnSet(f, T))}
<1> SUFFICES ASSUME Bad # {} PROVE FALSE
  OBVIOUS
<1>1. PICK T \in Bad : \A U \in SUBSET T : U # T => U \notin Bad
  <2>1. Bad \in SUBSET (SUBSET S)
    OBVIOUS
  <2> HIDE DEF Bad
  <2> QED
    BY <2>1, LeastSubset
<1>2. T # {}
  BY SumEmpty
<1>3. Pick(T) \in T /\ IsFiniteSet(T) /\ IsFiniteSet(T \ {Pick(T)})
  BY <1>2, PickIsMember, FS_Subset
<1>4. /\ SumFunctionOnSet(g, T) = g[Pick(T)] + SumFunctionOnSet(g, T \ {Pick(T)})
      /\ SumFunctionOnSet(f, T) = f[Pick(T)] + SumFunctionOnSet(f, T \ {Pick(T)})
  BY <1>2, <1>3, SumPick
<1>5. SumFunctionOnSet(g, T \ {Pick(T)}) <= SumFunctionOnSet(f, T \ {Pick(T)})
  BY <1>1, <1>3
<1>6. /\ SumFunctionOnSet(g, T \ {Pick(T)}) \in Int
      /\ SumFunctionOnSet(f, T \ {Pick(T)}) \in Int
  BY <1>3, SumType
<1> QED
  BY <1>3, <1>4, <1>5, <1>6
=============================================================================
