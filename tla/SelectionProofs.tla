--------------------------- MODULE SelectionProofs ---------------------------
(***************************************************************************)
(* Facts about Selection, for sequences and sets of any size.  The library *)
(* states induction over an operator; here it is over a set, the numbers   *)
(* that have the property, and rests on the well-foundedness of strict     *)
(* inclusion.                                                              *)
(***************************************************************************)
EXTENDS Selection, FiniteSetTheorems, TLAPS

-----------------------------------------------------------------------------
(* Induction.                                                               *)

\* Every set of finite sets has a member that strictly contains no other.
LEMMA MinimalMember ==
    ASSUME NEW U, NEW F \in SUBSET FiniteSubsetsOf(U), F # {}
    PROVE  \E x \in F : \A y \in F : ~(y \subseteq x /\ y # x)
<1> DEFINE R == StrictSubsetOrdering(U)
<1>1. \E x \in F : \A y \in F : << y, x >> \notin R
  <2> HIDE DEF R
  <2>1. IsWellFoundedOn(R, FiniteSubsetsOf(U))
    BY FS_StrictSubsetOrderingWellFounded DEF R
  <2> QED
    BY <2>1, WFMin
<1>2. \A x, y \in F : x \in SUBSET U /\ y \in SUBSET U
  BY DEF FiniteSubsetsOf
<1> QED
  BY <1>1, <1>2 DEF StrictSubsetOrdering

\* Every set of natural numbers has a least one.
LEMMA Least ==
    ASSUME NEW T \in SUBSET Nat, T # {}
    PROVE  \E n \in T : \A m \in T : n <= m
<1> DEFINE Interval(n) == 0 .. n
           Intervals == {Interval(n) : n \in T}
<1>1. ASSUME NEW n \in T PROVE Interval(n) \in FiniteSubsetsOf(Nat)
  <2>1. IsFiniteSet(0 .. n)
    BY FS_Interval
  <2> QED
    BY <2>1 DEF FiniteSubsetsOf
<1>2. Intervals \in SUBSET FiniteSubsetsOf(Nat) /\ Intervals # {}
  BY <1>1
<1>3. \E x \in Intervals : \A y \in Intervals : ~(y \subseteq x /\ y # x)
  <2> HIDE DEF Intervals
  <2> QED
    BY <1>2, MinimalMember
<1>4. PICK n \in T : \A m \in T : ~(Interval(m) \subseteq Interval(n) /\ Interval(m) # Interval(n))
  <2> HIDE DEF Interval
  <2> QED
    BY <1>3
<1>5. ASSUME NEW m \in T, m < n PROVE FALSE
  <2>1. Interval(m) \subseteq Interval(n) /\ n \in Interval(n) /\ n \notin Interval(m)
    BY <1>5
  <2> QED
    BY <1>4, <2>1
<1> QED
  BY <1>4, <1>5

\* A set that has 0 and with each number below N the next has all up to N.
LEMMA Induction ==
    ASSUME NEW N \in Nat, NEW G, 0 \in G, \A n \in 0 .. N - 1 : n \in G => n + 1 \in G
    PROVE  \A n \in 0 .. N : n \in G
<1> DEFINE T == {n \in 0 .. N : n \notin G}
<1> SUFFICES ASSUME T # {} PROVE FALSE
  OBVIOUS
<1>1. T \in SUBSET Nat
  OBVIOUS
<1>2. PICK n \in T : \A m \in T : n <= m
  <2> HIDE DEF T
  <2> QED
    BY <1>1, Least
<1>3. n # 0 /\ n - 1 \in 0 .. N - 1 /\ n - 1 \notin T
  BY <1>2
<1> QED
  BY <1>2, <1>3

\* A function on 1 .. L with one more value.
Extended(f, L, x) == [n \in 1 .. L + 1 |-> IF n = L + 1 THEN x ELSE f[n]]

Extends(g, f, L, x, T, U) ==
    /\ g \in [1 .. L + 1 -> U]
    /\ g[L + 1] = x
    /\ \A n \in 1 .. L : g[n] = f[n] /\ f[n] \in T
    /\ \A n \in 1 .. L + 1 : n = L + 1 \/ n \in 1 .. L

LEMMA ExtendedBy ==
    ASSUME NEW L \in Nat, NEW T, NEW f \in [1 .. L -> T], NEW x, NEW U, T \subseteq U, x \in U
    PROVE  Extends(Extended(f, L, x), f, L, x, T, U)
<1>1. \A n \in 1 .. L + 1 : n = L + 1 \/ n \in 1 .. L
  OBVIOUS
<1>2. L + 1 \in 1 .. L + 1 /\ \A n \in 1 .. L : n \in 1 .. L + 1 /\ n # L + 1
  OBVIOUS
<1> QED
  BY <1>1, <1>2 DEF Extended, Extends

-----------------------------------------------------------------------------
(* Selected.                                                                *)

\* One step of the recursion.
StepAt(f, n, s, keep) ==
    IF n = 0 THEN << >>
    ELSE IF n \in keep THEN Append(f[n - 1], s[n]) ELSE f[n - 1]

\* What the recursion computes for every prefix up to N.
Computes(f, N, s, keep) == f = [n \in 0 .. N |-> StepAt(f, n, s, keep)]

LEMMA ComputesUnfold ==
    ASSUME NEW f, NEW N, NEW s, NEW keep, Computes(f, N, s, keep), NEW n \in 0 .. N
    PROVE  f[n] = StepAt(f, n, s, keep)
<1> DEFINE S(k) == StepAt(f, k, s, keep)
<1>1. f = [k \in 0 .. N |-> S(k)]
  BY DEF Computes
<1> HIDE DEF S
<1>2. f[n] = S(n)
  BY <1>1
<1> QED
  BY <1>2 DEF S

LEMMA ComputesExist ==
    ASSUME NEW s, NEW keep, NEW N \in Nat
    PROVE  \E f : Computes(f, N, s, keep)
<1> DEFINE G == {k \in 0 .. N : \E f : Computes(f, k, s, keep)}
<1>1. 0 \in G
  <2> DEFINE f == [n \in 0 .. 0 |-> << >>]
  <2>1. f = [n \in 0 .. 0 |-> StepAt(f, n, s, keep)]
    BY DEF StepAt
  <2> QED
    BY <2>1 DEF Computes
<1>2. ASSUME NEW k \in 0 .. N - 1, k \in G PROVE k + 1 \in G
  <2>1. PICK f : f = [n \in 0 .. k |-> StepAt(f, n, s, keep)]
    BY <1>2 DEF Computes
  <2> DEFINE g == [n \in 0 .. k + 1 |-> IF n = k + 1 THEN StepAt(f, n, s, keep) ELSE f[n]]
  <2>2. ASSUME NEW n \in 0 .. k + 1 PROVE g[n] = StepAt(g, n, s, keep)
    <3>1. g[n] = StepAt(f, n, s, keep)
      BY <2>1
    <3>2. CASE n = 0
      BY <3>1, <3>2 DEF StepAt
    <3>3. CASE n # 0
      <4>1. g[n - 1] = f[n - 1]
        BY <3>3
      <4> HIDE DEF g
      <4> QED
        BY <3>1, <3>3, <4>1 DEF StepAt
    <3> QED
      BY <3>2, <3>3
  <2>3. Computes(g, k + 1, s, keep)
    BY <2>2 DEF Computes
  <2> HIDE DEF g
  <2> QED
    BY <1>2, <2>3
<1> HIDE DEF G
<1>3. N \in G
  BY <1>1, <1>2, Induction
<1> QED
  BY <1>3 DEF G

LEMMA SelectedIsLast ==
    ASSUME NEW s, NEW keep, Len(s) \in Nat
    PROVE  \E f : Computes(f, Len(s), s, keep) /\ Selected(s, keep) = f[Len(s)]
<1> DEFINE upTo == CHOOSE f : f = [n \in 0 .. Len(s) |-> StepAt(f, n, s, keep)]
<1>1. \E f : f = [n \in 0 .. Len(s) |-> StepAt(f, n, s, keep)]
  BY ComputesExist DEF Computes
<1>2. upTo = [n \in 0 .. Len(s) |-> StepAt(upTo, n, s, keep)]
  BY <1>1, Zenon
<1>3. Selected(s, keep) = upTo[Len(s)]
  BY Zenon DEF Selected, StepAt
<1> HIDE DEF upTo
<1> QED
  BY <1>2, <1>3 DEF Computes

\* Two recursions over what is the same up to N agree up to N.
LEMMA ComputesAgree ==
    ASSUME NEW N \in Nat, NEW M \in Nat, N <= M,
           NEW s, NEW t, \A n \in 1 .. N : s[n] = t[n],
           NEW keep, NEW kept, \A n \in 1 .. N : n \in keep <=> n \in kept,
           NEW f, Computes(f, N, s, keep), NEW g, Computes(g, M, t, kept)
    PROVE  f[N] = g[N]
<1> DEFINE G == {n \in 0 .. N : f[n] = g[n]}
<1>0. /\ \A n \in 0 .. N : f[n] = StepAt(f, n, s, keep)
      /\ \A n \in 0 .. N : g[n] = StepAt(g, n, t, kept)
  BY ComputesUnfold
<1>1. 0 \in G
  BY <1>0 DEF StepAt
<1>2. ASSUME NEW n \in 0 .. N - 1, n \in G PROVE n + 1 \in G
  <2>1. f[n] = g[n] /\ n + 1 \in 1 .. N /\ (n + 1) - 1 = n
    BY <1>2
  <2>2. f[n + 1] = StepAt(f, n + 1, s, keep) /\ g[n + 1] = StepAt(g, n + 1, t, kept)
    BY <1>0, <2>1
  <2>3. StepAt(f, n + 1, s, keep) = StepAt(g, n + 1, t, kept)
    BY <2>1 DEF StepAt
  <2> QED
    BY <2>1, <2>2, <2>3
<1> HIDE DEF G
<1>3. N \in G
  BY <1>1, <1>2, Induction
<1> QED
  BY <1>3 DEF G

\* Nothing is selected from nothing.
LEMMA SelectedEmpty ==
    ASSUME NEW keep
    PROVE  Selected(<< >>, keep) = << >>
<1>1. PICK f : Computes(f, 0, << >>, keep) /\ Selected(<< >>, keep) = f[0]
  BY SelectedIsLast
<1> QED
  BY <1>1 DEF Computes, StepAt

\* Only what keep says of the positions of s matters.
LEMMA SelectedSame ==
    ASSUME NEW S, NEW s \in Seq(S), NEW keep, NEW kept,
           \A n \in 1 .. Len(s) : n \in keep <=> n \in kept
    PROVE  Selected(s, keep) = Selected(s, kept)
<1>1. Len(s) \in Nat
  OBVIOUS
<1>2. PICK f : Computes(f, Len(s), s, keep) /\ Selected(s, keep) = f[Len(s)]
  BY <1>1, SelectedIsLast
<1>3. PICK g : Computes(g, Len(s), s, kept) /\ Selected(s, kept) = g[Len(s)]
  BY <1>1, SelectedIsLast
<1> QED
  BY <1>1, <1>2, <1>3, ComputesAgree

\* One more element.
LEMMA SelectedAppend ==
    ASSUME NEW S, NEW s \in Seq(S), NEW e \in S, NEW keep
    PROVE  Selected(Append(s, e), keep) =
              IF Len(s) + 1 \in keep THEN Append(Selected(s, keep), e) ELSE Selected(s, keep)
<1> DEFINE t == Append(s, e)
           N == Len(s)
<1>1. N \in Nat /\ Len(t) = N + 1 /\ t[N + 1] = e /\ \A n \in 1 .. N : s[n] = t[n]
  OBVIOUS
<1> HIDE DEF t, N
<1>2. PICK f : Computes(f, N, s, keep) /\ Selected(s, keep) = f[N]
  BY <1>1, SelectedIsLast DEF N
<1>3. PICK g : Computes(g, N + 1, t, keep) /\ Selected(t, keep) = g[N + 1]
  BY <1>1, SelectedIsLast
<1>4. f[N] = g[N]
  BY <1>1, <1>2, <1>3, ComputesAgree
<1>5. g[N + 1] = StepAt(g, N + 1, t, keep) /\ (N + 1) - 1 = N /\ N + 1 # 0
  BY <1>1, <1>3, ComputesUnfold
<1>6. Selected(t, keep) = IF N + 1 \in keep THEN Append(Selected(s, keep), e) ELSE Selected(s, keep)
  BY <1>1, <1>2, <1>3, <1>4, <1>5 DEF StepAt
<1> QED
  BY <1>6 DEF t, N

\* Selection from a sequence with one more element.
LEMMA SelectedGrows ==
    ASSUME NEW S, NEW s \in Seq(S), NEW e \in S, NEW keep, NEW kept,
           \A n \in 1 .. Len(s) : n \in keep <=> n \in kept
    PROVE  Selected(s \o << e >>, kept) =
              IF Len(s) + 1 \in kept THEN Append(Selected(s, keep), e) ELSE Selected(s, keep)
<1>1. s \o << e >> = Append(s, e)
  OBVIOUS
<1>2. Selected(s, keep) = Selected(s, kept)
  BY SelectedSame
<1>3. Selected(Append(s, e), kept) =
         IF Len(s) + 1 \in kept THEN Append(Selected(s, kept), e) ELSE Selected(s, kept)
  BY SelectedAppend
<1> QED
  BY <1>1, <1>2, <1>3, Zenon

\* r has the elements of s at the positions in keep up to N: p[k] is the
\* position of its element k.
Picks(p, r, s, keep, N) ==
    /\ p \in [1 .. Len(r) -> 1 .. N]
    /\ \A k \in 1 .. Len(r) : p[k] \in keep /\ r[k] = s[p[k]]
    /\ \A j, k \in 1 .. Len(r) : j < k => p[j] < p[k]
    /\ \A n \in 1 .. N : n \in keep => \E k \in 1 .. Len(r) : p[k] = n

\* Selected has the elements at the positions in keep and no others, in order.
LEMMA SelectedPositions ==
    ASSUME NEW S, NEW s \in Seq(S), NEW keep
    PROVE  /\ Selected(s, keep) \in Seq(S)
           /\ \E p : Picks(p, Selected(s, keep), s, keep, Len(s))
<1>1. Len(s) \in Nat /\ \A n \in 1 .. Len(s) : s[n] \in S
  OBVIOUS
<1>2. PICK f : Computes(f, Len(s), s, keep) /\ Selected(s, keep) = f[Len(s)]
  BY <1>1, SelectedIsLast
<1> DEFINE N == Len(s)
           G == {n \in 0 .. N : f[n] \in Seq(S) /\ \E p : Picks(p, f[n], s, keep, n)}
<1> HIDE DEF N
<1>3. 0 \in G
  <2>1. f[0] = << >>
    BY <1>1, <1>2, ComputesUnfold DEF StepAt, N
  <2>2. Picks(<< >>, << >>, s, keep, 0)
    BY DEF Picks
  <2>3. f[0] \in Seq(S) /\ \E p : Picks(p, f[0], s, keep, 0)
    BY <2>1, <2>2
  <2> QED
    BY <1>1, <2>3 DEF N
<1>4. ASSUME NEW n \in 0 .. N - 1, n \in G PROVE n + 1 \in G
  <2>1. PICK p : Picks(p, f[n], s, keep, n)
    BY <1>4
  <2>2. n \in Nat /\ n + 1 \in 1 .. N /\ (n + 1) - 1 = n /\ f[n] \in Seq(S) /\ s[n + 1] \in S
    BY <1>1, <1>4 DEF N
  <2>3. f[n + 1] = StepAt(f, n + 1, s, keep)
    BY <1>2, <2>2, ComputesUnfold DEF N
  <2>4. CASE n + 1 \notin keep
    <3>1. f[n + 1] = f[n]
      BY <2>2, <2>3, <2>4 DEF StepAt
    <3>2. Picks(p, f[n], s, keep, n + 1)
      BY <2>1, <2>2, <2>4 DEF Picks
    <3> QED
      BY <2>2, <3>1, <3>2
  <2>5. CASE n + 1 \in keep
    <3> DEFINE r == f[n]
               L == Len(r)
               t == Append(r, s[n + 1])
               q == Extended(p, L, n + 1)
    <3>1. f[n + 1] = t
      BY <2>2, <2>3, <2>5 DEF StepAt
    <3>2. /\ t \in Seq(S) /\ L \in Nat /\ Len(t) = L + 1
          /\ t[L + 1] = s[n + 1] /\ \A k \in 1 .. L : t[k] = r[k]
      BY <2>2
    <3>3. /\ p \in [1 .. L -> 1 .. n]
          /\ \A k \in 1 .. L : p[k] \in keep /\ r[k] = s[p[k]]
          /\ \A j, k \in 1 .. L : j < k => p[j] < p[k]
          /\ \A m \in 1 .. n : m \in keep => \E k \in 1 .. L : p[k] = m
      BY <2>1 DEF Picks
    <3> HIDE DEF t, r, L
    <3>4. /\ q \in [1 .. L + 1 -> 1 .. n + 1] /\ q[L + 1] = n + 1
          /\ \A k \in 1 .. L : q[k] = p[k] /\ p[k] \in 1 .. n
          /\ \A k \in 1 .. L + 1 : k = L + 1 \/ k \in 1 .. L
      <4>1. 1 .. n \subseteq 1 .. n + 1 /\ n + 1 \in 1 .. n + 1
        BY <2>2
      <4>2. p \in [1 .. L -> 1 .. n] /\ L \in Nat
        BY <3>2, <3>3
      <4>3. Extends(q, p, L, n + 1, 1 .. n, 1 .. n + 1)
        BY <4>1, <4>2, ExtendedBy
      <4> HIDE DEF q
      <4> QED
        BY <4>3 DEF Extends
    <3> HIDE DEF q
    <3>5. /\ L + 1 \in 1 .. L + 1
          /\ \A k \in 1 .. L : k \in 1 .. L + 1
          /\ \A m \in 1 .. n + 1 : m = n + 1 \/ m \in 1 .. n
      BY <2>2, <3>2
    <3>6. ASSUME NEW k \in 1 .. L + 1 PROVE q[k] \in keep /\ t[k] = s[q[k]]
      BY <2>5, <3>2, <3>3, <3>4
    <3>7. ASSUME NEW j \in 1 .. L + 1, NEW k \in 1 .. L + 1, j < k PROVE q[j] < q[k]
      <4>1. j \in 1 .. L
        BY <3>2, <3>4, <3>7
      <4>2. CASE k \in 1 .. L
        BY <3>3, <3>4, <3>7, <4>1, <4>2
      <4>3. CASE k = L + 1
        BY <2>2, <3>4, <4>1, <4>3
      <4> QED
        BY <3>4, <4>2, <4>3
    <3>8. ASSUME NEW m \in 1 .. n + 1, m \in keep PROVE \E k \in 1 .. L + 1 : q[k] = m
      BY <3>3, <3>4, <3>5, <3>8
    <3>9. Picks(q, t, s, keep, n + 1)
      BY <3>2, <3>4, <3>6, <3>7, <3>8 DEF Picks
    <3> QED
      BY <2>2, <3>1, <3>2, <3>9
  <2> QED
    BY <2>4, <2>5
<1> HIDE DEF G
<1>5. N \in Nat
  BY <1>1 DEF N
<1>6. \A n \in 0 .. N : n \in G
  BY <1>3, <1>4, <1>5, Induction, Zenon
<1>7. N \in G
  BY <1>5, <1>6
<1> QED
  BY <1>2, <1>7 DEF G, N

LEMMA BeginningAgrees ==
    ASSUME NEW L \in Nat, NEW M \in Nat, L <= M, NEW s, NEW x, \A n \in 1 .. L : s[n] = x[n],
           NEW keep, NEW h, Computes(h, L, s, keep), NEW f, Computes(f, M, x, keep)
    PROVE  h[L] = f[L]
BY ComputesAgree

JoinedAppend(S) == \A a, b \in Seq(S) : \A e \in S : Append(a \o b, e) = a \o Append(b, e)

LEMMA AppendJoined == ASSUME NEW S PROVE JoinedAppend(S)
<1> SUFFICES ASSUME NEW a \in Seq(S), NEW b \in Seq(S), NEW e \in S
             PROVE  Append(a \o b, e) = a \o Append(b, e)
  BY DEF JoinedAppend
<1> QED
  OBVIOUS

\* Selection from one sequence after the other.
LEMMA SelectedJoined ==
    ASSUME NEW S, NEW s \in Seq(S), NEW u \in Seq(S), NEW keep, NEW kept,
           \A n \in 1 .. Len(u) : n \in kept <=> Len(s) + n \in keep
    PROVE  Selected(s \o u, keep) = Selected(s, keep) \o Selected(u, kept)
<1> DEFINE x == s \o u
           L == Len(s)
           N == Len(u)
<1>0. JoinedAppend(S)
  BY AppendJoined
<1>1. L \in Nat /\ N \in Nat /\ Len(x) = L + N /\ x \in Seq(S)
  OBVIOUS
<1>2. \A n \in 1 .. L : s[n] = x[n]
  OBVIOUS
<1>3. \A n \in 1 .. N : u[n] = x[L + n] /\ u[n] \in S
  OBVIOUS
<1> HIDE DEF x, L, N
<1>4. PICK h : Computes(h, L, s, keep) /\ Selected(s, keep) = h[L]
  BY <1>1, SelectedIsLast DEF L
<1>5. PICK f : Computes(f, L + N, x, keep) /\ Selected(x, keep) = f[L + N]
  <2>1. Len(x) \in Nat
    BY <1>1
  <2>2. \E f : Computes(f, Len(x), x, keep) /\ Selected(x, keep) = f[Len(x)]
    BY <2>1, SelectedIsLast
  <2> QED
    BY <1>1, <2>2
<1>6. PICK g : Computes(g, N, u, kept) /\ Selected(u, kept) = g[N]
  BY <1>1, SelectedIsLast DEF N
<1>7. f[L] = h[L]
  <2>1. L + N \in Nat /\ L <= L + N
    BY <1>1
  <2>2. h[L] = f[L]
    BY <1>1, <1>2, <1>4, <1>5, <2>1, BeginningAgrees
  <2> QED
    BY <2>2
<1>8. h[L] \in Seq(S)
  BY <1>4, SelectedPositions
<1> DEFINE G == {n \in 0 .. N : g[n] \in Seq(S) /\ f[L + n] = h[L] \o g[n]}
<1>9. 0 \in G
  <2>1. g[0] = << >> /\ 0 \in 0 .. N /\ L + 0 = L
    BY <1>1, <1>6, ComputesUnfold DEF StepAt
  <2>2. << >> \in Seq(S) /\ h[L] \o << >> = h[L]
    BY <1>8
  <2> QED
    BY <1>7, <2>1, <2>2
<1>10. ASSUME NEW n \in 0 .. N - 1, n \in G PROVE n + 1 \in G
  <2>1. /\ n + 1 \in 1 .. N /\ n + 1 \in 0 .. N /\ L + (n + 1) \in 0 .. L + N
        /\ (n + 1) - 1 = n /\ n + 1 # 0 /\ (L + (n + 1)) - 1 = L + n /\ L + (n + 1) # 0
    BY <1>1
  <2>2. g[n + 1] = StepAt(g, n + 1, u, kept) /\ f[L + (n + 1)] = StepAt(f, L + (n + 1), x, keep)
    BY <1>5, <1>6, <2>1, ComputesUnfold
  <2>3. PICK e : e = u[n + 1] /\ e = x[L + (n + 1)] /\ e \in S
    BY <1>3, <2>1
  <2>4. n + 1 \in kept <=> L + (n + 1) \in keep
    BY <2>1 DEF L, N
  <2>5. g[n] \in Seq(S) /\ f[L + n] = h[L] \o g[n]
    BY <1>10
  <2>6. CASE n + 1 \in kept
    <3>1. g[n + 1] = Append(g[n], e)
      BY <2>1, <2>2, <2>3, <2>6, Zenon DEF StepAt
    <3>2. f[L + (n + 1)] = Append(f[L + n], e)
      BY <2>1, <2>2, <2>3, <2>4, <2>6, Zenon DEF StepAt
    <3>3. PICK a, b : a = h[L] /\ b = g[n] /\ a \in Seq(S) /\ b \in Seq(S)
      BY <1>8, <2>5
    <3>4. Append(b, e) \in Seq(S)
      BY <2>3, <3>3
    <3>5. Append(a \o b, e) = a \o Append(b, e)
      BY <1>0, <2>3, <3>3 DEF JoinedAppend
    <3> QED
      BY <2>1, <2>5, <3>1, <3>2, <3>3, <3>4, <3>5
  <2>7. CASE n + 1 \notin kept
    <3>1. g[n + 1] = g[n]
      BY <2>1, <2>2, <2>7, Zenon DEF StepAt
    <3>2. f[L + (n + 1)] = f[L + n]
      BY <2>1, <2>2, <2>4, <2>7, Zenon DEF StepAt
    <3> QED
      BY <2>1, <2>5, <3>1, <3>2
  <2> QED
    BY <2>6, <2>7
<1> HIDE DEF G
<1>11. \A n \in 0 .. N : n \in G
  BY <1>1, <1>9, <1>10, Induction
<1>12. N \in G
  BY <1>1, <1>11
<1> QED
  BY <1>4, <1>5, <1>6, <1>12 DEF G, x

\* None of its elements, and all of them.
LEMMA SelectedNone ==
    ASSUME NEW S, NEW s \in Seq(S), NEW keep, \A n \in 1 .. Len(s) : n \notin keep
    PROVE  Selected(s, keep) = << >>
<1>1. PICK r : r = Selected(s, keep)
  OBVIOUS
<1>2. PICK p : r \in Seq(S) /\ Picks(p, r, s, keep, Len(s))
  BY <1>1, SelectedPositions
<1>3. \A k \in 1 .. Len(r) : p[k] \in 1 .. Len(s) /\ p[k] \in keep
  BY <1>2 DEF Picks
<1>4. Len(r) = 0
  <2>1. SUFFICES ASSUME Len(r) # 0 PROVE FALSE
    OBVIOUS
  <2>2. 1 \in 1 .. Len(r)
    BY <1>2, <2>1
  <2> QED
    BY <1>3, <2>2
<1> QED
  BY <1>1, <1>2, <1>4

LEMMA SelectedAll ==
    ASSUME NEW S, NEW s \in Seq(S), NEW keep, \A n \in 1 .. Len(s) : n \in keep
    PROVE  Selected(s, keep) = s
<1> DEFINE N == Len(s)
<1>1. N \in Nat /\ \A n \in 1 .. N : s[n] \in S
  OBVIOUS
<1>2. PICK f : Computes(f, N, s, keep) /\ Selected(s, keep) = f[N]
  BY <1>1, SelectedIsLast
<1> DEFINE G == {n \in 0 .. N : f[n] = SubSeq(s, 1, n)}
<1> HIDE DEF N
<1>3. 0 \in G
  <2>1. f[0] = << >> /\ 0 \in 0 .. N
    BY <1>1, <1>2, ComputesUnfold DEF StepAt
  <2>2. SubSeq(s, 1, 0) = << >>
    OBVIOUS
  <2> QED
    BY <2>1, <2>2
<1>4. ASSUME NEW n \in 0 .. N - 1, n \in G PROVE n + 1 \in G
  <2>1. n + 1 \in 1 .. N /\ n + 1 \in 0 .. N /\ (n + 1) - 1 = n /\ n + 1 # 0
    BY <1>1
  <2>2. f[n + 1] = StepAt(f, n + 1, s, keep)
    BY <1>2, <2>1, ComputesUnfold
  <2>3. n + 1 \in keep
    BY <2>1 DEF N
  <2>4. f[n + 1] = Append(f[n], s[n + 1])
    BY <2>1, <2>2, <2>3, Zenon DEF StepAt
  <2>5. SubSeq(s, 1, n + 1) = Append(SubSeq(s, 1, n), s[n + 1])
    BY <1>1, <2>1 DEF N
  <2> QED
    BY <1>4, <2>1, <2>4, <2>5
<1> HIDE DEF G
<1>5. \A n \in 0 .. N : n \in G
  BY <1>1, <1>3, <1>4, Induction
<1>6. N \in G
  BY <1>1, <1>5
<1>7. SubSeq(s, 1, N) = s
  BY DEF N
<1> QED
  BY <1>2, <1>6, <1>7 DEF G

\* The same positions of two sequences of one length give as many elements, and
\* those at one position are from one position.
Parallel(r, q, s, u) ==
    /\ Len(r) = Len(q)
    /\ \A k \in 1 .. Len(r) : \E n \in 1 .. Len(s) : r[k] = s[n] /\ q[k] = u[n]

LEMMA SelectedAlike ==
    ASSUME NEW S, NEW s \in Seq(S), NEW U, NEW u \in Seq(U), Len(s) = Len(u), NEW keep
    PROVE  Parallel(Selected(s, keep), Selected(u, keep), s, u)
<1> DEFINE N == Len(s)
<1>1. N \in Nat /\ N = Len(u)
  OBVIOUS
<1>2. PICK f : Computes(f, N, s, keep) /\ Selected(s, keep) = f[N]
  BY <1>1, SelectedIsLast
<1>3. PICK g : Computes(g, N, u, keep) /\ Selected(u, keep) = g[N]
  <2>1. \E g : Computes(g, Len(u), u, keep) /\ Selected(u, keep) = g[Len(u)]
    BY SelectedIsLast
  <2> QED
    BY <2>1
<1> DEFINE G == {n \in 0 .. N : /\ f[n] \in Seq(S) /\ g[n] \in Seq(U)
                                /\ Parallel(f[n], g[n], s, u)}
<1>4. 0 \in G
  <2>1. f[0] = << >> /\ g[0] = << >> /\ 0 \in 0 .. N
    BY <1>1, <1>2, <1>3, ComputesUnfold DEF StepAt
  <2>2. << >> \in Seq(S) /\ << >> \in Seq(U) /\ Len(<< >>) = 0
    OBVIOUS
  <2>3. Parallel(f[0], g[0], s, u)
    BY <2>1, <2>2 DEF Parallel
  <2> QED
    BY <2>1, <2>2, <2>3
<1>5. ASSUME NEW n \in 0 .. N - 1, n \in G PROVE n + 1 \in G
  <2>1. n + 1 \in 1 .. N /\ n + 1 \in 0 .. N /\ (n + 1) - 1 = n /\ n + 1 # 0
    BY <1>1
  <2>2. f[n + 1] = StepAt(f, n + 1, s, keep) /\ g[n + 1] = StepAt(g, n + 1, u, keep)
    BY <1>2, <1>3, <2>1, ComputesUnfold
  <2>3. PICK a, b : a = f[n] /\ b = g[n] /\ a \in Seq(S) /\ b \in Seq(U) /\ Parallel(a, b, s, u)
    BY <1>5
  <2>4. PICK d, e : d = s[n + 1] /\ e = u[n + 1] /\ d \in S /\ e \in U
    BY <2>1
  <2>5. CASE n + 1 \in keep
    <3>1. f[n + 1] = Append(a, d) /\ g[n + 1] = Append(b, e)
      BY <2>1, <2>2, <2>3, <2>4, <2>5, Zenon DEF StepAt
    <3>2. /\ Append(a, d) \in Seq(S) /\ Len(Append(a, d)) = Len(a) + 1
          /\ \A k \in 1 .. Len(a) : Append(a, d)[k] = a[k]
          /\ Append(a, d)[Len(a) + 1] = d
      BY <2>3, <2>4
    <3>3. /\ Append(b, e) \in Seq(U) /\ Len(Append(b, e)) = Len(b) + 1
          /\ \A k \in 1 .. Len(b) : Append(b, e)[k] = b[k]
          /\ Append(b, e)[Len(b) + 1] = e
      BY <2>3, <2>4
    <3>4. Len(a) = Len(b) /\ Len(a) \in Nat
      BY <2>3 DEF Parallel
    <3>5. Parallel(Append(a, d), Append(b, e), s, u)
      <4>1. ASSUME NEW k \in 1 .. Len(a) + 1
            PROVE  \E m \in 1 .. Len(s) : Append(a, d)[k] = s[m] /\ Append(b, e)[k] = u[m]
        <5>1. CASE k \in 1 .. Len(a)
          BY <2>3, <3>2, <3>3, <3>4, <5>1 DEF Parallel
        <5>2. CASE k = Len(a) + 1
          BY <2>1, <2>4, <3>2, <3>3, <3>4, <5>2
        <5> QED
          BY <3>4, <5>1, <5>2
      <4> QED
        BY <3>2, <3>3, <3>4, <4>1 DEF Parallel
    <3> QED
      BY <2>1, <3>1, <3>2, <3>3, <3>5
  <2>6. CASE n + 1 \notin keep
    <3>1. f[n + 1] = a /\ g[n + 1] = b
      BY <2>1, <2>2, <2>3, <2>6, Zenon DEF StepAt
    <3> QED
      BY <2>1, <2>3, <3>1
  <2> QED
    BY <2>5, <2>6
<1> HIDE DEF G
<1>6. \A n \in 0 .. N : n \in G
  BY <1>1, <1>4, <1>5, Induction
<1>7. N \in G
  BY <1>1, <1>6
<1> QED
  BY <1>2, <1>3, <1>7 DEF G

\* As many elements are selected as there are positions to keep.
LEMMA SelectedCount ==
    ASSUME NEW S, NEW s \in Seq(S), NEW keep
    PROVE  /\ IsFiniteSet({n \in 1 .. Len(s) : n \in keep})
           /\ Len(Selected(s, keep)) = Cardinality({n \in 1 .. Len(s) : n \in keep})
<1> DEFINE r == Selected(s, keep)
           L == Len(r)
           K == {n \in 1 .. Len(s) : n \in keep}
<1>1. r \in Seq(S) /\ \E p : Picks(p, r, s, keep, Len(s))
  BY SelectedPositions
<1>2. L \in Nat
  BY <1>1
<1>3. PICK p : Picks(p, r, s, keep, Len(s))
  BY <1>1
<1> HIDE DEF r, L
<1>4. p \in Bijection(1 .. L, K)
  <2>1. p \in [1 .. L -> K]
    BY <1>3 DEF Picks, L
  <2>2. ASSUME NEW a \in 1 .. L, NEW b \in 1 .. L, p[a] = p[b] PROVE a = b
    <3>1. p[a] \in Nat /\ p[b] \in Nat
      BY <2>1
    <3>2. ~(a < b) /\ ~(b < a)
      BY <1>3, <2>2, <3>1 DEF Picks, L
    <3> QED
      BY <1>2, <3>2
  <2>3. \A n \in K : \E k \in 1 .. L : p[k] = n
    BY <1>3 DEF Picks, L
  <2> HIDE DEF K
  <2> QED
    BY <2>1, <2>2, <2>3 DEF Bijection, Injection, IsInjective, Surjection
<1>5. IsFiniteSet(1 .. L) /\ Cardinality(1 .. L) = L
  BY <1>2, FS_Interval
<1>6. IsFiniteSet(K) /\ Cardinality(K) = L
  <2>1. ExistsBijection(1 .. L, K)
    BY <1>4 DEF ExistsBijection
  <2> HIDE DEF K
  <2> QED
    BY <1>5, <2>1, FS_Bijection
<1> QED
  BY <1>6 DEF L, r

-----------------------------------------------------------------------------
(* Total.                                                                   *)

\* What the recursion computes for every prefix up to N.
Sums(f, N, s) == f = [n \in 0 .. N |-> IF n = 0 THEN 0 ELSE f[n - 1] + s[n]]

LEMMA SumsExist ==
    ASSUME NEW s, NEW N \in Nat
    PROVE  \E f : Sums(f, N, s)
<1> DEFINE G == {k \in 0 .. N : \E f : Sums(f, k, s)}
<1>1. 0 \in G
  <2> DEFINE f == [n \in 0 .. 0 |-> 0]
  <2>1. Sums(f, 0, s)
    BY DEF Sums
  <2> QED
    BY <2>1
<1>2. ASSUME NEW k \in 0 .. N - 1, k \in G PROVE k + 1 \in G
  <2>1. PICK f : f = [n \in 0 .. k |-> IF n = 0 THEN 0 ELSE f[n - 1] + s[n]]
    BY <1>2 DEF Sums
  <2> DEFINE g == [n \in 0 .. k + 1 |-> IF n = k + 1 THEN f[n - 1] + s[n] ELSE f[n]]
  <2>2. ASSUME NEW n \in 0 .. k + 1 PROVE g[n] = IF n = 0 THEN 0 ELSE g[n - 1] + s[n]
    <3>1. g[n] = IF n = 0 THEN 0 ELSE f[n - 1] + s[n]
      BY <2>1
    <3>2. n # 0 => g[n - 1] = f[n - 1]
      OBVIOUS
    <3> HIDE DEF g
    <3> QED
      BY <3>1, <3>2
  <2>3. Sums(g, k + 1, s)
    BY <2>2 DEF Sums
  <2> HIDE DEF g
  <2> QED
    BY <1>2, <2>3
<1> HIDE DEF G
<1>3. N \in G
  BY <1>1, <1>2, Induction
<1> QED
  BY <1>3 DEF G

Adds(f, s) == f[0] = 0 /\ \A n \in 1 .. Len(s) : f[n] = f[n - 1] + s[n]

LEMMA TotalIsLast ==
    ASSUME NEW s, Len(s) \in Nat
    PROVE  \E f : Adds(f, s) /\ Total(s) = f[Len(s)]
<1> DEFINE upTo == CHOOSE f : f = [n \in 0 .. Len(s) |-> IF n = 0 THEN 0 ELSE f[n - 1] + s[n]]
<1>1. \E f : f = [n \in 0 .. Len(s) |-> IF n = 0 THEN 0 ELSE f[n - 1] + s[n]]
  BY SumsExist DEF Sums
<1>2. upTo = [n \in 0 .. Len(s) |-> IF n = 0 THEN 0 ELSE upTo[n - 1] + s[n]]
  BY <1>1, Zenon
<1>3. Total(s) = upTo[Len(s)]
  BY Zenon DEF Total
<1> HIDE DEF upTo
<1>4. upTo[0] = 0
  BY <1>2
<1>5. ASSUME NEW n \in 1 .. Len(s) PROVE upTo[n] = upTo[n - 1] + s[n]
  BY <1>2
<1> QED
  BY <1>3, <1>4, <1>5 DEF Adds

\* A sum of natural numbers is one, and grows with its terms.
LEMMA TotalGrows ==
    ASSUME NEW s \in Seq(Nat), NEW t \in Seq(Nat), Len(s) = Len(t),
           \A n \in 1 .. Len(s) : s[n] <= t[n]
    PROVE  Total(s) \in Nat /\ Total(t) \in Nat /\ Total(s) <= Total(t)
<1> DEFINE N == Len(s)
<1>1. /\ N \in Nat /\ Len(t) = N
      /\ \A n \in 1 .. N : s[n] \in Nat /\ t[n] \in Nat /\ s[n] <= t[n]
  OBVIOUS
<1>2. PICK f : Adds(f, s) /\ Total(s) = f[N]
  BY <1>1, TotalIsLast
<1>3. PICK g : Adds(g, t) /\ Total(t) = g[N]
  BY <1>1, TotalIsLast
<1> HIDE DEF N
<1> DEFINE G == {n \in 0 .. N : f[n] \in Nat /\ g[n] \in Nat /\ f[n] <= g[n]}
<1>4. 0 \in G
  BY <1>1, <1>2, <1>3 DEF Adds
<1>5. ASSUME NEW n \in 0 .. N - 1, n \in G PROVE n + 1 \in G
  <2>1. n + 1 \in 1 .. N /\ (n + 1) - 1 = n /\ n + 1 \in 0 .. N
    BY <1>1
  <2>2. f[n + 1] = f[n] + s[n + 1] /\ g[n + 1] = g[n] + t[n + 1]
    BY <1>1, <1>2, <1>3, <2>1 DEF Adds, N
  <2>3. s[n + 1] \in Nat /\ t[n + 1] \in Nat /\ s[n + 1] <= t[n + 1]
    BY <1>1, <2>1
  <2>4. f[n] \in Nat /\ g[n] \in Nat /\ f[n] <= g[n]
    BY <1>5
  <2>5. f[n + 1] \in Nat /\ g[n + 1] \in Nat /\ f[n + 1] <= g[n + 1]
    <3>1. PICK a, b, c, d : a = f[n] /\ b = g[n] /\ c = s[n + 1] /\ d = t[n + 1]
      OBVIOUS
    <3>2. a \in Nat /\ b \in Nat /\ c \in Nat /\ d \in Nat /\ a <= b /\ c <= d
      BY <2>3, <2>4, <3>1
    <3>3. a + c \in Nat /\ b + d \in Nat /\ a + c <= b + d
      BY <3>2
    <3>4. f[n + 1] = a + c /\ g[n + 1] = b + d
      BY <2>2, <3>1, Zenon
    <3> QED
      BY <3>3, <3>4, Zenon
  <2> QED
    BY <2>1, <2>5
<1>6. N \in G
  <2>1. N \in Nat
    BY <1>1
  <2> HIDE DEF G
  <2>2. \A n \in 0 .. N : n \in G
    BY <2>1, <1>4, <1>5, Induction, Zenon
  <2> QED
    BY <2>1, <2>2
<1> QED
  BY <1>2, <1>3, <1>6

\* The elements of the sets C[1] .. C[N], each with the number of its set.
Pairs(C, N) == UNION {{n} \X C[n] : n \in 1 .. N}

LEMMA PairsOfNext ==
    ASSUME NEW C, NEW n \in Nat, IsFiniteSet(Pairs(C, n)), IsFiniteSet(C[n + 1])
    PROVE  /\ IsFiniteSet(Pairs(C, n + 1))
           /\ Cardinality(Pairs(C, n + 1)) = Cardinality(Pairs(C, n)) + Cardinality(C[n + 1])
<1> DEFINE P == Pairs(C, n)
           Q == {n + 1} \X C[n + 1]
<1>1. Pairs(C, n + 1) = P \cup Q
  BY DEF Pairs
<1>2. P \cap Q = {}
  BY DEF Pairs
<1>3. IsFiniteSet(Q) /\ Cardinality(Q) = Cardinality(C[n + 1])
  <2>1. IsFiniteSet({n + 1}) /\ Cardinality({n + 1}) = 1
    BY FS_Singleton
  <2>2. Cardinality(C[n + 1]) \in Nat
    BY FS_CardinalityType
  <2> QED
    BY <2>1, <2>2, FS_Product
<1> HIDE DEF P, Q
<1>4. IsFiniteSet(P) /\ Cardinality(P) \in Nat
  BY FS_CardinalityType DEF P
<1>5. Cardinality(Q) \in Nat
  BY <1>3, FS_CardinalityType
<1>6. IsFiniteSet(P \cup Q) /\ Cardinality(P \cup Q) = Cardinality(P) + Cardinality(Q) - Cardinality({})
  BY <1>2, <1>3, <1>4, FS_Union
<1>7. Cardinality({}) = 0
  BY FS_EmptySet
<1>8. Cardinality(P \cup Q) = Cardinality(P) + Cardinality(C[n + 1])
  BY <1>3, <1>4, <1>5, <1>6, <1>7
<1> QED
  BY <1>1, <1>6, <1>8 DEF P

\* The sum of the sizes of sets is the size of their disjoint union.
LEMMA TotalOfSizes ==
    ASSUME NEW s \in Seq(Nat), NEW C,
           \A n \in 1 .. Len(s) : IsFiniteSet(C[n]) /\ Cardinality(C[n]) = s[n]
    PROVE  IsFiniteSet(Pairs(C, Len(s))) /\ Cardinality(Pairs(C, Len(s))) = Total(s)
<1> DEFINE N == Len(s)
<1>1. N \in Nat /\ \A n \in 1 .. N : s[n] \in Nat
  OBVIOUS
<1>2. PICK f : Adds(f, s) /\ Total(s) = f[N]
  BY <1>1, TotalIsLast
<1> DEFINE G == {n \in 0 .. N : IsFiniteSet(Pairs(C, n)) /\ Cardinality(Pairs(C, n)) = f[n]}
<1>3. 0 \in G
  <2>1. Pairs(C, 0) = {}
    BY DEF Pairs
  <2>2. IsFiniteSet({}) /\ Cardinality({}) = 0
    BY FS_EmptySet
  <2>3. IsFiniteSet(Pairs(C, 0)) /\ Cardinality(Pairs(C, 0)) = f[0]
    BY <1>2, <2>1, <2>2 DEF Adds
  <2> QED
    BY <1>1, <2>3
<1>4. ASSUME NEW n \in 0 .. N - 1, n \in G PROVE n + 1 \in G
  <2>1. n + 1 \in 1 .. N /\ (n + 1) - 1 = n /\ n \in Nat
    BY <1>1
  <2>2. f[n + 1] = f[n] + s[n + 1]
    BY <1>2, <2>1 DEF Adds
  <2>3. IsFiniteSet(Pairs(C, n)) /\ Cardinality(Pairs(C, n)) = f[n]
    BY <1>4
  <2>4. IsFiniteSet(C[n + 1]) /\ Cardinality(C[n + 1]) = s[n + 1]
    BY <2>1
  <2>5. IsFiniteSet(Pairs(C, n + 1)) /\ Cardinality(Pairs(C, n + 1)) = f[n + 1]
    BY <2>1, <2>2, <2>3, <2>4, PairsOfNext
  <2> QED
    BY <1>1, <2>1, <2>5
<1>5. N \in G
  <2>1. N \in Nat
    BY <1>1
  <2> HIDE DEF G, N
  <2>2. \A n \in 0 .. N : n \in G
    BY <2>1, <1>3, <1>4, Induction, Zenon
  <2> QED
    BY <2>1, <2>2
<1> QED
  BY <1>2, <1>5

\* A sum of ones and zeros counts the ones.
LEMMA TotalOfOnes ==
    ASSUME NEW s \in Seq({0, 1})
    PROVE  /\ IsFiniteSet({n \in 1 .. Len(s) : s[n] = 1})
           /\ Total(s) = Cardinality({n \in 1 .. Len(s) : s[n] = 1})
<1> DEFINE N == Len(s)
           Ones(n) == {k \in 1 .. n : s[k] = 1}
<1>1. N \in Nat /\ \A n \in 1 .. N : s[n] \in {0, 1}
  OBVIOUS
<1>2. PICK f : Adds(f, s) /\ Total(s) = f[N]
  BY <1>1, TotalIsLast
<1> DEFINE G == {n \in 0 .. N : IsFiniteSet(Ones(n)) /\ Cardinality(Ones(n)) = f[n]}
<1>3. 0 \in G
  <2>1. Ones(0) = {}
    OBVIOUS
  <2>2. IsFiniteSet({}) /\ Cardinality({}) = 0
    BY FS_EmptySet
  <2>3. IsFiniteSet(Ones(0)) /\ Cardinality(Ones(0)) = f[0]
    BY <1>2, <2>1, <2>2 DEF Adds
  <2> QED
    BY <1>1, <2>3
<1>4. ASSUME NEW n \in 0 .. N - 1, n \in G PROVE n + 1 \in G
  <2>1. n + 1 \in 1 .. N /\ (n + 1) - 1 = n /\ n \in Nat
    BY <1>1
  <2>2. f[n + 1] = f[n] + s[n + 1]
    BY <1>2, <2>1 DEF Adds
  <2>3. IsFiniteSet(Ones(n)) /\ Cardinality(Ones(n)) = f[n]
    BY <1>4
  <2>4. Ones(n + 1) = IF s[n + 1] = 1 THEN Ones(n) \cup {n + 1} ELSE Ones(n)
    BY <2>1
  <2>5. n + 1 \notin Ones(n)
    BY <2>1
  <2>6. s[n + 1] \in {0, 1}
    BY <1>1, <2>1
  <2> HIDE DEF Ones
  <2>7. Cardinality(Ones(n)) \in Nat
    BY <2>3, FS_CardinalityType
  <2>8. IsFiniteSet(Ones(n + 1)) /\ Cardinality(Ones(n + 1)) = f[n + 1]
    <3>1. CASE s[n + 1] = 1
      <4>1. /\ IsFiniteSet(Ones(n) \cup {n + 1})
            /\ Cardinality(Ones(n) \cup {n + 1}) = Cardinality(Ones(n)) + 1
        BY <2>3, <2>5, FS_AddElement
      <4> QED
        BY <2>2, <2>3, <2>4, <3>1, <4>1
    <3>2. CASE s[n + 1] = 0
      BY <2>2, <2>3, <2>4, <2>7, <3>2
    <3> QED
      BY <2>6, <3>1, <3>2
  <2> QED
    BY <1>1, <2>1, <2>8
<1>5. N \in G
  <2>1. N \in Nat
    BY <1>1
  <2> HIDE DEF G, N
  <2>2. \A n \in 0 .. N : n \in G
    BY <2>1, <1>3, <1>4, Induction, Zenon
  <2> QED
    BY <2>1, <2>2
<1> QED
  BY <1>2, <1>5

-----------------------------------------------------------------------------
(* Finite sets of integers.                                                 *)

\* The values of a function on a finite set are finitely many.
LEMMA FiniteImage ==
    ASSUME NEW S, IsFiniteSet(S), NEW f
    PROVE  IsFiniteSet({f[x] : x \in S})
<1> DEFINE T == {f[x] : x \in S}
           g == [x \in S |-> f[x]]
<1>1. g \in Surjection(S, T)
  BY DEF Surjection
<1> HIDE DEF T, g
<1>2. IsFiniteSet(T)
  BY <1>1, FS_Surjection
<1> QED
  BY <1>2 DEF T

\* A finite set of integers that is not empty has a greatest element.
LEMMA Greatest ==
    ASSUME NEW S \in SUBSET Int, IsFiniteSet(S), S # {}
    PROVE  \E x \in S : \A y \in S : y <= x
<1> DEFINE F == {T \in FiniteSubsetsOf(Int) : T # {} /\ ~\E x \in T : \A y \in T : y <= x}
<1> SUFFICES ASSUME S \in F PROVE FALSE
  BY DEF FiniteSubsetsOf
<1>1. PICK T \in F : \A U \in F : ~(U \subseteq T /\ U # T)
  <2>1. F \in SUBSET FiniteSubsetsOf(Int) /\ F # {}
    OBVIOUS
  <2> HIDE DEF F
  <2> QED
    BY <2>1, MinimalMember
<1>2. PICK x \in T : x \in Int
  BY <1>1 DEF FiniteSubsetsOf
<1>3. T \ {x} \in FiniteSubsetsOf(Int) /\ T \ {x} \subseteq T /\ T \ {x} # T
  BY <1>1, <1>2, FS_RemoveElement DEF FiniteSubsetsOf
<1>4. T \ {x} \notin F
  BY <1>1, <1>3
<1>5. CASE T \ {x} = {}
  BY <1>1, <1>2, <1>5
<1>6. CASE \E z \in T \ {x} : \A y \in T \ {x} : y <= z
  <2>1. PICK z \in T \ {x} : \A y \in T \ {x} : y <= z
    BY <1>6
  <2>2. z \in Int
    BY <1>1 DEF FiniteSubsetsOf
  <2>3. IF z <= x THEN \A y \in T : y <= x ELSE \A y \in T : y <= z
    <3>1. \A y \in T : y \in Int
      BY <1>1 DEF FiniteSubsetsOf
    <3> HIDE DEF F
    <3> QED
      BY <1>2, <2>1, <2>2, <3>1
  <2> QED
    BY <1>1, <1>2, <2>1, <2>3
<1> QED
  BY <1>3, <1>4, <1>5, <1>6

\* s has the elements of S, each once, from the least to the greatest.
Ascends(s, S) ==
    /\ s \in [1 .. Cardinality(S) -> S]
    /\ \A a, b \in 1 .. Cardinality(S) : a < b => s[a] < s[b]

LEMMA AscendingExists ==
    ASSUME NEW S \in SUBSET Int, IsFiniteSet(S)
    PROVE  \E s : Ascends(s, S) /\ \A x \in S : \E n \in 1 .. Cardinality(S) : s[n] = x
<1> DEFINE Lists(T) == \E s : Ascends(s, T) /\ \A x \in T : \E n \in 1 .. Cardinality(T) : s[n] = x
           F == {T \in FiniteSubsetsOf(Int) : ~Lists(T)}
<1> SUFFICES ASSUME S \in F PROVE FALSE
  BY DEF FiniteSubsetsOf
<1>1. PICK T \in F : \A U \in F : ~(U \subseteq T /\ U # T)
  <2>1. F \in SUBSET FiniteSubsetsOf(Int) /\ F # {}
    OBVIOUS
  <2> HIDE DEF F
  <2> QED
    BY <2>1, MinimalMember
<1>2. T \in SUBSET Int /\ IsFiniteSet(T) /\ ~Lists(T)
  BY <1>1 DEF FiniteSubsetsOf
<1>3. CASE T = {}
  <2>1. Cardinality(T) = 0
    BY <1>3, FS_EmptySet
  <2>2. Ascends(<< >>, T)
    BY <1>3, <2>1 DEF Ascends
  <2> QED
    BY <1>2, <1>3, <2>2
<1>4. CASE T # {}
  <2>1. PICK x \in T : \A y \in T : y <= x
    BY <1>2, <1>4, Greatest
  <2> DEFINE U == T \ {x}
             c == Cardinality(U)
  <2>2. /\ IsFiniteSet(U) /\ U \in SUBSET Int /\ U \subseteq T /\ U # T
        /\ c \in Nat /\ Cardinality(T) = c + 1
    <3>1. IsFiniteSet(U) /\ Cardinality(U) = Cardinality(T) - 1
      BY <1>2, <2>1, FS_RemoveElement
    <3>2. Cardinality(T) \in Nat /\ Cardinality(U) \in Nat
      BY <1>2, <3>1, FS_CardinalityType
    <3> QED
      BY <1>2, <2>1, <3>1, <3>2
  <2>3. Lists(U)
    <3>1. U \in FiniteSubsetsOf(Int)
      BY <2>2 DEF FiniteSubsetsOf
    <3> HIDE DEF Lists, U
    <3> QED
      BY <1>1, <2>2, <3>1
  <2>4. PICK s : Ascends(s, U) /\ \A y \in U : \E n \in 1 .. c : s[n] = y
    BY <2>3
  <2> DEFINE t == Extended(s, c, x)
  <2>5. /\ t \in [1 .. c + 1 -> T] /\ t[c + 1] = x
        /\ \A n \in 1 .. c : t[n] = s[n] /\ s[n] \in U
        /\ \A n \in 1 .. c + 1 : n = c + 1 \/ n \in 1 .. c
    <3>1. s \in [1 .. c -> U]
      BY <2>4 DEF Ascends
    <3>2. c \in Nat /\ U \subseteq T
      BY <2>2
    <3> HIDE DEF U, c
    <3>3. Extends(t, s, c, x, U, T)
      BY <2>1, <3>1, <3>2, ExtendedBy
    <3> HIDE DEF t
    <3> QED
      BY <3>3 DEF Extends
  <2>6. t \in [1 .. c + 1 -> T]
    BY <2>5
  <2>7. \A y \in U : y < x
    BY <1>2, <2>1
  <2>8. \A a, b \in 1 .. c : a < b => s[a] < s[b]
    BY <2>4 DEF Ascends
  <2> HIDE DEF t, U, c
  <2>9. ASSUME NEW a \in 1 .. c + 1, NEW b \in 1 .. c + 1, a < b PROVE t[a] < t[b]
    <3>1. a \in 1 .. c
      BY <2>2, <2>5, <2>9
    <3>2. CASE b \in 1 .. c
      BY <2>5, <2>8, <2>9, <3>1, <3>2
    <3>3. CASE b = c + 1
      BY <2>5, <2>7, <3>1, <3>3
    <3> QED
      BY <2>5, <3>2, <3>3
  <2>10. \A y \in T : \E n \in 1 .. c + 1 : t[n] = y
    <3>1. \A y \in T : y = x \/ y \in U
      BY DEF U
    <3>2. \A y \in U : \E n \in 1 .. c : s[n] = y
      BY <2>4 DEF c
    <3> QED
      BY <2>2, <2>5, <3>1, <3>2
  <2>11. Ascends(t, T)
    BY <2>2, <2>6, <2>9 DEF Ascends
  <2> QED
    BY <1>2, <2>2, <2>10, <2>11
<1> QED
  BY <1>3, <1>4

\* An ascending list of as many elements as the set has leaves none out.
LEMMA AscendingLists ==
    ASSUME NEW S \in SUBSET Int, IsFiniteSet(S)
    PROVE  /\ Ascending(S) \in Seq(S) /\ Len(Ascending(S)) = Cardinality(S)
           /\ \A a, b \in 1 .. Cardinality(S) : a < b => Ascending(S)[a] < Ascending(S)[b]
           /\ \A x \in S : \E n \in 1 .. Cardinality(S) : Ascending(S)[n] = x
<1> DEFINE c == Cardinality(S)
           s == Ascending(S)
<1>1. c \in Nat
  BY FS_CardinalityType
<1>2. \E f \in [1 .. c -> S] : \A a, b \in 1 .. c : a < b => f[a] < f[b]
  BY AscendingExists DEF Ascends
<1>3. s \in [1 .. c -> S] /\ \A a, b \in 1 .. c : a < b => s[a] < s[b]
  BY <1>2, Zenon DEF Ascending
<1> HIDE DEF s
<1>4. \A x \in S : \E n \in 1 .. c : s[n] = x
  <2>1. IsFiniteSet(1 .. c) /\ Cardinality(1 .. c) = c
    BY <1>1, FS_Interval
  <2>2. \A a, b \in 1 .. c : s[a] = s[b] => a = b
    <3>1. \A a \in 1 .. c : s[a] \in Int
      BY <1>3
    <3> HIDE DEF c
    <3> QED
      BY <1>1, <1>3, <3>1
  <2>3. s \in Injection(1 .. c, S)
    BY <1>3, <2>2 DEF Injection, IsInjective
  <2>4. s \in Surjection(1 .. c, S)
    BY <2>1, <2>3, FS_Injection
  <2> QED
    BY <2>4 DEF Surjection
<1>5. s \in Seq(S) /\ Len(s) = c
  <2> HIDE DEF c
  <2> QED
    BY <1>1, <1>3
<1> QED
  BY <1>3, <1>4, <1>5 DEF s
=============================================================================
