-------------------------- MODULE EffectReplayProofs -------------------------
(***************************************************************************)
(* Proofs about EffectReplay, for any accounts, signers and claimable      *)
(* balances and operations of any number: what the effects of an operation *)
(* make of the consumer's copy, and that the copy keeps to the ledger.     *)
(***************************************************************************)
EXTENDS EffectReplay, EffectRulesProofs

-----------------------------------------------------------------------------
(* The consumer.                                                            *)

\* One step of its recursion, and what it makes of every prefix up to N.
FoldAt(f, n, r, s) == IF n = 0 THEN r ELSE Apply(f[n - 1], s[n])
Folds(f, N, r, s)  == f = [n \in 0 .. N |-> FoldAt(f, n, r, s)]

LEMMA FoldsUnfold ==
    ASSUME NEW f, NEW N, NEW r, NEW s, Folds(f, N, r, s), NEW n \in 0 .. N
    PROVE  f[n] = FoldAt(f, n, r, s)
<1> DEFINE S(k) == FoldAt(f, k, r, s)
<1>1. f = [k \in 0 .. N |-> S(k)]
  BY DEF Folds
<1> HIDE DEF S
<1>2. f[n] = S(n)
  BY <1>1
<1> QED
  BY <1>2 DEF S

LEMMA FoldsExist ==
    ASSUME NEW r, NEW s, NEW N \in Nat
    PROVE  \E f : Folds(f, N, r, s)
<1> DEFINE G == {k \in 0 .. N : \E f : Folds(f, k, r, s)}
<1>1. 0 \in G
  <2> DEFINE f == [n \in 0 .. 0 |-> r]
  <2>1. f = [n \in 0 .. 0 |-> FoldAt(f, n, r, s)]
    BY DEF FoldAt
  <2> QED
    BY <2>1 DEF Folds
<1>2. ASSUME NEW k \in 0 .. N - 1, k \in G PROVE k + 1 \in G
  <2>1. PICK f : f = [n \in 0 .. k |-> FoldAt(f, n, r, s)]
    BY <1>2 DEF Folds
  <2> DEFINE g == [n \in 0 .. k + 1 |-> IF n = k + 1 THEN FoldAt(f, n, r, s) ELSE f[n]]
  <2>2. ASSUME NEW n \in 0 .. k + 1 PROVE g[n] = FoldAt(g, n, r, s)
    <3>1. g[n] = FoldAt(f, n, r, s)
      BY <2>1
    <3>2. CASE n = 0
      BY <3>1, <3>2 DEF FoldAt
    <3>3. CASE n # 0
      <4>1. g[n - 1] = f[n - 1]
        BY <3>3
      <4> HIDE DEF g
      <4> QED
        BY <3>1, <3>3, <4>1 DEF FoldAt
    <3> QED
      BY <3>2, <3>3
  <2>3. Folds(g, k + 1, r, s)
    BY <2>2 DEF Folds
  <2> HIDE DEF g
  <2> QED
    BY <1>2, <2>3
<1> HIDE DEF G
<1>3. N \in G
  BY <1>1, <1>2, Induction
<1> QED
  BY <1>3 DEF G

\* The copies g[0], g[1], ... that the effects of s make of r one by one.
Copies(g, r, s) ==
    /\ g[0] = r /\ g[Len(s)] = Consumed(r, s)
    /\ \A n \in 0 .. Len(s) - 1 : g[n + 1] = Apply(g[n], s[n + 1])

LEMMA CopiesExist ==
    ASSUME NEW r, NEW s, IsSequence(s)
    PROVE  \E g : Copies(g, r, s)
<1>0. Len(s) \in Nat
  BY OwnElements DEF IsSequence
<1> DEFINE upTo == CHOOSE f : f = [n \in 0 .. Len(s) |-> FoldAt(f, n, r, s)]
<1>1. \E f : f = [n \in 0 .. Len(s) |-> FoldAt(f, n, r, s)]
  BY <1>0, FoldsExist DEF Folds
<1>2. upTo = [n \in 0 .. Len(s) |-> FoldAt(upTo, n, r, s)]
  BY <1>1, Zenon
<1>3. Consumed(r, s) = upTo[Len(s)]
  BY Zenon DEF Consumed, FoldAt
<1> HIDE DEF upTo
<1>4. Folds(upTo, Len(s), r, s)
  BY <1>2 DEF Folds
<1>5. \A n \in 0 .. Len(s) : upTo[n] = FoldAt(upTo, n, r, s)
  BY <1>4, FoldsUnfold
<1>6. upTo[0] = r
  BY <1>0, <1>5 DEF FoldAt
<1>7. ASSUME NEW n \in 0 .. Len(s) - 1 PROVE upTo[n + 1] = Apply(upTo[n], s[n + 1])
  <2>1. n + 1 \in 0 .. Len(s) /\ n + 1 # 0 /\ (n + 1) - 1 = n
    BY <1>0
  <2>2. upTo[n + 1] = FoldAt(upTo, n + 1, r, s)
    BY <1>5, <2>1
  <2> QED
    BY <2>1, <2>2 DEF FoldAt
<1> QED
  BY <1>3, <1>6, <1>7 DEF Copies

LEMMA ConsumedNone ==
    ASSUME NEW r
    PROVE  Consumed(r, << >>) = r
<1>1. PICK g : Copies(g, r, << >>)
  BY SmallSequences, CopiesExist
<1> QED
  BY <1>1 DEF Copies

LEMMA ConsumedOne ==
    ASSUME NEW r, NEW e
    PROVE  Consumed(r, << e >>) = Apply(r, e)
<1>1. PICK g : Copies(g, r, << e >>)
  BY SmallSequences, CopiesExist
<1>2. Len(<< e >>) = 1 /\ << e >>[1] = e
  OBVIOUS
<1>3. g[1] = Apply(g[0], << e >>[0 + 1])
  BY <1>1, <1>2 DEF Copies
<1> QED
  BY <1>1, <1>2, <1>3 DEF Copies

\* The first N effects of u are those of s after its first d.
Matches(s, d, u, N) ==
    /\ N \in Nat /\ d \in Nat /\ Len(s) \in Nat /\ Len(u) \in Nat
    /\ N <= Len(u) /\ d + N <= Len(s)
    /\ \A n \in 1 .. N : s[d + n] = u[n]

LEMMA CopiesAgree ==
    ASSUME NEW s, NEW u, NEW d, NEW N, Matches(s, d, u, N),
           NEW r, NEW g, Copies(g, r, s), NEW h, Copies(h, g[d], u)
    PROVE  g[d + N] = h[N]
<1> DEFINE G == {n \in 0 .. N : g[d + n] = h[n]}
<1>0. N \in Nat /\ d \in Nat
  BY DEF Matches
<1>1. 0 \in G
  BY <1>0 DEF Copies
<1>2. ASSUME NEW n \in 0 .. N - 1, n \in G PROVE n + 1 \in G
  <2>1. d + n \in 0 .. Len(s) - 1 /\ n \in 0 .. Len(u) - 1
    BY DEF Matches
  <2>2. g[(d + n) + 1] = Apply(g[d + n], s[(d + n) + 1]) /\ h[n + 1] = Apply(h[n], u[n + 1])
    BY <2>1 DEF Copies
  <2>3. s[d + (n + 1)] = u[n + 1] /\ d + (n + 1) = (d + n) + 1 /\ n + 1 \in 0 .. N
    BY DEF Matches
  <2> QED
    BY <1>2, <2>2, <2>3
<1> HIDE DEF G
<1>3. \A n \in 0 .. N : n \in G
  BY <1>0, <1>1, <1>2, Induction, Zenon
<1>4. N \in 0 .. N
  BY <1>0
<1> QED
  BY <1>3, <1>4 DEF G

\* w is s and then u.
Joins(w, s, u) == w = s \o u

LEMMA JoinedTo ==
    ASSUME NEW s, IsSequence(s), NEW u, IsSequence(u), NEW w, Joins(w, s, u)
    PROVE  /\ IsSequence(w) /\ Len(w) = Len(s) + Len(u)
           /\ \A m \in 1 .. Len(s) : w[m] = s[m]
           /\ \A m \in 1 .. Len(u) : w[Len(s) + m] = u[m]
           /\ \A m \in 1 .. Len(w) : m \in 1 .. Len(s) \/ \E k \in 1 .. Len(u) : m = Len(s) + k
<1>1. /\ IsSequence(s \o u) /\ Len(s \o u) = Len(s) + Len(u)
      /\ \A m \in 1 .. Len(s) : (s \o u)[m] = s[m]
      /\ \A m \in 1 .. Len(u) : (s \o u)[Len(s) + m] = u[m]
      /\ \A m \in 1 .. Len(s \o u) :
            m \in 1 .. Len(s) \/ \E k \in 1 .. Len(u) : m = Len(s) + k
  BY JoinedIs
<1> QED
  BY <1>1, Zenon DEF Joins

LEMMA ConsumedJoined ==
    ASSUME NEW r, NEW s, IsSequence(s), NEW u, IsSequence(u)
    PROVE  Consumed(r, s \o u) = Consumed(Consumed(r, s), u)
<1> DEFINE q == Consumed(r, s)
<1>1. PICK w : Joins(w, s, u)
  BY DEF Joins
<1>2. /\ IsSequence(w) /\ Len(w) = Len(s) + Len(u)
      /\ \A m \in 1 .. Len(s) : w[m] = s[m]
      /\ \A m \in 1 .. Len(u) : w[Len(s) + m] = u[m]
  BY <1>1, JoinedTo
<1>3. Len(s) \in Nat /\ Len(u) \in Nat
  BY OwnElements DEF IsSequence
<1>4. PICK f : Copies(f, r, w)
  BY <1>2, CopiesExist
<1>5. PICK g : Copies(g, r, s)
  BY CopiesExist
<1>6. PICK h : Copies(h, q, u)
  BY CopiesExist
<1> HIDE DEF q
<1>7. f[Len(s)] = q
  <2>1. Matches(w, 0, s, Len(s)) /\ Copies(g, f[0], s)
    BY <1>2, <1>3, <1>4, <1>5 DEF Matches, Copies
  <2>2. f[0 + Len(s)] = g[Len(s)]
    BY <1>4, <2>1, CopiesAgree
  <2> QED
    BY <1>3, <1>5, <2>2 DEF Copies, q
<1>8. Matches(w, Len(s), u, Len(u))
  BY <1>2, <1>3 DEF Matches
<1>9. f[Len(s) + Len(u)] = h[Len(u)]
  <2>1. Copies(h, f[Len(s)], u)
    BY <1>6, <1>7
  <2> QED
    BY <1>4, <1>8, <2>1, CopiesAgree
<1>10. Consumed(r, w) = Consumed(q, u)
  BY <1>2, <1>4, <1>6, <1>9 DEF Copies
<1> QED
  BY <1>1, <1>10, Zenon DEF q, Joins

\* What is written at some steps, always the same, is what was written, if
\* there was such a step.
Writes(v, N, W, x) ==
    N \in Nat /\ \A n \in 0 .. N - 1 : v[n + 1] = IF n + 1 \in W THEN x ELSE v[n]

LEMMA Written ==
    ASSUME NEW N, NEW v, NEW W, NEW x, Writes(v, N, W, x)
    PROVE  v[N] = IF \E m \in 1 .. N : m \in W THEN x ELSE v[0]
<1> DEFINE G == {n \in 0 .. N : v[n] = IF \E m \in 1 .. n : m \in W THEN x ELSE v[0]}
<1>1. 0 \in G
  BY DEF Writes
<1>2. ASSUME NEW n \in 0 .. N - 1, n \in G PROVE n + 1 \in G
  <2>0. N \in Nat
    BY DEF Writes
  <2>1. v[n] = IF \E m \in 1 .. n : m \in W THEN x ELSE v[0]
    BY <1>2
  <2>2. v[n + 1] = IF n + 1 \in W THEN x ELSE v[n]
    BY DEF Writes
  <2>3. (\E m \in 1 .. n + 1 : m \in W) <=> n + 1 \in W \/ \E m \in 1 .. n : m \in W
    BY <2>0
  <2> QED
    BY <2>0, <2>1, <2>2, <2>3
<1> HIDE DEF G
<1>3. N \in Nat
  BY DEF Writes
<1>4. \A n \in 0 .. N : n \in G
  BY <1>1, <1>2, <1>3, Induction, Zenon
<1>5. N \in 0 .. N
  BY <1>3
<1> QED
  BY <1>4, <1>5 DEF G

\* The steps of a list of copies are those of its effects.
LEMMA StepsAre ==
    ASSUME NEW r, NEW s, IsSequence(s)
    PROVE  \E g : /\ g[0] = r /\ g[Len(s)] = Consumed(r, s) /\ Len(s) \in Nat
                  /\ \A n \in 0 .. Len(s) - 1 :
                        n + 1 \in 1 .. Len(s) /\ g[n + 1] = Apply(g[n], s[n + 1])
                  /\ \A e : e \in ToSet(s) <=> \E m \in 1 .. Len(s) : s[m] = e
<1>1. PICK g : Copies(g, r, s)
  BY CopiesExist
<1>2. Len(s) \in Nat /\ DOMAIN s = 1 .. Len(s)
  BY OwnElements DEF IsSequence
<1>3. \A e : e \in ToSet(s) <=> \E m \in 1 .. Len(s) : s[m] = e
  BY <1>2 DEF ToSet
<1>4. \A n \in 0 .. Len(s) - 1 : n + 1 \in 1 .. Len(s) /\ g[n + 1] = Apply(g[n], s[n + 1])
  BY <1>1, <1>2 DEF Copies
<1>5. g[0] = r /\ g[Len(s)] = Consumed(r, s)
  BY <1>1 DEF Copies
<1> QED
  BY <1>2, <1>3, <1>4, <1>5, Zenon

-----------------------------------------------------------------------------
(* What it makes of the entries.                                            *)

Arrives(e, k) == e.type \in Arrivals /\ EntryOf(e) = k
Departs(e, k) == e.type \in Departures /\ EntryOf(e) = k

LEMMA AliveStep ==
    ASSUME NEW r, NEW e, NEW k
    PROVE  k \in Apply(r, e).alive <=> Arrives(e, k) \/ (k \in r.alive /\ ~Departs(e, k))
<1>1. Apply(r, e).alive = AliveAfter(r.alive, e)
  BY DEF Apply
<1>2. Arrivals \cap Departures = {}
  BY DEF Arrivals, Departures
<1> QED
  BY <1>1, <1>2 DEF AliveAfter, Arrives, Departs

\* An entry that some effect says exists, and none that it does not, exists,
\* and so the other way about; one that none tells of stays what it was.
LEMMA AliveTold ==
    ASSUME NEW r, NEW s, IsSequence(s), NEW k
    PROVE  /\ (\A e \in ToSet(s) : ~Departs(e, k))
              => (k \in Consumed(r, s).alive
                  <=> (\E e \in ToSet(s) : Arrives(e, k)) \/ k \in r.alive)
           /\ (\A e \in ToSet(s) : ~Arrives(e, k))
              => (k \in Consumed(r, s).alive
                  <=> (\A e \in ToSet(s) : ~Departs(e, k)) /\ k \in r.alive)
<1>1. PICK g : /\ g[0] = r /\ g[Len(s)] = Consumed(r, s) /\ Len(s) \in Nat
               /\ \A n \in 0 .. Len(s) - 1 :
                     n + 1 \in 1 .. Len(s) /\ g[n + 1] = Apply(g[n], s[n + 1])
               /\ \A e : e \in ToSet(s) <=> \E m \in 1 .. Len(s) : s[m] = e
  BY StepsAre, Zenon
<1> DEFINE v == [n \in 0 .. Len(s) |-> IF k \in g[n].alive THEN 1 ELSE 0]
<1>2. \A n \in 0 .. Len(s) - 1 :
         v[n + 1] = IF Arrives(s[n + 1], k) THEN 1
                    ELSE IF Departs(s[n + 1], k) THEN 0 ELSE v[n]
  <2> TAKE n \in 0 .. Len(s) - 1
  <2>1. v[n] = (IF k \in g[n].alive THEN 1 ELSE 0)
        /\ v[n + 1] = (IF k \in g[n + 1].alive THEN 1 ELSE 0)
    BY <1>1
  <2>2. g[n + 1] = Apply(g[n], s[n + 1])
    BY <1>1
  <2> HIDE DEF v
  <2> QED
    BY <2>1, <2>2, AliveStep
<1>3. v[0] = (IF k \in r.alive THEN 1 ELSE 0)
      /\ v[Len(s)] = (IF k \in Consumed(r, s).alive THEN 1 ELSE 0)
  BY <1>1
<1> HIDE DEF v
<1>4. ASSUME \A e \in ToSet(s) : ~Departs(e, k)
      PROVE  k \in Consumed(r, s).alive <=> (\E e \in ToSet(s) : Arrives(e, k)) \/ k \in r.alive
  <2> DEFINE W == {m \in 1 .. Len(s) : Arrives(s[m], k)}
  <2>1. Writes(v, Len(s), W, 1)
    BY <1>1, <1>2, <1>4 DEF Writes
  <2>2. (\E m \in 1 .. Len(s) : m \in W) <=> \E e \in ToSet(s) : Arrives(e, k)
    BY <1>1
  <2> HIDE DEF W
  <2>3. v[Len(s)] = IF \E m \in 1 .. Len(s) : m \in W THEN 1 ELSE v[0]
    BY <2>1, Written, Zenon
  <2> QED
    BY <1>3, <2>2, <2>3
<1>5. ASSUME \A e \in ToSet(s) : ~Arrives(e, k)
      PROVE  k \in Consumed(r, s).alive
             <=> (\A e \in ToSet(s) : ~Departs(e, k)) /\ k \in r.alive
  <2> DEFINE W == {m \in 1 .. Len(s) : Departs(s[m], k)}
  <2>1. Writes(v, Len(s), W, 0)
    BY <1>1, <1>2, <1>5 DEF Writes
  <2>2. (\E m \in 1 .. Len(s) : m \in W) <=> \E e \in ToSet(s) : Departs(e, k)
    BY <1>1
  <2> HIDE DEF W
  <2>3. v[Len(s)] = IF \E m \in 1 .. Len(s) : m \in W THEN 0 ELSE v[0]
    BY <2>1, Written, Zenon
  <2> QED
    BY <1>3, <2>2, <2>3
<1> QED
  BY <1>4, <1>5

-----------------------------------------------------------------------------
(* What it makes of signers.                                                *)

\* The weight of a signer; weight 0 is no signer.
WeightIn(signers, k) == IF k \in DOMAIN signers THEN signers[k] ELSE 0

Resets  == {"account_created", "account_removed"}
Weighs  == {"signer_created", "signer_updated"}

\* An effect that tells of the signer k of a, and the weight that it tells.
Signs(e, a, k) ==
    /\ e.address = a
    /\ e.type \in Resets \/ (e.type \in Weighs \cup {"signer_removed"} /\ e.about = k)
WeightOf(e) == IF e.type \in Weighs THEN e.value ELSE 0

LEMMA SignersStep ==
    ASSUME NEW r, NEW e, NEW a \in DOMAIN r.signers
    PROVE  /\ DOMAIN Apply(r, e).signers = DOMAIN r.signers
           /\ \A k : WeightIn(Apply(r, e).signers[a], k)
                     = IF Signs(e, a, k) THEN WeightOf(e) ELSE WeightIn(r.signers[a], k)
           /\ (\A k : ~Signs(e, a, k)) => Apply(r, e).signers[a] = r.signers[a]
<1> DEFINE old == r.signers
           new == SignersAfter(old, e)
<1>1. Apply(r, e).signers = new
  BY DEF Apply
<1>2. CASE e.type \in Resets
  <2>1. new = [old EXCEPT ![e.address] = Nobody]
    BY <1>2 DEF SignersAfter, Resets
  <2>2. \A k : WeightIn(Nobody, k) = 0
    BY DEF WeightIn, Nobody
  <2>3. WeightOf(e) = 0 /\ \A k : Signs(e, a, k) <=> e.address = a
    BY <1>2 DEF WeightOf, Signs, Resets, Weighs
  <2>4. DOMAIN new = DOMAIN old /\ new[a] = IF e.address = a THEN Nobody ELSE old[a]
    BY <2>1
  <2> HIDE DEF new, old
  <2> QED
    BY <1>1, <2>2, <2>3, <2>4 DEF old
<1>3. CASE e.type \in Weighs
  <2> DEFINE put(f) == [k \in DOMAIN f \cup {e.about} |-> IF k = e.about THEN e.value ELSE f[k]]
  <2>1. new = [old EXCEPT ![e.address] = put(@)]
    BY <1>3 DEF SignersAfter, Weighs, Resets
  <2>2. \A f, k : WeightIn(put(f), k) = IF k = e.about THEN e.value ELSE WeightIn(f, k)
    BY DEF WeightIn
  <2>3. WeightOf(e) = e.value /\ \A k : Signs(e, a, k) <=> e.address = a /\ k = e.about
    BY <1>3 DEF WeightOf, Signs, Resets, Weighs
  <2> HIDE DEF put
  <2>4. DOMAIN new = DOMAIN old /\ new[a] = IF e.address = a THEN put(old[a]) ELSE old[a]
    BY <2>1
  <2> HIDE DEF new, old
  <2> QED
    BY <1>1, <2>2, <2>3, <2>4 DEF old
<1>4. CASE e.type = "signer_removed"
  <2> DEFINE take(f) == [k \in DOMAIN f \ {e.about} |-> f[k]]
  <2>1. new = [old EXCEPT ![e.address] = take(@)]
    BY <1>4 DEF SignersAfter
  <2>2. \A f, k : WeightIn(take(f), k) = IF k = e.about THEN 0 ELSE WeightIn(f, k)
    BY DEF WeightIn
  <2>3. WeightOf(e) = 0 /\ \A k : Signs(e, a, k) <=> e.address = a /\ k = e.about
    BY <1>4 DEF WeightOf, Signs, Resets, Weighs
  <2> HIDE DEF take
  <2>4. DOMAIN new = DOMAIN old /\ new[a] = IF e.address = a THEN take(old[a]) ELSE old[a]
    BY <2>1
  <2> HIDE DEF new, old
  <2> QED
    BY <1>1, <2>2, <2>3, <2>4 DEF old
<1>5. CASE e.type \notin Resets \cup Weighs \cup {"signer_removed"}
  <2>1. new = old
    BY <1>5 DEF SignersAfter, Resets, Weighs
  <2>2. \A k : ~Signs(e, a, k)
    BY <1>5 DEF Signs
  <2> HIDE DEF new
  <2> QED
    BY <1>1, <2>1, <2>2
<1> QED
  BY <1>2, <1>3, <1>4, <1>5

\* A signer that some effects tell of, all of the same weight, has it; the
\* signers of an account that no effect tells of stay what they were.
LEMMA SignersTold ==
    ASSUME NEW r, NEW s, IsSequence(s), NEW a \in DOMAIN r.signers
    PROVE  /\ DOMAIN Consumed(r, s).signers = DOMAIN r.signers
           /\ \A k, w : (\A e \in ToSet(s) : Signs(e, a, k) => WeightOf(e) = w)
                        => WeightIn(Consumed(r, s).signers[a], k)
                           = IF \E e \in ToSet(s) : Signs(e, a, k) THEN w
                             ELSE WeightIn(r.signers[a], k)
           /\ (\A e \in ToSet(s) : \A k : ~Signs(e, a, k))
              => Consumed(r, s).signers[a] = r.signers[a]
<1>1. PICK g : /\ g[0] = r /\ g[Len(s)] = Consumed(r, s) /\ Len(s) \in Nat
               /\ \A n \in 0 .. Len(s) - 1 :
                     n + 1 \in 1 .. Len(s) /\ g[n + 1] = Apply(g[n], s[n + 1])
               /\ \A e : e \in ToSet(s) <=> \E m \in 1 .. Len(s) : s[m] = e
  BY StepsAre, Zenon
<1> DEFINE G == {n \in 0 .. Len(s) : DOMAIN g[n].signers = DOMAIN r.signers}
<1>2. 0 \in G
  BY <1>1
<1>3. ASSUME NEW n \in 0 .. Len(s) - 1, n \in G PROVE n + 1 \in G
  <2>1. n + 1 \in 0 .. Len(s) /\ a \in DOMAIN g[n].signers /\ DOMAIN g[n].signers = DOMAIN r.signers
    BY <1>1, <1>3
  <2>2. g[n + 1] = Apply(g[n], s[n + 1])
    BY <1>1
  <2>3. DOMAIN Apply(g[n], s[n + 1]).signers = DOMAIN g[n].signers
    BY <2>1, SignersStep, Zenon
  <2> QED
    BY <2>1, <2>2, <2>3
<1> HIDE DEF G
<1>4. \A n \in 0 .. Len(s) : n \in G
  BY <1>1, <1>2, <1>3, Induction, Zenon
<1>5. \A n \in 0 .. Len(s) : DOMAIN g[n].signers = DOMAIN r.signers
  BY <1>4 DEF G
<1>6. DOMAIN Consumed(r, s).signers = DOMAIN r.signers
  <2>1. Len(s) \in 0 .. Len(s)
    BY <1>1
  <2> QED
    BY <1>1, <1>5, <2>1
<1>7. \A n \in 0 .. Len(s) - 1 :
         /\ \A k : WeightIn(g[n + 1].signers[a], k)
                   = IF Signs(s[n + 1], a, k) THEN WeightOf(s[n + 1])
                     ELSE WeightIn(g[n].signers[a], k)
         /\ (\A k : ~Signs(s[n + 1], a, k)) => g[n + 1].signers[a] = g[n].signers[a]
  <2> TAKE n \in 0 .. Len(s) - 1
  <2>1. a \in DOMAIN g[n].signers
    BY <1>1, <1>5
  <2>2. g[n + 1] = Apply(g[n], s[n + 1])
    BY <1>1
  <2> DEFINE x == Apply(g[n], s[n + 1])
  <2>3. /\ \A k : WeightIn(x.signers[a], k)
                   = IF Signs(s[n + 1], a, k) THEN WeightOf(s[n + 1])
                     ELSE WeightIn(g[n].signers[a], k)
        /\ (\A k : ~Signs(s[n + 1], a, k)) => x.signers[a] = g[n].signers[a]
    BY <2>1, SignersStep, Zenon
  <2> HIDE DEF x
  <2>4. g[n + 1] = x
    BY <2>2 DEF x
  <2> QED
    BY <2>3, <2>4
<1>8. ASSUME NEW k, NEW w, \A e \in ToSet(s) : Signs(e, a, k) => WeightOf(e) = w
      PROVE  WeightIn(Consumed(r, s).signers[a], k)
             = IF \E e \in ToSet(s) : Signs(e, a, k) THEN w ELSE WeightIn(r.signers[a], k)
  <2> DEFINE v == [n \in 0 .. Len(s) |-> WeightIn(g[n].signers[a], k)]
             W == {m \in 1 .. Len(s) : Signs(s[m], a, k)}
  <2>1. \A n \in 0 .. Len(s) - 1 : v[n + 1] = IF n + 1 \in W THEN w ELSE v[n]
    <3> TAKE n \in 0 .. Len(s) - 1
    <3>1. v[n] = WeightIn(g[n].signers[a], k) /\ v[n + 1] = WeightIn(g[n + 1].signers[a], k)
      BY <1>1
    <3>2. n + 1 \in 1 .. Len(s)
      BY <1>1
    <3>3. s[n + 1] \in ToSet(s) /\ (n + 1 \in W <=> Signs(s[n + 1], a, k))
      BY <1>1, <3>2
    <3> HIDE DEF v, W
    <3> QED
      BY <1>7, <1>8, <3>1, <3>3
  <2>2. (\E m \in 1 .. Len(s) : m \in W) <=> \E e \in ToSet(s) : Signs(e, a, k)
    BY <1>1
  <2>3. v[0] = WeightIn(r.signers[a], k) /\ v[Len(s)] = WeightIn(Consumed(r, s).signers[a], k)
    BY <1>1
  <2> HIDE DEF v, W
  <2>4. Writes(v, Len(s), W, w)
    BY <1>1, <2>1 DEF Writes
  <2>5. v[Len(s)] = IF \E m \in 1 .. Len(s) : m \in W THEN w ELSE v[0]
    BY <2>4, Written, Zenon
  <2> QED
    BY <2>2, <2>3, <2>5
<1>9. ASSUME \A e \in ToSet(s) : \A k : ~Signs(e, a, k)
      PROVE  Consumed(r, s).signers[a] = r.signers[a]
  <2> DEFINE v == [n \in 0 .. Len(s) |-> g[n].signers[a]]
  <2>1. \A n \in 0 .. Len(s) - 1 : v[n + 1] = v[n]
    <3> TAKE n \in 0 .. Len(s) - 1
    <3>1. v[n] = g[n].signers[a] /\ v[n + 1] = g[n + 1].signers[a] /\ s[n + 1] \in ToSet(s)
      BY <1>1
    <3> HIDE DEF v
    <3> QED
      BY <1>7, <1>9, <3>1
  <2>2. v[0] = r.signers[a] /\ v[Len(s)] = Consumed(r, s).signers[a]
    BY <1>1
  <2> HIDE DEF v
  <2>3. Writes(v, Len(s), {}, 0)
    BY <1>1, <2>1 DEF Writes
  <2>4. v[Len(s)] = v[0]
    BY <2>3, Written
  <2> QED
    BY <2>2, <2>4
<1> QED
  BY <1>6, <1>8, <1>9

-----------------------------------------------------------------------------
(* What it makes of sponsors, balances and counts.                          *)

SponsorTypes == {"sponsorship_created", "sponsorship_updated", "sponsorship_removed"}

\* An effect that tells of the sponsor of x, and the sponsor that it tells.
Names(e, x)  == e.type \in SponsorTypes /\ e.about = x
SponsorOf(e) == IF e.type = "sponsorship_removed" THEN NoSponsor ELSE e.value

LEMMA SponsorsStep ==
    ASSUME NEW r, NEW e, NEW x \in DOMAIN r.sponsor
    PROVE  /\ DOMAIN Apply(r, e).sponsor = DOMAIN r.sponsor
           /\ Apply(r, e).sponsor[x] = IF Names(e, x) THEN SponsorOf(e) ELSE r.sponsor[x]
<1> DEFINE old == r.sponsor
           new == SponsorsAfter(old, e)
<1>1. Apply(r, e).sponsor = new
  BY DEF Apply
<1>2. DOMAIN new = DOMAIN old /\ new[x] = IF Names(e, x) THEN SponsorOf(e) ELSE old[x]
  BY DEF SponsorsAfter, Names, SponsorOf, SponsorTypes
<1> HIDE DEF new
<1> QED
  BY <1>1, <1>2

\* What some effects tell of, all of the same sponsor, has it.
LEMMA SponsorsTold ==
    ASSUME NEW r, NEW s, IsSequence(s), NEW x \in DOMAIN r.sponsor
    PROVE  /\ DOMAIN Consumed(r, s).sponsor = DOMAIN r.sponsor
           /\ \A w : (\A e \in ToSet(s) : Names(e, x) => SponsorOf(e) = w)
                     => Consumed(r, s).sponsor[x]
                        = IF \E e \in ToSet(s) : Names(e, x) THEN w ELSE r.sponsor[x]
<1>1. PICK g : /\ g[0] = r /\ g[Len(s)] = Consumed(r, s) /\ Len(s) \in Nat
               /\ \A n \in 0 .. Len(s) - 1 :
                     n + 1 \in 1 .. Len(s) /\ g[n + 1] = Apply(g[n], s[n + 1])
               /\ \A e : e \in ToSet(s) <=> \E m \in 1 .. Len(s) : s[m] = e
  BY StepsAre, Zenon
<1> DEFINE G == {n \in 0 .. Len(s) : DOMAIN g[n].sponsor = DOMAIN r.sponsor}
<1>2. 0 \in G
  BY <1>1
<1>3. ASSUME NEW n \in 0 .. Len(s) - 1, n \in G PROVE n + 1 \in G
  <2>1. n + 1 \in 0 .. Len(s) /\ x \in DOMAIN g[n].sponsor /\ DOMAIN g[n].sponsor = DOMAIN r.sponsor
    BY <1>1, <1>3
  <2>2. g[n + 1] = Apply(g[n], s[n + 1])
    BY <1>1
  <2>3. DOMAIN Apply(g[n], s[n + 1]).sponsor = DOMAIN g[n].sponsor
    BY <2>1, SponsorsStep, Zenon
  <2> QED
    BY <2>1, <2>2, <2>3
<1> HIDE DEF G
<1>4. \A n \in 0 .. Len(s) : n \in G
  BY <1>1, <1>2, <1>3, Induction, Zenon
<1>5. \A n \in 0 .. Len(s) : DOMAIN g[n].sponsor = DOMAIN r.sponsor
  BY <1>4 DEF G
<1>6. DOMAIN Consumed(r, s).sponsor = DOMAIN r.sponsor
  <2>1. Len(s) \in 0 .. Len(s)
    BY <1>1
  <2> QED
    BY <1>1, <1>5, <2>1
<1>7. \A n \in 0 .. Len(s) - 1 :
         g[n + 1].sponsor[x] = IF Names(s[n + 1], x) THEN SponsorOf(s[n + 1]) ELSE g[n].sponsor[x]
  <2> TAKE n \in 0 .. Len(s) - 1
  <2>1. x \in DOMAIN g[n].sponsor
    BY <1>1, <1>5
  <2>2. g[n + 1] = Apply(g[n], s[n + 1])
    BY <1>1
  <2> DEFINE y == Apply(g[n], s[n + 1])
  <2>3. y.sponsor[x] = IF Names(s[n + 1], x) THEN SponsorOf(s[n + 1]) ELSE g[n].sponsor[x]
    BY <2>1, SponsorsStep, Zenon
  <2> HIDE DEF y
  <2>4. g[n + 1] = y
    BY <2>2 DEF y
  <2> QED
    BY <2>3, <2>4
<1>8. ASSUME NEW w, \A e \in ToSet(s) : Names(e, x) => SponsorOf(e) = w
      PROVE  Consumed(r, s).sponsor[x]
             = IF \E e \in ToSet(s) : Names(e, x) THEN w ELSE r.sponsor[x]
  <2> DEFINE v == [n \in 0 .. Len(s) |-> g[n].sponsor[x]]
             W == {m \in 1 .. Len(s) : Names(s[m], x)}
  <2>1. \A n \in 0 .. Len(s) - 1 : v[n + 1] = IF n + 1 \in W THEN w ELSE v[n]
    <3> TAKE n \in 0 .. Len(s) - 1
    <3>1. v[n] = g[n].sponsor[x] /\ v[n + 1] = g[n + 1].sponsor[x]
      BY <1>1
    <3>2. n + 1 \in 1 .. Len(s)
      BY <1>1
    <3>3. s[n + 1] \in ToSet(s) /\ (n + 1 \in W <=> Names(s[n + 1], x))
      BY <1>1, <3>2
    <3> HIDE DEF v, W
    <3> QED
      BY <1>7, <1>8, <3>1, <3>3
  <2>2. (\E m \in 1 .. Len(s) : m \in W) <=> \E e \in ToSet(s) : Names(e, x)
    BY <1>1
  <2>3. v[0] = r.sponsor[x] /\ v[Len(s)] = Consumed(r, s).sponsor[x]
    BY <1>1
  <2> HIDE DEF v, W
  <2>4. Writes(v, Len(s), W, w)
    BY <1>1, <2>1 DEF Writes
  <2>5. v[Len(s)] = IF \E m \in 1 .. Len(s) : m \in W THEN w ELSE v[0]
    BY <2>4, Written, Zenon
  <2> QED
    BY <2>2, <2>3, <2>5
<1> QED
  BY <1>6, <1>8

BalanceTypes == {"account_created", "account_credited", "account_debited",
                 "contract_credited", "contract_debited"}

\* An effect that counts a trustline of somebody.
Counts(e) == e.type \in {"sponsorship_created", "sponsorship_removed"} /\ e.about[1] = "trustline"

\* Balances that no effect moves, and counts that none changes, stay.
LEMMA Untouched ==
    ASSUME NEW r, NEW s, IsSequence(s)
    PROVE  /\ (\A e \in ToSet(s) : e.type \notin BalanceTypes)
              => Consumed(r, s).balance = r.balance
           /\ (\A e \in ToSet(s) : ~Counts(e)) => Consumed(r, s).lines = r.lines
<1>1. PICK g : /\ g[0] = r /\ g[Len(s)] = Consumed(r, s) /\ Len(s) \in Nat
               /\ \A n \in 0 .. Len(s) - 1 :
                     n + 1 \in 1 .. Len(s) /\ g[n + 1] = Apply(g[n], s[n + 1])
               /\ \A e : e \in ToSet(s) <=> \E m \in 1 .. Len(s) : s[m] = e
  BY StepsAre, Zenon
<1>2. ASSUME \A e \in ToSet(s) : e.type \notin BalanceTypes
      PROVE  Consumed(r, s).balance = r.balance
  <2> DEFINE v == [n \in 0 .. Len(s) |-> g[n].balance]
  <2>1. \A n \in 0 .. Len(s) - 1 : v[n + 1] = v[n]
    <3> TAKE n \in 0 .. Len(s) - 1
    <3>1. v[n] = g[n].balance /\ v[n + 1] = g[n + 1].balance /\ s[n + 1].type \notin BalanceTypes
      BY <1>1, <1>2
    <3>2. g[n + 1] = Apply(g[n], s[n + 1])
      BY <1>1
    <3>3. BalanceAfter(g[n].balance, s[n + 1]) = g[n].balance
      BY <3>1 DEF BalanceAfter, BalanceTypes
    <3> HIDE DEF v
    <3> QED
      BY <3>1, <3>2, <3>3 DEF Apply
  <2>2. v[0] = r.balance /\ v[Len(s)] = Consumed(r, s).balance
    BY <1>1
  <2> HIDE DEF v
  <2>3. Writes(v, Len(s), {}, 0)
    BY <1>1, <2>1 DEF Writes
  <2>4. v[Len(s)] = v[0]
    BY <2>3, Written
  <2> QED
    BY <2>2, <2>4
<1>3. ASSUME \A e \in ToSet(s) : ~Counts(e)
      PROVE  Consumed(r, s).lines = r.lines
  <2> DEFINE v == [n \in 0 .. Len(s) |-> g[n].lines]
  <2>1. \A n \in 0 .. Len(s) - 1 : v[n + 1] = v[n]
    <3> TAKE n \in 0 .. Len(s) - 1
    <3>1. v[n] = g[n].lines /\ v[n + 1] = g[n + 1].lines /\ ~Counts(s[n + 1])
      BY <1>1, <1>3
    <3>2. g[n + 1] = Apply(g[n], s[n + 1])
      BY <1>1
    <3>3. LinesAfter(g[n].lines, s[n + 1]) = g[n].lines
      BY <3>1 DEF LinesAfter, Counts
    <3> HIDE DEF v
    <3> QED
      BY <3>1, <3>2, <3>3 DEF Apply
  <2>2. v[0] = r.lines /\ v[Len(s)] = Consumed(r, s).lines
    BY <1>1
  <2> HIDE DEF v
  <2>3. Writes(v, Len(s), {}, 0)
    BY <1>1, <2>1 DEF Writes
  <2>4. v[Len(s)] = v[0]
    BY <2>3, Written
  <2> QED
    BY <2>2, <2>4
<1> QED
  BY <1>2, <1>3

-----------------------------------------------------------------------------
(* The shape of the copy.                                                   *)

Replicas ==
    [alive   : SUBSET Keys,
     balance : [Holders -> Int],
     signers : [Accounts -> Weights],
     sponsor : [TheSponsored -> MaybeSponsor],
     lines   : [Users -> Int]]

\* An effect that keeps it.
Fits(e) ==
    /\ e.type \in Arrivals => EntryOf(e) \in Keys
    /\ e.type \in BalanceTypes => e.value \in Int
    /\ e.type \in Weighs => e.about \in ToSet(SignerOrder) /\ e.value \in 1 .. MaxWeight
    /\ e.type \in {"sponsorship_created", "sponsorship_updated"} => e.value \in MaybeSponsor

LEMMA WeightsAre ==
    \A f : f \in Weights <=> /\ f = [k \in DOMAIN f |-> f[k]]
                             /\ DOMAIN f \subseteq ToSet(SignerOrder)
                             /\ \A k \in DOMAIN f : f[k] \in 1 .. MaxWeight
<1>1. ASSUME NEW f, f \in Weights
      PROVE  /\ f = [k \in DOMAIN f |-> f[k]] /\ DOMAIN f \subseteq ToSet(SignerOrder)
             /\ \A k \in DOMAIN f : f[k] \in 1 .. MaxWeight
  <2>1. PICK keys \in SUBSET ToSet(SignerOrder) : f \in [keys -> 1 .. MaxWeight]
    BY <1>1 DEF Weights
  <2> QED
    BY <2>1
<1>2. ASSUME NEW f, f = [k \in DOMAIN f |-> f[k]], DOMAIN f \subseteq ToSet(SignerOrder),
             \A k \in DOMAIN f : f[k] \in 1 .. MaxWeight
      PROVE  f \in Weights
  <2>1. f \in [DOMAIN f -> 1 .. MaxWeight]
    BY <1>2
  <2> QED
    BY <1>2, <2>1 DEF Weights
<1> QED
  BY <1>1, <1>2

LEMMA SameWeights ==
    ASSUME NEW f \in Weights, NEW g \in Weights, \A k : WeightIn(f, k) = WeightIn(g, k)
    PROVE  f = g
<1>1. /\ f = [k \in DOMAIN f |-> f[k]] /\ \A k \in DOMAIN f : f[k] \in 1 .. MaxWeight
      /\ g = [k \in DOMAIN g |-> g[k]] /\ \A k \in DOMAIN g : g[k] \in 1 .. MaxWeight
  BY WeightsAre
<1>2. MaxWeight \in Nat
  BY BoundsAssumption
<1>3. \A k : /\ k \in DOMAIN f <=> WeightIn(f, k) # 0
             /\ k \in DOMAIN g <=> WeightIn(g, k) # 0
  BY <1>1, <1>2 DEF WeightIn
<1>4. DOMAIN f = DOMAIN g
  BY <1>3
<1>5. \A k \in DOMAIN f : f[k] = g[k]
  BY <1>4 DEF WeightIn
<1> QED
  BY <1>1, <1>4, <1>5

LEMMA NobodyWeighs == Nobody \in Weights /\ \A k : WeightIn(Nobody, k) = 0
<1>1. DOMAIN Nobody = {} /\ Nobody = [k \in DOMAIN Nobody |-> Nobody[k]]
  BY DEF Nobody
<1> QED
  BY <1>1, WeightsAre DEF WeightIn

LEMMA SignersFit ==
    ASSUME NEW signers \in [Accounts -> Weights], NEW e, Fits(e)
    PROVE  SignersAfter(signers, e) \in [Accounts -> Weights]
<1>1. ASSUME NEW f \in Weights, NEW a, NEW w, w \in Weights
      PROVE  [signers EXCEPT ![a] = w] \in [Accounts -> Weights]
  BY <1>1
<1>2. CASE e.type \in Resets
  <2>1. SignersAfter(signers, e) = [signers EXCEPT ![e.address] = Nobody]
    BY <1>2 DEF SignersAfter, Resets
  <2> QED
    BY <2>1, NobodyWeighs
<1>3. CASE e.type \in Weighs
  <2> DEFINE put(f) == [k \in DOMAIN f \cup {e.about} |-> IF k = e.about THEN e.value ELSE f[k]]
  <2>1. SignersAfter(signers, e) = [signers EXCEPT ![e.address] = put(@)]
    BY <1>3 DEF SignersAfter, Weighs, Resets
  <2>2. ASSUME NEW f \in Weights PROVE put(f) \in Weights
    <3>1. /\ DOMAIN f \subseteq ToSet(SignerOrder)
          /\ \A k \in DOMAIN f : f[k] \in 1 .. MaxWeight
      BY WeightsAre
    <3>2. e.about \in ToSet(SignerOrder) /\ e.value \in 1 .. MaxWeight
      BY <1>3 DEF Fits
    <3>3. /\ put(f) = [k \in DOMAIN put(f) |-> put(f)[k]]
          /\ DOMAIN put(f) \subseteq ToSet(SignerOrder)
          /\ \A k \in DOMAIN put(f) : put(f)[k] \in 1 .. MaxWeight
      BY <3>1, <3>2
    <3> HIDE DEF put
    <3> QED
      BY <3>3, WeightsAre
  <2> HIDE DEF put
  <2> QED
    BY <2>1, <2>2
<1>4. CASE e.type = "signer_removed"
  <2> DEFINE take(f) == [k \in DOMAIN f \ {e.about} |-> f[k]]
  <2>1. SignersAfter(signers, e) = [signers EXCEPT ![e.address] = take(@)]
    BY <1>4 DEF SignersAfter
  <2>2. ASSUME NEW f \in Weights PROVE take(f) \in Weights
    <3>1. /\ DOMAIN f \subseteq ToSet(SignerOrder)
          /\ \A k \in DOMAIN f : f[k] \in 1 .. MaxWeight
      BY WeightsAre
    <3>2. /\ take(f) = [k \in DOMAIN take(f) |-> take(f)[k]]
          /\ DOMAIN take(f) \subseteq ToSet(SignerOrder)
          /\ \A k \in DOMAIN take(f) : take(f)[k] \in 1 .. MaxWeight
      BY <3>1
    <3> HIDE DEF take
    <3> QED
      BY <3>2, WeightsAre
  <2> HIDE DEF take
  <2> QED
    BY <2>1, <2>2
<1>5. CASE e.type \notin Resets \cup Weighs \cup {"signer_removed"}
  BY <1>5 DEF SignersAfter, Resets, Weighs
<1> QED
  BY <1>2, <1>3, <1>4, <1>5

LEMMA Fitting ==
    ASSUME NEW r \in Replicas, NEW e, Fits(e)
    PROVE  Apply(r, e) \in Replicas
<1>1. /\ r.alive \in SUBSET Keys /\ r.balance \in [Holders -> Int]
      /\ r.signers \in [Accounts -> Weights] /\ r.sponsor \in [TheSponsored -> MaybeSponsor]
      /\ r.lines \in [Users -> Int]
  BY DEF Replicas
<1>2. AliveAfter(r.alive, e) \in SUBSET Keys
  BY <1>1 DEF AliveAfter, Fits
<1>3. BalanceAfter(r.balance, e) \in [Holders -> Int]
  <2>1. ASSUME NEW holder, NEW asset, NEW d \in Int
        PROVE  Add(r.balance, holder, asset, d) \in [Holders -> Int]
    BY <1>1 DEF Add
  <2>2. CASE e.type \in BalanceTypes
    <3>1. e.value \in Int /\ -e.value \in Int
      BY <2>2 DEF Fits
    <3>2. [r.balance EXCEPT ![<< e.address, Native >>] = e.value] \in [Holders -> Int]
      BY <1>1, <3>1
    <3> QED
      BY <2>1, <2>2, <3>1, <3>2 DEF BalanceAfter, BalanceTypes
  <2>3. CASE e.type \notin BalanceTypes
    BY <1>1, <2>3 DEF BalanceAfter, BalanceTypes
  <2> QED
    BY <2>2, <2>3
<1>4. SignersAfter(r.signers, e) \in [Accounts -> Weights]
  BY <1>1, SignersFit
<1>5. SponsorsAfter(r.sponsor, e) \in [TheSponsored -> MaybeSponsor]
  <2>1. NoSponsor \in MaybeSponsor
    BY DEF MaybeSponsor
  <2> QED
    BY <1>1, <2>1 DEF SponsorsAfter, Fits
<1>6. LinesAfter(r.lines, e) \in [Users -> Int]
  <2>1. ASSUME NEW a, NEW d \in {1, -1}
        PROVE  [r.lines EXCEPT ![a] = @ + d] \in [Users -> Int]
    <3> DEFINE new == [r.lines EXCEPT ![a] = @ + d]
    <3>1. DOMAIN new = Users /\ new = [b \in Users |-> new[b]]
      BY <1>1
    <3>2. \A b \in Users : new[b] = IF b = a THEN r.lines[b] + d ELSE r.lines[b]
      BY <1>1
    <3>3. \A b \in Users : new[b] \in Int
      BY <1>1, <3>2
    <3> HIDE DEF new
    <3>4. new \in [Users -> Int]
      BY <3>1, <3>3
    <3> QED
      BY <3>4 DEF new
  <2>2. /\ \A a : [r.lines EXCEPT ![a] = @ + 1] \in [Users -> Int]
        /\ \A a : [r.lines EXCEPT ![a] = @ - 1] \in [Users -> Int]
    <3>1. \A a : [r.lines EXCEPT ![a] = @ + (-1)] \in [Users -> Int]
      BY <2>1
    <3>2. ASSUME NEW a PROVE [r.lines EXCEPT ![a] = @ - 1] = [r.lines EXCEPT ![a] = @ + (-1)]
      BY <1>1
    <3> QED
      BY <2>1, <3>1, <3>2
  <2> QED
    BY <1>1, <2>2 DEF LinesAfter
<1> QED
  BY <1>2, <1>3, <1>4, <1>5, <1>6 DEF Apply, Replicas

LEMMA FittingAll ==
    ASSUME NEW r \in Replicas, NEW s, IsSequence(s), \A e \in ToSet(s) : Fits(e)
    PROVE  Consumed(r, s) \in Replicas
<1>1. PICK g : /\ g[0] = r /\ g[Len(s)] = Consumed(r, s) /\ Len(s) \in Nat
               /\ \A n \in 0 .. Len(s) - 1 :
                     n + 1 \in 1 .. Len(s) /\ g[n + 1] = Apply(g[n], s[n + 1])
               /\ \A e : e \in ToSet(s) <=> \E m \in 1 .. Len(s) : s[m] = e
  BY StepsAre, Zenon
<1> DEFINE G == {n \in 0 .. Len(s) : g[n] \in Replicas}
<1>2. 0 \in G
  BY <1>1
<1>3. ASSUME NEW n \in 0 .. Len(s) - 1, n \in G PROVE n + 1 \in G
  <2>1. n + 1 \in 0 .. Len(s) /\ Fits(s[n + 1]) /\ g[n + 1] = Apply(g[n], s[n + 1])
    BY <1>1
  <2>2. g[n] \in Replicas
    BY <1>3
  <2>3. Apply(g[n], s[n + 1]) \in Replicas
    BY <2>1, <2>2, Fitting, Zenon
  <2> QED
    BY <2>1, <2>3
<1> HIDE DEF G
<1>4. \A n \in 0 .. Len(s) : n \in G
  BY <1>1, <1>2, <1>3, Induction, Zenon
<1>5. Len(s) \in 0 .. Len(s)
  BY <1>1
<1> QED
  BY <1>1, <1>4, <1>5 DEF G

-----------------------------------------------------------------------------
(* The effects in a list.                                                   *)

LEMMA ElementsJoined ==
    ASSUME NEW s, IsSequence(s), NEW u, IsSequence(u)
    PROVE  IsSequence(s \o u) /\ ToSet(s \o u) = ToSet(s) \cup ToSet(u)
<1>1. PICK w : Joins(w, s, u)
  BY DEF Joins
<1>2. /\ IsSequence(w) /\ Len(w) = Len(s) + Len(u)
      /\ \A m \in 1 .. Len(s) : w[m] = s[m]
      /\ \A m \in 1 .. Len(u) : w[Len(s) + m] = u[m]
      /\ \A m \in 1 .. Len(w) : m \in 1 .. Len(s) \/ \E k \in 1 .. Len(u) : m = Len(s) + k
  BY <1>1, JoinedTo
<1>3. /\ DOMAIN s = 1 .. Len(s) /\ DOMAIN u = 1 .. Len(u) /\ DOMAIN w = 1 .. Len(w)
      /\ Len(s) \in Nat /\ Len(u) \in Nat
  BY <1>2, OwnElements DEF IsSequence
<1>4. ASSUME NEW e \in ToSet(w) PROVE e \in ToSet(s) \cup ToSet(u)
  <2>1. PICK m \in 1 .. Len(w) : e = w[m]
    BY <1>3 DEF ToSet
  <2>2. CASE m \in 1 .. Len(s)
    BY <1>2, <1>3, <2>1, <2>2 DEF ToSet
  <2>3. ASSUME NEW k \in 1 .. Len(u), m = Len(s) + k PROVE e \in ToSet(u)
    BY <1>2, <1>3, <2>1, <2>3 DEF ToSet
  <2> QED
    BY <1>2, <2>2, <2>3
<1>5. ASSUME NEW e \in ToSet(s) PROVE e \in ToSet(w)
  <2>1. PICK m \in 1 .. Len(s) : e = s[m]
    BY <1>3 DEF ToSet
  <2>2. m \in 1 .. Len(w) /\ w[m] = e
    BY <1>2, <1>3, <2>1
  <2> QED
    BY <1>3, <2>2 DEF ToSet
<1>6. ASSUME NEW e \in ToSet(u) PROVE e \in ToSet(w)
  <2>1. PICK m \in 1 .. Len(u) : e = u[m]
    BY <1>3 DEF ToSet
  <2>2. Len(s) + m \in 1 .. Len(w) /\ w[Len(s) + m] = e
    BY <1>2, <1>3, <2>1
  <2> QED
    BY <1>3, <2>2 DEF ToSet
<1>7. ToSet(w) = ToSet(s) \cup ToSet(u)
  BY <1>4, <1>5, <1>6
<1> QED
  BY <1>1, <1>2, <1>7, Zenon DEF Joins

LEMMA Elements ==
    /\ IsSequence(<< >>) /\ ToSet(<< >>) = {}
    /\ \A a : IsSequence(<< a >>) /\ ToSet(<< a >>) = {a}
    /\ \A a, b : IsSequence(<< a, b >>) /\ ToSet(<< a, b >>) = {a, b}
    /\ \A a, b, c : IsSequence(<< a, b, c >>) /\ ToSet(<< a, b, c >>) = {a, b, c}
<1>1. ToSet(<< >>) = {}
  BY DEF ToSet
<1>2. \A a : ToSet(<< a >>) = {a}
  BY DEF ToSet
<1>3. ASSUME NEW a, NEW b PROVE IsSequence(<< a, b >>) /\ ToSet(<< a, b >>) = {a, b}
  <2>1. << a, b >> \in Seq({a, b})
    OBVIOUS
  <2>2. ToSet(<< a, b >>) = {a, b}
    BY DEF ToSet
  <2> QED
    BY <2>1, <2>2, OwnElements
<1>4. ASSUME NEW a, NEW b, NEW c
      PROVE  IsSequence(<< a, b, c >>) /\ ToSet(<< a, b, c >>) = {a, b, c}
  <2>1. << a, b, c >> \in Seq({a, b, c})
    OBVIOUS
  <2>2. ToSet(<< a, b, c >>) = {a, b, c}
    BY DEF ToSet
  <2> QED
    BY <2>1, <2>2, OwnElements
<1> QED
  BY <1>1, <1>2, <1>3, <1>4, SmallSequences

LEMMA PairJoined ==
    ASSUME NEW a, NEW b
    PROVE  << a >> \o << b >> = << a, b >>
<1>1. PICK w : w = << a >> \o << b >>
  OBVIOUS
<1>2. Len(<< a >>) = 1 /\ << a >>[1] = a /\ Len(<< b >>) = 1 /\ << b >>[1] = b
  OBVIOUS
<1>3. IsSequence(w) /\ Len(w) = 2 /\ w[1] = a /\ w[1 + 1] = b
  BY <1>1, <1>2, SmallSequences, JoinedIs
<1>4. w = << a, b >>
  BY <1>3 DEF IsSequence
<1> QED
  BY <1>1, <1>4

\* Lists joined to one have together what each has.
LEMMA ElementsFlattened ==
    ASSUME NEW s, IsSequence(s), NEW all, Along(all, s), \A n \in 1 .. Len(s) : IsSequence(all[n])
    PROVE  /\ IsSequence(FlattenSeq(all))
           /\ \A e : e \in ToSet(FlattenSeq(all)) <=> \E n \in 1 .. Len(s) : e \in ToSet(all[n])
<1>1. PICK T : all \in Seq(Seq(T)) /\ FlattenSeq(all) \in Seq(T)
  BY FlattenSequence
<1>2. Len(all) = Len(s) /\ Len(s) \in Nat
  <2>1. \A n \in 1 .. Len(s) : all[n] \in {all[m] : m \in 1 .. Len(s)}
    OBVIOUS
  <2> QED
    BY <2>1, AlongTyped
<1>3. PICK g : JoinsUp(g, all, T)
  BY <1>1, FlattenPrefixes
<1> DEFINE G == {n \in 0 .. Len(s) :
                   \A e : e \in ToSet(g[n]) <=> \E m \in 1 .. n : e \in ToSet(all[m])}
<1>4. 0 \in G
  BY <1>2, <1>3, Elements DEF JoinsUp
<1>5. ASSUME NEW n \in 0 .. Len(s) - 1, n \in G PROVE n + 1 \in G
  <2>0. n \in 0 .. Len(all) - 1 /\ n \in 0 .. Len(all) /\ n + 1 \in 1 .. Len(s)
    BY <1>2
  <2>a. g[n + 1] = g[n] \o all[n + 1]
    BY <1>3, <2>0, Zenon DEF JoinsUp
  <2>1. g[n] \in Seq(T) /\ n + 1 \in 1 .. Len(s)
    BY <1>3, <2>0 DEF JoinsUp
  <2>2. IsSequence(g[n]) /\ IsSequence(all[n + 1])
    BY <2>1, OwnElements
  <2>3. ToSet(g[n] \o all[n + 1]) = ToSet(g[n]) \cup ToSet(all[n + 1])
    BY <2>2, ElementsJoined
  <2>4. \A e : e \in ToSet(g[n + 1]) <=> e \in ToSet(g[n]) \/ e \in ToSet(all[n + 1])
    BY <2>a, <2>3, Zenon
  <2>5. \A e : e \in ToSet(g[n]) <=> \E m \in 1 .. n : e \in ToSet(all[m])
    BY <1>5
  <2>6. \A m : m \in 1 .. n + 1 <=> m \in 1 .. n \/ m = n + 1
    BY <1>2
  <2>7. \A e : e \in ToSet(g[n + 1]) <=> \E m \in 1 .. n + 1 : e \in ToSet(all[m])
    BY <2>4, <2>5, <2>6, Zenon
  <2>8. n + 1 \in 0 .. Len(s)
    BY <1>2
  <2> QED
    BY <2>7, <2>8
<1> HIDE DEF G
<1>6. \A n \in 0 .. Len(s) : n \in G
  BY <1>2, <1>4, <1>5, Induction, Zenon
<1>7. Len(s) \in G
  BY <1>2, <1>6
<1>8. g[Len(s)] = FlattenSeq(all)
  BY <1>2, <1>3 DEF JoinsUp
<1>9. IsSequence(FlattenSeq(all))
  BY <1>1, OwnElements
<1> QED
  BY <1>7, <1>8, <1>9 DEF G

\* The effects of an operation that does not trade come after each other: its
\* own, and what its changes add.
LEMMA OwnThenChanges ==
    ASSUME NEW op, WellFormed(op), ~Trading(op)
    PROVE  /\ IsSequence(OperationEffects(op)) /\ IsSequence(ChangeEffects(op))
           /\ \A r : Consumed(r, EffectsOf(op))
                     = Consumed(Consumed(r, OperationEffects(op)), ChangeEffects(op))
<1>1. IsSequence(OperationEffects(op)) /\ IsSequence(ChangeEffects(op))
  BY PlainOperation, PlainChanges DEF Plain
<1>2. EffectsOf(op) = OperationEffects(op) \o ChangeEffects(op)
  BY EffectsAre
<1>3. ASSUME NEW r
      PROVE  Consumed(r, OperationEffects(op) \o ChangeEffects(op))
             = Consumed(Consumed(r, OperationEffects(op)), ChangeEffects(op))
  BY <1>1, ConsumedJoined
<1> QED
  BY <1>1, <1>2, <1>3, Zenon

LEMMA ChangesAdd ==
    ASSUME NEW op, WellFormed(op)
    PROVE  \A e : e \in ToSet(ChangeEffects(op)) <=>
                     \E c \in ToSet(op.changes) :
                        e \in ToSet(SponsorshipEffects(op, c)) \cup ToSet(PoolLifecycleEffects(op, c))
<1> DEFINE of(c) == SponsorshipEffects(op, c) \o PoolLifecycleEffects(op, c)
           all == [i \in DOMAIN op.changes |-> of(op.changes[i])]
<1>1. ChangeEffects(op) = FlattenSeq(all)
  BY DEF ChangeEffects, ForEach
<1>2. \A c : IsSequence(SponsorshipEffects(op, c))
  BY Elements DEF SponsorshipEffects
<1>3. \A c : IsSequence(PoolLifecycleEffects(op, c))
  BY Elements DEF PoolLifecycleEffects
<1>4. \A c : /\ IsSequence(of(c))
             /\ ToSet(of(c)) = ToSet(SponsorshipEffects(op, c)) \cup ToSet(PoolLifecycleEffects(op, c))
  BY <1>2, <1>3, ElementsJoined
<1> HIDE DEF of
<1>5. IsSequence(op.changes) /\ DOMAIN op.changes = 1 .. Len(op.changes)
  BY OwnElements DEF WellFormed, IsSequence
<1>6. Along(all, op.changes) /\ \A n \in 1 .. Len(op.changes) :
         IsSequence(all[n]) /\ all[n] = of(op.changes[n])
  BY <1>4, <1>5 DEF Along
<1> HIDE DEF all
<1>7. \A e : e \in ToSet(FlattenSeq(all)) <=> \E n \in 1 .. Len(op.changes) : e \in ToSet(all[n])
  BY <1>5, <1>6, ElementsFlattened
<1>8. \A c : c \in ToSet(op.changes) <=> \E n \in 1 .. Len(op.changes) : op.changes[n] = c
  BY <1>5 DEF ToSet
<1> QED
  BY <1>1, <1>4, <1>6, <1>7, <1>8

-----------------------------------------------------------------------------
(* The ledger.                                                              *)

LEMMA KeyFields ==
    \A type, owner, id : /\ Key(type, owner, id).type = type
                         /\ Key(type, owner, id).owner = owner
                         /\ Key(type, owner, id).id = id
BY DEF Key

LEMMA KeyTypes ==
    /\ \A a : AccountKey(a).type = "account" /\ AccountKey(a).owner = a /\ AccountKey(a).id = a
    /\ \A a, s : LineKey(a, s).type = "trustline" /\ LineKey(a, s).owner = a /\ LineKey(a, s).id = s
    /\ \A a : DataKey(a).type = "data" /\ DataKey(a).owner = a /\ DataKey(a).id = Name
    /\ \A b : ClaimableKey(b).type = "claimable_balance" /\ ClaimableKey(b).id = b
    /\ PoolKey.type = "liquidity_pool"
    /\ HeldKey.type = "contract_data"
BY KeyFields DEF AccountKey, LineKey, DataKey, ClaimableKey, PoolKey, HeldKey

\* Keys of each type.
LEMMA KeysAre ==
    /\ \A a \in Accounts : AccountKey(a) \in Keys
    /\ \A a \in Users : /\ LineKey(a, Credit) \in Keys /\ LineKey(a, PoolShare) \in Keys
                        /\ DataKey(a) \in Keys
    /\ \A b \in Claimable : ClaimableKey(b) \in Keys
    /\ PoolKey \in Keys /\ HeldKey \in Keys
    /\ \A k \in Keys :
          /\ k.type = "account" => k.owner \in Accounts /\ k = AccountKey(k.owner) /\ k.id = k.owner
          /\ k.type = "trustline" => /\ k.owner \in Users /\ k = LineKey(k.owner, k.id)
                                     /\ k.id \in {Credit, PoolShare}
          /\ k.type = "data" => k.owner \in Users /\ k = DataKey(k.owner)
          /\ k.type = "claimable_balance" => k.id \in Claimable /\ k = ClaimableKey(k.id)
          /\ k.type = "liquidity_pool" => k = PoolKey
          /\ k.type \notin {"account", "trustline", "data", "claimable_balance", "liquidity_pool"}
             => k = HeldKey
<1>1. /\ \A a \in Accounts : AccountKey(a) \in Keys
      /\ \A a \in Users : /\ LineKey(a, Credit) \in Keys /\ LineKey(a, PoolShare) \in Keys
                          /\ DataKey(a) \in Keys
      /\ \A b \in Claimable : ClaimableKey(b) \in Keys
      /\ PoolKey \in Keys /\ HeldKey \in Keys
  BY DEF Keys
<1>2. ASSUME NEW k \in Keys
      PROVE  \/ \E a \in Accounts : k = AccountKey(a)
             \/ \E a \in Users, s \in {Credit, PoolShare} : k = LineKey(a, s)
             \/ \E a \in Users : k = DataKey(a)
             \/ \E b \in Claimable : k = ClaimableKey(b)
             \/ k = PoolKey \/ k = HeldKey
  BY DEF Keys
<1>3. ASSUME NEW k \in Keys
      PROVE  /\ k.type = "account" => k.owner \in Accounts /\ k = AccountKey(k.owner)
                                      /\ k.id = k.owner
             /\ k.type = "trustline" => /\ k.owner \in Users /\ k = LineKey(k.owner, k.id)
                                        /\ k.id \in {Credit, PoolShare}
             /\ k.type = "data" => k.owner \in Users /\ k = DataKey(k.owner)
             /\ k.type = "claimable_balance" => k.id \in Claimable /\ k = ClaimableKey(k.id)
             /\ k.type = "liquidity_pool" => k = PoolKey
             /\ k.type \notin {"account", "trustline", "data", "claimable_balance",
                               "liquidity_pool"} => k = HeldKey
  <2>1. CASE \E a \in Accounts : k = AccountKey(a)
    BY <2>1, KeyTypes
  <2>2. CASE \E a \in Users, s \in {Credit, PoolShare} : k = LineKey(a, s)
    BY <2>2, KeyTypes
  <2>3. CASE \E a \in Users : k = DataKey(a)
    BY <2>3, KeyTypes
  <2>4. CASE \E b \in Claimable : k = ClaimableKey(b)
    BY <2>4, KeyTypes
  <2>5. CASE k = PoolKey \/ k = HeldKey
    BY <2>5, KeyTypes
  <2> QED
    BY <1>2, <2>1, <2>2, <2>3, <2>4, <2>5
<1> QED
  BY <1>1, <1>3

LEMMA NamesAre ==
    /\ Root \in Accounts /\ Backer \in Accounts /\ Root # Backer /\ Users \subseteq Accounts
    /\ Root \notin Users /\ Backer \notin Users /\ Contract \notin Accounts
    /\ Actors \subseteq Accounts /\ Root \in Actors /\ Users \subseteq Actors
    /\ \A a \in Actors : a = Root \/ a \in Users
    /\ Sponsors \subseteq Accounts /\ NoSponsor \notin Sponsors
    /\ Native # Credit /\ Credit # PoolShare
BY NamesAssumption DEF Users, Actors, Sponsors

Typed == /\ DOMAIN entries = Keys
         /\ \A k \in Keys : entries[k] \in EntryType(k) \cup {NoEntry}

LEMMA EntriesAre ==
    ASSUME NEW e, NEW k \in Keys
    PROVE  /\ k.type = "account" =>
                 (e \in EntryType(k) <=>
                     e \in [balance : Int, signers : Weights, sponsor : MaybeSponsor])
           /\ k.type = "trustline" =>
                 (e \in EntryType(k) <=>
                     e \in [balance : Int, uses : Int, limit : Int, sponsor : MaybeSponsor])
           /\ k.type = "data" =>
                 (e \in EntryType(k) <=> e \in [value : Int, sponsor : MaybeSponsor])
           /\ k.type = "claimable_balance" =>
                 (e \in EntryType(k) <=>
                     e \in [amount : Int, asset : {Native, Credit}, claimants : {Claimants},
                            sponsor : MaybeSponsor])
           /\ k.type = "liquidity_pool" =>
                 (e \in EntryType(k) <=> e \in [lines : Int, sponsor : {NoSponsor}])
           /\ k = HeldKey => (e \in EntryType(k) <=> e \in [balance : Int, sponsor : {NoSponsor}])
           /\ e \in EntryType(k) => e # NoEntry /\ e.sponsor \in MaybeSponsor
           /\ e \in EntryType(k) \cup {NoEntry} => Sponsor(e) \in MaybeSponsor
<1>1. HeldKey.type = "contract_data"
  BY KeyTypes
<1>2. NoSponsor \in MaybeSponsor
  BY DEF MaybeSponsor
<1>3. e \in EntryType(k) => e.sponsor \in MaybeSponsor
  BY <1>2 DEF EntryType
<1>4. e \in EntryType(k) => e # NoEntry
  BY NamesAssumption
<1> QED
  BY <1>1, <1>2, <1>3, <1>4 DEF EntryType, Sponsor

LEMMA ClaimantsAre == IsSequence(Claimants)
<1>1. IsFiniteSet(Users)
  BY NamesAssumption, FS_Subset DEF Users
<1> DEFINE N == Cardinality(Users)
<1>2. N \in Nat /\ ExistsBijection(1 .. N, Users)
  BY <1>1, FS_CardinalityType
<1>3. PICK f : f \in Bijection(1 .. N, Users)
  BY <1>2 DEF ExistsBijection
<1>4. f \in [1 .. N -> Users] /\ IsInjective(f)
  BY <1>3 DEF Bijection, Injection
<1>5. SetToSeq(Users) \in [1 .. N -> Users]
  BY <1>4 DEF SetToSeq
<1>6. SetToSeq(Users) \in Seq(Users)
  BY <1>2, <1>5
<1>7. IsSequence(SetToSeq(Users)) /\ IsSequence(<< Root >>)
  BY <1>6, OwnElements, Elements
<1> QED
  BY <1>7, ElementsJoined, Zenon DEF Claimants

\* Every order of a set has each of its elements once.
LEMMA OrdersAre ==
    ASSUME NEW S, IsFiniteSet(S), NEW order \in SetToSeqs(S)
    PROVE  /\ IsSequence(order) /\ ToSet(order) = S
           /\ \A i, j \in 1 .. Len(order) : i # j => order[i] # order[j]
<1> DEFINE N == Cardinality(S)
<1>1. N \in Nat
  BY FS_CardinalityType
<1>2. order \in [1 .. N -> S] /\ \A i, j \in 1 .. N : i # j => order[i] # order[j]
  BY DEF SetToSeqs
<1>3. order \in Seq(S)
  BY <1>1, <1>2
<1>4. IsSequence(order)
  BY <1>3, OwnElements
<1>5. IsFiniteSet(1 .. N) /\ Cardinality(1 .. N) = N
  <2>1. 1 \in Int /\ N \in Int
    BY <1>1
  <2>2. IsFiniteSet(1 .. N) /\ Cardinality(1 .. N) = IF 1 > N THEN 0 ELSE N - 1 + 1
    BY <2>1, FS_Interval
  <2> QED
    BY <1>1, <2>2
<1>6. order \in Injection(1 .. N, S)
  BY <1>2 DEF Injection, IsInjective
<1>7. order \in Surjection(1 .. N, S)
  BY <1>5, <1>6, FS_Injection
<1>8. \A t \in S : \E n \in 1 .. N : order[n] = t
  BY <1>7 DEF Surjection
<1>9. ToSet(order) = S
  BY <1>2, <1>8 DEF ToSet
<1>10. \A i, j \in 1 .. Len(order) : i # j => order[i] # order[j]
  BY <1>1, <1>2
<1> QED
  BY <1>4, <1>9, <1>10

\* What an operation is given, before its changes are known.
Fields == {"kind", "source", "dest", "amount", "asset", "options", "entry", "claims",
           "assetEvents", "changes", "readable", "eventsReadable", "network"}

Bare(op) ==
    /\ op = [f \in Fields |-> op[f]]
    /\ op.claims = << >> /\ op.options = << >> /\ op.changes = << >>
    /\ op.readable = TRUE /\ op.eventsReadable = TRUE /\ op.network = TRUE
    /\ IsSequence(op.assetEvents)
    /\ op.kind \notin {"inflation", "offer", "path_payment"}

\* What an operation leaves behind: the issuer and the contract's balance stay,
\* nobody sponsors a pool share.
Kept(k, e) ==
    /\ k \in {AccountKey(Root), HeldKey} => e # NoEntry
    /\ k.type = "trustline" /\ k.id = PoolShare => Sponsor(e) = NoSponsor

Leaves(after) ==
    /\ DOMAIN after \subseteq Keys /\ IsFiniteSet(DOMAIN after)
    /\ \A k \in DOMAIN after : after[k] \in EntryType(k) \cup {NoEntry}
    /\ \A k \in DOMAIN after : Kept(k, after[k])

ChangesOf(after) == {[key |-> k, pre |-> entries[k], post |-> after[k]] : k \in DOMAIN after}

\* The operation as it is read: with its changes or without, whole or in part.
Same(o, op) ==
    /\ o.kind = op.kind /\ o.source = op.source /\ o.dest = op.dest /\ o.amount = op.amount
    /\ o.asset = op.asset /\ o.options = << >> /\ o.entry = op.entry
    /\ o.assetEvents = op.assetEvents

Read(o, after) ==
    /\ o.readable = TRUE
    /\ IsSequence(o.changes) /\ ToSet(o.changes) = ChangesOf(after)
    /\ \A i, j \in 1 .. Len(o.changes) : i # j => o.changes[i] # o.changes[j]

Known(o) == o.network /\ o.eventsReadable

Unread(o) == o.readable = FALSE /\ o.eventsReadable = FALSE /\ o.changes = << >>

Marked(o) == Cardinality(unread) < MaxUnread /\ unread' = unread \cup {o.kind}

Done(o, after) ==
    /\ WellFormed(o) /\ ~Trading(o)
    /\ Leaves(after)
    /\ \/ Read(o, after) /\ Known(o) /\ unread' = unread
       \/ Unread(o) /\ Marked(o)
       \/ o.kind = "invoke" /\ Read(o, after) /\ ~Known(o) /\ Marked(o)
    /\ ops < MaxOps /\ ops' = ops + 1
    /\ entries' = With(after, entries)
    /\ replica' = Consumed(replica, EffectsOf(o))

LEMMA ChangesAreFinite ==
    ASSUME NEW after, Leaves(after)
    PROVE  IsFiniteSet(ChangesOf(after))
<1> DEFINE g == [k \in DOMAIN after |-> [key |-> k, pre |-> entries[k], post |-> after[k]]]
<1>1. g \in Surjection(DOMAIN after, ChangesOf(after))
  BY DEF Surjection, ChangesOf
<1> HIDE DEF g
<1> QED
  BY <1>1, FS_Surjection DEF Leaves

LEMMA Performed ==
    ASSUME NEW op, Bare(op), NEW after, Leaves(after), Perform(op, after)
    PROVE  \E o : Same(o, op) /\ Done(o, after)
<1> DEFINE change(k)     == [key |-> k, pre |-> entries[k], post |-> after[k]]
           touched       == {change(k) : k \in DOMAIN after}
           read(changes) == [op EXCEPT !.changes = changes]
           lost(changes) == [op EXCEPT !.changes = changes, !.network = FALSE]
           blind         == [op EXCEPT !.readable = FALSE, !.eventsReadable = FALSE]
<1>1. /\ ops < MaxOps /\ ops' = ops + 1 /\ entries' = With(after, entries)
      /\ \/ /\ \E order \in SetToSeqs(touched) :
                  replica' = Consumed(replica, EffectsOf(read(order)))
            /\ unread' = unread
         \/ /\ Cardinality(unread) < MaxUnread
            /\ unread' = unread \cup {op.kind}
            /\ replica' = Consumed(replica, EffectsOf(blind))
         \/ /\ op.kind = "invoke" /\ Cardinality(unread) < MaxUnread
            /\ unread' = unread \cup {op.kind}
            /\ \E order \in SetToSeqs(touched) :
                  replica' = Consumed(replica, EffectsOf(lost(order)))
  BY DEF Perform
<1>2. touched = ChangesOf(after)
  BY DEF ChangesOf
<1>3. \A changes : /\ Same(read(changes), op) /\ read(changes).changes = changes
                   /\ read(changes).readable = TRUE /\ read(changes).claims = << >>
                   /\ Known(read(changes))
  BY DEF Bare, Fields, Same, Known
<1>4. /\ Same(blind, op) /\ blind.changes = << >> /\ Unread(blind)
      /\ blind.claims = << >>
  BY DEF Bare, Fields, Same, Unread
<1>8. \A changes : /\ Same(lost(changes), op) /\ lost(changes).changes = changes
                   /\ lost(changes).readable = TRUE /\ lost(changes).claims = << >>
                   /\ ~Known(lost(changes))
  BY DEF Bare, Fields, Same, Known
<1> HIDE DEF read, lost, blind, touched
<1>5. ASSUME NEW o, Same(o, op), o.claims = << >>, IsSequence(o.changes),
             \A c \in ToSet(o.changes) : c \in ChangesOf(after),
             o.readable = TRUE \/ (o.readable = FALSE /\ o.changes = << >>)
      PROVE  WellFormed(o) /\ ~Trading(o)
  <2>1. o.kind \notin {"inflation", "offer", "path_payment"} /\ IsSequence(o.assetEvents)
    BY <1>5 DEF Same, Bare
  <2>2. IsSequence(o.claims) /\ ToSet(o.claims) = {} /\ o.options \in Seq(OptionEffects)
    BY <1>5, Elements DEF Same
  <2>3. ASSUME NEW c \in ToSet(o.changes), c.key.type = "claimable_balance", c.post # NoEntry
        PROVE  IsSequence(c.post.claimants)
    <3>1. PICK k \in DOMAIN after : c = [key |-> k, pre |-> entries[k], post |-> after[k]]
      BY <1>5 DEF ChangesOf
    <3>2. k \in Keys /\ k.type = "claimable_balance" /\ after[k] \in EntryType(k) /\ c.post = after[k]
      BY <2>3, <3>1 DEF Leaves
    <3>3. c.post.claimants = Claimants
      BY <3>2 DEF EntryType
    <3> QED
      BY <3>3, ClaimantsAre
  <2> QED
    BY <1>5, <2>1, <2>2, <2>3 DEF WellFormed, Trading
<1>6. CASE \E order \in SetToSeqs(touched) :
              replica' = Consumed(replica, EffectsOf(read(order))) /\ unread' = unread
  <2>1. PICK order \in SetToSeqs(touched) :
           replica' = Consumed(replica, EffectsOf(read(order))) /\ unread' = unread
    BY <1>6
  <2>2. /\ IsSequence(order) /\ ToSet(order) = ChangesOf(after)
        /\ \A i, j \in 1 .. Len(order) : i # j => order[i] # order[j]
    BY <1>2, <2>1, ChangesAreFinite, OrdersAre
  <2>3. Read(read(order), after)
    BY <1>3, <2>1, <2>2 DEF Read
  <2>4. WellFormed(read(order)) /\ ~Trading(read(order))
    <3>1. IsSequence(read(order).changes) /\ \A c \in ToSet(read(order).changes) : c \in ChangesOf(after)
      BY <1>3, <2>2
    <3> QED
      BY <1>3, <1>5, <3>1
  <2>5. Done(read(order), after)
    BY <1>1, <1>3, <2>1, <2>3, <2>4 DEF Done
  <2> QED
    BY <1>3, <2>5
<1>7. CASE /\ Cardinality(unread) < MaxUnread /\ unread' = unread \cup {op.kind}
           /\ replica' = Consumed(replica, EffectsOf(blind))
  <2>1. Unread(blind) /\ Marked(blind)
    BY <1>4, <1>7 DEF Marked, Same
  <2>2. WellFormed(blind) /\ ~Trading(blind)
    <3>1. IsSequence(blind.changes) /\ \A c \in ToSet(blind.changes) : c \in ChangesOf(after)
      BY <1>4, Elements
    <3>2. blind.readable = FALSE /\ blind.changes = << >>
      BY <1>4 DEF Unread
    <3> QED
      BY <1>4, <1>5, <3>1, <3>2
  <2>3. Done(blind, after)
    BY <1>1, <1>7, <2>1, <2>2 DEF Done
  <2> QED
    BY <1>4, <2>3
<1>9. CASE /\ op.kind = "invoke" /\ Cardinality(unread) < MaxUnread
           /\ unread' = unread \cup {op.kind}
           /\ \E order \in SetToSeqs(touched) :
                 replica' = Consumed(replica, EffectsOf(lost(order)))
  <2>1. PICK order \in SetToSeqs(touched) :
           replica' = Consumed(replica, EffectsOf(lost(order)))
    BY <1>9
  <2>2. /\ IsSequence(order) /\ ToSet(order) = ChangesOf(after)
        /\ \A i, j \in 1 .. Len(order) : i # j => order[i] # order[j]
    BY <1>2, <2>1, ChangesAreFinite, OrdersAre
  <2>3. Read(lost(order), after)
    BY <1>8, <2>2 DEF Read
  <2>4. WellFormed(lost(order)) /\ ~Trading(lost(order))
    <3>1. IsSequence(lost(order).changes) /\ \A c \in ToSet(lost(order).changes) : c \in ChangesOf(after)
      BY <1>8, <2>2
    <3> QED
      BY <1>8, <1>5, <3>1
  <2>5. lost(order).kind = "invoke" /\ Marked(lost(order)) /\ ~Known(lost(order))
    BY <1>8, <1>9 DEF Marked, Same
  <2>6. Done(lost(order), after)
    BY <1>1, <2>1, <2>3, <2>4, <2>5 DEF Done
  <2> QED
    BY <1>8, <2>6
<1> QED
  BY <1>1, <1>6, <1>7, <1>9

-----------------------------------------------------------------------------
(* The operation's own effects, by its kind.                                *)

PoolTypes == {"liquidity_pool_created", "liquidity_pool_removed"}

LEMMA Switch ==
    ASSUME NEW o
    PROVE  /\ o.kind = "create_account" => OperationEffects(o) = CreateAccountEffects(o)
           /\ o.kind = "payment"        => OperationEffects(o) = PaymentEffects(o)
           /\ o.kind = "set_options"    => OperationEffects(o) = SetOptionsEffects(o)
           /\ o.kind = "change_trust"   => OperationEffects(o) = ChangeTrustEffects(o)
           /\ o.kind = "merge"          => OperationEffects(o) = MergeEffects(o)
           /\ o.kind = "manage_data"    => OperationEffects(o) = IF ~o.readable THEN << >>
                                                                ELSE ManageDataEffects(o)
           /\ o.kind = "create_claimable_balance" =>
                 OperationEffects(o) = CreateClaimableBalanceEffects(o)
           /\ o.kind = "claim_claimable_balance" =>
                 OperationEffects(o) = ClaimClaimableBalanceEffects(o)
           /\ o.kind = "clawback"       => OperationEffects(o) = ClawbackEffects(o)
           /\ o.kind = "clawback_claimable_balance" =>
                 OperationEffects(o) = ClawbackClaimableBalanceEffects(o)
           /\ o.kind = "invoke"         => OperationEffects(o) = InvokeHostFunctionEffects(o)
           /\ o.kind = "revoke_sponsorship" => OperationEffects(o) = << >>
BY DEF OperationEffects, ReturnOnError

\* The position at which a generator stops.
FirstIn(changes, J) ==
    LET I == {i \in 1 .. Len(changes) : changes[i] \in J}
    IN  IF I # {} THEN Min(I) ELSE 0

LEMMA FirstFound ==
    ASSUME NEW s, IsSequence(s), NEW J, J \subseteq ToSet(s)
    PROVE  /\ J = {} => FirstIn(s, J) = 0
           /\ J # {} => FirstIn(s, J) # 0 /\ s[FirstIn(s, J)] \in J
<1> DEFINE I == {i \in 1 .. Len(s) : s[i] \in J}
<1>1. DOMAIN s = 1 .. Len(s) /\ Len(s) \in Nat
  BY OwnElements DEF IsSequence
<1>2. FirstIn(s, J) = IF I # {} THEN Min(I) ELSE 0
  BY DEF FirstIn
<1>3. ASSUME J # {} PROVE FirstIn(s, J) # 0 /\ s[FirstIn(s, J)] \in J
  <2>1. I # {} /\ I \in SUBSET Nat /\ \A i \in I : i # 0 /\ s[i] \in J
    BY <1>1, <1>3 DEF ToSet
  <2> HIDE DEF I
  <2>2. Min(I) \in I
    BY <2>1, FirstIs
  <2> QED
    BY <1>2, <2>1, <2>2
<1> QED
  BY <1>2, <1>3

TrustType(c) == IF Created(c) THEN "trustline_created"
                ELSE IF Removed(c) THEN "trustline_removed"
                ELSE "trustline_updated"
DataType(c) == IF Created(c) THEN "data_created"
               ELSE IF Removed(c) THEN "data_removed"
               ELSE "data_updated"

LEMMA OwnTrust ==
    ASSUME NEW o, IsSequence(o.changes)
    PROVE  /\ (\A c \in ToSet(o.changes) :
                  ~(c.key.type = "trustline" /\ c.key.id.kind = o.asset.kind))
              => ChangeTrustEffects(o) = << >>
           /\ \A c \in ToSet(o.changes) :
                 /\ c.key.type = "trustline" /\ c.key.id.kind = o.asset.kind
                 /\ \A d \in ToSet(o.changes) :
                       d.key.type = "trustline" /\ d.key.id.kind = o.asset.kind => d = c
                 => ChangeTrustEffects(o) = << Effect(o.source, TrustType(c), c.key.id, 0) >>
<1> DEFINE wanted(c) == c.key.type = "trustline" /\ c.key.id.kind = o.asset.kind
           J == {c \in ToSet(o.changes) : wanted(c)}
           I == {i \in 1 .. Len(o.changes) : wanted(o.changes[i])}
           i == FirstIn(o.changes, J)
<1>1. DOMAIN o.changes = 1 .. Len(o.changes)
  BY OwnElements DEF IsSequence
<1>2. I = {n \in 1 .. Len(o.changes) : o.changes[n] \in J}
  BY <1>1 DEF ToSet
<1>3. ChangeTrustEffects(o) =
         IF (IF I # {} THEN Min(I) ELSE 0) = 0 THEN << >>
         ELSE << Effect(o.source, TrustType(o.changes[IF I # {} THEN Min(I) ELSE 0]),
                        o.changes[IF I # {} THEN Min(I) ELSE 0].key.id, 0) >>
  BY DEF ChangeTrustEffects, ForFirst, SelectInSeq, TrustType, Created, Removed
<1>4. i = IF I # {} THEN Min(I) ELSE 0
  BY <1>2 DEF FirstIn
<1>5. (J = {} => i = 0) /\ (J # {} => i # 0 /\ o.changes[i] \in J)
  BY FirstFound
<1> HIDE DEF I, i
<1>6. ChangeTrustEffects(o) =
         IF i = 0 THEN << >>
         ELSE << Effect(o.source, TrustType(o.changes[i]), o.changes[i].key.id, 0) >>
  BY <1>3, <1>4
<1> QED
  BY <1>5, <1>6

LEMMA OwnData ==
    ASSUME NEW o, IsSequence(o.changes)
    PROVE  \A c \in ToSet(o.changes) :
              c.key.type = "data" /\ (\A d \in ToSet(o.changes) : d.key.type = "data" => d = c)
              => ManageDataEffects(o) = << Effect(o.source, DataType(c), c.key.id, 0) >>
<1> DEFINE wanted(c) == c.key.type = "data"
           J == {c \in ToSet(o.changes) : wanted(c)}
           I == {i \in 1 .. Len(o.changes) : wanted(o.changes[i])}
           i == FirstIn(o.changes, J)
<1>1. DOMAIN o.changes = 1 .. Len(o.changes)
  BY OwnElements DEF IsSequence
<1>2. I = {n \in 1 .. Len(o.changes) : o.changes[n] \in J}
  BY <1>1 DEF ToSet
<1>3. (IF I # {} THEN Min(I) ELSE 0) # 0 =>
      ManageDataEffects(o) =
         << Effect(o.source, DataType(o.changes[IF I # {} THEN Min(I) ELSE 0]),
                   o.changes[IF I # {} THEN Min(I) ELSE 0].key.id, 0) >>
  BY DEF ManageDataEffects, ForFirst, SelectInSeq, DataType, Created, Removed
<1>4. i = IF I # {} THEN Min(I) ELSE 0
  BY <1>2 DEF FirstIn
<1>5. (J = {} => i = 0) /\ (J # {} => i # 0 /\ o.changes[i] \in J)
  BY FirstFound
<1> HIDE DEF I, i
<1>6. i # 0 => ManageDataEffects(o) =
         << Effect(o.source, DataType(o.changes[i]), o.changes[i].key.id, 0) >>
  BY <1>3, <1>4
<1> QED
  BY <1>5, <1>6

Told(o, c) == [i \in DOMAIN c.post.claimants |->
                  Effect(c.post.claimants[i], "claimable_balance_claimant_created",
                         c.key, c.post.amount)]

LEMMA OwnCreateClaimable ==
    ASSUME NEW o, IsSequence(o.changes)
    PROVE  /\ (\A c \in ToSet(o.changes) : ~(c.key.type = "claimable_balance" /\ c.post # NoEntry))
              => CreateClaimableBalanceEffects(o) = << >>
           /\ \A c \in ToSet(o.changes) :
                 /\ c.key.type = "claimable_balance" /\ c.post # NoEntry
                 /\ \A d \in ToSet(o.changes) :
                       d.key.type = "claimable_balance" /\ d.post # NoEntry => d = c
                 => CreateClaimableBalanceEffects(o) =
                       << Effect(o.source, "claimable_balance_created", c.key, c.post.amount) >>
                       \o Told(o, c)
                       \o << Effect(o.source, "account_debited", c.post.asset, c.post.amount) >>
<1> DEFINE wanted(c) == c.key.type = "claimable_balance" /\ c.post # NoEntry
           J == {c \in ToSet(o.changes) : wanted(c)}
           I == {i \in 1 .. Len(o.changes) : wanted(o.changes[i])}
           i == FirstIn(o.changes, J)
           of(c) == << Effect(o.source, "claimable_balance_created", c.key, c.post.amount) >>
                    \o Told(o, c)
                    \o << Effect(o.source, "account_debited", c.post.asset, c.post.amount) >>
<1>1. DOMAIN o.changes = 1 .. Len(o.changes)
  BY OwnElements DEF IsSequence
<1>2. I = {n \in 1 .. Len(o.changes) : o.changes[n] \in J}
  BY <1>1 DEF ToSet
<1>3. CreateClaimableBalanceEffects(o) =
         IF (IF I # {} THEN Min(I) ELSE 0) = 0 THEN << >>
         ELSE of(o.changes[IF I # {} THEN Min(I) ELSE 0])
  BY DEF CreateClaimableBalanceEffects, ForFirst, SelectInSeq, Told
<1>4. i = IF I # {} THEN Min(I) ELSE 0
  BY <1>2 DEF FirstIn
<1>5. (J = {} => i = 0) /\ (J # {} => i # 0 /\ o.changes[i] \in J)
  BY FirstFound
<1> HIDE DEF I, i, of
<1>6. CreateClaimableBalanceEffects(o) = IF i = 0 THEN << >> ELSE of(o.changes[i])
  BY <1>3, <1>4
<1>7. /\ (\A c \in ToSet(o.changes) : ~wanted(c)) => CreateClaimableBalanceEffects(o) = << >>
      /\ \A c \in ToSet(o.changes) :
            wanted(c) /\ (\A d \in ToSet(o.changes) : wanted(d) => d = c)
            => CreateClaimableBalanceEffects(o) = of(c)
  BY <1>5, <1>6
<1> QED
  BY <1>7, Zenon DEF of

LEMMA OwnClaim ==
    ASSUME NEW o, IsSequence(o.changes)
    PROVE  /\ (\A c \in ToSet(o.changes) :
                  ~(c.key.type = "claimable_balance" /\ Removed(c) /\ c.key = o.entry))
              => ClaimClaimableBalanceEffects(o) = << >>
           /\ \A c \in ToSet(o.changes) :
                 /\ c.key.type = "claimable_balance" /\ Removed(c) /\ c.key = o.entry
                 /\ \A d \in ToSet(o.changes) :
                       d.key.type = "claimable_balance" /\ Removed(d) /\ d.key = o.entry => d = c
                 => ClaimClaimableBalanceEffects(o) =
                       << Effect(o.source, "claimable_balance_claimed", c.key, c.pre.amount),
                          Effect(o.source, "account_credited", c.pre.asset, c.pre.amount) >>
<1> DEFINE wanted(c) == c.key.type = "claimable_balance" /\ Removed(c) /\ c.key = o.entry
           J == {c \in ToSet(o.changes) : wanted(c)}
           I == {i \in 1 .. Len(o.changes) : wanted(o.changes[i])}
           i == FirstIn(o.changes, J)
           of(c) == << Effect(o.source, "claimable_balance_claimed", c.key, c.pre.amount),
                       Effect(o.source, "account_credited", c.pre.asset, c.pre.amount) >>
<1>1. DOMAIN o.changes = 1 .. Len(o.changes)
  BY OwnElements DEF IsSequence
<1>2. I = {n \in 1 .. Len(o.changes) : o.changes[n] \in J}
  BY <1>1 DEF ToSet
<1>3. ClaimClaimableBalanceEffects(o) =
         IF (IF I # {} THEN Min(I) ELSE 0) = 0 THEN << >>
         ELSE of(o.changes[IF I # {} THEN Min(I) ELSE 0])
  BY DEF ClaimClaimableBalanceEffects, ForFirst, SelectInSeq
<1>4. i = IF I # {} THEN Min(I) ELSE 0
  BY <1>2 DEF FirstIn
<1>5. (J = {} => i = 0) /\ (J # {} => i # 0 /\ o.changes[i] \in J)
  BY FirstFound
<1> HIDE DEF I, i, of
<1>6. ClaimClaimableBalanceEffects(o) = IF i = 0 THEN << >> ELSE of(o.changes[i])
  BY <1>3, <1>4
<1>7. /\ (\A c \in ToSet(o.changes) : ~wanted(c)) => ClaimClaimableBalanceEffects(o) = << >>
      /\ \A c \in ToSet(o.changes) :
            wanted(c) /\ (\A d \in ToSet(o.changes) : wanted(d) => d = c)
            => ClaimClaimableBalanceEffects(o) = of(c)
  BY <1>5, <1>6
<1> QED
  BY <1>7, Zenon DEF of

LEMMA OwnClawbackClaimable ==
    ASSUME NEW o, IsSequence(o.changes)
    PROVE  \E x : /\ ClawbackClaimableBalanceEffects(o) =
                        << Effect(o.source, "claimable_balance_clawed_back", o.entry, 0) >> \o x
                  /\ \/ x = << >>
                     \/ \E c \in ToSet(o.changes) :
                           /\ c.key.type = "claimable_balance" /\ Removed(c)
                           /\ x = << Effect(o.source, "account_credited", c.pre.asset, c.pre.amount) >>
<1> DEFINE wanted(c) == c.key.type = "claimable_balance" /\ Removed(c)
           J == {c \in ToSet(o.changes) : wanted(c)}
           I == {i \in 1 .. Len(o.changes) : wanted(o.changes[i])}
           i == FirstIn(o.changes, J)
           of(c) == << Effect(o.source, "account_credited", c.pre.asset, c.pre.amount) >>
           x == IF (IF I # {} THEN Min(I) ELSE 0) = 0 THEN << >>
                ELSE of(o.changes[IF I # {} THEN Min(I) ELSE 0])
<1>1. DOMAIN o.changes = 1 .. Len(o.changes)
  BY OwnElements DEF IsSequence
<1>2. I = {n \in 1 .. Len(o.changes) : o.changes[n] \in J}
  BY <1>1 DEF ToSet
<1>3. ClawbackClaimableBalanceEffects(o) =
         << Effect(o.source, "claimable_balance_clawed_back", o.entry, 0) >> \o x
  BY DEF ClawbackClaimableBalanceEffects, ForFirst, SelectInSeq
<1>4. i = IF I # {} THEN Min(I) ELSE 0
  BY <1>2 DEF FirstIn
<1>5. (J = {} => i = 0) /\ (J # {} => i # 0 /\ o.changes[i] \in J)
  BY FirstFound
<1>6. x = IF i = 0 THEN << >> ELSE of(o.changes[i])
  BY <1>4
<1> HIDE DEF I, i, x, of
<1>7. x = << >> \/ \E c \in ToSet(o.changes) : wanted(c) /\ x = of(c)
  BY <1>5, <1>6
<1> QED
  BY <1>3, <1>7, Zenon DEF of

\* An effect on the signer k of an account whose signers become these.
SignerEffect(e, source, k, after) ==
    /\ e.address = source /\ e.about = k /\ k \in ToSet(SignerOrder)
    /\ \/ e.type = "signer_removed" /\ k \notin DOMAIN after
       \/ e.type \in Weighs /\ k \in DOMAIN after /\ e.value = after[k]

LEMMA SignersReported ==
    ASSUME NEW source, NEW before, NEW after
    PROVE  /\ IsSequence(SignerEffects(source, before, after))
           /\ \A e \in ToSet(SignerEffects(source, before, after)) :
                 \E k : SignerEffect(e, source, k, after)
           /\ \A k \in ToSet(SignerOrder) :
                 WeightIn(before, k) # WeightIn(after, k)
                 => \E e \in ToSet(SignerEffects(source, before, after)) :
                       SignerEffect(e, source, k, after)
<1> DEFINE old(k) ==
            IF k \notin DOMAIN before THEN << >>
            ELSE IF k \notin DOMAIN after THEN << Effect(source, "signer_removed", k, 0) >>
            ELSE IF after[k] # before[k] THEN << Effect(source, "signer_updated", k, after[k]) >>
            ELSE << >>
           new(k) ==
            IF k \in DOMAIN after /\ k \notin DOMAIN before
            THEN << Effect(source, "signer_created", k, after[k]) >>
            ELSE << >>
           olds == [i \in DOMAIN SignerOrder |-> old(SignerOrder[i])]
           news == [i \in DOMAIN SignerOrder |-> new(SignerOrder[i])]
<1>1. \A k : IsSequence(old(k)) /\ IsSequence(new(k))
  BY Elements
<1>2. SignerEffects(source, before, after) = FlattenSeq(olds) \o FlattenSeq(news)
  BY DEF SignerEffects, ForEach
<1>3. \A k \in ToSet(SignerOrder) : \A e :
         e \in ToSet(old(k)) \cup ToSet(new(k)) => SignerEffect(e, source, k, after)
  <2> TAKE k \in ToSet(SignerOrder)
  <2>1. /\ \A w : LET f == Effect(source, "signer_updated", k, w)
                  IN  f.address = source /\ f.about = k /\ f.type = "signer_updated" /\ f.value = w
        /\ \A w : LET f == Effect(source, "signer_created", k, w)
                  IN  f.address = source /\ f.about = k /\ f.type = "signer_created" /\ f.value = w
        /\ LET f == Effect(source, "signer_removed", k, 0)
           IN  f.address = source /\ f.about = k /\ f.type = "signer_removed"
    BY DEF Effect
  <2> QED
    BY <2>1, Elements DEF SignerEffect, Weighs
<1>4. \A k \in ToSet(SignerOrder) :
         WeightIn(before, k) # WeightIn(after, k) => \E e : e \in ToSet(old(k)) \cup ToSet(new(k))
  BY Elements DEF WeightIn
<1> HIDE DEF old, new
<1>5. DOMAIN SignerOrder = 1 .. Len(SignerOrder)
  BY SignerOrderAssumption, OwnElements DEF IsSequence
<1>6. Along(olds, SignerOrder) /\ Along(news, SignerOrder)
  BY DEF Along
<1>7. \A n \in 1 .. Len(SignerOrder) :
         /\ olds[n] = old(SignerOrder[n]) /\ news[n] = new(SignerOrder[n])
         /\ IsSequence(olds[n]) /\ IsSequence(news[n])
  BY <1>1, <1>5
<1> HIDE DEF olds, news
<1>8. /\ IsSequence(FlattenSeq(olds)) /\ IsSequence(FlattenSeq(news))
      /\ \A e : e \in ToSet(FlattenSeq(olds)) <=>
                   \E n \in 1 .. Len(SignerOrder) : e \in ToSet(olds[n])
      /\ \A e : e \in ToSet(FlattenSeq(news)) <=>
                   \E n \in 1 .. Len(SignerOrder) : e \in ToSet(news[n])
  BY <1>6, <1>7, SignerOrderAssumption, ElementsFlattened
<1>9. /\ IsSequence(SignerEffects(source, before, after))
      /\ ToSet(SignerEffects(source, before, after)) = ToSet(FlattenSeq(olds)) \cup ToSet(FlattenSeq(news))
  BY <1>2, <1>8, ElementsJoined
<1>10. \A k : k \in ToSet(SignerOrder) <=> \E n \in 1 .. Len(SignerOrder) : SignerOrder[n] = k
  BY <1>5 DEF ToSet
<1>11. \A e : e \in ToSet(SignerEffects(source, before, after)) <=>
                 \E k \in ToSet(SignerOrder) : e \in ToSet(old(k)) \cup ToSet(new(k))
  BY <1>7, <1>8, <1>9, <1>10
<1> QED
  BY <1>3, <1>4, <1>9, <1>11

LEMMA OwnOptions ==
    ASSUME NEW o, IsSequence(o.changes), o.options = << >>
    PROVE  \A e : e \in ToSet(SetOptionsEffects(o)) <=>
                     \E c \in ToSet(o.changes) :
                        /\ c.key.type = "account" /\ Updated(c)
                        /\ e \in ToSet(SignerEffects(o.source, c.pre.signers, c.post.signers))
<1> DEFINE set == [i \in DOMAIN o.options |-> Effect(o.source, o.options[i], "option", 0)]
           of(c) == IF c.key.type = "account" /\ Updated(c)
                    THEN SignerEffects(o.source, c.pre.signers, c.post.signers)
                    ELSE << >>
           all == [i \in DOMAIN o.changes |-> of(o.changes[i])]
<1>1. SetOptionsEffects(o) = set \o FlattenSeq(all)
  BY DEF SetOptionsEffects, ForEach
<1>2. \A c : /\ IsSequence(of(c))
             /\ \A e : e \in ToSet(of(c)) <=>
                          /\ c.key.type = "account" /\ Updated(c)
                          /\ e \in ToSet(SignerEffects(o.source, c.pre.signers, c.post.signers))
  BY Elements, SignersReported
<1> HIDE DEF of
<1>3. DOMAIN o.changes = 1 .. Len(o.changes)
  BY OwnElements DEF IsSequence
<1>4. Along(all, o.changes) /\ \A n \in 1 .. Len(o.changes) :
         IsSequence(all[n]) /\ all[n] = of(o.changes[n])
  BY <1>2, <1>3 DEF Along
<1> HIDE DEF all
<1>5. /\ IsSequence(FlattenSeq(all))
      /\ \A e : e \in ToSet(FlattenSeq(all)) <=> \E n \in 1 .. Len(o.changes) : e \in ToSet(all[n])
  BY <1>4, ElementsFlattened
<1>6. set = << >>
  OBVIOUS
<1> HIDE DEF set
<1>7. ToSet(SetOptionsEffects(o)) = ToSet(FlattenSeq(all))
  <2>1. IsSequence(set) /\ ToSet(set) = {}
    BY <1>6, Elements
  <2>2. ToSet(set \o FlattenSeq(all)) = ToSet(set) \cup ToSet(FlattenSeq(all))
    BY <1>5, <2>1, ElementsJoined
  <2>3. ToSet(SetOptionsEffects(o)) = ToSet(set) \cup ToSet(FlattenSeq(all))
    BY <1>1, <2>2, Zenon
  <2> QED
    BY <2>1, <2>3
<1>8. \A c : c \in ToSet(o.changes) <=> \E n \in 1 .. Len(o.changes) : o.changes[n] = c
  BY <1>3 DEF ToSet
<1> QED
  BY <1>2, <1>4, <1>5, <1>7, <1>8

Gives(o, ev) == IF ev.from \in Accounts
                THEN Effect(ev.from, "account_debited", ev.asset, ev.amount)
                ELSE Effect(o.source, "contract_debited", ev.from, ev.amount)
Takes(o, ev) == IF ev.to \in Accounts
                THEN Effect(ev.to, "account_credited", ev.asset, ev.amount)
                ELSE Effect(o.source, "contract_credited", ev.to, ev.amount)

LEMMA OwnInvoke ==
    ASSUME NEW o, NEW ev, o.assetEvents = << ev >>, ev.type = "transfer"
    PROVE  InvokeHostFunctionEffects(o) =
              IF o.network /\ o.eventsReadable THEN << Gives(o, ev), Takes(o, ev) >> ELSE << >>
<1> DEFINE of(event) ==
             CASE event.type = "transfer" -> DebitEffects(o, event) \o CreditEffects(o, event)
               [] event.type = "mint"     -> CreditEffects(o, event)
               [] OTHER                   -> DebitEffects(o, event)
           all == [i \in DOMAIN o.assetEvents |-> of(o.assetEvents[i])]
<1>1. AssetEventEffects(o) = FlattenSeq(all)
  BY DEF AssetEventEffects, ForEach
<1>2. of(ev) = DebitEffects(o, ev) \o CreditEffects(o, ev)
  OBVIOUS
<1>3. DebitEffects(o, ev) = << Gives(o, ev) >> /\ CreditEffects(o, ev) = << Takes(o, ev) >>
  BY DEF DebitEffects, CreditEffects, Party, Gives, Takes
<1>5. of(ev) = << Gives(o, ev), Takes(o, ev) >>
  BY <1>2, <1>3, PairJoined
<1> HIDE DEF of
<1>6. all = << of(ev) >>
  OBVIOUS
<1> HIDE DEF all
<1>7. Len(all) = 1 /\ all[1] = of(ev)
  BY <1>6
<1>8. FlattenSeq(all) = all[1]
  <2>1. PICK f : Flattens(f, Len(all), all) /\ FlattenSeq(all) = f[Len(all)]
    <3>1. Len(all) \in Nat /\ Len(all) # 0
      BY <1>7
    <3> QED
      BY <3>1, FlattenIsLast
  <2>2. f[1] = FlatAt(f, 1, all)
    BY <1>7, <2>1, FlattensUnfold
  <2> QED
    BY <1>7, <2>1, <2>2 DEF FlatAt
<1> QED
  BY <1>1, <1>5, <1>7, <1>8 DEF InvokeHostFunctionEffects

-----------------------------------------------------------------------------
(* What the changes add.                                                    *)

SubjectOf(k) == IF k.type = "trustline" THEN << k.type, k.owner >> ELSE << k.type, k.id >>

\* An effect on the sponsor of the entry of k, which was before and is after.
Sponsorship(e, k, before, after) ==
    /\ k.type \in SponsoredTypes /\ before # after
    /\ e.about = SubjectOf(k)
    /\ e.type = IF before = NoSponsor THEN "sponsorship_created"
                ELSE IF after = NoSponsor THEN "sponsorship_removed"
                ELSE "sponsorship_updated"
    /\ SponsorOf(e) = after

Lifecycle(e, k, before, after) ==
    /\ k.type = "liquidity_pool" /\ e.about = k
    /\ \/ e.type = "liquidity_pool_created" /\ before = NoEntry /\ after # NoEntry
       \/ e.type = "liquidity_pool_removed" /\ before # NoEntry /\ after = NoEntry

LEMMA SponsorshipOf ==
    ASSUME NEW o, NEW k, NEW pre, NEW post
    PROVE  LET c == [key |-> k, pre |-> pre, post |-> post]
           IN  /\ \A e \in ToSet(SponsorshipEffects(o, c)) :
                     Sponsorship(e, k, Sponsor(pre), Sponsor(post))
               /\ k.type \in SponsoredTypes /\ Sponsor(pre) # Sponsor(post)
                  => \E e : e \in ToSet(SponsorshipEffects(o, c))
               /\ \A e \in ToSet(PoolLifecycleEffects(o, c)) : Lifecycle(e, k, pre, post)
               /\ k.type = "liquidity_pool" /\ (pre = NoEntry <=> post # NoEntry)
                  => \E e : e \in ToSet(PoolLifecycleEffects(o, c))
<1> DEFINE c == [key |-> k, pre |-> pre, post |-> post]
           before == Sponsor(pre)
           after  == Sponsor(post)
<1>1. c.key = k /\ c.pre = pre /\ c.post = post
  OBVIOUS
<1> HIDE DEF c
<1>2. \A type, sponsor : LET e == SponsorshipEffect(o, c, type, sponsor)
                         IN  e.type = type /\ e.about = SubjectOf(k) /\ e.value = sponsor
  BY <1>1 DEF SponsorshipEffect, SubjectOf, Effect
<1>3. SponsorshipEffects(o, c) =
         IF k.type \notin SponsoredTypes \/ before = after THEN << >>
         ELSE IF before = NoSponsor THEN << SponsorshipEffect(o, c, "sponsorship_created", after) >>
         ELSE IF after = NoSponsor THEN << SponsorshipEffect(o, c, "sponsorship_removed", before) >>
         ELSE << SponsorshipEffect(o, c, "sponsorship_updated", after) >>
  BY <1>1 DEF SponsorshipEffects
<1> HIDE DEF before, after
<1>4. \A e \in ToSet(SponsorshipEffects(o, c)) : Sponsorship(e, k, before, after)
  BY <1>2, <1>3, Elements DEF Sponsorship, SponsorOf
<1>5. k.type \in SponsoredTypes /\ before # after
      => \E e : e \in ToSet(SponsorshipEffects(o, c))
  BY <1>3, Elements
<1>6. PoolLifecycleEffects(o, c) =
         IF k.type # "liquidity_pool" THEN << >>
         ELSE IF pre = NoEntry /\ post # NoEntry
              THEN << Effect(o.source, "liquidity_pool_created", k, 0) >>
         ELSE IF pre # NoEntry /\ post = NoEntry
              THEN << Effect(o.source, "liquidity_pool_removed", k, 0) >>
         ELSE << >>
  BY <1>1 DEF PoolLifecycleEffects, Created, Removed
<1>7. \A type : LET e == Effect(o.source, type, k, 0) IN e.type = type /\ e.about = k
  BY DEF Effect
<1>8. \A e \in ToSet(PoolLifecycleEffects(o, c)) : Lifecycle(e, k, pre, post)
  BY <1>6, <1>7, Elements DEF Lifecycle
<1>9. k.type = "liquidity_pool" /\ (pre = NoEntry <=> post # NoEntry)
      => \E e : e \in ToSet(PoolLifecycleEffects(o, c))
  BY <1>6, Elements
<1> QED
  BY <1>4, <1>5, <1>8, <1>9 DEF c, before, after

LEMMA Added ==
    ASSUME NEW o, NEW after, Done(o, after)
    PROVE  /\ \A e \in ToSet(ChangeEffects(o)) :
                 /\ Read(o, after)
                 /\ \E k \in DOMAIN after :
                       \/ Sponsorship(e, k, Sponsor(entries[k]), Sponsor(after[k]))
                       \/ Lifecycle(e, k, entries[k], after[k])
           /\ \A k \in DOMAIN after :
                 Read(o, after) =>
                    /\ k.type \in SponsoredTypes /\ Sponsor(entries[k]) # Sponsor(after[k])
                       => \E e \in ToSet(ChangeEffects(o)) :
                             Sponsorship(e, k, Sponsor(entries[k]), Sponsor(after[k]))
                    /\ k.type = "liquidity_pool" /\ (entries[k] = NoEntry <=> after[k] # NoEntry)
                       => \E e \in ToSet(ChangeEffects(o)) :
                             Lifecycle(e, k, entries[k], after[k])
<1> DEFINE change(k) == [key |-> k, pre |-> entries[k], post |-> after[k]]
<1>1. \A e : e \in ToSet(ChangeEffects(o)) <=>
                \E c \in ToSet(o.changes) :
                   e \in ToSet(SponsorshipEffects(o, c)) \cup ToSet(PoolLifecycleEffects(o, c))
  BY ChangesAdd DEF Done
<1>2. \A k \in DOMAIN after :
         /\ \A e \in ToSet(SponsorshipEffects(o, change(k))) :
               Sponsorship(e, k, Sponsor(entries[k]), Sponsor(after[k]))
         /\ k.type \in SponsoredTypes /\ Sponsor(entries[k]) # Sponsor(after[k])
            => \E e : e \in ToSet(SponsorshipEffects(o, change(k)))
         /\ \A e \in ToSet(PoolLifecycleEffects(o, change(k))) : Lifecycle(e, k, entries[k], after[k])
         /\ k.type = "liquidity_pool" /\ (entries[k] = NoEntry <=> after[k] # NoEntry)
            => \E e : e \in ToSet(PoolLifecycleEffects(o, change(k)))
  <2> TAKE k \in DOMAIN after
  <2> QED
    BY SponsorshipOf, Zenon
<1>3. Read(o, after) => \A c : c \in ToSet(o.changes) <=> \E k \in DOMAIN after : c = change(k)
  BY DEF Read, ChangesOf
<1>4. ASSUME ~Read(o, after) PROVE ToSet(ChangeEffects(o)) = {}
  <2>1. o.changes = << >>
    BY <1>4 DEF Done, Unread
  <2> QED
    BY <1>1, <2>1, Elements
<1> HIDE DEF change
<1>5. ASSUME NEW e \in ToSet(ChangeEffects(o))
      PROVE  /\ Read(o, after)
             /\ \E k \in DOMAIN after :
                   \/ Sponsorship(e, k, Sponsor(entries[k]), Sponsor(after[k]))
                   \/ Lifecycle(e, k, entries[k], after[k])
  <2>1. Read(o, after)
    BY <1>4
  <2>2. PICK c \in ToSet(o.changes) :
           e \in ToSet(SponsorshipEffects(o, c)) \cup ToSet(PoolLifecycleEffects(o, c))
    BY <1>1
  <2>3. PICK k \in DOMAIN after : c = change(k)
    BY <1>3, <2>1
  <2> QED
    BY <1>2, <2>1, <2>2, <2>3
<1>6. ASSUME NEW k \in DOMAIN after, Read(o, after)
      PROVE  /\ k.type \in SponsoredTypes /\ Sponsor(entries[k]) # Sponsor(after[k])
                => \E e \in ToSet(ChangeEffects(o)) :
                      Sponsorship(e, k, Sponsor(entries[k]), Sponsor(after[k]))
             /\ k.type = "liquidity_pool" /\ (entries[k] = NoEntry <=> after[k] # NoEntry)
                => \E e \in ToSet(ChangeEffects(o)) : Lifecycle(e, k, entries[k], after[k])
  <2>1. change(k) \in ToSet(o.changes)
    BY <1>3, <1>6
  <2>2. \A e : e \in ToSet(SponsorshipEffects(o, change(k))) \cup ToSet(PoolLifecycleEffects(o, change(k)))
               => e \in ToSet(ChangeEffects(o))
    BY <1>1, <2>1
  <2> QED
    BY <1>2, <2>2
<1> QED
  BY <1>5, <1>6

-----------------------------------------------------------------------------
(* What an operation makes of the copy.                                     *)

\* The copy with the operation's own effects alone.
Halfway(o) == Consumed(replica, OperationEffects(o))

LEMMA NoLifecycleElse ==
    \A e, k, b, a : Lifecycle(e, k, b, a) =>
        /\ EntryOf(e) = k /\ e.type \in PoolTypes /\ k.type = "liquidity_pool"
        /\ (e.type \in Arrivals <=> a # NoEntry) /\ (e.type \in Departures <=> a = NoEntry)
        /\ e.type \notin BalanceTypes \cup Resets \cup Weighs \cup {"signer_removed"} \cup SponsorTypes
        /\ ~Counts(e)
BY DEF Lifecycle, EntryOf, PoolTypes, Arrivals, Departures, BalanceTypes, Resets, Weighs,
       SponsorTypes, Counts

LEMMA NoSponsorshipElse ==
    \A e, k, b, a : Sponsorship(e, k, b, a) =>
        /\ e.type \in SponsorTypes
        /\ e.type \notin Arrivals \cup Departures \cup BalanceTypes \cup Resets \cup Weighs
                         \cup {"signer_removed"}
        /\ e.about[1] = k.type
BY DEF Sponsorship, SubjectOf, PoolTypes, Arrivals, Departures, BalanceTypes, Resets, Weighs,
       SponsorTypes

LEMMA HalfwayThere ==
    ASSUME replica \in Replicas, NEW o, NEW after, Done(o, after),
           \A e \in ToSet(OperationEffects(o)) : Fits(e)
    PROVE  /\ Halfway(o) \in Replicas /\ replica' \in Replicas
           /\ replica' = Consumed(Halfway(o), ChangeEffects(o))
           /\ replica'.balance = Halfway(o).balance
           /\ replica'.signers = Halfway(o).signers
           /\ \A k : k.type # "liquidity_pool" =>
                        (k \in replica'.alive <=> k \in Halfway(o).alive)
<1> DEFINE q == Halfway(o)
           s == ChangeEffects(o)
<1>1. /\ IsSequence(OperationEffects(o)) /\ IsSequence(s) /\ replica' = Consumed(q, s)
  BY OwnThenChanges DEF Done, Halfway
<1>2. q \in Replicas
  BY <1>1, FittingAll DEF Halfway
<1>3. ASSUME NEW e \in ToSet(s)
      PROVE  \E k \in DOMAIN after :
                \/ Sponsorship(e, k, Sponsor(entries[k]), Sponsor(after[k]))
                \/ Lifecycle(e, k, entries[k], after[k])
  BY Added
<1>4. ASSUME NEW e \in ToSet(s)
      PROVE  /\ Fits(e) /\ e.type \notin BalanceTypes
             /\ \A a, k : ~Signs(e, a, k)
             /\ \A k : Arrives(e, k) \/ Departs(e, k) => k.type = "liquidity_pool"
  <2>1. PICK k \in DOMAIN after :
                \/ Sponsorship(e, k, Sponsor(entries[k]), Sponsor(after[k]))
                \/ Lifecycle(e, k, entries[k], after[k])
    BY <1>3
  <2>2. k \in Keys /\ after[k] \in EntryType(k) \cup {NoEntry}
    BY DEF Done, Leaves
  <2>3. CASE Sponsorship(e, k, Sponsor(entries[k]), Sponsor(after[k]))
    <3>1. Sponsor(after[k]) \in MaybeSponsor
      BY <2>2, EntriesAre
    <3>2. e.type \in {"sponsorship_created", "sponsorship_updated"} => e.value \in MaybeSponsor
      BY <2>3, <3>1 DEF Sponsorship, SponsorOf
    <3> QED
      BY <2>3, <3>2, NoSponsorshipElse DEF Fits, Signs, Arrives, Departs
  <2>4. CASE Lifecycle(e, k, entries[k], after[k])
    BY <2>2, <2>4, NoLifecycleElse DEF Fits, Signs, Arrives, Departs, SponsorTypes
  <2> QED
    BY <2>1, <2>3, <2>4
<1> HIDE DEF q, s
<1>5. replica' \in Replicas
  BY <1>1, <1>2, <1>4, FittingAll
<1>6. replica'.balance = q.balance
  BY <1>1, <1>4, Untouched
<1>7. replica'.signers = q.signers
  <2>1. q.signers \in [Accounts -> Weights] /\ replica'.signers \in [Accounts -> Weights]
    BY <1>2, <1>5 DEF Replicas
  <2>2. ASSUME NEW a \in Accounts PROVE replica'.signers[a] = q.signers[a]
    <3>1. a \in DOMAIN q.signers
      BY <2>1
    <3> QED
      BY <1>1, <1>4, <3>1, SignersTold
  <2> QED
    BY <2>1, <2>2
<1>8. ASSUME NEW k, k.type # "liquidity_pool"
      PROVE  k \in replica'.alive <=> k \in q.alive
  <2>1. \A e \in ToSet(s) : ~Arrives(e, k) /\ ~Departs(e, k)
    BY <1>4, <1>8
  <2> QED
    BY <1>1, <2>1, AliveTold
<1> QED
  BY <1>1, <1>2, <1>5, <1>6, <1>7, <1>8 DEF q, s

-----------------------------------------------------------------------------
(* What the operations leave.                                               *)

\* The ledger's own invariant.
Ledger == Typed /\ \A k \in Keys : Kept(k, entries[k])

LEMMA WithIs ==
    ASSUME NEW f, NEW g
    PROVE  /\ DOMAIN With(f, g) = DOMAIN f \cup DOMAIN g
           /\ \A k \in DOMAIN f : With(f, g)[k] = f[k]
           /\ \A k \in DOMAIN g \ DOMAIN f : With(f, g)[k] = g[k]
BY DEF With

LEMMA SetIs == \A k, e : DOMAIN Set(k, e) = {k} /\ Set(k, e)[k] = e
BY DEF Set

LEMMA LeavesWith ==
    ASSUME NEW f, Leaves(f), NEW g, Leaves(g)
    PROVE  Leaves(With(f, g))
<1>1. IsFiniteSet(DOMAIN f \cup DOMAIN g)
  BY FS_Union DEF Leaves
<1>2. PICK h : h = With(f, g)
  OBVIOUS
<1>3. /\ DOMAIN h = DOMAIN f \cup DOMAIN g
      /\ \A k \in DOMAIN f : h[k] = f[k]
      /\ \A k \in DOMAIN g \ DOMAIN f : h[k] = g[k]
  BY <1>2 DEF With
<1>4. \A k \in DOMAIN h : h[k] \in EntryType(k) \cup {NoEntry} /\ Kept(k, h[k])
  <2> TAKE k \in DOMAIN h
  <2>1. CASE k \in DOMAIN f
    BY <1>3, <2>1 DEF Leaves
  <2>2. CASE k \notin DOMAIN f
    <3>1. k \in DOMAIN g /\ h[k] = g[k]
      BY <1>3, <2>2
    <3> QED
      BY <3>1 DEF Leaves
  <2> QED
    BY <2>1, <2>2
<1>5. DOMAIN h \subseteq Keys
  BY <1>3 DEF Leaves
<1>6. Leaves(h)
  BY <1>1, <1>3, <1>4, <1>5 DEF Leaves
<1> QED
  BY <1>2, <1>6

LEMMA LeavesSet ==
    ASSUME NEW k \in Keys, NEW e \in EntryType(k) \cup {NoEntry}, Kept(k, e)
    PROVE  Leaves(Set(k, e))
<1>1. PICK h : h = Set(k, e)
  OBVIOUS
<1>2. DOMAIN h = {k} /\ h[k] = e
  BY <1>1, SetIs, Zenon
<1>3. IsFiniteSet({k})
  BY FS_Singleton
<1>4. Leaves(h)
  BY <1>2, <1>3 DEF Leaves
<1> QED
  BY <1>1, <1>4

LEMMA NextLedger ==
    ASSUME Ledger, NEW after, Leaves(after), entries' = With(after, entries)
    PROVE  /\ Ledger'
           /\ \A k \in Keys : entries'[k] = IF k \in DOMAIN after THEN after[k] ELSE entries[k]
<1>1. DOMAIN entries = Keys /\ DOMAIN after \subseteq Keys
  BY DEF Ledger, Typed, Leaves
<1>2. DOMAIN entries' = Keys
  BY <1>1, WithIs
<1>3. \A k \in Keys : entries'[k] = IF k \in DOMAIN after THEN after[k] ELSE entries[k]
  <2>1. /\ \A k \in DOMAIN after : entries'[k] = after[k]
        /\ \A k \in DOMAIN entries \ DOMAIN after : entries'[k] = entries[k]
    BY DEF With
  <2> QED
    BY <1>1, <2>1
<1>4. \A k \in Keys : entries'[k] \in EntryType(k) \cup {NoEntry} /\ Kept(k, entries'[k])
  BY <1>3 DEF Ledger, Typed, Leaves
<1> QED
  BY <1>2, <1>3, <1>4 DEF Ledger, Typed

\* A balance entry that changes by d and in nothing else that matters.
Shifted(k, e, d) ==
    /\ k \in Keys /\ Live(k) /\ e \in EntryType(k) /\ Kept(k, e)
    /\ e.balance = entries[k].balance + d /\ e.sponsor = entries[k].sponsor
    /\ k.type = "account" => e.signers = entries[k].signers
    /\ k.type \in {"account", "trustline", "contract_data"}

Movable(holder, asset) ==
    \/ IsIssuer(holder, asset)
    \/ << holder, asset >> \in Holders /\ Live(BalanceKey(holder, asset))

LEMMA HoldersAre ==
    /\ \A holder, asset : << holder, asset >> \in Holders <=>
          \/ holder \in Users /\ asset \in {Native, Credit}
          \/ holder \in {Root, Contract} /\ asset = Native
    /\ \A holder, asset : << holder, asset >> \in Holders => ~IsIssuer(holder, asset)
    /\ \A h \in Holders : h = << h[1], h[2] >>
<1>1. \A h \in Holders : h = << h[1], h[2] >>
  BY DEF Holders
<1>2. \A holder, asset : << holder, asset >> \in Holders <=>
          \/ holder \in Users /\ asset \in {Native, Credit}
          \/ holder \in {Root, Contract} /\ asset = Native
  BY DEF Holders
<1> QED
  BY <1>1, <1>2, NamesAre DEF IsIssuer

\* Every holder has a balance entry of its own.
LEMMA BalanceKeys ==
    /\ \A a, s : << a, s >> \in Holders =>
          /\ BalanceKey(a, s) \in Keys
          /\ BalanceKey(a, s).type = IF a = Contract THEN "contract_data"
                                     ELSE IF s = Native THEN "account" ELSE "trustline"
          /\ a # Contract => BalanceKey(a, s).owner = a
          /\ BalanceKey(a, s) # AccountKey(a) => a = Contract \/ s = Credit
          /\ a # Contract /\ s = Native => BalanceKey(a, s) = AccountKey(a)
          /\ s = Credit => BalanceKey(a, s) = LineKey(a, Credit)
    /\ \A a, s, b, t : << a, s >> \in Holders /\ << b, t >> \in Holders
                       /\ BalanceKey(a, s) = BalanceKey(b, t) => a = b /\ s = t
<1>1. Contract \notin Users /\ Root # Contract /\ Native # Credit
  BY NamesAre
<1>2. ASSUME NEW a, NEW s, << a, s >> \in Holders
      PROVE  /\ BalanceKey(a, s) \in Keys
             /\ BalanceKey(a, s).type = IF a = Contract THEN "contract_data"
                                        ELSE IF s = Native THEN "account" ELSE "trustline"
             /\ a # Contract => BalanceKey(a, s).owner = a
             /\ BalanceKey(a, s) # AccountKey(a) => a = Contract \/ s = Credit
             /\ a # Contract /\ s = Native => BalanceKey(a, s) = AccountKey(a)
             /\ s = Credit => BalanceKey(a, s) = LineKey(a, Credit)
             /\ a = Contract => s = Native
             /\ s \in {Native, Credit}
  <2>1. CASE a = Contract
    BY <1>1, <1>2, <2>1, HoldersAre, KeysAre, KeyTypes DEF BalanceKey
  <2>2. CASE a # Contract /\ s = Native
    BY <1>1, <1>2, <2>2, HoldersAre, NamesAre, KeysAre, KeyTypes DEF BalanceKey
  <2>3. CASE a # Contract /\ s # Native
    BY <1>1, <1>2, <2>3, HoldersAre, NamesAre, KeysAre, KeyTypes DEF BalanceKey
  <2> QED
    BY <2>1, <2>2, <2>3
<1>3. ASSUME NEW a, NEW s, NEW b, NEW t, << a, s >> \in Holders, << b, t >> \in Holders,
             BalanceKey(a, s) = BalanceKey(b, t)
      PROVE  a = b /\ s = t
  <2>1. /\ (IF a = Contract THEN "contract_data" ELSE IF s = Native THEN "account" ELSE "trustline")
           = (IF b = Contract THEN "contract_data" ELSE IF t = Native THEN "account" ELSE "trustline")
        /\ a # Contract => BalanceKey(a, s).owner = a
        /\ b # Contract => BalanceKey(b, t).owner = b
        /\ a = Contract => s = Native
        /\ b = Contract => t = Native
        /\ s \in {Native, Credit} /\ t \in {Native, Credit}
    BY <1>2, <1>3
  <2>2. a = Contract <=> b = Contract
    BY <2>1
  <2>3. s = Native <=> t = Native
    BY <2>1
  <2> QED
    BY <1>1, <1>3, <2>1, <2>2, <2>3
<1> QED
  BY <1>2, <1>3

LEMMA MovedIs ==
    ASSUME Ledger, NEW holder, NEW asset, Movable(holder, asset), NEW d \in Int
    PROVE  /\ Leaves(Moved(holder, asset, d))
           /\ IsIssuer(holder, asset) => DOMAIN Moved(holder, asset, d) = {}
           /\ ~IsIssuer(holder, asset) =>
                 /\ << holder, asset >> \in Holders
                 /\ DOMAIN Moved(holder, asset, d) = {BalanceKey(holder, asset)}
                 /\ Shifted(BalanceKey(holder, asset),
                            Moved(holder, asset, d)[BalanceKey(holder, asset)], d)
<1> DEFINE k == BalanceKey(holder, asset)
<1>1. CASE IsIssuer(holder, asset)
  <2>1. Moved(holder, asset, d) = << >> /\ DOMAIN << >> = {}
    BY <1>1 DEF Moved
  <2> QED
    BY <1>1, <2>1, FS_EmptySet DEF Leaves
<1>2. CASE ~IsIssuer(holder, asset)
  <2>1. << holder, asset >> \in Holders /\ Live(k)
    BY <1>2 DEF Movable
  <2>2. k \in Keys /\ k.type \in {"account", "trustline", "contract_data"}
        /\ (k.type = "contract_data" => k = HeldKey)
        /\ (k.type = "trustline" => k.id = Credit)
    BY <2>1, BalanceKeys, HoldersAre, KeysAre, KeyTypes
  <2> DEFINE e == [entries[k] EXCEPT !.balance = @ + d]
  <2>3. Moved(holder, asset, d) = [x \in {k} |-> [entries[x] EXCEPT !.balance = @ + d]]
    BY <1>2 DEF Moved
  <2>4. DOMAIN Moved(holder, asset, d) = {k} /\ Moved(holder, asset, d)[k] = e
    BY <2>3
  <2> HIDE DEF k
  <2>5. entries[k] \in EntryType(k)
    BY <2>1, <2>2 DEF Ledger, Typed, Live
  <2>6. /\ e \in EntryType(k) /\ e.balance = entries[k].balance + d
        /\ e.sponsor = entries[k].sponsor
        /\ k.type = "account" => e.signers = entries[k].signers
    <3>1. CASE k.type = "account"
      <4>1. entries[k] \in [balance : Int, signers : Weights, sponsor : MaybeSponsor]
        BY <2>2, <2>5, <3>1, EntriesAre
      <4>2. e \in [balance : Int, signers : Weights, sponsor : MaybeSponsor]
        BY <4>1
      <4> QED
        BY <2>2, <3>1, <4>1, <4>2, EntriesAre
    <3>2. CASE k.type = "trustline"
      <4>1. entries[k] \in [balance : Int, uses : Int, limit : Int, sponsor : MaybeSponsor]
        BY <2>2, <2>5, <3>2, EntriesAre
      <4>2. e \in [balance : Int, uses : Int, limit : Int, sponsor : MaybeSponsor]
        BY <4>1
      <4> QED
        BY <2>2, <3>2, <4>1, <4>2, EntriesAre
    <3>3. CASE k.type = "contract_data"
      <4>1. entries[k] \in [balance : Int, sponsor : {NoSponsor}]
        BY <2>2, <2>5, <3>3, EntriesAre
      <4>2. e \in [balance : Int, sponsor : {NoSponsor}]
        BY <4>1
      <4> QED
        BY <2>2, <3>3, <4>1, <4>2, EntriesAre
    <3> QED
      BY <2>2, <3>1, <3>2, <3>3
  <2> HIDE DEF e
  <2>7. e # NoEntry
    BY <2>2, <2>6, EntriesAre
  <2>8. Kept(k, e)
    BY <2>2, <2>7, NamesAre DEF Kept
  <2>9. Leaves(Moved(holder, asset, d))
    BY <2>2, <2>4, <2>6, <2>8, FS_Singleton DEF Leaves
  <2>10. Shifted(k, e, d)
    BY <2>1, <2>2, <2>6, <2>8 DEF Shifted
  <2> QED
    BY <1>2, <2>1, <2>4, <2>9, <2>10 DEF k
<1> QED
  BY <1>1, <1>2

-----------------------------------------------------------------------------
(* What the changes make of the counts of sponsored trustlines.             *)

\* What one change adds to the count of an account.
LineDelta(c, a) ==
    IF ~(c.key.type = "trustline" /\ c.key.owner = a) THEN 0
    ELSE IF Sponsor(c.pre) = NoSponsor /\ Sponsor(c.post) # NoSponsor THEN 1
    ELSE IF Sponsor(c.pre) # NoSponsor /\ Sponsor(c.post) = NoSponsor THEN -1
    ELSE 0

LEMMA LinesOfChange ==
    ASSUME NEW q, q.lines \in [Users -> Int], NEW op, NEW c
    PROVE  LET x == Consumed(q, SponsorshipEffects(op, c) \o PoolLifecycleEffects(op, c))
           IN  x.lines \in [Users -> Int]
               /\ \A a \in Users : x.lines[a] = q.lines[a] + LineDelta(c, a)
<1> DEFINE S == SponsorshipEffects(op, c)
           P == PoolLifecycleEffects(op, c)
           before == Sponsor(c.pre)
           after  == Sponsor(c.post)
<1>1. IsSequence(S) /\ IsSequence(P)
  BY Elements DEF SponsorshipEffects, PoolLifecycleEffects
<1>2. Consumed(q, S \o P) = Consumed(Consumed(q, S), P)
  BY <1>1, ConsumedJoined
<1>3. \A e \in ToSet(P) : ~Counts(e)
  <2>1. \A type : Effect(op.source, type, c.key, 0).type = type
    BY DEF Effect
  <2> QED
    BY <2>1, Elements DEF PoolLifecycleEffects, Counts
<1>4. Consumed(Consumed(q, S), P).lines = Consumed(q, S).lines
  BY <1>1, <1>3, Untouched
<1>5. S = IF c.key.type \notin SponsoredTypes \/ before = after THEN << >>
          ELSE IF before = NoSponsor THEN << SponsorshipEffect(op, c, "sponsorship_created", after) >>
          ELSE IF after = NoSponsor THEN << SponsorshipEffect(op, c, "sponsorship_removed", before) >>
          ELSE << SponsorshipEffect(op, c, "sponsorship_updated", after) >>
  BY DEF SponsorshipEffects
<1>6. \A type, sponsor : LET e == SponsorshipEffect(op, c, type, sponsor)
                         IN  /\ e.type = type /\ e.about[1] = c.key.type
                             /\ c.key.type = "trustline" => e.about[2] = c.key.owner
  BY DEF SponsorshipEffect, Effect
<1> DEFINE y == Consumed(q, S).lines
<1> DEFINE plus(b, d) == [q.lines EXCEPT ![b] = @ + d]
<1>7. \A d \in Int : \A b :
         /\ plus(b, d) \in [Users -> Int]
         /\ \A a \in Users : plus(b, d)[a] = q.lines[a] + IF a = b THEN d ELSE 0
  <2> TAKE d \in Int
  <2> TAKE b
  <2> DEFINE new == [q.lines EXCEPT ![b] = @ + d]
  <2>1. new = [a \in Users |-> IF a = b THEN q.lines[a] + d ELSE q.lines[a]]
    OBVIOUS
  <2> HIDE DEF new
  <2>2. \A a \in Users : q.lines[a] \in Int
    OBVIOUS
  <2>3. \A a \in Users : new[a] = q.lines[a] + IF a = b THEN d ELSE 0
    BY <2>1, <2>2
  <2>4. new \in [Users -> Int]
    BY <2>1, <2>2
  <2> QED
    BY <2>3, <2>4 DEF new
<1>a. \A b : /\ [q.lines EXCEPT ![b] = @ + 1] = plus(b, 1)
            /\ [q.lines EXCEPT ![b] = @ - 1] = plus(b, -1)
  OBVIOUS
<1> HIDE DEF plus
<1>8. ASSUME NEW type, NEW sponsor, S = << SponsorshipEffect(op, c, type, sponsor) >>
      PROVE  y = LinesAfter(q.lines, SponsorshipEffect(op, c, type, sponsor))
  <2> DEFINE e == SponsorshipEffect(op, c, type, sponsor)
  <2>1. Consumed(q, S) = Apply(q, e)
    BY <1>8, ConsumedOne, Zenon
  <2> HIDE DEF e
  <2>2. Apply(q, e).lines = LinesAfter(q.lines, e)
    BY DEF Apply
  <2> QED
    BY <2>1, <2>2 DEF e
<1>9. y \in [Users -> Int] /\ \A a \in Users : y[a] = q.lines[a] + LineDelta(c, a)
  <2>0. \A a \in Users : q.lines[a] \in Int /\ q.lines[a] + 0 = q.lines[a]
    OBVIOUS
  <2>1. CASE c.key.type \notin SponsoredTypes \/ before = after
    <3>1. y = q.lines
      BY <1>5, <2>1, ConsumedNone
    <3>2. \A a : LineDelta(c, a) = 0
      BY <2>1 DEF LineDelta, SponsoredTypes
    <3> HIDE DEF y
    <3> QED
      BY <2>0, <3>1, <3>2
  <2>2. CASE c.key.type \in SponsoredTypes /\ before # after /\ before = NoSponsor
    <3> DEFINE e == SponsorshipEffect(op, c, "sponsorship_created", after)
    <3>1. y = LinesAfter(q.lines, e)
      BY <1>5, <1>8, <2>2
    <3>2. e.type = "sponsorship_created" /\ e.about[1] = c.key.type
          /\ (c.key.type = "trustline" => e.about[2] = c.key.owner)
      BY <1>6
    <3>3. \A a : LineDelta(c, a) = IF c.key.type = "trustline" /\ a = c.key.owner THEN 1 ELSE 0
      BY <2>2 DEF LineDelta
    <3> HIDE DEF e, y
    <3>4. y = IF c.key.type = "trustline" THEN [q.lines EXCEPT ![c.key.owner] = @ + 1] ELSE q.lines
      BY <3>1, <3>2 DEF LinesAfter
    <3>5. CASE c.key.type = "trustline"
      <4>1. y = plus(c.key.owner, 1)
        BY <1>a, <3>4, <3>5
      <4>2. /\ y \in [Users -> Int]
            /\ \A a \in Users : y[a] = q.lines[a] + IF a = c.key.owner THEN 1 ELSE 0
        BY <1>7, <4>1
      <4> QED
        BY <3>3, <3>5, <4>2
    <3> QED
      BY <2>0, <3>3, <3>4, <3>5
  <2>3. CASE c.key.type \in SponsoredTypes /\ before # after /\ before # NoSponsor /\ after = NoSponsor
    <3> DEFINE e == SponsorshipEffect(op, c, "sponsorship_removed", before)
    <3>1. y = LinesAfter(q.lines, e)
      BY <1>5, <1>8, <2>3
    <3>2. e.type = "sponsorship_removed" /\ e.about[1] = c.key.type
          /\ (c.key.type = "trustline" => e.about[2] = c.key.owner)
      BY <1>6
    <3>3. \A a : LineDelta(c, a) = IF c.key.type = "trustline" /\ a = c.key.owner THEN -1 ELSE 0
      BY <2>3 DEF LineDelta
    <3> HIDE DEF e, y
    <3>4. y = IF c.key.type = "trustline" THEN [q.lines EXCEPT ![c.key.owner] = @ - 1] ELSE q.lines
      BY <3>1, <3>2 DEF LinesAfter
    <3>5. CASE c.key.type = "trustline"
      <4>1. y = plus(c.key.owner, -1)
        BY <1>a, <3>4, <3>5
      <4>2. /\ y \in [Users -> Int]
            /\ \A a \in Users : y[a] = q.lines[a] + IF a = c.key.owner THEN -1 ELSE 0
        BY <1>7, <4>1
      <4> QED
        BY <3>3, <3>5, <4>2
    <3> QED
      BY <2>0, <3>3, <3>4, <3>5
  <2>4. CASE c.key.type \in SponsoredTypes /\ before # after /\ before # NoSponsor /\ after # NoSponsor
    <3> DEFINE e == SponsorshipEffect(op, c, "sponsorship_updated", after)
    <3>1. y = LinesAfter(q.lines, e)
      BY <1>5, <1>8, <2>4
    <3>2. e.type = "sponsorship_updated"
      BY <1>6
    <3>3. \A a : LineDelta(c, a) = 0
      BY <2>4 DEF LineDelta
    <3> HIDE DEF e, y
    <3>4. y = q.lines
      BY <3>1, <3>2 DEF LinesAfter
    <3> QED
      BY <2>0, <3>3, <3>4
  <2> QED
    BY <2>1, <2>2, <2>3, <2>4
<1>10. Consumed(q, S \o P).lines = y
  BY <1>2, <1>4
<1> HIDE DEF y, S, P
<1> QED
  BY <1>9, <1>10 DEF S, P

\* A count that changes in one step only.
CountsOnce(v, N, m0, d) ==
    N \in Nat /\ \A n \in 0 .. N - 1 : v[n + 1] = IF n + 1 = m0 THEN v[n] + d ELSE v[n]

LEMMA CountedOnce ==
    ASSUME NEW N, NEW v, NEW m0, NEW d, CountsOnce(v, N, m0, d)
    PROVE  v[N] = IF m0 \in 1 .. N THEN v[0] + d ELSE v[0]
<1> DEFINE G == {n \in 0 .. N : v[n] = IF m0 \in 1 .. n THEN v[0] + d ELSE v[0]}
<1>0. N \in Nat
  BY DEF CountsOnce
<1>1. 0 \in G
  BY <1>0
<1>2. ASSUME NEW n \in 0 .. N - 1, n \in G PROVE n + 1 \in G
  <2>1. v[n] = IF m0 \in 1 .. n THEN v[0] + d ELSE v[0]
    BY <1>2
  <2>2. m0 \in 1 .. n + 1 <=> m0 \in 1 .. n \/ n + 1 = m0
    BY <1>0
  <2>3. n + 1 = m0 => m0 \notin 1 .. n
    BY <1>0
  <2>4. n + 1 \in 0 .. N
    BY <1>0
  <2>5. v[n + 1] = IF n + 1 = m0 THEN v[n] + d ELSE v[n]
    BY DEF CountsOnce
  <2>6. v[n + 1] = IF m0 \in 1 .. n + 1 THEN v[0] + d ELSE v[0]
    BY <2>1, <2>2, <2>3, <2>5
  <2> QED
    BY <2>4, <2>6
<1> HIDE DEF G
<1>3. \A n \in 0 .. N : n \in G
  BY <1>0, <1>1, <1>2, Induction, Zenon
<1>4. N \in 0 .. N
  BY <1>0
<1> QED
  BY <1>3, <1>4 DEF G

LEMMA LinesTold ==
    ASSUME NEW r, r.lines \in [Users -> Int], NEW op, WellFormed(op), NEW a \in Users, NEW m0,
           \A m \in 1 .. Len(op.changes) : m # m0 => LineDelta(op.changes[m], a) = 0
    PROVE  Consumed(r, ChangeEffects(op)).lines[a]
           = IF m0 \in 1 .. Len(op.changes) THEN r.lines[a] + LineDelta(op.changes[m0], a)
             ELSE r.lines[a]
<1> DEFINE of(c) == SponsorshipEffects(op, c) \o PoolLifecycleEffects(op, c)
           all == [i \in DOMAIN op.changes |-> of(op.changes[i])]
           N == Len(op.changes)
<1>1. ChangeEffects(op) = FlattenSeq(all)
  BY DEF ChangeEffects, ForEach
<1>2. IsSequence(op.changes) /\ DOMAIN op.changes = 1 .. N /\ N \in Nat
  BY OwnElements DEF WellFormed, IsSequence
<1>3. \A c : IsSequence(of(c))
  <2>1. \A c : IsSequence(SponsorshipEffects(op, c))
    BY Elements DEF SponsorshipEffects
  <2>2. \A c : IsSequence(PoolLifecycleEffects(op, c))
    BY Elements DEF PoolLifecycleEffects
  <2> QED
    BY <2>1, <2>2, ElementsJoined
<1>4. ASSUME NEW q, q.lines \in [Users -> Int], NEW c
      PROVE  /\ Consumed(q, of(c)).lines \in [Users -> Int]
             /\ Consumed(q, of(c)).lines[a] = q.lines[a] + LineDelta(c, a)
  BY <1>4, LinesOfChange
<1> HIDE DEF of
<1>5. Along(all, op.changes) /\ \A n \in 1 .. N : all[n] = of(op.changes[n]) /\ IsSequence(all[n])
  BY <1>2, <1>3 DEF Along
<1> HIDE DEF all
<1>6. PICK T : all \in Seq(Seq(T)) /\ FlattenSeq(all) \in Seq(T)
  BY <1>2, <1>5, FlattenSequence
<1>7. Len(all) = N
  <2> DEFINE W == {all[m] : m \in 1 .. Len(op.changes)}
  <2>1. \A n \in 1 .. Len(op.changes) : all[n] \in W
    OBVIOUS
  <2> HIDE DEF W
  <2>2. Along(all, op.changes)
    BY <1>5
  <2> QED
    BY <1>2, <2>1, <2>2, AlongTyped
<1>8. PICK g : JoinsUp(g, all, T)
  BY <1>6, FlattenPrefixes
<1> DEFINE v == [n \in 0 .. N |-> Consumed(r, g[n]).lines[a]]
           G == {n \in 0 .. N : Consumed(r, g[n]).lines \in [Users -> Int]}
<1>9. ASSUME NEW n \in 0 .. N - 1
      PROVE  Consumed(r, g[n + 1]) = Consumed(Consumed(r, g[n]), of(op.changes[n + 1]))
  <2>1. n + 1 \in 1 .. N /\ n \in 0 .. Len(all) /\ n \in 0 .. Len(all) - 1
    BY <1>2, <1>7
  <2>2. g[n + 1] = g[n] \o all[n + 1] /\ g[n] \in Seq(T)
    BY <1>8, <2>1, Zenon DEF JoinsUp
  <2>3. IsSequence(g[n]) /\ IsSequence(all[n + 1]) /\ all[n + 1] = of(op.changes[n + 1])
    BY <1>5, <2>1, <2>2, OwnElements
  <2>4. Consumed(r, g[n] \o all[n + 1]) = Consumed(Consumed(r, g[n]), all[n + 1])
    BY <2>3, ConsumedJoined
  <2> QED
    BY <2>2, <2>3, <2>4, Zenon
<1>10. Consumed(r, g[0]) = r
  BY <1>8, ConsumedNone DEF JoinsUp
<1>11. \A n \in 0 .. N : Consumed(r, g[n]).lines \in [Users -> Int]
  <2>1. 0 \in G
    BY <1>2, <1>10
  <2>2. ASSUME NEW n \in 0 .. N - 1, n \in G PROVE n + 1 \in G
    <3>1. Consumed(r, g[n]).lines \in [Users -> Int] /\ n + 1 \in 0 .. N
      BY <1>2, <2>2
    <3>2. Consumed(Consumed(r, g[n]), of(op.changes[n + 1])).lines \in [Users -> Int]
      BY <1>4, <3>1
    <3>3. Consumed(r, g[n + 1]).lines \in [Users -> Int]
      BY <1>9, <3>2
    <3> QED
      BY <3>1, <3>3
  <2> HIDE DEF G
  <2>3. \A n \in 0 .. N : n \in G
    BY <1>2, <2>1, <2>2, Induction, Zenon
  <2> QED
    BY <2>3 DEF G
<1> DEFINE d == LineDelta(op.changes[m0], a)
<1>12. \A n \in 0 .. N - 1 : v[n + 1] = IF n + 1 = m0 THEN v[n] + d ELSE v[n]
  <2> TAKE n \in 0 .. N - 1
  <2>1. n \in 0 .. N /\ n + 1 \in 0 .. N /\ n + 1 \in 1 .. N
    BY <1>2
  <2>2. v[n] = Consumed(r, g[n]).lines[a] /\ v[n + 1] = Consumed(r, g[n + 1]).lines[a]
    BY <2>1
  <2>3. Consumed(r, g[n]).lines \in [Users -> Int]
    BY <1>11, <2>1
  <2> HIDE DEF v
  <2>4. v[n + 1] = v[n] + LineDelta(op.changes[n + 1], a)
    BY <1>4, <1>9, <2>2, <2>3
  <2>5. v[n] \in Int
    BY <2>2, <2>3
  <2>6. n + 1 # m0 => LineDelta(op.changes[n + 1], a) = 0
    BY <2>1
  <2> QED
    BY <2>4, <2>5, <2>6
<1>13. v[0] = r.lines[a] /\ v[N] = Consumed(r, g[N]).lines[a]
  BY <1>2, <1>10
<1>14. g[N] = ChangeEffects(op)
  BY <1>1, <1>7, <1>8 DEF JoinsUp
<1> HIDE DEF v, d, N
<1>15. v[N] = IF m0 \in 1 .. N THEN v[0] + d ELSE v[0]
  <2>1. CountsOnce(v, N, m0, d)
    BY <1>2, <1>12 DEF CountsOnce
  <2> QED
    BY <2>1, CountedOnce
<1>16. Consumed(r, ChangeEffects(op)).lines[a] = IF m0 \in 1 .. N THEN r.lines[a] + d ELSE r.lines[a]
  BY <1>13, <1>14, <1>15
<1> QED
  BY <1>16 DEF d, N

-----------------------------------------------------------------------------
(* What the consumer is to know of the ledger, before and after a step.     *)

BalanceIn(E, h) == IF E[BalanceKey(h[1], h[2])] # NoEntry
                   THEN E[BalanceKey(h[1], h[2])].balance ELSE 0
SignersIn(E, a) == IF E[AccountKey(a)] # NoEntry THEN E[AccountKey(a)].signers ELSE Nobody

\* Effects that tell truly whether the entry of k, which was old and is new,
\* exists: none says otherwise, and one says what has changed.
Speaks(e) == e.type \in Arrivals \cup Departures
TellsOf(E, k, old, new) ==
    IF new # NoEntry
    THEN (\A e \in E : ~Departs(e, k)) /\ (old = NoEntry => \E e \in E : Arrives(e, k))
    ELSE (\A e \in E : ~Arrives(e, k)) /\ (old # NoEntry => \E e \in E : Departs(e, k))

\* An entry that stays, with its sponsor and signers.
Steady(k, e) ==
    /\ Live(k) /\ e # NoEntry /\ e.sponsor = entries[k].sponsor
    /\ k.type = "account" => e.signers = entries[k].signers

\* Outside of the pool, only the entry of k0 comes, goes or changes in what the
\* effects of changes are about.
Focus(after, k0) ==
    \A k \in DOMAIN after : k # k0 /\ k.type # "liquidity_pool" => Steady(k, after[k])

Step(after) ==
    /\ Ledger /\ Leaves(after) /\ entries' = With(after, entries)

LEMMA StepIs ==
    ASSUME NEW after, Step(after)
    PROVE  \A k \in Keys : entries'[k] = IF k \in DOMAIN after THEN after[k] ELSE entries[k]
BY NextLedger DEF Step

LEMMA FocusTells ==
    ASSUME NEW after, Step(after), NEW k0, Focus(after, k0), NEW E,
           \A e \in E : Speaks(e) => /\ EntryOf(e) = k0
                                     /\ e.type \in Arrivals <=> entries'[k0] # NoEntry
    PROVE  \A k \in Keys :
              /\ k.type # "liquidity_pool"
              /\ k = k0 => \/ entries[k] = NoEntry <=> entries'[k] = NoEntry
                           \/ \E e \in E : Speaks(e)
              => TellsOf(E, k, entries[k], entries'[k])
<1> TAKE k \in Keys
<1> HAVE /\ k.type # "liquidity_pool"
         /\ k = k0 => \/ entries[k] = NoEntry <=> entries'[k] = NoEntry
                      \/ \E e \in E : Speaks(e)
<1>1. Arrivals \cap Departures = {}
  BY DEF Arrivals, Departures
<1>2. CASE k # k0
  <2>1. entries[k] = NoEntry <=> entries'[k] = NoEntry
    BY <1>2, StepIs DEF Focus, Steady, Live
  <2>2. \A e \in E : ~Arrives(e, k) /\ ~Departs(e, k)
    BY <1>2 DEF Speaks, Arrives, Departs
  <2> QED
    BY <2>1, <2>2 DEF TellsOf
<1>3. CASE k = k0
  <2>1. entries'[k] # NoEntry => \A e \in E : ~Departs(e, k)
    BY <1>1, <1>3 DEF Speaks, Departs
  <2>2. entries'[k] = NoEntry => \A e \in E : ~Arrives(e, k)
    BY <1>1, <1>3 DEF Speaks, Arrives
  <2>3. (entries[k] = NoEntry) # (entries'[k] = NoEntry) => \E e \in E : Speaks(e)
    BY <1>3
  <2>4. \A e \in E : Speaks(e) => Arrives(e, k) \/ Departs(e, k)
    BY <1>3 DEF Speaks, Arrives, Departs
  <2> QED
    BY <2>1, <2>2, <2>3, <2>4 DEF TellsOf
<1> QED
  BY <1>2, <1>3

LEMMA FocusSigners ==
    ASSUME NEW after, Step(after), NEW k0, Focus(after, k0)
    PROVE  \A a \in Accounts : AccountKey(a) # k0 => SignersIn(entries', a) = SignersIn(entries, a)
<1> TAKE a \in Accounts
<1> DEFINE k == AccountKey(a)
<1>1. k \in Keys /\ k.type = "account"
  BY KeysAre, KeyTypes
<1> HIDE DEF k
<1>2. k # k0 => IF entries'[k] # NoEntry THEN entries[k] # NoEntry /\ entries'[k].signers = entries[k].signers
                ELSE entries[k] = NoEntry
  BY <1>1, StepIs DEF Focus, Steady, Live
<1> QED
  BY <1>2 DEF SignersIn, k

SignerTypes == Resets \cup Weighs \cup {"signer_removed"}

LEMMA QuietSigners ==
    ASSUME replica \in Replicas, NEW s, IsSequence(s),
           \A e \in ToSet(s) : Fits(e) /\ e.type \notin SignerTypes
    PROVE  Consumed(replica, s).signers = replica.signers
<1> DEFINE q == Consumed(replica, s)
<1>1. q \in Replicas
  BY FittingAll
<1>2. q.signers \in [Accounts -> Weights] /\ replica.signers \in [Accounts -> Weights]
  BY <1>1 DEF Replicas
<1>3. ASSUME NEW a \in Accounts PROVE q.signers[a] = replica.signers[a]
  <2>1. a \in DOMAIN replica.signers
    BY <1>2
  <2>2. \A e \in ToSet(s) : \A k : ~Signs(e, a, k)
    BY DEF Signs, SignerTypes
  <2> QED
    BY <2>1, <2>2, SignersTold
<1> HIDE DEF q
<1>4. q.signers = replica.signers
  BY <1>2, <1>3
<1> QED
  BY <1>4 DEF q

\* What an effect, other than that of an account's creation, adds to a balance.
Delta(e, h) ==
    CASE e.type = "account_credited"  -> IF << e.address, e.about >> = h THEN e.value ELSE 0
      [] e.type = "account_debited"   -> IF << e.address, e.about >> = h THEN -e.value ELSE 0
      [] e.type = "contract_credited" -> IF << e.about, Native >> = h THEN e.value ELSE 0
      [] e.type = "contract_debited"  -> IF << e.about, Native >> = h THEN -e.value ELSE 0
      [] OTHER -> 0

LEMMA BalanceStep ==
    ASSUME NEW r, r.balance \in [Holders -> Int], NEW e, Fits(e)
    PROVE  /\ Apply(r, e).balance \in [Holders -> Int]
           /\ e.type # "account_created" =>
                \A h \in Holders : Apply(r, e).balance[h] = r.balance[h] + Delta(e, h)
           /\ e.type = "account_created" =>
                \A h \in Holders : Apply(r, e).balance[h] =
                                      IF h = << e.address, Native >> THEN e.value ELSE r.balance[h]
<1> DEFINE b == r.balance
           new == BalanceAfter(b, e)
<1>0. Apply(r, e).balance = new /\ b \in [Holders -> Int]
  BY DEF Apply
<1>1. e.type \in BalanceTypes => e.value \in Int /\ -e.value \in Int
  BY DEF Fits
<1> HIDE DEF b
<1>2. \A holder, asset : \A d \in Int :
         /\ Add(b, holder, asset, d) \in [Holders -> Int]
         /\ \A h \in Holders : Add(b, holder, asset, d)[h]
                               = b[h] + IF << holder, asset >> = h THEN d ELSE 0
  <2> TAKE holder, asset
  <2> TAKE d \in Int
  <2> DEFINE x == << holder, asset >>
             y == Add(b, holder, asset, d)
  <2>1. y = IF x \in Holders THEN [b EXCEPT ![x] = @ + d] ELSE b
    BY <1>0 DEF Add
  <2> HIDE DEF x, y
  <2>2. y \in [Holders -> Int] /\ \A h \in Holders : y[h] = IF x = h THEN b[h] + d ELSE b[h]
    BY <1>0, <2>1
  <2>3. \A h \in Holders : b[h] \in Int /\ b[h] + 0 = b[h]
    BY <1>0
  <2>4. \A h \in Holders : y[h] = b[h] + IF x = h THEN d ELSE 0
    BY <2>2, <2>3
  <2> QED
    BY <2>2, <2>4 DEF x, y
<1>3. \A h \in Holders : b[h] \in Int /\ b[h] + 0 = b[h]
  BY <1>0
<1>4. CASE e.type = "account_created"
  <2>1. new = [b EXCEPT ![<< e.address, Native >>] = e.value] /\ e.value \in Int
    BY <1>1, <1>4 DEF BalanceAfter, BalanceTypes
  <2> DEFINE x == << e.address, Native >>
  <2> HIDE DEF new
  <2>2. /\ new \in [Holders -> Int]
        /\ \A h \in Holders : new[h] = IF h = x THEN e.value ELSE b[h]
    BY <1>0, <2>1
  <2> QED
    BY <1>0, <1>4, <2>2 DEF b
<1>5. CASE e.type \in {"account_credited", "account_debited"}
  <2> DEFINE d == IF e.type = "account_credited" THEN e.value ELSE -e.value
  <2>1. new = Add(b, e.address, e.about, d) /\ d \in Int
    BY <1>1, <1>5 DEF BalanceAfter, BalanceTypes
  <2>2. \A h : Delta(e, h) = IF << e.address, e.about >> = h THEN d ELSE 0
    BY <1>5 DEF Delta
  <2> HIDE DEF new, d
  <2>3. /\ new \in [Holders -> Int]
        /\ \A h \in Holders : new[h] = b[h] + Delta(e, h)
    BY <1>2, <2>1, <2>2
  <2> QED
    BY <1>0, <1>5, <2>3 DEF b
<1>6. CASE e.type \in {"contract_credited", "contract_debited"}
  <2> DEFINE d == IF e.type = "contract_credited" THEN e.value ELSE -e.value
  <2>1. new = Add(b, e.about, Native, d) /\ d \in Int
    BY <1>1, <1>6 DEF BalanceAfter, BalanceTypes
  <2>2. \A h : Delta(e, h) = IF << e.about, Native >> = h THEN d ELSE 0
    BY <1>6 DEF Delta
  <2> HIDE DEF new, d
  <2>3. /\ new \in [Holders -> Int]
        /\ \A h \in Holders : new[h] = b[h] + Delta(e, h)
    BY <1>2, <2>1, <2>2
  <2> QED
    BY <1>0, <1>6, <2>3 DEF b
<1>7. CASE e.type \notin BalanceTypes
  <2>1. new = b
    BY <1>7 DEF BalanceAfter, BalanceTypes
  <2>2. \A h : Delta(e, h) = 0
    BY <1>7 DEF Delta, BalanceTypes
  <2>3. e.type # "account_created"
    BY <1>7 DEF BalanceTypes
  <2> HIDE DEF new
  <2> QED
    BY <1>0, <1>3, <2>1, <2>2, <2>3 DEF b
<1> QED
  BY <1>4, <1>5, <1>6, <1>7 DEF BalanceTypes

\* Two effects after each other.
LEMMA BalancePair ==
    ASSUME NEW r \in Replicas, NEW e1, Fits(e1), NEW e2, Fits(e2),
           e1.type # "account_created", e2.type # "account_created"
    PROVE  \A h \in Holders :
              Consumed(r, << e1, e2 >>).balance[h] = r.balance[h] + Delta(e1, h) + Delta(e2, h)
<1> DEFINE q == Apply(r, e1)
<1>1. q \in Replicas /\ r.balance \in [Holders -> Int] /\ q.balance \in [Holders -> Int]
  <2>1. q \in Replicas
    BY Fitting
  <2> QED
    BY <2>1 DEF Replicas
<1>2. Consumed(r, << e1, e2 >>) = Apply(q, e2)
  <2>1. << e1, e2 >> = << e1 >> \o << e2 >>
    OBVIOUS
  <2>2. Consumed(r, << e1 >> \o << e2 >>) = Consumed(Consumed(r, << e1 >>), << e2 >>)
    BY Elements, ConsumedJoined
  <2>3. Consumed(r, << e1 >>) = q /\ Consumed(q, << e2 >>) = Apply(q, e2)
    BY ConsumedOne
  <2> QED
    BY <2>1, <2>2, <2>3, Zenon
<1>3. \A h \in Holders : q.balance[h] = r.balance[h] + Delta(e1, h)
  BY <1>1, BalanceStep
<1> HIDE DEF q
<1>4. \A h \in Holders : Apply(q, e2).balance[h] = q.balance[h] + Delta(e2, h)
  BY <1>1, BalanceStep
<1> QED
  BY <1>2, <1>3, <1>4

LEMMA BalancesAreInts ==
    ASSUME Ledger
    PROVE  \A h \in Holders : BalanceIn(entries, h) \in Int
<1> TAKE h \in Holders
<1> DEFINE k == BalanceKey(h[1], h[2])
<1>1. << h[1], h[2] >> \in Holders
  BY HoldersAre
<1>2. /\ k \in Keys /\ k.type \in {"account", "trustline", "contract_data"}
      /\ k.type = "contract_data" => k = HeldKey
  <2>1. k \in Keys /\ k.type \in {"account", "trustline", "contract_data"}
    BY <1>1, BalanceKeys
  <2> HIDE DEF k
  <2> QED
    BY <2>1, KeysAre
<1> HIDE DEF k
<1>3. entries[k] # NoEntry => entries[k] \in EntryType(k)
  BY <1>2 DEF Ledger, Typed
<1>4. entries[k] # NoEntry => entries[k].balance \in Int
  <2>1. CASE k.type = "account"
    BY <1>2, <1>3, <2>1, EntriesAre
  <2>2. CASE k.type = "trustline"
    BY <1>2, <1>3, <2>2, EntriesAre
  <2>3. CASE k.type = "contract_data"
    BY <1>2, <1>3, <2>3, EntriesAre
  <2> QED
    BY <1>2, <2>1, <2>2, <2>3
<1> QED
  BY <1>4 DEF BalanceIn, k

-----------------------------------------------------------------------------
(* The ways in which an operation changes the ledger.                       *)

LEMMA MovedBalance ==
    ASSUME Ledger, NEW x, NEW asset, Movable(x, asset), NEW d \in Int
    PROVE  /\ \A h \in Holders :
                 /\ BalanceKey(h[1], h[2]) \in DOMAIN Moved(x, asset, d) <=> h = << x, asset >>
                 /\ h = << x, asset >> =>
                       /\ BalanceKey(h[1], h[2]) = BalanceKey(x, asset)
                       /\ entries[BalanceKey(x, asset)] # NoEntry
                       /\ Moved(x, asset, d)[BalanceKey(x, asset)] # NoEntry
                       /\ Moved(x, asset, d)[BalanceKey(x, asset)].balance
                          = entries[BalanceKey(x, asset)].balance + d
           /\ \A k \in DOMAIN Moved(x, asset, d) : Steady(k, Moved(x, asset, d)[k])
           /\ PoolKey \notin DOMAIN Moved(x, asset, d)
<1>1. CASE IsIssuer(x, asset)
  <2>1. DOMAIN Moved(x, asset, d) = {}
    BY <1>1, MovedIs
  <2>2. << x, asset >> \notin Holders
    BY <1>1, HoldersAre
  <2> QED
    BY <2>1, <2>2
<1>2. CASE ~IsIssuer(x, asset)
  <2> DEFINE k == BalanceKey(x, asset)
             m == Moved(x, asset, d)
  <2>1. << x, asset >> \in Holders /\ DOMAIN m = {k} /\ Shifted(k, m[k], d)
    BY <1>2, MovedIs
  <2>2. \A h \in Holders : BalanceKey(h[1], h[2]) = k <=> h = << x, asset >>
    <3> TAKE h \in Holders
    <3>1. h = << h[1], h[2] >>
      BY HoldersAre
    <3>2. BalanceKey(h[1], h[2]) = k => h[1] = x /\ h[2] = asset
      BY <2>1, <3>1, BalanceKeys
    <3>3. h = << x, asset >> => h[1] = x /\ h[2] = asset
      OBVIOUS
    <3> QED
      BY <3>1, <3>2, <3>3
  <2> HIDE DEF k, m
  <2>3. /\ entries[k] # NoEntry /\ m[k] # NoEntry /\ m[k].balance = entries[k].balance + d
        /\ Steady(k, m[k]) /\ k # PoolKey
    <3>1. k \in Keys /\ m[k] \in EntryType(k)
      BY <2>1 DEF Shifted
    <3>2. m[k] # NoEntry
      BY <3>1, EntriesAre
    <3>3. k # PoolKey
      BY <2>1, KeyTypes DEF Shifted
    <3> QED
      BY <2>1, <3>2, <3>3 DEF Shifted, Steady, Live
  <2> QED
    BY <2>1, <2>2, <2>3 DEF k, m
<1> QED
  BY <1>1, <1>2

\* One entry, and a balance that moves beside it.
LEMMA SetAndMoved ==
    ASSUME Ledger, NEW k0 \in Keys, NEW e \in EntryType(k0) \cup {NoEntry}, Kept(k0, e),
           NEW x, NEW asset, Movable(x, asset), NEW d \in Int,
           IsIssuer(x, asset) \/ k0 # BalanceKey(x, asset),
           NEW after, after = With(Set(k0, e), Moved(x, asset, d))
    PROVE  /\ Leaves(after) /\ Focus(after, k0) /\ k0 \in DOMAIN after /\ after[k0] = e
           /\ k0 # PoolKey => PoolKey \notin DOMAIN after
           /\ entries' = With(after, entries)
              => /\ entries'[k0] = e
                 /\ \A h \in Holders : BalanceKey(h[1], h[2]) # k0 =>
                       BalanceIn(entries', h)
                       = BalanceIn(entries, h) + IF h = << x, asset >> THEN d ELSE 0
<1> DEFINE m == Moved(x, asset, d)
<1>1. PICK s : s = Set(k0, e)
  OBVIOUS
<1>2. DOMAIN s = {k0} /\ s[k0] = e /\ Leaves(s)
  BY <1>1, SetIs, LeavesSet
<1>3. Leaves(m) /\ (DOMAIN m = {} \/ DOMAIN m = {BalanceKey(x, asset)})
  BY MovedIs
<1>4. k0 \notin DOMAIN m
  <2>1. CASE IsIssuer(x, asset)
    <3>1. DOMAIN m = {}
      BY <2>1, MovedIs
    <3> QED
      BY <3>1
  <2>2. CASE ~IsIssuer(x, asset)
    <3>1. DOMAIN m = {BalanceKey(x, asset)}
      BY <2>2, MovedIs
    <3> QED
      BY <2>2, <3>1
  <2> QED
    BY <2>1, <2>2
<1>5. /\ \A h \in Holders :
            /\ BalanceKey(h[1], h[2]) \in DOMAIN m <=> h = << x, asset >>
            /\ h = << x, asset >> =>
                  /\ BalanceKey(h[1], h[2]) = BalanceKey(x, asset)
                  /\ entries[BalanceKey(x, asset)] # NoEntry
                  /\ m[BalanceKey(x, asset)] # NoEntry
                  /\ m[BalanceKey(x, asset)].balance = entries[BalanceKey(x, asset)].balance + d
      /\ \A k \in DOMAIN m : Steady(k, m[k])
      /\ PoolKey \notin DOMAIN m
  BY MovedBalance
<1> HIDE DEF m
<1>6. after = With(s, m)
  BY <1>1 DEF m
<1>7. Leaves(after)
  BY <1>2, <1>3, <1>6, LeavesWith
<1>8. /\ DOMAIN after = {k0} \cup DOMAIN m /\ after[k0] = e
      /\ \A k \in DOMAIN m : after[k] = m[k]
  BY <1>2, <1>4, <1>6 DEF With
<1>9. Focus(after, k0)
  BY <1>5, <1>8 DEF Focus
<1>10. ASSUME entries' = With(after, entries)
       PROVE  /\ entries'[k0] = e
              /\ \A h \in Holders : BalanceKey(h[1], h[2]) # k0 =>
                    BalanceIn(entries', h)
                    = BalanceIn(entries, h) + IF h = << x, asset >> THEN d ELSE 0
  <2>1. \A k \in Keys : entries'[k] = IF k \in DOMAIN after THEN after[k] ELSE entries[k]
    BY <1>7, <1>10, StepIs DEF Step
  <2>2. ASSUME NEW h \in Holders, BalanceKey(h[1], h[2]) # k0
        PROVE  BalanceIn(entries', h) = BalanceIn(entries, h) + IF h = << x, asset >> THEN d ELSE 0
    <3> DEFINE k == BalanceKey(h[1], h[2])
    <3>1. k \in Keys
      <4>1. << h[1], h[2] >> \in Holders
        BY HoldersAre
      <4> QED
        BY <4>1, BalanceKeys
    <3>2. BalanceIn(entries, h) \in Int
      BY BalancesAreInts
    <3>3. CASE h = << x, asset >>
      <4>1. entries'[k] = m[k] /\ k = BalanceKey(x, asset)
        BY <1>5, <1>8, <2>1, <3>1, <3>3
      <4> HIDE DEF k
      <4>2. entries[k] # NoEntry /\ entries'[k] # NoEntry /\ entries'[k].balance = entries[k].balance + d
        BY <1>5, <3>3, <4>1
      <4> QED
        BY <3>3, <4>2 DEF BalanceIn, k
    <3>4. CASE h # << x, asset >>
      <4>1. entries'[k] = entries[k]
        BY <1>5, <1>8, <2>1, <2>2, <3>1, <3>4
      <4> HIDE DEF k
      <4>2. BalanceIn(entries', h) = BalanceIn(entries, h)
        BY <4>1 DEF BalanceIn, k
      <4> QED
        BY <3>2, <3>4, <4>2
    <3> QED
      BY <3>3, <3>4
  <2>3. entries'[k0] = e
    BY <1>8, <2>1
  <2> QED
    BY <2>2, <2>3
<1>11. k0 # PoolKey => PoolKey \notin DOMAIN after
  BY <1>5, <1>8
<1> QED
  BY <1>7, <1>8, <1>9, <1>10, <1>11

\* One entry alone.
LEMMA SetAlone ==
    ASSUME Ledger, NEW k0 \in Keys, NEW e \in EntryType(k0) \cup {NoEntry}, Kept(k0, e),
           NEW after, after = Set(k0, e)
    PROVE  /\ Leaves(after) /\ Focus(after, k0) /\ DOMAIN after = {k0} /\ after[k0] = e
           /\ entries' = With(after, entries)
              => /\ entries'[k0] = e
                 /\ \A k \in Keys : k # k0 => entries'[k] = entries[k]
                 /\ \A h \in Holders : BalanceKey(h[1], h[2]) # k0 =>
                       BalanceIn(entries', h) = BalanceIn(entries, h)
<1>1. DOMAIN after = {k0} /\ after[k0] = e /\ Leaves(after)
  BY SetIs, LeavesSet
<1>2. Focus(after, k0)
  BY <1>1 DEF Focus
<1>3. ASSUME entries' = With(after, entries)
      PROVE  /\ entries'[k0] = e
             /\ \A k \in Keys : k # k0 => entries'[k] = entries[k]
  BY <1>1, <1>3, StepIs DEF Step
<1>4. ASSUME entries' = With(after, entries), NEW h \in Holders, BalanceKey(h[1], h[2]) # k0
      PROVE  BalanceIn(entries', h) = BalanceIn(entries, h)
  <2>1. BalanceKey(h[1], h[2]) \in Keys
    <3>1. << h[1], h[2] >> \in Holders
      BY HoldersAre
    <3> QED
      BY <3>1, BalanceKeys
  <2>2. entries'[BalanceKey(h[1], h[2])] = entries[BalanceKey(h[1], h[2])]
    BY <1>3, <1>4, <2>1
  <2> QED
    BY <2>2 DEF BalanceIn
<1> QED
  BY <1>1, <1>2, <1>3, <1>4

\* A balance alone, and one that goes to another.
LEMMA MovedAlone ==
    ASSUME Ledger, NEW x, NEW asset, Movable(x, asset), NEW d \in Int,
           NEW after, after = Moved(x, asset, d)
    PROVE  /\ Leaves(after) /\ Focus(after, PoolKey) /\ PoolKey \notin DOMAIN after
           /\ entries' = With(after, entries)
              => \A h \in Holders :
                    BalanceIn(entries', h)
                    = BalanceIn(entries, h) + IF h = << x, asset >> THEN d ELSE 0
<1>1. Leaves(after)
  BY MovedIs
<1>2. Focus(after, PoolKey) /\ PoolKey \notin DOMAIN after
  BY MovedBalance DEF Focus
<1>3. ASSUME entries' = With(after, entries), NEW h \in Holders
      PROVE  BalanceIn(entries', h) = BalanceIn(entries, h) + IF h = << x, asset >> THEN d ELSE 0
  <2> DEFINE k == BalanceKey(h[1], h[2])
  <2>1. k \in Keys
    <3>1. << h[1], h[2] >> \in Holders
      BY HoldersAre
    <3> QED
      BY <3>1, BalanceKeys
  <2>2. entries'[k] = IF k \in DOMAIN after THEN after[k] ELSE entries[k]
    BY <1>1, <1>3, <2>1, StepIs DEF Step
  <2>3. BalanceIn(entries, h) \in Int
    BY BalancesAreInts
  <2>4. CASE h = << x, asset >>
    <3>1. /\ k \in DOMAIN after /\ k = BalanceKey(x, asset)
          /\ entries[k] # NoEntry /\ after[k] # NoEntry /\ after[k].balance = entries[k].balance + d
      BY <2>4, MovedBalance
    <3> HIDE DEF k
    <3> QED
      BY <2>2, <2>4, <3>1 DEF BalanceIn, k
  <2>5. CASE h # << x, asset >>
    <3>1. k \notin DOMAIN after
      BY <2>5, MovedBalance
    <3>2. BalanceIn(entries', h) = BalanceIn(entries, h)
      BY <2>2, <3>1 DEF BalanceIn
    <3> QED
      BY <2>3, <2>5, <3>2
  <2> QED
    BY <2>4, <2>5
<1> QED
  BY <1>1, <1>2, <1>3

LEMMA Transferred ==
    ASSUME Ledger, NEW from, NEW to, NEW asset, Movable(from, asset), Movable(to, asset),
           NEW amount \in Int, NEW after, after = Transfer(from, to, asset, amount)
    PROVE  /\ Leaves(after) /\ Focus(after, PoolKey) /\ PoolKey \notin DOMAIN after
           /\ entries' = With(after, entries)
              => \A h \in Holders :
                    BalanceIn(entries', h)
                    = BalanceIn(entries, h) + (IF h = << from, asset >> THEN -amount ELSE 0)
                                            + (IF h = << to, asset >> THEN amount ELSE 0)
<1>0. 0 \in Int /\ -amount \in Int
  OBVIOUS
<1>1. CASE from = to
  <2>1. after = Moved(from, asset, 0)
    BY <1>1 DEF Transfer
  <2>2. /\ Leaves(after) /\ Focus(after, PoolKey) /\ PoolKey \notin DOMAIN after
        /\ entries' = With(after, entries)
           => \A h \in Holders :
                 BalanceIn(entries', h)
                 = BalanceIn(entries, h) + IF h = << from, asset >> THEN 0 ELSE 0
    BY <1>0, <2>1, MovedAlone
  <2>3. \A h \in Holders : BalanceIn(entries, h) \in Int
    BY BalancesAreInts
  <2> QED
    BY <1>1, <2>2, <2>3
<1>2. CASE from # to
  <2> DEFINE f == Moved(from, asset, -amount)
             g == Moved(to, asset, amount)
  <2>1. after = With(f, g)
    BY <1>2 DEF Transfer
  <2>2. Leaves(f) /\ Leaves(g)
    BY <1>0, MovedIs
  <2>3. /\ \A h \in Holders :
              /\ BalanceKey(h[1], h[2]) \in DOMAIN f <=> h = << from, asset >>
              /\ h = << from, asset >> =>
                    /\ BalanceKey(h[1], h[2]) = BalanceKey(from, asset)
                    /\ entries[BalanceKey(from, asset)] # NoEntry
                    /\ f[BalanceKey(from, asset)] # NoEntry
                    /\ f[BalanceKey(from, asset)].balance
                       = entries[BalanceKey(from, asset)].balance + (-amount)
        /\ \A k \in DOMAIN f : Steady(k, f[k])
        /\ PoolKey \notin DOMAIN f
    BY <1>0, MovedBalance
  <2>4. /\ \A h \in Holders :
              /\ BalanceKey(h[1], h[2]) \in DOMAIN g <=> h = << to, asset >>
              /\ h = << to, asset >> =>
                    /\ BalanceKey(h[1], h[2]) = BalanceKey(to, asset)
                    /\ entries[BalanceKey(to, asset)] # NoEntry
                    /\ g[BalanceKey(to, asset)] # NoEntry
                    /\ g[BalanceKey(to, asset)].balance
                       = entries[BalanceKey(to, asset)].balance + amount
        /\ \A k \in DOMAIN g : Steady(k, g[k])
        /\ PoolKey \notin DOMAIN g
    BY MovedBalance
  <2> HIDE DEF f, g
  <2>5. Leaves(after)
    BY <2>1, <2>2, LeavesWith
  <2>6. DOMAIN after = DOMAIN f \cup DOMAIN g
        /\ \A k \in DOMAIN after : after[k] = IF k \in DOMAIN f THEN f[k] ELSE g[k]
    BY <2>1 DEF With
  <2>7. Focus(after, PoolKey)
    <3> SUFFICES ASSUME NEW k \in DOMAIN after PROVE Steady(k, after[k])
      BY DEF Focus
    <3>1. CASE k \in DOMAIN f
      BY <2>3, <2>6, <3>1
    <3>2. CASE k \notin DOMAIN f
      BY <2>4, <2>6, <3>2
    <3> QED
      BY <3>1, <3>2
  <2>8. ASSUME entries' = With(after, entries), NEW h \in Holders
        PROVE  BalanceIn(entries', h)
               = BalanceIn(entries, h) + (IF h = << from, asset >> THEN -amount ELSE 0)
                                       + (IF h = << to, asset >> THEN amount ELSE 0)
    <3> DEFINE k == BalanceKey(h[1], h[2])
    <3>1. k \in Keys
      <4>1. << h[1], h[2] >> \in Holders
        BY HoldersAre
      <4> QED
        BY <4>1, BalanceKeys
    <3>2. entries'[k] = IF k \in DOMAIN after THEN after[k] ELSE entries[k]
      BY <2>5, <2>8, <3>1, StepIs DEF Step
    <3>3. BalanceIn(entries, h) \in Int
      BY BalancesAreInts
    <3>4. CASE h = << from, asset >>
      <4>1. h # << to, asset >>
        BY <1>2, <3>4
      <4>2. k \in DOMAIN f /\ k = BalanceKey(from, asset)
        BY <2>3, <3>4
      <4>3. entries'[k] = f[k]
        BY <2>6, <3>2, <4>2
      <4>4. entries[k] # NoEntry /\ f[k] # NoEntry /\ f[k].balance = entries[k].balance + (-amount)
        BY <2>3, <3>4, <4>2
      <4>5. BalanceIn(entries, h) = entries[k].balance /\ BalanceIn(entries', h) = f[k].balance
        <5> HIDE DEF k
        <5> QED
          BY <4>3, <4>4 DEF BalanceIn, k
      <4> HIDE DEF k
      <4> QED
        BY <3>3, <3>4, <4>1, <4>4, <4>5
    <3>5. CASE h = << to, asset >>
      <4>1. h # << from, asset >>
        BY <1>2, <3>5
      <4>2. k \in DOMAIN g /\ k \notin DOMAIN f /\ k = BalanceKey(to, asset)
        BY <2>3, <2>4, <3>5, <4>1
      <4>3. entries'[k] = g[k]
        BY <2>6, <3>2, <4>2
      <4>4. entries[k] # NoEntry /\ g[k] # NoEntry /\ g[k].balance = entries[k].balance + amount
        BY <2>4, <3>5, <4>2
      <4>5. BalanceIn(entries, h) = entries[k].balance /\ BalanceIn(entries', h) = g[k].balance
        <5> HIDE DEF k
        <5> QED
          BY <4>3, <4>4 DEF BalanceIn, k
      <4> HIDE DEF k
      <4> QED
        BY <3>3, <3>5, <4>1, <4>4, <4>5
    <3>6. CASE h # << from, asset >> /\ h # << to, asset >>
      <4>1. k \notin DOMAIN after
        BY <2>3, <2>4, <2>6, <3>6
      <4>2. BalanceIn(entries', h) = BalanceIn(entries, h)
        BY <3>2, <4>1 DEF BalanceIn
      <4> QED
        BY <3>3, <3>6, <4>2
    <3> QED
      BY <3>4, <3>5, <3>6
  <2>9. PoolKey \notin DOMAIN after
    BY <2>3, <2>4, <2>6
  <2> QED
    BY <2>5, <2>7, <2>8, <2>9
<1> QED
  BY <1>1, <1>2

-----------------------------------------------------------------------------
(* What is to be shown of an operation.                                     *)

Own(o) == ToSet(OperationEffects(o))

\* The operation was read whole, or what is asked does not need it.
Informed(o, kinds) == (o.readable /\ Known(o)) \/ o.kind \notin kinds
BalanceKinds == ChangesNeededFor("claimable_balance") \cup {"invoke"}
NeededFor(k) == IF k.type = "account" THEN {} ELSE ChangesNeededFor(k.type)

Modest(o) == \A e \in Own(o) : Fits(e) /\ e.type \notin SponsorTypes \cup PoolTypes

\* The operation's own effects tell of every entry but the pool's.
EntriesTold(o) ==
    /\ \A k \in Keys : k.type \notin {"liquidity_pool", "contract_data"} /\ Informed(o, NeededFor(k))
                       => TellsOf(Own(o), k, entries[k], entries'[k])
    /\ \A e \in Own(o) : Speaks(e) => EntryOf(e).type # "liquidity_pool"

BalancesTold(o) ==
    /\ Informed(o, BalanceKinds)
    /\ \A h \in Holders : replica.balance[h] = BalanceIn(entries, h)
    => \A h \in Holders : Halfway(o).balance[h] = BalanceIn(entries', h)

SignersAgree(o) ==
    /\ Informed(o, {"set_options"})
    /\ \A a \in Accounts : replica.signers[a] = SignersIn(entries, a)
    => \A a \in Accounts : Halfway(o).signers[a] = SignersIn(entries', a)

\* At most one trustline gets or loses a sponsor; the pool is only touched by
\* operations on its shares.
OneLine(after) ==
    \E k0 : \A k \in DOMAIN after :
               k # k0 /\ k.type = "trustline" => Sponsor(after[k]) = Sponsor(entries[k])
OwnPool(o, after) == PoolKey \in DOMAIN after => o.kind = "change_trust"

Outcome(o, after) ==
    /\ Done(o, after) /\ Modest(o)
    /\ EntriesTold(o) /\ BalancesTold(o) /\ SignersAgree(o)
    /\ OneLine(after) /\ OwnPool(o, after)

LEMMA DoneStep ==
    ASSUME Ledger, NEW o, NEW after, Done(o, after)
    PROVE  /\ Step(after) /\ entries' = With(after, entries) /\ Leaves(after)
           /\ IsSequence(OperationEffects(o)) /\ IsSequence(o.changes)
           /\ o.readable <=> Read(o, after)
           /\ ~o.readable => o.changes = << >>
<1>1. IsSequence(OperationEffects(o)) /\ IsSequence(o.changes)
  BY OwnThenChanges DEF Done, WellFormed
<1> QED
  BY <1>1 DEF Done, Step, Read, Unread

LEMMA FocusOneLine ==
    ASSUME NEW after, NEW k0, Focus(after, k0)
    PROVE  OneLine(after)
<1>1. \A k \in DOMAIN after :
         k # k0 /\ k.type = "trustline" => Sponsor(after[k]) = Sponsor(entries[k])
  BY DEF Focus, Steady, Live, Sponsor
<1> QED
  BY <1>1 DEF OneLine

LEMMA EntriesFocus ==
    ASSUME Ledger, NEW o, NEW after, Done(o, after), NEW k0, Focus(after, k0),
           \A e \in Own(o) : Speaks(e) => /\ EntryOf(e) = k0
                                          /\ e.type \in Arrivals <=> entries'[k0] # NoEntry,
           k0.type = "liquidity_pool" => \A e \in Own(o) : ~Speaks(e),
           k0 \in Keys /\ k0.type # "liquidity_pool" /\ Informed(o, NeededFor(k0))
           => \/ entries[k0] = NoEntry <=> entries'[k0] = NoEntry
              \/ \E e \in Own(o) : Speaks(e)
    PROVE  EntriesTold(o)
<1>1. Step(after)
  BY DoneStep
<1>2. \A k \in Keys :
              /\ k.type # "liquidity_pool"
              /\ k = k0 => \/ entries[k] = NoEntry <=> entries'[k] = NoEntry
                           \/ \E e \in Own(o) : Speaks(e)
              => TellsOf(Own(o), k, entries[k], entries'[k])
  BY <1>1, FocusTells
<1> QED
  BY <1>2 DEF EntriesTold

LEMMA SignersQuiet ==
    ASSUME Ledger, replica \in Replicas, NEW o, NEW after, Done(o, after),
           NEW k0, Focus(after, k0), Modest(o),
           \A a \in Accounts : AccountKey(a) = k0 => SignersIn(entries', a) = SignersIn(entries, a),
           \A e \in Own(o) : e.type \notin SignerTypes
    PROVE  SignersAgree(o)
<1>1. Step(after) /\ IsSequence(OperationEffects(o))
  BY DoneStep
<1>2. \A a \in Accounts : SignersIn(entries', a) = SignersIn(entries, a)
  BY <1>1, FocusSigners
<1>3. Halfway(o).signers = replica.signers
  BY <1>1, QuietSigners DEF Own, Modest, Halfway
<1> QED
  BY <1>2, <1>3 DEF SignersAgree

LEMMA BalancesQuiet ==
    ASSUME NEW o, IsSequence(OperationEffects(o)),
           \A e \in Own(o) : e.type \notin BalanceTypes,
           \A h \in Holders : BalanceIn(entries', h) = BalanceIn(entries, h)
    PROVE  BalancesTold(o)
<1>1. Halfway(o).balance = replica.balance
  BY Untouched DEF Halfway, Own
<1> QED
  BY <1>1 DEF BalancesTold

Payments == {"account_credited", "account_debited", "contract_credited", "contract_debited"}

\* An operation that only moves balances.
LEMMA PaymentsOnly ==
    ASSUME Ledger, replica \in Replicas, NEW o, NEW after, Done(o, after),
           Focus(after, PoolKey), PoolKey \notin DOMAIN after,
           NEW e1, NEW e2, OperationEffects(o) = << e1, e2 >>,
           e1.type \in Payments, e2.type \in Payments, e1.value \in Int, e2.value \in Int,
           \A h \in Holders : BalanceIn(entries', h)
                              = BalanceIn(entries, h) + Delta(e1, h) + Delta(e2, h)
    PROVE  Outcome(o, after)
<1>1. Own(o) = {e1, e2}
  BY Elements DEF Own
<1>2. Payments \cap (Arrivals \cup Departures \cup SignerTypes \cup SponsorTypes \cup PoolTypes) = {}
  BY DEF Payments, Arrivals, Departures, SignerTypes, Resets, Weighs, SponsorTypes, PoolTypes
<1>3. Fits(e1) /\ Fits(e2)
  BY <1>2 DEF Fits, SignerTypes, SponsorTypes
<1>4. Modest(o)
  BY <1>1, <1>2, <1>3 DEF Modest
<1>5. EntriesTold(o)
  <2>1. PoolKey.type = "liquidity_pool" /\ \A e \in Own(o) : ~Speaks(e)
    BY <1>1, <1>2, KeyTypes DEF Speaks
  <2> QED
    BY <2>1, EntriesFocus
<1>6. SignersAgree(o)
  <2>1. \A a : AccountKey(a) # PoolKey
    BY KeyTypes
  <2>2. \A e \in Own(o) : e.type \notin SignerTypes
    BY <1>1, <1>2
  <2> QED
    BY <1>4, <2>1, <2>2, SignersQuiet
<1>7. BalancesTold(o)
  <2>1. e1.type # "account_created" /\ e2.type # "account_created"
    BY DEF Payments
  <2>2. \A h \in Holders : Halfway(o).balance[h] = replica.balance[h] + Delta(e1, h) + Delta(e2, h)
    BY <1>3, <2>1, BalancePair DEF Halfway
  <2> QED
    BY <2>2 DEF BalancesTold
<1>8. OneLine(after) /\ OwnPool(o, after)
  BY FocusOneLine DEF OwnPool
<1> QED
  BY <1>4, <1>5, <1>6, <1>7, <1>8 DEF Outcome

-----------------------------------------------------------------------------
(* The operations, one by one.                                              *)

LEMMA EffectIs ==
    \A a, t, b, v : /\ Effect(a, t, b, v).address = a /\ Effect(a, t, b, v).type = t
                    /\ Effect(a, t, b, v).about = b /\ Effect(a, t, b, v).value = v
BY DEF Effect

LEMMA Holding ==
    ASSUME NEW a \in Actors, NEW asset \in {Native, Credit}, CanHold(a, asset)
    PROVE  Movable(a, asset)
<1>1. a = Root \/ a \in Users
  BY NamesAre
<1>2. ~IsIssuer(a, asset) => << a, asset >> \in Holders
  BY <1>1, HoldersAre DEF IsIssuer
<1> QED
  BY <1>2 DEF CanHold, Movable

LEMMA PaymentOutcome ==
    ASSUME Ledger, replica \in Replicas, NEW source \in Actors, NEW dest \in Actors,
           NEW asset \in {Native, Credit}, Payment(source, dest, asset, 1)
    PROVE  \E o, after : Outcome(o, after)
<1> DEFINE op == [Operation("payment", source) EXCEPT
                      !.dest = dest, !.asset = asset, !.amount = 1]
<1>1. PICK after : after = Transfer(source, dest, asset, 1)
  OBVIOUS
<1>2. Movable(source, asset) /\ Movable(dest, asset) /\ Perform(op, after)
  BY <1>1, Holding DEF Payment, CanPay
<1>3. /\ Leaves(after) /\ Focus(after, PoolKey) /\ PoolKey \notin DOMAIN after
      /\ entries' = With(after, entries)
         => \A h \in Holders :
               BalanceIn(entries', h)
               = BalanceIn(entries, h) + (IF h = << source, asset >> THEN -1 ELSE 0)
                                       + (IF h = << dest, asset >> THEN 1 ELSE 0)
  BY <1>1, <1>2, Transferred
<1>4. /\ Bare(op) /\ op.kind = "payment" /\ op.source = source /\ op.dest = dest
      /\ op.amount = 1 /\ op.asset = asset
  BY Elements DEF Bare, Operation, Fields
<1> HIDE DEF op
<1>5. PICK o : Same(o, op) /\ Done(o, after)
  BY <1>2, <1>3, <1>4, Performed
<1> DEFINE e1 == Effect(dest, "account_credited", asset, 1)
           e2 == Effect(source, "account_debited", asset, 1)
<1>6. OperationEffects(o) = << e1, e2 >>
  BY <1>4, <1>5, Switch DEF Same, PaymentEffects
<1>7. /\ e1.type = "account_credited" /\ e1.value = 1 /\ e1.address = dest /\ e1.about = asset
      /\ e2.type = "account_debited" /\ e2.value = 1 /\ e2.address = source /\ e2.about = asset
  BY EffectIs
<1> HIDE DEF e1, e2
<1>8. /\ \A h : Delta(e1, h) = IF h = << dest, asset >> THEN 1 ELSE 0
      /\ \A h : Delta(e2, h) = IF h = << source, asset >> THEN -1 ELSE 0
  BY <1>7 DEF Delta
<1>9. \A h \in Holders : BalanceIn(entries', h) = BalanceIn(entries, h) + Delta(e1, h) + Delta(e2, h)
  <2>1. entries' = With(after, entries)
    BY <1>5, DoneStep
  <2>2. \A h \in Holders : BalanceIn(entries, h) \in Int
    BY BalancesAreInts
  <2> QED
    BY <1>3, <1>8, <2>1, <2>2
<1>10. Outcome(o, after)
  BY <1>3, <1>5, <1>6, <1>7, <1>9, PaymentsOnly DEF Payments
<1> QED
  BY <1>10

\* An invocation that is not read whole says nothing, and asks for nothing.
LEMMA UntoldOutcome ==
    ASSUME Ledger, replica \in Replicas, NEW o, NEW after, Done(o, after),
           Focus(after, PoolKey), PoolKey \notin DOMAIN after,
           o.kind = "invoke", ~Known(o), OperationEffects(o) = << >>
    PROVE  Outcome(o, after)
<1>1. Own(o) = {}
  BY Elements DEF Own
<1>2. Modest(o)
  BY <1>1 DEF Modest
<1>3. EntriesTold(o)
  <2>1. PoolKey.type = "liquidity_pool" /\ \A e \in Own(o) : ~Speaks(e)
    BY <1>1, KeyTypes
  <2> QED
    BY <2>1, EntriesFocus
<1>4. SignersAgree(o)
  <2>1. \A a : AccountKey(a) # PoolKey
    BY KeyTypes
  <2>2. \A e \in Own(o) : e.type \notin SignerTypes
    BY <1>1
  <2> QED
    BY <1>2, <2>1, <2>2, SignersQuiet
<1>5. BalancesTold(o)
  BY DEF BalancesTold, Informed, BalanceKinds
<1>6. OneLine(after) /\ OwnPool(o, after)
  BY FocusOneLine DEF OwnPool
<1> QED
  BY <1>2, <1>3, <1>4, <1>5, <1>6 DEF Outcome

LEMMA ContractTransferOutcome ==
    ASSUME Ledger, replica \in Replicas, NEW source \in Actors,
           NEW from \in Actors \cup {Contract}, NEW to \in Actors \cup {Contract},
           ContractTransfer(source, from, to, 1)
    PROVE  \E o, after : Outcome(o, after)
<1> DEFINE ev == [type |-> "transfer", from |-> from, to |-> to, asset |-> Native, amount |-> 1]
           op == [Operation("invoke", source) EXCEPT !.assetEvents = << ev >>]
<1>1. PICK after : after = Transfer(from, to, Native, 1)
  OBVIOUS
<1>2. Perform(op, after) /\ \A x \in {from, to} : x \in Users => Live(AccountKey(x))
  BY <1>1 DEF ContractTransfer
<1>3. ASSUME NEW x \in {from, to} PROVE Movable(x, Native)
  <2>1. x = Root \/ x \in Users \/ x = Contract
    BY NamesAre
  <2>2. << x, Native >> \in Holders
    BY <2>1, HoldersAre
  <2>3. Live(BalanceKey(x, Native))
    <3>1. CASE x = Contract
      BY <3>1, KeysAre DEF BalanceKey, Live, Ledger, Kept
    <3>2. CASE x = Root
      <4>1. Root # Contract /\ AccountKey(Root) \in Keys
        BY NamesAre, KeysAre
      <4> QED
        BY <3>2, <4>1 DEF BalanceKey, Live, Ledger, Kept
    <3>3. CASE x \in Users
      <4>1. x # Contract
        BY <3>3, NamesAre
      <4> QED
        BY <1>2, <3>3, <4>1 DEF BalanceKey
    <3> QED
      BY <2>1, <3>1, <3>2, <3>3
  <2> QED
    BY <2>2, <2>3 DEF Movable
<1>4. /\ Leaves(after) /\ Focus(after, PoolKey) /\ PoolKey \notin DOMAIN after
      /\ entries' = With(after, entries)
         => \A h \in Holders :
               BalanceIn(entries', h)
               = BalanceIn(entries, h) + (IF h = << from, Native >> THEN -1 ELSE 0)
                                       + (IF h = << to, Native >> THEN 1 ELSE 0)
  BY <1>1, <1>3, Transferred
<1>5. Bare(op) /\ op.kind = "invoke" /\ op.source = source /\ op.assetEvents = << ev >>
  <2>1. IsSequence(<< ev >>)
    BY Elements
  <2> HIDE DEF ev
  <2> QED
    BY <2>1, Elements DEF Bare, Operation, Fields
<1> HIDE DEF op
<1>6. PICK o : Same(o, op) /\ Done(o, after)
  BY <1>2, <1>4, <1>5, Performed
<1>7. /\ ev.type = "transfer" /\ ev.from = from /\ ev.to = to /\ ev.asset = Native /\ ev.amount = 1
  OBVIOUS
<1> HIDE DEF ev
<1> DEFINE e1 == Gives(o, ev)
           e2 == Takes(o, ev)
<1>8. OperationEffects(o) = IF o.network /\ o.eventsReadable THEN << e1, e2 >> ELSE << >>
  <2>1. OperationEffects(o) = InvokeHostFunctionEffects(o) /\ o.assetEvents = << ev >>
    BY <1>5, <1>6, Switch DEF Same
  <2> QED
    BY <1>7, <2>1, OwnInvoke
<1>9. /\ e1.type \in Payments /\ e1.value = 1
      /\ \A h : Delta(e1, h) = IF h = << from, Native >> THEN -1 ELSE 0
  <2>1. CASE from \in Accounts
    <3>1. /\ e1.type = "account_debited" /\ e1.value = 1 /\ e1.address = from /\ e1.about = Native
      BY <1>7, <2>1, EffectIs DEF Gives
    <3> HIDE DEF e1
    <3> QED
      BY <3>1 DEF Delta, Payments
  <2>2. CASE from \notin Accounts
    <3>1. /\ e1.type = "contract_debited" /\ e1.value = 1 /\ e1.about = from
      BY <1>7, <2>2, EffectIs DEF Gives
    <3> HIDE DEF e1
    <3> QED
      BY <3>1 DEF Delta, Payments
  <2> QED
    BY <2>1, <2>2
<1>10. /\ e2.type \in Payments /\ e2.value = 1
       /\ \A h : Delta(e2, h) = IF h = << to, Native >> THEN 1 ELSE 0
  <2>1. CASE to \in Accounts
    <3>1. /\ e2.type = "account_credited" /\ e2.value = 1 /\ e2.address = to /\ e2.about = Native
      BY <1>7, <2>1, EffectIs DEF Takes
    <3> HIDE DEF e2
    <3> QED
      BY <3>1 DEF Delta, Payments
  <2>2. CASE to \notin Accounts
    <3>1. /\ e2.type = "contract_credited" /\ e2.value = 1 /\ e2.about = to
      BY <1>7, <2>2, EffectIs DEF Takes
    <3> HIDE DEF e2
    <3> QED
      BY <3>1 DEF Delta, Payments
  <2> QED
    BY <2>1, <2>2
<1> HIDE DEF e1, e2
<1>11. \A h \in Holders : BalanceIn(entries', h) = BalanceIn(entries, h) + Delta(e1, h) + Delta(e2, h)
  <2>1. entries' = With(after, entries)
    BY <1>6, DoneStep
  <2>2. \A h \in Holders : BalanceIn(entries, h) \in Int
    BY BalancesAreInts
  <2> QED
    BY <1>4, <1>9, <1>10, <2>1, <2>2
<1>12. CASE Known(o)
  <2>1. OperationEffects(o) = << e1, e2 >>
    BY <1>8, <1>12, Zenon DEF Known
  <2> QED
    BY <1>4, <1>6, <1>9, <1>10, <1>11, <2>1, PaymentsOnly
<1>13. CASE ~Known(o)
  <2>1. o.kind = "invoke"
    BY <1>5, <1>6 DEF Same
  <2>2. OperationEffects(o) = << >>
    BY <1>8, <1>13, Zenon DEF Known
  <2> QED
    BY <1>4, <1>6, <1>13, <2>1, <2>2, UntoldOutcome
<1> QED
  BY <1>12, <1>13

LEMMA ClawbackOutcome ==
    ASSUME Ledger, replica \in Replicas, NEW from \in Users, Clawback(from, 1)
    PROVE  \E o, after : Outcome(o, after)
<1> DEFINE op == [Operation("clawback", Root) EXCEPT
                      !.dest = from, !.asset = Credit, !.amount = 1]
<1>1. PICK after : after = Moved(from, Credit, -1)
  OBVIOUS
<1>2. Movable(from, Credit) /\ Perform(op, after)
  BY <1>1, Holding, NamesAre DEF Clawback, CanPay
<1>3. /\ Leaves(after) /\ Focus(after, PoolKey) /\ PoolKey \notin DOMAIN after
      /\ entries' = With(after, entries)
         => \A h \in Holders :
               BalanceIn(entries', h) = BalanceIn(entries, h) + IF h = << from, Credit >> THEN -1 ELSE 0
  <2>1. -1 \in Int
    OBVIOUS
  <2> QED
    BY <1>1, <1>2, <2>1, MovedAlone
<1>4. /\ Bare(op) /\ op.kind = "clawback" /\ op.source = Root /\ op.dest = from
      /\ op.amount = 1 /\ op.asset = Credit
  BY Elements DEF Bare, Operation, Fields
<1> HIDE DEF op
<1>5. PICK o : Same(o, op) /\ Done(o, after)
  BY <1>2, <1>3, <1>4, Performed
<1> DEFINE e1 == Effect(Root, "account_credited", Credit, 1)
           e2 == Effect(from, "account_debited", Credit, 1)
<1>6. OperationEffects(o) = << e1, e2 >>
  BY <1>4, <1>5, Switch DEF Same, ClawbackEffects
<1>7. /\ e1.type = "account_credited" /\ e1.value = 1 /\ e1.address = Root /\ e1.about = Credit
      /\ e2.type = "account_debited" /\ e2.value = 1 /\ e2.address = from /\ e2.about = Credit
  BY EffectIs
<1> HIDE DEF e1, e2
<1>8. /\ \A h \in Holders : Delta(e1, h) = 0
      /\ \A h : Delta(e2, h) = IF h = << from, Credit >> THEN -1 ELSE 0
  <2>1. << Root, Credit >> \notin Holders
    BY HoldersAre DEF IsIssuer
  <2> QED
    BY <1>7, <2>1 DEF Delta
<1>9. \A h \in Holders : BalanceIn(entries', h) = BalanceIn(entries, h) + Delta(e1, h) + Delta(e2, h)
  <2>1. entries' = With(after, entries)
    BY <1>5, DoneStep
  <2>2. \A h \in Holders : BalanceIn(entries, h) \in Int
    BY BalancesAreInts
  <2> QED
    BY <1>3, <1>8, <2>1, <2>2
<1>10. Outcome(o, after)
  BY <1>3, <1>5, <1>6, <1>7, <1>9, PaymentsOnly DEF Payments
<1> QED
  BY <1>10

LEMMA OneChange ==
    ASSUME NEW o, NEW after, NEW k, DOMAIN after = {k}, Read(o, after)
    PROVE  \E c : ToSet(o.changes) = {c} /\ c.key = k /\ c.pre = entries[k] /\ c.post = after[k]
<1> DEFINE c == [key |-> k, pre |-> entries[k], post |-> after[k]]
<1>1. ToSet(o.changes) = {c}
  BY DEF Read, ChangesOf
<1>2. c.key = k /\ c.pre = entries[k] /\ c.post = after[k]
  OBVIOUS
<1> HIDE DEF c
<1> QED
  BY <1>1, <1>2

\* Which entries hold balances.
LEMMA BalanceEntries ==
    \A h \in Holders :
        LET k == BalanceKey(h[1], h[2])
        IN  /\ k \in Keys /\ k.type \in {"account", "trustline", "contract_data"}
            /\ k.type = "trustline" => k.id = Credit /\ k = LineKey(h[1], Credit)
            /\ k.type = "account" => h[2] = Native /\ k = AccountKey(h[1])
<1> TAKE h \in Holders
<1> DEFINE k == BalanceKey(h[1], h[2])
<1>1. << h[1], h[2] >> \in Holders
  BY HoldersAre
<1>2. h[2] \in {Native, Credit} /\ (h[1] = Contract => h[2] = Native) /\ Native # Credit
  BY <1>1, HoldersAre, NamesAre
<1>3. /\ k \in Keys
      /\ k.type = IF h[1] = Contract THEN "contract_data"
                  ELSE IF h[2] = Native THEN "account" ELSE "trustline"
      /\ h[1] # Contract /\ h[2] = Native => k = AccountKey(h[1])
      /\ h[2] = Credit => k = LineKey(h[1], Credit)
  BY <1>1, BalanceKeys
<1>4. LineKey(h[1], Credit).id = Credit
  BY KeyTypes
<1> HIDE DEF k
<1>5. /\ k \in Keys /\ k.type \in {"account", "trustline", "contract_data"}
      /\ k.type = "trustline" => k.id = Credit /\ k = LineKey(h[1], Credit)
      /\ k.type = "account" => h[2] = Native /\ k = AccountKey(h[1])
  BY <1>2, <1>3, <1>4
<1> QED
  BY <1>5 DEF k

\* A balance that stays, be there an entry or not.
LEMMA SameBalance ==
    ASSUME NEW h, LET k == BalanceKey(h[1], h[2])
                  IN  (IF entries'[k] # NoEntry THEN entries'[k].balance ELSE 0)
                      = (IF entries[k] # NoEntry THEN entries[k].balance ELSE 0)
    PROVE  BalanceIn(entries', h) = BalanceIn(entries, h)
BY DEF BalanceIn

LEMMA ManageDataOutcome ==
    ASSUME Ledger, replica \in Replicas, NEW source \in Users, NEW sponsor \in Backed,
           ManageData(source, sponsor)
    PROVE  \E o, after : Outcome(o, after)
<1> DEFINE k  == DataKey(source)
           op == Operation("manage_data", source)
<1>1. PICK e : /\ e \in {[value |-> 1, sponsor |-> sponsor], entries[k], NoEntry}
               /\ Perform(op, Set(k, e))
  BY DEF ManageData
<1>2. k \in Keys /\ k.type = "data" /\ k # HeldKey /\ k # PoolKey /\ \A a : AccountKey(a) # k
  BY KeysAre, KeyTypes
<1>4. \A f : f.type \in {"data_created", "data_removed"} /\ f.address = source => EntryOf(f) = k
  BY DEF EntryOf
<1> HIDE DEF k
<1>5. e \in EntryType(k) \cup {NoEntry} /\ Kept(k, e)
  <2>1. sponsor \in MaybeSponsor
    BY NamesAre DEF Backed, MaybeSponsor, Sponsors
  <2>2. [value |-> 1, sponsor |-> sponsor] \in [value : Int, sponsor : MaybeSponsor]
    BY <2>1
  <2>3. e \in EntryType(k) \cup {NoEntry}
    BY <1>1, <1>2, <2>2, EntriesAre DEF Ledger, Typed
  <2> QED
    BY <1>2, <2>3 DEF Kept
<1>6. PICK after : after = Set(k, e)
  OBVIOUS
<1>7. /\ Leaves(after) /\ Focus(after, k) /\ DOMAIN after = {k} /\ after[k] = e
      /\ entries' = With(after, entries)
         => /\ entries'[k] = e
            /\ \A h \in Holders : BalanceKey(h[1], h[2]) # k =>
                  BalanceIn(entries', h) = BalanceIn(entries, h)
  <2>1. k \in Keys
    BY <1>2
  <2>2. e \in EntryType(k) \cup {NoEntry}
    BY <1>5
  <2>3. Kept(k, e)
    BY <1>5
  <2> QED
    BY <1>6, <2>1, <2>2, <2>3, SetAlone
<1>8. Bare(op) /\ op.kind = "manage_data" /\ op.source = source
  BY Elements DEF Bare, Operation, Fields
<1> HIDE DEF op
<1>9. PICK o : Same(o, op) /\ Done(o, after)
  BY <1>1, <1>6, <1>7, <1>8, Performed
<1>10. o.kind = "manage_data" /\ o.source = source
  BY <1>8, <1>9 DEF Same
<1>11. /\ entries' = With(after, entries) /\ IsSequence(o.changes)
       /\ IsSequence(OperationEffects(o)) /\ (o.readable <=> Read(o, after))
  BY <1>9, DoneStep
<1>12. entries'[k] = e
  BY <1>7, <1>11
<1>13. ~o.readable => Own(o) = {}
  BY <1>10, Elements, Switch DEF Own
<1>14. ASSUME o.readable
       PROVE  \E f : /\ Own(o) = {f} /\ f.address = source
                     /\ f.type = IF entries[k] = NoEntry /\ e # NoEntry THEN "data_created"
                                 ELSE IF entries[k] # NoEntry /\ e = NoEntry THEN "data_removed"
                                 ELSE "data_updated"
  <2>1. Read(o, after)
    BY <1>11, <1>14
  <2>2. PICK c : ToSet(o.changes) = {c} /\ c.key = k /\ c.pre = entries[k] /\ c.post = e
    BY <1>7, <2>1, OneChange
  <2>3. ManageDataEffects(o) = << Effect(o.source, DataType(c), c.key.id, 0) >>
    BY <1>2, <1>11, <2>2, OwnData
  <2> DEFINE f == Effect(source, DataType(c), c.key.id, 0)
  <2>4. OperationEffects(o) = << f >>
    BY <1>10, <1>14, <2>3, Switch
  <2>5. f.address = source /\ f.type = DataType(c)
    BY EffectIs
  <2> HIDE DEF f
  <2>6. Own(o) = {f}
    BY <2>4, Elements DEF Own
  <2>7. DataType(c) = IF entries[k] = NoEntry /\ e # NoEntry THEN "data_created"
                      ELSE IF entries[k] # NoEntry /\ e = NoEntry THEN "data_removed"
                      ELSE "data_updated"
    BY <2>2 DEF DataType, Created, Removed
  <2> QED
    BY <2>5, <2>6, <2>7
<1>15. \A f \in Own(o) : f.type \in {"data_created", "data_removed", "data_updated"}
                         /\ f.address = source
                         /\ (f.type = "data_created" => e # NoEntry)
                         /\ (f.type = "data_removed" => e = NoEntry)
  BY <1>13, <1>14
<1>16. Modest(o)
  BY <1>2, <1>4, <1>15 DEF Modest, Fits, Arrivals, BalanceTypes, Weighs, SponsorTypes, PoolTypes
<1>17. EntriesTold(o)
  <2>1. \A f \in Own(o) : Speaks(f) => /\ EntryOf(f) = k
                                       /\ f.type \in Arrivals <=> entries'[k] # NoEntry
    BY <1>4, <1>12, <1>15 DEF Speaks, Arrivals, Departures
  <2>2. Informed(o, NeededFor(k)) => o.readable
    BY <1>2, <1>10 DEF Informed, NeededFor, ChangesNeededFor
  <2>3. o.readable => \/ entries[k] = NoEntry <=> entries'[k] = NoEntry
                      \/ \E f \in Own(o) : Speaks(f)
    BY <1>12, <1>14 DEF Speaks, Arrivals, Departures
  <2> QED
    BY <1>2, <1>7, <1>9, <2>1, <2>2, <2>3, EntriesFocus
<1>18. SignersAgree(o)
  <2>1. \A f \in Own(o) : f.type \notin SignerTypes
    BY <1>15 DEF SignerTypes, Resets, Weighs
  <2> QED
    BY <1>2, <1>7, <1>9, <1>16, <2>1, SignersQuiet
<1>19. BalancesTold(o)
  <2>1. \A f \in Own(o) : f.type \notin BalanceTypes
    BY <1>15 DEF BalanceTypes
  <2>2. \A h \in Holders : BalanceIn(entries', h) = BalanceIn(entries, h)
    <3>1. \A h \in Holders : BalanceKey(h[1], h[2]) # k
      BY <1>2, BalanceEntries
    <3> QED
      BY <1>7, <1>11, <3>1
  <2> QED
    BY <1>11, <2>1, <2>2, BalancesQuiet
<1>20. OneLine(after) /\ OwnPool(o, after)
  BY <1>2, <1>7, FocusOneLine DEF OwnPool
<1>21. Outcome(o, after)
  BY <1>9, <1>16, <1>17, <1>18, <1>19, <1>20 DEF Outcome
<1> QED
  BY <1>21

LEMMA ChangeTrustOutcome ==
    ASSUME Ledger, replica \in Replicas, NEW source \in Users, NEW sponsor \in Backed,
           ChangeTrust(source, sponsor)
    PROVE  \E o, after : Outcome(o, after)
<1> DEFINE k  == LineKey(source, Credit)
           op == [Operation("change_trust", source) EXCEPT !.asset = Credit]
<1>1. PICK e : /\ \/ ~Live(k) /\ e = LineEntry(sponsor)
                  \/ Live(k) /\ e = [entries[k] EXCEPT !.limit = 3 - @]
                  \/ Live(k) /\ entries[k].balance = 0 /\ e = NoEntry
               /\ Perform(op, Set(k, e))
  BY DEF ChangeTrust
<1>2. /\ k \in Keys /\ k.type = "trustline" /\ k.id = Credit /\ k # HeldKey /\ k # PoolKey
      /\ \A a : AccountKey(a) # k
  BY KeysAre, KeyTypes
<1>3. \A f : /\ f.type \in {"trustline_created", "trustline_updated", "trustline_removed"}
             /\ f.address = source /\ f.about = Credit
             => EntryOf(f) = k
  BY DEF EntryOf
<1> HIDE DEF k
<1>4. /\ e \in EntryType(k) \cup {NoEntry} /\ Kept(k, e)
      /\ (IF e # NoEntry THEN e.balance ELSE 0) = (IF entries[k] # NoEntry THEN entries[k].balance ELSE 0)
  <2>1. sponsor \in MaybeSponsor
    BY NamesAre DEF Backed, MaybeSponsor, Sponsors
  <2> DEFINE T == [balance : Int, uses : Int, limit : Int, sponsor : MaybeSponsor]
  <2>2. \A x : x \in EntryType(k) <=> x \in T
    BY <1>2, EntriesAre
  <2>3. LineEntry(sponsor) \in T /\ LineEntry(sponsor).balance = 0
    BY <2>1 DEF LineEntry
  <2>4. Live(k) => entries[k] \in T
    BY <1>2, <2>2 DEF Ledger, Typed, Live
  <2>5. Live(k) => /\ [entries[k] EXCEPT !.limit = 3 - @] \in T
                   /\ [entries[k] EXCEPT !.limit = 3 - @].balance = entries[k].balance
    BY <2>4
  <2>6. \A x \in T : x # NoEntry
    BY <1>2, <2>2, EntriesAre
  <2> HIDE DEF T
  <2>7. e \in T \cup {NoEntry}
    BY <1>1, <2>3, <2>5
  <2>8. e \in EntryType(k) \cup {NoEntry}
    BY <2>2, <2>7
  <2>9. (IF e # NoEntry THEN e.balance ELSE 0) = (IF entries[k] # NoEntry THEN entries[k].balance ELSE 0)
    BY <1>1, <2>3, <2>5, <2>6 DEF Live
  <2>10. Kept(k, e)
    BY <1>2, NamesAre DEF Kept
  <2> QED
    BY <2>8, <2>9, <2>10
<1>5. PICK after : after = Set(k, e)
  OBVIOUS
<1>6. /\ Leaves(after) /\ Focus(after, k) /\ DOMAIN after = {k} /\ after[k] = e
      /\ entries' = With(after, entries)
         => /\ entries'[k] = e
            /\ \A h \in Holders : BalanceKey(h[1], h[2]) # k =>
                  BalanceIn(entries', h) = BalanceIn(entries, h)
  <2>1. k \in Keys
    BY <1>2
  <2>2. e \in EntryType(k) \cup {NoEntry}
    BY <1>4
  <2>3. Kept(k, e)
    BY <1>4
  <2> QED
    BY <1>5, <2>1, <2>2, <2>3, SetAlone
<1>7. Bare(op) /\ op.kind = "change_trust" /\ op.source = source /\ op.asset = Credit
  BY Elements DEF Bare, Operation, Fields
<1> HIDE DEF op
<1>8. PICK o : Same(o, op) /\ Done(o, after)
  BY <1>1, <1>5, <1>6, <1>7, Performed
<1>9. o.kind = "change_trust" /\ o.source = source /\ o.asset = Credit
  BY <1>7, <1>8 DEF Same
<1>10. /\ entries' = With(after, entries) /\ IsSequence(o.changes)
       /\ IsSequence(OperationEffects(o)) /\ (o.readable <=> Read(o, after))
       /\ ~o.readable => o.changes = << >>
  BY <1>8, DoneStep
<1>11. entries'[k] = e
  BY <1>6, <1>10
<1>12. OperationEffects(o) = ChangeTrustEffects(o)
  BY <1>9, Switch
<1>13. ~o.readable => Own(o) = {}
  <2> SUFFICES ASSUME ~o.readable PROVE Own(o) = {}
    OBVIOUS
  <2>1. ToSet(o.changes) = {}
    BY <1>10, Elements
  <2>2. ChangeTrustEffects(o) = << >>
    BY <1>10, <2>1, OwnTrust
  <2> QED
    BY <1>12, <2>2, Elements DEF Own
<1>14. ASSUME o.readable
       PROVE  \E f : /\ Own(o) = {f} /\ f.address = source /\ f.about = Credit
                     /\ f.type = IF entries[k] = NoEntry /\ e # NoEntry THEN "trustline_created"
                                 ELSE IF entries[k] # NoEntry /\ e = NoEntry THEN "trustline_removed"
                                 ELSE "trustline_updated"
  <2>1. Read(o, after)
    BY <1>10, <1>14
  <2>2. PICK c : ToSet(o.changes) = {c} /\ c.key = k /\ c.pre = entries[k] /\ c.post = e
    BY <1>6, <2>1, OneChange
  <2>3. ChangeTrustEffects(o) = << Effect(o.source, TrustType(c), c.key.id, 0) >>
    BY <1>2, <1>9, <1>10, <2>2, OwnTrust
  <2> DEFINE f == Effect(source, TrustType(c), Credit, 0)
  <2>4. OperationEffects(o) = << f >>
    BY <1>2, <1>9, <1>12, <2>2, <2>3
  <2>5. f.address = source /\ f.type = TrustType(c) /\ f.about = Credit
    BY EffectIs
  <2> HIDE DEF f
  <2>6. Own(o) = {f}
    BY <2>4, Elements DEF Own
  <2>7. TrustType(c) = IF entries[k] = NoEntry /\ e # NoEntry THEN "trustline_created"
                       ELSE IF entries[k] # NoEntry /\ e = NoEntry THEN "trustline_removed"
                       ELSE "trustline_updated"
    BY <2>2 DEF TrustType, Created, Removed
  <2> QED
    BY <2>5, <2>6, <2>7
<1>15. \A f \in Own(o) : /\ f.type \in {"trustline_created", "trustline_updated", "trustline_removed"}
                         /\ f.address = source /\ f.about = Credit
                         /\ f.type \in {"trustline_created", "trustline_updated"} <=> e # NoEntry
  <2>1. entries[k] # NoEntry \/ e # NoEntry
    <3>1. LineEntry(sponsor) \in EntryType(k)
      <4>1. sponsor \in MaybeSponsor
        BY NamesAre DEF Backed, MaybeSponsor, Sponsors
      <4>2. LineEntry(sponsor) \in [balance : Int, uses : Int, limit : Int, sponsor : MaybeSponsor]
        BY <4>1 DEF LineEntry
      <4> QED
        BY <1>2, <4>2, EntriesAre
    <3>2. LineEntry(sponsor) # NoEntry
      BY <1>2, <3>1, EntriesAre
    <3> QED
      BY <1>1, <3>2 DEF Live
  <2> QED
    BY <1>13, <1>14, <2>1
<1>16. Modest(o)
  BY <1>2, <1>3, <1>15 DEF Modest, Fits, Arrivals, BalanceTypes, Weighs, SponsorTypes, PoolTypes
<1>17. EntriesTold(o)
  <2>1. \A f \in Own(o) : Speaks(f) => /\ EntryOf(f) = k
                                       /\ f.type \in Arrivals <=> entries'[k] # NoEntry
    BY <1>3, <1>11, <1>15 DEF Arrivals
  <2>2. Informed(o, NeededFor(k)) => o.readable
    BY <1>2, <1>9 DEF Informed, NeededFor, ChangesNeededFor
  <2>3. o.readable => \E f \in Own(o) : Speaks(f)
    BY <1>14 DEF Speaks, Arrivals, Departures
  <2> QED
    BY <1>2, <1>6, <1>8, <2>1, <2>2, <2>3, EntriesFocus
<1>18. SignersAgree(o)
  <2>1. \A f \in Own(o) : f.type \notin SignerTypes
    BY <1>15 DEF SignerTypes, Resets, Weighs
  <2> QED
    BY <1>2, <1>6, <1>8, <1>16, <2>1, SignersQuiet
<1>19. BalancesTold(o)
  <2>1. \A f \in Own(o) : f.type \notin BalanceTypes
    BY <1>15 DEF BalanceTypes
  <2>2. \A h \in Holders : BalanceIn(entries', h) = BalanceIn(entries, h)
    BY <1>4, <1>6, <1>10, <1>11, SameBalance
  <2> QED
    BY <1>10, <2>1, <2>2, BalancesQuiet
<1>20. OneLine(after) /\ OwnPool(o, after)
  BY <1>2, <1>6, FocusOneLine DEF OwnPool
<1>21. Outcome(o, after)
  BY <1>8, <1>16, <1>17, <1>18, <1>19, <1>20 DEF Outcome
<1> QED
  BY <1>21

\* What is asked of a claimable balance's key.
LEMMA ClaimableKeys ==
    ASSUME NEW b \in Claimable
    PROVE  LET k == ClaimableKey(b)
           IN  /\ k \in Keys /\ k.type = "claimable_balance" /\ k # HeldKey /\ k # PoolKey
               /\ \A a : AccountKey(a) # k
               /\ \A h \in Holders : BalanceKey(h[1], h[2]) # k
               /\ \A x, asset : Movable(x, asset) => IsIssuer(x, asset) \/ k # BalanceKey(x, asset)
               /\ Kept(k, NoEntry)
<1> DEFINE k == ClaimableKey(b)
<1>1. k \in Keys /\ k.type = "claimable_balance"
  BY KeysAre, KeyTypes
<1>2. k # HeldKey /\ k # PoolKey /\ \A a : AccountKey(a) # k
  BY <1>1, KeyTypes
<1>3. \A h \in Holders : BalanceKey(h[1], h[2]) # k
  BY <1>1, BalanceEntries
<1> HIDE DEF k
<1>4. ASSUME NEW x, NEW asset, Movable(x, asset), ~IsIssuer(x, asset)
      PROVE  k # BalanceKey(x, asset)
  <2>1. << x, asset >> \in Holders
    BY <1>4 DEF Movable
  <2> DEFINE h == << x, asset >>
  <2>2. h[1] = x /\ h[2] = asset
    OBVIOUS
  <2>3. h \in Holders
    BY <2>1
  <2> HIDE DEF h
  <2> QED
    BY <1>3, <2>2, <2>3
<1>5. Kept(k, NoEntry)
  BY <1>1, <1>2 DEF Kept
<1> QED
  BY <1>1, <1>2, <1>3, <1>4, <1>5 DEF k

LEMMA RevokeOutcome ==
    ASSUME Ledger, replica \in Replicas, NEW k \in Keys, NEW sponsor \in Sponsors \cup {NoSponsor},
           RevokeSponsorship(k, sponsor)
    PROVE  \E o, after : Outcome(o, after)
<1> DEFINE op == Operation("revoke_sponsorship", entries[k].sponsor)
           e  == [entries[k] EXCEPT !.sponsor = sponsor]
<1>1. Live(k) /\ entries[k].sponsor # NoSponsor /\ Perform(op, Set(k, e))
  BY DEF RevokeSponsorship
<1>2. entries[k] \in EntryType(k) /\ sponsor \in MaybeSponsor /\ NoSponsor \in MaybeSponsor
  BY <1>1 DEF Ledger, Typed, Live, MaybeSponsor
<1>3. k # PoolKey /\ k # HeldKey /\ ~(k.type = "trustline" /\ k.id = PoolShare)
  <2>1. Sponsor(entries[k]) # NoSponsor
    BY <1>1 DEF Sponsor, Live
  <2>2. k.type = "liquidity_pool" => entries[k].sponsor = NoSponsor
    BY <1>2, EntriesAre
  <2>3. k = HeldKey => entries[k].sponsor = NoSponsor
    BY <1>2, EntriesAre
  <2>4. Kept(k, entries[k])
    BY DEF Ledger
  <2> QED
    BY <1>1, <2>1, <2>2, <2>3, <2>4, KeyTypes DEF Kept
<1>4. /\ e \in EntryType(k)
      /\ k.type = "account" => e.signers = entries[k].signers
      /\ k.type \in {"account", "trustline"} => e.balance = entries[k].balance
  <2>1. CASE k.type = "account"
    <3>1. entries[k] \in [balance : Int, signers : Weights, sponsor : MaybeSponsor]
      BY <1>2, <2>1, EntriesAre
    <3>2. /\ e \in [balance : Int, signers : Weights, sponsor : MaybeSponsor]
          /\ e.signers = entries[k].signers /\ e.balance = entries[k].balance
      BY <1>2, <3>1
    <3> HIDE DEF e
    <3> QED
      BY <2>1, <3>2, EntriesAre
  <2>2. CASE k.type = "trustline"
    <3>1. entries[k] \in [balance : Int, uses : Int, limit : Int, sponsor : MaybeSponsor]
      BY <1>2, <2>2, EntriesAre
    <3>2. /\ e \in [balance : Int, uses : Int, limit : Int, sponsor : MaybeSponsor]
          /\ e.balance = entries[k].balance
      BY <1>2, <3>1
    <3> HIDE DEF e
    <3> QED
      BY <2>2, <3>2, EntriesAre
  <2>3. CASE k.type = "data"
    <3>1. entries[k] \in [value : Int, sponsor : MaybeSponsor]
      BY <1>2, <2>3, EntriesAre
    <3>2. e \in [value : Int, sponsor : MaybeSponsor]
      BY <1>2, <3>1
    <3> HIDE DEF e
    <3> QED
      BY <2>3, <3>2, EntriesAre
  <2>4. CASE k.type = "claimable_balance"
    <3> DEFINE T == [amount : Int, asset : {Native, Credit}, claimants : {Claimants},
                     sponsor : MaybeSponsor]
    <3>1. entries[k] \in T
      BY <1>2, <2>4, EntriesAre
    <3>2. e \in T
      BY <1>2, <3>1
    <3> HIDE DEF e
    <3> QED
      BY <2>4, <3>2, EntriesAre
  <2> QED
    BY <1>3, <2>1, <2>2, <2>3, <2>4, KeysAre
<1> HIDE DEF e
<1>5. e # NoEntry /\ Kept(k, e)
  BY <1>3, <1>4, EntriesAre DEF Kept
<1>6. PICK after : after = Set(k, e)
  OBVIOUS
<1>7. /\ Leaves(after) /\ Focus(after, k) /\ DOMAIN after = {k} /\ after[k] = e
      /\ entries' = With(after, entries)
         => /\ entries'[k] = e
            /\ \A h \in Holders : BalanceKey(h[1], h[2]) # k =>
                  BalanceIn(entries', h) = BalanceIn(entries, h)
  <2>1. e \in EntryType(k) \cup {NoEntry}
    BY <1>4
  <2>2. Kept(k, e)
    BY <1>5
  <2> QED
    BY <1>6, <2>1, <2>2, SetAlone
<1>8. Bare(op) /\ op.kind = "revoke_sponsorship"
  BY Elements DEF Bare, Operation, Fields
<1> HIDE DEF op
<1>9. PICK o : Same(o, op) /\ Done(o, after)
  BY <1>1, <1>6, <1>7, <1>8, Performed
<1>10. entries' = With(after, entries) /\ IsSequence(OperationEffects(o))
  BY <1>9, DoneStep
<1>11. entries'[k] = e
  BY <1>7, <1>10
<1>12. Own(o) = {}
  <2>1. OperationEffects(o) = << >>
    BY <1>8, <1>9, Switch DEF Same
  <2> QED
    BY <2>1, Elements DEF Own
<1>13. Modest(o)
  BY <1>12 DEF Modest
<1>14. EntriesTold(o)
  <2>1. entries[k] = NoEntry <=> entries'[k] = NoEntry
    BY <1>1, <1>5, <1>11 DEF Live
  <2> QED
    BY <1>2, <1>7, <1>9, <1>12, <2>1, EntriesFocus
<1>15. SignersAgree(o)
  <2>1. \A a \in Accounts : AccountKey(a) = k => SignersIn(entries', a) = SignersIn(entries, a)
    BY <1>1, <1>4, <1>5, <1>11, KeyTypes DEF SignersIn, Live
  <2> QED
    BY <1>7, <1>9, <1>12, <1>13, <2>1, SignersQuiet
<1>16. BalancesTold(o)
  <2>1. ASSUME NEW h \in Holders PROVE BalanceIn(entries', h) = BalanceIn(entries, h)
    <3>1. CASE BalanceKey(h[1], h[2]) # k
      BY <1>7, <1>10, <3>1
    <3>2. CASE BalanceKey(h[1], h[2]) = k
      <4>1. k.type \in {"account", "trustline"}
        <5>1. k.type \in {"account", "trustline", "contract_data"}
          BY <3>2, BalanceEntries
        <5> QED
          BY <1>3, <5>1, KeysAre
      <4> QED
        BY <1>1, <1>4, <1>5, <1>11, <3>2, <4>1, SameBalance DEF Live
    <3> QED
      BY <3>1, <3>2
  <2> QED
    BY <1>10, <1>12, <2>1, BalancesQuiet
<1>17. OneLine(after) /\ OwnPool(o, after)
  BY <1>3, <1>7, FocusOneLine DEF OwnPool
<1>18. Outcome(o, after)
  BY <1>9, <1>13, <1>14, <1>15, <1>16, <1>17 DEF Outcome
<1> QED
  BY <1>18

LEMMA ClawbackClaimableOutcome ==
    ASSUME Ledger, replica \in Replicas, NEW b \in Claimable, ClawbackClaimable(b)
    PROVE  \E o, after : Outcome(o, after)
<1> DEFINE k  == ClaimableKey(b)
           op == [Operation("clawback_claimable_balance", Root) EXCEPT !.entry = k]
<1>1. Live(k) /\ entries[k].asset = Credit /\ Perform(op, Set(k, NoEntry))
  BY DEF ClawbackClaimable
<1>2. /\ k \in Keys /\ k.type = "claimable_balance" /\ k # HeldKey /\ k # PoolKey
      /\ \A a : AccountKey(a) # k
      /\ \A h \in Holders : BalanceKey(h[1], h[2]) # k
      /\ Kept(k, NoEntry)
  BY ClaimableKeys
<1> HIDE DEF k
<1>3. PICK after : after = Set(k, NoEntry)
  OBVIOUS
<1>4. /\ Leaves(after) /\ Focus(after, k) /\ DOMAIN after = {k} /\ after[k] = NoEntry
      /\ entries' = With(after, entries)
         => /\ entries'[k] = NoEntry
            /\ \A h \in Holders : BalanceKey(h[1], h[2]) # k =>
                  BalanceIn(entries', h) = BalanceIn(entries, h)
  <2>1. k \in Keys /\ NoEntry \in EntryType(k) \cup {NoEntry}
    BY <1>2
  <2>2. Kept(k, NoEntry)
    BY <1>2
  <2> QED
    BY <1>3, <2>1, <2>2, SetAlone
<1>5. Bare(op) /\ op.kind = "clawback_claimable_balance" /\ op.source = Root /\ op.entry = k
  BY Elements DEF Bare, Operation, Fields
<1> HIDE DEF op
<1>6. PICK o : Same(o, op) /\ Done(o, after)
  BY <1>1, <1>3, <1>4, <1>5, Performed
<1>7. o.kind = "clawback_claimable_balance" /\ o.source = Root /\ o.entry = k
  BY <1>5, <1>6 DEF Same
<1>8. /\ entries' = With(after, entries) /\ IsSequence(o.changes)
      /\ IsSequence(OperationEffects(o)) /\ (o.readable <=> Read(o, after))
      /\ (~o.readable => o.changes = << >>)
  BY <1>6, DoneStep
<1> DEFINE e1 == Effect(Root, "claimable_balance_clawed_back", k, 0)
<1>9. PICK x : /\ ClawbackClaimableBalanceEffects(o) = << e1 >> \o x
               /\ \/ x = << >>
                  \/ \E c \in ToSet(o.changes) :
                        /\ c.key.type = "claimable_balance" /\ Removed(c)
                        /\ x = << Effect(Root, "account_credited", c.pre.asset, c.pre.amount) >>
  BY <1>7, <1>8, OwnClawbackClaimable
<1>10. OperationEffects(o) = << e1 >> \o x
  BY <1>7, <1>9, Switch
<1>11. e1.address = Root /\ e1.type = "claimable_balance_clawed_back" /\ e1.about = k /\ e1.value = 0
  BY EffectIs
<1> HIDE DEF e1
<1>12. \/ x = << >>
       \/ \E e2 : /\ x = << e2 >> /\ e2.address = Root /\ e2.type = "account_credited"
                  /\ e2.about = Credit /\ e2.value \in Int
  <2> SUFFICES ASSUME x # << >>
               PROVE  \E e2 : /\ x = << e2 >> /\ e2.address = Root /\ e2.type = "account_credited"
                              /\ e2.about = Credit /\ e2.value \in Int
    OBVIOUS
  <2>1. PICK c \in ToSet(o.changes) :
           x = << Effect(Root, "account_credited", c.pre.asset, c.pre.amount) >>
    BY <1>9
  <2>2. Read(o, after)
    BY <1>8, <2>1, Elements
  <2>3. c.pre = entries[k]
    BY <1>4, <2>1, <2>2, OneChange
  <2>4. entries[k].amount \in Int
    <3>1. entries[k] \in [amount : Int, asset : {Native, Credit}, claimants : {Claimants},
                          sponsor : MaybeSponsor]
      BY <1>1, <1>2, EntriesAre DEF Ledger, Typed, Live
    <3> QED
      BY <3>1
  <2> DEFINE e2 == Effect(Root, "account_credited", c.pre.asset, c.pre.amount)
  <2>5. e2.address = Root /\ e2.type = "account_credited" /\ e2.about = c.pre.asset /\ e2.value = c.pre.amount
    BY EffectIs
  <2>6. x = << e2 >>
    BY <2>1
  <2> HIDE DEF e2
  <2> QED
    BY <1>1, <2>3, <2>4, <2>5, <2>6
<1>13. /\ e1 \in Own(o)
       /\ \A f \in Own(o) : f = e1 \/ (f.type = "account_credited" /\ f.value \in Int)
  <2>1. CASE x = << >>
    <3>1. OperationEffects(o) = << e1 >> \o << >>
      BY <1>10, <2>1
    <3>2. ToSet(<< e1 >> \o << >>) = {e1}
      BY Elements, ElementsJoined
    <3> QED
      BY <3>1, <3>2 DEF Own
  <2>2. CASE x # << >>
    <3>1. PICK e2 : x = << e2 >> /\ e2.type = "account_credited" /\ e2.value \in Int
      BY <1>12, <2>2
    <3>2. IsSequence(<< e1 >>) /\ IsSequence(<< e2 >>)
      BY Elements
    <3>3. ToSet(<< e1 >> \o << e2 >>) = ToSet(<< e1 >>) \cup ToSet(<< e2 >>)
      BY <3>2, ElementsJoined
    <3>4. ToSet(<< e1 >> \o << e2 >>) = {e1, e2}
      BY <3>3, Elements
    <3>5. OperationEffects(o) = << e1 >> \o << e2 >>
      BY <1>10, <3>1, Zenon
    <3>6. Own(o) = {e1, e2}
      BY <3>4, <3>5, Zenon DEF Own
    <3> QED
      BY <3>1, <3>6
  <2> QED
    BY <2>1, <2>2
<1>14. EntryOf(e1) = k
  BY <1>11 DEF EntryOf
<1>15. Fits(e1)
  BY <1>2, <1>11, <1>14 DEF Fits, BalanceTypes, Weighs
<1>16. Modest(o)
  BY <1>11, <1>13, <1>15 DEF Modest, Fits, Arrivals, BalanceTypes, Weighs, SponsorTypes, PoolTypes
<1>17. EntriesTold(o)
  <2>1. \A f \in Own(o) : Speaks(f) => f = e1
    BY <1>13 DEF Speaks, Arrivals, Departures
  <2>2. Speaks(e1) /\ e1.type \notin Arrivals
    BY <1>11 DEF Speaks, Arrivals, Departures
  <2>3. entries'[k] = NoEntry
    BY <1>4, <1>8
  <2> QED
    BY <1>2, <1>4, <1>6, <1>13, <1>14, <2>1, <2>2, <2>3, EntriesFocus
<1>18. SignersAgree(o)
  <2>1. \A f \in Own(o) : f.type \notin SignerTypes
    BY <1>11, <1>13 DEF SignerTypes, Resets, Weighs
  <2> QED
    BY <1>2, <1>4, <1>6, <1>16, <2>1, SignersQuiet
<1>19. BalancesTold(o)
  <2>1. \A h \in Holders : BalanceIn(entries', h) = BalanceIn(entries, h)
    BY <1>2, <1>4, <1>8
  <2>2. CASE x = << >>
    <3>1. \A f \in Own(o) : f = e1
      <4>1. OperationEffects(o) = << e1 >> \o << >>
        BY <1>10, <2>2
      <4>2. ToSet(<< e1 >> \o << >>) = {e1}
        BY Elements, ElementsJoined
      <4> QED
        BY <4>1, <4>2 DEF Own
    <3>2. \A f \in Own(o) : f.type \notin BalanceTypes
      BY <1>11, <3>1 DEF BalanceTypes
    <3> QED
      BY <1>8, <2>1, <3>2, BalancesQuiet
  <2>3. CASE x # << >>
    <3>1. PICK e2 : /\ x = << e2 >> /\ e2.address = Root /\ e2.type = "account_credited"
                    /\ e2.about = Credit /\ e2.value \in Int
      BY <1>12, <2>3
    <3>2. OperationEffects(o) = << e1, e2 >>
      <4>1. << e1 >> \o << e2 >> = << e1, e2 >>
        BY PairJoined
      <4> QED
        BY <1>10, <3>1, <4>1, Zenon
    <3>3. Fits(e2) /\ e1.type # "account_created" /\ e2.type # "account_created"
      BY <1>11, <3>1 DEF Fits, Arrivals, BalanceTypes, Weighs
    <3>4. \A h \in Holders : Delta(e1, h) = 0 /\ Delta(e2, h) = 0
      <4>1. << Root, Credit >> \notin Holders
        BY HoldersAre DEF IsIssuer
      <4> QED
        BY <1>11, <3>1, <4>1 DEF Delta
    <3>5. \A h \in Holders : Halfway(o).balance[h] = replica.balance[h] + Delta(e1, h) + Delta(e2, h)
      BY <1>15, <3>2, <3>3, BalancePair DEF Halfway
    <3>6. \A h \in Holders : BalanceIn(entries, h) \in Int
      BY BalancesAreInts
    <3> QED
      BY <2>1, <3>4, <3>5, <3>6 DEF BalancesTold
  <2> QED
    BY <2>2, <2>3
<1>20. OneLine(after) /\ OwnPool(o, after)
  BY <1>2, <1>4, FocusOneLine DEF OwnPool
<1>21. Outcome(o, after)
  BY <1>6, <1>16, <1>17, <1>18, <1>19, <1>20 DEF Outcome
<1> QED
  BY <1>21

\* The change of one entry among those that are read.
LEMMA ChangeOf ==
    ASSUME NEW o, NEW after, Read(o, after), NEW k \in DOMAIN after
    PROVE  /\ \E c \in ToSet(o.changes) :
                 /\ c.key = k /\ c.pre = entries[k] /\ c.post = after[k]
                 /\ \A d \in ToSet(o.changes) : d.key = k => d = c
           /\ \A d \in ToSet(o.changes) : d.key \in DOMAIN after
<1> DEFINE c(x) == [key |-> x, pre |-> entries[x], post |-> after[x]]
<1>1. \A d : d \in ToSet(o.changes) <=> \E x \in DOMAIN after : d = c(x)
  BY DEF Read, ChangesOf
<1>2. \A x : c(x).key = x /\ c(x).pre = entries[x] /\ c(x).post = after[x]
  OBVIOUS
<1> HIDE DEF c
<1>3. c(k) \in ToSet(o.changes) /\ \A d \in ToSet(o.changes) : d.key = k => d = c(k)
  BY <1>1, <1>2
<1> QED
  BY <1>1, <1>2, <1>3

LEMMA ClaimOutcome ==
    ASSUME Ledger, replica \in Replicas, NEW source \in Actors, NEW b \in Claimable,
           Claim(source, b)
    PROVE  \E o, after : Outcome(o, after)
<1> DEFINE k  == ClaimableKey(b)
           op == [Operation("claim_claimable_balance", source) EXCEPT !.entry = k]
<1>1. /\ Live(k) /\ CanHold(source, entries[k].asset)
      /\ Perform(op, With(Set(k, NoEntry), Moved(source, entries[k].asset, entries[k].amount)))
  BY DEF Claim
<1>2. /\ k \in Keys /\ k.type = "claimable_balance" /\ k # HeldKey /\ k # PoolKey
      /\ \A a : AccountKey(a) # k
      /\ \A h \in Holders : BalanceKey(h[1], h[2]) # k
      /\ \A x, asset : Movable(x, asset) => IsIssuer(x, asset) \/ k # BalanceKey(x, asset)
      /\ Kept(k, NoEntry)
  BY ClaimableKeys
<1> HIDE DEF k
<1>3. PICK asset, amount : asset = entries[k].asset /\ amount = entries[k].amount
  OBVIOUS
<1>4. asset \in {Native, Credit} /\ amount \in Int
  <2>1. entries[k] \in [amount : Int, asset : {Native, Credit}, claimants : {Claimants},
                        sponsor : MaybeSponsor]
    BY <1>1, <1>2, EntriesAre DEF Ledger, Typed, Live
  <2> QED
    BY <1>3, <2>1
<1>5. Movable(source, asset)
  BY <1>1, <1>3, <1>4, Holding
<1>6. PICK after : after = With(Set(k, NoEntry), Moved(source, asset, amount))
  OBVIOUS
<1>7. /\ Leaves(after) /\ Focus(after, k) /\ k \in DOMAIN after /\ after[k] = NoEntry
      /\ PoolKey \notin DOMAIN after
      /\ entries' = With(after, entries)
         => /\ entries'[k] = NoEntry
            /\ \A h \in Holders : BalanceKey(h[1], h[2]) # k =>
                  BalanceIn(entries', h)
                  = BalanceIn(entries, h) + IF h = << source, asset >> THEN amount ELSE 0
  <2>1. k \in Keys /\ NoEntry \in EntryType(k) \cup {NoEntry}
    BY <1>2
  <2>2. Kept(k, NoEntry)
    BY <1>2
  <2>3. IsIssuer(source, asset) \/ k # BalanceKey(source, asset)
    BY <1>2, <1>5
  <2> QED
    BY <1>2, <1>4, <1>5, <1>6, <2>1, <2>2, <2>3, SetAndMoved
<1>8. Bare(op) /\ op.kind = "claim_claimable_balance" /\ op.source = source /\ op.entry = k
  BY Elements DEF Bare, Operation, Fields
<1> HIDE DEF op
<1>9. Perform(op, after)
  BY <1>1, <1>3, <1>6
<1>10. PICK o : Same(o, op) /\ Done(o, after)
  BY <1>7, <1>8, <1>9, Performed
<1>11. o.kind = "claim_claimable_balance" /\ o.source = source /\ o.entry = k
  BY <1>8, <1>10 DEF Same
<1>12. /\ entries' = With(after, entries) /\ IsSequence(o.changes)
       /\ IsSequence(OperationEffects(o)) /\ (o.readable <=> Read(o, after))
       /\ (~o.readable => o.changes = << >>)
  BY <1>10, DoneStep
<1>13. OperationEffects(o) = ClaimClaimableBalanceEffects(o)
  BY <1>11, Switch
<1> DEFINE e1 == Effect(source, "claimable_balance_claimed", k, amount)
           e2 == Effect(source, "account_credited", asset, amount)
<1>14. ~o.readable => Own(o) = {}
  <2> SUFFICES ASSUME ~o.readable PROVE Own(o) = {}
    OBVIOUS
  <2>1. ToSet(o.changes) = {}
    BY <1>12, Elements
  <2>2. ClaimClaimableBalanceEffects(o) = << >>
    BY <1>12, <2>1, OwnClaim
  <2> QED
    BY <1>13, <2>2, Elements DEF Own
<1>15. o.readable => OperationEffects(o) = << e1, e2 >>
  <2> SUFFICES ASSUME o.readable PROVE OperationEffects(o) = << e1, e2 >>
    OBVIOUS
  <2>1. Read(o, after)
    BY <1>12
  <2>2. PICK c \in ToSet(o.changes) :
           /\ c.key = k /\ c.pre = entries[k] /\ c.post = NoEntry
           /\ \A d \in ToSet(o.changes) : d.key = k => d = c
    BY <1>7, <2>1, ChangeOf
  <2>3. Removed(c)
    BY <1>1, <2>2 DEF Removed, Live
  <2>4. ClaimClaimableBalanceEffects(o) =
           << Effect(o.source, "claimable_balance_claimed", c.key, c.pre.amount),
              Effect(o.source, "account_credited", c.pre.asset, c.pre.amount) >>
    BY <1>2, <1>11, <1>12, <2>2, <2>3, OwnClaim
  <2> QED
    BY <1>3, <1>11, <1>13, <2>2, <2>4
<1>16. /\ e1.address = source /\ e1.type = "claimable_balance_claimed" /\ e1.about = k
       /\ e2.address = source /\ e2.type = "account_credited" /\ e2.about = asset
       /\ e2.value = amount
  BY EffectIs
<1> HIDE DEF e1, e2
<1>17. o.readable => Own(o) = {e1, e2}
  BY <1>15, Elements DEF Own
<1>18. EntryOf(e1) = k
  BY <1>16 DEF EntryOf
<1>19. Fits(e1) /\ Fits(e2)
  BY <1>2, <1>4, <1>16, <1>18 DEF Fits, Arrivals, BalanceTypes, Weighs
<1>20. Modest(o)
  BY <1>14, <1>16, <1>17, <1>19 DEF Modest, SponsorTypes, PoolTypes
<1>21. EntriesTold(o)
  <2>1. \A f \in Own(o) : Speaks(f) => f = e1
    BY <1>14, <1>16, <1>17 DEF Speaks, Arrivals, Departures
  <2>2. Speaks(e1) /\ e1.type \notin Arrivals
    BY <1>16 DEF Speaks, Arrivals, Departures
  <2>3. entries'[k] = NoEntry
    BY <1>7, <1>12
  <2>4. Informed(o, NeededFor(k)) => o.readable
    BY <1>2, <1>11 DEF Informed, NeededFor, ChangesNeededFor
  <2> QED
    BY <1>2, <1>7, <1>10, <1>17, <1>18, <2>1, <2>2, <2>3, <2>4, EntriesFocus
<1>22. SignersAgree(o)
  <2>1. \A f \in Own(o) : f.type \notin SignerTypes
    BY <1>14, <1>16, <1>17 DEF SignerTypes, Resets, Weighs
  <2> QED
    BY <1>2, <1>7, <1>10, <1>20, <2>1, SignersQuiet
<1>23. BalancesTold(o)
  <2>1. Informed(o, BalanceKinds) => o.readable
    BY <1>11 DEF Informed, BalanceKinds, ChangesNeededFor
  <2>2. e1.type # "account_created" /\ e2.type # "account_created"
    BY <1>16
  <2>3. o.readable => \A h \in Holders : Halfway(o).balance[h] = replica.balance[h] + Delta(e1, h) + Delta(e2, h)
    BY <1>15, <1>19, <2>2, BalancePair DEF Halfway
  <2>4. \A h \in Holders : Delta(e1, h) = 0 /\ Delta(e2, h) = IF h = << source, asset >> THEN amount ELSE 0
    BY <1>16 DEF Delta
  <2>5. \A h \in Holders : BalanceIn(entries', h)
                           = BalanceIn(entries, h) + IF h = << source, asset >> THEN amount ELSE 0
    BY <1>2, <1>7, <1>12
  <2>6. \A h \in Holders : BalanceIn(entries, h) \in Int
    BY BalancesAreInts
  <2> QED
    BY <1>4, <2>1, <2>3, <2>4, <2>5, <2>6 DEF BalancesTold
<1>24. OneLine(after) /\ OwnPool(o, after)
  BY <1>7, FocusOneLine DEF OwnPool
<1>25. Outcome(o, after)
  BY <1>10, <1>20, <1>21, <1>22, <1>23, <1>24 DEF Outcome
<1> QED
  BY <1>25

\* A list of effects of which the last alone is about a balance.
LEMMA BalanceLast ==
    ASSUME NEW r \in Replicas, NEW s, IsSequence(s), NEW e, Fits(e), e.type # "account_created",
           \A f \in ToSet(s) : Fits(f) /\ f.type \notin BalanceTypes
    PROVE  \A h \in Holders : Consumed(r, s \o << e >>).balance[h] = r.balance[h] + Delta(e, h)
<1> DEFINE q == Consumed(r, s)
<1>1. q.balance = r.balance
  BY Untouched
<1>2. r.balance \in [Holders -> Int]
  BY DEF Replicas
<1>3. IsSequence(<< e >>)
  BY Elements
<1>4. Consumed(r, s \o << e >>) = Consumed(q, << e >>)
  BY <1>3, ConsumedJoined
<1> HIDE DEF q
<1>5. Consumed(q, << e >>) = Apply(q, e)
  BY ConsumedOne
<1>6. \A h \in Holders : Apply(q, e).balance[h] = q.balance[h] + Delta(e, h)
  BY <1>1, <1>2, BalanceStep
<1> QED
  BY <1>1, <1>4, <1>5, <1>6

LEMMA CreateClaimableOutcome ==
    ASSUME Ledger, replica \in Replicas, NEW source \in Actors, NEW b \in Claimable,
           NEW asset \in {Native, Credit}, NEW sponsor \in Sponsors,
           CreateClaimable(source, b, asset, 1, sponsor)
    PROVE  \E o, after : Outcome(o, after)
<1> DEFINE k  == ClaimableKey(b)
           op == [Operation("create_claimable_balance", source) EXCEPT !.asset = asset]
           entry == [amount |-> 1, asset |-> asset, claimants |-> Claimants, sponsor |-> sponsor]
<1>1. Perform(op, With(Set(k, entry), Moved(source, asset, -1))) /\ CanHold(source, asset)
  BY DEF CreateClaimable, CanPay
<1>2. /\ k \in Keys /\ k.type = "claimable_balance" /\ k # HeldKey /\ k # PoolKey
      /\ \A a : AccountKey(a) # k
      /\ \A h \in Holders : BalanceKey(h[1], h[2]) # k
      /\ \A x, s : Movable(x, s) => IsIssuer(x, s) \/ k # BalanceKey(x, s)
  BY ClaimableKeys
<1> HIDE DEF k
<1>3. entry \in [amount : Int, asset : {Native, Credit}, claimants : {Claimants},
                 sponsor : MaybeSponsor]
  BY DEF MaybeSponsor
<1>4. entry.amount = 1 /\ entry.asset = asset /\ entry.claimants = Claimants
  OBVIOUS
<1> HIDE DEF entry
<1>5. entry \in EntryType(k) /\ entry # NoEntry /\ Kept(k, entry)
  BY <1>2, <1>3, EntriesAre DEF Kept
<1>6. Movable(source, asset)
  BY <1>1, Holding
<1>7. PICK after : after = With(Set(k, entry), Moved(source, asset, -1))
  OBVIOUS
<1>8. /\ Leaves(after) /\ Focus(after, k) /\ k \in DOMAIN after /\ after[k] = entry
      /\ PoolKey \notin DOMAIN after
      /\ entries' = With(after, entries)
         => /\ entries'[k] = entry
            /\ \A h \in Holders : BalanceKey(h[1], h[2]) # k =>
                  BalanceIn(entries', h)
                  = BalanceIn(entries, h) + IF h = << source, asset >> THEN -1 ELSE 0
  <2>1. k \in Keys /\ entry \in EntryType(k) \cup {NoEntry} /\ -1 \in Int
    BY <1>2, <1>5
  <2>2. Kept(k, entry)
    BY <1>5
  <2>3. IsIssuer(source, asset) \/ k # BalanceKey(source, asset)
    BY <1>2, <1>6
  <2> QED
    BY <1>2, <1>6, <1>7, <2>1, <2>2, <2>3, SetAndMoved
<1>9. Bare(op) /\ op.kind = "create_claimable_balance" /\ op.source = source
  BY Elements DEF Bare, Operation, Fields
<1> HIDE DEF op
<1>10. Perform(op, after)
  BY <1>1, <1>7
<1>11. PICK o : Same(o, op) /\ Done(o, after)
  BY <1>8, <1>9, <1>10, Performed
<1>12. o.kind = "create_claimable_balance" /\ o.source = source
  BY <1>9, <1>11 DEF Same
<1>13. /\ entries' = With(after, entries) /\ IsSequence(o.changes)
       /\ IsSequence(OperationEffects(o)) /\ (o.readable <=> Read(o, after))
       /\ (~o.readable => o.changes = << >>)
  BY <1>11, DoneStep
<1>14. OperationEffects(o) = CreateClaimableBalanceEffects(o)
  BY <1>12, Switch
<1> DEFINE e1 == Effect(source, "claimable_balance_created", k, 1)
           e2 == Effect(source, "account_debited", asset, 1)
<1>15. ~o.readable => Own(o) = {}
  <2> SUFFICES ASSUME ~o.readable PROVE Own(o) = {}
    OBVIOUS
  <2>1. ToSet(o.changes) = {}
    BY <1>13, Elements
  <2>2. CreateClaimableBalanceEffects(o) = << >>
    BY <1>13, <2>1, OwnCreateClaimable
  <2> QED
    BY <1>14, <2>2, Elements DEF Own
<1>16. ASSUME o.readable
       PROVE  \E told : /\ IsSequence(told)
                        /\ \A f \in ToSet(told) : f.type = "claimable_balance_claimant_created"
                        /\ OperationEffects(o) = (<< e1 >> \o told) \o << e2 >>
  <2>1. Read(o, after)
    BY <1>13, <1>16
  <2>2. PICK c \in ToSet(o.changes) :
           /\ c.key = k /\ c.pre = entries[k] /\ c.post = entry
           /\ \A d \in ToSet(o.changes) : d.key = k => d = c
    BY <1>8, <2>1, ChangeOf
  <2>3. ASSUME NEW d \in ToSet(o.changes), d.key.type = "claimable_balance" PROVE d = c
    <3>1. d.key \in DOMAIN after
      BY <1>8, <2>1, ChangeOf
    <3>2. d.key = k
      <4>1. DOMAIN after \subseteq {k} \cup DOMAIN Moved(source, asset, -1)
        BY <1>7, WithIs, SetIs
      <4>2. ASSUME NEW x \in DOMAIN Moved(source, asset, -1) PROVE x.type # "claimable_balance"
        <5>1. -1 \in Int
          OBVIOUS
        <5>2. ~IsIssuer(source, asset) /\ Shifted(x, Moved(source, asset, -1)[x], -1)
          BY <1>6, <5>1, MovedIs
        <5> QED
          BY <5>2 DEF Shifted
      <4> QED
        BY <2>3, <3>1, <4>1, <4>2
    <3> QED
      BY <2>2, <3>2
  <2>4. CreateClaimableBalanceEffects(o) =
           << Effect(o.source, "claimable_balance_created", c.key, c.post.amount) >>
           \o Told(o, c)
           \o << Effect(o.source, "account_debited", c.post.asset, c.post.amount) >>
    BY <1>2, <1>5, <1>13, <2>2, <2>3, OwnCreateClaimable
  <2>5. /\ Effect(o.source, "claimable_balance_created", c.key, c.post.amount) = e1
        /\ Effect(o.source, "account_debited", c.post.asset, c.post.amount) = e2
    BY <1>4, <1>12, <2>2
  <2> HIDE DEF e1, e2
  <2>6. OperationEffects(o) = (<< e1 >> \o Told(o, c)) \o << e2 >>
    BY <1>14, <2>4, <2>5, Zenon
  <2>7. /\ IsSequence(Told(o, c))
        /\ \A f \in ToSet(Told(o, c)) : f.type = "claimable_balance_claimant_created"
    <3> DEFINE T == {f \in ToSet(Told(o, c)) : f.type = "claimable_balance_claimant_created"}
    <3>1. \A i \in DOMAIN Claimants : /\ Told(o, c)[i].type = "claimable_balance_claimant_created"
                                      /\ Told(o, c)[i] \in ToSet(Told(o, c))
      BY <1>4, <2>2, EffectIs DEF Told, ToSet
    <3>2. Along(Told(o, c), Claimants)
      BY <1>4, <2>2 DEF Along, Told
    <3>3. DOMAIN Told(o, c) = DOMAIN Claimants
      BY <1>4, <2>2 DEF Told
    <3>4. DOMAIN Claimants = 1 .. Len(Claimants)
      BY ClaimantsAre, OwnElements DEF IsSequence
    <3>5. \A n \in 1 .. Len(Claimants) : Told(o, c)[n] \in T
      BY <3>1, <3>4
    <3>6. Told(o, c) \in Seq(T)
      BY <3>2, <3>5, ClaimantsAre, AlongTyped
    <3>7. IsSequence(Told(o, c))
      BY <3>6, OwnElements
    <3>8. ToSet(Told(o, c)) \subseteq T
      BY <3>3, <3>4, <3>5 DEF ToSet
    <3> QED
      BY <3>7, <3>8
  <2> QED
    BY <2>6, <2>7
<1>17. /\ e1.address = source /\ e1.type = "claimable_balance_created" /\ e1.about = k /\ e1.value = 1
       /\ e2.address = source /\ e2.type = "account_debited" /\ e2.about = asset /\ e2.value = 1
  BY EffectIs
<1> HIDE DEF e1, e2
<1>18. EntryOf(e1) = k
  BY <1>17 DEF EntryOf
<1>19. Fits(e1) /\ Fits(e2)
  BY <1>2, <1>17, <1>18 DEF Fits, Arrivals, BalanceTypes, Weighs
<1>20. \A f : f.type = "claimable_balance_claimant_created" =>
                /\ Fits(f) /\ ~Speaks(f) /\ f.type \notin BalanceTypes
                /\ f.type \notin SignerTypes \cup SponsorTypes \cup PoolTypes
  BY DEF Fits, Speaks, Arrivals, Departures, BalanceTypes, SignerTypes, Resets, Weighs, SponsorTypes,
         PoolTypes
<1>21. ASSUME o.readable
       PROVE  /\ e1 \in Own(o)
              /\ \A f \in Own(o) : f = e1 \/ f = e2 \/ f.type = "claimable_balance_claimant_created"
              /\ \A h \in Holders : Halfway(o).balance[h] = replica.balance[h] + Delta(e2, h)
  <2>1. PICK told : /\ IsSequence(told)
                    /\ \A f \in ToSet(told) : f.type = "claimable_balance_claimant_created"
                    /\ OperationEffects(o) = (<< e1 >> \o told) \o << e2 >>
    BY <1>16, <1>21
  <2>2. PICK first : first = << e1 >> \o told
    OBVIOUS
  <2>3. IsSequence(<< e1 >>) /\ ToSet(<< e1 >>) = {e1} /\ IsSequence(<< e2 >>) /\ ToSet(<< e2 >>) = {e2}
    BY Elements
  <2>4. IsSequence(first) /\ ToSet(first) = {e1} \cup ToSet(told)
    BY <2>1, <2>2, <2>3, ElementsJoined
  <2>5. ToSet(first \o << e2 >>) = ToSet(first) \cup {e2}
    BY <2>3, <2>4, ElementsJoined
  <2>6. OperationEffects(o) = first \o << e2 >>
    BY <2>1, <2>2, Zenon
  <2>7. Own(o) = ToSet(first \o << e2 >>)
    BY <2>6, Zenon DEF Own
  <2>8. Own(o) = ({e1} \cup ToSet(told)) \cup {e2}
    BY <2>4, <2>5, <2>7, Zenon
  <2>9. \A f \in ToSet(first) : Fits(f) /\ f.type \notin BalanceTypes
    <3>1. e1.type \notin BalanceTypes
      BY <1>17 DEF BalanceTypes
    <3> QED
      BY <1>19, <1>20, <2>1, <2>4, <3>1
  <2>10. e2.type # "account_created"
    BY <1>17
  <2>11. \A h \in Holders : Consumed(replica, first \o << e2 >>).balance[h] = replica.balance[h] + Delta(e2, h)
    BY <1>19, <2>4, <2>9, <2>10, BalanceLast
  <2>12. Halfway(o) = Consumed(replica, first \o << e2 >>)
    BY <2>6, Zenon DEF Halfway
  <2>13. \A h \in Holders : Halfway(o).balance[h] = replica.balance[h] + Delta(e2, h)
    BY <2>11, <2>12, Zenon
  <2>14. \A f \in Own(o) : f = e1 \/ f = e2 \/ f.type = "claimable_balance_claimant_created"
    BY <2>1, <2>8, Zenon
  <2>15. e1 \in Own(o)
    BY <2>8, Zenon
  <2> QED
    BY <2>13, <2>14, <2>15, Zenon
<1>22. \A f \in Own(o) : f = e1 \/ f = e2 \/ f.type = "claimable_balance_claimant_created"
  BY <1>15, <1>21
<1>23. Modest(o)
  BY <1>17, <1>19, <1>20, <1>22 DEF Modest, SponsorTypes, PoolTypes
<1>24. EntriesTold(o)
  <2>1. \A f \in Own(o) : Speaks(f) => f = e1
    BY <1>17, <1>20, <1>22 DEF Speaks, Arrivals, Departures
  <2>2. Speaks(e1) /\ e1.type \in Arrivals
    BY <1>17 DEF Speaks, Arrivals, Departures
  <2>3. entries'[k] # NoEntry
    BY <1>5, <1>8, <1>13
  <2>4. Informed(o, NeededFor(k)) => o.readable
    BY <1>2, <1>12 DEF Informed, NeededFor, ChangesNeededFor
  <2> QED
    BY <1>2, <1>8, <1>11, <1>18, <1>21, <2>1, <2>2, <2>3, <2>4, EntriesFocus
<1>25. SignersAgree(o)
  <2>1. \A f \in Own(o) : f.type \notin SignerTypes
    BY <1>17, <1>20, <1>22 DEF SignerTypes, Resets, Weighs
  <2> QED
    BY <1>2, <1>8, <1>11, <1>23, <2>1, SignersQuiet
<1>26. BalancesTold(o)
  <2>1. Informed(o, BalanceKinds) => o.readable
    BY <1>12 DEF Informed, BalanceKinds, ChangesNeededFor
  <2>2. \A h \in Holders : Delta(e2, h) = IF h = << source, asset >> THEN -1 ELSE 0
    BY <1>17 DEF Delta
  <2>3. \A h \in Holders : BalanceIn(entries', h)
                           = BalanceIn(entries, h) + IF h = << source, asset >> THEN -1 ELSE 0
    BY <1>2, <1>8, <1>13
  <2> QED
    BY <1>21, <2>1, <2>2, <2>3 DEF BalancesTold
<1>27. OneLine(after) /\ OwnPool(o, after)
  BY <1>8, FocusOneLine DEF OwnPool
<1>28. Outcome(o, after)
  BY <1>11, <1>23, <1>24, <1>25, <1>26, <1>27 DEF Outcome
<1> QED
  BY <1>28

LEMMA ChangePoolTrustOutcome ==
    ASSUME Ledger, replica \in Replicas, NEW source \in Users, ChangePoolTrust(source)
    PROVE  \E o, after : Outcome(o, after)
<1> DEFINE k    == LineKey(source, PoolShare)
           line == LineKey(source, Credit)
           op   == [Operation("change_trust", source) EXCEPT !.asset = PoolShare]
           lines == IF Live(PoolKey) THEN entries[PoolKey].lines ELSE 0
           grown(d) == [entries[line] EXCEPT !.uses = @ + d]
           pool(d)  == IF lines + d = 0 THEN NoEntry ELSE [lines |-> lines + d, sponsor |-> NoSponsor]
<1>1. PICK e, d : /\ \/ ~Live(k) /\ e = LineEntry(NoSponsor) /\ d = 1
                     \/ Live(k) /\ e = NoEntry /\ d = -1
                  /\ Live(line)
                  /\ Perform(op, With(Set(k, e), With(Set(line, grown(d)), Set(PoolKey, pool(d)))))
  BY DEF ChangePoolTrust
<1>2. /\ k \in Keys /\ k.type = "trustline" /\ k.id = PoolShare /\ k # HeldKey /\ k # PoolKey
      /\ line \in Keys /\ line.type = "trustline" /\ line.id = Credit /\ line # PoolKey /\ k # line
      /\ line # HeldKey /\ PoolKey \in Keys /\ PoolKey.type = "liquidity_pool"
      /\ \A a : AccountKey(a) # k
  BY KeysAre, KeyTypes, NamesAre
<1>3. \A f : /\ f.type \in {"trustline_created", "trustline_updated", "trustline_removed"}
             /\ f.address = source /\ f.about = PoolShare
             => EntryOf(f) = k
  BY DEF EntryOf
<1>4. d \in Int
  BY <1>1
<1>5. PICK e2 : e2 = grown(d)
  OBVIOUS
<1>6. PICK e3 : e3 = pool(d)
  OBVIOUS
<1>7. /\ e2 \in EntryType(line) /\ e2 # NoEntry /\ e2.sponsor = entries[line].sponsor
      /\ e2.balance = entries[line].balance
  <2> DEFINE T == [balance : Int, uses : Int, limit : Int, sponsor : MaybeSponsor]
  <2>1. \A x : x \in EntryType(line) <=> x \in T
    BY <1>2, EntriesAre
  <2>2. entries[line] \in T
    BY <1>1, <1>2, <2>1 DEF Ledger, Typed, Live
  <2>3. grown(d) \in T /\ grown(d).sponsor = entries[line].sponsor
        /\ grown(d).balance = entries[line].balance
    BY <1>4, <2>2
  <2>4. e2 \in EntryType(line)
    BY <1>5, <2>1, <2>3
  <2>5. e2 # NoEntry
    BY <1>2, <2>4, EntriesAre
  <2> QED
    BY <1>5, <2>3, <2>4, <2>5
<1>8. e3 \in EntryType(PoolKey) \cup {NoEntry}
  <2> DEFINE T == [lines : Int, sponsor : {NoSponsor}]
  <2>1. \A x : x \in EntryType(PoolKey) <=> x \in T
    BY <1>2, EntriesAre
  <2>2. Live(PoolKey) => entries[PoolKey] \in T
    BY <1>2, <2>1 DEF Ledger, Typed, Live
  <2>3. lines \in Int
    BY <2>2
  <2>4. pool(d) \in T \cup {NoEntry}
    BY <1>4, <2>3
  <2> QED
    BY <1>6, <2>1, <2>4
<1>9. PICK after : after = With(Set(k, e), With(Set(line, e2), Set(PoolKey, e3)))
  OBVIOUS
<1>10. Perform(op, after)
  BY <1>1, <1>5, <1>6, <1>9
<1>11. Bare(op) /\ op.kind = "change_trust" /\ op.source = source /\ op.asset = PoolShare
  BY Elements DEF Bare, Operation, Fields
<1> HIDE DEF k, line, op, lines, grown, pool
<1>12. /\ e \in EntryType(k) \cup {NoEntry} /\ Kept(k, e)
       /\ entries[k] = NoEntry <=> e # NoEntry
  <2>1. LineEntry(NoSponsor) \in [balance : Int, uses : Int, limit : Int, sponsor : MaybeSponsor]
        /\ LineEntry(NoSponsor).sponsor = NoSponsor
    BY DEF LineEntry, MaybeSponsor
  <2>2. LineEntry(NoSponsor) \in EntryType(k) /\ LineEntry(NoSponsor) # NoEntry
    BY <1>2, <2>1, EntriesAre
  <2>3. Sponsor(e) = NoSponsor
    BY <1>1, <2>1 DEF Sponsor
  <2>4. Kept(k, e)
    BY <1>2, <2>3, KeyTypes DEF Kept
  <2> QED
    BY <1>1, <2>2, <2>4 DEF Live
<1>13. Kept(line, e2) /\ Kept(PoolKey, e3)
  <2>1. PoolKey # HeldKey
    BY <1>2, KeyTypes
  <2> QED
    BY <1>2, <2>1, NamesAre, KeyTypes DEF Kept
<1>14. Leaves(after)
  <2>1. Leaves(Set(k, e))
    BY <1>2, <1>12, LeavesSet
  <2>2. Leaves(Set(line, e2))
    BY <1>2, <1>7, <1>13, LeavesSet
  <2>3. Leaves(Set(PoolKey, e3))
    BY <1>2, <1>8, <1>13, LeavesSet
  <2>4. Leaves(With(Set(line, e2), Set(PoolKey, e3)))
    BY <2>2, <2>3, LeavesWith
  <2> QED
    BY <1>9, <2>1, <2>4, LeavesWith
<1>15. DOMAIN after = {k, line, PoolKey} /\ after[k] = e /\ after[line] = e2 /\ after[PoolKey] = e3
  <2>1. PICK s1, s2, s3, g : /\ s1 = Set(k, e) /\ s2 = Set(line, e2) /\ s3 = Set(PoolKey, e3)
                             /\ g = With(s2, s3)
    OBVIOUS
  <2>2. /\ DOMAIN s1 = {k} /\ s1[k] = e /\ DOMAIN s2 = {line} /\ s2[line] = e2
        /\ DOMAIN s3 = {PoolKey} /\ s3[PoolKey] = e3
    BY <2>1, SetIs, Zenon
  <2>3. /\ DOMAIN g = DOMAIN s2 \cup DOMAIN s3
        /\ \A x \in DOMAIN s2 : g[x] = s2[x]
        /\ \A x \in DOMAIN s3 \ DOMAIN s2 : g[x] = s3[x]
    <3>1. g = With(s2, s3)
      BY <2>1, Zenon
    <3>2. /\ DOMAIN With(s2, s3) = DOMAIN s2 \cup DOMAIN s3
          /\ \A x \in DOMAIN s2 : With(s2, s3)[x] = s2[x]
          /\ \A x \in DOMAIN s3 \ DOMAIN s2 : With(s2, s3)[x] = s3[x]
      BY WithIs
    <3> QED
      BY <3>1, <3>2
  <2>4. DOMAIN g = {line, PoolKey} /\ g[line] = e2 /\ g[PoolKey] = e3
    BY <1>2, <2>2, <2>3
  <2>5. /\ DOMAIN after = DOMAIN s1 \cup DOMAIN g
        /\ \A x \in DOMAIN s1 : after[x] = s1[x]
        /\ \A x \in DOMAIN g \ DOMAIN s1 : after[x] = g[x]
    <3>1. after = With(s1, g)
      BY <1>9, <2>1, Zenon
    <3>2. /\ DOMAIN With(s1, g) = DOMAIN s1 \cup DOMAIN g
          /\ \A x \in DOMAIN s1 : With(s1, g)[x] = s1[x]
          /\ \A x \in DOMAIN g \ DOMAIN s1 : With(s1, g)[x] = g[x]
      BY WithIs
    <3> QED
      BY <3>1, <3>2
  <2> QED
    BY <1>2, <2>2, <2>4, <2>5
<1>16. Focus(after, k)
  BY <1>1, <1>2, <1>7, <1>15 DEF Focus, Steady, Live
<1>17. PICK o : Same(o, op) /\ Done(o, after)
  BY <1>10, <1>11, <1>14, Performed
<1>18. o.kind = "change_trust" /\ o.source = source /\ o.asset = PoolShare
  BY <1>11, <1>17 DEF Same
<1>19. /\ entries' = With(after, entries) /\ IsSequence(o.changes) /\ Step(after)
       /\ IsSequence(OperationEffects(o)) /\ (o.readable <=> Read(o, after))
       /\ (~o.readable => o.changes = << >>)
  BY <1>17, DoneStep
<1>20. \A x \in Keys : entries'[x] = IF x \in DOMAIN after THEN after[x] ELSE entries[x]
  BY <1>19, StepIs
<1>21. OperationEffects(o) = ChangeTrustEffects(o)
  BY <1>18, Switch
<1>22. ~o.readable => Own(o) = {}
  <2> SUFFICES ASSUME ~o.readable PROVE Own(o) = {}
    OBVIOUS
  <2>1. ToSet(o.changes) = {}
    BY <1>19, Elements
  <2>2. ChangeTrustEffects(o) = << >>
    BY <1>19, <2>1, OwnTrust
  <2> QED
    BY <1>21, <2>2, Elements DEF Own
<1>23. ASSUME o.readable
       PROVE  \E f : /\ Own(o) = {f} /\ f.address = source /\ f.about = PoolShare
                     /\ f.type = IF entries[k] = NoEntry /\ e # NoEntry THEN "trustline_created"
                                 ELSE IF entries[k] # NoEntry /\ e = NoEntry THEN "trustline_removed"
                                 ELSE "trustline_updated"
  <2>1. Read(o, after)
    BY <1>19, <1>23
  <2>2. PICK c \in ToSet(o.changes) :
           /\ c.key = k /\ c.pre = entries[k] /\ c.post = e
           /\ \A x \in ToSet(o.changes) : x.key = k => x = c
    BY <1>15, <2>1, ChangeOf
  <2>3. ASSUME NEW x \in ToSet(o.changes), x.key.type = "trustline",
               x.key.id.kind = o.asset.kind
        PROVE  x = c
    <3>1. x.key \in {k, line, PoolKey}
      BY <1>15, <2>1, ChangeOf
    <3>2. Credit.kind # PoolShare.kind
      BY NamesAssumption
    <3>3. x.key = k
      BY <1>2, <1>18, <2>3, <3>1, <3>2
    <3> QED
      BY <2>2, <3>3
  <2>4. ChangeTrustEffects(o) = << Effect(o.source, TrustType(c), c.key.id, 0) >>
    BY <1>2, <1>18, <1>19, <2>2, <2>3, OwnTrust
  <2> DEFINE f == Effect(source, TrustType(c), PoolShare, 0)
  <2>5. OperationEffects(o) = << f >>
    BY <1>2, <1>18, <1>21, <2>2, <2>4
  <2>6. f.address = source /\ f.type = TrustType(c) /\ f.about = PoolShare
    BY EffectIs
  <2> HIDE DEF f
  <2>7. Own(o) = {f}
    BY <2>5, Elements DEF Own
  <2>8. TrustType(c) = IF entries[k] = NoEntry /\ e # NoEntry THEN "trustline_created"
                       ELSE IF entries[k] # NoEntry /\ e = NoEntry THEN "trustline_removed"
                       ELSE "trustline_updated"
    BY <2>2 DEF TrustType, Created, Removed
  <2> QED
    BY <2>6, <2>7, <2>8
<1>24. \A f \in Own(o) : /\ f.type \in {"trustline_created", "trustline_updated", "trustline_removed"}
                         /\ f.address = source /\ f.about = PoolShare
                         /\ f.type \in {"trustline_created", "trustline_updated"} <=> e # NoEntry
  BY <1>12, <1>22, <1>23
<1>25. Modest(o)
  BY <1>2, <1>3, <1>24 DEF Modest, Fits, Arrivals, BalanceTypes, Weighs, SponsorTypes, PoolTypes
<1>26. EntriesTold(o)
  <2>1. entries'[k] = e
    BY <1>2, <1>15, <1>20
  <2>2. \A f \in Own(o) : Speaks(f) => /\ EntryOf(f) = k
                                       /\ f.type \in Arrivals <=> entries'[k] # NoEntry
    BY <1>3, <1>24, <2>1 DEF Arrivals
  <2>3. Informed(o, NeededFor(k)) => o.readable
    BY <1>2, <1>18 DEF Informed, NeededFor, ChangesNeededFor
  <2>4. o.readable => \E f \in Own(o) : Speaks(f)
    BY <1>23 DEF Speaks, Arrivals, Departures
  <2> QED
    BY <1>2, <1>16, <1>17, <2>2, <2>3, <2>4, EntriesFocus
<1>27. SignersAgree(o)
  <2>1. \A f \in Own(o) : f.type \notin SignerTypes
    BY <1>24 DEF SignerTypes, Resets, Weighs
  <2> QED
    BY <1>2, <1>16, <1>17, <1>25, <2>1, SignersQuiet
<1>28. BalancesTold(o)
  <2>1. \A f \in Own(o) : f.type \notin BalanceTypes
    BY <1>24 DEF BalanceTypes
  <2>2. ASSUME NEW h \in Holders PROVE BalanceIn(entries', h) = BalanceIn(entries, h)
    <3> DEFINE x == BalanceKey(h[1], h[2])
    <3>1. /\ x \in Keys /\ x.type \in {"account", "trustline", "contract_data"}
          /\ x.type = "trustline" => x.id = Credit
      BY BalanceEntries
    <3>2. x # k /\ x # PoolKey
      BY <1>2, <3>1, NamesAre
    <3>3. (IF entries'[x] # NoEntry THEN entries'[x].balance ELSE 0)
          = (IF entries[x] # NoEntry THEN entries[x].balance ELSE 0)
      <4> HIDE DEF x
      <4>1. CASE x = line
        BY <1>1, <1>2, <1>7, <1>15, <1>20, <4>1 DEF Live
      <4>2. CASE x # line
        BY <1>15, <1>20, <3>1, <3>2, <4>2
      <4> QED
        BY <4>1, <4>2
    <3> QED
      BY <3>3, SameBalance
  <2> QED
    BY <1>19, <2>1, <2>2, BalancesQuiet
<1>29. OneLine(after) /\ OwnPool(o, after)
  BY <1>16, <1>18, FocusOneLine DEF OwnPool
<1>30. Outcome(o, after)
  BY <1>17, <1>25, <1>26, <1>27, <1>28, <1>29 DEF Outcome
<1> QED
  BY <1>30

\* Signers with one of another weight, or without it.
LEMMA SignersSet ==
    ASSUME NEW old \in Weights, NEW k \in ToSet(SignerOrder), NEW weight \in 0 .. MaxWeight
    PROVE  (IF weight = 0 THEN [s \in DOMAIN old \ {k} |-> old[s]] ELSE With(Set(k, weight), old))
           \in Weights
<1>1. CASE weight = 0
  <2> DEFINE f == [s \in DOMAIN old \ {k} |-> old[s]]
  <2>1. /\ DOMAIN old \subseteq ToSet(SignerOrder)
        /\ \A s \in DOMAIN old : old[s] \in 1 .. MaxWeight
    BY WeightsAre
  <2>2. /\ f = [s \in DOMAIN f |-> f[s]] /\ DOMAIN f \subseteq ToSet(SignerOrder)
        /\ \A s \in DOMAIN f : f[s] \in 1 .. MaxWeight
    BY <2>1
  <2> HIDE DEF f
  <2>3. f \in Weights
    BY <2>2, WeightsAre
  <2> QED
    BY <1>1, <2>3 DEF f
<1>2. CASE weight # 0
  <2> DEFINE f == With(Set(k, weight), old)
  <2>1. /\ DOMAIN old \subseteq ToSet(SignerOrder)
        /\ \A s \in DOMAIN old : old[s] \in 1 .. MaxWeight
    BY WeightsAre
  <2>2. weight \in 1 .. MaxWeight
    BY <1>2, BoundsAssumption
  <2>3. f = [s \in {k} \cup DOMAIN old |-> IF s = k THEN weight ELSE old[s]]
    BY DEF With, Set
  <2> HIDE DEF f
  <2>4. /\ f = [s \in DOMAIN f |-> f[s]] /\ DOMAIN f \subseteq ToSet(SignerOrder)
        /\ \A s \in DOMAIN f : f[s] \in 1 .. MaxWeight
    BY <2>1, <2>2, <2>3
  <2>5. f \in Weights
    BY <2>4, WeightsAre
  <2> QED
    BY <1>2, <2>5 DEF f
<1> QED
  BY <1>1, <1>2

\* The effects on an account's signers carry over from the old to the new.
LEMMA SignersFollow ==
    ASSUME replica \in Replicas, NEW source \in Accounts, NEW old \in Weights, NEW new \in Weights,
           replica.signers[source] = old, NEW s, IsSequence(s),
           \A e \in ToSet(s) : Fits(e),
           \A e : e \in ToSet(s) <=> e \in ToSet(SignerEffects(source, old, new))
    PROVE  /\ Consumed(replica, s).signers[source] = new
           /\ \A a \in Accounts : a # source =>
                 Consumed(replica, s).signers[a] = replica.signers[a]
<1> DEFINE q == Consumed(replica, s)
<1>1. q \in Replicas
  BY FittingAll
<1>2. DOMAIN replica.signers = Accounts /\ q.signers[source] \in Weights
  BY <1>1 DEF Replicas
<1>3. ASSUME NEW e \in ToSet(s) PROVE \E k : SignerEffect(e, source, k, new)
  BY <1>3, SignersReported
<1>4. ASSUME NEW e \in ToSet(s), NEW a, NEW k, Signs(e, a, k)
      PROVE  a = source /\ WeightOf(e) = WeightIn(new, k)
  <2>1. PICK j : SignerEffect(e, source, j, new)
    BY <1>3
  <2>2. e.type \notin Resets
    BY <2>1 DEF SignerEffect, Resets, Weighs
  <2>3. a = source /\ j = k
    BY <1>4, <2>1, <2>2 DEF Signs, SignerEffect
  <2> QED
    BY <2>1, <2>3 DEF SignerEffect, WeightOf, WeightIn, Weighs
<1>5. ASSUME NEW k, WeightIn(old, k) # WeightIn(new, k)
      PROVE  \E e \in ToSet(s) : Signs(e, source, k)
  <2>1. k \in ToSet(SignerOrder)
    BY <1>5, WeightsAre DEF WeightIn
  <2>2. PICK e \in ToSet(s) : SignerEffect(e, source, k, new)
    BY <1>5, <2>1, SignersReported
  <2>3. Signs(e, source, k)
    BY <2>2 DEF Signs, SignerEffect, Weighs
  <2> QED
    BY <2>3
<1>6. ASSUME NEW k PROVE WeightIn(q.signers[source], k) = WeightIn(new, k)
  <2>1. \A w : (\A e \in ToSet(s) : Signs(e, source, k) => WeightOf(e) = w)
               => WeightIn(q.signers[source], k)
                  = IF \E e \in ToSet(s) : Signs(e, source, k) THEN w
                    ELSE WeightIn(replica.signers[source], k)
    BY <1>2, SignersTold
  <2>2. \A e \in ToSet(s) : Signs(e, source, k) => WeightOf(e) = WeightIn(new, k)
    BY <1>4
  <2> HIDE DEF q
  <2>3. WeightIn(q.signers[source], k)
        = IF \E e \in ToSet(s) : Signs(e, source, k) THEN WeightIn(new, k)
          ELSE WeightIn(replica.signers[source], k)
    BY <2>1, <2>2
  <2> QED
    BY <1>5, <2>3
<1>7. q.signers[source] = new
  BY <1>2, <1>6, SameWeights
<1>8. ASSUME NEW a \in Accounts, a # source PROVE q.signers[a] = replica.signers[a]
  <2>1. \A e \in ToSet(s) : \A k : ~Signs(e, a, k)
    BY <1>4, <1>8
  <2> QED
    BY <1>2, <2>1, SignersTold
<1> QED
  BY <1>7, <1>8

LEMMA SetSignerOutcome ==
    ASSUME Ledger, replica \in Replicas, NEW source \in Users, NEW weight \in 0 .. MaxWeight,
           NEW s \in {source, Extra}, SetSigner(source, s, weight)
    PROVE  \E o, after : Outcome(o, after)
<1> DEFINE k   == AccountKey(source)
           op  == Operation("set_options", source)
           chosen(old) == IF weight = 0 THEN [x \in DOMAIN old \ {s} |-> old[x]]
                          ELSE With(Set(s, weight), old)
<1>1. Live(k) /\ Perform(op, Set(k, [entries[k] EXCEPT !.signers = chosen(entries[k].signers)]))
  BY DEF SetSigner
<1>2. source \in Accounts /\ s \in ToSet(SignerOrder) /\ source # Root
  BY NamesAre, NamesAssumption
<1>3. /\ k \in Keys /\ k.type = "account" /\ k # HeldKey /\ k # PoolKey /\ k # AccountKey(Root)
      /\ \A a : AccountKey(a) = k <=> a = source
  <2>1. \A a : AccountKey(a).owner = a
    BY KeyTypes
  <2> QED
    BY <1>2, <2>1, KeysAre, KeyTypes
<1> HIDE DEF k
<1>5. PICK old : old = entries[k].signers
  OBVIOUS
<1>6. PICK new : new = chosen(old)
  OBVIOUS
<1>7. PICK e : e = [entries[k] EXCEPT !.signers = new]
  OBVIOUS
<1>8. Perform(op, Set(k, e))
  BY <1>1, <1>5, <1>6, <1>7
<1>9. entries[k] \in [balance : Int, signers : Weights, sponsor : MaybeSponsor]
  BY <1>1, <1>3, EntriesAre DEF Ledger, Typed, Live
<1>10. old \in Weights
  BY <1>5, <1>9
<1>11. new \in Weights
  BY <1>2, <1>6, <1>10, SignersSet
<1>12. Bare(op) /\ op.kind = "set_options" /\ op.source = source
  BY Elements DEF Bare, Operation, Fields
<1> HIDE DEF op, chosen
<1>13. /\ e \in [balance : Int, signers : Weights, sponsor : MaybeSponsor]
       /\ e.signers = new /\ e.balance = entries[k].balance
  BY <1>7, <1>9, <1>11
<1>14. e \in EntryType(k) /\ e # NoEntry /\ Kept(k, e)
  BY <1>3, <1>13, EntriesAre DEF Kept
<1>15. PICK after : after = Set(k, e)
  OBVIOUS
<1>16. /\ Leaves(after) /\ Focus(after, k) /\ DOMAIN after = {k} /\ after[k] = e
       /\ entries' = With(after, entries)
          => /\ entries'[k] = e
             /\ \A h \in Holders : BalanceKey(h[1], h[2]) # k =>
                   BalanceIn(entries', h) = BalanceIn(entries, h)
  <2>1. k \in Keys /\ e \in EntryType(k) \cup {NoEntry}
    BY <1>3, <1>14
  <2>2. Kept(k, e)
    BY <1>14
  <2> QED
    BY <1>15, <2>1, <2>2, SetAlone
<1>17. PICK o : Same(o, op) /\ Done(o, after)
  BY <1>8, <1>12, <1>15, <1>16, Performed
<1>18. o.kind = "set_options" /\ o.source = source /\ o.options = << >>
  BY <1>12, <1>17 DEF Same
<1>19. /\ entries' = With(after, entries) /\ IsSequence(o.changes) /\ Step(after)
       /\ IsSequence(OperationEffects(o)) /\ (o.readable <=> Read(o, after))
       /\ (~o.readable => o.changes = << >>)
  BY <1>17, DoneStep
<1>20. entries'[k] = e
  BY <1>16, <1>19
<1>21. OperationEffects(o) = SetOptionsEffects(o)
  BY <1>18, Switch
<1>22. ~o.readable => Own(o) = {}
  <2> SUFFICES ASSUME ~o.readable PROVE Own(o) = {}
    OBVIOUS
  <2>1. ToSet(o.changes) = {}
    BY <1>19, Elements
  <2>2. \A f : f \notin ToSet(SetOptionsEffects(o))
    BY <1>18, <1>19, <2>1, OwnOptions
  <2> QED
    BY <1>21, <2>2 DEF Own
<1>23. o.readable => \A f : f \in Own(o) <=> f \in ToSet(SignerEffects(source, old, new))
  <2> SUFFICES ASSUME o.readable
               PROVE  \A f : f \in Own(o) <=> f \in ToSet(SignerEffects(source, old, new))
    OBVIOUS
  <2>1. Read(o, after)
    BY <1>19
  <2>2. PICK c : ToSet(o.changes) = {c} /\ c.key = k /\ c.pre = entries[k] /\ c.post = e
    BY <1>16, <2>1, OneChange
  <2>3. Updated(c)
    BY <1>1, <1>14, <2>2 DEF Updated, Live
  <2>4. \A f : f \in ToSet(SetOptionsEffects(o)) <=>
                  \E d \in ToSet(o.changes) :
                     /\ d.key.type = "account" /\ Updated(d)
                     /\ f \in ToSet(SignerEffects(o.source, d.pre.signers, d.post.signers))
    BY <1>18, <1>19, OwnOptions
  <2>5. c.pre.signers = old /\ c.post.signers = new
    BY <1>5, <1>13, <2>2
  <2> QED
    BY <1>3, <1>18, <1>21, <2>2, <2>3, <2>4, <2>5 DEF Own
<1>24. \A f \in Own(o) : \E j : SignerEffect(f, source, j, new)
  BY <1>22, <1>23, SignersReported
<1>25. ASSUME NEW f \in Own(o)
       PROVE  Fits(f) /\ f.type \in {"signer_removed", "signer_created", "signer_updated"}
  <2>1. PICK j : SignerEffect(f, source, j, new)
    BY <1>24
  <2>2. f.type \in {"signer_removed", "signer_created", "signer_updated"}
    BY <2>1 DEF SignerEffect, Weighs
  <2>3. f.type \in Weighs => f.about \in ToSet(SignerOrder) /\ f.value \in 1 .. MaxWeight
    BY <1>11, <2>1, WeightsAre DEF SignerEffect, Weighs
  <2>4. Fits(f)
    BY <2>2, <2>3 DEF Fits, Arrivals, BalanceTypes
  <2> QED
    BY <2>2, <2>4
<1>26. Modest(o)
  BY <1>25 DEF Modest, SponsorTypes, PoolTypes
<1>27. EntriesTold(o)
  <2>1. \A f \in Own(o) : ~Speaks(f)
    BY <1>25 DEF Speaks, Arrivals, Departures
  <2>2. entries[k] = NoEntry <=> entries'[k] = NoEntry
    BY <1>1, <1>14, <1>20 DEF Live
  <2> QED
    BY <1>16, <1>17, <2>1, <2>2, EntriesFocus
<1>28. SignersAgree(o)
  <2> SUFFICES ASSUME Informed(o, {"set_options"}),
                      \A a \in Accounts : replica.signers[a] = SignersIn(entries, a)
               PROVE  \A a \in Accounts : Halfway(o).signers[a] = SignersIn(entries', a)
    BY DEF SignersAgree
  <2>1. o.readable
    BY <1>18 DEF Informed
  <2>2. replica.signers[source] = old
    BY <1>1, <1>2, <1>3, <1>5 DEF SignersIn, Live
  <2>3. \A f \in ToSet(OperationEffects(o)) : Fits(f)
    BY <1>25 DEF Own
  <2>4. \A f : f \in ToSet(OperationEffects(o)) <=> f \in ToSet(SignerEffects(source, old, new))
    BY <1>23, <2>1 DEF Own
  <2>5. /\ Halfway(o).signers[source] = new
        /\ \A a \in Accounts : a # source => Halfway(o).signers[a] = replica.signers[a]
    BY <1>2, <1>10, <1>11, <1>19, <2>2, <2>3, <2>4, SignersFollow DEF Halfway
  <2>6. SignersIn(entries', source) = new
    BY <1>3, <1>13, <1>14, <1>20 DEF SignersIn
  <2>7. \A a \in Accounts : a # source => SignersIn(entries', a) = SignersIn(entries, a)
    BY <1>3, <1>16, <1>19, FocusSigners
  <2> QED
    BY <2>5, <2>6, <2>7
<1>29. BalancesTold(o)
  <2>1. \A f \in Own(o) : f.type \notin BalanceTypes
    BY <1>25 DEF BalanceTypes
  <2>2. ASSUME NEW h \in Holders PROVE BalanceIn(entries', h) = BalanceIn(entries, h)
    <3>1. CASE BalanceKey(h[1], h[2]) # k
      BY <1>16, <1>19, <3>1
    <3>2. CASE BalanceKey(h[1], h[2]) = k
      BY <1>1, <1>13, <1>14, <1>20, <3>2, SameBalance DEF Live
    <3> QED
      BY <3>1, <3>2
  <2> QED
    BY <1>19, <2>1, <2>2, BalancesQuiet
<1>30. OneLine(after) /\ OwnPool(o, after)
  BY <1>3, <1>16, FocusOneLine DEF OwnPool
<1>31. Outcome(o, after)
  BY <1>17, <1>26, <1>27, <1>28, <1>29, <1>30 DEF Outcome
<1> QED
  BY <1>31

\* Three effects after each other.
LEMMA Triple ==
    ASSUME NEW r, NEW a, NEW b, NEW c
    PROVE  Consumed(r, << a, b, c >>) = Apply(Apply(Apply(r, a), b), c)
<1>1. IsSequence(<< a >>) /\ IsSequence(<< b >>) /\ IsSequence(<< c >>) /\ IsSequence(<< a, b >>)
  BY Elements
<1>2. << a, b >> \o << c >> = << a, b, c >>
  <2>1. PICK w : w = << a, b >> \o << c >>
    OBVIOUS
  <2>2. /\ Len(<< a, b >>) = 2 /\ << a, b >>[1] = a /\ << a, b >>[2] = b
        /\ Len(<< c >>) = 1 /\ << c >>[1] = c
    OBVIOUS
  <2>3. IsSequence(w) /\ Len(w) = 3 /\ w[1] = a /\ w[2] = b /\ w[2 + 1] = c
    BY <1>1, <2>1, <2>2, JoinedIs
  <2>4. w = << a, b, c >>
    BY <2>3 DEF IsSequence
  <2> QED
    BY <2>1, <2>4
<1>3. Consumed(r, << a, b >> \o << c >>) = Consumed(Consumed(r, << a, b >>), << c >>)
  BY <1>1, ConsumedJoined
<1>4. Consumed(r, << a >> \o << b >>) = Consumed(Consumed(r, << a >>), << b >>)
  BY <1>1, ConsumedJoined
<1>5. << a >> \o << b >> = << a, b >>
  BY PairJoined
<1>6. \A q, e : Consumed(q, << e >>) = Apply(q, e)
  BY ConsumedOne
<1>7. Consumed(r, << a, b >>) = Apply(Apply(r, a), b)
  BY <1>4, <1>5, <1>6
<1> QED
  BY <1>2, <1>3, <1>6, <1>7

\* The balance entry of an account is that of its native asset alone.
LEMMA NativeEntry ==
    ASSUME NEW a \in Accounts \ {Backer}
    PROVE  /\ << a, Native >> \in Holders /\ BalanceKey(a, Native) = AccountKey(a)
           /\ ~IsIssuer(a, Native)
           /\ \A h \in Holders : BalanceKey(h[1], h[2]) = AccountKey(a) <=> h = << a, Native >>
<1>1. a = Root \/ a \in Users
  BY NamesAre DEF Users
<1>2. << a, Native >> \in Holders
  BY <1>1, HoldersAre
<1>3. BalanceKey(a, Native) = AccountKey(a)
  BY NamesAre DEF BalanceKey
<1>4. ASSUME NEW h \in Holders, BalanceKey(h[1], h[2]) = AccountKey(a) PROVE h = << a, Native >>
  <2>1. h = << h[1], h[2] >> /\ << h[1], h[2] >> \in Holders
    BY HoldersAre
  <2>2. h[1] = a /\ h[2] = Native
    BY <1>2, <1>3, <1>4, <2>1, BalanceKeys
  <2> QED
    BY <2>1, <2>2
<1>5. ASSUME NEW h \in Holders, h = << a, Native >> PROVE BalanceKey(h[1], h[2]) = AccountKey(a)
  BY <1>3, <1>5
<1> QED
  BY <1>2, <1>3, <1>4, <1>5, HoldersAre

LEMMA MergeOutcome ==
    ASSUME Ledger, replica \in Replicas, NEW source \in Users, NEW dest \in Actors,
           Merge(source, dest)
    PROVE  \E o, after : Outcome(o, after)
<1>1. source \in Accounts \ {Backer} /\ dest \in Accounts \ {Backer} /\ source # Root
  BY NamesAre DEF Actors
<1> DEFINE k  == AccountKey(source)
           amt == BalanceOf(source, Native)
           op == [Operation("merge", source) EXCEPT !.dest = dest, !.amount = amt]
<1>2. /\ Live(k) /\ Live(AccountKey(dest)) /\ source # dest
      /\ Perform(op, With(Set(k, NoEntry), Moved(dest, Native, amt)))
  BY DEF Merge
<1>3. /\ k \in Keys /\ k.type = "account" /\ k # HeldKey /\ k # PoolKey /\ k # AccountKey(Root)
      /\ \A a : AccountKey(a) = k <=> a = source
  <2>1. \A a : AccountKey(a).owner = a
    BY KeyTypes
  <2> QED
    BY <1>1, <2>1, KeysAre, KeyTypes
<1>4. /\ << source, Native >> \in Holders /\ BalanceKey(source, Native) = k
      /\ \A h \in Holders : BalanceKey(h[1], h[2]) = k <=> h = << source, Native >>
  BY <1>1, NativeEntry
<1>5. \A f : f.type = "account_removed" /\ f.address = source => EntryOf(f) = k
  BY DEF EntryOf
<1>6. Movable(dest, Native) /\ k # BalanceKey(dest, Native)
  <2>1. /\ << dest, Native >> \in Holders /\ BalanceKey(dest, Native) = AccountKey(dest)
    BY <1>1, NativeEntry
  <2>2. AccountKey(dest) # k
    BY <1>2, <1>3
  <2> QED
    BY <1>2, <2>1, <2>2 DEF Movable
<1> HIDE DEF k
<1>7. PICK amount : amount = amt
  OBVIOUS
<1>8. amount \in Int /\ BalanceIn(entries, << source, Native >>) = amount
  <2>1. BalanceIn(entries, << source, Native >>) \in Int
    BY <1>4, BalancesAreInts
  <2>2. BalanceIn(entries, << source, Native >>) = amt
    BY DEF BalanceIn, BalanceOf, Live
  <2> QED
    BY <1>7, <2>1, <2>2
<1>9. PICK after : after = With(Set(k, NoEntry), Moved(dest, Native, amount))
  OBVIOUS
<1>10. Perform(op, after)
  BY <1>2, <1>7, <1>9
<1>11. /\ Bare(op) /\ op.kind = "merge" /\ op.source = source /\ op.dest = dest
       /\ op.amount = amount
  BY <1>7, Elements DEF Bare, Operation, Fields
<1> HIDE DEF op, amt
<1>12. /\ Leaves(after) /\ Focus(after, k) /\ k \in DOMAIN after /\ after[k] = NoEntry
       /\ PoolKey \notin DOMAIN after
       /\ entries' = With(after, entries)
          => /\ entries'[k] = NoEntry
             /\ \A h \in Holders : BalanceKey(h[1], h[2]) # k =>
                   BalanceIn(entries', h)
                   = BalanceIn(entries, h) + IF h = << dest, Native >> THEN amount ELSE 0
  <2>1. k \in Keys /\ NoEntry \in EntryType(k) \cup {NoEntry} /\ amount \in Int
    BY <1>3, <1>8
  <2>2. Kept(k, NoEntry)
    BY <1>3 DEF Kept
  <2>3. IsIssuer(dest, Native) \/ k # BalanceKey(dest, Native)
    BY <1>6
  <2> QED
    BY <1>3, <1>6, <1>9, <2>1, <2>2, <2>3, SetAndMoved
<1>13. PICK o : Same(o, op) /\ Done(o, after)
  BY <1>10, <1>11, <1>12, Performed
<1>14. o.kind = "merge" /\ o.source = source /\ o.dest = dest /\ o.amount = amount
  BY <1>11, <1>13 DEF Same
<1>15. entries' = With(after, entries) /\ IsSequence(OperationEffects(o)) /\ Step(after)
  BY <1>13, DoneStep
<1>16. entries'[k] = NoEntry
  BY <1>12, <1>15
<1> DEFINE e1 == Effect(source, "account_debited", Native, amount)
           e2 == Effect(dest, "account_credited", Native, amount)
           e3 == Effect(source, "account_removed", Native, 0)
<1>17. OperationEffects(o) = << e1, e2, e3 >>
  BY <1>14, Switch DEF MergeEffects
<1>18. /\ e1.address = source /\ e1.type = "account_debited" /\ e1.about = Native /\ e1.value = amount
       /\ e2.address = dest /\ e2.type = "account_credited" /\ e2.about = Native /\ e2.value = amount
       /\ e3.address = source /\ e3.type = "account_removed" /\ e3.about = Native /\ e3.value = 0
  BY EffectIs
<1> HIDE DEF e1, e2, e3
<1>19. Own(o) = {e1, e2, e3}
  BY <1>17, Elements DEF Own
<1>20. EntryOf(e3) = k
  BY <1>5, <1>18
<1>21. Fits(e1) /\ Fits(e2) /\ Fits(e3)
  BY <1>8, <1>18 DEF Fits, Arrivals, BalanceTypes, Weighs
<1>22. Modest(o)
  BY <1>18, <1>19, <1>21 DEF Modest, SponsorTypes, PoolTypes
<1>23. EntriesTold(o)
  <2>1. \A f \in Own(o) : Speaks(f) => f = e3
    BY <1>18, <1>19 DEF Speaks, Arrivals, Departures
  <2>2. Speaks(e3) /\ e3.type \notin Arrivals
    BY <1>18 DEF Speaks, Arrivals, Departures
  <2> QED
    BY <1>3, <1>12, <1>13, <1>16, <1>19, <1>20, <2>1, <2>2, EntriesFocus
<1>24. SignersAgree(o)
  <2>1. DOMAIN replica.signers = Accounts
    BY DEF Replicas
  <2>2. ASSUME NEW f \in Own(o), NEW a, NEW j
        PROVE  Signs(f, a, j) <=> f = e3 /\ a = source
    BY <1>18, <1>19 DEF Signs, Resets, Weighs
  <2>3. WeightOf(e3) = 0
    BY <1>18 DEF WeightOf, Weighs
  <2>4. Halfway(o).signers[source] = Nobody
    <3> DEFINE q == Halfway(o)
    <3>1. q \in Replicas
      BY <1>15, <1>22, FittingAll DEF Halfway, Modest, Own
    <3>2. q.signers[source] \in Weights
      BY <1>1, <3>1 DEF Replicas
    <3>3. ASSUME NEW j PROVE WeightIn(q.signers[source], j) = WeightIn(Nobody, j)
      <4>1. \A w : (\A f \in Own(o) : Signs(f, source, j) => WeightOf(f) = w)
                   => WeightIn(q.signers[source], j)
                      = IF \E f \in Own(o) : Signs(f, source, j) THEN w
                        ELSE WeightIn(replica.signers[source], j)
        BY <1>1, <1>15, <2>1, SignersTold DEF Halfway, Own
      <4> HIDE DEF q
      <4>2. \A f \in Own(o) : Signs(f, source, j) => WeightOf(f) = 0
        BY <2>2, <2>3
      <4>3. \E f \in Own(o) : Signs(f, source, j)
        BY <1>19, <2>2
      <4>4. WeightIn(q.signers[source], j) = 0
        BY <4>1, <4>2, <4>3
      <4> QED
        BY <4>4, NobodyWeighs
    <3> HIDE DEF q
    <3>4. q.signers[source] = Nobody
      BY <3>2, <3>3, NobodyWeighs, SameWeights
    <3> QED
      BY <3>4 DEF q
  <2>5. ASSUME NEW a \in Accounts, a # source PROVE Halfway(o).signers[a] = replica.signers[a]
    <3>1. \A f \in ToSet(OperationEffects(o)) : \A j : ~Signs(f, a, j)
      BY <2>2, <2>5 DEF Own
    <3> QED
      BY <1>15, <2>1, <3>1, SignersTold DEF Halfway
  <2>6. SignersIn(entries', source) = Nobody
    BY <1>3, <1>16 DEF SignersIn
  <2>7. \A a \in Accounts : a # source => SignersIn(entries', a) = SignersIn(entries, a)
    BY <1>3, <1>12, <1>15, FocusSigners
  <2> QED
    BY <1>1, <2>4, <2>5, <2>6, <2>7 DEF SignersAgree
<1>25. BalancesTold(o)
  <2> DEFINE q == Apply(Apply(replica, e1), e2)
  <2>1. replica.balance \in [Holders -> Int]
    BY DEF Replicas
  <2>2. \A h \in Holders : Delta(e3, h) = 0
    BY <1>18 DEF Delta
  <2>3. /\ Apply(replica, e1).balance \in [Holders -> Int]
        /\ \A h \in Holders : Apply(replica, e1).balance[h] = replica.balance[h] + Delta(e1, h)
    BY <1>18, <1>21, <2>1, BalanceStep
  <2>4. /\ q.balance \in [Holders -> Int]
        /\ \A h \in Holders : q.balance[h] = Apply(replica, e1).balance[h] + Delta(e2, h)
    BY <1>18, <1>21, <2>3, BalanceStep
  <2>5. Halfway(o) = Apply(q, e3)
    BY <1>17, Triple DEF Halfway
  <2> HIDE DEF q
  <2>6. \A h \in Holders : Halfway(o).balance[h] = q.balance[h] + Delta(e3, h)
    BY <1>18, <1>21, <2>4, <2>5, BalanceStep
  <2>7. \A h \in Holders : Halfway(o).balance[h] = replica.balance[h] + Delta(e1, h) + Delta(e2, h)
    BY <2>2, <2>3, <2>4, <2>6
  <2>8. \A h \in Holders : /\ Delta(e1, h) = IF h = << source, Native >> THEN -amount ELSE 0
                           /\ Delta(e2, h) = IF h = << dest, Native >> THEN amount ELSE 0
    BY <1>18 DEF Delta
  <2>9. \A h \in Holders : BalanceIn(entries, h) \in Int
    BY BalancesAreInts
  <2>10. BalanceIn(entries', << source, Native >>) = 0
    BY <1>4, <1>16 DEF BalanceIn
  <2>11. << source, Native >> # << dest, Native >>
    BY <1>2
  <2>12. ASSUME NEW h \in Holders, replica.balance[h] = BalanceIn(entries, h)
         PROVE  Halfway(o).balance[h] = BalanceIn(entries', h)
    <3>1. CASE h = << source, Native >>
      BY <1>8, <2>7, <2>8, <2>10, <2>11, <2>12, <3>1
    <3>2. CASE h # << source, Native >>
      <4>1. BalanceIn(entries', h) = BalanceIn(entries, h) + IF h = << dest, Native >> THEN amount ELSE 0
        BY <1>4, <1>12, <1>15, <3>2
      <4> QED
        BY <1>8, <2>7, <2>8, <2>9, <2>12, <3>2, <4>1
    <3> QED
      BY <3>1, <3>2
  <2> QED
    BY <2>12 DEF BalancesTold
<1>26. OneLine(after) /\ OwnPool(o, after)
  BY <1>12, FocusOneLine DEF OwnPool
<1>27. Outcome(o, after)
  BY <1>13, <1>22, <1>23, <1>24, <1>25, <1>26 DEF Outcome
<1> QED
  BY <1>27

\* An account's creation and its master key, with a payment in between.
LEMMA Founded ==
    ASSUME NEW r \in Replicas, NEW dest \in Accounts, NEW e1, NEW e2, NEW e3,
           Fits(e1), Fits(e2), Fits(e3), e1.address = dest, e1.type = "account_created",
           e2.type \notin SignerTypes, e3.address = dest, e3.type = "signer_created",
           e3.about = dest, e3.value = 1, Master(dest) \in Weights
    PROVE  LET q == Apply(Apply(Apply(r, e1), e2), e3)
           IN  /\ q.signers[dest] = Master(dest)
               /\ \A a \in Accounts : a # dest => q.signers[a] = r.signers[a]
<1> DEFINE q1 == Apply(r, e1)
           q2 == Apply(q1, e2)
           q3 == Apply(q2, e3)
<1>1. q1 \in Replicas
  BY Fitting
<1> HIDE DEF q1
<1>2. q2 \in Replicas
  BY <1>1, Fitting
<1> HIDE DEF q2
<1>3. q3 \in Replicas
  BY <1>2, Fitting
<1> HIDE DEF q3
<1>4. \A r0 \in Replicas : DOMAIN r0.signers = Accounts /\ \A a \in Accounts : r0.signers[a] \in Weights
  BY DEF Replicas
<1>5. \A a, k : /\ Signs(e1, a, k) <=> a = dest
                /\ ~Signs(e2, a, k)
                /\ Signs(e3, a, k) <=> a = dest /\ k = dest
  BY DEF Signs, SignerTypes, Resets, Weighs
<1>6. WeightOf(e1) = 0 /\ WeightOf(e3) = 1
  BY DEF WeightOf, Weighs
<1>7. ASSUME NEW k PROVE WeightIn(q1.signers[dest], k) = 0
  <2>1. dest \in DOMAIN r.signers
    BY <1>4
  <2>2. WeightIn(q1.signers[dest], k)
        = IF Signs(e1, dest, k) THEN WeightOf(e1) ELSE WeightIn(r.signers[dest], k)
    BY <2>1, SignersStep DEF q1
  <2> QED
    BY <1>5, <1>6, <2>2
<1>8. ASSUME NEW k PROVE WeightIn(q2.signers[dest], k) = 0
  BY <1>1, <1>4, <1>5, <1>7, SignersStep DEF q2
<1>9. ASSUME NEW k PROVE WeightIn(q3.signers[dest], k) = WeightIn(Master(dest), k)
  <2>1. WeightIn(q3.signers[dest], k) = IF k = dest THEN 1 ELSE 0
    <3>1. dest \in DOMAIN q2.signers
      BY <1>2, <1>4
    <3>2. WeightIn(q3.signers[dest], k)
          = IF Signs(e3, dest, k) THEN WeightOf(e3) ELSE WeightIn(q2.signers[dest], k)
      BY <3>1, SignersStep DEF q3
    <3> QED
      BY <1>5, <1>6, <1>8, <3>2
  <2>2. WeightIn(Master(dest), k) = IF k = dest THEN 1 ELSE 0
    BY DEF WeightIn, Master
  <2> QED
    BY <2>1, <2>2
<1>10. q3.signers[dest] = Master(dest)
  <2>1. q3.signers[dest] \in Weights
    BY <1>3, <1>4
  <2> QED
    BY <1>9, <2>1, SameWeights
<1>11. ASSUME NEW a \in Accounts, a # dest PROVE q3.signers[a] = r.signers[a]
  <2>1. q1.signers[a] = r.signers[a]
    BY <1>4, <1>5, <1>11, SignersStep DEF q1
  <2>2. q2.signers[a] = q1.signers[a]
    BY <1>1, <1>4, <1>5, SignersStep DEF q2
  <2>3. q3.signers[a] = q2.signers[a]
    BY <1>2, <1>4, <1>5, <1>11, SignersStep DEF q3
  <2> QED
    BY <2>1, <2>2, <2>3
<1> QED
  BY <1>10, <1>11 DEF q1, q2, q3

LEMMA MasterWeighs ==
    ASSUME NEW a \in Accounts
    PROVE  Master(a) \in Weights
<1> DEFINE f == Master(a)
<1>1. a \in ToSet(SignerOrder) /\ 1 \in 1 .. MaxWeight
  BY NamesAssumption, BoundsAssumption
<1>2. f = [k \in {a} |-> 1]
  BY DEF Master
<1> HIDE DEF f
<1>3. f = [k \in DOMAIN f |-> f[k]] /\ DOMAIN f \subseteq ToSet(SignerOrder)
      /\ \A k \in DOMAIN f : f[k] \in 1 .. MaxWeight
  BY <1>1, <1>2
<1>4. f \in Weights
  BY <1>3, WeightsAre
<1> QED
  BY <1>4 DEF f

LEMMA CreateAccountOutcome ==
    ASSUME Ledger, replica \in Replicas, NEW source \in Actors, NEW dest \in Users,
           NEW sponsor \in Backed, CreateAccount(source, dest, 1, sponsor)
    PROVE  \E o, after : Outcome(o, after)
<1>1. source \in Accounts \ {Backer} /\ dest \in Accounts \ {Backer} /\ dest # Root
  BY NamesAre DEF Actors
<1> DEFINE k  == AccountKey(dest)
           op == [Operation("create_account", source) EXCEPT !.dest = dest, !.amount = 1]
           e  == AccountEntry(1, Master(dest), sponsor)
<1>2. /\ ~Live(k) /\ Live(AccountKey(source))
      /\ Perform(op, With(Set(k, e), Moved(source, Native, -1)))
  BY DEF CreateAccount, CanPay, CanHold
<1>3. /\ k \in Keys /\ k.type = "account" /\ k # HeldKey /\ k # PoolKey
      /\ \A a : AccountKey(a) = k <=> a = dest
  <2>1. \A a : AccountKey(a).owner = a
    BY KeyTypes
  <2> QED
    BY <1>1, <2>1, KeysAre, KeyTypes
<1>4. /\ << dest, Native >> \in Holders /\ BalanceKey(dest, Native) = k
      /\ \A h \in Holders : BalanceKey(h[1], h[2]) = k <=> h = << dest, Native >>
  BY <1>1, NativeEntry
<1>5. \A f : f.type = "account_created" /\ f.address = dest => EntryOf(f) = k
  BY DEF EntryOf
<1>6. source # dest /\ Movable(source, Native) /\ k # BalanceKey(source, Native)
  <2>1. /\ << source, Native >> \in Holders /\ BalanceKey(source, Native) = AccountKey(source)
    BY <1>1, NativeEntry
  <2>2. source # dest /\ AccountKey(source) # k
    BY <1>2, <1>3
  <2> QED
    BY <1>2, <2>1, <2>2 DEF Movable
<1> HIDE DEF k
<1>7. sponsor \in MaybeSponsor
  BY NamesAre DEF Backed, MaybeSponsor, Sponsors
<1>8. /\ e \in [balance : Int, signers : Weights, sponsor : MaybeSponsor]
      /\ e.balance = 1 /\ e.signers = Master(dest)
  BY <1>1, <1>7, MasterWeighs DEF AccountEntry
<1> HIDE DEF e
<1>9. e \in EntryType(k) /\ e # NoEntry /\ Kept(k, e)
  BY <1>3, <1>8, EntriesAre DEF Kept
<1>10. PICK after : after = With(Set(k, e), Moved(source, Native, -1))
  OBVIOUS
<1>11. Perform(op, after)
  BY <1>2, <1>10
<1>12. /\ Bare(op) /\ op.kind = "create_account" /\ op.source = source /\ op.dest = dest
       /\ op.amount = 1
  BY Elements DEF Bare, Operation, Fields
<1> HIDE DEF op
<1>13. /\ Leaves(after) /\ Focus(after, k) /\ k \in DOMAIN after /\ after[k] = e
       /\ PoolKey \notin DOMAIN after
       /\ entries' = With(after, entries)
          => /\ entries'[k] = e
             /\ \A h \in Holders : BalanceKey(h[1], h[2]) # k =>
                   BalanceIn(entries', h)
                   = BalanceIn(entries, h) + IF h = << source, Native >> THEN -1 ELSE 0
  <2>1. k \in Keys /\ e \in EntryType(k) \cup {NoEntry} /\ -1 \in Int
    BY <1>3, <1>9
  <2>2. Kept(k, e)
    BY <1>9
  <2>3. IsIssuer(source, Native) \/ k # BalanceKey(source, Native)
    BY <1>6
  <2> QED
    BY <1>3, <1>6, <1>10, <2>1, <2>2, <2>3, SetAndMoved
<1>14. PICK o : Same(o, op) /\ Done(o, after)
  BY <1>11, <1>12, <1>13, Performed
<1>15. o.kind = "create_account" /\ o.source = source /\ o.dest = dest /\ o.amount = 1
  BY <1>12, <1>14 DEF Same
<1>16. entries' = With(after, entries) /\ IsSequence(OperationEffects(o)) /\ Step(after)
  BY <1>14, DoneStep
<1>17. entries'[k] = e
  BY <1>13, <1>16
<1> DEFINE e1 == Effect(dest, "account_created", Native, 1)
           e2 == Effect(source, "account_debited", Native, 1)
           e3 == Effect(dest, "signer_created", dest, 1)
<1>18. OperationEffects(o) = << e1, e2, e3 >>
  BY <1>15, Switch DEF CreateAccountEffects
<1>19. /\ e1.address = dest /\ e1.type = "account_created" /\ e1.about = Native /\ e1.value = 1
       /\ e2.address = source /\ e2.type = "account_debited" /\ e2.about = Native /\ e2.value = 1
       /\ e3.address = dest /\ e3.type = "signer_created" /\ e3.about = dest /\ e3.value = 1
  BY EffectIs
<1> HIDE DEF e1, e2, e3
<1>20. Own(o) = {e1, e2, e3}
  BY <1>18, Elements DEF Own
<1>21. EntryOf(e1) = k
  BY <1>5, <1>19
<1>22. Fits(e1) /\ Fits(e2) /\ Fits(e3)
  <2>1. dest \in ToSet(SignerOrder) /\ 1 \in 1 .. MaxWeight
    BY <1>1, NamesAssumption, BoundsAssumption
  <2>2. Fits(e1)
    BY <1>3, <1>19, <1>21 DEF Fits, Weighs
  <2>3. Fits(e2)
    BY <1>19 DEF Fits, Arrivals, Weighs
  <2>4. Fits(e3)
    BY <1>19, <2>1 DEF Fits, Arrivals, BalanceTypes
  <2> QED
    BY <2>2, <2>3, <2>4
<1>23. Modest(o)
  BY <1>19, <1>20, <1>22 DEF Modest, SponsorTypes, PoolTypes
<1>24. EntriesTold(o)
  <2>1. \A f \in Own(o) : Speaks(f) => f = e1
    BY <1>19, <1>20 DEF Speaks, Arrivals, Departures
  <2>2. Speaks(e1) /\ e1.type \in Arrivals
    BY <1>19 DEF Speaks, Arrivals, Departures
  <2> QED
    BY <1>3, <1>9, <1>13, <1>14, <1>17, <1>20, <1>21, <2>1, <2>2, EntriesFocus
<1>25. Halfway(o) = Apply(Apply(Apply(replica, e1), e2), e3)
  BY <1>18, Triple DEF Halfway
<1>26. SignersAgree(o)
  <2>1. e2.type \notin SignerTypes
    BY <1>19 DEF SignerTypes, Resets, Weighs
  <2>2. /\ Halfway(o).signers[dest] = Master(dest)
        /\ \A a \in Accounts : a # dest => Halfway(o).signers[a] = replica.signers[a]
    BY <1>1, <1>19, <1>22, <1>25, <2>1, Founded, MasterWeighs
  <2>3. SignersIn(entries', dest) = Master(dest)
    BY <1>3, <1>8, <1>9, <1>17 DEF SignersIn
  <2>4. \A a \in Accounts : a # dest => SignersIn(entries', a) = SignersIn(entries, a)
    BY <1>3, <1>13, <1>16, FocusSigners
  <2> QED
    BY <1>1, <2>2, <2>3, <2>4 DEF SignersAgree
<1>27. BalancesTold(o)
  <2> DEFINE q1 == Apply(replica, e1)
             q2 == Apply(q1, e2)
  <2>1. replica.balance \in [Holders -> Int]
    BY DEF Replicas
  <2>2. /\ q1.balance \in [Holders -> Int]
        /\ \A h \in Holders : q1.balance[h] = IF h = << dest, Native >> THEN 1 ELSE replica.balance[h]
    BY <1>19, <1>22, <2>1, BalanceStep
  <2> HIDE DEF q1
  <2>3. /\ q2.balance \in [Holders -> Int]
        /\ \A h \in Holders : q2.balance[h] = q1.balance[h] + Delta(e2, h)
    BY <1>19, <1>22, <2>2, BalanceStep
  <2> HIDE DEF q2
  <2>4. Halfway(o) = Apply(q2, e3)
    BY <1>25 DEF q1, q2
  <2>5. \A h \in Holders : Halfway(o).balance[h] = q2.balance[h] + Delta(e3, h)
    BY <1>19, <1>22, <2>3, <2>4, BalanceStep
  <2>6. \A h \in Holders : /\ Delta(e2, h) = IF h = << source, Native >> THEN -1 ELSE 0
                           /\ Delta(e3, h) = 0
    BY <1>19 DEF Delta
  <2>7. \A h \in Holders : BalanceIn(entries, h) \in Int
    BY BalancesAreInts
  <2>8. BalanceIn(entries', << dest, Native >>) = 1
    BY <1>4, <1>8, <1>9, <1>17 DEF BalanceIn
  <2>9. << source, Native >> # << dest, Native >>
    BY <1>6
  <2>10. ASSUME NEW h \in Holders, replica.balance[h] = BalanceIn(entries, h)
         PROVE  Halfway(o).balance[h] = BalanceIn(entries', h)
    <3>1. CASE h = << dest, Native >>
      BY <2>2, <2>3, <2>5, <2>6, <2>8, <2>9, <3>1
    <3>2. CASE h # << dest, Native >>
      <4>1. BalanceIn(entries', h) = BalanceIn(entries, h) + IF h = << source, Native >> THEN -1 ELSE 0
        BY <1>4, <1>13, <1>16, <3>2
      <4> QED
        BY <2>2, <2>3, <2>5, <2>6, <2>7, <2>10, <3>2, <4>1
    <3> QED
      BY <3>1, <3>2
  <2> QED
    BY <2>10 DEF BalancesTold
<1>28. OneLine(after) /\ OwnPool(o, after)
  BY <1>13, FocusOneLine DEF OwnPool
<1>29. Outcome(o, after)
  BY <1>14, <1>23, <1>24, <1>26, <1>27, <1>28 DEF Outcome
<1> QED
  BY <1>29

-----------------------------------------------------------------------------
(* That the copy keeps to the ledger.                                       *)

Inv ==
    /\ Ledger /\ replica \in Replicas
    /\ spent \subseteq Claimable
    /\ IsFiniteSet(unread) /\ Cardinality(unread) <= MaxUnread
    /\ ops \in 0 .. MaxOps
    /\ ReplayAccounts /\ ReplayEntries /\ ReplayBalances /\ ReplaySigners /\ ReplaySponsors

\* What was not needed before an operation, and not by the operation, is what
\* is not needed after it.
LEMMA ReadEnough ==
    ASSUME IsFiniteSet(unread), Cardinality(unread) <= MaxUnread, NEW o, NEW after, Done(o, after)
    PROVE  /\ IsFiniteSet(unread') /\ Cardinality(unread') <= MaxUnread
           /\ \A kinds : unread' \cap kinds = {} => unread \cap kinds = {} /\ Informed(o, kinds)
           /\ unread' = {} => unread = {} /\ Read(o, after)
<1>1. CASE Read(o, after) /\ Known(o) /\ unread' = unread
  BY <1>1 DEF Read, Informed
<1>2. CASE Marked(o)
  <2>1. unread' = unread \cup {o.kind} /\ Cardinality(unread) < MaxUnread
    BY <1>2 DEF Marked
  <2>2. IsFiniteSet(unread \cup {o.kind}) /\ Cardinality(unread) \in Nat
        /\ Cardinality(unread \cup {o.kind}) \in {Cardinality(unread), Cardinality(unread) + 1}
    BY FS_AddElement, FS_CardinalityType
  <2>3. MaxUnread \in Nat
    BY BoundsAssumption
  <2>4. IsFiniteSet(unread') /\ Cardinality(unread') <= MaxUnread
    BY <2>1, <2>2, <2>3
  <2>5. \A kinds : unread' \cap kinds = {} => unread \cap kinds = {} /\ Informed(o, kinds)
    BY <2>1 DEF Informed
  <2>6. unread' # {}
    BY <2>1
  <2> QED
    BY <2>4, <2>5, <2>6
<1> QED
  BY <1>1, <1>2 DEF Done

\* Effects that tell truly whether an entry exists carry over that it does.
LEMMA AliveFollows ==
    ASSUME NEW r, NEW s, IsSequence(s), NEW k, NEW old, NEW new,
           TellsOf(ToSet(s), k, old, new), k \in r.alive <=> old # NoEntry
    PROVE  k \in Consumed(r, s).alive <=> new # NoEntry
<1>1. CASE new # NoEntry
  <2>1. \A e \in ToSet(s) : ~Departs(e, k)
    BY <1>1 DEF TellsOf
  <2>2. k \in Consumed(r, s).alive <=> (\E e \in ToSet(s) : Arrives(e, k)) \/ k \in r.alive
    BY <2>1, AliveTold
  <2>3. old = NoEntry => \E e \in ToSet(s) : Arrives(e, k)
    BY <1>1 DEF TellsOf
  <2> QED
    BY <1>1, <2>2, <2>3
<1>2. CASE new = NoEntry
  <2>1. \A e \in ToSet(s) : ~Arrives(e, k)
    BY <1>2 DEF TellsOf
  <2>2. k \in Consumed(r, s).alive <=> (\A e \in ToSet(s) : ~Departs(e, k)) /\ k \in r.alive
    BY <2>1, AliveTold
  <2>3. old # NoEntry => \E e \in ToSet(s) : Departs(e, k)
    BY <1>2 DEF TellsOf
  <2> QED
    BY <1>2, <2>2, <2>3
<1> QED
  BY <1>1, <1>2

\* What every operation leaves of the shape of the copy.
LEMMA ShapeKept ==
    ASSUME Inv, NEW o, NEW after, Outcome(o, after)
    PROVE  /\ Ledger' /\ replica' \in Replicas /\ Halfway(o) \in Replicas
           /\ replica' = Consumed(Halfway(o), ChangeEffects(o))
           /\ replica'.balance = Halfway(o).balance /\ replica'.signers = Halfway(o).signers
           /\ \A k : k.type # "liquidity_pool" => (k \in replica'.alive <=> k \in Halfway(o).alive)
           /\ \A k \in Keys : entries'[k] = IF k \in DOMAIN after THEN after[k] ELSE entries[k]
           /\ ops' \in 0 .. MaxOps
           /\ IsSequence(OperationEffects(o)) /\ IsSequence(ChangeEffects(o)) /\ WellFormed(o)
           /\ DOMAIN after \subseteq Keys
<1>1. Done(o, after) /\ Ledger /\ replica \in Replicas
  BY DEF Outcome, Inv
<1>2. \A e \in ToSet(OperationEffects(o)) : Fits(e)
  BY DEF Outcome, Modest, Own
<1>3. Leaves(after) /\ entries' = With(after, entries) /\ IsSequence(OperationEffects(o))
  BY <1>1, DoneStep
<1>4. Ledger' /\ \A k \in Keys : entries'[k] = IF k \in DOMAIN after THEN after[k] ELSE entries[k]
  BY <1>1, <1>3, NextLedger
<1>5. ops' \in 0 .. MaxOps
  BY BoundsAssumption DEF Outcome, Done, Inv
<1>6. IsSequence(ChangeEffects(o)) /\ WellFormed(o)
  BY <1>1, OwnThenChanges DEF Done
<1>7. DOMAIN after \subseteq Keys
  BY <1>3 DEF Leaves
<1> QED
  BY <1>1, <1>2, <1>3, <1>4, <1>5, <1>6, <1>7, HalfwayThere

LEMMA AccountsKept ==
    ASSUME Inv, NEW o, NEW after, Outcome(o, after)
    PROVE  ReplayAccounts'
<1> SUFFICES ASSUME NEW a \in Accounts
             PROVE  AccountKey(a) \in replica'.alive <=> entries'[AccountKey(a)] # NoEntry
  BY DEF ReplayAccounts, Live
<1>1. PICK k : k = AccountKey(a)
  OBVIOUS
<1>2. k \in Keys /\ k.type = "account"
  BY <1>1, KeysAre, KeyTypes
<1>3. k \in replica.alive <=> entries[k] # NoEntry
  BY <1>1 DEF Inv, ReplayAccounts, Live
<1>4. Informed(o, NeededFor(k))
  BY <1>2 DEF Informed, NeededFor
<1>5. TellsOf(ToSet(OperationEffects(o)), k, entries[k], entries'[k])
  BY <1>2, <1>4 DEF Outcome, EntriesTold, Own
<1>6. IsSequence(OperationEffects(o)) /\ (k \in replica'.alive <=> k \in Halfway(o).alive)
  BY <1>2, ShapeKept
<1>7. k \in Halfway(o).alive <=> entries'[k] # NoEntry
  BY <1>3, <1>5, <1>6, AliveFollows DEF Halfway
<1> QED
  BY <1>1, <1>6, <1>7

LEMMA EntriesKept ==
    ASSUME Inv, NEW o, NEW after, Outcome(o, after)
    PROVE  ReplayEntries'
<1> SUFFICES ASSUME NEW k \in Keys,
                    k.type \in {"trustline", "data", "claimable_balance", "liquidity_pool"},
                    unread' \cap ChangesNeededFor(k.type) = {}
             PROVE  k \in replica'.alive <=> entries'[k] # NoEntry
  BY DEF ReplayEntries, Live
<1>1. unread \cap ChangesNeededFor(k.type) = {} /\ Informed(o, ChangesNeededFor(k.type))
  BY ReadEnough DEF Inv, Outcome
<1>2. k \in replica.alive <=> entries[k] # NoEntry
  BY <1>1 DEF Inv, ReplayEntries, Live
<1>3. IsSequence(OperationEffects(o)) /\ IsSequence(ChangeEffects(o))
      /\ replica' = Consumed(Halfway(o), ChangeEffects(o))
  BY ShapeKept
<1>4. CASE k.type # "liquidity_pool"
  <2>1. k \in replica'.alive <=> k \in Halfway(o).alive
    BY <1>4, ShapeKept
  <2>2. Informed(o, NeededFor(k))
    BY <1>1 DEF NeededFor
  <2>3. TellsOf(ToSet(OperationEffects(o)), k, entries[k], entries'[k])
    BY <1>4, <2>2 DEF Outcome, EntriesTold, Own
  <2>4. k \in Halfway(o).alive <=> entries'[k] # NoEntry
    BY <1>2, <1>3, <2>3, AliveFollows DEF Halfway
  <2> QED
    BY <2>1, <2>4
<1>5. CASE k.type = "liquidity_pool"
  <2>1. k = PoolKey
    BY <1>5, KeysAre
  <2>2. k \in Halfway(o).alive <=> entries[k] # NoEntry
    <3>1. \A e \in ToSet(OperationEffects(o)) : ~Arrives(e, k) /\ ~Departs(e, k)
      BY <1>5 DEF Outcome, EntriesTold, Own, Speaks, Arrives, Departs
    <3>2. TellsOf(ToSet(OperationEffects(o)), k, entries[k], entries[k])
      BY <3>1 DEF TellsOf
    <3> QED
      BY <1>2, <1>3, <3>2, AliveFollows DEF Halfway
  <2>3. Done(o, after) /\ (k \in DOMAIN after => Read(o, after))
    <3>1. k \in DOMAIN after => o.kind = "change_trust"
      BY <2>1 DEF Outcome, OwnPool
    <3>2. k \in DOMAIN after => o.readable
      BY <1>1, <1>5, <3>1 DEF Informed, ChangesNeededFor
    <3>3. Done(o, after) /\ (o.readable <=> Read(o, after))
      BY DoneStep DEF Inv, Outcome
    <3> QED
      BY <3>2, <3>3
  <2>4. entries'[k] = IF k \in DOMAIN after THEN after[k] ELSE entries[k]
    BY ShapeKept
  <2>5. ASSUME NEW e \in ToSet(ChangeEffects(o)), Arrives(e, k) \/ Departs(e, k)
        PROVE  k \in DOMAIN after /\ Lifecycle(e, k, entries[k], entries'[k])
    <3>1. Speaks(e) /\ EntryOf(e) = k
      BY <2>5 DEF Speaks, Arrives, Departs
    <3>2. PICK x \in DOMAIN after :
             \/ Sponsorship(e, x, Sponsor(entries[x]), Sponsor(after[x]))
             \/ Lifecycle(e, x, entries[x], after[x])
      BY <2>3, Added
    <3>3. Lifecycle(e, x, entries[x], after[x])
      BY <3>1, <3>2, NoSponsorshipElse DEF Speaks
    <3>4. x = k
      BY <3>1, <3>3, NoLifecycleElse
    <3> QED
      BY <2>4, <3>3, <3>4
  <2>6. TellsOf(ToSet(ChangeEffects(o)), k, entries[k], entries'[k])
    <3>1. \A e \in ToSet(ChangeEffects(o)) : Arrives(e, k) => entries'[k] # NoEntry
      BY <2>5, NoLifecycleElse DEF Arrives
    <3>2. \A e \in ToSet(ChangeEffects(o)) : Departs(e, k) => entries'[k] = NoEntry
      BY <2>5, NoLifecycleElse DEF Departs
    <3>3. ASSUME entries[k] = NoEntry <=> entries'[k] # NoEntry
          PROVE  \E e \in ToSet(ChangeEffects(o)) : Lifecycle(e, k, entries[k], entries'[k])
      <4>1. k \in DOMAIN after /\ entries'[k] = after[k]
        BY <2>4, <3>3
      <4> QED
        BY <1>5, <2>3, <3>3, <4>1, Added
    <3>4. \A e : Lifecycle(e, k, entries[k], entries'[k]) =>
                   /\ entries'[k] # NoEntry => Arrives(e, k)
                   /\ entries'[k] = NoEntry => Departs(e, k)
      BY NoLifecycleElse DEF Arrives, Departs
    <3> QED
      BY <3>1, <3>2, <3>3, <3>4 DEF TellsOf
  <2> QED
    BY <1>3, <2>2, <2>6, AliveFollows
<1> QED
  BY <1>4, <1>5

LEMMA BalancesKept ==
    ASSUME Inv, NEW o, NEW after, Outcome(o, after)
    PROVE  ReplayBalances'
<1> SUFFICES ASSUME unread' \cap BalanceKinds = {}
             PROVE  \A h \in Holders : replica'.balance[h] = BalanceIn(entries', h)
  BY DEF ReplayBalances, BalanceKinds, BalanceOf, BalanceIn, Live
<1>1. unread \cap BalanceKinds = {} /\ Informed(o, BalanceKinds)
  BY ReadEnough DEF Inv, Outcome
<1>2. \A h \in Holders : replica.balance[h] = BalanceIn(entries, h)
  BY <1>1 DEF Inv, ReplayBalances, BalanceKinds, BalanceOf, BalanceIn, Live
<1>3. \A h \in Holders : Halfway(o).balance[h] = BalanceIn(entries', h)
  BY <1>1, <1>2 DEF Outcome, BalancesTold
<1> QED
  BY <1>3, ShapeKept

LEMMA SignersKept ==
    ASSUME Inv, NEW o, NEW after, Outcome(o, after)
    PROVE  ReplaySigners'
<1> SUFFICES ASSUME "set_options" \notin unread'
             PROVE  \A a \in Accounts : replica'.signers[a] = SignersIn(entries', a)
  BY DEF ReplaySigners, SignersIn, Live
<1>1. "set_options" \notin unread /\ Informed(o, {"set_options"})
  <2>1. unread' \cap {"set_options"} = {}
    OBVIOUS
  <2>2. unread \cap {"set_options"} = {} /\ Informed(o, {"set_options"})
    BY <2>1, ReadEnough DEF Inv, Outcome
  <2> QED
    BY <2>2
<1>2. \A a \in Accounts : replica.signers[a] = SignersIn(entries, a)
  BY <1>1 DEF Inv, ReplaySigners, SignersIn, Live
<1>3. \A a \in Accounts : Halfway(o).signers[a] = SignersIn(entries', a)
  BY <1>1, <1>2 DEF Outcome, SignersAgree
<1> QED
  BY <1>3, ShapeKept

\* Whose sponsor the effects tell of.
LEMMA SubjectIs ==
    ASSUME NEW x \in TheSponsored
    PROVE  LET k == Key(x[1], x[2], x[2])
           IN  /\ k \in Keys /\ k.type \in SponsoredTypes
               /\ \A j \in Keys : SubjectOf(j) = x <=> j = k
<1> DEFINE k == Key(x[1], x[2], x[2])
<1>1. \/ x[1] = "account" /\ x[2] \in Accounts /\ x = << "account", x[2] >>
      \/ x[1] = "claimable_balance" /\ x[2] \in Claimable /\ x = << "claimable_balance", x[2] >>
  BY DEF TheSponsored
<1>2. k.type = x[1] /\ k.id = x[2]
  BY KeyFields
<1>3. /\ x[1] = "account" => k = AccountKey(x[2])
      /\ x[1] = "claimable_balance" => k = ClaimableKey(x[2])
  BY DEF AccountKey, ClaimableKey
<1> HIDE DEF k
<1>4. k \in Keys /\ k.type \in SponsoredTypes
  BY <1>1, <1>2, <1>3, KeysAre DEF SponsoredTypes
<1>5. SubjectOf(k) = x
  BY <1>1, <1>2 DEF SubjectOf
<1>6. ASSUME NEW j \in Keys, SubjectOf(j) = x PROVE j = k
  <2>1. j.type = x[1] /\ (j.type # "trustline" => j.id = x[2])
    BY <1>6 DEF SubjectOf
  <2>2. CASE x[1] = "account"
    <3>1. j = AccountKey(j.owner) /\ j.id = j.owner
      BY <2>1, <2>2, KeysAre
    <3>2. j.id = x[2]
      BY <2>1, <2>2
    <3> QED
      BY <1>3, <2>2, <3>1, <3>2
  <2>3. CASE x[1] = "claimable_balance"
    <3>1. j = ClaimableKey(j.id)
      BY <2>1, <2>3, KeysAre
    <3>2. j.id = x[2]
      BY <2>1, <2>3
    <3> QED
      BY <1>3, <2>3, <3>1, <3>2
  <2> QED
    BY <1>1, <2>2, <2>3
<1> QED
  BY <1>4, <1>5, <1>6 DEF k

LEMMA OneSponsorKept ==
    ASSUME Inv, NEW o, NEW after, Outcome(o, after), Read(o, after), NEW x \in TheSponsored,
           NEW k, k = Key(x[1], x[2], x[2]), replica.sponsor[x] = Sponsor(entries[k])
    PROVE  replica'.sponsor[x] = Sponsor(entries'[k])
<1>1. k \in Keys /\ k.type \in SponsoredTypes /\ \A j \in Keys : SubjectOf(j) = x <=> j = k
  BY SubjectIs
<1>2. /\ IsSequence(OperationEffects(o)) /\ IsSequence(ChangeEffects(o))
      /\ replica' = Consumed(Halfway(o), ChangeEffects(o)) /\ Halfway(o) \in Replicas
      /\ DOMAIN after \subseteq Keys
      /\ entries'[k] = IF k \in DOMAIN after THEN after[k] ELSE entries[k]
  BY <1>1, ShapeKept
<1>3. x \in DOMAIN replica.sponsor /\ x \in DOMAIN Halfway(o).sponsor
  BY <1>2 DEF Inv, Replicas
<1>4. Halfway(o).sponsor[x] = Sponsor(entries[k])
  <2>1. \A e \in ToSet(OperationEffects(o)) : ~Names(e, x)
    BY DEF Outcome, Modest, Own, Names
  <2>2. \A w : (\A e \in ToSet(OperationEffects(o)) : Names(e, x) => SponsorOf(e) = w)
               => Consumed(replica, OperationEffects(o)).sponsor[x]
                  = IF \E e \in ToSet(OperationEffects(o)) : Names(e, x) THEN w
                    ELSE replica.sponsor[x]
    BY <1>2, <1>3, SponsorsTold
  <2> QED
    BY <2>1, <2>2 DEF Halfway
<1>5. ASSUME NEW e \in ToSet(ChangeEffects(o)), Names(e, x)
      PROVE  k \in DOMAIN after /\ SponsorOf(e) = Sponsor(after[k])
  <2>1. Done(o, after)
    BY DEF Outcome
  <2>2. PICK j \in DOMAIN after :
           \/ Sponsorship(e, j, Sponsor(entries[j]), Sponsor(after[j]))
           \/ Lifecycle(e, j, entries[j], after[j])
    BY <2>1, Added
  <2>3. Sponsorship(e, j, Sponsor(entries[j]), Sponsor(after[j]))
    BY <1>5, <2>2, NoLifecycleElse DEF Names
  <2>4. SubjectOf(j) = x /\ SponsorOf(e) = Sponsor(after[j])
    BY <1>5, <2>3 DEF Names, Sponsorship
  <2>5. j = k
    BY <1>1, <1>2, <2>4
  <2> QED
    BY <2>4, <2>5
<1>6. ASSUME k \in DOMAIN after, Sponsor(entries[k]) # Sponsor(after[k])
      PROVE  \E e \in ToSet(ChangeEffects(o)) : Names(e, x)
  <2>1. Done(o, after)
    BY DEF Outcome
  <2>2. PICK e \in ToSet(ChangeEffects(o)) :
           Sponsorship(e, k, Sponsor(entries[k]), Sponsor(after[k]))
    BY <1>1, <1>6, <2>1, Added
  <2>3. e.type \in SponsorTypes
    BY <2>2, NoSponsorshipElse
  <2>4. e.about = x
    BY <1>1, <2>2 DEF Sponsorship
  <2> QED
    BY <2>3, <2>4 DEF Names
<1>7. Consumed(Halfway(o), ChangeEffects(o)).sponsor[x]
      = IF \E e \in ToSet(ChangeEffects(o)) : Names(e, x) THEN Sponsor(after[k])
        ELSE Halfway(o).sponsor[x]
  <2>1. \A w : (\A e \in ToSet(ChangeEffects(o)) : Names(e, x) => SponsorOf(e) = w)
               => Consumed(Halfway(o), ChangeEffects(o)).sponsor[x]
                  = IF \E e \in ToSet(ChangeEffects(o)) : Names(e, x) THEN w
                    ELSE Halfway(o).sponsor[x]
    BY <1>2, <1>3, SponsorsTold
  <2> QED
    BY <1>5, <2>1
<1>8. Consumed(Halfway(o), ChangeEffects(o)).sponsor[x] = Sponsor(entries'[k])
  BY <1>2, <1>4, <1>5, <1>6, <1>7
<1> QED
  BY <1>2, <1>8

\* How many of an account's trustlines are sponsored: at most the credit one.
Shared(E, a) == {k \in {LineKey(a, Credit), LineKey(a, PoolShare)} : Sponsor(E[k]) # NoSponsor}

LEMMA SharedAre ==
    ASSUME NEW E, NEW a, Sponsor(E[LineKey(a, PoolShare)]) = NoSponsor
    PROVE  Cardinality(Shared(E, a)) = IF Sponsor(E[LineKey(a, Credit)]) = NoSponsor THEN 0 ELSE 1
<1> DEFINE line == LineKey(a, Credit)
<1>1. CASE Sponsor(E[line]) = NoSponsor
  <2>1. Shared(E, a) = {}
    BY <1>1 DEF Shared
  <2> QED
    BY <1>1, <2>1, FS_EmptySet
<1>2. CASE Sponsor(E[line]) # NoSponsor
  <2>1. Shared(E, a) = {line}
    BY <1>2 DEF Shared
  <2> HIDE DEF line
  <2>2. Cardinality({line}) = 1
    BY FS_Singleton
  <2> QED
    BY <1>2, <2>1, <2>2 DEF line
<1> QED
  BY <1>1, <1>2

LEMMA OneCountKept ==
    ASSUME Inv, NEW o, NEW after, Outcome(o, after), Read(o, after), NEW a \in Users,
           replica.lines[a] = Cardinality(Shared(entries, a))
    PROVE  replica'.lines[a] = Cardinality(Shared(entries', a))
<1> DEFINE line  == LineKey(a, Credit)
           share == LineKey(a, PoolShare)
<1>1. /\ line \in Keys /\ line.type = "trustline" /\ line.owner = a /\ line.id = Credit
      /\ share \in Keys /\ share.type = "trustline" /\ share.id = PoolShare
  BY KeysAre, KeyTypes
<1>2. \A k \in Keys : k.type = "trustline" /\ k.owner = a => k = line \/ k = share
  BY KeysAre
<1>3. \A k \in Keys : entries'[k] = IF k \in DOMAIN after THEN after[k] ELSE entries[k]
  BY ShapeKept
<1>4. Sponsor(entries[share]) = NoSponsor /\ Sponsor(entries'[share]) = NoSponsor
  <2>1. Kept(share, entries[share])
    BY <1>1 DEF Inv, Ledger
  <2>2. Kept(share, entries'[share])
    BY <1>1, ShapeKept DEF Ledger
  <2> QED
    BY <1>1, <2>1, <2>2 DEF Kept
<1>5. /\ replica.lines[a] = IF Sponsor(entries[line]) = NoSponsor THEN 0 ELSE 1
      /\ Cardinality(Shared(entries', a)) = IF Sponsor(entries'[line]) = NoSponsor THEN 0 ELSE 1
  BY <1>4, SharedAre
<1> HIDE DEF line, share
<1>6. /\ IsSequence(OperationEffects(o)) /\ IsSequence(ChangeEffects(o)) /\ WellFormed(o)
      /\ replica' = Consumed(Halfway(o), ChangeEffects(o)) /\ Halfway(o) \in Replicas
      /\ DOMAIN after \subseteq Keys
  BY ShapeKept
<1>7. Halfway(o).lines = replica.lines /\ Halfway(o).lines \in [Users -> Int]
  <2>1. \A e \in ToSet(OperationEffects(o)) : ~Counts(e)
    BY DEF Outcome, Modest, Own, Counts, SponsorTypes
  <2>2. Halfway(o).lines = replica.lines
    BY <1>6, <2>1, Untouched DEF Halfway
  <2> QED
    BY <1>6, <2>2 DEF Replicas
<1>8. PICK k0 : \A k \in DOMAIN after :
                   k # k0 /\ k.type = "trustline" => Sponsor(after[k]) = Sponsor(entries[k])
  BY DEF Outcome, OneLine
<1>9. ASSUME NEW m \in 1 .. Len(o.changes)
      PROVE  /\ o.changes[m].key \in DOMAIN after
             /\ o.changes[m].pre = entries[o.changes[m].key]
             /\ o.changes[m].post = after[o.changes[m].key]
             /\ o.changes[m] = [key |-> o.changes[m].key, pre |-> entries[o.changes[m].key],
                                post |-> after[o.changes[m].key]]
  <2>1. o.changes[m] \in ToSet(o.changes)
    <3>1. DOMAIN o.changes = 1 .. Len(o.changes)
      BY OwnElements DEF Read, IsSequence
    <3> QED
      BY <3>1 DEF ToSet
  <2>2. o.changes[m] \in ChangesOf(after)
    BY <2>1 DEF Read
  <2> QED
    BY <2>2 DEF ChangesOf
<1>10. ASSUME NEW k \in DOMAIN after
       PROVE  \E m \in 1 .. Len(o.changes) : o.changes[m].key = k
  <2> DEFINE c == [key |-> k, pre |-> entries[k], post |-> after[k]]
  <2>1. c \in ToSet(o.changes) /\ c.key = k
    BY DEF Read, ChangesOf
  <2> HIDE DEF c
  <2>2. DOMAIN o.changes = 1 .. Len(o.changes)
    BY OwnElements DEF Read, IsSequence
  <2> QED
    BY <2>1, <2>2 DEF ToSet
<1>11. PICK m0 : /\ m0 \in 1 .. Len(o.changes) => o.changes[m0].key = k0
                 /\ k0 \in DOMAIN after => m0 \in 1 .. Len(o.changes)
                 /\ \A m \in 1 .. Len(o.changes) : m # m0 => o.changes[m].key # k0
  <2>1. CASE \E m \in 1 .. Len(o.changes) : o.changes[m].key = k0
    <3>1. PICK m0 \in 1 .. Len(o.changes) : o.changes[m0].key = k0
      BY <2>1
    <3>2. ASSUME NEW m \in 1 .. Len(o.changes), m # m0 PROVE o.changes[m].key # k0
      <4>1. o.changes[m] # o.changes[m0]
        BY <3>2 DEF Read
      <4> QED
        BY <1>9, <3>1, <4>1
    <3> QED
      BY <3>1, <3>2
  <2>2. CASE \A m \in 1 .. Len(o.changes) : o.changes[m].key # k0
    <3>1. k0 \notin DOMAIN after
      BY <1>10, <2>2
    <3>2. 0 \notin 1 .. Len(o.changes)
      OBVIOUS
    <3> QED
      BY <2>2, <3>1, <3>2
  <2> QED
    BY <2>1, <2>2
<1>12. \A m \in 1 .. Len(o.changes) : m # m0 => LineDelta(o.changes[m], a) = 0
  BY <1>8, <1>9, <1>11 DEF LineDelta
<1>13. replica'.lines[a] = IF m0 \in 1 .. Len(o.changes)
                           THEN replica.lines[a] + LineDelta(o.changes[m0], a)
                           ELSE replica.lines[a]
  <2>1. Consumed(Halfway(o), ChangeEffects(o)).lines[a]
        = IF m0 \in 1 .. Len(o.changes) THEN Halfway(o).lines[a] + LineDelta(o.changes[m0], a)
          ELSE Halfway(o).lines[a]
    BY <1>6, <1>7, <1>12, LinesTold
  <2> QED
    BY <1>6, <1>7, <2>1
<1>14. CASE line \in DOMAIN after /\ line = k0
  <2>1. m0 \in 1 .. Len(o.changes)
    BY <1>11, <1>14
  <2> DEFINE c == o.changes[m0]
  <2>2. c.key = line /\ c.pre = entries[line] /\ c.post = entries'[line]
    BY <1>1, <1>3, <1>9, <1>11, <1>14, <2>1
  <2> HIDE DEF c
  <2>3. LineDelta(c, a) = IF Sponsor(entries[line]) = NoSponsor /\ Sponsor(entries'[line]) # NoSponsor THEN 1
                          ELSE IF Sponsor(entries[line]) # NoSponsor /\ Sponsor(entries'[line]) = NoSponsor
                          THEN -1 ELSE 0
    BY <1>1, <2>2 DEF LineDelta
  <2>4. replica'.lines[a] = replica.lines[a] + LineDelta(c, a)
    BY <1>13, <2>1 DEF c
  <2> QED
    BY <1>5, <2>3, <2>4
<1>15. CASE ~(line \in DOMAIN after /\ line = k0)
  <2>1. Sponsor(entries'[line]) = Sponsor(entries[line])
    BY <1>1, <1>3, <1>8, <1>15
  <2>2. ASSUME m0 \in 1 .. Len(o.changes) PROVE LineDelta(o.changes[m0], a) = 0
    <3> DEFINE c == o.changes[m0]
    <3>1. c.key = k0 /\ k0 \in DOMAIN after /\ k0 \in Keys /\ c.pre = entries[k0] /\ c.post = entries'[k0]
      BY <1>3, <1>6, <1>9, <1>11, <2>2
    <3> HIDE DEF c
    <3>2. k0 # line
      BY <1>15, <3>1
    <3>3. k0.type = "trustline" /\ k0.owner = a => k0 = share
      BY <1>2, <3>1, <3>2
    <3>4. LineDelta(c, a) = 0
      BY <1>4, <3>1, <3>3 DEF LineDelta
    <3> QED
      BY <3>4 DEF c
  <2> QED
    BY <1>5, <1>13, <2>1, <2>2
<1> QED
  BY <1>14, <1>15

LEMMA SponsorsKept ==
    ASSUME Inv, NEW o, NEW after, Outcome(o, after)
    PROVE  ReplaySponsors'
<1> SUFFICES ASSUME unread' = {}
             PROVE  /\ \A x \in TheSponsored :
                          replica'.sponsor[x] = Sponsor(entries'[Key(x[1], x[2], x[2])])
                    /\ \A a \in Users : replica'.lines[a] = Cardinality(Shared(entries', a))
  BY DEF ReplaySponsors, Shared
<1>1. unread = {} /\ Read(o, after)
  BY ReadEnough DEF Inv, Outcome
<1>2. /\ \A x \in TheSponsored : replica.sponsor[x] = Sponsor(entries[Key(x[1], x[2], x[2])])
      /\ \A a \in Users : replica.lines[a] = Cardinality(Shared(entries, a))
  BY <1>1 DEF Inv, ReplaySponsors, Shared
<1>3. ASSUME NEW x \in TheSponsored
      PROVE  replica'.sponsor[x] = Sponsor(entries'[Key(x[1], x[2], x[2])])
  <2>1. PICK k : k = Key(x[1], x[2], x[2])
    OBVIOUS
  <2>2. replica.sponsor[x] = Sponsor(entries[k])
    BY <1>2, <2>1
  <2> QED
    BY <1>1, <2>1, <2>2, OneSponsorKept
<1>4. \A a \in Users : replica'.lines[a] = Cardinality(Shared(entries', a))
  BY <1>1, <1>2, OneCountKept
<1> QED
  BY <1>3, <1>4

LEMMA OutcomeKeeps ==
    ASSUME Inv, NEW o, NEW after, Outcome(o, after), spent' \subseteq Claimable
    PROVE  Inv'
<1>1. Ledger' /\ replica' \in Replicas /\ ops' \in 0 .. MaxOps
  BY ShapeKept
<1>2. IsFiniteSet(unread') /\ Cardinality(unread') <= MaxUnread
  BY ReadEnough DEF Inv, Outcome
<1>3. ReplayAccounts'
  BY AccountsKept
<1>4. ReplayEntries'
  BY EntriesKept
<1>5. ReplayBalances'
  BY BalancesKept
<1>6. ReplaySigners'
  BY SignersKept
<1>7. ReplaySponsors'
  BY SponsorsKept
<1> QED
  BY <1>1, <1>2, <1>3, <1>4, <1>5, <1>6, <1>7 DEF Inv

LEMMA InvNext ==
    ASSUME Inv, [Next]_vars
    PROVE  Inv'
<1>1. Ledger /\ replica \in Replicas /\ spent \subseteq Claimable
  BY DEF Inv
<1>2. ASSUME UNCHANGED vars PROVE Inv'
  BY <1>2 DEF vars, Inv, Ledger, Typed, ReplayAccounts, ReplayEntries, ReplayBalances, ReplaySigners,
              ReplaySponsors, Live, BalanceOf
<1>3. ASSUME \E o, after : Outcome(o, after), spent' \subseteq Claimable PROVE Inv'
  BY <1>3, OutcomeKeeps
<1>4. ASSUME NEW source \in Actors, NEW dest \in Users, NEW sponsor \in Backed,
             CreateAccount(source, dest, 1, sponsor)
      PROVE  Inv'
  <2>1. \E o, after : Outcome(o, after)
    BY <1>1, <1>4, CreateAccountOutcome
  <2> QED
    BY <1>1, <1>3, <1>4, <2>1 DEF CreateAccount
<1>5. ASSUME NEW source \in Actors, NEW dest \in Actors, NEW asset \in {Native, Credit},
             Payment(source, dest, asset, 1)
      PROVE  Inv'
  <2>1. \E o, after : Outcome(o, after)
    BY <1>1, <1>5, PaymentOutcome
  <2> QED
    BY <1>1, <1>3, <1>5, <2>1 DEF Payment
<1>6. ASSUME NEW source \in Actors, NEW from \in Actors \cup {Contract},
             NEW to \in Actors \cup {Contract}, ContractTransfer(source, from, to, 1)
      PROVE  Inv'
  <2>1. \E o, after : Outcome(o, after)
    BY <1>1, <1>6, ContractTransferOutcome
  <2> QED
    BY <1>1, <1>3, <1>6, <2>1 DEF ContractTransfer
<1>7. ASSUME NEW a \in Users, NEW weight \in 0 .. MaxWeight, NEW k \in {a, Extra},
             SetSigner(a, k, weight)
      PROVE  Inv'
  <2>1. \E o, after : Outcome(o, after)
    BY <1>1, <1>7, SetSignerOutcome
  <2> QED
    BY <1>1, <1>3, <1>7, <2>1 DEF SetSigner
<1>8. ASSUME NEW source \in Users, NEW dest \in Actors, Merge(source, dest) PROVE Inv'
  <2>1. \E o, after : Outcome(o, after)
    BY <1>1, <1>8, MergeOutcome
  <2> QED
    BY <1>1, <1>3, <1>8, <2>1 DEF Merge
<1>9. ASSUME NEW a \in Users, NEW sponsor \in Backed, ChangeTrust(a, sponsor) PROVE Inv'
  <2>1. \E o, after : Outcome(o, after)
    BY <1>1, <1>9, ChangeTrustOutcome
  <2> QED
    BY <1>1, <1>3, <1>9, <2>1 DEF ChangeTrust
<1>10. ASSUME NEW a \in Users, ChangePoolTrust(a) PROVE Inv'
  <2>1. \E o, after : Outcome(o, after)
    BY <1>1, <1>10, ChangePoolTrustOutcome
  <2> QED
    BY <1>1, <1>3, <1>10, <2>1 DEF ChangePoolTrust
<1>11. ASSUME NEW a \in Users, NEW sponsor \in Backed, ManageData(a, sponsor) PROVE Inv'
  <2>1. \E o, after : Outcome(o, after)
    BY <1>1, <1>11, ManageDataOutcome
  <2> QED
    BY <1>1, <1>3, <1>11, <2>1 DEF ManageData
<1>12. ASSUME NEW source \in Actors, NEW b \in Claimable, NEW asset \in {Native, Credit},
              NEW sponsor \in Sponsors, CreateClaimable(source, b, asset, 1, sponsor)
       PROVE  Inv'
  <2>1. \E o, after : Outcome(o, after)
    BY <1>1, <1>12, CreateClaimableOutcome
  <2> QED
    BY <1>1, <1>3, <1>12, <2>1 DEF CreateClaimable
<1>13. ASSUME NEW source \in Actors, NEW b \in Claimable, Claim(source, b) PROVE Inv'
  <2>1. \E o, after : Outcome(o, after)
    BY <1>1, <1>13, ClaimOutcome
  <2> QED
    BY <1>1, <1>3, <1>13, <2>1 DEF Claim
<1>14. ASSUME NEW b \in Claimable, ClawbackClaimable(b) PROVE Inv'
  <2>1. \E o, after : Outcome(o, after)
    BY <1>1, <1>14, ClawbackClaimableOutcome
  <2> QED
    BY <1>1, <1>3, <1>14, <2>1 DEF ClawbackClaimable
<1>15. ASSUME NEW from \in Users, Clawback(from, 1) PROVE Inv'
  <2>1. \E o, after : Outcome(o, after)
    BY <1>1, <1>15, ClawbackOutcome
  <2> QED
    BY <1>1, <1>3, <1>15, <2>1 DEF Clawback
<1>16. ASSUME NEW k \in Keys, NEW sponsor \in Sponsors \cup {NoSponsor}, RevokeSponsorship(k, sponsor)
       PROVE  Inv'
  <2>1. \E o, after : Outcome(o, after)
    BY <1>1, <1>16, RevokeOutcome
  <2> QED
    BY <1>1, <1>3, <1>16, <2>1 DEF RevokeSponsorship
<1> QED
  BY <1>2, <1>4, <1>5, <1>6, <1>7, <1>8, <1>9, <1>10, <1>11, <1>12, <1>13, <1>14, <1>15, <1>16 DEF Next

-----------------------------------------------------------------------------
(* The start.                                                               *)

LEMMA StartLedger ==
    ASSUME NEW users \in Starts, entries = StartEntries(users)
    PROVE  Ledger
<1>1. users \subseteq Users /\ Supply \in Int
  BY BoundsAssumption
<1>2. DOMAIN entries = Keys
  BY DEF StartEntries
<1>3. Root \in Accounts /\ Backer \in Accounts /\ Backer \in MaybeSponsor /\ NoSponsor \in MaybeSponsor
  BY NamesAre DEF MaybeSponsor, Sponsors
<1>4. ASSUME NEW k \in Keys
      PROVE  entries[k] \in EntryType(k) \cup {NoEntry} /\ Kept(k, entries[k])
  <2>1. CASE k = AccountKey(Root)
    <3>1. entries[k] = AccountEntry(Supply, Master(Root), NoSponsor)
      BY <2>1 DEF StartEntries
    <3>2. AccountEntry(Supply, Master(Root), NoSponsor)
          \in [balance : Int, signers : Weights, sponsor : MaybeSponsor]
      BY <1>1, <1>3, MasterWeighs DEF AccountEntry
    <3>3. k.type = "account"
      BY <2>1, KeyTypes
    <3>4. entries[k] \in EntryType(k) /\ entries[k] # NoEntry
      BY <3>1, <3>2, <3>3, EntriesAre
    <3> QED
      BY <3>3, <3>4 DEF Kept
  <2>2. CASE k # AccountKey(Root) /\ k = AccountKey(Backer)
    <3>1. entries[k] = AccountEntry(0, Master(Backer), NoSponsor)
      BY <2>2 DEF StartEntries
    <3>2. AccountEntry(0, Master(Backer), NoSponsor)
          \in [balance : Int, signers : Weights, sponsor : MaybeSponsor]
      BY <1>3, MasterWeighs DEF AccountEntry
    <3>3. k.type = "account"
      BY <2>2, KeyTypes
    <3>4. entries[k] \in EntryType(k) /\ entries[k] # NoEntry
      BY <3>1, <3>2, <3>3, EntriesAre
    <3> QED
      BY <3>3, <3>4 DEF Kept
  <2>3. CASE k = HeldKey
    <3>1. k # AccountKey(Root) /\ k # AccountKey(Backer) /\ k.type # "trustline"
      BY <2>3, KeyTypes
    <3>2. entries[k] = [balance |-> 0, sponsor |-> NoSponsor]
      BY <2>3, <3>1 DEF StartEntries
    <3>3. [balance |-> 0, sponsor |-> NoSponsor] \in [balance : Int, sponsor : {NoSponsor}]
      OBVIOUS
    <3>4. entries[k] \in EntryType(k) /\ entries[k] # NoEntry
      BY <2>3, <3>2, <3>3, EntriesAre
    <3> QED
      BY <3>1, <3>4 DEF Kept
  <2>4. CASE /\ k # AccountKey(Root) /\ k # AccountKey(Backer) /\ k # HeldKey
             /\ k.type = "account" /\ k.owner \in users
    <3> DEFINE f == With(Master(k.owner), Set(Extra, 1))
    <3>1. entries[k] = AccountEntry(1, f, Backer)
      BY <2>4 DEF StartEntries
    <3>2. f \in Weights
      <4>1. k.owner \in ToSet(SignerOrder) /\ Extra \in ToSet(SignerOrder) /\ 1 \in 1 .. MaxWeight
        BY <1>1, <2>4, NamesAre, NamesAssumption, BoundsAssumption
      <4>2. f = [s \in {k.owner} \cup {Extra} |-> 1]
        BY DEF With, Master, Set
      <4> HIDE DEF f
      <4>3. f = [s \in DOMAIN f |-> f[s]] /\ DOMAIN f \subseteq ToSet(SignerOrder)
            /\ \A s \in DOMAIN f : f[s] \in 1 .. MaxWeight
        BY <4>1, <4>2
      <4> QED
        BY <4>3, WeightsAre
    <3> HIDE DEF f
    <3>3. AccountEntry(1, f, Backer) \in [balance : Int, signers : Weights, sponsor : MaybeSponsor]
      BY <1>3, <3>2 DEF AccountEntry
    <3>4. entries[k] \in EntryType(k) /\ entries[k] # NoEntry
      BY <2>4, <3>1, <3>3, EntriesAre
    <3> QED
      BY <2>4, <3>4 DEF Kept
  <2>5. CASE /\ k # AccountKey(Root) /\ k # AccountKey(Backer) /\ k # HeldKey
             /\ ~(k.type = "account" /\ k.owner \in users)
             /\ k.type = "trustline" /\ k.owner \in users /\ k.id = Credit
    <3>1. entries[k] = [LineEntry(Backer) EXCEPT !.balance = 1]
      BY <2>5 DEF StartEntries
    <3>2. [LineEntry(Backer) EXCEPT !.balance = 1]
          \in [balance : Int, uses : Int, limit : Int, sponsor : MaybeSponsor]
      BY <1>3 DEF LineEntry
    <3>3. entries[k] \in EntryType(k) /\ entries[k] # NoEntry
      BY <2>5, <3>1, <3>2, EntriesAre
    <3>4. k.id # PoolShare
      BY <2>5, NamesAre
    <3> QED
      BY <3>3, <3>4 DEF Kept
  <2>6. CASE /\ k # AccountKey(Root) /\ k # AccountKey(Backer) /\ k # HeldKey
             /\ ~(k.type = "account" /\ k.owner \in users)
             /\ ~(k.type = "trustline" /\ k.owner \in users /\ k.id = Credit)
    <3>1. entries[k] = NoEntry
      BY <2>6 DEF StartEntries
    <3> QED
      BY <2>6, <3>1 DEF Kept, Sponsor
  <2> QED
    BY <2>1, <2>2, <2>3, <2>4, <2>5, <2>6
<1> QED
  BY <1>2, <1>4 DEF Ledger, Typed

LEMMA InvInit ==
    ASSUME Init
    PROVE  Inv
<1>1. PICK users \in Starts : entries = StartEntries(users)
  BY DEF Init
<1>2. Ledger
  BY <1>1, StartLedger
<1>3. /\ spent = {} /\ unread = {} /\ ops = 0
      /\ replica.alive = {k \in Keys \ {HeldKey} : Live(k)}
      /\ replica.balance = [h \in Holders |-> BalanceIn(entries, h)]
      /\ replica.signers = [a \in Accounts |-> SignersIn(entries, a)]
      /\ replica.sponsor = [x \in TheSponsored |-> Sponsor(entries[Key(x[1], x[2], x[2])])]
      /\ replica.lines = [a \in Users |-> IF Sponsor(entries[LineKey(a, Credit)]) = NoSponsor
                                          THEN 0 ELSE 1]
      /\ replica = [alive |-> replica.alive, balance |-> replica.balance, signers |-> replica.signers,
                    sponsor |-> replica.sponsor, lines |-> replica.lines]
  BY DEF Init, BalanceIn, BalanceOf, SignersIn, Live
<1>4. replica \in Replicas
  <2>1. replica.alive \in SUBSET Keys
    BY <1>3
  <2>2. replica.balance \in [Holders -> Int]
    BY <1>2, <1>3, BalancesAreInts
  <2>3. replica.signers \in [Accounts -> Weights]
    <3>1. ASSUME NEW a \in Accounts PROVE SignersIn(entries, a) \in Weights
      <4>1. PICK k : k = AccountKey(a)
        OBVIOUS
      <4>2. k \in Keys /\ k.type = "account"
        BY <4>1, KeysAre, KeyTypes
      <4>3. entries[k] # NoEntry
            => entries[k] \in [balance : Int, signers : Weights, sponsor : MaybeSponsor]
        BY <1>2, <4>2, EntriesAre DEF Ledger, Typed
      <4>4. entries[k] # NoEntry => entries[k].signers \in Weights
        BY <4>3
      <4> QED
        BY <4>1, <4>4, NobodyWeighs DEF SignersIn
    <3> QED
      BY <1>3, <3>1
  <2>4. replica.sponsor \in [TheSponsored -> MaybeSponsor]
    <3>1. ASSUME NEW x \in TheSponsored PROVE Sponsor(entries[Key(x[1], x[2], x[2])]) \in MaybeSponsor
      <4>1. PICK k : k = Key(x[1], x[2], x[2])
        OBVIOUS
      <4>2. k \in Keys
        BY <4>1, SubjectIs
      <4>3. Sponsor(entries[k]) \in MaybeSponsor
        BY <1>2, <4>2, EntriesAre DEF Ledger, Typed
      <4> QED
        BY <4>1, <4>3
    <3> QED
      BY <1>3, <3>1
  <2>5. replica.lines \in [Users -> Int]
    BY <1>3
  <2> QED
    BY <1>3, <2>1, <2>2, <2>3, <2>4, <2>5 DEF Replicas
<1>5. IsFiniteSet(unread) /\ Cardinality(unread) <= MaxUnread /\ ops \in 0 .. MaxOps
  BY <1>3, FS_EmptySet, BoundsAssumption
<1>6. ReplayAccounts
  <2>1. \A a \in Accounts : AccountKey(a) \in Keys /\ AccountKey(a) # HeldKey
    BY KeysAre, KeyTypes
  <2> QED
    BY <1>3, <2>1 DEF ReplayAccounts
<1>7. ReplayEntries
  <2>1. HeldKey.type = "contract_data"
    BY KeyTypes
  <2> QED
    BY <1>3, <2>1 DEF ReplayEntries
<1>8. ReplayBalances
  BY <1>3 DEF ReplayBalances, BalanceIn, BalanceOf, Live
<1>9. ReplaySigners
  BY <1>3 DEF ReplaySigners, SignersIn, Live
<1>10. ReplaySponsors
  <2>1. ASSUME NEW a \in Users PROVE replica.lines[a] = Cardinality(Shared(entries, a))
    <3>1. PICK share : share = LineKey(a, PoolShare)
      OBVIOUS
    <3>2. share \in Keys /\ share.type = "trustline" /\ share.id = PoolShare
      BY <3>1, KeysAre, KeyTypes
    <3>3. Sponsor(entries[share]) = NoSponsor
      BY <1>2, <3>2 DEF Ledger, Kept
    <3> QED
      BY <1>3, <3>1, <3>3, SharedAre
  <2> QED
    BY <1>3, <2>1 DEF ReplaySponsors, Shared
<1> QED
  BY <1>2, <1>3, <1>4, <1>5, <1>6, <1>7, <1>8, <1>9, <1>10 DEF Inv

-----------------------------------------------------------------------------
(* What holds of every behaviour.                                           *)

\* The inductive invariant holds of whatever operations come, whichever of them
\* could be read, in whatever order their changes came.
THEOREM Invariance == Spec => []Inv
<1>1. Init => Inv
  BY InvInit
<1>2. Inv /\ [Next]_vars => Inv'
  BY InvNext
<1> QED
  BY <1>1, <1>2, PTL DEF Spec

\* The copy keeps its shape: no effect of an operation gives an account a signer
\* of no weight, a sponsor that is none, or a balance nobody holds.
THEOREM TypeCorrect == Spec => []TypeOK
<1>1. Inv => TypeOK
  <2> SUFFICES ASSUME Inv PROVE TypeOK
    OBVIOUS
  <2>1. replica \in Replicas /\ DOMAIN entries = Keys
    BY DEF Inv, Ledger, Typed
  <2>2. ASSUME NEW a \in Accounts
        PROVE  /\ DOMAIN replica.signers[a] \subseteq ToSet(SignerOrder)
               /\ \A k \in DOMAIN replica.signers[a] : replica.signers[a][k] \in 1 .. MaxWeight
    <3>1. replica.signers[a] \in Weights
      BY <2>1 DEF Replicas
    <3> QED
      BY <3>1, WeightsAre
  <2>3. /\ replica.alive \subseteq Keys /\ DOMAIN replica.balance = Holders
        /\ DOMAIN replica.lines = Users
        /\ replica.sponsor \in [TheSponsored -> Sponsors \cup {NoSponsor}]
    BY <2>1 DEF Replicas, MaybeSponsor
  <2> QED
    BY <2>1, <2>2, <2>3 DEF Inv, TypeOK
<1> QED
  BY <1>1, Invariance, PTL

\* Accounts come and go in the copy as they do in the ledger, the changes of the
\* operations read or not: create_account and account_merge report both ends.
THEOREM AccountsFollow == Spec => []ReplayAccounts
<1>1. Inv => ReplayAccounts
  BY DEF Inv
<1> QED
  BY <1>1, Invariance, PTL

\* So do trustlines, data entries, claimable balances and the pool, while the
\* operations that read their changes could.
THEOREM EntriesFollow == Spec => []ReplayEntries
<1>1. Inv => ReplayEntries
  BY DEF Inv
<1> QED
  BY <1>1, Invariance, PTL

\* The credits and debits that the generators report add up to every balance, as
\* long as each claimable balance moved was read with its changes and each
\* invocation with its events and network.
THEOREM BalancesFollow == Spec => []ReplayBalances
<1>1. Inv => ReplayBalances
  BY DEF Inv
<1> QED
  BY <1>1, Invariance, PTL

\* The signer effects rebuild every account's signers and weights.
THEOREM SignersFollowLedger == Spec => []ReplaySigners
<1>1. Inv => ReplaySigners
  BY DEF Inv
<1> QED
  BY <1>1, Invariance, PTL

\* The sponsorship effects tell the sponsors of accounts and claimable balances
\* and count the sponsored trustlines, when every operation could be read.
THEOREM SponsorsFollow == Spec => []ReplaySponsors
<1>1. Inv => ReplaySponsors
  BY DEF Inv
<1> QED
  BY <1>1, Invariance, PTL
=============================================================================
