-------------------------- MODULE EffectRulesProofs --------------------------
(***************************************************************************)
(* Facts about EffectRules, for operations with any claims, changes and    *)
(* events: the effects of an operation are a sequence, only the operations *)
(* that trade have effects about trades, and those tell of the same claims *)
(* as the rows of the trades table.                                        *)
(***************************************************************************)
EXTENDS EffectRules, SelectionProofs

-----------------------------------------------------------------------------
(* Sequences joined.                                                        *)

\* A sequence of anything is one of its own elements.
LEMMA OwnElements ==
    ASSUME NEW S, NEW s \in Seq(S)
    PROVE  /\ IsSequence(s) /\ DOMAIN s = 1 .. Len(s) /\ Len(s) \in Nat
           /\ \A n \in DOMAIN s : s[n] \in S
<1>1. DOMAIN s = 1 .. Len(s) /\ Len(s) \in Nat
  OBVIOUS
<1>2. ToSet(s) = {s[n] : n \in 1 .. Len(s)}
  BY <1>1 DEF ToSet
<1>3. s \in Seq(ToSet(s))
  BY <1>1, <1>2
<1> QED
  BY <1>1, <1>3 DEF IsSequence

\* Sequences one after the other.
LEMMA JoinedIs ==
    ASSUME NEW s, IsSequence(s), NEW u, IsSequence(u)
    PROVE  /\ IsSequence(s \o u) /\ Len(s \o u) = Len(s) + Len(u)
           /\ \A m \in 1 .. Len(s) : (s \o u)[m] = s[m]
           /\ \A m \in 1 .. Len(u) : (s \o u)[Len(s) + m] = u[m]
           /\ \A m \in 1 .. Len(s \o u) :
                 m \in 1 .. Len(s) \/ \E k \in 1 .. Len(u) : m = Len(s) + k
<1> DEFINE S == ToSet(s) \cup ToSet(u)
<1>1. s \in Seq(S) /\ u \in Seq(S)
  BY DEF IsSequence
<1> HIDE DEF S
<1>2. s \o u \in Seq(S) /\ Len(s) \in Nat /\ Len(u) \in Nat
  BY <1>1
<1>3. /\ Len(s \o u) = Len(s) + Len(u)
      /\ \A m \in 1 .. Len(s) : (s \o u)[m] = s[m]
      /\ \A m \in 1 .. Len(u) : (s \o u)[Len(s) + m] = u[m]
  BY <1>1
<1>4. ASSUME NEW m \in 1 .. Len(s \o u), m \notin 1 .. Len(s)
      PROVE  \E k \in 1 .. Len(u) : m = Len(s) + k
  <2>1. m - Len(s) \in 1 .. Len(u) /\ m = Len(s) + (m - Len(s))
    BY <1>2, <1>3, <1>4
  <2> QED
    BY <2>1
<1> QED
  BY <1>2, <1>3, <1>4, OwnElements

LEMMA SmallSequences ==
    /\ IsSequence(<< >>)
    /\ \A e : IsSequence(<< e >>) /\ Len(<< e >>) = 1 /\ << e >>[1] = e
<1>1. IsSequence(<< >>)
  <2>1. << >> \in Seq({})
    OBVIOUS
  <2> QED
    BY <2>1, OwnElements
<1>2. ASSUME NEW e PROVE IsSequence(<< e >>) /\ Len(<< e >>) = 1 /\ << e >>[1] = e
  <2>1. << e >> \in Seq({e})
    OBVIOUS
  <2>2. IsSequence(<< e >>)
    BY <2>1, OwnElements
  <2> QED
    BY <2>2
<1> QED
  BY <1>1, <1>2

-----------------------------------------------------------------------------
(* FlattenSeq.                                                              *)

\* One step of its recursion, and what it computes for every prefix up to N.
FlatAt(f, n, s) == IF n = 1 THEN s[n] ELSE f[n - 1] \o s[n]
Flattens(f, N, s) == f = [n \in 1 .. N |-> FlatAt(f, n, s)]

LEMMA FlattensUnfold ==
    ASSUME NEW f, NEW N, NEW s, Flattens(f, N, s), NEW n \in 1 .. N
    PROVE  f[n] = FlatAt(f, n, s)
<1> DEFINE S(k) == FlatAt(f, k, s)
<1>1. f = [k \in 1 .. N |-> S(k)]
  BY DEF Flattens
<1> HIDE DEF S
<1>2. f[n] = S(n)
  BY <1>1
<1> QED
  BY <1>2 DEF S

LEMMA FlattensExist ==
    ASSUME NEW s, NEW N \in Nat
    PROVE  \E f : Flattens(f, N, s)
<1> DEFINE G == {k \in 0 .. N : \E f : Flattens(f, k, s)}
<1>1. 0 \in G
  <2> DEFINE f == [n \in 1 .. 0 |-> << >>]
  <2>1. f = [n \in 1 .. 0 |-> FlatAt(f, n, s)]
    OBVIOUS
  <2>2. Flattens(f, 0, s)
    BY <2>1 DEF Flattens
  <2> HIDE DEF f
  <2> QED
    BY <2>2
<1>2. ASSUME NEW k \in 0 .. N - 1, k \in G PROVE k + 1 \in G
  <2>1. PICK f : f = [n \in 1 .. k |-> FlatAt(f, n, s)]
    BY <1>2 DEF Flattens
  <2> DEFINE g == [n \in 1 .. k + 1 |-> IF n = k + 1 THEN FlatAt(f, n, s) ELSE f[n]]
  <2>2. ASSUME NEW n \in 1 .. k + 1 PROVE g[n] = FlatAt(g, n, s)
    <3>1. g[n] = FlatAt(f, n, s)
      BY <2>1
    <3>2. CASE n = 1
      BY <3>1, <3>2 DEF FlatAt
    <3>3. CASE n # 1
      <4>1. g[n - 1] = f[n - 1]
        BY <3>3
      <4> HIDE DEF g
      <4> QED
        BY <3>1, <3>3, <4>1 DEF FlatAt
    <3> QED
      BY <3>2, <3>3
  <2>3. Flattens(g, k + 1, s)
    BY <2>2 DEF Flattens
  <2> HIDE DEF g
  <2> QED
    BY <1>2, <2>3
<1> HIDE DEF G
<1>3. N \in G
  BY <1>1, <1>2, Induction
<1> QED
  BY <1>3 DEF G

LEMMA FlattenIsLast ==
    ASSUME NEW s, Len(s) \in Nat, Len(s) # 0
    PROVE  \E f : Flattens(f, Len(s), s) /\ FlattenSeq(s) = f[Len(s)]
<1> DEFINE flatten == CHOOSE f : f = [n \in 1 .. Len(s) |-> FlatAt(f, n, s)]
<1>1. \E f : f = [n \in 1 .. Len(s) |-> FlatAt(f, n, s)]
  BY FlattensExist DEF Flattens
<1>2. flatten = [n \in 1 .. Len(s) |-> FlatAt(flatten, n, s)]
  BY <1>1, Zenon
<1>3. FlattenSeq(s) = flatten[Len(s)]
  BY Zenon DEF FlattenSeq, FlatAt
<1> HIDE DEF flatten
<1> QED
  BY <1>2, <1>3 DEF Flattens

\* g has what the first n sequences of s give together, for every n.
JoinsUp(g, s, T) ==
    /\ g[0] = << >> /\ g[Len(s)] = FlattenSeq(s)
    /\ \A n \in 0 .. Len(s) : g[n] \in Seq(T)
    /\ \A n \in 0 .. Len(s) - 1 : g[n + 1] = g[n] \o s[n + 1]

LEMMA FlattenPrefixes ==
    ASSUME NEW T, NEW s \in Seq(Seq(T))
    PROVE  \E g : JoinsUp(g, s, T)
<1>1. Len(s) \in Nat /\ \A n \in 1 .. Len(s) : s[n] \in Seq(T)
  OBVIOUS
<1>2. CASE Len(s) = 0
  <2> DEFINE g == [n \in 0 .. 0 |-> << >>]
  <2>1. s = << >>
    BY <1>2
  <2>2. FlattenSeq(s) = << >>
    BY <1>2, <2>1, Zenon DEF FlattenSeq
  <2>3. JoinsUp(g, s, T)
    BY <1>2, <2>2 DEF JoinsUp
  <2> QED
    BY <2>3
<1>3. CASE Len(s) # 0
  <2>1. PICK f : Flattens(f, Len(s), s) /\ FlattenSeq(s) = f[Len(s)]
    BY <1>1, <1>3, FlattenIsLast
  <2>2. f[1] = s[1] /\ \A n \in 2 .. Len(s) : f[n] = f[n - 1] \o s[n]
    <3>1. 1 \in 1 .. Len(s)
      BY <1>1, <1>3
    <3>2. f[1] = s[1]
      BY <2>1, <3>1, FlattensUnfold DEF FlatAt
    <3>3. ASSUME NEW n \in 2 .. Len(s) PROVE f[n] = f[n - 1] \o s[n]
      <4>1. n \in 1 .. Len(s) /\ n # 1
        BY <1>1
      <4>2. f[n] = FlatAt(f, n, s)
        BY <2>1, <4>1, FlattensUnfold
      <4> QED
        BY <4>1, <4>2, Zenon DEF FlatAt
    <3> QED
      BY <3>2, <3>3
  <2> DEFINE g == [n \in 0 .. Len(s) |-> IF n = 0 THEN << >> ELSE f[n]]
  <2>3. g[0] = << >> /\ \A n \in 1 .. Len(s) : g[n] = f[n]
    BY <1>1
  <2> HIDE DEF g
  <2>4. ASSUME NEW n \in 0 .. Len(s) - 1 PROVE g[n + 1] = g[n] \o s[n + 1]
    <3>0. n + 1 \in 1 .. Len(s) /\ s[n + 1] \in Seq(T)
      BY <1>1
    <3>1. CASE n = 0
      <4>1. g[n + 1] = s[1] /\ g[n] = << >>
        BY <2>2, <2>3, <3>0, <3>1
      <4> QED
        BY <3>0, <3>1, <4>1
    <3>2. CASE n # 0
      <4>1. n \in 1 .. Len(s) /\ n + 1 \in 2 .. Len(s) /\ (n + 1) - 1 = n
        BY <1>1, <3>2
      <4>2. f[n + 1] = f[(n + 1) - 1] \o s[n + 1] /\ g[n + 1] = f[n + 1] /\ g[n] = f[n]
        BY <2>2, <2>3, <3>0, <4>1
      <4> QED
        BY <4>1, <4>2, Zenon
    <3> QED
      BY <3>1, <3>2
  <2> DEFINE G == {n \in 0 .. Len(s) : g[n] \in Seq(T)}
  <2>5. 0 \in G
    <3>1. << >> \in Seq(T)
      OBVIOUS
    <3>2. 0 \in 0 .. Len(s)
      BY <1>1
    <3>3. g[0] \in Seq(T)
      BY <2>3, <3>1, Zenon
    <3> QED
      BY <3>2, <3>3
  <2>6. ASSUME NEW n \in 0 .. Len(s) - 1, n \in G PROVE n + 1 \in G
    <3>1. n + 1 \in 1 .. Len(s) /\ n + 1 \in 0 .. Len(s) /\ s[n + 1] \in Seq(T)
      BY <1>1
    <3>2. g[n] \in Seq(T) /\ g[n + 1] = g[n] \o s[n + 1]
      BY <2>4, <2>6
    <3>3. \A a, b \in Seq(T) : a \o b \in Seq(T)
      OBVIOUS
    <3> QED
      BY <3>1, <3>2, <3>3
  <2> HIDE DEF G
  <2>7. \A n \in 0 .. Len(s) : n \in G
    BY <1>1, <2>5, <2>6, Induction
  <2>8. Len(s) \in 1 .. Len(s) /\ g[Len(s)] = FlattenSeq(s)
    BY <1>1, <1>3, <2>1, <2>3
  <2> QED
    BY <2>3, <2>4, <2>7, <2>8 DEF JoinsUp, G
<1> QED
  BY <1>2, <1>3

\* Sequences joined to one, with any set that holds their elements.
LEMMA FlattenTyped ==
    ASSUME NEW T, NEW s \in Seq(Seq(T))
    PROVE  FlattenSeq(s) \in Seq(T)
<1>1. PICK g : JoinsUp(g, s, T)
  BY FlattenPrefixes
<1>2. Len(s) \in 0 .. Len(s)
  OBVIOUS
<1> QED
  BY <1>1, <1>2 DEF JoinsUp

-----------------------------------------------------------------------------
(* Effects that are not about trades.                                       *)

TradeTypes == {"trade", "liquidity_pool_trade"}

\* A sequence of effects without one about a trade.
Plain(x) == IsSequence(x) /\ \A m \in 1 .. Len(x) : x[m].type \notin TradeTypes

LEMMA PlainOnes ==
    /\ Plain(<< >>)
    /\ \A a : a.type \notin TradeTypes => Plain(<< a >>)
    /\ \A a, b : a.type \notin TradeTypes /\ b.type \notin TradeTypes => Plain(<< a, b >>)
    /\ \A a, b, c : a.type \notin TradeTypes /\ b.type \notin TradeTypes /\ c.type \notin TradeTypes
                    => Plain(<< a, b, c >>)
<1>1. Plain(<< >>)
  BY SmallSequences DEF Plain
<1>2. ASSUME NEW a, a.type \notin TradeTypes PROVE Plain(<< a >>)
  BY <1>2, SmallSequences DEF Plain
<1>3. ASSUME NEW a, NEW b, a.type \notin TradeTypes, b.type \notin TradeTypes PROVE Plain(<< a, b >>)
  <2>1. << a, b >> \in Seq({a, b}) /\ \A m \in 1 .. Len(<< a, b >>) : << a, b >>[m] \in {a, b}
    OBVIOUS
  <2>2. IsSequence(<< a, b >>)
    BY <2>1, OwnElements
  <2> QED
    BY <1>3, <2>1, <2>2 DEF Plain
<1>4. ASSUME NEW a, NEW b, NEW c,
             a.type \notin TradeTypes, b.type \notin TradeTypes, c.type \notin TradeTypes
      PROVE  Plain(<< a, b, c >>)
  <2>1. /\ << a, b, c >> \in Seq({a, b, c})
        /\ \A m \in 1 .. Len(<< a, b, c >>) : << a, b, c >>[m] \in {a, b, c}
    OBVIOUS
  <2>2. IsSequence(<< a, b, c >>)
    BY <2>1, OwnElements
  <2> QED
    BY <1>4, <2>1, <2>2 DEF Plain
<1> QED
  BY <1>1, <1>2, <1>3, <1>4

LEMMA EffectType ==
    \A address, type, about, value : Effect(address, type, about, value).type = type
                                     /\ Effect(address, type, about, value).address = address
BY DEF Effect

LEMMA PlainJoined ==
    ASSUME NEW x, Plain(x), NEW y, Plain(y)
    PROVE  Plain(x \o y)
<1>1. /\ IsSequence(x \o y)
      /\ \A m \in 1 .. Len(x) : (x \o y)[m] = x[m]
      /\ \A m \in 1 .. Len(y) : (x \o y)[Len(x) + m] = y[m]
      /\ \A m \in 1 .. Len(x \o y) :
            m \in 1 .. Len(x) \/ \E k \in 1 .. Len(y) : m = Len(x) + k
  BY JoinedIs DEF Plain
<1>2. ASSUME NEW m \in 1 .. Len(x \o y) PROVE (x \o y)[m].type \notin TradeTypes
  <2>1. CASE m \in 1 .. Len(x)
    BY <1>1, <2>1 DEF Plain
  <2>2. ASSUME NEW k \in 1 .. Len(y), m = Len(x) + k PROVE (x \o y)[m].type \notin TradeTypes
    BY <1>1, <2>2 DEF Plain
  <2> QED
    BY <1>1, <2>1, <2>2
<1> QED
  BY <1>1, <1>2 DEF Plain

\* A list as long as s.
Along(all, s) == all = [n \in DOMAIN s |-> all[n]]

LEMMA AlongTyped ==
    ASSUME NEW s, IsSequence(s), NEW all, Along(all, s), NEW T, \A n \in 1 .. Len(s) : all[n] \in T
    PROVE  all \in Seq(T) /\ Len(all) = Len(s) /\ Len(s) \in Nat /\ DOMAIN s = 1 .. Len(s)
<1>1. DOMAIN s = 1 .. Len(s) /\ Len(s) \in Nat
  BY OwnElements DEF IsSequence
<1>2. all = [n \in 1 .. Len(s) |-> all[n]]
  BY <1>1 DEF Along
<1> QED
  BY <1>1, <1>2

\* What FlattenSeq makes of sequences is one; its elements are theirs.
LEMMA FlattenSequence ==
    ASSUME NEW s, IsSequence(s), NEW all, Along(all, s),
           \A n \in 1 .. Len(s) : IsSequence(all[n])
    PROVE  \E T : /\ all \in Seq(Seq(T)) /\ FlattenSeq(all) \in Seq(T)
                  /\ \A e \in T : \E n \in 1 .. Len(s) : e \in ToSet(all[n])
<1> DEFINE T == UNION {ToSet(all[n]) : n \in 1 .. Len(s)}
<1>1. ASSUME NEW n \in 1 .. Len(s) PROVE all[n] \in Seq(T)
  <2>1. all[n] \in Seq(ToSet(all[n]))
    BY DEF IsSequence
  <2>2. ToSet(all[n]) \subseteq T
    OBVIOUS
  <2> HIDE DEF T
  <2> QED
    BY <2>1, <2>2
<1>2. \A e \in T : \E n \in 1 .. Len(s) : e \in ToSet(all[n])
  OBVIOUS
<1> HIDE DEF T
<1>3. all \in Seq(Seq(T))
  BY <1>1, AlongTyped
<1> QED
  BY <1>2, <1>3, FlattenTyped

LEMMA PlainFlattened ==
    ASSUME NEW s, IsSequence(s), NEW all, Along(all, s), \A n \in 1 .. Len(s) : Plain(all[n])
    PROVE  Plain(FlattenSeq(all))
<1>1. PICK T : /\ FlattenSeq(all) \in Seq(T)
               /\ \A e \in T : \E n \in 1 .. Len(s) : e \in ToSet(all[n])
  BY FlattenSequence DEF Plain
<1>2. ASSUME NEW e \in T PROVE e.type \notin TradeTypes
  <2>1. PICK n \in 1 .. Len(s) : e \in ToSet(all[n])
    BY <1>1
  <2>2. Plain(all[n]) /\ DOMAIN all[n] = 1 .. Len(all[n])
    BY OwnElements DEF Plain, IsSequence
  <2> QED
    BY <2>1, <2>2 DEF Plain, ToSet
<1>3. /\ IsSequence(FlattenSeq(all))
      /\ \A m \in 1 .. Len(FlattenSeq(all)) : FlattenSeq(all)[m] \in T
  <2>1. PICK x : x = FlattenSeq(all)
    OBVIOUS
  <2>2. IsSequence(x) /\ \A m \in 1 .. Len(x) : x[m] \in T
    BY <1>1, <2>1, OwnElements
  <2> QED
    BY <2>1, <2>2
<1> QED
  BY <1>2, <1>3 DEF Plain

\* Effects made one from each element of a list.
LEMMA PlainList ==
    ASSUME NEW s, IsSequence(s), NEW x, Along(x, s), \A n \in 1 .. Len(s) : x[n].type \notin TradeTypes
    PROVE  Plain(x)
<1>1. x \in Seq({x[n] : n \in 1 .. Len(s)}) /\ Len(x) = Len(s)
  BY AlongTyped
<1>2. IsSequence(x)
  BY <1>1, OwnElements
<1> QED
  BY <1>1, <1>2 DEF Plain

LEMMA PlainSimple ==
    ASSUME NEW op
    PROVE  /\ Plain(CreateAccountEffects(op)) /\ Plain(PaymentEffects(op))
           /\ Plain(TrustFlagsEffects(op)) /\ Plain(MergeEffects(op))
           /\ Plain(ClawbackEffects(op))
<1>1. Plain(CreateAccountEffects(op))
  BY PlainOnes, EffectType DEF CreateAccountEffects, TradeTypes
<1>2. Plain(PaymentEffects(op))
  BY PlainOnes, EffectType DEF PaymentEffects, TradeTypes
<1>3. Plain(TrustFlagsEffects(op))
  BY PlainOnes, EffectType DEF TrustFlagsEffects, TradeTypes
<1>4. Plain(MergeEffects(op))
  BY PlainOnes, EffectType DEF MergeEffects, TradeTypes
<1>5. Plain(ClawbackEffects(op))
  BY PlainOnes, EffectType DEF ClawbackEffects, TradeTypes
<1> QED
  BY <1>1, <1>2, <1>3, <1>4, <1>5

LEMMA PlainOfFirst ==
    ASSUME NEW op
    PROVE  /\ Plain(ChangeTrustEffects(op)) /\ Plain(ManageDataEffects(op))
           /\ Plain(BumpSequenceEffects(op)) /\ Plain(ClaimClaimableBalanceEffects(op))
           /\ Plain(ClawbackClaimableBalanceEffects(op))
           /\ \A type : type \notin TradeTypes =>
                 Plain(PoolEffects(op, type)) /\ Plain(FootprintEffects(op, type))
<1>1. Plain(ChangeTrustEffects(op))
  BY PlainOnes, EffectType DEF ChangeTrustEffects, ForFirst, TradeTypes
<1>2. Plain(ManageDataEffects(op))
  BY PlainOnes, EffectType DEF ManageDataEffects, ForFirst, TradeTypes
<1>3. Plain(BumpSequenceEffects(op))
  BY PlainOnes, EffectType DEF BumpSequenceEffects, ForFirst, TradeTypes
<1>4. Plain(ClaimClaimableBalanceEffects(op))
  BY PlainOnes, EffectType DEF ClaimClaimableBalanceEffects, ForFirst, TradeTypes
<1>5. Plain(ClawbackClaimableBalanceEffects(op))
  <2> DEFINE first == ForFirst(op.changes,
           LAMBDA c : c.key.type = "claimable_balance" /\ Removed(c),
           LAMBDA c : << Effect(op.source, "account_credited", c.pre.asset, c.pre.amount) >>)
  <2>1. Plain(first)
    BY PlainOnes, EffectType DEF ForFirst, TradeTypes
  <2>2. Plain(<< Effect(op.source, "claimable_balance_clawed_back", op.entry, 0) >>)
    BY PlainOnes, EffectType DEF TradeTypes
  <2> HIDE DEF first
  <2>3. Plain(<< Effect(op.source, "claimable_balance_clawed_back", op.entry, 0) >> \o first)
    BY <2>1, <2>2, PlainJoined
  <2> QED
    BY <2>3 DEF ClawbackClaimableBalanceEffects, first
<1>6. ASSUME NEW type, type \notin TradeTypes
      PROVE  Plain(PoolEffects(op, type)) /\ Plain(FootprintEffects(op, type))
  BY <1>6, PlainOnes, EffectType DEF PoolEffects, FootprintEffects, ForFirst
<1> QED
  BY <1>1, <1>2, <1>3, <1>4, <1>5, <1>6

LEMMA PlainSigners ==
    ASSUME NEW source, NEW before, NEW after
    PROVE  Plain(SignerEffects(source, before, after))
<1> DEFINE old(k) ==
            IF k \notin DOMAIN before THEN << >>
            ELSE IF k \notin DOMAIN after THEN << Effect(source, "signer_removed", k, 0) >>
            ELSE IF after[k] # before[k] THEN << Effect(source, "signer_updated", k, after[k]) >>
            ELSE << >>
           new(k) ==
            IF k \in DOMAIN after /\ k \notin DOMAIN before
            THEN << Effect(source, "signer_created", k, after[k]) >>
            ELSE << >>
           olds == [i \in DOMAIN SignerOrder |-> old(SignerOrder[i])]
           news == [i \in DOMAIN SignerOrder |-> new(SignerOrder[i])]
<1>1. \A k : Plain(old(k)) /\ Plain(new(k))
  BY PlainOnes, EffectType DEF TradeTypes
<1>2. SignerEffects(source, before, after) = FlattenSeq(olds) \o FlattenSeq(news)
  BY DEF SignerEffects, ForEach
<1> HIDE DEF old, new
<1>3. DOMAIN SignerOrder = 1 .. Len(SignerOrder)
  BY SignerOrderAssumption, OwnElements DEF IsSequence
<1>4. Along(olds, SignerOrder) /\ Along(news, SignerOrder)
  BY DEF Along
<1>5. \A n \in 1 .. Len(SignerOrder) : Plain(olds[n]) /\ Plain(news[n])
  BY <1>1, <1>3
<1> HIDE DEF olds, news
<1>6. Plain(FlattenSeq(olds)) /\ Plain(FlattenSeq(news))
  BY <1>4, <1>5, SignerOrderAssumption, PlainFlattened
<1> QED
  BY <1>2, <1>6, PlainJoined

LEMMA PlainOptions ==
    ASSUME NEW op, WellFormed(op), op.kind = "set_options"
    PROVE  Plain(SetOptionsEffects(op))
<1> DEFINE set == [i \in DOMAIN op.options |-> Effect(op.source, op.options[i], "option", 0)]
           of(c) == IF c.key.type = "account" /\ Updated(c)
                    THEN SignerEffects(op.source, c.pre.signers, c.post.signers)
                    ELSE << >>
           all == [i \in DOMAIN op.changes |-> of(op.changes[i])]
<1>1. SetOptionsEffects(op) = set \o FlattenSeq(all)
  BY DEF SetOptionsEffects, ForEach
<1>2. \A c : Plain(of(c))
  BY PlainOnes, PlainSigners
<1> HIDE DEF of
<1>3. op.options \in Seq(OptionEffects) /\ IsSequence(op.changes)
  BY DEF WellFormed
<1>4. DOMAIN op.changes = 1 .. Len(op.changes)
  BY <1>3, OwnElements DEF IsSequence
<1>5. Along(all, op.changes) /\ \A n \in 1 .. Len(op.changes) : Plain(all[n])
  BY <1>2, <1>4 DEF Along
<1> HIDE DEF all
<1>6. Plain(FlattenSeq(all))
  BY <1>3, <1>5, PlainFlattened
<1>7. IsSequence(op.options) /\ DOMAIN op.options = 1 .. Len(op.options)
      /\ \A n \in 1 .. Len(op.options) : op.options[n] \in OptionEffects
  BY <1>3, OwnElements
<1>8. \A n \in 1 .. Len(op.options) : set[n].type \notin TradeTypes
  BY <1>7, EffectType DEF OptionEffects, TradeTypes
<1>9. Along(set, op.options)
  BY DEF Along
<1> HIDE DEF set
<1>10. Plain(set)
  BY <1>7, <1>8, <1>9, PlainList
<1> QED
  BY <1>1, <1>6, <1>10, PlainJoined

LEMMA PlainInflation ==
    ASSUME NEW op, WellFormed(op), op.kind = "inflation"
    PROVE  Plain(InflationEffects(op))
<1> DEFINE x == InflationEffects(op)
<1>1. IsSequence(op.payouts) /\ DOMAIN op.payouts = 1 .. Len(op.payouts)
  BY OwnElements DEF WellFormed, IsSequence
<1>2. Along(x, op.payouts) /\ \A n \in 1 .. Len(op.payouts) : x[n].type \notin TradeTypes
  BY <1>1, EffectType DEF InflationEffects, Along, TradeTypes
<1> HIDE DEF x
<1>3. Plain(x)
  BY <1>1, <1>2, PlainList
<1> QED
  BY <1>3 DEF x

\* The position that SelectInSeq looks for.
LEMMA FirstIs ==
    ASSUME NEW I \in SUBSET Nat, I # {}
    PROVE  Min(I) \in I
<1>1. \E n \in I : \A m \in I : n <= m
  BY Least
<1> QED
  BY <1>1 DEF Min

LEMMA PlainClaimable ==
    ASSUME NEW op, WellFormed(op)
    PROVE  Plain(CreateClaimableBalanceEffects(op))
<1> DEFINE wanted(c) == c.key.type = "claimable_balance" /\ c.post # NoEntry
           list(c) == [i \in DOMAIN c.post.claimants |->
                          Effect(c.post.claimants[i], "claimable_balance_claimant_created",
                                 c.key, c.post.amount)]
           of(c) == << Effect(op.source, "claimable_balance_created", c.key, c.post.amount) >>
                    \o list(c)
                    \o << Effect(op.source, "account_debited", c.post.asset, c.post.amount) >>
           I == {i \in 1 .. Len(op.changes) : wanted(op.changes[i])}
<1>1. CreateClaimableBalanceEffects(op) =
         IF (IF I # {} THEN Min(I) ELSE 0) = 0 THEN << >>
         ELSE of(op.changes[IF I # {} THEN Min(I) ELSE 0])
  BY DEF CreateClaimableBalanceEffects, ForFirst, SelectInSeq
<1>2. DOMAIN op.changes = 1 .. Len(op.changes) /\ Len(op.changes) \in Nat
  BY OwnElements DEF WellFormed, IsSequence
<1>3. ASSUME NEW c \in ToSet(op.changes), wanted(c) PROVE Plain(of(c))
  <2>1. IsSequence(c.post.claimants)
    BY <1>3 DEF WellFormed
  <2>2. DOMAIN c.post.claimants = 1 .. Len(c.post.claimants)
    BY <2>1, OwnElements DEF IsSequence
  <2>3. Along(list(c), c.post.claimants)
        /\ \A n \in 1 .. Len(c.post.claimants) : list(c)[n].type \notin TradeTypes
    BY <2>2, EffectType DEF Along, TradeTypes
  <2> HIDE DEF list
  <2>4. Plain(list(c))
    BY <2>1, <2>3, PlainList
  <2>5. Plain(<< Effect(op.source, "claimable_balance_created", c.key, c.post.amount) >>)
        /\ Plain(<< Effect(op.source, "account_debited", c.post.asset, c.post.amount) >>)
    BY PlainOnes, EffectType DEF TradeTypes
  <2> QED
    BY <2>4, <2>5, PlainJoined, Zenon
<1>4. CASE I = {}
  BY <1>1, <1>4, PlainOnes
<1>5. CASE I # {}
  <2>0. I \subseteq 1 .. Len(op.changes)
    OBVIOUS
  <2>1. Min(I) \in I /\ I \subseteq 1 .. Len(op.changes)
    <3> HIDE DEF I
    <3>1. I \in SUBSET Nat
      BY <1>2, <2>0
    <3> QED
      BY <1>5, <2>0, <3>1, FirstIs
  <2>2. op.changes[Min(I)] \in ToSet(op.changes) /\ wanted(op.changes[Min(I)])
    BY <1>2, <2>1 DEF ToSet
  <2> HIDE DEF wanted, of, I
  <2>3. Min(I) # 0
    BY <1>2, <2>1
  <2> QED
    BY <1>1, <1>3, <1>5, <2>2, <2>3
<1> QED
  BY <1>4, <1>5

LEMMA PlainInvoke ==
    ASSUME NEW op, WellFormed(op)
    PROVE  Plain(InvokeHostFunctionEffects(op))
<1> DEFINE of(event) ==
             CASE event.type = "transfer" -> DebitEffects(op, event) \o CreditEffects(op, event)
               [] event.type = "mint"     -> CreditEffects(op, event)
               [] OTHER                   -> DebitEffects(op, event)
           all == [i \in DOMAIN op.assetEvents |-> of(op.assetEvents[i])]
<1>1. AssetEventEffects(op) = FlattenSeq(all)
  BY DEF AssetEventEffects, ForEach
<1>2. \A event : Plain(DebitEffects(op, event)) /\ Plain(CreditEffects(op, event))
  BY PlainOnes, EffectType DEF DebitEffects, CreditEffects, Party, TradeTypes
<1>3. \A event : Plain(DebitEffects(op, event) \o CreditEffects(op, event))
  BY <1>2, PlainJoined
<1>4. \A event : Plain(of(event))
  BY <1>2, <1>3
<1> HIDE DEF of
<1>5. IsSequence(op.assetEvents) /\ DOMAIN op.assetEvents = 1 .. Len(op.assetEvents)
  BY OwnElements DEF WellFormed, IsSequence
<1>6. Along(all, op.assetEvents) /\ \A n \in 1 .. Len(op.assetEvents) : Plain(all[n])
  BY <1>4, <1>5 DEF Along
<1> HIDE DEF all
<1>7. Plain(AssetEventEffects(op))
  BY <1>1, <1>5, <1>6, PlainFlattened
<1>8. Plain(<< >>)
  BY PlainOnes
<1> QED
  BY <1>7, <1>8 DEF InvokeHostFunctionEffects

\* What the changes of every operation add.
ChangeEffects(op) ==
    ForEach(op.changes, LAMBDA c : SponsorshipEffects(op, c) \o PoolLifecycleEffects(op, c))

LEMMA PlainChanges ==
    ASSUME NEW op, WellFormed(op)
    PROVE  Plain(ChangeEffects(op))
<1> DEFINE of(c) == SponsorshipEffects(op, c) \o PoolLifecycleEffects(op, c)
           all == [i \in DOMAIN op.changes |-> of(op.changes[i])]
<1>1. ChangeEffects(op) = FlattenSeq(all)
  BY DEF ChangeEffects, ForEach
<1>2. \A c : Plain(SponsorshipEffects(op, c))
  BY PlainOnes, EffectType DEF SponsorshipEffects, SponsorshipEffect, TradeTypes
<1>3. \A c : Plain(PoolLifecycleEffects(op, c))
  BY PlainOnes, EffectType DEF PoolLifecycleEffects, TradeTypes
<1>4. \A c : Plain(of(c))
  BY <1>2, <1>3, PlainJoined
<1> HIDE DEF of
<1>5. IsSequence(op.changes) /\ DOMAIN op.changes = 1 .. Len(op.changes)
  BY OwnElements DEF WellFormed, IsSequence
<1>6. Along(all, op.changes) /\ \A n \in 1 .. Len(op.changes) : Plain(all[n])
  BY <1>4, <1>5 DEF Along
<1> HIDE DEF all
<1> QED
  BY <1>1, <1>5, <1>6, PlainFlattened

\* The operations that trade.
Trading(op) == op.kind \in {"offer", "path_payment"}

LEMMA PlainOperation ==
    ASSUME NEW op, WellFormed(op), ~Trading(op)
    PROVE  Plain(OperationEffects(op))
<1>1. CASE op.kind \in ReturnOnError /\ ~op.readable
  BY <1>1, PlainOnes DEF OperationEffects
<1> DEFINE reads == ~(op.kind \in ReturnOnError /\ ~op.readable)
<1>2. CASE reads /\ op.kind \in {"create_account", "payment", "trust_flags", "merge", "clawback"}
  BY <1>2, PlainSimple DEF OperationEffects
<1>3. CASE reads /\ op.kind \in {"change_trust", "manage_data", "bump_sequence",
                                 "claim_claimable_balance", "clawback_claimable_balance"}
  BY <1>3, PlainOfFirst DEF OperationEffects
<1>4. CASE reads /\ op.kind \in {"pool_deposit", "pool_withdraw", "extend_ttl", "restore"}
  <2>1. {"liquidity_pool_deposited", "liquidity_pool_withdrew", "extend_footprint_ttl",
         "restore_footprint"} \cap TradeTypes = {}
    BY DEF TradeTypes
  <2>2. /\ Plain(PoolEffects(op, "liquidity_pool_deposited"))
        /\ Plain(PoolEffects(op, "liquidity_pool_withdrew"))
        /\ Plain(FootprintEffects(op, "extend_footprint_ttl"))
        /\ Plain(FootprintEffects(op, "restore_footprint"))
    BY <2>1, PlainOfFirst
  <2> QED
    BY <1>4, <2>2 DEF OperationEffects
<1>5. CASE reads /\ op.kind \in {"set_options", "inflation", "create_claimable_balance", "invoke"}
  BY <1>5, PlainOptions, PlainInflation, PlainClaimable, PlainInvoke DEF OperationEffects
<1>6. CASE /\ reads
           /\ op.kind \notin {"create_account", "payment", "trust_flags", "merge", "clawback",
                              "change_trust", "manage_data", "bump_sequence",
                              "claim_claimable_balance", "clawback_claimable_balance",
                              "pool_deposit", "pool_withdraw", "extend_ttl", "restore",
                              "set_options", "inflation", "create_claimable_balance", "invoke"}
  BY <1>6, PlainOnes DEF OperationEffects, Trading
<1> QED
  BY <1>1, <1>2, <1>3, <1>4, <1>5, <1>6

-----------------------------------------------------------------------------
(* Effects of trades.                                                       *)

ClaimEffects(op, claim) ==
    IF claim.sold = 0 /\ claim.bought = 0 THEN << >>
    ELSE IF claim.kind = "liquidity_pool" THEN PoolTradeEffects(op, claim)
    ELSE OrderbookTradeEffects(op, claim)

ClaimLists(op) == [n \in DOMAIN op.claims |-> ClaimEffects(op, op.claims[n])]

LEMMA TradeEffectsAre == \A op : TradeEffects(op) = FlattenSeq(ClaimLists(op))
BY DEF TradeEffects, ForEach, ClaimLists, ClaimEffects

-----------------------------------------------------------------------------
(* Trades and effects that tell of the same claims.                         *)

\* The effects of a type, and the trades that are not with a pool.
OfType(x, type) == Selected(x, {m \in DOMAIN x : x[m].type = type})
Booked(u)       == Selected(u, {m \in DOMAIN u : u[m].type # "liquidity_pool"})

\* Selection from two sequences joined, and from each.
LEMMA PartsJoined ==
    ASSUME NEW x, IsSequence(x), NEW y, IsSequence(y), NEW keep, NEW keepX, NEW keepY,
           \A m \in 1 .. Len(x) : m \in keep <=> m \in keepX,
           \A m \in 1 .. Len(y) : m \in keepY <=> Len(x) + m \in keep
    PROVE  /\ Selected(x \o y, keep) = Selected(x, keepX) \o Selected(y, keepY)
           /\ IsSequence(Selected(x, keepX))
<1> DEFINE S == ToSet(x) \cup ToSet(y)
<1>1. x \in Seq(S) /\ y \in Seq(S)
  BY DEF IsSequence
<1> HIDE DEF S
<1>2. Selected(x \o y, keep) = Selected(x, keep) \o Selected(y, keepY)
  BY <1>1, SelectedJoined
<1>3. Selected(x, keep) = Selected(x, keepX)
  BY <1>1, SelectedSame
<1>4. Selected(x, keepX) \in Seq(S)
  BY <1>1, SelectedPositions
<1>5. IsSequence(Selected(x, keepX))
  BY <1>4, OwnElements
<1> QED
  BY <1>2, <1>3, <1>5, Zenon

JoinsType(x, y, type) == OfType(x \o y, type) = OfType(x, type) \o OfType(y, type)

LEMMA OfTypeJoined ==
    ASSUME NEW x, IsSequence(x), NEW y, IsSequence(y), NEW type
    PROVE  JoinsType(x, y, type) /\ IsSequence(OfType(x, type))
<1> DEFINE xy == x \o y
           keep == {m \in DOMAIN xy : xy[m].type = type}
           keepX == {m \in DOMAIN x : x[m].type = type}
           keepY == {m \in DOMAIN y : y[m].type = type}
<1>1. /\ DOMAIN x = 1 .. Len(x) /\ DOMAIN y = 1 .. Len(y) /\ DOMAIN xy = 1 .. Len(xy)
      /\ Len(x) \in Nat /\ Len(y) \in Nat
  BY OwnElements, JoinedIs DEF IsSequence
<1>2. /\ Len(xy) = Len(x) + Len(y)
      /\ \A m \in 1 .. Len(x) : xy[m] = x[m]
      /\ \A m \in 1 .. Len(y) : xy[Len(x) + m] = y[m]
  BY JoinedIs
<1> HIDE DEF xy
<1>3. /\ \A m \in 1 .. Len(x) : m \in keep <=> m \in keepX
      /\ \A m \in 1 .. Len(y) : m \in keepY <=> Len(x) + m \in keep
  BY <1>1, <1>2
<1> HIDE DEF keep, keepX, keepY
<1>4. /\ Selected(xy, keep) = Selected(x, keepX) \o Selected(y, keepY)
      /\ IsSequence(Selected(x, keepX))
  BY <1>3, PartsJoined DEF xy
<1> QED
  BY <1>4 DEF JoinsType, OfType, xy, keep, keepX, keepY

LEMMA BookedJoined ==
    ASSUME NEW x, IsSequence(x), NEW y, IsSequence(y)
    PROVE  /\ Booked(x \o y) = Booked(x) \o Booked(y)
           /\ IsSequence(Booked(x))
<1> DEFINE xy == x \o y
           keep == {m \in DOMAIN xy : xy[m].type # "liquidity_pool"}
           keepX == {m \in DOMAIN x : x[m].type # "liquidity_pool"}
           keepY == {m \in DOMAIN y : y[m].type # "liquidity_pool"}
<1>1. /\ DOMAIN x = 1 .. Len(x) /\ DOMAIN y = 1 .. Len(y) /\ DOMAIN xy = 1 .. Len(xy)
      /\ Len(x) \in Nat /\ Len(y) \in Nat
  BY OwnElements, JoinedIs DEF IsSequence
<1>2. /\ Len(xy) = Len(x) + Len(y)
      /\ \A m \in 1 .. Len(x) : xy[m] = x[m]
      /\ \A m \in 1 .. Len(y) : xy[Len(x) + m] = y[m]
  BY JoinedIs
<1> HIDE DEF xy
<1>3. /\ \A m \in 1 .. Len(x) : m \in keep <=> m \in keepX
      /\ \A m \in 1 .. Len(y) : m \in keepY <=> Len(x) + m \in keep
  BY <1>1, <1>2
<1> HIDE DEF keep, keepX, keepY
<1>4. /\ Selected(xy, keep) = Selected(x, keepX) \o Selected(y, keepY)
      /\ IsSequence(Selected(x, keepX))
  BY <1>3, PartsJoined DEF xy
<1> QED
  BY <1>4 DEF Booked, xy, keep, keepX, keepY

\* Where none is of the type, where all are, and the trades of one claim.
LEMMA OfTypeNone ==
    ASSUME NEW x, IsSequence(x), NEW type, \A m \in 1 .. Len(x) : x[m].type # type
    PROVE  OfType(x, type) = << >>
<1> DEFINE keep == {m \in DOMAIN x : x[m].type = type}
<1>1. x \in Seq(ToSet(x))
  BY DEF IsSequence
<1>2. \A m \in 1 .. Len(x) : m \notin keep
  OBVIOUS
<1> HIDE DEF keep
<1>3. Selected(x, keep) = << >>
  BY <1>1, <1>2, SelectedNone
<1> QED
  BY <1>3 DEF OfType, keep

LEMMA OfTypeAll ==
    ASSUME NEW x, IsSequence(x), NEW type, \A m \in 1 .. Len(x) : x[m].type = type
    PROVE  OfType(x, type) = x
<1> DEFINE keep == {m \in DOMAIN x : x[m].type = type}
<1>1. x \in Seq(ToSet(x))
  BY DEF IsSequence
<1>2. DOMAIN x = 1 .. Len(x)
  BY <1>1
<1>3. \A m \in 1 .. Len(x) : m \in keep
  BY <1>2
<1> HIDE DEF keep
<1>4. Selected(x, keep) = x
  BY <1>1, <1>3, SelectedAll
<1> QED
  BY <1>4 DEF OfType, keep

LEMMA BookedOne ==
    ASSUME NEW r
    PROVE  Booked(<< r >>) = IF r.type # "liquidity_pool" THEN << r >> ELSE << >>
<1> DEFINE u == << r >>
           keep == {m \in DOMAIN u : u[m].type # "liquidity_pool"}
<1>1. u \in Seq({r}) /\ Len(u) = 1 /\ DOMAIN u = 1 .. 1 /\ u[1] = r
  OBVIOUS
<1>2. CASE r.type # "liquidity_pool"
  <2>1. \A m \in 1 .. Len(u) : m \in keep
    BY <1>1, <1>2
  <2> HIDE DEF keep, u
  <2>2. Selected(u, keep) = u
    BY <1>1, <2>1, SelectedAll
  <2> QED
    BY <1>2, <2>2 DEF Booked, keep, u
<1>3. CASE r.type = "liquidity_pool"
  <2>1. \A m \in 1 .. Len(u) : m \notin keep
    BY <1>1, <1>3
  <2> HIDE DEF keep, u
  <2>2. Selected(u, keep) = << >>
    BY <1>1, <2>1, SelectedNone
  <2> QED
    BY <1>3, <2>2 DEF Booked, keep, u
<1> QED
  BY <1>2, <1>3


\* Effects tell of trades: two "trade" effects of each that is not with a pool,
\* the second of them filed under its seller, and at most one effect of each that
\* is with a pool; exactly one, if told says so.
Tells(x, u, told) ==
    LET trades == OfType(x, "trade")
        pools  == OfType(x, "liquidity_pool_trade")
        book   == Booked(u)
    IN  /\ Len(trades) = 2 * Len(book)
        /\ \A j \in 1 .. Len(book) : trades[2 * j].address = book[j].seller
        /\ Len(pools) <= Len(u) - Len(book)
        /\ told => Len(pools) = Len(u) - Len(book)

LEMMA TellsJoined ==
    ASSUME NEW x, IsSequence(x), NEW y, IsSequence(y), NEW u, IsSequence(u), NEW v, IsSequence(v),
           NEW told, Tells(x, u, told), Tells(y, v, told)
    PROVE  Tells(x \o y, u \o v, told)
<1>a. PICK a, b, c : a = OfType(x, "trade") /\ b = OfType(x, "liquidity_pool_trade") /\ c = Booked(u)
  OBVIOUS
<1>b. PICK d, e, f : d = OfType(y, "trade") /\ e = OfType(y, "liquidity_pool_trade") /\ f = Booked(v)
  OBVIOUS
<1>c. PICK ad, be, cf, uv : ad = a \o d /\ be = b \o e /\ cf = c \o f /\ uv = u \o v
  OBVIOUS
<1>1. JoinsType(x, y, "trade") /\ JoinsType(x, y, "liquidity_pool_trade")
  BY OfTypeJoined
<1>3. Booked(u \o v) = Booked(u) \o Booked(v)
  BY BookedJoined
<1>4. IsSequence(a) /\ IsSequence(b) /\ IsSequence(d) /\ IsSequence(e)
  BY <1>a, <1>b, OfTypeJoined
<1>5. IsSequence(c) /\ IsSequence(f)
  BY <1>a, <1>b, BookedJoined
<1>6. /\ Len(a) \in Nat /\ Len(b) \in Nat /\ Len(c) \in Nat /\ Len(d) \in Nat /\ Len(e) \in Nat
      /\ Len(f) \in Nat /\ Len(u) \in Nat /\ Len(v) \in Nat
  BY <1>4, <1>5, OwnElements DEF IsSequence
<1>7. /\ Len(a) = 2 * Len(c) /\ Len(d) = 2 * Len(f)
      /\ Len(b) <= Len(u) - Len(c) /\ Len(e) <= Len(v) - Len(f)
      /\ told => Len(b) = Len(u) - Len(c) /\ Len(e) = Len(v) - Len(f)
  BY <1>a, <1>b DEF Tells
<1>8. /\ \A j \in 1 .. Len(c) : a[2 * j].address = c[j].seller
      /\ \A j \in 1 .. Len(f) : d[2 * j].address = f[j].seller
  BY <1>a, <1>b DEF Tells
<1>9. /\ Len(ad) = Len(a) + Len(d) /\ Len(be) = Len(b) + Len(e)
      /\ Len(cf) = Len(c) + Len(f) /\ Len(uv) = Len(u) + Len(v)
  BY <1>c, <1>4, <1>5, JoinedIs
<1>10. /\ \A m \in 1 .. Len(a) : ad[m] = a[m]
       /\ \A m \in 1 .. Len(d) : ad[Len(a) + m] = d[m]
  BY <1>c, <1>4, JoinedIs
<1>11. /\ \A m \in 1 .. Len(c) : cf[m] = c[m]
       /\ \A m \in 1 .. Len(f) : cf[Len(c) + m] = f[m]
       /\ \A m \in 1 .. Len(cf) : m \in 1 .. Len(c) \/ \E k \in 1 .. Len(f) : m = Len(c) + k
  <2>1. \A m \in 1 .. Len(c) : cf[m] = c[m]
    BY <1>c, <1>5, JoinedIs
  <2>2. \A m \in 1 .. Len(f) : cf[Len(c) + m] = f[m]
    BY <1>c, <1>5, JoinedIs
  <2>3. \A m \in 1 .. Len(cf) : m \in 1 .. Len(c) \/ \E k \in 1 .. Len(f) : m = Len(c) + k
    BY <1>c, <1>5, JoinedIs
  <2> QED
    BY <2>1, <2>2, <2>3
<1>12. ASSUME NEW j \in 1 .. Len(cf) PROVE ad[2 * j].address = cf[j].seller
  <2>1. CASE j \in 1 .. Len(c)
    <3>1. 2 * j \in 1 .. Len(a)
      BY <1>6, <1>7, <2>1
    <3> QED
      BY <1>8, <1>10, <1>11, <2>1, <3>1
  <2>2. ASSUME NEW k \in 1 .. Len(f), j = Len(c) + k PROVE ad[2 * j].address = cf[j].seller
    <3>1. 2 * k \in 1 .. Len(d) /\ 2 * j = Len(a) + 2 * k
      BY <1>6, <1>7, <2>2
    <3>2. PICK q : q = 2 * k
      OBVIOUS
    <3>3. ad[2 * j] = d[q] /\ cf[j] = f[k] /\ d[q].address = f[k].seller
      BY <1>8, <1>10, <1>11, <2>2, <3>1, <3>2
    <3> QED
      BY <3>3
  <2> QED
    BY <1>11, <2>1, <2>2
<1>13. Len(ad) = 2 * Len(cf) /\ Len(be) <= Len(uv) - Len(cf) /\ (told => Len(be) = Len(uv) - Len(cf))
  <2>1. Len(ad) = 2 * Len(cf)
    BY <1>6, <1>7, <1>9
  <2>2. Len(be) <= Len(uv) - Len(cf)
    BY <1>6, <1>7, <1>9
  <2>3. ASSUME told PROVE Len(be) = Len(uv) - Len(cf)
    <3>1. Len(b) = Len(u) - Len(c) /\ Len(e) = Len(v) - Len(f)
      BY <1>7, <2>3
    <3> QED
      BY <1>6, <1>9, <3>1
  <2> QED
    BY <2>1, <2>2, <2>3
<1>14. OfType(x \o y, "trade") = ad /\ OfType(x \o y, "liquidity_pool_trade") = be /\ Booked(u \o v) = cf
  BY <1>a, <1>b, <1>c, <1>1, <1>3, Zenon DEF JoinsType
<1> QED
  BY <1>c, <1>12, <1>13, <1>14 DEF Tells

\* Plain effects tell of no trade.
LEMMA PlainTells ==
    ASSUME NEW x, Plain(x), NEW told
    PROVE  Tells(x, << >>, told)
<1>1. OfType(x, "trade") = << >> /\ OfType(x, "liquidity_pool_trade") = << >>
  BY OfTypeNone DEF Plain, TradeTypes
<1>2. Booked(<< >>) = << >>
  BY SelectedEmpty DEF Booked
<1>3. Len(<< >>) = 0
  OBVIOUS
<1> QED
  BY <1>1, <1>2, <1>3 DEF Tells

LEMMA PairTells ==
    ASSUME NEW a, IsSequence(a), Len(a) = 2, a[1].type = "trade", a[2].type = "trade",
           NEW r, r.type # "liquidity_pool", a[2].address = r.seller, NEW told
    PROVE  Tells(a, << r >>, told)
<1>1. \A m \in 1 .. Len(a) : a[m].type = "trade"
  <2>1. \A m \in 1 .. 2 : m = 1 \/ m = 2
    OBVIOUS
  <2> QED
    BY <2>1
<1>2. OfType(a, "trade") = a
  BY <1>1, OfTypeAll
<1>3. OfType(a, "liquidity_pool_trade") = << >>
  BY <1>1, OfTypeNone
<1>4. Booked(<< r >>) = << r >>
  BY BookedOne
<1>5. Len(<< >>) = 0 /\ Len(<< r >>) = 1 /\ << r >>[1] = r
  OBVIOUS
<1>a. PICK u, none : u = << r >> /\ none = << >>
  OBVIOUS
<1>6. Len(a) = 2 * Len(u)
  BY <1>a, <1>5
<1>7. \A j \in 1 .. Len(u) : a[2 * j].address = u[j].seller
  <2>1. \A j \in 1 .. 1 : j = 1 /\ 2 * j = 2
    OBVIOUS
  <2> QED
    BY <1>a, <1>5, <2>1
<1>8. Len(none) <= Len(u) - Len(u) /\ Len(none) = Len(u) - Len(u)
  BY <1>a, <1>5
<1>9. /\ OfType(a, "trade") = a /\ OfType(a, "liquidity_pool_trade") = none
      /\ Booked(u) = u
  BY <1>a, <1>2, <1>3, <1>4
<1>10. Tells(a, u, told)
  BY <1>6, <1>7, <1>8, <1>9 DEF Tells
<1> QED
  BY <1>a, <1>10

\* Sequences with nothing after them.
LEMMA NothingAfter ==
    ASSUME NEW x, IsSequence(x)
    PROVE  x \o << >> = x
BY DEF IsSequence

LEMMA OrderbookTells ==
    ASSUME NEW op, NEW claim, NEW r, r.type # "liquidity_pool", claim.maker = r.seller, NEW told
    PROVE  /\ IsSequence(OrderbookTradeEffects(op, claim))
           /\ Tells(OrderbookTradeEffects(op, claim), << r >>, told)
<1> DEFINE both(type) == << Effect(op.source, type, claim.asset, claim.sold),
                            Effect(claim.maker, type, claim.asset, claim.bought) >>
<1>1. PICK a, b, c : a = both("trade") /\ b = both("offer_updated") /\ c = both("offer_removed")
  OBVIOUS
<1>2. OrderbookTradeEffects(op, claim) = a \o b \o c
  BY <1>1, Zenon DEF OrderbookTradeEffects
<1>3. IsSequence(a) /\ Len(a) = 2 /\ a[1].type = "trade" /\ a[2].type = "trade"
      /\ a[2].address = r.seller
  <2>1. a \in Seq({a[1], a[2]}) /\ Len(a) = 2
    BY <1>1
  <2>2. a[1].type = "trade" /\ a[2].type = "trade" /\ a[2].address = r.seller
    BY <1>1, EffectType
  <2> QED
    BY <2>1, <2>2, OwnElements
<1>4. Plain(b) /\ Plain(c)
  BY <1>1, PlainOnes, EffectType DEF TradeTypes
<1> HIDE DEF both
<1>5. Tells(a, << r >>, told)
  BY <1>3, PairTells
<1>6. Tells(b, << >>, told) /\ Tells(c, << >>, told)
  BY <1>4, PlainTells
<1>7. IsSequence(<< r >>) /\ IsSequence(<< >>) /\ IsSequence(b) /\ IsSequence(c)
  BY <1>4, SmallSequences DEF Plain
<1>8. << r >> \o << >> = << r >>
  BY <1>7, NothingAfter
<1>9. IsSequence(a \o b) /\ Tells(a \o b, << r >>, told)
  <2>1. IsSequence(a \o b)
    BY <1>3, <1>7, JoinedIs
  <2>2. Tells(a \o b, << r >> \o << >>, told)
    BY <1>3, <1>5, <1>6, <1>7, TellsJoined
  <2> QED
    BY <1>8, <2>1, <2>2, Zenon
<1>10. PICK ab : ab = a \o b
  OBVIOUS
<1>11. IsSequence(ab \o c) /\ Tells(ab \o c, << r >>, told)
  <2>0. IsSequence(ab) /\ Tells(ab, << r >>, told)
    BY <1>9, <1>10
  <2>1. IsSequence(ab \o c)
    BY <2>0, <1>7, JoinedIs
  <2>2. Tells(ab \o c, << r >> \o << >>, told)
    BY <2>0, <1>6, <1>7, TellsJoined
  <2> QED
    BY <1>8, <2>1, <2>2, Zenon
<1> QED
  BY <1>2, <1>10, <1>11, Zenon

MovesAny(claim) == ~(claim.sold = 0 /\ claim.bought = 0)

LEMMA PoolTells ==
    ASSUME NEW op, WellFormed(op), NEW claim \in ToSet(op.claims), MovesAny(claim),
           claim.kind = "liquidity_pool", NEW r, r.type = "liquidity_pool"
    PROVE  /\ IsSequence(PoolTradeEffects(op, claim))
           /\ Tells(PoolTradeEffects(op, claim), << r >>, op.changes # << >>)
<1> DEFINE x == PoolTradeEffects(op, claim)
           e == Effect(op.source, "liquidity_pool_trade", claim.asset, claim.sold)
           told == op.changes # << >>
<1>1. Booked(<< r >>) = << >>
  BY BookedOne
<1>2. Len(<< >>) = 0 /\ Len(<< r >>) = 1
  OBVIOUS
<1>3. e.type = "liquidity_pool_trade"
  BY EffectType
<1>4. told => \E i \in DOMAIN op.changes : op.changes[i].key = claim.maker
  BY DEF WellFormed, MovesAny, ToSet
<1>5. x = << e >> \/ (x = << >> /\ ~told)
  BY <1>4 DEF PoolTradeEffects
<1> HIDE DEF x, told, e
<1>6. CASE x = << e >>
  <2>1. IsSequence(x) /\ Len(x) = 1 /\ x[1] = e
    BY <1>6, SmallSequences
  <2>2. \A m \in 1 .. Len(x) : x[m].type = "liquidity_pool_trade"
    <3>1. \A m \in 1 .. 1 : m = 1
      OBVIOUS
    <3> QED
      BY <1>3, <2>1, <3>1
  <2>3. OfType(x, "liquidity_pool_trade") = x
    BY <2>1, <2>2, OfTypeAll
  <2>4. OfType(x, "trade") = << >>
    BY <2>1, <2>2, OfTypeNone
  <2>5. PICK u, none : u = << r >> /\ none = << >>
    OBVIOUS
  <2>6. Len(none) = 0 /\ Len(u) = 1
    BY <1>2, <2>5
  <2>7. /\ Len(none) = 2 * Len(none) /\ \A j \in 1 .. Len(none) : none[2 * j].address = none[j].seller
        /\ Len(x) <= Len(u) - Len(none) /\ Len(x) = Len(u) - Len(none)
    BY <2>1, <2>6
  <2>8. /\ Booked(u) = none /\ OfType(x, "trade") = none
        /\ OfType(x, "liquidity_pool_trade") = x
    BY <1>1, <2>3, <2>4, <2>5
  <2>9. Tells(x, u, told)
    BY <2>7, <2>8 DEF Tells
  <2> QED
    BY <2>1, <2>5, <2>9 DEF x, told
<1>7. CASE x = << >> /\ ~told
  <2>1. IsSequence(x) /\ Len(x) = 0
    BY <1>2, <1>7, SmallSequences
  <2>2. OfType(x, "liquidity_pool_trade") = << >> /\ OfType(x, "trade") = << >>
    BY <2>1, OfTypeNone
  <2>5. PICK u, none : u = << r >> /\ none = << >>
    OBVIOUS
  <2>6. Len(none) = 0 /\ Len(u) = 1
    BY <1>2, <2>5
  <2>7. /\ Len(none) = 2 * Len(none) /\ \A j \in 1 .. Len(none) : none[2 * j].address = none[j].seller
        /\ Len(none) <= Len(u) - Len(none)
    BY <2>6
  <2>8. /\ Booked(u) = none /\ OfType(x, "trade") = none
        /\ OfType(x, "liquidity_pool_trade") = none
    BY <1>1, <2>2, <2>5
  <2>9. Tells(x, u, told)
    BY <1>7, <2>7, <2>8 DEF Tells
  <2> QED
    BY <2>1, <2>5, <2>9 DEF x, told
<1> QED
  BY <1>5, <1>6, <1>7

\* The effects of a claim tell of the claim's trade.
LEMMA ClaimTells ==
    ASSUME NEW op, WellFormed(op), NEW claim \in ToSet(op.claims), MovesAny(claim),
           NEW r, r.type = claim.kind, r.seller = claim.maker
    PROVE  /\ IsSequence(ClaimEffects(op, claim))
           /\ Tells(ClaimEffects(op, claim), << r >>, op.changes # << >>)
<1>1. CASE claim.kind = "liquidity_pool"
  <2>1. ClaimEffects(op, claim) = PoolTradeEffects(op, claim)
    BY <1>1 DEF ClaimEffects, MovesAny
  <2> QED
    BY <1>1, <2>1, PoolTells
<1>2. CASE claim.kind # "liquidity_pool"
  <2>1. ClaimEffects(op, claim) = OrderbookTradeEffects(op, claim)
    BY <1>2 DEF ClaimEffects, MovesAny
  <2>2. PICK told : told = (op.changes # << >>)
    OBVIOUS
  <2>3. /\ IsSequence(OrderbookTradeEffects(op, claim))
        /\ Tells(OrderbookTradeEffects(op, claim), << r >>, told)
    BY <1>2, OrderbookTells
  <2> QED
    BY <2>1, <2>2, <2>3
<1> QED
  BY <1>1, <1>2

\* Trades that name the claims of an operation, one for each.
NameClaims(R, op) ==
    /\ IsSequence(R) /\ Len(R) = Len(op.claims)
    /\ \A n \in 1 .. Len(R) : R[n].type = op.claims[n].kind /\ R[n].seller = op.claims[n].maker

\* The trade effects of an operation tell of the trades of its claims that
\* moved something.
LEMMA TradesTold ==
    ASSUME NEW op, WellFormed(op), NEW R, NameClaims(R, op),
           NEW keep, \A n \in 1 .. Len(R) : n \in keep <=> MovesAny(op.claims[n])
    PROVE  /\ IsSequence(TradeEffects(op)) /\ IsSequence(Selected(R, keep))
           /\ Tells(TradeEffects(op), Selected(R, keep), op.changes # << >>)
<1>0. PICK told : told = (op.changes # << >>)
  OBVIOUS
<1> DEFINE N == Len(R)
           S == ToSet(R)
           lists == ClaimLists(op)
<1>1. R \in Seq(S) /\ N \in Nat /\ N = Len(op.claims) /\ DOMAIN op.claims = 1 .. N
      /\ \A n \in 1 .. N : op.claims[n] \in ToSet(op.claims)
  <2>1. R \in Seq(S) /\ N = Len(op.claims)
    BY DEF NameClaims, IsSequence
  <2>2. DOMAIN op.claims = 1 .. Len(op.claims) /\ Len(op.claims) \in Nat
        /\ \A n \in DOMAIN op.claims : op.claims[n] \in ToSet(op.claims)
    BY OwnElements DEF WellFormed, IsSequence
  <2> QED
    BY <2>1, <2>2
<1>2. \A n \in 1 .. N : lists[n] = ClaimEffects(op, op.claims[n])
  BY <1>1 DEF ClaimLists
<1>3. ASSUME NEW n \in 1 .. N, MovesAny(op.claims[n])
      PROVE  IsSequence(lists[n]) /\ Tells(lists[n], << R[n] >>, told)
  <2>1. R[n].type = op.claims[n].kind /\ R[n].seller = op.claims[n].maker
    BY DEF NameClaims
  <2> QED
    BY <1>0, <1>1, <1>2, <1>3, <2>1, ClaimTells
<1>4. ASSUME NEW n \in 1 .. N, ~MovesAny(op.claims[n])
      PROVE  lists[n] = << >>
  BY <1>2, <1>4 DEF ClaimEffects, MovesAny
<1>5. \A n \in 1 .. N : IsSequence(lists[n])
  BY <1>3, <1>4, SmallSequences
<1>6. Along(lists, op.claims)
  BY DEF ClaimLists, Along
<1> HIDE DEF lists, S
<1>7. PICK T : lists \in Seq(Seq(T))
  BY <1>1, <1>5, <1>6, FlattenSequence DEF WellFormed
<1>8. PICK g : JoinsUp(g, lists, T)
  BY <1>7, FlattenPrefixes
<1>9. Len(lists) = N
  <2> DEFINE L == {lists[m] : m \in 1 .. Len(op.claims)}
  <2>1. \A n \in 1 .. Len(op.claims) : lists[n] \in L
    OBVIOUS
  <2>2. IsSequence(op.claims)
    BY DEF WellFormed
  <2> HIDE DEF L
  <2>3. Len(lists) = Len(op.claims)
    BY <1>6, <2>1, <2>2, AlongTyped
  <2> QED
    BY <1>1, <2>3
<1> HIDE DEF N
<1>10. PICK c : Computes(c, N, R, keep) /\ Selected(R, keep) = c[N]
  BY <1>1, SelectedIsLast DEF N
<1> DEFINE G == {n \in 0 .. N : IsSequence(g[n]) /\ c[n] \in Seq(S) /\ Tells(g[n], c[n], told)}
<1>11. 0 \in G
  <2>1. g[0] = << >> /\ c[0] = << >> /\ 0 \in 0 .. N
    BY <1>1, <1>8, <1>10, ComputesUnfold DEF JoinsUp, StepAt
  <2>2. << >> \in Seq(S) /\ IsSequence(<< >>)
    BY SmallSequences
  <2>3. Tells(<< >>, << >>, told)
    BY PlainOnes, PlainTells
  <2> QED
    BY <2>1, <2>2, <2>3
<1>12. ASSUME NEW n \in 0 .. N - 1, n \in G PROVE n + 1 \in G
  <2>1. n + 1 \in 1 .. N /\ n + 1 \in 0 .. N /\ (n + 1) - 1 = n /\ n + 1 # 0
    BY <1>1
  <2>2. c[n + 1] = StepAt(c, n + 1, R, keep)
    BY <1>10, <2>1, ComputesUnfold
  <2>3. g[n + 1] = g[n] \o lists[n + 1]
    BY <1>8, <1>9, <2>1 DEF JoinsUp
  <2>4. PICK x, u : x = g[n] /\ u = c[n] /\ IsSequence(x) /\ u \in Seq(S) /\ Tells(x, u, told)
    BY <1>12
  <2>5. IsSequence(u)
    BY <2>4, OwnElements
  <2>6. CASE MovesAny(op.claims[n + 1])
    <3>1. PICK y, e : y = lists[n + 1] /\ e = R[n + 1]
      OBVIOUS
    <3>2. IsSequence(y) /\ Tells(y, << e >>, told) /\ e \in S
      BY <1>1, <1>3, <2>1, <2>6, <3>1 DEF N
    <3>3. c[n + 1] = Append(u, e)
      <4>1. n + 1 \in keep
        BY <2>1, <2>6 DEF N
      <4> QED
        BY <2>1, <2>2, <2>4, <3>1, <4>1, Zenon DEF StepAt
    <3>4. Append(u, e) = u \o << e >> /\ Append(u, e) \in Seq(S)
      BY <2>4, <3>2
    <3>5. IsSequence(<< e >>)
      BY SmallSequences
    <3>6. Tells(x \o y, u \o << e >>, told)
      BY <2>4, <2>5, <3>2, <3>5, TellsJoined
    <3>7. IsSequence(x \o y)
      BY <2>4, <3>2, JoinedIs
    <3>8. g[n + 1] = x \o y
      BY <2>3, <2>4, <3>1, Zenon
    <3>9. IsSequence(g[n + 1]) /\ c[n + 1] \in Seq(S) /\ Tells(g[n + 1], c[n + 1], told)
      BY <3>3, <3>4, <3>6, <3>7, <3>8, Zenon
    <3> QED
      BY <2>1, <3>9
  <2>7. CASE ~MovesAny(op.claims[n + 1])
    <3>1. c[n + 1] = u
      <4>1. n + 1 \notin keep
        BY <2>1, <2>7 DEF N
      <4> QED
        BY <2>1, <2>2, <2>4, <4>1, Zenon DEF StepAt
    <3>2. lists[n + 1] = << >>
      BY <1>4, <2>1, <2>7
    <3>3. x \o << >> = x
      BY <2>4, NothingAfter
    <3>4. g[n + 1] = x
      BY <2>3, <2>4, <3>2, <3>3, Zenon
    <3> QED
      BY <2>1, <2>4, <3>1, <3>4
  <2> QED
    BY <2>6, <2>7
<1> HIDE DEF G
<1>13. \A n \in 0 .. N : n \in G
  BY <1>1, <1>11, <1>12, Induction
<1>14. N \in G
  BY <1>1, <1>13
<1>15. TradeEffects(op) = g[N]
  BY <1>8, <1>9, TradeEffectsAre DEF JoinsUp, lists
<1>16. IsSequence(c[N])
  BY <1>14, OwnElements DEF G
<1> QED
  BY <1>0, <1>10, <1>14, <1>15, <1>16 DEF G

\* What the effects of an operation are: those of its trades, with plain ones
\* around them, or plain ones alone.
LEMMA EffectsAre ==
    ASSUME NEW op, WellFormed(op)
    PROVE  /\ EffectsOf(op) = OperationEffects(op) \o ChangeEffects(op)
           /\ op.kind = "offer" => OperationEffects(op) = TradeEffects(op)
           /\ op.kind = "path_payment" =>
                 \E x : Plain(x) /\ OperationEffects(op) = x \o TradeEffects(op)
<1>1. EffectsOf(op) = OperationEffects(op) \o ChangeEffects(op)
  BY DEF EffectsOf, ChangeEffects
<1>2. op.kind = "offer" => OperationEffects(op) = TradeEffects(op)
  BY DEF OperationEffects, ReturnOnError
<1>3. ASSUME op.kind = "path_payment"
      PROVE  \E x : Plain(x) /\ OperationEffects(op) = x \o TradeEffects(op)
  <2> DEFINE d == Effect(op.dest, "account_credited", op.asset, op.amount)
             e == Effect(op.source, "account_debited", op.sendAsset, op.sendAmount)
  <2>1. OperationEffects(op) = PathPaymentEffects(op)
    BY <1>3 DEF OperationEffects, ReturnOnError
  <2>2. PathPaymentEffects(op) = << d, e >> \o TradeEffects(op)
    BY DEF PathPaymentEffects
  <2>3. Plain(<< d, e >>)
    BY PlainOnes, EffectType DEF TradeTypes
  <2> HIDE DEF d, e
  <2> QED
    BY <2>1, <2>2, <2>3, Zenon
<1> QED
  BY <1>1, <1>2, <1>3

LEMMA EffectsTold ==
    ASSUME NEW op, WellFormed(op)
    PROVE  /\ IsSequence(EffectsOf(op))
           /\ ~Trading(op) => Tells(EffectsOf(op), << >>, op.changes # << >>)
           /\ \A R, keep :
                 Trading(op) /\ NameClaims(R, op)
                 /\ (\A n \in 1 .. Len(R) : n \in keep <=> MovesAny(op.claims[n]))
                 => /\ IsSequence(Selected(R, keep))
                    /\ Tells(EffectsOf(op), Selected(R, keep), op.changes # << >>)
<1>0. PICK told : told = (op.changes # << >>)
  OBVIOUS
<1>1. PICK z : z = ChangeEffects(op) /\ Plain(z)
  BY PlainChanges
<1>2. IsSequence(z) /\ Tells(z, << >>, told)
  BY <1>1, PlainTells DEF Plain
<1>3. EffectsOf(op) = OperationEffects(op) \o z
  BY <1>1, EffectsAre, Zenon
<1>4. IsSequence(<< >>)
  BY SmallSequences
<1>5. ASSUME NEW o, o = OperationEffects(op), NEW u, IsSequence(o), IsSequence(u), Tells(o, u, told)
      PROVE  IsSequence(EffectsOf(op)) /\ Tells(EffectsOf(op), u, told)
  <2>1. IsSequence(o \o z)
    BY <1>2, <1>5, JoinedIs
  <2>2. Tells(o \o z, u \o << >>, told)
    BY <1>2, <1>4, <1>5, TellsJoined
  <2>3. u \o << >> = u
    BY <1>5, NothingAfter
  <2> QED
    BY <1>3, <1>5, <2>1, <2>2, <2>3, Zenon
<1>6. CASE ~Trading(op)
  <2>1. PICK o : o = OperationEffects(op) /\ Plain(o)
    BY <1>6, PlainOperation
  <2>2. IsSequence(o) /\ Tells(o, << >>, told)
    BY <2>1, PlainTells DEF Plain
  <2>3. IsSequence(EffectsOf(op)) /\ Tells(EffectsOf(op), << >>, told)
    BY <1>4, <1>5, <2>1, <2>2
  <2> QED
    BY <1>0, <1>6, <2>3, Zenon
<1>7. ASSUME NEW R, NEW keep, Trading(op), NameClaims(R, op),
             \A n \in 1 .. Len(R) : n \in keep <=> MovesAny(op.claims[n])
      PROVE  /\ IsSequence(EffectsOf(op)) /\ IsSequence(Selected(R, keep))
             /\ Tells(EffectsOf(op), Selected(R, keep), told)
  <2>1. PICK v, u : v = TradeEffects(op) /\ u = Selected(R, keep)
    OBVIOUS
  <2>2. IsSequence(v) /\ IsSequence(u) /\ Tells(v, u, told)
    BY <1>0, <1>7, <2>1, TradesTold
  <2>3. CASE op.kind = "offer"
    <3>1. v = OperationEffects(op)
      BY <2>1, <2>3, EffectsAre, Zenon
    <3> QED
      BY <1>5, <2>1, <2>2, <3>1
  <2>4. CASE op.kind = "path_payment"
    <3>1. PICK x : Plain(x) /\ OperationEffects(op) = x \o v
      BY <2>1, <2>4, EffectsAre, Zenon
    <3>2. IsSequence(x) /\ Tells(x, << >>, told)
      BY <3>1, PlainTells DEF Plain
    <3>3. IsSequence(x \o v)
      BY <2>2, <3>2, JoinedIs
    <3>4. Tells(x \o v, << >> \o u, told)
      BY <1>4, <2>2, <3>2, TellsJoined
    <3>5. << >> \o u = u
      BY <2>2 DEF IsSequence
    <3>6. PICK o : o = OperationEffects(op) /\ o = x \o v
      BY <3>1, Zenon
    <3>7. IsSequence(o) /\ Tells(o, u, told)
      BY <3>3, <3>4, <3>5, <3>6, Zenon
    <3> QED
      BY <1>5, <2>1, <2>2, <3>6, <3>7
  <2> QED
    BY <1>7, <2>3, <2>4 DEF Trading
<1>8. Trading(op) => IsSequence(EffectsOf(op))
  <2> DEFINE row(n) == [type |-> op.claims[n].kind, seller |-> op.claims[n].maker]
             R == [n \in 1 .. Len(op.claims) |-> row(n)]
             keep == {n \in 1 .. Len(op.claims) : MovesAny(op.claims[n])}
             S == {row(n) : n \in 1 .. Len(op.claims)}
  <2>1. Len(op.claims) \in Nat
    BY OwnElements DEF WellFormed, IsSequence
  <2>2. \A n \in 1 .. Len(op.claims) : row(n) \in S
    OBVIOUS
  <2>3. \A n : row(n).type = op.claims[n].kind /\ row(n).seller = op.claims[n].maker
    OBVIOUS
  <2> HIDE DEF row, S
  <2>4. R \in Seq(S) /\ Len(R) = Len(op.claims) /\ \A n \in 1 .. Len(R) : R[n] = row(n)
    BY <2>1, <2>2
  <2>5. \A n \in 1 .. Len(R) : n \in keep <=> MovesAny(op.claims[n])
    BY <2>4
  <2> HIDE DEF R, keep
  <2>6. NameClaims(R, op)
    BY <2>3, <2>4, OwnElements DEF NameClaims
  <2> QED
    BY <1>7, <2>5, <2>6
<1> QED
  BY <1>0, <1>6, <1>7, <1>8, Zenon

\* Rows of as many effects, of the same types and filed under the same accounts.
Alike(x, y) ==
    /\ IsSequence(x) /\ IsSequence(y) /\ Len(x) = Len(y)
    /\ \A m \in 1 .. Len(x) : x[m].type = y[m].type /\ x[m].address = y[m].address

LEMMA OfTypeAlike ==
    ASSUME NEW x, NEW y, Alike(x, y), NEW type
    PROVE  /\ Len(OfType(x, type)) = Len(OfType(y, type)) /\ Len(OfType(x, type)) \in Nat
           /\ \A k \in 1 .. Len(OfType(x, type)) :
                 OfType(x, type)[k].address = OfType(y, type)[k].address
<1> DEFINE keep == {m \in DOMAIN x : x[m].type = type}
           kept == {m \in DOMAIN y : y[m].type = type}
<1>1. x \in Seq(ToSet(x)) /\ y \in Seq(ToSet(y)) /\ Len(x) = Len(y)
  BY DEF Alike, IsSequence
<1>2. DOMAIN x = 1 .. Len(x) /\ DOMAIN y = 1 .. Len(x)
  BY <1>1
<1>3. keep = kept
  BY <1>2 DEF Alike
<1> HIDE DEF keep, kept
<1>4. Parallel(Selected(x, keep), Selected(y, keep), x, y)
  BY <1>1, SelectedAlike
<1>5. OfType(x, type) = Selected(x, keep) /\ OfType(y, type) = Selected(y, keep)
  BY <1>3 DEF OfType, keep, kept
<1>6. Selected(x, keep) \in Seq(ToSet(x))
  BY <1>1, SelectedPositions
<1>7. Len(Selected(x, keep)) \in Nat
  BY <1>6
<1> QED
  BY <1>4, <1>5, <1>7 DEF Parallel, Alike

LEMMA TellsAlike ==
    ASSUME NEW x, NEW y, Alike(x, y), NEW u, IsSequence(u), NEW told, Tells(x, u, told)
    PROVE  Tells(y, u, told)
<1>1. PICK a, b, c : a = OfType(x, "trade") /\ b = OfType(x, "liquidity_pool_trade") /\ c = Booked(u)
  OBVIOUS
<1>2. PICK d, e : d = OfType(y, "trade") /\ e = OfType(y, "liquidity_pool_trade")
  OBVIOUS
<1>3. /\ Len(a) = Len(d) /\ Len(a) \in Nat /\ Len(b) = Len(e)
      /\ \A k \in 1 .. Len(a) : a[k].address = d[k].address
  BY <1>1, <1>2, OfTypeAlike
<1>4. /\ Len(a) = 2 * Len(c) /\ Len(b) <= Len(u) - Len(c)
      /\ told => Len(b) = Len(u) - Len(c)
      /\ \A j \in 1 .. Len(c) : a[2 * j].address = c[j].seller
  BY <1>1 DEF Tells
<1>5. Len(c) \in Nat
  BY <1>1, BookedJoined, OwnElements DEF IsSequence
<1>6. \A j \in 1 .. Len(c) : 2 * j \in 1 .. Len(a)
  BY <1>3, <1>4, <1>5
<1>7. \A j \in 1 .. Len(c) : d[2 * j].address = c[j].seller
  BY <1>3, <1>4, <1>6
<1>8. Len(d) = 2 * Len(c) /\ Len(e) <= Len(u) - Len(c) /\ (told => Len(e) = Len(u) - Len(c))
  BY <1>3, <1>4
<1> QED
  BY <1>1, <1>2, <1>7, <1>8 DEF Tells

=============================================================================
