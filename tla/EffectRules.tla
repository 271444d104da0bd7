----------------------------- MODULE EffectRules -----------------------------
(***************************************************************************)
(* What ExtractEffects makes of one operation of a successful transaction  *)
(* (effects.go): an operator per generator, OperationEffects for the       *)
(* switch over operation types, and the two treatments that the ledger-    *)
(* entry changes of every operation get.  No state of its own.             *)
(*                                                                         *)
(* An effect is the account it is filed under, its type, what its details  *)
(* name (a signer key, an entry, an asset) and a value (a weight, an       *)
(* amount, a sponsor).  A change is a ledger-entry key with the state      *)
(* before and after.  op.source is the operation's own source account or   *)
(* that of its transaction; op.changes is what GetOperationChanges gives,  *)
(* nothing when it fails, which op.readable tells; op.assetEvents are the  *)
(* asset contracts' events among what GetContractEvents gives, which       *)
(* op.eventsReadable tells; op.network tells whether the passphrase of the *)
(* network, without which an asset's contract is not known, is there.      *)
(***************************************************************************)
EXTENDS Integers, Sequences, SequencesExt

CONSTANTS NoEntry,      \* the nil Pre or Post of a change
          NoSponsor,    \* the nil SponsoringID
          Native,       \* the native asset
          Accounts,     \* addresses that are accounts, not contracts
          SignerOrder   \* the signer keys, in the order of their strkeys

Effect(address, type, about, value) ==
    [address |-> address, type |-> type, about |-> about, value |-> value]

IsSequence(s) == s \in Seq(ToSet(s))

ASSUME SignerOrderAssumption == IsSequence(SignerOrder)

\* The effect types of the options of SetOptions, in code order; its signers
\* are read off the changes.
OptionEffects ==
    {"account_home_domain_updated", "account_thresholds_updated",
     "account_flags_updated", "account_inflation_destination_updated"}

\* What is known of an operation: its lists are lists, changes that cannot be
\* read are none, and among those that can be read there is the pool of every
\* claim that moved something.
WellFormed(op) ==
    /\ IsSequence(op.claims) /\ IsSequence(op.changes) /\ IsSequence(op.assetEvents)
    /\ op.kind = "set_options" => op.options \in Seq(OptionEffects)
    /\ op.kind = "inflation" => IsSequence(op.payouts)
    /\ \A c \in ToSet(op.changes) :
          c.key.type = "claimable_balance" /\ c.post # NoEntry => IsSequence(c.post.claimants)
    /\ op.readable \/ op.changes = << >>
    /\ op.readable => \A claim \in ToSet(op.claims) :
          claim.kind = "liquidity_pool" /\ ~(claim.sold = 0 /\ claim.bought = 0)
          => \E c \in ToSet(op.changes) : c.key = claim.maker

Created(c) == c.pre = NoEntry /\ c.post # NoEntry
Removed(c) == c.pre # NoEntry /\ c.post = NoEntry
Updated(c) == c.pre # NoEntry /\ c.post # NoEntry

\* The effects of each element of a sequence, in its order.
ForEach(s, Effects(_)) == FlattenSeq([i \in DOMAIN s |-> Effects(s[i])])

\* The effects of the first change a generator looks for; its loop breaks there.
ForFirst(changes, Wanted(_), Effects(_)) ==
    LET i == SelectInSeq(changes, Wanted)
    IN  IF i = 0 THEN << >> ELSE Effects(changes[i])

-----------------------------------------------------------------------------
(* Operation-specific effects.                                              *)

CreateAccountEffects(op) ==
    << Effect(op.dest, "account_created", Native, op.amount),
       Effect(op.source, "account_debited", Native, op.amount),
       Effect(op.dest, "signer_created", op.dest, 1) >>

\* Mutation: the credit is filed under the account that sends.
PaymentEffectsToSource(op) ==
    << Effect(op.source, "account_credited", op.asset, op.amount),
       Effect(op.source, "account_debited", op.asset, op.amount) >>

PaymentEffects(op) ==
    << Effect(op.dest, "account_credited", op.asset, op.amount),
       Effect(op.source, "account_debited", op.asset, op.amount) >>

OrderbookTradeEffects(op, claim) ==
    LET both(type) == << Effect(op.source, type, claim.asset, claim.sold),
                         Effect(claim.maker, type, claim.asset, claim.bought) >>
    IN  both("trade") \o both("offer_updated") \o both("offer_removed")

\* A pool claim whose pool is not among the operation's changes has no effect.
PoolTradeEffects(op, claim) ==
    IF \E i \in DOMAIN op.changes : op.changes[i].key = claim.maker
    THEN << Effect(op.source, "liquidity_pool_trade", claim.asset, claim.sold) >>
    ELSE << >>

\* Mutation: claims that moved nothing are not left out.
TradeEffectsUnfiltered(op) ==
    ForEach(op.claims, LAMBDA claim :
        IF claim.kind = "liquidity_pool" THEN PoolTradeEffects(op, claim)
        ELSE OrderbookTradeEffects(op, claim))

TradeEffects(op) ==
    ForEach(op.claims, LAMBDA claim :
        IF claim.sold = 0 /\ claim.bought = 0 THEN << >>
        ELSE IF claim.kind = "liquidity_pool" THEN PoolTradeEffects(op, claim)
        ELSE OrderbookTradeEffects(op, claim))

PathPaymentEffects(op) ==
    << Effect(op.dest, "account_credited", op.asset, op.amount),
       Effect(op.source, "account_debited", op.sendAsset, op.sendAmount) >>
    \o TradeEffects(op)

\* Mutation: a signer that is gone is reported with the weight of a missing key.
SignerEffectsByWeight(source, before, after) ==
    LET weight(f, k) == IF k \in DOMAIN f THEN f[k] ELSE 0
    IN  ForEach(SignerOrder, LAMBDA k :
            IF weight(before, k) = weight(after, k) THEN << >>
            ELSE << Effect(source, "signer_updated", k, weight(after, k)) >>)

\* Removed and updated signers in key order, then created ones in key order.
SignerEffects(source, before, after) ==
    LET old(k) ==
            IF k \notin DOMAIN before THEN << >>
            ELSE IF k \notin DOMAIN after THEN << Effect(source, "signer_removed", k, 0) >>
            ELSE IF after[k] # before[k] THEN << Effect(source, "signer_updated", k, after[k]) >>
            ELSE << >>
        new(k) ==
            IF k \in DOMAIN after /\ k \notin DOMAIN before
            THEN << Effect(source, "signer_created", k, after[k]) >>
            ELSE << >>
    IN  ForEach(SignerOrder, old) \o ForEach(SignerOrder, new)

\* op.options: the effect types of the options that are set, in code order.
SetOptionsEffects(op) ==
    [i \in DOMAIN op.options |-> Effect(op.source, op.options[i], "option", 0)]
    \o ForEach(op.changes, LAMBDA c :
           IF c.key.type = "account" /\ Updated(c)
           THEN SignerEffects(op.source, c.pre.signers, c.post.signers)
           ELSE << >>)

\* Mutation: any trustline among the changes is taken for the operation's.
ChangeTrustEffectsOfFirst(op) ==
    ForFirst(op.changes,
        LAMBDA c : c.key.type = "trustline",
        LAMBDA c : << Effect(op.source,
                         CASE Created(c) -> "trustline_created"
                           [] Removed(c) -> "trustline_removed"
                           [] OTHER      -> "trustline_updated",
                         c.key.id, 0) >>)

\* The trustline of the operation is recognised by its asset type alone.
ChangeTrustEffects(op) ==
    ForFirst(op.changes,
        LAMBDA c : c.key.type = "trustline" /\ c.key.id.kind = op.asset.kind,
        LAMBDA c : << Effect(op.source,
                         CASE Created(c) -> "trustline_created"
                           [] Removed(c) -> "trustline_removed"
                           [] OTHER      -> "trustline_updated",
                         c.key.id, 0) >>)

\* AllowTrust and SetTrustLineFlags.
TrustFlagsEffects(op) ==
    << Effect(op.source, "trustline_flags_updated", op.asset, 0) >>

\* Mutation: the balance moves, the account's end is not reported.
MergeEffectsWithoutRemoval(op) ==
    << Effect(op.source, "account_debited", Native, op.amount),
       Effect(op.dest, "account_credited", Native, op.amount) >>

MergeEffects(op) ==
    << Effect(op.source, "account_debited", Native, op.amount),
       Effect(op.dest, "account_credited", Native, op.amount),
       Effect(op.source, "account_removed", Native, 0) >>

InflationEffects(op) ==
    [i \in DOMAIN op.payouts |->
        Effect(op.payouts[i].dest, "account_credited", Native, op.payouts[i].amount)]

\* Without a data change the effect type keeps its initial value 0, which is
\* account_created.
ManageDataEffects(op) ==
    IF SelectInSeq(op.changes, LAMBDA c : c.key.type = "data") = 0
    THEN << Effect(op.source, "account_created", Native, 0) >>
    ELSE ForFirst(op.changes, LAMBDA c : c.key.type = "data",
             LAMBDA c : << Effect(op.source,
                              CASE Created(c) -> "data_created"
                                [] Removed(c) -> "data_removed"
                                [] OTHER      -> "data_updated",
                              c.key.id, 0) >>)

BumpSequenceEffects(op) ==
    ForFirst(op.changes, LAMBDA c : c.key.type = "account" /\ Updated(c),
        LAMBDA c : IF c.pre.seq = c.post.seq THEN << >>
                   ELSE << Effect(op.source, "sequence_bumped", "seq", c.post.seq) >>)

CreateClaimableBalanceEffects(op) ==
    ForFirst(op.changes,
        LAMBDA c : c.key.type = "claimable_balance" /\ c.post # NoEntry,
        LAMBDA c :
            << Effect(op.source, "claimable_balance_created", c.key, c.post.amount) >>
            \o [i \in DOMAIN c.post.claimants |->
                   Effect(c.post.claimants[i], "claimable_balance_claimant_created",
                          c.key, c.post.amount)]
            \o << Effect(op.source, "account_debited", c.post.asset, c.post.amount) >>)

ClaimClaimableBalanceEffects(op) ==
    ForFirst(op.changes,
        LAMBDA c : c.key.type = "claimable_balance" /\ Removed(c) /\ c.key = op.entry,
        LAMBDA c :
            << Effect(op.source, "claimable_balance_claimed", c.key, c.pre.amount),
               Effect(op.source, "account_credited", c.pre.asset, c.pre.amount) >>)

ClawbackEffects(op) ==
    << Effect(op.source, "account_credited", op.asset, op.amount),
       Effect(op.dest, "account_debited", op.asset, op.amount) >>

\* The first effect does not wait for the changes to be readable.
ClawbackClaimableBalanceEffects(op) ==
    << Effect(op.source, "claimable_balance_clawed_back", op.entry, 0) >>
    \o ForFirst(op.changes,
           LAMBDA c : c.key.type = "claimable_balance" /\ Removed(c),
           LAMBDA c : << Effect(op.source, "account_credited", c.pre.asset, c.pre.amount) >>)

\* LiquidityPoolDeposit and LiquidityPoolWithdraw: the difference between the
\* pool before and after, wherever the pool is among the changes.
PoolEffects(op, type) ==
    ForFirst(op.changes, LAMBDA c : c.key = op.entry,
        LAMBDA c : << Effect(op.source, type, c.key, 0) >>)

\* One side of an asset-contract event: filed under the account, or under the
\* operation's source with the contract in its details.
Party(op, event, who, accountType, contractType) ==
    IF who \in Accounts
    THEN << Effect(who, accountType, event.asset, event.amount) >>
    ELSE << Effect(op.source, contractType, who, event.amount) >>

DebitEffects(op, event)  == Party(op, event, event.from, "account_debited", "contract_debited")
CreditEffects(op, event) == Party(op, event, event.to, "account_credited", "contract_credited")

AssetEventEffects(op) ==
    ForEach(op.assetEvents, LAMBDA event :
        CASE event.type = "transfer" -> DebitEffects(op, event) \o CreditEffects(op, event)
          [] event.type = "mint"     -> CreditEffects(op, event)
          [] OTHER                   -> DebitEffects(op, event))

\* Nothing without the network's passphrase, nor when the events cannot be read.
InvokeHostFunctionEffects(op) ==
    IF op.network /\ op.eventsReadable THEN AssetEventEffects(op) ELSE << >>

\* ExtendFootprintTtl and RestoreFootprint: one effect, listing TTL entries.
FootprintEffects(op, type) ==
    << Effect(op.source, type, "entries",
              {c.key : c \in {d \in ToSet(op.changes) :
                                 d.key.type = "ttl" /\ d.post # NoEntry}}) >>

\* Mutation: ManageData ignores the error of GetOperationChanges.
ReturnOnErrorForgotten == {"extend_ttl", "restore"}

\* Generators that would have an effect even without a change, were it not for
\* their return on an error of GetOperationChanges.
ReturnOnError == {"manage_data", "extend_ttl", "restore"}

\* The switch over op.Body.Type.
OperationEffects(op) ==
    IF op.kind \in ReturnOnError /\ ~op.readable THEN << >> ELSE
    CASE op.kind = "create_account"   -> CreateAccountEffects(op)
      [] op.kind = "payment"          -> PaymentEffects(op)
      [] op.kind = "path_payment"     -> PathPaymentEffects(op)
      [] op.kind = "offer"            -> TradeEffects(op)
      [] op.kind = "set_options"      -> SetOptionsEffects(op)
      [] op.kind = "change_trust"     -> ChangeTrustEffects(op)
      [] op.kind = "trust_flags"      -> TrustFlagsEffects(op)
      [] op.kind = "merge"            -> MergeEffects(op)
      [] op.kind = "inflation"        -> InflationEffects(op)
      [] op.kind = "manage_data"      -> ManageDataEffects(op)
      [] op.kind = "bump_sequence"    -> BumpSequenceEffects(op)
      [] op.kind = "create_claimable_balance" -> CreateClaimableBalanceEffects(op)
      [] op.kind = "claim_claimable_balance"  -> ClaimClaimableBalanceEffects(op)
      [] op.kind = "clawback"         -> ClawbackEffects(op)
      [] op.kind = "clawback_claimable_balance" -> ClawbackClaimableBalanceEffects(op)
      [] op.kind = "pool_deposit"     -> PoolEffects(op, "liquidity_pool_deposited")
      [] op.kind = "pool_withdraw"    -> PoolEffects(op, "liquidity_pool_withdrew")
      [] op.kind = "invoke"           -> InvokeHostFunctionEffects(op)
      [] op.kind = "extend_ttl"       -> FootprintEffects(op, "extend_footprint_ttl")
      [] op.kind = "restore"          -> FootprintEffects(op, "restore_footprint")
      [] OTHER                        -> << >>

-----------------------------------------------------------------------------
(* Effects of every operation's ledger-entry changes.                       *)

Sponsor(state) == IF state = NoEntry THEN NoSponsor ELSE state.sponsor

SponsoredTypes == {"account", "trustline", "data", "claimable_balance"}

\* Accounts and trustlines are filed under their owner, the rest under the
\* operation's source.  Nothing says which trustline of the owner it is.
SponsorshipEffect(op, c, step, sponsor) ==
    Effect(IF c.key.type \in {"account", "trustline"} THEN c.key.owner ELSE op.source,
           step,
           IF c.key.type = "trustline" THEN << c.key.type, c.key.owner >>
           ELSE << c.key.type, c.key.id >>,
           sponsor)

\* Mutation: a sponsor that goes away together with its entry is overlooked.
SponsorshipEffectsOfLiving(op, c) ==
    LET before == Sponsor(c.pre)  after == Sponsor(c.post)
    IN  IF c.key.type \notin SponsoredTypes \/ before = after THEN << >>
        ELSE IF before = NoSponsor THEN << SponsorshipEffect(op, c, "sponsorship_created", after) >>
        ELSE IF c.post = NoEntry THEN << >>
        ELSE IF after = NoSponsor THEN << SponsorshipEffect(op, c, "sponsorship_removed", before) >>
        ELSE << SponsorshipEffect(op, c, "sponsorship_updated", after) >>

SponsorshipEffects(op, c) ==
    LET before == Sponsor(c.pre)  after == Sponsor(c.post)
    IN  IF c.key.type \notin SponsoredTypes \/ before = after THEN << >>
        ELSE IF before = NoSponsor THEN << SponsorshipEffect(op, c, "sponsorship_created", after) >>
        ELSE IF after = NoSponsor THEN << SponsorshipEffect(op, c, "sponsorship_removed", before) >>
        ELSE << SponsorshipEffect(op, c, "sponsorship_updated", after) >>

PoolLifecycleEffects(op, c) ==
    IF c.key.type # "liquidity_pool" THEN << >>
    ELSE IF Created(c) THEN << Effect(op.source, "liquidity_pool_created", c.key, 0) >>
    ELSE IF Removed(c) THEN << Effect(op.source, "liquidity_pool_removed", c.key, 0) >>
    ELSE << >>

\* The records of one operation; their positions are the effect indices.
EffectsOf(op) ==
    OperationEffects(op)
    \o ForEach(op.changes, LAMBDA c : SponsorshipEffects(op, c)
                                      \o PoolLifecycleEffects(op, c))
=============================================================================
