---------------------------- MODULE EffectReplay ----------------------------
(***************************************************************************)
(* What the effects of ExtractEffects are for: a consumer that reads only  *)
(* them keeps a copy of accounts, balances, signers, entries and sponsors. *)
(* The network performs one successful operation after another, its        *)
(* ledger-entry changes come in any order, and at most MaxUnread kinds of  *)
(* operations are read in part only, see Perform; after each, the consumer *)
(* folds the operation's effects into its copy.  The network's actions are *)
(* external: only the generators of EffectRules are the repository's.      *)
(* Fees are charged outside operations and are left out of the balances.   *)
(* The network has no trades, no pool deposits and withdrawals, and no     *)
(* revocation of a trustline's authorization, which takes pool shares away *)
(* and creates claimable balances without an effect of either.             *)
(***************************************************************************)
EXTENDS EffectRules, FiniteSets

CONSTANTS Credit,       \* a credit asset, a record with its kind
          PoolShare,    \* the share asset of the one liquidity pool
          Root, Backer, \* accounts that are never merged; Root issues Credit
          Extra,        \* a signer key that is no account
          Contract,     \* a contract that can hold the native asset
          Name,         \* a data name
          Claimable,    \* the ids of claimable balances
          Pool,         \* the id of the pool
          Starts,       \* sets of users that have an account from the start
          Supply,       \* what Root starts with
          MaxWeight,    \* bound on signer weights
          MaxOps,       \* bound on operations
          MaxUnread     \* bound on the kinds of operations read in part

Users    == Accounts \ {Root, Backer}
Holders  == Users \X {Native, Credit} \cup {Root, Contract} \X {Native}
Sponsors == {Root, Backer}

Key(type, owner, id) == [type |-> type, owner |-> owner, id |-> id]
AccountKey(a)     == Key("account", a, a)
LineKey(a, asset) == Key("trustline", a, asset)
DataKey(a)        == Key("data", a, Name)
ClaimableKey(b)   == Key("claimable_balance", b, b)
PoolKey           == Key("liquidity_pool", Pool, Pool)
HeldKey           == Key("contract_data", Contract, Contract)

Keys == {AccountKey(a) : a \in Accounts}
        \cup {LineKey(a, asset) : a \in Users, asset \in {Credit, PoolShare}}
        \cup {DataKey(a) : a \in Users}
        \cup {ClaimableKey(b) : b \in Claimable}
        \cup {PoolKey, HeldKey}

MaybeSponsor == Sponsors \cup {NoSponsor}

\* The signers an account can have; a weight of 0 is no signer.
Weights == UNION {[keys -> 1 .. MaxWeight] : keys \in SUBSET ToSet(SignerOrder)}

Claimants == << Root >> \o SetToSeq(Users)

\* What an entry can be, by the type of its key.
EntryType(k) ==
    IF k.type = "account" THEN
        [balance : Int, signers : Weights, sponsor : MaybeSponsor]
    ELSE IF k.type = "trustline" THEN
        [balance : Int, uses : Int, limit : Int, sponsor : MaybeSponsor]
    ELSE IF k.type = "data" THEN
        [value : Int, sponsor : MaybeSponsor]
    ELSE IF k.type = "claimable_balance" THEN
        [amount : Int, asset : {Native, Credit}, claimants : {Claimants}, sponsor : MaybeSponsor]
    ELSE IF k.type = "liquidity_pool" THEN
        [lines : Int, sponsor : {NoSponsor}]
    ELSE
        [balance : Int, sponsor : {NoSponsor}]

ASSUME NamesAssumption ==
    /\ {Root, Backer} \subseteq Accounts /\ Root # Backer /\ IsFiniteSet(Accounts)
    /\ Accounts \cup {Extra} \subseteq ToSet(SignerOrder)
    /\ Contract \notin Accounts /\ NoSponsor \notin Accounts
    /\ Native # Credit /\ Credit.kind # PoolShare.kind
    /\ \A k \in Keys : NoEntry \notin EntryType(k)

ASSUME BoundsAssumption ==
    /\ \A users \in Starts : users \subseteq Users
    /\ Supply \in Nat /\ MaxWeight \in Nat \ {0} /\ MaxOps \in Nat /\ MaxUnread \in Nat

VARIABLES entries,  \* the ledger: each key's entry, or NoEntry
          spent,    \* ids of claimable balances that have existed
          replica,  \* the consumer's copy
          unread,   \* kinds of the operations read in part
          ops       \* operations so far

vars == << entries, spent, replica, unread, ops >>

-----------------------------------------------------------------------------
(* The consumer.                                                            *)

Nobody == [k \in {} |-> 0]

\* Effects after which an entry exists, and after which it does not.
Arrivals   == {"account_created", "trustline_created", "trustline_updated", "data_created",
               "claimable_balance_created", "liquidity_pool_created"}
Departures == {"account_removed", "trustline_removed", "data_removed",
               "claimable_balance_claimed", "claimable_balance_clawed_back",
               "liquidity_pool_removed"}

\* The entry that such an effect tells of.
EntryOf(e) ==
    CASE e.type \in {"account_created", "account_removed"} -> AccountKey(e.address)
      [] e.type \in {"trustline_created", "trustline_updated", "trustline_removed"} ->
            LineKey(e.address, e.about)
      [] e.type \in {"data_created", "data_removed"} -> DataKey(e.address)
      [] OTHER -> e.about

AliveAfter(alive, e) ==
    IF e.type \in Arrivals THEN alive \cup {EntryOf(e)}
    ELSE IF e.type \in Departures THEN alive \ {EntryOf(e)}
    ELSE alive

Add(balance, holder, asset, delta) ==
    IF << holder, asset >> \in DOMAIN balance
    THEN [balance EXCEPT ![<< holder, asset >>] = @ + delta]
    ELSE balance

BalanceAfter(balance, e) ==
    CASE e.type = "account_created"   -> [balance EXCEPT ![<< e.address, Native >>] = e.value]
      [] e.type = "account_credited"  -> Add(balance, e.address, e.about, e.value)
      [] e.type = "account_debited"   -> Add(balance, e.address, e.about, -e.value)
      [] e.type = "contract_credited" -> Add(balance, e.about, Native, e.value)
      [] e.type = "contract_debited"  -> Add(balance, e.about, Native, -e.value)
      [] OTHER                        -> balance

SignersAfter(signers, e) ==
    CASE e.type \in {"account_created", "account_removed"} ->
            [signers EXCEPT ![e.address] = Nobody]
      [] e.type \in {"signer_created", "signer_updated"} ->
            [signers EXCEPT ![e.address] =
                [k \in DOMAIN @ \cup {e.about} |-> IF k = e.about THEN e.value ELSE @[k]]]
      [] e.type = "signer_removed" ->
            [signers EXCEPT ![e.address] = [k \in DOMAIN @ \ {e.about} |-> @[k]]]
      [] OTHER -> signers

SponsorsAfter(sponsor, e) ==
    IF e.type \in {"sponsorship_created", "sponsorship_updated"} /\ e.about \in DOMAIN sponsor
    THEN [sponsor EXCEPT ![e.about] = e.value]
    ELSE IF e.type = "sponsorship_removed" /\ e.about \in DOMAIN sponsor
    THEN [sponsor EXCEPT ![e.about] = NoSponsor]
    ELSE sponsor

LinesAfter(lines, e) ==
    IF e.type = "sponsorship_created" /\ e.about[1] = "trustline"
    THEN [lines EXCEPT ![e.about[2]] = @ + 1]
    ELSE IF e.type = "sponsorship_removed" /\ e.about[1] = "trustline"
    THEN [lines EXCEPT ![e.about[2]] = @ - 1]
    ELSE lines

Apply(r, e) ==
    [alive   |-> AliveAfter(r.alive, e),
     balance |-> BalanceAfter(r.balance, e),
     signers |-> SignersAfter(r.signers, e),
     sponsor |-> SponsorsAfter(r.sponsor, e),
     lines   |-> LinesAfter(r.lines, e)]

\* The copy after a list of effects.
Consumed(r, effects) ==
    LET upTo[n \in 0 .. Len(effects)] ==
            IF n = 0 THEN r ELSE Apply(upTo[n - 1], effects[n])
    IN  upTo[Len(effects)]

-----------------------------------------------------------------------------
(* The network.                                                             *)

AccountEntry(amount, signers, sponsor) ==
    [balance |-> amount, signers |-> signers, sponsor |-> sponsor]
LineEntry(sponsor) == [balance |-> 0, uses |-> 0, limit |-> 1, sponsor |-> sponsor]
Master(a)          == [k \in {a} |-> 1]

Live(k) == entries[k] # NoEntry

BalanceKey(holder, asset) ==
    IF holder = Contract THEN HeldKey
    ELSE IF asset = Native THEN AccountKey(holder)
    ELSE LineKey(holder, asset)

\* A holder's balance; the issuer's own asset is not held anywhere.
BalanceOf(holder, asset) ==
    IF Live(BalanceKey(holder, asset))
    THEN entries[BalanceKey(holder, asset)].balance
    ELSE 0

IsIssuer(a, asset) == a = Root /\ asset = Credit
CanHold(a, asset)  == Live(AccountKey(a))
                      /\ (~IsIssuer(a, asset) => Live(BalanceKey(a, asset)))
CanPay(a, asset, amount) ==
    CanHold(a, asset) /\ (~IsIssuer(a, asset) => BalanceOf(a, asset) >= amount)

\* The entries that a holder's balance changing by delta touches.
Moved(holder, asset, delta) ==
    IF IsIssuer(holder, asset) THEN << >>
    ELSE [k \in {BalanceKey(holder, asset)} |->
              [entries[k] EXCEPT !.balance = @ + delta]]

With(f, g) == [k \in DOMAIN f \cup DOMAIN g |-> IF k \in DOMAIN f THEN f[k] ELSE g[k]]
Set(key, entry) == [k \in {key} |-> entry]

Transfer(from, to, asset, amount) ==
    IF from = to THEN Moved(from, asset, 0)
    ELSE With(Moved(from, asset, -amount), Moved(to, asset, amount))

Operation(kind, source) ==
    [kind |-> kind, source |-> source, dest |-> source, amount |-> 0,
     asset |-> Native, options |-> << >>, entry |-> AccountKey(source),
     claims |-> << >>, assetEvents |-> << >>, changes |-> << >>,
     readable |-> TRUE, eventsReadable |-> TRUE, network |-> TRUE]

\* The operation succeeds with the new entries, and its effects are consumed.
\* It is read whole; or its transaction's meta is of a version that neither
\* GetOperationChanges nor GetContractEvents supports; or an invocation is read
\* without the network's passphrase.
Perform(op, after) ==
    LET change(k) == [key |-> k, pre |-> entries[k], post |-> after[k]]
        touched   == {change(k) : k \in DOMAIN after}
        consume(read) == Consumed(replica, EffectsOf(read))
    IN  /\ ops < MaxOps
        /\ ops' = ops + 1
        /\ entries' = With(after, entries)
        /\ \/ \E order \in SetToSeqs(touched) :
                  replica' = consume([op EXCEPT !.changes = order])
              /\ UNCHANGED unread
           \/ /\ Cardinality(unread) < MaxUnread
              /\ unread' = unread \cup {op.kind}
              /\ replica' = consume([op EXCEPT !.readable = FALSE, !.eventsReadable = FALSE])
           \/ /\ op.kind = "invoke" /\ Cardinality(unread) < MaxUnread
              /\ unread' = unread \cup {op.kind}
              /\ \E order \in SetToSeqs(touched) :
                    replica' = consume([op EXCEPT !.changes = order, !.network = FALSE])

CreateAccount(source, dest, amount, sponsor) ==
    /\ CanPay(source, Native, amount) /\ ~Live(AccountKey(dest))
    /\ Perform([Operation("create_account", source) EXCEPT !.dest = dest, !.amount = amount],
               With(Set(AccountKey(dest), AccountEntry(amount, Master(dest), sponsor)),
                    Moved(source, Native, -amount)))
    /\ UNCHANGED spent

Payment(source, dest, asset, amount) ==
    /\ CanPay(source, asset, amount) /\ CanHold(dest, asset)
    /\ Perform([Operation("payment", source) EXCEPT
                   !.dest = dest, !.asset = asset, !.amount = amount],
               Transfer(source, dest, asset, amount))
    /\ UNCHANGED spent

\* A transfer by the native asset's contract: an account's balance is its
\* account entry, the contract's an entry of contract data.
ContractTransfer(source, from, to, amount) ==
    /\ Live(AccountKey(source)) /\ from # to
    /\ \A x \in {from, to} : x \in Users => Live(AccountKey(x))
    /\ BalanceOf(from, Native) >= amount
    /\ Perform([Operation("invoke", source) EXCEPT
                   !.assetEvents = << [type |-> "transfer", from |-> from, to |-> to,
                                       asset |-> Native, amount |-> amount] >>],
               Transfer(from, to, Native, amount))
    /\ UNCHANGED spent

\* Weight 0 takes a signer away; an account's own key is its master weight.
SetSigner(source, k, weight) ==
    LET key     == AccountKey(source)
        signers == entries[key].signers
    IN  /\ Live(key)
        /\ weight = 0 => k \in DOMAIN signers
        /\ Perform(Operation("set_options", source),
                   Set(key, [entries[key] EXCEPT !.signers =
                       IF weight = 0 THEN [s \in DOMAIN signers \ {k} |-> signers[s]]
                       ELSE With(Set(k, weight), signers)]))
        /\ UNCHANGED spent

\* Without trustlines, data or anything it sponsors an account may go.
Merge(source, dest) ==
    LET amount == BalanceOf(source, Native)
    IN  /\ Live(AccountKey(source)) /\ Live(AccountKey(dest)) /\ source # dest
        /\ \A k \in Keys : k.type \in {"trustline", "data"} /\ k.owner = source => ~Live(k)
        /\ Perform([Operation("merge", source) EXCEPT !.dest = dest, !.amount = amount],
                   With(Set(AccountKey(source), NoEntry), Moved(dest, Native, amount)))
        /\ UNCHANGED spent

ChangeTrust(source, sponsor) ==
    LET key == LineKey(source, Credit)
        op  == [Operation("change_trust", source) EXCEPT !.asset = Credit]
    IN  /\ Live(AccountKey(source))
        /\ \/ ~Live(key) /\ Perform(op, Set(key, LineEntry(sponsor)))
           \/ Live(key) /\ Perform(op, Set(key, [entries[key] EXCEPT !.limit = 3 - @]))
           \/ Live(key) /\ entries[key].balance = 0 /\ entries[key].uses = 0
              /\ Perform(op, Set(key, NoEntry))
        /\ UNCHANGED spent

\* A pool share counts in its credit trustline and in the pool, which comes
\* with the first share and goes with the last.
ChangePoolTrust(source) ==
    LET share == LineKey(source, PoolShare)
        line  == LineKey(source, Credit)
        op    == [Operation("change_trust", source) EXCEPT !.asset = PoolShare]
        lines == IF Live(PoolKey) THEN entries[PoolKey].lines ELSE 0
        counted(d) ==
            With(Set(line, [entries[line] EXCEPT !.uses = @ + d]),
                 Set(PoolKey, IF lines + d = 0 THEN NoEntry
                              ELSE [lines |-> lines + d, sponsor |-> NoSponsor]))
    IN  /\ Live(AccountKey(source)) /\ Live(line)
        /\ \/ ~Live(share) /\ Perform(op, With(Set(share, LineEntry(NoSponsor)), counted(1)))
           \/ Live(share) /\ Perform(op, With(Set(share, NoEntry), counted(-1)))
        /\ UNCHANGED spent

ManageData(source, sponsor) ==
    LET key == DataKey(source)  op == Operation("manage_data", source)
    IN  /\ Live(AccountKey(source))
        /\ \/ ~Live(key) /\ Perform(op, Set(key, [value |-> 1, sponsor |-> sponsor]))
           \/ Live(key) /\ Perform(op, Set(key, entries[key]))
           \/ Live(key) /\ Perform(op, Set(key, NoEntry))
        /\ UNCHANGED spent

\* Ids are never used twice.
CreateClaimable(source, b, asset, amount, sponsor) ==
    /\ b \notin spent /\ spent' = spent \cup {b}
    /\ CanPay(source, asset, amount)
    /\ Perform([Operation("create_claimable_balance", source) EXCEPT !.asset = asset],
               With(Set(ClaimableKey(b), [amount |-> amount, asset |-> asset,
                                          claimants |-> Claimants, sponsor |-> sponsor]),
                    Moved(source, asset, -amount)))

Claim(source, b) ==
    /\ Live(ClaimableKey(b))
    /\ CanHold(source, entries[ClaimableKey(b)].asset)
    /\ Perform([Operation("claim_claimable_balance", source) EXCEPT !.entry = ClaimableKey(b)],
               With(Set(ClaimableKey(b), NoEntry),
                    Moved(source, entries[ClaimableKey(b)].asset, entries[ClaimableKey(b)].amount)))
    /\ UNCHANGED spent

ClawbackClaimable(b) ==
    /\ Live(ClaimableKey(b)) /\ entries[ClaimableKey(b)].asset = Credit
    /\ Perform([Operation("clawback_claimable_balance", Root) EXCEPT !.entry = ClaimableKey(b)],
               Set(ClaimableKey(b), NoEntry))
    /\ UNCHANGED spent

Clawback(from, amount) ==
    /\ CanPay(from, Credit, amount)
    /\ Perform([Operation("clawback", Root) EXCEPT
                   !.dest = from, !.asset = Credit, !.amount = amount],
               Moved(from, Credit, -amount))
    /\ UNCHANGED spent

\* The sponsor gives the reserve back to the owner or to another sponsor; a
\* claimable balance always has one.
RevokeSponsorship(k, sponsor) ==
    /\ Live(k) /\ entries[k].sponsor \notin {NoSponsor, sponsor}
    /\ k.type = "claimable_balance" => sponsor # NoSponsor
    /\ Perform(Operation("revoke_sponsorship", entries[k].sponsor),
               Set(k, [entries[k] EXCEPT !.sponsor = sponsor]))
    /\ UNCHANGED spent

-----------------------------------------------------------------------------
TheSponsored == {<< "account", a >> : a \in Accounts}
                \cup {<< "claimable_balance", b >> : b \in Claimable}

\* The ledger may already hold the accounts of some users, with Credit.
StartEntries(users) ==
    [k \in Keys |->
        IF k = AccountKey(Root) THEN AccountEntry(Supply, Master(Root), NoSponsor)
        ELSE IF k = AccountKey(Backer) THEN AccountEntry(0, Master(Backer), NoSponsor)
        ELSE IF k = HeldKey THEN [balance |-> 0, sponsor |-> NoSponsor]
        ELSE IF k.type = "account" /\ k.owner \in users THEN
            AccountEntry(1, With(Master(k.owner), Set(Extra, 1)), Backer)
        ELSE IF k.type = "trustline" /\ k.owner \in users /\ k.id = Credit THEN
            [LineEntry(Backer) EXCEPT !.balance = 1]
        ELSE NoEntry]

\* The consumer starts from a snapshot.
Init ==
    /\ \E users \in Starts : entries = StartEntries(users)
    /\ spent = {} /\ unread = {} /\ ops = 0
    /\ replica =
          [alive   |-> {k \in Keys \ {HeldKey} : Live(k)},
           balance |-> [h \in Holders |-> BalanceOf(h[1], h[2])],
           signers |-> [a \in Accounts |->
                          IF Live(AccountKey(a)) THEN entries[AccountKey(a)].signers
                          ELSE Nobody],
           sponsor |-> [x \in TheSponsored |-> Sponsor(entries[Key(x[1], x[2], x[2])])],
           lines   |-> [a \in Users |-> IF Sponsor(entries[LineKey(a, Credit)]) = NoSponsor
                                        THEN 0 ELSE 1]]

Actors == Accounts \ {Backer}
Backed == {NoSponsor, Backer}

Next ==
    \/ \E source \in Actors, dest \in Users, sponsor \in Backed :
          CreateAccount(source, dest, 1, sponsor)
    \/ \E source, dest \in Actors, asset \in {Native, Credit} :
          Payment(source, dest, asset, 1)
    \/ \E source \in Actors, from, to \in Actors \cup {Contract} :
          ContractTransfer(source, from, to, 1)
    \/ \E a \in Users, weight \in 0..MaxWeight : \E k \in {a, Extra} : SetSigner(a, k, weight)
    \/ \E source \in Users, dest \in Actors : Merge(source, dest)
    \/ \E a \in Users, sponsor \in Backed : ChangeTrust(a, sponsor)
    \/ \E a \in Users : ChangePoolTrust(a)
    \/ \E a \in Users, sponsor \in Backed : ManageData(a, sponsor)
    \/ \E source \in Actors, b \in Claimable, asset \in {Native, Credit}, sponsor \in Sponsors :
          CreateClaimable(source, b, asset, 1, sponsor)
    \/ \E source \in Actors, b \in Claimable : Claim(source, b)
    \/ \E b \in Claimable : ClawbackClaimable(b)
    \/ \E from \in Users : Clawback(from, 1)
    \/ \E k \in Keys, sponsor \in Sponsors \cup {NoSponsor} : RevokeSponsorship(k, sponsor)
    \/ ops = MaxOps /\ UNCHANGED vars

Spec == Init /\ [][Next]_vars

-----------------------------------------------------------------------------
\* The consumer's copy keeps its shape: signers carry weights a signer can have
\* (a weight of 0 is no signer), sponsors are sponsors.
TypeOK ==
    /\ DOMAIN entries = Keys
    /\ spent \subseteq Claimable
    /\ replica.alive \subseteq Keys
    /\ DOMAIN replica.balance = Holders
    /\ \A a \in Accounts :
           /\ DOMAIN replica.signers[a] \subseteq ToSet(SignerOrder)
           /\ \A k \in DOMAIN replica.signers[a] : replica.signers[a][k] \in 1..MaxWeight
    /\ replica.sponsor \in [TheSponsored -> Sponsors \cup {NoSponsor}]
    /\ DOMAIN replica.lines = Users
    /\ Cardinality(unread) <= MaxUnread
    /\ ops \in 0..MaxOps

\* The accounts of the copy are those of the ledger, whatever operations had
\* unreadable changes: addAccountCreatedEffects and addAccountMergeEffects take
\* what they need from the operation and its result.
ReplayAccounts ==
    \A a \in Accounts : AccountKey(a) \in replica.alive <=> Live(AccountKey(a))

\* The operations whose effects on such an entry come from their changes.
ChangesNeededFor(type) ==
    CASE type = "claimable_balance" -> {"create_claimable_balance", "claim_claimable_balance"}
      [] type = "data"              -> {"manage_data"}
      [] OTHER                      -> {"change_trust"}

\* Trustlines, data, claimable balances and the pool exist in the copy exactly
\* when they exist in the ledger, in whatever order the changes of an operation
\* come; only the operations that read their changes can spoil it, and only for
\* the entries they are about.  A clawed-back balance is reported without them.
ReplayEntries ==
    \A k \in Keys :
        /\ k.type \in {"trustline", "data", "claimable_balance", "liquidity_pool"}
        /\ unread \cap ChangesNeededFor(k.type) = {}
        => (k \in replica.alive <=> Live(k))

\* Credits and debits add up to every holder's balance in both assets,
\* contracts included, over payments, merges, claimable balances, clawbacks and
\* asset-contract transfers.  Only claimable balances whose changes, and
\* invocations whose events or network are not known can spoil it: these
\* generators return without the effects and without an error.
ReplayBalances ==
    unread \cap (ChangesNeededFor("claimable_balance") \cup {"invoke"}) = {}
    => \A h \in Holders : replica.balance[h] = BalanceOf(h[1], h[2])

\* The signer effects, with the one of an account's creation, rebuild every
\* account's signers and weights, its master key among them.
ReplaySigners ==
    "set_options" \notin unread
    => \A a \in Accounts :
           replica.signers[a] =
               (IF Live(AccountKey(a)) THEN entries[AccountKey(a)].signers ELSE Nobody)

\* The sponsorship effects tell who sponsors each account and claimable balance,
\* and how many trustlines of an account are sponsored: which ones, and whose
\* data entry, the effects do not say.
ReplaySponsors ==
    unread = {} =>
        /\ \A x \in TheSponsored :
               replica.sponsor[x] = Sponsor(entries[Key(x[1], x[2], x[2])])
        /\ \A a \in Users :
               replica.lines[a] = Cardinality({k \in {LineKey(a, Credit), LineKey(a, PoolShare)} :
                                                   Sponsor(entries[k]) # NoSponsor})
=============================================================================
