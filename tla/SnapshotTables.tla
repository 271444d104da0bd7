--------------------------- MODULE SnapshotTables ---------------------------
(***************************************************************************)
(* The twelve extractors that fold ledger-entry changes into a map of rows *)
(* and write the map out sorted: accounts.go, market.go, state.go and the  *)
(* contract data, contract code and restored keys of soroban.go.  They are *)
(* the same loop around a different treatment of one change, and none sees *)
(* another's map: a behaviour runs one of them, table, over one ledger.    *)
(*                                                                         *)
(* The ledger makes a change when the loop is about to read it.  Changes   *)
(* arrive in the order they were made, so latest, live and archived are    *)
(* the ledger's state up to the change last read.                          *)
(***************************************************************************)
EXTENDS Naturals, Sequences

CONSTANTS Keys,     \* ledger-entry keys
          Scope,    \* table -> the keys the ledger may change
          Values,     \* what an entry holds apart from its signers
          Signers     \* signer keys of accounts

EntryTypes ==
    { "account", "trustline", "offer", "claimable_balance", "liquidity_pool",
      "config_setting", "contract_data", "contract_code", "ttl" }

\* pool: the trustline holds pool shares.  unlisted: contract data under a nonce
\* key or not owned by a contract, a claimable balance or a pool of an unknown
\* version.
Key == [type : EntryTypes, owner : Nat, id : Nat,
        kind : {"plain", "pool", "unlisted"}]

Tables ==
    { "accounts", "trustlines", "account_signers", "native_balances",
      "offers", "claimable_balances", "liquidity_pools", "config_settings",
      "ttl", "contract_data", "contract_code", "restored_keys" }

\* Entries that can be archived and restored.
Archivable == {"contract_data", "contract_code", "ttl"}

KeyHash(k) == << k.owner, k.id >>

ASSUME SnapshotAssumption ==
    /\ Keys \subseteq Key
    /\ \A j, k \in Keys : KeyHash(j) = KeyHash(k) => j = k
    /\ \A k \in Keys : k.type = "account" => k.id = 0 /\ k.kind = "plain"
    /\ Scope \in [Tables -> SUBSET Keys]
    /\ Values \subseteq Nat \ {0}
    /\ Signers \subseteq Nat

Entry   == [value : Values, signers : SUBSET Signers]
NoEntry == [value |-> 0, signers |-> {}]
Row     == [value : Values, deleted : BOOLEAN]

NoRows  == [r \in {} |-> 0]

EntriesOf(k) ==
    {e \in Entry : k.type = "account" \/ e.signers = {}}

VARIABLES table,              \* the extractor that runs
          latest, live, archived,
          touched, restored,  \* history of the ledger: keys changed, restored
          lost,               \* keys of changes the TTL walk failed to get
          rows,               \* the de-duplication map
          phase,              \* "reading", "writing" or "done"
          out                 \* the keys of the rows written, in order

ledger == << latest, live, archived, touched, restored, lost >>
vars   == << table, ledger, rows, phase, out >>

Init ==
    /\ table \in Tables
    /\ latest \in [Scope[table] -> Entry \cup {NoEntry}]
    /\ live = {k \in Scope[table] : latest[k] # NoEntry}
    /\ \A k \in live : latest[k] \in EntriesOf(k)
    /\ archived \in SUBSET {k \in Scope[table] \ live : k.type \in Archivable}
    /\ touched = {} /\ restored = {} /\ lost = {}
    /\ rows = NoRows
    /\ phase = "reading"
    /\ out = << >>

-----------------------------------------------------------------------------
(* The rows of one change, a function from row keys.                       *)

\* The identity a row is de-duplicated by.  A pool-share trustline is named
\* account:POOL_SHARE:pool, whatever the pool.
RowKey(k) == << k.owner, IF k.kind = "pool" THEN 0 ELSE k.id >>

Only(key, row) == [r \in {key} |-> row]

Active(c) == IF c.post # NoEntry THEN c.post ELSE c.pre

Listed(c, type) == c.key.type = type /\ c.key.kind # "unlisted"

\* Mutation: the row is built without looking whether there is a post state.
LiveRowUnguarded(c, type) ==
    IF Listed(c, type)
    THEN Only(RowKey(c.key), [value |-> c.post.value, deleted |-> FALSE])
    ELSE NoRows

\* Tables of live entries: a removal leaves the map as it is.
LiveRow(c, type) ==
    IF Listed(c, type) /\ c.post # NoEntry
    THEN Only(RowKey(c.key), [value |-> c.post.value, deleted |-> FALSE])
    ELSE NoRows

\* Mutation: the pre state is looked at before the post state.
FlaggedRowPreFirst(c, type) ==
    IF Listed(c, type)
    THEN Only(RowKey(c.key),
              [value |-> IF c.pre # NoEntry THEN c.pre.value ELSE c.post.value,
               deleted |-> c.pre # NoEntry])
    ELSE NoRows

\* Tables with a deleted column: the post state, or the pre state as deleted.
FlaggedRow(c, type) ==
    IF Listed(c, type)
    THEN Only(RowKey(c.key), [value |-> Active(c).value,
                              deleted |-> c.post = NoEntry])
    ELSE NoRows

\* Mutation: contract data whose removals are ignored.
ContractDataRowsLive(c) == LiveRow(c, "contract_data")

AccountRows(c)          == LiveRow(c, "account")
TrustlineRows(c)        == LiveRow(c, "trustline")
OfferRows(c)            == LiveRow(c, "offer")
ClaimableBalanceRows(c) == LiveRow(c, "claimable_balance")
LiquidityPoolRows(c)    == LiveRow(c, "liquidity_pool")
ConfigSettingRows(c)    == FlaggedRow(c, "config_setting")
ContractDataRows(c)     == FlaggedRow(c, "contract_data")
ContractCodeRows(c)     == FlaggedRow(c, "contract_code")

\* The TTL walk reads each transaction's changes again, and skips the
\* transaction where that fails.
TTLRows(c) == IF c.lost THEN NoRows ELSE FlaggedRow(c, "ttl")

\* The post state or the pre state, and no column to tell which.
NativeBalanceRows(c) ==
    IF Listed(c, "account")
    THEN Only(RowKey(c.key), [value |-> Active(c).value, deleted |-> FALSE])
    ELSE NoRows

\* Mutation: the signers of a removed account are not walked.
SignerRowsPostOnly(c) ==
    IF Listed(c, "account")
    THEN [r \in {<< c.key.owner, s >> : s \in c.post.signers} |->
             [value |-> c.post.value, deleted |-> FALSE]]
    ELSE NoRows

\* A row per signer of the post state, or of the pre state as deleted.
SignerRows(c) ==
    IF Listed(c, "account")
    THEN [r \in {<< c.key.owner, s >> : s \in Active(c).signers} |->
             [value |-> Active(c).value, deleted |-> c.post = NoEntry]]
    ELSE NoRows

\* Mutation: a restoration is recognised by its missing pre state.
RestoredKeyRowsInferred(c) ==
    IF c.pre = NoEntry /\ c.key.type \in Archivable
    THEN Only(KeyHash(c.key), [value |-> c.post.value, deleted |-> FALSE])
    ELSE NoRows

\* The change type itself says that an entry was restored.
RestoredKeyRows(c) ==
    IF c.kind = "restored" /\ c.post # NoEntry
    THEN Only(KeyHash(c.key), [value |-> c.post.value, deleted |-> FALSE])
    ELSE NoRows

RowsOf(t, c) ==
    CASE t = "accounts"           -> AccountRows(c)
      [] t = "trustlines"         -> TrustlineRows(c)
      [] t = "account_signers"    -> SignerRows(c)
      [] t = "native_balances"    -> NativeBalanceRows(c)
      [] t = "offers"             -> OfferRows(c)
      [] t = "claimable_balances" -> ClaimableBalanceRows(c)
      [] t = "liquidity_pools"    -> LiquidityPoolRows(c)
      [] t = "config_settings"    -> ConfigSettingRows(c)
      [] t = "ttl"                -> TTLRows(c)
      [] t = "contract_data"      -> ContractDataRows(c)
      [] t = "contract_code"      -> ContractCodeRows(c)
      [] t = "restored_keys"      -> RestoredKeyRows(c)

-----------------------------------------------------------------------------
(* The range loop over the changes.                                        *)

Over(new, old) ==
    [r \in DOMAIN new \cup DOMAIN old |->
        IF r \in DOMAIN new THEN new[r] ELSE old[r]]

\* Mutation: a row already in the map is kept.
PutFirst(new) == rows' = Over(rows, new)

\* Last write wins.
Put(new) == rows' = Over(new, rows)

\* One iteration, over a change of k from pre to post.
Read(k, kind, pre, post) ==
    \E gone \in IF table = "ttl" THEN BOOLEAN ELSE {FALSE} :
        /\ phase = "reading"
        /\ Put(RowsOf(table, [key |-> k, kind |-> kind, pre |-> pre,
                              post |-> post, lost |-> gone]))
        /\ latest' = IF post = NoEntry THEN latest
                     ELSE [latest EXCEPT ![k] = post]
        /\ live' = IF post = NoEntry THEN live \ {k} ELSE live \cup {k}
        /\ archived' = archived \ {k}
        /\ touched' = touched \cup {k}
        /\ restored' = IF kind = "restored" THEN restored \cup {k}
                       ELSE restored
        /\ lost' = IF gone THEN lost \cup {k} ELSE lost
        /\ UNCHANGED << table, phase, out >>

Create(k) ==
    /\ k \notin live \cup archived
    /\ \E e \in EntriesOf(k) : Read(k, "created", NoEntry, e)

Update(k) ==
    /\ k \in live
    /\ \E e \in EntriesOf(k) : Read(k, "updated", latest[k], e)

Remove(k) ==
    /\ k \in live
    /\ Read(k, "removed", latest[k], NoEntry)

Restore(k) ==
    /\ k \in archived
    /\ \E e \in EntriesOf(k) : Read(k, "restored", NoEntry, e)

Change(k) == Create(k) \/ Update(k) \/ Remove(k) \/ Restore(k)

-----------------------------------------------------------------------------
(* sortedMapValues                                                         *)

Precedes(q, r) == q[1] < r[1] \/ (q[1] = r[1] /\ q[2] < r[2])

Unwritten == DOMAIN rows \ {out[i] : i \in DOMAIN out}

EndOfChanges ==
    /\ phase = "reading"
    /\ phase' = "writing"
    /\ UNCHANGED << table, ledger, rows, out >>

\* Mutation: the map is ranged over, in any order.
WriteRowInAnyOrder ==
    /\ phase = "writing"
    /\ \E r \in Unwritten : out' = Append(out, r)
    /\ UNCHANGED << table, ledger, rows, phase >>

WriteRow ==
    /\ phase = "writing"
    /\ \E r \in Unwritten :
          /\ \A q \in Unwritten : q = r \/ Precedes(r, q)
          /\ out' = Append(out, r)
    /\ UNCHANGED << table, ledger, rows, phase >>

Return ==
    /\ phase = "writing"
    /\ Unwritten = {}
    /\ phase' = "done"
    /\ UNCHANGED << table, ledger, rows, out >>

Terminated == phase = "done" /\ UNCHANGED vars

Next ==
    \/ \E k \in Scope[table] : Change(k)
    \/ EndOfChanges \/ WriteRow \/ Return \/ Terminated

Spec == Init /\ [][Next]_vars

-----------------------------------------------------------------------------

RowKeys == Nat \X Nat

TypeOK ==
    /\ table \in Tables
    /\ latest \in [Scope[table] -> Entry \cup {NoEntry}]
    /\ live \subseteq Scope[table] /\ archived \subseteq Scope[table]
    /\ touched \subseteq Scope[table]
    /\ restored \subseteq touched /\ lost \subseteq touched
    /\ \A k \in live : latest[k] # NoEntry
    /\ live \cap archived = {}
    /\ DOMAIN rows \subseteq RowKeys
    /\ \A r \in DOMAIN rows : rows[r] \in Row
    /\ phase \in {"reading", "writing", "done"}
    /\ out \in Seq(DOMAIN rows)

\* The entry type each table of one row per entry is about.
TypeOf ==
    [accounts |-> "account", trustlines |-> "trustline",
     native_balances |-> "account", offers |-> "offer",
     claimable_balances |-> "claimable_balance",
     liquidity_pools |-> "liquidity_pool",
     config_settings |-> "config_setting", ttl |-> "ttl",
     contract_data |-> "contract_data", contract_code |-> "contract_code"]

Flagged == {"config_settings", "ttl", "contract_data", "contract_code"}

\* Entries of the table whose changes all reached the loop, and that share
\* their row key with no other entry of the table.
Reported ==
    {k \in touched \ lost :
        /\ table \in DOMAIN TypeOf /\ k.type = TypeOf[table]
        /\ k.kind # "unlisted"
        /\ \A j \in Scope[table] :
              j.type = k.type /\ RowKey(j) = RowKey(k) => j = k}

\* The row of an entry changed in the ledger shows the last state the entry
\* had, however often it changed, went away and came back.
LatestStateReported ==
    \A k \in Reported :
        RowKey(k) \in DOMAIN rows => rows[RowKey(k)].value = latest[k].value

\* Every changed entry that is live has a row; one that is gone has a row in
\* the tables that treat removals.
EveryChangeReported ==
    \A k \in Reported :
        k \in live \/ table \in Flagged \cup {"native_balances"}
        => RowKey(k) \in DOMAIN rows

\* In a table with a deleted column it is set exactly when the entry is gone
\* at the end of the ledger, not merely at some time in it.
DeletedIffGone ==
    \A k \in Reported :
        RowKey(k) \in DOMAIN rows /\ table \in Flagged
        => (rows[RowKey(k)].deleted <=> k \notin live)

\* The signers table shows every signer of every changed account that is live,
\* undeleted and with its last weight; and, as deleted, every signer an account
\* had when it was removed.
SignersReported ==
    table = "account_signers" =>
        \A k \in touched : k.type = "account" =>
            \A s \in latest[k].signers :
                /\ << k.owner, s >> \in DOMAIN rows
                /\ rows[<< k.owner, s >>].value = latest[k].value
                /\ rows[<< k.owner, s >>].deleted <=> k \notin live

\* restored_keys names the entries restored in the ledger and no created one,
\* although both arrive without a pre state.
RestoredExactly ==
    table = "restored_keys" => DOMAIN rows = {KeyHash(k) : k \in restored}

\* A table is written in increasing order of its row keys, each row once and
\* none left out: the output is a function of the ledger.
OutputSorted ==
    phase = "done" =>
        /\ {out[i] : i \in DOMAIN out} = DOMAIN rows
        /\ \A i, j \in DOMAIN out : i < j => Precedes(out[i], out[j])

\* What "last-write-wins per (account, signer) pair" over all change stages
\* (accounts.go:260-261, 310) is for: an undeleted row is a signer the account
\* has.  The code deletes no row when an account drops a signer.
UndeletedSignersSign ==
    phase = "done" /\ table = "account_signers" =>
        \A k \in touched, s \in Signers :
            << k.owner, s >> \in DOMAIN rows
                /\ ~rows[<< k.owner, s >>].deleted
            => k \in live /\ s \in latest[k].signers

\* "A map keyed by the row's identity" (ordering.go:10): the row under the key
\* of a live trustline shows that trustline.  The key leaves out the pool.
TrustlinesKeptApart ==
    phase = "done" /\ table = "trustlines" =>
        \A k \in touched \cap live : k.type = "trustline" =>
            rows[RowKey(k)].value = latest[k].value
=============================================================================
