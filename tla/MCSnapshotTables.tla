-------------------------- MODULE MCSnapshotTables --------------------------
(***************************************************************************)
(* Keys for SnapshotTables.  A table sees two entries of its own and one   *)
(* of another type, or one it does not list; the trustlines are two pool   *)
(* shares and a credit line of one account.                                *)
(***************************************************************************)
EXTENDS SnapshotTables

K(type, owner, id)     == [type |-> type, owner |-> owner, id |-> id,
                           kind |-> "plain"]
Pool(owner, id)        == [K("trustline", owner, id) EXCEPT !.kind = "pool"]
Unlisted(type, o, id)  == [K(type, o, id) EXCEPT !.kind = "unlisted"]

Acc1 == K("account", 1, 0)
Acc2 == K("account", 2, 0)
Data == K("contract_data", 7, 1)
Code == K("contract_code", 8, 0)
Live == K("ttl", 9, 1)

MCScope ==
    [t \in Tables |->
        CASE t \in {"accounts", "native_balances"} ->
                {Acc1, Acc2, K("trustline", 1, 1)}
          [] t = "account_signers" -> {Acc1, Acc2}
          [] t = "trustlines" ->
                {K("trustline", 1, 1), Pool(1, 2), Pool(1, 3)}
          [] t = "offers" -> {K("offer", 0, 11), K("offer", 0, 12), Acc1}
          [] t = "claimable_balances" ->
                {K("claimable_balance", 0, 21), K("claimable_balance", 0, 22),
                 Unlisted("claimable_balance", 0, 23)}
          [] t = "liquidity_pools" ->
                {K("liquidity_pool", 0, 31), K("liquidity_pool", 0, 32)}
          [] t = "config_settings" ->
                {K("config_setting", 0, 41), K("config_setting", 0, 42)}
          [] t = "ttl" -> {Live, K("ttl", 9, 2)}
          [] t = "contract_data" ->
                {Data, K("contract_data", 7, 2), Unlisted("contract_data", 7, 3)}
          [] t = "contract_code" -> {Code, K("contract_code", 8, 1), Data}
          [] t = "restored_keys" -> {Data, Code, Live}]

MCKeys == UNION {MCScope[t] : t \in Tables}
=============================================================================
