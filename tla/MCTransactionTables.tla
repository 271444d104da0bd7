------------------------- MODULE MCTransactionTables -------------------------
(***************************************************************************)
(* Ledgers for TransactionTables: up to MaxTxs transactions of seven       *)
(* kinds, the three versions of the close meta, token transfers in the     *)
(* order of the processor (fees, operations, refunds).                     *)
(***************************************************************************)
EXTENDS TransactionTables

CONSTANTS MaxTxs, alice, bob, carol, pool, newContract, otherContract

MCAccounts == {alice, bob, carol}
MCSigners  == << alice, bob, carol >>

Operation(kind, source) ==
    [kind |-> kind, source |-> source, dest |-> carol, amount |-> 1, asset |-> Native,
     sendAsset |-> Native, sendAmount |-> 1, claims |-> << >>, changes |-> << >>,
     assetEvents |-> << >>, host |-> "call", created |-> << >>, contract |-> newContract,
     readable |-> TRUE, eventsReadable |-> TRUE, network |-> TRUE]

Nothing == [kind |-> "orderbook", sold |-> 0, bought |-> 0, maker |-> bob, asset |-> Native]
Book    == [Nothing EXCEPT !.sold = 1, !.bought = 2]
PoolKey == [type |-> "liquidity_pool", owner |-> pool, id |-> pool]
Swap    == [Book EXCEPT !.kind = "liquidity_pool", !.maker = PoolKey]
Moved   == << [key |-> PoolKey, pre |-> [sponsor |-> NoSponsor], post |-> [sponsor |-> NoSponsor]] >>

Pay    == Operation("payment", alice)
Offer  == [Operation("offer", bob) EXCEPT
              !.claims = << Nothing, Book, Swap, [Book EXCEPT !.maker = carol] >>, !.changes = Moved]
Path   == [Operation("path_payment", alice) EXCEPT !.claims = << Swap, Book >>, !.readable = FALSE]
Create == [Operation("invoke", bob) EXCEPT !.host = "create",
              !.created = << [contract |-> otherContract, persistent |-> FALSE],
                             [contract |-> newContract, persistent |-> TRUE] >>]
Mixed  == [Create EXCEPT
              !.created = << [contract |-> otherContract, persistent |-> TRUE],
                             [contract |-> newContract, persistent |-> TRUE] >>]

MCOperations == {Pay, Offer, Path, Create, Mixed}

Applied(ops) ==
    [ok |-> TRUE, source |-> alice, ops |-> ops, results |-> TRUE, fee |-> 1, events |-> 0,
     soroban |-> FALSE, broken |-> FALSE]
Soroban(op) == [Applied(<< op >>) EXCEPT !.soroban = TRUE, !.events = 2]

MCTxs ==
    { Applied(<< Offer, Pay >>),
      [Applied(<< Path >>) EXCEPT !.events = 1, !.broken = TRUE],
      [Applied(<< Path, Pay >>) EXCEPT !.ok = FALSE],
      [Applied(<< Pay, Pay >>) EXCEPT !.ok = FALSE, !.results = FALSE],
      Soroban(Create),
      Soroban(Mixed),
      [Soroban(Create) EXCEPT !.ok = FALSE, !.events = 0] }

Fee(n)   == [tx |-> n, op |-> 0, known |-> TRUE]
Moves(txs, known) ==
    LET Ok(n) == txs[n].ok
    IN  [n \in 1 .. Len(SelectSeq([n \in DOMAIN txs |-> n], Ok)) |->
            [tx |-> SelectSeq([m \in DOMAIN txs |-> m], Ok)[n], op |-> 1, known |-> known]]
Fees(txs) == [n \in DOMAIN txs |-> Fee(n)]

MCTransfers(txs) ==
    { << >>, Fees(txs) \o Moves(txs, FALSE) \o Moves(txs, TRUE) \o Fees(txs) }

MCLedgers ==
    UNION { { [version |-> v, txs |-> txs, transfers |-> transfers, evicted |-> evicted] :
                transfers \in MCTransfers(txs),
                evicted \in IF v = 0 THEN {<< >>} ELSE {<< >>, << 2, 1, 2 >>} } :
            v \in 0 .. 2, txs \in UNION { [1 .. k -> MCTxs] : k \in 0 .. MaxTxs } }
=============================================================================
