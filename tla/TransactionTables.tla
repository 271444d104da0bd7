-------------------------- MODULE TransactionTables --------------------------
(***************************************************************************)
(* The tables that range over the transactions of a ledger, and those that *)
(* count or list what the ledger says beside them: transactions,           *)
(* operations, effects, trades, contract creations, token transfers, the   *)
(* ledger row and evicted keys.  Each loop is walked with the counter it   *)
(* keeps; where one takes tx.Index instead, that is the position at which  *)
(* the reader found the transaction.  The extractors share no variable     *)
(* (ExtractAll composes them), so they are walked one after another here   *)
(* and the properties relate their rows.                                   *)
(*                                                                         *)
(* A TOID is the pair of the numbers packed into it beside the ledger      *)
(* sequence; a transaction's hash is its position.                         *)
(***************************************************************************)
EXTENDS EffectRules, FiniteSetsExt, Selection

CONSTANTS Ledgers,     \* the ledgers considered
          Operations,  \* the operations of their transactions
          NoCount      \* a nil count

(* A ledger: the version of its close meta; its transactions; what the     *)
(* token-transfer processor makes of it, each with transaction, operation  *)
(* (0 for a fee) and whether its type is known; its evicted keys.          *)
(*                                                                         *)
(* A transaction: ok; source; ops; whether its result carries operation    *)
(* results; fee; events, the contract events of its operations; soroban;   *)
(* broken, whether one of its populate functions fails.                    *)

Transaction ==
    [ok : BOOLEAN, source : Accounts, ops : Seq(Operations), results : BOOLEAN,
     fee : Nat, events : Nat, soroban : BOOLEAN, broken : BOOLEAN]

CreatesContract(op) == op.kind = "invoke" /\ op.host = "create"

\* The processor has an event of an operation only where that was applied.
Transfer(l) ==
    {e \in [tx : DOMAIN l.txs, op : Nat, known : BOOLEAN] :
        e.op # 0 => l.txs[e.tx].ok /\ e.op \in DOMAIN l.txs[e.tx].ops}

\* A transaction that succeeded has operation results, and an operation of it
\* that creates a contract creates the contract's instance, which is persistent.
ASSUME LedgersAssumption ==
    /\ \A op \in Operations : WellFormed(op) /\ IsSequence(op.created)
    /\ \A l \in Ledgers :
          /\ l.txs \in Seq(Transaction)
          /\ l.transfers \in Seq(Transfer(l))
          /\ l.evicted \in Seq(Int)
          /\ \A n \in DOMAIN l.txs : l.txs[n].ok =>
                /\ l.txs[n].results
                /\ \A op \in ToSet(l.txs[n].ops) :
                      CreatesContract(op) => \E e \in ToSet(op.created) : e.persistent

TableOrder == << "transactions", "operations", "effects", "trades", "creations",
                 "token_transfers", "ledgers", "evicted_keys" >>
Tables     == {TableOrder[n] : n \in DOMAIN TableOrder}
PerOperation   == {"operations", "effects", "trades", "creations"}
OnlySuccessful == {"effects", "trades", "creations"}

VARIABLES ledger,   \* never assigned
          turn,     \* position in TableOrder of the extractor at work
          t,        \* the transaction of its loop, or the transfer event
          i,        \* the operation of its inner loop
          txIndex,  \* the counter beside the loop
          rows,     \* per table
          failed    \* tables that returned an error

vars == << ledger, turn, t, i, txIndex, rows, failed >>

Txs == ledger.txs
Tx  == Txs[t]
Op  == Tx.ops[i]

-----------------------------------------------------------------------------
(* Rows.                                                                    *)

TransactionRow ==
    [id |-> << txIndex, 0 >>, hash |-> t, ok |-> Tx.ok, fee |-> Tx.fee,
     operations |-> Len(Tx.ops),
     events |-> IF Tx.soroban THEN Tx.events ELSE NoCount]

\* Mutation: the operation's part of the id counts from zero, as its index does.
OperationRowFromZero ==
    [id |-> << txIndex, i - 1 >>, txID |-> << txIndex, 0 >>, hash |-> t, index |-> i - 1,
     ok |-> Tx.ok, source |-> Op.source, kind |-> Op.kind]

OperationRow ==
    [id |-> << txIndex, i >>, txID |-> << txIndex, 0 >>, hash |-> t, index |-> i - 1,
     ok |-> Tx.ok, source |-> Op.source, kind |-> Op.kind]

\* Mutation: the operation's part of the id counts from zero.
EffectRowsFromZero ==
    LET effects == EffectsOf(Op)
    IN  [n \in DOMAIN effects |->
            [operation |-> << t, i - 1 >>, hash |-> t, index |-> n - 1,
             address |-> effects[n].address, type |-> effects[n].type]]

\* The operation's id is made from tx.Index, the position of the transaction.
EffectRows ==
    LET effects == EffectsOf(Op)
    IN  [n \in DOMAIN effects |->
            [operation |-> << t, i >>, hash |-> t, index |-> n - 1,
             address |-> effects[n].address, type |-> effects[n].type]]

\* The buyer of an offer's trades is the transaction's source, that of a path
\* payment's its destination.
Buyer == IF Op.kind = "path_payment" THEN Op.dest ELSE Tx.source

TradeRow(claim, position) ==
    [hash |-> t, op |-> i - 1, index |-> position - 1, type |-> claim.kind,
     seller |-> claim.maker, buyer |-> Buyer]

\* Mutation: the index counts rows, not claims.
TradeRowsCounted ==
    LET kept == Where(Op.claims, LAMBDA c : ~(c.sold = 0 /\ c.bought = 0))
    IN  [n \in DOMAIN kept |-> TradeRow(kept[n], n)]

\* appendTradesFromClaims: a claim that moved nothing leaves a gap.
TradeRows ==
    Selected([n \in DOMAIN Op.claims |-> TradeRow(Op.claims[n], n)],
             {n \in DOMAIN Op.claims : ~(Op.claims[n].sold = 0 /\ Op.claims[n].bought = 0)})

\* Mutation: an operation's own source account is overlooked.
CreationRowsOfTransaction ==
    IF ~CreatesContract(Op) THEN << >>
    ELSE LET n == SelectInSeq(Op.created, LAMBDA e : e.persistent)
         IN  IF n = 0 THEN << >>
             ELSE << [contract |-> Op.created[n].contract, creator |-> Tx.source] >>

\* Op.created: the entries the operation's changes create, in their order; the
\* first persistent contract data among them names the contract.
CreationRows ==
    IF ~CreatesContract(Op) THEN << >>
    ELSE LET n == SelectInSeq(Op.created, LAMBDA e : e.persistent)
         IN  IF n = 0 THEN << >>
             ELSE << [contract |-> Op.created[n].contract, creator |-> Op.source] >>

OperationRows(table) ==
    CASE table = "operations" -> << OperationRow >>
      [] table = "effects"    -> EffectRows
      [] table = "trades"     -> IF Op.kind \in {"offer", "path_payment"} THEN TradeRows ELSE << >>
      [] table = "creations"  -> CreationRows

\* Mutation: one counter for the ledger.
TransferIndexOfLedger(hash) == Len(rows["token_transfers"])

\* eventIndexByTx: the transaction's rows so far.
TransferIndex(hash) ==
    Len(Where(rows["token_transfers"], LAMBDA r : r.hash = hash))

TransferRow(event) ==
    [hash |-> event.tx, txID |-> << event.tx, 0 >>,
     operation |-> IF event.op = 0 THEN NoEntry ELSE << event.tx, event.op >>,
     index |-> TransferIndex(event.tx)]

-----------------------------------------------------------------------------
(* The ledger row and evicted keys.                                         *)

SumOver(seq, Value(_)) == Total([n \in DOMAIN seq |-> Value(seq[n])])

\* Mutation: the declared operations are counted from the results.
DeclaredOperationsFromResults ==
    SumOver(Txs, LAMBDA tx : IF tx.results THEN Len(tx.ops) ELSE 0)

DeclaredOperations == SumOver(Txs, LAMBDA tx : Len(tx.ops))

SorobanKinds == {"invoke", "extend_ttl", "restore"}

\* Close meta V0 carries no results: every transaction counts as successful,
\* every operation as run, and no fee or event is counted.
LedgerRow ==
    LET old         == ledger.version = 0
        Counts(tx)  == old \/ (tx.results /\ tx.ok)
        failedCount == SumOver(Txs, LAMBDA tx : IF Counts(tx) THEN 0 ELSE 1)
    IN  [transactions |-> Len(Txs),
         successful   |-> Len(Txs) - failedCount,
         failed       |-> failedCount,
         operations   |-> SumOver(Txs, LAMBDA tx : IF Counts(tx) THEN Len(tx.ops) ELSE 0),
         declared     |-> DeclaredOperations,
         soroban      |-> SumOver(Txs, LAMBDA tx :
                              Len(Where(tx.ops, LAMBDA op : op.kind \in SorobanKinds))),
         fee          |-> IF old THEN 0 ELSE SumOver(Txs, LAMBDA tx : tx.fee),
         events       |-> IF old THEN 0 ELSE SumOver(Txs, LAMBDA tx : tx.events),
         evicted      |-> IF old THEN NoCount ELSE Len(ledger.evicted)]

EvictedKeyRows ==
    IF ledger.version = 0 THEN << >> ELSE Ascending(ToSet(ledger.evicted))

-----------------------------------------------------------------------------
Init ==
    /\ ledger \in Ledgers
    /\ turn = 1 /\ t = 1 /\ i = 1 /\ txIndex = 1
    /\ rows = [table \in Tables |-> << >>]
    /\ failed = {}

AtTable(table) == turn \in DOMAIN TableOrder /\ TableOrder[turn] = table

Emit(table, more) == rows' = [rows EXCEPT ![table] = @ \o more]

\* The extractor returns; the next one starts with its own loop variables.
Return == /\ turn' = turn + 1
          /\ t' = 1 /\ i' = 1 /\ txIndex' = 1
          /\ UNCHANGED ledger

AddTransaction ==
    /\ AtTable("transactions") /\ t \in DOMAIN Txs /\ ~Tx.broken
    /\ Emit("transactions", << TransactionRow >>)
    /\ t' = t + 1 /\ txIndex' = txIndex + 1
    /\ UNCHANGED << ledger, turn, i, failed >>

\* Mutation: what was extracted so far is returned with the error.
FailTransactionsWithRows ==
    /\ AtTable("transactions") /\ t \in DOMAIN Txs /\ Tx.broken
    /\ failed' = failed \cup {"transactions"}
    /\ Return
    /\ UNCHANGED rows

\* A populate function that fails for one transaction fails the table.
FailTransactions ==
    /\ AtTable("transactions") /\ t \in DOMAIN Txs /\ Tx.broken
    /\ rows' = [rows EXCEPT !["transactions"] = << >>]
    /\ failed' = failed \cup {"transactions"}
    /\ Return

Skipped(table) == table \in OnlySuccessful /\ ~Tx.ok

AddOperation(table) ==
    /\ AtTable(table) /\ t \in DOMAIN Txs /\ ~Skipped(table) /\ i \in DOMAIN Tx.ops
    /\ Emit(table, OperationRows(table))
    /\ i' = i + 1
    /\ UNCHANGED << ledger, turn, t, txIndex, failed >>

\* Mutation: the counter stays behind when a transaction has failed.
NextTransactionIfOk(table) ==
    /\ AtTable(table) /\ t \in DOMAIN Txs /\ (Skipped(table) \/ i > Len(Tx.ops))
    /\ t' = t + 1 /\ i' = 1
    /\ txIndex' = IF table = "operations" /\ Tx.ok THEN txIndex + 1 ELSE txIndex
    /\ UNCHANGED << ledger, turn, rows, failed >>

NextTransaction(table) ==
    /\ AtTable(table) /\ t \in DOMAIN Txs /\ (Skipped(table) \/ i > Len(Tx.ops))
    /\ t' = t + 1 /\ i' = 1
    /\ txIndex' = IF table = "operations" THEN txIndex + 1 ELSE txIndex
    /\ UNCHANGED << ledger, turn, rows, failed >>

\* An event of an unknown type has no row and takes no index.
AddTransfer ==
    /\ AtTable("token_transfers") /\ t \in DOMAIN ledger.transfers
    /\ Emit("token_transfers", IF ledger.transfers[t].known
                               THEN << TransferRow(ledger.transfers[t]) >> ELSE << >>)
    /\ t' = t + 1
    /\ UNCHANGED << ledger, turn, i, txIndex, failed >>

\* The range loop of a table is over.
EndOfLoop(table) ==
    /\ AtTable(table) /\ table \notin {"ledgers", "evicted_keys"}
    /\ t \notin DOMAIN (IF table = "token_transfers" THEN ledger.transfers ELSE Txs)
    /\ Return
    /\ UNCHANGED << rows, failed >>

AddLedger ==
    /\ AtTable("ledgers")
    /\ Emit("ledgers", << LedgerRow >>)
    /\ Return
    /\ UNCHANGED failed

AddEvictedKeys ==
    /\ AtTable("evicted_keys")
    /\ Emit("evicted_keys", EvictedKeyRows)
    /\ Return
    /\ UNCHANGED failed

Terminated == turn > Len(TableOrder) /\ UNCHANGED vars

Next ==
    \/ AddTransaction
    \/ FailTransactions
    \/ \E table \in PerOperation : AddOperation(table) \/ NextTransaction(table)
    \/ AddTransfer
    \/ \E table \in Tables : EndOfLoop(table)
    \/ AddLedger
    \/ AddEvictedKeys
    \/ Terminated

Spec == Init /\ [][Next]_vars

-----------------------------------------------------------------------------
Finished(table) == \A n \in DOMAIN TableOrder : TableOrder[n] = table => n < turn

RowsOf(table, hash) == Where(rows[table], LAMBDA r : r.hash = hash)
RowsOfOp(table, hash, n) ==
    Where(rows[table], LAMBDA r : r.hash = hash /\ r.operation = << hash, n >>)

\* The loops stay in the ledger, and an operation's number in its TOID counts
\* from one: number 0 is the transaction's own id.
TypeOK ==
    /\ turn \in 1 .. Len(TableOrder) + 1
    /\ t \in Nat \ {0} /\ i \in Nat \ {0} /\ txIndex \in Nat \ {0}
    /\ DOMAIN rows = Tables
    /\ failed \subseteq {"transactions"}
    /\ \A m \in DOMAIN rows["operations"] :
           rows["operations"][m].id \in (Nat \ {0}) \X (Nat \ {0})

\* ExtractTransactions gives one row for each transaction, in order and with
\* the counter at its position, or an error and no row at all; the transactions
\* that make it fail keep their operations.
TransactionsAllOrNothing ==
    Finished("transactions") =>
        IF \E n \in DOMAIN Txs : Txs[n].broken
        THEN failed = {"transactions"} /\ rows["transactions"] = << >>
        ELSE /\ failed = {} /\ Len(rows["transactions"]) = Len(Txs)
             /\ \A n \in DOMAIN Txs : /\ rows["transactions"][n].hash = n
                                     /\ rows["transactions"][n].id = << n, 0 >>

\* Operation rows come in the order of their ids, no two with the same; each
\* joins on TransactionID with the transaction row of its hash and outcome, and
\* there is one for every operation that row counts.
OperationsHaveParents ==
    Finished("operations") /\ failed = {} =>
        LET operations   == rows["operations"]
            transactions == rows["transactions"]
        IN  /\ \A m \in DOMAIN operations : \A l \in 1 .. m - 1 :
                   \/ operations[l].id[1] < operations[m].id[1]
                   \/ /\ operations[l].id[1] = operations[m].id[1]
                      /\ operations[l].id[2] < operations[m].id[2]
            /\ \A m \in DOMAIN operations : \E n \in DOMAIN transactions :
                   /\ operations[m].txID = transactions[n].id
                   /\ operations[m].hash = transactions[n].hash
                   /\ operations[m].ok <=> transactions[n].ok
                   /\ operations[m].index < transactions[n].operations
            /\ \A n \in DOMAIN transactions : \A k \in 1 .. transactions[n].operations :
                   \E m \in DOMAIN operations :
                      operations[m].txID = transactions[n].id /\ operations[m].index = k - 1

\* The operation ids of effects, made from tx.Index, and of token transfers,
\* made by the SDK, are those of the operations table, made from a counter, and
\* name an operation of the same transaction that succeeded.
OperationIDsJoin ==
    Finished("operations") =>
        \A r \in ToSet(rows["effects"]) \cup
                {x \in ToSet(rows["token_transfers"]) : x.operation # NoEntry} :
            \E o \in ToSet(rows["operations"]) :
                o.id = r.operation /\ o.hash = r.hash /\ o.ok

\* The trades of an operation and its trade effects tell of the same claims:
\* two effects for each orderbook trade, one filed under the seller; one for a
\* pool trade, if the operation changed the pool.
TradesMatchEffects ==
    Finished("trades") =>
        \A n \in DOMAIN Txs : \A k \in DOMAIN Txs[n].ops :
            LET trades == Where(rows["trades"], LAMBDA r : r.hash = n /\ r.op = k - 1)
                book   == Where(trades, LAMBDA r : r.type # "liquidity_pool")
                of(type) == Where(RowsOfOp("effects", n, k), LAMBDA r : r.type = type)
            IN  /\ Len(of("trade")) = 2 * Len(book)
                /\ \A j \in DOMAIN book : of("trade")[2 * j].address = book[j].seller
                /\ Len(of("liquidity_pool_trade")) <= Len(trades) - Len(book)
                /\ Txs[n].ops[k].changes # << >>
                   => Len(of("liquidity_pool_trade")) = Len(trades) - Len(book)

\* TradeIndex names one claim of the operation's result, the row's own; within
\* an operation it increases.
TradeIndexNamesClaim ==
    \A m \in DOMAIN rows["trades"] :
        LET r      == rows["trades"][m]
            claims == Txs[r.hash].ops[r.op + 1].claims
        IN  /\ r.index + 1 \in DOMAIN claims
            /\ claims[r.index + 1].maker = r.seller /\ claims[r.index + 1].kind = r.type
            /\ \A l \in 1 .. m - 1 :
                   LET q == rows["trades"][l]
                   IN  q.hash = r.hash /\ q.op = r.op => q.index < r.index

\* (ledger, transaction, EventIndex) is a key of token transfers: the rows of a
\* transaction, apart in the list as they may be, count 0, 1, 2, ...
TransferIndexDense ==
    \A n \in DOMAIN Txs :
        LET mine == RowsOf("token_transfers", n)
        IN  \A k \in DOMAIN mine : mine[k].index = k - 1

\* The creations are those of the successful create operations, in order, each
\* by the source of its operation row; the contract is the created one if all
\* persistent entries that the operation created are its own.
CreationsAgree ==
    Finished("creations") =>
        LET isCreate(r) == r.ok /\ CreatesContract(Txs[r.hash].ops[r.index + 1])
            creates == Where(rows["operations"], isCreate)
        IN  /\ Len(rows["creations"]) = Len(creates)
            /\ \A n \in DOMAIN creates :
                   LET op == Txs[creates[n].hash].ops[creates[n].index + 1]
                   IN  /\ rows["creations"][n].creator = creates[n].source
                       /\ (\A e \in ToSet(op.created) : e.persistent => e.contract = op.contract)
                          => rows["creations"][n].contract = op.contract

\* From close meta V1 on, the counts of the ledger row are those of the other
\* tables' rows; contract events may exceed those of Soroban transactions, and
\* keys evicted twice are listed once.
LedgerCountsAgree ==
    Finished("evicted_keys") /\ ledger.version > 0 =>
        LET row == rows["ledgers"][1]
            count(table, Wanted(_)) == Len(Where(rows[table], Wanted))
        IN  /\ row.operations = count("operations", LAMBDA r : r.ok)
            /\ row.declared = Len(rows["operations"])
            /\ row.soroban = count("operations", LAMBDA r : r.kind \in SorobanKinds)
            /\ ToSet(rows["evicted_keys"]) = ToSet(ledger.evicted)
            /\ row.evicted >= Len(rows["evicted_keys"])
            /\ failed = {} =>
                  /\ row.transactions = Len(rows["transactions"])
                  /\ row.successful = count("transactions", LAMBDA r : r.ok)
                  /\ row.failed = count("transactions", LAMBDA r : ~r.ok)
                  /\ row.fee = SumOver(rows["transactions"], LAMBDA r : r.fee)
                  /\ row.events >= SumOver(rows["transactions"], LAMBDA r :
                                       IF r.events = NoCount THEN 0 ELSE r.events)
=============================================================================
