----------------------- MODULE TransactionTablesProofs -----------------------
(***************************************************************************)
(* Proofs about TransactionTables, for ledgers of any number of            *)
(* transactions and operations: the transactions and operations tables,    *)
(* whose rows the other tables join on, and, from what these are shown to  *)
(* hold, the transfers, trades, creations, the ledger row and evicted keys,*)
(* and how effects, trades and transfers join.                             *)
(***************************************************************************)
EXTENDS TransactionTables, EffectRulesProofs

TransactionRowSet ==
    [id : Nat \X Nat, hash : Nat, ok : BOOLEAN, fee : Nat, operations : Nat,
     events : Nat \cup {NoCount}]

OperationRowSet ==
    [id : Nat \X Nat, txID : Nat \X Nat, hash : Nat, index : Nat, ok : BOOLEAN,
     source : {op.source : op \in Operations}, kind : {op.kind : op \in Operations}]

Types ==
    /\ ledger \in Ledgers
    /\ turn \in 1 .. 9
    /\ t \in Nat \ {0} /\ i \in Nat \ {0} /\ txIndex \in Nat \ {0}
    /\ rows = [table \in Tables |-> rows[table]]
    /\ rows["transactions"] \in Seq(TransactionRowSet)
    /\ rows["operations"] \in Seq(OperationRowSet)
    /\ failed \subseteq {"transactions"}

\* The counter beside the loop is at the transaction of the loop.
Counters ==
    /\ turn \in 1 .. 2 => txIndex = t /\ t <= Len(Txs) + 1
    /\ turn = 2 /\ t <= Len(Txs) => i <= Len(Tx.ops) + 1

EventCount(tx) == IF tx.soroban THEN tx.events ELSE NoCount

\* The first n transactions have given the rows of the transactions table.
RowsOfFirst(n) ==
    LET r == rows["transactions"]
    IN  /\ failed = {} /\ Len(r) = n
        /\ \A k \in 1 .. n : /\ ~Txs[k].broken
                             /\ r[k].hash = k /\ r[k].id = << k, 0 >>
                             /\ r[k].ok <=> Txs[k].ok
                             /\ r[k].operations = Len(Txs[k].ops)
                             /\ r[k].fee = Txs[k].fee
                             /\ r[k].events = EventCount(Txs[k])

NoRowsAtAll ==
    /\ \E n \in DOMAIN Txs : Txs[n].broken
    /\ failed = {"transactions"} /\ rows["transactions"] = << >>

TransactionRowsInv ==
    /\ turn = 1 => RowsOfFirst(t - 1)
    /\ turn > 1 => RowsOfFirst(Len(Txs)) \/ NoRowsAtAll

Before(a, b) == a[1] < b[1] \/ (a[1] = b[1] /\ a[2] < b[2])

\* Where the walk of the operations table has come to.
Walked(n, k) == turn > 2 \/ (turn = 2 /\ Before(<< n, k >>, << t, i >>))

\* An operation row tells of one operation of the ledger, already walked.
TellsOf(r) ==
    /\ r.hash \in DOMAIN Txs /\ r.index + 1 \in DOMAIN Txs[r.hash].ops
    /\ r.id = << r.hash, r.index + 1 >> /\ r.txID = << r.hash, 0 >>
    /\ r.ok <=> Txs[r.hash].ok
    /\ r.source = Txs[r.hash].ops[r.index + 1].source
    /\ r.kind = Txs[r.hash].ops[r.index + 1].kind
    /\ Walked(r.hash, r.index + 1)

OperationRowsInv ==
    LET r == rows["operations"]
    IN  /\ \A m \in 1 .. Len(r) : TellsOf(r[m])
        /\ \A m \in 1 .. Len(r) : \A l \in 1 .. m - 1 : Before(r[l].id, r[m].id)
        /\ \A n \in DOMAIN Txs : \A k \in DOMAIN Txs[n].ops :
              Walked(n, k) => \E m \in 1 .. Len(r) : r[m].hash = n /\ r[m].index = k - 1

IInv == Types /\ Counters /\ TransactionRowsInv /\ OperationRowsInv

-----------------------------------------------------------------------------
\* What LedgersAssumption says of the ledger at hand.
LEMMA LedgerShape ==
    ASSUME ledger \in Ledgers
    PROVE  /\ Txs \in Seq(Transaction) /\ DOMAIN Txs = 1 .. Len(Txs) /\ Len(Txs) \in Nat
           /\ \A n \in DOMAIN Txs :
                 /\ Txs[n] \in Transaction
                 /\ Txs[n].ops \in Seq(Operations) /\ Len(Txs[n].ops) \in Nat
                 /\ DOMAIN Txs[n].ops = 1 .. Len(Txs[n].ops)
                 /\ Txs[n].ok \in BOOLEAN
<1>1. Txs \in Seq(Transaction)
  BY LedgersAssumption DEF Txs
<1>2. ASSUME NEW n \in DOMAIN Txs PROVE Txs[n] \in Transaction
  BY <1>1, <1>2
<1>3. ASSUME NEW x \in Transaction
      PROVE  x.ops \in Seq(Operations) /\ x.ok \in BOOLEAN
  BY <1>3 DEF Transaction
<1> HIDE DEF Txs
<1> QED
  BY <1>1, <1>2, <1>3

\* Which table is at work in which turn.
LEMMA Turns ==
    ASSUME turn \in 1 .. 9
    PROVE  /\ AtTable("transactions") <=> turn = 1
           /\ AtTable("operations") <=> turn = 2
           /\ \A table \in Tables :
                 AtTable(table) => turn \in 1 .. 8
           /\ \A table \in Tables \ {"transactions", "operations"} :
                 AtTable(table) => turn > 2
    BY DEF AtTable, TableOrder, Tables

\* The tables by name.
LEMMA TableNames ==
    Tables = {"transactions", "operations", "effects", "trades", "creations",
              "token_transfers", "ledgers", "evicted_keys"}
<1>1. DOMAIN TableOrder = 1 .. 8
  BY DEF TableOrder
<1> QED
  BY <1>1 DEF Tables, TableOrder

\* A sequence with one more element at its end.
LEMMA OneMore ==
    ASSUME NEW S, NEW s \in Seq(S), NEW e \in S
    PROVE  /\ s \o << e >> \in Seq(S)
           /\ Len(s \o << e >>) = Len(s) + 1
           /\ \A m \in 1 .. Len(s) : (s \o << e >>)[m] = s[m]
           /\ (s \o << e >>)[Len(s) + 1] = e
    OBVIOUS

\* The first row to be written finds its place in the transaction at hand.
LEMMA TransactionRowTyped ==
    ASSUME Types, Counters, turn = 1, t \in DOMAIN Txs
    PROVE  /\ TransactionRow \in TransactionRowSet
           /\ TransactionRow.hash = t /\ TransactionRow.id = << t, 0 >>
           /\ TransactionRow.ok <=> Tx.ok
           /\ TransactionRow.operations = Len(Tx.ops)
           /\ TransactionRow.fee = Tx.fee /\ TransactionRow.events = EventCount(Tx)
<1>1. Tx \in Transaction /\ Len(Tx.ops) \in Nat
  BY LedgerShape DEF Types, Tx
<1>2. Tx.ok \in BOOLEAN /\ Tx.fee \in Nat /\ Tx.events \in Nat
  BY <1>1 DEF Transaction
<1>3. txIndex = t /\ t \in Nat
  BY DEF Types, Counters
<1> QED
  BY <1>1, <1>2, <1>3 DEF TransactionRow, TransactionRowSet, EventCount

\* The row of the operation at hand.
IsRowOfOp(r) ==
    /\ r.hash = t /\ r.index = i - 1 /\ r.id = << t, i >> /\ r.txID = << t, 0 >>
    /\ r.ok <=> Tx.ok
    /\ r.source = Op.source /\ r.kind = Op.kind

LEMMA OperationRowTyped ==
    ASSUME Types, Counters, turn = 2, t \in DOMAIN Txs, i \in DOMAIN Tx.ops
    PROVE  OperationRow \in OperationRowSet /\ IsRowOfOp(OperationRow)
<1>1. Tx \in Transaction /\ Tx.ops \in Seq(Operations)
  BY LedgerShape DEF Types, Tx
<1>2. Tx.ok \in BOOLEAN
  BY <1>1 DEF Transaction
<1>3. Op \in Operations
  BY <1>1 DEF Op
<1>4. txIndex = t /\ t \in Nat /\ i \in Nat /\ i - 1 \in Nat
  BY DEF Types, Counters
<1> QED
  BY <1>2, <1>3, <1>4 DEF OperationRow, OperationRowSet, IsRowOfOp

-----------------------------------------------------------------------------
LEMMA InitInv == Init => IInv
<1> SUFFICES ASSUME Init PROVE IInv
  OBVIOUS
<1> USE DEF Init
<1>1. Txs \in Seq(Transaction) /\ Len(Txs) \in Nat
  BY LedgerShape
<1>2. "transactions" \in Tables /\ "operations" \in Tables
  BY TableNames
<1>3. rows["transactions"] = << >> /\ rows["operations"] = << >>
  BY <1>2
<1>4. Types
  <2>1. << >> \in Seq(TransactionRowSet) /\ << >> \in Seq(OperationRowSet)
    OBVIOUS
  <2>2. rows = [table \in Tables |-> rows[table]]
    OBVIOUS
  <2>3. turn \in 1 .. 9 /\ 1 \in Nat \ {0}
    OBVIOUS
  <2> QED
    BY <1>3, <2>1, <2>2, <2>3 DEF Types
<1>5. Counters
  BY <1>1 DEF Counters
<1>6. TransactionRowsInv
  BY <1>3 DEF TransactionRowsInv, RowsOfFirst
<1>7. OperationRowsInv
  BY <1>3 DEF OperationRowsInv, Walked
<1> QED
  BY <1>4, <1>5, <1>6, <1>7 DEF IInv

\* What Emit does to the two tables.
LEMMA Emitted ==
    ASSUME Types, NEW table \in Tables, NEW more, Emit(table, more)
    PROVE  /\ rows' = [x \in Tables |-> rows'[x]]
           /\ rows'[table] = rows[table] \o more
           /\ \A x \in Tables \ {table} : rows'[x] = rows[x]
<1>1. DOMAIN rows = Tables
  BY DEF Types
<1>2. rows' = [x \in Tables |-> IF x = table THEN rows[x] \o more ELSE rows[x]]
  BY <1>1 DEF Emit, Types
<1> QED
  BY <1>2

\* A row of the transactions table.
LEMMA AddTransactionInv == IInv /\ AddTransaction => IInv'
<1> SUFFICES ASSUME IInv, AddTransaction PROVE IInv'
  OBVIOUS
<1> USE DEF IInv
<1> DEFINE old == rows["transactions"]
<1>1. turn = 1 /\ t \in DOMAIN Txs /\ ~Tx.broken
  BY Turns DEF AddTransaction, Types
<1>2. /\ turn' = 1 /\ t' = t + 1 /\ txIndex' = txIndex + 1 /\ i' = i
      /\ ledger' = ledger /\ failed' = failed
  BY <1>1 DEF AddTransaction
<1>3. Txs' = Txs /\ DOMAIN Txs = 1 .. Len(Txs) /\ Len(Txs) \in Nat
  BY <1>2, LedgerShape DEF Types, Txs
<1>4. /\ rows' = [x \in Tables |-> rows'[x]]
      /\ rows'["transactions"] = old \o << TransactionRow >>
      /\ rows'["operations"] = rows["operations"]
  BY Emitted, TableNames DEF AddTransaction
<1>5. /\ TransactionRow \in TransactionRowSet
      /\ TransactionRow.hash = t /\ TransactionRow.id = << t, 0 >>
      /\ TransactionRow.ok <=> Tx.ok
      /\ TransactionRow.operations = Len(Tx.ops)
      /\ TransactionRow.fee = Tx.fee /\ TransactionRow.events = EventCount(Tx)
  BY <1>1, TransactionRowTyped
<1>6. old \in Seq(TransactionRowSet) /\ RowsOfFirst(t - 1)
  BY <1>1 DEF Types, TransactionRowsInv
<1>7. Len(old) = t - 1 /\ failed = {}
  BY <1>6 DEF RowsOfFirst
<1> DEFINE row == TransactionRow
           new == rows'["transactions"]
<1>8. /\ new \in Seq(TransactionRowSet) /\ Len(new) = t
      /\ \A m \in 1 .. t - 1 : new[m] = old[m]
      /\ new[t] = row
  <2> HIDE DEF old, row
  <2>1. new = old \o << row >>
    BY <1>4 DEF row, old
  <2>2. row \in TransactionRowSet
    BY <1>5 DEF row
  <2>3. old \in Seq(TransactionRowSet) /\ Len(old) = t - 1 /\ t \in Nat
    BY <1>6, <1>7 DEF Types, old
  <2> HIDE DEF new
  <2> QED
    BY <2>1, <2>2, <2>3, OneMore
<1>9. Types'
  BY <1>2, <1>4, <1>8 DEF Types
<1>10. Counters'
  BY <1>1, <1>2, <1>3 DEF Types, Counters
<1>11. TransactionRowsInv'
  <2>1. ASSUME NEW k \in 1 .. t
        PROVE  /\ ~Txs[k].broken
               /\ new[k].hash = k /\ new[k].id = << k, 0 >>
               /\ new[k].ok <=> Txs[k].ok
               /\ new[k].operations = Len(Txs[k].ops)
               /\ new[k].fee = Txs[k].fee /\ new[k].events = EventCount(Txs[k])
    <3>1. CASE k = t
      BY <1>1, <1>5, <1>8, <3>1 DEF Tx
    <3>2. CASE k \in 1 .. t - 1
      BY <1>6, <1>8, <3>2 DEF RowsOfFirst
    <3> QED
      BY <3>1, <3>2 DEF Types
  <2>2. t' - 1 = t
    BY <1>2 DEF Types
  <2> QED
    BY <1>2, <1>3, <1>7, <1>8, <2>1, <2>2 DEF TransactionRowsInv, RowsOfFirst
<1>12. OperationRowsInv'
  <2>1. \A n, k : ~Walked(n, k) /\ ~Walked(n, k)'
    BY <1>1, <1>2 DEF Walked
  <2>2. Len(rows["operations"]) \in Nat
    BY DEF Types
  <2>3. \A m \in 1 .. Len(rows["operations"]) : FALSE
    BY <2>1 DEF OperationRowsInv, TellsOf
  <2> QED
    BY <1>3, <1>4, <2>1, <2>3 DEF OperationRowsInv
<1> QED
  BY <1>9, <1>10, <1>11, <1>12

\* When the operations table is begun it is empty and nothing is walked.
LEMMA StartOfOperations ==
    ASSUME IInv, turn = 1, turn' = 2, t' = 1, i' = 1, Txs' = Txs,
           rows'["operations"] = rows["operations"]
    PROVE  OperationRowsInv'
<1>1. \A n, k : ~Walked(n, k)
  BY DEF Walked
<1>2. \A m \in 1 .. Len(rows["operations"]) : FALSE
  BY <1>1 DEF IInv, OperationRowsInv, TellsOf
<1>3. ASSUME NEW n \in DOMAIN Txs, NEW k \in DOMAIN Txs[n].ops PROVE ~Walked(n, k)'
  <2>1. n \in Nat \ {0} /\ k \in Nat \ {0}
    BY LedgerShape DEF IInv, Types
  <2> QED
    BY <2>1 DEF Walked, Before
<1> QED
  BY <1>2, <1>3 DEF OperationRowsInv

\* When a loop over the transactions is begun its counters are at the first.
LEMMA StartOfCounters ==
    ASSUME IInv, turn' = 2, t' = 1, i' = 1, txIndex' = 1, Txs' = Txs
    PROVE  Counters'
<1>1. DOMAIN Txs = 1 .. Len(Txs) /\ Len(Txs) \in Nat
  BY LedgerShape DEF IInv, Types
<1>2. ASSUME 1 <= Len(Txs) PROVE Len(Txs[1].ops) \in Nat
  BY <1>1, <1>2, LedgerShape DEF IInv, Types
<1>3. Tx' = Txs[1]
  BY DEF Tx
<1> QED
  BY <1>1, <1>2, <1>3 DEF Counters

\* The table fails: no row is left.
LEMMA FailTransactionsInv == IInv /\ FailTransactions => IInv'
<1> SUFFICES ASSUME IInv, FailTransactions PROVE IInv'
  OBVIOUS
<1> USE DEF IInv
<1>1. turn = 1 /\ t \in DOMAIN Txs /\ Txs[t].broken
  BY Turns DEF FailTransactions, Types, Tx
<1>2. /\ turn' = 2 /\ t' = 1 /\ txIndex' = 1 /\ i' = 1
      /\ ledger' = ledger /\ failed' = failed \cup {"transactions"}
  BY <1>1 DEF FailTransactions, Return
<1>3. Txs' = Txs /\ DOMAIN Txs = 1 .. Len(Txs) /\ Len(Txs) \in Nat
  BY <1>2, LedgerShape DEF Types, Txs
<1>4. /\ rows' = [x \in Tables |-> rows'[x]]
      /\ rows'["transactions"] = << >>
      /\ rows'["operations"] = rows["operations"]
  <2>1. rows' = [rows EXCEPT !["transactions"] = << >>]
    BY DEF FailTransactions
  <2>2. DOMAIN rows = Tables
    BY DEF Types
  <2> HIDE DEF IInv
  <2>3. rows' = [x \in Tables |-> IF x = "transactions" THEN << >> ELSE rows[x]]
    BY <2>1, <2>2
  <2> QED
    BY <2>3, TableNames
<1>5. failed = {}
  BY <1>1 DEF TransactionRowsInv, RowsOfFirst
<1>6. Types'
  <2>1. << >> \in Seq(TransactionRowSet)
    OBVIOUS
  <2> QED
    BY <1>2, <1>4, <1>5, <2>1 DEF Types
<1>7. Counters'
  BY <1>2, <1>3, StartOfCounters
<1>8. TransactionRowsInv'
  BY <1>1, <1>2, <1>3, <1>4, <1>5 DEF TransactionRowsInv, NoRowsAtAll
<1>9. OperationRowsInv'
  BY <1>1, <1>2, <1>3, <1>4, StartOfOperations
<1> QED
  BY <1>6, <1>7, <1>8, <1>9

\* A row of the operations table.
LEMMA AddOperationInv == IInv /\ AddOperation("operations") => IInv'
<1> SUFFICES ASSUME IInv, AddOperation("operations") PROVE IInv'
  OBVIOUS
<1> USE DEF IInv
<1> DEFINE old == rows["operations"]
           new == rows'["operations"]
           row == OperationRow
<1>1. turn = 2 /\ t \in DOMAIN Txs /\ i \in DOMAIN Tx.ops
  BY Turns DEF AddOperation, Types
<1>2. /\ turn' = 2 /\ t' = t /\ txIndex' = txIndex /\ i' = i + 1
      /\ ledger' = ledger /\ failed' = failed
  BY <1>1 DEF AddOperation
<1>3. Txs' = Txs /\ Tx' = Tx /\ DOMAIN Txs = 1 .. Len(Txs) /\ Len(Txs) \in Nat
  BY <1>2, LedgerShape DEF Types, Txs, Tx
<1>4. DOMAIN Tx.ops = 1 .. Len(Tx.ops) /\ Len(Tx.ops) \in Nat
  BY <1>1, LedgerShape DEF Types, Tx
<1>5. /\ rows' = [x \in Tables |-> rows'[x]]
      /\ new = old \o << row >>
      /\ rows'["transactions"] = rows["transactions"]
  <2>1. Emit("operations", << row >>)
    BY DEF AddOperation, OperationRows
  <2> QED
    BY <2>1, Emitted, TableNames
<1>6. row \in OperationRowSet /\ IsRowOfOp(row)
  BY <1>1, OperationRowTyped
<1>7. old \in Seq(OperationRowSet) /\ Len(old) \in Nat
  BY DEF Types
<1>8. /\ new \in Seq(OperationRowSet) /\ Len(new) = Len(old) + 1
      /\ \A m \in 1 .. Len(old) : new[m] = old[m]
      /\ new[Len(old) + 1] = row
  <2>1. new = old \o << row >> /\ row \in OperationRowSet /\ old \in Seq(OperationRowSet)
    BY <1>5, <1>6, <1>7
  <2> HIDE DEF old, new, row
  <2> QED
    BY <2>1, OneMore
<1>9. Types'
  BY <1>2, <1>5, <1>8 DEF Types
<1>10. Counters'
  BY <1>1, <1>2, <1>3, <1>4 DEF Types, Counters
<1>11. TransactionRowsInv'
  BY <1>1, <1>2, <1>3, <1>5 DEF TransactionRowsInv, RowsOfFirst, NoRowsAtAll
<1>12. t \in Nat /\ i \in Nat
  BY DEF Types
<1>13. ASSUME NEW n \in Nat, NEW k \in Nat
       PROVE  Walked(n, k)' <=> Walked(n, k) \/ (n = t /\ k = i)
  BY <1>1, <1>2, <1>12, <1>13 DEF Walked, Before
<1>14. ASSUME NEW r \in OperationRowSet, TellsOf(r) PROVE TellsOf(r)'
  <2>1. r.hash \in Nat /\ r.index + 1 \in Nat
    BY DEF OperationRowSet
  <2>2. Walked(r.hash, r.index + 1)'
    BY <1>13, <1>14, <2>1 DEF TellsOf
  <2> QED
    BY <1>3, <1>14, <2>2 DEF TellsOf
<1>15. ASSUME NEW r \in OperationRowSet, IsRowOfOp(r) PROVE TellsOf(r)'
  <2>1. r.hash = t /\ r.index + 1 = i
    BY <1>12, <1>15 DEF IsRowOfOp
  <2>2. Walked(r.hash, r.index + 1)'
    BY <1>12, <1>13, <2>1
  <2>3. Txs[t] = Tx /\ Tx.ops[i] = Op
    BY DEF Tx, Op
  <2> QED
    BY <1>1, <1>3, <1>15, <2>1, <2>2, <2>3 DEF TellsOf, IsRowOfOp
<1>16. ASSUME NEW m \in 1 .. Len(new) PROVE TellsOf(rows["operations"][m])'
  <2>1. CASE m \in 1 .. Len(old)
    <3>1. old[m] \in OperationRowSet
      BY <1>7, <2>1
    <3>2. TellsOf(old[m]) /\ new[m] = old[m]
      BY <1>8, <2>1 DEF OperationRowsInv
    <3>3. PICK r \in OperationRowSet : r = old[m] /\ TellsOf(r)
      BY <3>1, <3>2
    <3>4. TellsOf(r)' /\ r = new[m]
      BY <1>14, <3>2, <3>3
    <3> QED
      BY <3>4 DEF TellsOf
  <2>2. CASE m = Len(old) + 1
    <3>1. PICK r \in OperationRowSet : r = row
      BY <1>6
    <3>2. IsRowOfOp(r)
      BY <1>6, <3>1
    <3>3. TellsOf(r)'
      BY <1>15, <3>2
    <3>4. r = new[m]
      BY <1>8, <2>2, <3>1
    <3> QED
      BY <3>3, <3>4 DEF TellsOf
  <2> QED
    BY <1>7, <1>8, <2>1, <2>2
<1>17. ASSUME NEW m \in 1 .. Len(new), NEW l \in 1 .. m - 1
       PROVE  Before(new[l].id, new[m].id)
  <2>1. l \in 1 .. Len(old) /\ new[l] = old[l]
    BY <1>7, <1>8
  <2>2. CASE m \in 1 .. Len(old)
    BY <1>8, <2>1, <2>2 DEF OperationRowsInv
  <2>3. CASE m = Len(old) + 1
    <3>1. TellsOf(old[l])
      BY <2>1 DEF OperationRowsInv
    <3>2. Before(<< old[l].hash, old[l].index + 1 >>, << t, i >>)
      BY <1>1, <3>1 DEF TellsOf, Walked
    <3>3. new[m].id = << t, i >> /\ new[l].id = << old[l].hash, old[l].index + 1 >>
      BY <1>6, <1>8, <2>1, <2>3, <3>1 DEF TellsOf, IsRowOfOp
    <3> QED
      BY <3>2, <3>3
  <2> QED
    BY <1>7, <1>8, <2>2, <2>3
<1>18. ASSUME NEW n \in DOMAIN Txs, NEW k \in DOMAIN Txs[n].ops, Walked(n, k)'
       PROVE  \E m \in 1 .. Len(new) : new[m].hash = n /\ new[m].index = k - 1
  <2>1. n \in Nat /\ k \in Nat
    BY LedgerShape DEF Types
  <2>2. CASE Walked(n, k)
    <3>1. PICK m \in 1 .. Len(old) : old[m].hash = n /\ old[m].index = k - 1
      BY <2>2 DEF OperationRowsInv
    <3>2. m \in 1 .. Len(new) /\ new[m] = old[m]
      BY <1>7, <1>8
    <3> QED
      BY <3>1, <3>2
  <2>3. CASE n = t /\ k = i
    <3>1. Len(old) + 1 \in 1 .. Len(new)
      BY <1>7, <1>8
    <3> QED
      BY <1>6, <1>8, <2>3, <3>1 DEF IsRowOfOp
  <2> QED
    BY <1>13, <1>18, <2>1, <2>2, <2>3
<1>19. OperationRowsInv'
  <2> HIDE DEF IInv
  <2>1. \A m \in 1 .. Len(rows["operations"]') : TellsOf(rows["operations"][m])'
    BY <1>16
  <2> QED
    BY <1>3, <2>1, <1>17, <1>18 DEF OperationRowsInv, Before
<1> QED
  BY <1>9, <1>10, <1>11, <1>19

\* The next transaction of the operations table.
LEMMA NextTransactionInv == IInv /\ NextTransaction("operations") => IInv'
<1> SUFFICES ASSUME IInv, NextTransaction("operations") PROVE IInv'
  OBVIOUS
<1> USE DEF IInv
<1>1. turn = 2 /\ t \in DOMAIN Txs /\ i > Len(Tx.ops)
  BY Turns DEF NextTransaction, Types, Skipped, OnlySuccessful
<1>2. /\ turn' = 2 /\ t' = t + 1 /\ txIndex' = txIndex + 1 /\ i' = 1
      /\ ledger' = ledger /\ failed' = failed /\ rows' = rows
  BY <1>1 DEF NextTransaction
<1>3. Txs' = Txs /\ DOMAIN Txs = 1 .. Len(Txs) /\ Len(Txs) \in Nat
  BY <1>2, LedgerShape DEF Types, Txs
<1>4. t \in Nat /\ i \in Nat
  BY DEF Types
<1>5. Types'
  BY <1>2 DEF Types
<1>6. Counters'
  <2>1. ASSUME t + 1 <= Len(Txs) PROVE 1 <= Len(Txs[t + 1].ops) + 1
    <3>1. t + 1 \in DOMAIN Txs
      BY <1>3, <1>4, <2>1
    <3>2. Len(Txs[t + 1].ops) \in Nat
      BY <3>1, LedgerShape DEF Types
    <3> QED
      BY <3>2
  <2>2. Tx' = Txs[t + 1]
    BY <1>2, <1>3 DEF Tx
  <2> QED
    BY <1>1, <1>2, <1>3, <1>4, <2>1, <2>2 DEF Counters
<1>7. TransactionRowsInv'
  BY <1>1, <1>2, <1>3 DEF TransactionRowsInv, RowsOfFirst, NoRowsAtAll
<1>8. ASSUME NEW n \in DOMAIN Txs, NEW k \in DOMAIN Txs[n].ops
      PROVE  Walked(n, k)' <=> Walked(n, k)
  <2>1. n \in Nat /\ k \in Nat /\ k >= 1
    BY LedgerShape DEF Types
  <2>2. n = t => k < i
    <3>1. n = t => k <= Len(Tx.ops) /\ Len(Tx.ops) \in Nat
      BY LedgerShape DEF Types, Tx
    <3> QED
      BY <1>1, <1>4, <2>1, <3>1
  <2> QED
    BY <1>1, <1>2, <1>4, <2>1, <2>2 DEF Walked, Before
<1>9. ASSUME NEW r, TellsOf(r) PROVE TellsOf(r)'
  BY <1>3, <1>8, <1>9 DEF TellsOf
<1>10. OperationRowsInv'
  <2>1. ASSUME NEW m \in 1 .. Len(rows["operations"]) PROVE TellsOf(rows["operations"][m])'
    <3>1. PICK r : r = rows["operations"][m]
      OBVIOUS
    <3>2. TellsOf(r)'
      BY <1>9, <3>1 DEF OperationRowsInv
    <3> QED
      BY <1>2, <3>1, <3>2 DEF TellsOf
  <2> QED
    BY <1>2, <1>3, <1>8, <2>1 DEF OperationRowsInv, Before
<1> QED
  BY <1>5, <1>6, <1>7, <1>10

\* The loop of the transactions table ends without a failure.
LEMMA EndOfTransactionsInv == IInv /\ EndOfLoop("transactions") => IInv'
<1> SUFFICES ASSUME IInv, EndOfLoop("transactions") PROVE IInv'
  OBVIOUS
<1> USE DEF IInv
<1>1. turn = 1 /\ t \notin DOMAIN Txs
  BY Turns DEF EndOfLoop, Types
<1>2. /\ turn' = 2 /\ t' = 1 /\ txIndex' = 1 /\ i' = 1
      /\ ledger' = ledger /\ failed' = failed /\ rows' = rows
  BY <1>1 DEF EndOfLoop, Return
<1>3. Txs' = Txs /\ DOMAIN Txs = 1 .. Len(Txs) /\ Len(Txs) \in Nat
  BY <1>2, LedgerShape DEF Types, Txs
<1>4. t - 1 = Len(Txs)
  BY <1>1, <1>3 DEF Types, Counters
<1>5. Types'
  BY <1>2 DEF Types
<1>6. Counters'
  BY <1>2, <1>3, StartOfCounters
<1>7. TransactionRowsInv'
  BY <1>1, <1>2, <1>3, <1>4 DEF TransactionRowsInv, RowsOfFirst
<1>8. OperationRowsInv'
  BY <1>1, <1>2, <1>3, StartOfOperations
<1> QED
  BY <1>5, <1>6, <1>7, <1>8

\* The tables after the operations leave their rows alone.
Later ==
    /\ turn >= 2 /\ turn' \in 3 .. 9
    /\ t' \in Nat \ {0} /\ i' \in Nat \ {0} /\ txIndex' \in Nat \ {0}
    /\ ledger' = ledger /\ failed' = failed
    /\ rows' = [table \in Tables |-> rows'[table]]
    /\ rows'["transactions"] = rows["transactions"]
    /\ rows'["operations"] = rows["operations"]
    /\ turn = 2 => t \notin DOMAIN Txs

LEMMA LaterInv == IInv /\ Later => IInv'
<1> SUFFICES ASSUME IInv, Later PROVE IInv'
  OBVIOUS
<1> USE DEF IInv, Later
<1>1. Txs' = Txs /\ DOMAIN Txs = 1 .. Len(Txs) /\ Len(Txs) \in Nat
  BY LedgerShape DEF Types, Txs
<1>2. Types'
  BY DEF Types
<1>3. Counters'
  BY DEF Counters
<1>4. TransactionRowsInv'
  <2>0. turn' \in 3 .. 9 /\ turn >= 2 /\ turn \in 1 .. 9
    BY DEF Types
  <2>1. turn' \in Int /\ turn' > 2 /\ turn \in Int /\ turn > 1
    <3> HIDE DEF IInv, Later
    <3> QED
      BY <2>0
  <2>2. RowsOfFirst(Len(Txs)) \/ NoRowsAtAll
    BY <2>1 DEF TransactionRowsInv
  <2>3. failed' = failed /\ rows'["transactions"] = rows["transactions"]
    OBVIOUS
  <2> HIDE DEF IInv, Later
  <2>4. RowsOfFirst(Len(Txs)) => RowsOfFirst(Len(Txs))'
    BY <1>1, <2>3 DEF RowsOfFirst
  <2>5. NoRowsAtAll => NoRowsAtAll'
    BY <1>1, <2>3 DEF NoRowsAtAll
  <2> QED
    BY <2>1, <2>2, <2>4, <2>5 DEF TransactionRowsInv
<1>5. ASSUME NEW n \in DOMAIN Txs, NEW k \in DOMAIN Txs[n].ops
      PROVE  Walked(n, k)
  <2>1. CASE turn = 2
    <3>1. n \in Nat /\ t \in Nat /\ n < t
      BY <1>1, <2>1 DEF Types, Counters
    <3> QED
      BY <2>1, <3>1 DEF Walked, Before
  <2>2. CASE turn > 2
    BY <2>2 DEF Walked
  <2> QED
    BY <2>1, <2>2 DEF Types
<1>6. \A n, k : Walked(n, k)'
  BY DEF Walked
<1>7. OperationRowsInv'
  <2>1. ASSUME NEW m \in 1 .. Len(rows["operations"]) PROVE TellsOf(rows["operations"][m])'
    <3>1. TellsOf(rows["operations"][m])
      BY DEF OperationRowsInv
    <3> QED
      BY <1>1, <1>6, <3>1 DEF TellsOf
  <2> QED
    BY <1>1, <1>5, <2>1 DEF OperationRowsInv, Before
<1> QED
  BY <1>2, <1>3, <1>4, <1>7

\* Everything but the actions of the first two tables is Later.
LEMMA OtherActions ==
    ASSUME IInv, Next, ~AddTransaction, ~FailTransactions,
           ~AddOperation("operations"), ~NextTransaction("operations"),
           ~EndOfLoop("transactions"), ~Terminated
    PROVE  Later
<1> USE DEF IInv
<1>1. turn \in 1 .. 9 /\ t \in Nat \ {0} /\ i \in Nat \ {0} /\ txIndex \in Nat \ {0}
  BY DEF Types
<1>2. rows = [table \in Tables |-> rows[table]]
  BY DEF Types
<1>3. CASE \E table \in PerOperation : AddOperation(table) \/ NextTransaction(table)
  <2>1. PICK table \in PerOperation : AddOperation(table) \/ NextTransaction(table)
    BY <1>3
  <2>2. table \in Tables \ {"transactions", "operations"}
    BY <2>1, TableNames DEF PerOperation
  <2>3. AtTable(table) /\ turn' = turn /\ ledger' = ledger /\ failed' = failed
    BY <2>1 DEF AddOperation, NextTransaction
  <2>4. turn \in 3 .. 8
    BY <1>1, <2>2, <2>3, Turns
  <2>5. t' \in Nat \ {0} /\ i' \in Nat \ {0} /\ txIndex' \in Nat \ {0}
    BY <1>1, <2>1 DEF AddOperation, NextTransaction
  <2>6. CASE AddOperation(table)
    <3>1. Emit(table, OperationRows(table))
      BY <2>6 DEF AddOperation
    <3>2. /\ rows' = [x \in Tables |-> rows'[x]]
          /\ rows'["transactions"] = rows["transactions"]
          /\ rows'["operations"] = rows["operations"]
      BY <2>2, <3>1, Emitted, TableNames
    <3> QED
      BY <2>3, <2>4, <2>5, <3>2 DEF Later
  <2>7. CASE NextTransaction(table)
    <3>1. rows' = rows
      BY <2>7 DEF NextTransaction
    <3> QED
      BY <1>2, <2>3, <2>4, <2>5, <3>1 DEF Later
  <2> QED
    BY <2>1, <2>6, <2>7
<1>4. CASE AddTransfer
  <2>1. AtTable("token_transfers") /\ turn' = turn /\ ledger' = ledger /\ failed' = failed
    BY <1>4 DEF AddTransfer
  <2>2. turn \in 3 .. 8
    BY <1>1, <2>1, Turns, TableNames
  <2>3. t' \in Nat \ {0} /\ i' \in Nat \ {0} /\ txIndex' \in Nat \ {0}
    BY <1>1, <1>4 DEF AddTransfer
  <2>4. PICK more : Emit("token_transfers", more)
    BY <1>4 DEF AddTransfer
  <2>5. /\ rows' = [x \in Tables |-> rows'[x]]
        /\ rows'["transactions"] = rows["transactions"]
        /\ rows'["operations"] = rows["operations"]
    BY <2>4, Emitted, TableNames
  <2> QED
    BY <2>1, <2>2, <2>3, <2>5 DEF Later
<1>5. CASE \E table \in Tables : EndOfLoop(table)
  <2>1. PICK table \in Tables : EndOfLoop(table)
    BY <1>5
  <2>2. table # "transactions" /\ AtTable(table)
    BY <2>1 DEF EndOfLoop
  <2>3. /\ turn' = turn + 1 /\ t' = 1 /\ i' = 1 /\ txIndex' = 1
        /\ ledger' = ledger /\ failed' = failed /\ rows' = rows
    BY <2>1 DEF EndOfLoop, Return
  <2>4. turn \in 2 .. 8
    BY <1>1, <2>1, <2>2, Turns
  <2>5. turn = 2 => t \notin DOMAIN Txs
    <3>1. turn = 2 => table = "operations"
      BY <1>1, <2>1, <2>2, Turns
    <3> QED
      BY <2>1, <3>1 DEF EndOfLoop
  <2> QED
    BY <1>2, <2>3, <2>4, <2>5 DEF Later
<1>6. CASE AddLedger \/ AddEvictedKeys
  <2>1. PICK table \in {"ledgers", "evicted_keys"} :
            AtTable(table) /\ \E more : Emit(table, more)
    BY <1>6 DEF AddLedger, AddEvictedKeys
  <2>2. PICK more : Emit(table, more)
    BY <2>1
  <2>3. turn \in 3 .. 8
    BY <1>1, <2>1, Turns, TableNames
  <2>4. /\ turn' = turn + 1 /\ t' = 1 /\ i' = 1 /\ txIndex' = 1
        /\ ledger' = ledger /\ failed' = failed
    BY <1>6 DEF AddLedger, AddEvictedKeys, Return
  <2>5. /\ rows' = [x \in Tables |-> rows'[x]]
        /\ rows'["transactions"] = rows["transactions"]
        /\ rows'["operations"] = rows["operations"]
    BY <2>2, Emitted, TableNames
  <2> QED
    BY <2>3, <2>4, <2>5 DEF Later
<1> QED
  BY <1>3, <1>4, <1>5, <1>6 DEF Next

LEMMA NextInv == IInv /\ [Next]_vars => IInv'
<1> SUFFICES ASSUME IInv, [Next]_vars PROVE IInv'
  OBVIOUS
<1>1. CASE UNCHANGED vars \/ Terminated
  <2>1. UNCHANGED << ledger, turn, t, i, txIndex, rows, failed >>
    BY <1>1 DEF vars, Terminated
  <2>2. Types /\ Counters /\ TransactionRowsInv /\ OperationRowsInv
    BY DEF IInv
  <2>3. Txs' = Txs /\ Tx' = Tx
    BY <2>1 DEF Txs, Tx
  <2>4. Types' /\ Counters'
    BY <2>1, <2>2, <2>3 DEF Types, Counters
  <2>5. TransactionRowsInv'
    BY <2>1, <2>2, <2>3 DEF TransactionRowsInv, RowsOfFirst, NoRowsAtAll
  <2>6. OperationRowsInv'
    BY <2>1, <2>2, <2>3 DEF OperationRowsInv, TellsOf, Walked, Before
  <2> QED
    BY <2>4, <2>5, <2>6 DEF IInv
<1>2. CASE Next /\ ~Terminated
  BY <1>2, AddTransactionInv, FailTransactionsInv, AddOperationInv, NextTransactionInv,
     EndOfTransactionsInv, OtherActions, LaterInv
<1> QED
  BY <1>1, <1>2

-----------------------------------------------------------------------------
\* The counters of both loops agree with the ledger, and the rows written are
\* those of the transactions and operations walked.
THEOREM Invariance == Spec => []IInv
<1>1. Init => IInv
  BY InitInv
<1>2. IInv /\ [Next]_vars => IInv'
  BY NextInv
<1> QED
  BY <1>1, <1>2, PTL DEF Spec

LEMMA TypesImplyTypeOK == IInv => TypeOK
<1> SUFFICES ASSUME IInv PROVE TypeOK
  OBVIOUS
<1>1. Types
  BY DEF IInv
<1>2. ASSUME NEW m \in DOMAIN rows["operations"]
      PROVE  rows["operations"][m].id \in (Nat \ {0}) \X (Nat \ {0})
  <2> DEFINE r == rows["operations"][m]
  <2>1. rows["operations"] \in Seq(OperationRowSet)
    BY <1>1 DEF Types
  <2>2. m \in 1 .. Len(rows["operations"]) /\ r \in OperationRowSet
    BY <2>1
  <2>3. TellsOf(r)
    BY <2>2 DEF IInv, OperationRowsInv
  <2>4. r.hash \in Nat \ {0}
    <3>1. r.hash \in DOMAIN Txs
      BY <2>3 DEF TellsOf
    <3> HIDE DEF r
    <3> QED
      BY <1>1, <3>1, LedgerShape DEF Types
  <2>5. r.index \in Nat
    BY <2>2 DEF OperationRowSet
  <2> QED
    BY <2>3, <2>4, <2>5 DEF TellsOf
<1>3. DOMAIN rows = Tables /\ failed \subseteq {"transactions"}
  BY <1>1 DEF Types
<1>4. t \in Nat \ {0} /\ i \in Nat \ {0} /\ txIndex \in Nat \ {0}
  BY <1>1 DEF Types
<1>5. turn \in 1 .. Len(TableOrder) + 1
  <2>1. Len(TableOrder) = 8
    BY DEF TableOrder
  <2> QED
    BY <1>1, <2>1 DEF Types
<1> QED
  BY <1>2, <1>3, <1>4, <1>5 DEF TypeOK

\* The loops stay in the ledger and operations are numbered from one.
THEOREM TypeCorrect == Spec => []TypeOK
BY Invariance, TypesImplyTypeOK, PTL

LEMMA RowsImplyAllOrNothing == IInv => TransactionsAllOrNothing
<1> SUFFICES ASSUME IInv, Finished("transactions") PROVE
      IF \E n \in DOMAIN Txs : Txs[n].broken
      THEN failed = {"transactions"} /\ rows["transactions"] = << >>
      ELSE /\ failed = {} /\ Len(rows["transactions"]) = Len(Txs)
           /\ \A n \in DOMAIN Txs : /\ rows["transactions"][n].hash = n
                                   /\ rows["transactions"][n].id = << n, 0 >>
  BY DEF TransactionsAllOrNothing
<1>1. turn > 1
  BY DEF Finished, TableOrder
<1>2. RowsOfFirst(Len(Txs)) \/ NoRowsAtAll
  BY <1>1 DEF IInv, TransactionRowsInv
<1>3. DOMAIN Txs = 1 .. Len(Txs)
  BY LedgerShape DEF IInv, Types
<1> QED
  BY <1>2, <1>3 DEF RowsOfFirst, NoRowsAtAll

\* For every ledger the transactions table has a row for each transaction, or
\* is an error without rows.
THEOREM AllOrNothing == Spec => []TransactionsAllOrNothing
BY Invariance, RowsImplyAllOrNothing, PTL

LEMMA RowsImplyParents == IInv => OperationsHaveParents
<1> SUFFICES ASSUME IInv, Finished("operations"), failed = {} PROVE OperationsHaveParents
  BY DEF OperationsHaveParents
<1> DEFINE operations == rows["operations"]
           transactions == rows["transactions"]
<1>1. turn > 2
  BY DEF Finished, TableOrder
<1>2. turn > 1 /\ RowsOfFirst(Len(Txs))
  BY <1>1 DEF IInv, Types, TransactionRowsInv, NoRowsAtAll
<1>3. /\ DOMAIN Txs = 1 .. Len(Txs) /\ Len(Txs) \in Nat
      /\ \A n \in DOMAIN Txs : /\ Len(Txs[n].ops) \in Nat
                               /\ DOMAIN Txs[n].ops = 1 .. Len(Txs[n].ops)
  BY LedgerShape DEF IInv, Types
<1>4. operations \in Seq(OperationRowSet) /\ transactions \in Seq(TransactionRowSet)
  BY DEF IInv, Types
<1>5. DOMAIN operations = 1 .. Len(operations) /\ DOMAIN transactions = DOMAIN Txs
  BY <1>2, <1>3, <1>4 DEF RowsOfFirst
<1>6. ASSUME NEW m \in DOMAIN operations
      PROVE  TellsOf(operations[m]) /\ operations[m].index \in Nat
  <2>1. operations[m] \in OperationRowSet
    BY <1>4
  <2> QED
    BY <1>5, <2>1 DEF IInv, OperationRowsInv, OperationRowSet
<1>7. ASSUME NEW n \in DOMAIN Txs
      PROVE  /\ transactions[n].hash = n /\ transactions[n].id = << n, 0 >>
             /\ transactions[n].ok <=> Txs[n].ok
             /\ transactions[n].operations = Len(Txs[n].ops)
  BY <1>2, <1>3 DEF RowsOfFirst
<1>8. ASSUME NEW m \in DOMAIN operations, NEW l \in 1 .. m - 1
      PROVE  Before(operations[l].id, operations[m].id)
  BY <1>5 DEF IInv, OperationRowsInv
<1>9. ASSUME NEW m \in DOMAIN operations
      PROVE  \E n \in DOMAIN transactions :
                /\ operations[m].txID = transactions[n].id
                /\ operations[m].hash = transactions[n].hash
                /\ operations[m].ok <=> transactions[n].ok
                /\ operations[m].index < transactions[n].operations
  <2> DEFINE r == operations[m]
             n == r.hash
  <2>1. TellsOf(r) /\ r.index \in Nat
    BY <1>6
  <2>2. n \in DOMAIN Txs /\ r.index + 1 \in 1 .. Len(Txs[n].ops)
    BY <1>3, <2>1 DEF TellsOf
  <2>3. r.index < Len(Txs[n].ops)
    BY <1>3, <2>1, <2>2
  <2> HIDE DEF operations, transactions
  <2> QED
    BY <1>5, <1>7, <2>1, <2>2, <2>3 DEF TellsOf
<1>10. ASSUME NEW n \in DOMAIN transactions, NEW k \in 1 .. transactions[n].operations
       PROVE  \E m \in DOMAIN operations :
                 operations[m].txID = transactions[n].id /\ operations[m].index = k - 1
  <2>1. n \in DOMAIN Txs /\ k \in DOMAIN Txs[n].ops
    BY <1>3, <1>5, <1>7
  <2>2. Walked(n, k)
    BY <1>1 DEF Walked
  <2>3. PICK m \in 1 .. Len(operations) : operations[m].hash = n /\ operations[m].index = k - 1
    BY <2>1, <2>2 DEF IInv, OperationRowsInv
  <2>4. operations[m].txID = << n, 0 >>
    BY <1>5, <1>6, <2>3 DEF TellsOf
  <2> HIDE DEF operations, transactions
  <2> QED
    BY <1>5, <1>7, <2>1, <2>3, <2>4
<1> QED
  BY <1>8, <1>9, <1>10 DEF OperationsHaveParents, Before

\* For every ledger the rows of the operations table come in the order of their
\* ids, and join with the rows of the transactions table both ways.
THEOREM Parents == Spec => []OperationsHaveParents
BY Invariance, RowsImplyParents, PTL

-----------------------------------------------------------------------------
\* A step adds to the rows of the table at work, and to no others.
LEMMA OthersKept ==
    ASSUME IInv, [Next]_vars, NEW x \in Tables \ {"transactions", "operations"}
    PROVE  /\ ledger' = ledger
           /\ rows'[x] = rows[x] \/ (AtTable(x) /\ \E more : Emit(x, more))
<1>1. ledger' = ledger
  BY DEF Next, vars, AddTransaction, FailTransactions, AddOperation, NextTransaction,
         AddTransfer, EndOfLoop, AddLedger, AddEvictedKeys, Terminated, Return
<1>2. Types
  BY DEF IInv
<1>3. ASSUME NEW y \in Tables, AtTable(y), NEW more, Emit(y, more)
      PROVE  rows'[x] = rows[x] \/ (AtTable(x) /\ \E m : Emit(x, m))
  <2>1. CASE x = y
    BY <1>3, <2>1
  <2>2. CASE x # y
    BY <1>2, <1>3, <2>2, Emitted
  <2> QED
    BY <2>1, <2>2
<1>4. CASE rows' = rows
  BY <1>1, <1>4
<1>5. CASE FailTransactions
  <2>1. rows' = [rows EXCEPT !["transactions"] = << >>]
    BY <1>5 DEF FailTransactions
  <2> QED
    BY <1>1, <1>2, <2>1 DEF Types
<1>6. CASE \E y \in Tables : AtTable(y) /\ \E more : Emit(y, more)
  BY <1>1, <1>3, <1>6
<1>7. rows' = rows \/ FailTransactions \/ \E y \in Tables : AtTable(y) /\ \E more : Emit(y, more)
  <2>1. CASE AddTransaction \/ AddTransfer \/ AddLedger \/ AddEvictedKeys
    BY <2>1, TableNames DEF AddTransaction, AddTransfer, AddLedger, AddEvictedKeys
  <2>2. CASE \E table \in PerOperation : AddOperation(table) \/ NextTransaction(table)
    BY <2>2, TableNames DEF PerOperation, AddOperation, NextTransaction
  <2>3. CASE \E table \in Tables : EndOfLoop(table)
    BY <2>3 DEF EndOfLoop
  <2>4. CASE UNCHANGED vars \/ Terminated
    BY <2>4 DEF vars, Terminated
  <2> QED
    BY <2>1, <2>2, <2>3, <2>4 DEF Next
<1> QED
  BY <1>1, <1>4, <1>5, <1>6, <1>7

-----------------------------------------------------------------------------
(* Token transfers.                                                         *)

\* A row names its transaction and, if any, one of its operations.
TransferNames(r) ==
    /\ r.hash \in DOMAIN Txs
    /\ \/ r.operation = NoEntry
       \/ \E k \in DOMAIN Txs[r.hash].ops : r.operation = << r.hash, k >> /\ Txs[r.hash].ok

\* The rows of one transaction count from zero.
CountFromZero(s) == \A k \in 1 .. Len(s) : s[k].index = k - 1

TransferRowsInv ==
    /\ IsSequence(rows["token_transfers"])
    /\ \A m \in 1 .. Len(rows["token_transfers"]) : TransferNames(rows["token_transfers"][m])
    /\ \A n \in DOMAIN Txs : CountFromZero(RowsOf("token_transfers", n))

\* The row of an event.
LEMMA TransferRowNames ==
    ASSUME Types, t \in DOMAIN ledger.transfers
    PROVE  /\ TransferNames(TransferRow(ledger.transfers[t]))
           /\ TransferRow(ledger.transfers[t]).index =
                 Len(RowsOf("token_transfers", TransferRow(ledger.transfers[t]).hash))
<1> DEFINE event == ledger.transfers[t]
           r == TransferRow(event)
<1>1. ledger \in Ledgers /\ ledger.transfers \in Seq(Transfer(ledger))
  BY LedgersAssumption DEF Types
<1>2. event \in Transfer(ledger)
  <2> HIDE DEF event
  <2>1. \A s \in Seq(Transfer(ledger)) : \A n \in DOMAIN s : s[n] \in Transfer(ledger)
    BY OwnElements
  <2> QED
    BY <1>1, <2>1 DEF event
<1>3. /\ event.tx \in DOMAIN ledger.txs
      /\ event.op # 0 => ledger.txs[event.tx].ok /\ event.op \in DOMAIN ledger.txs[event.tx].ops
  BY <1>2 DEF Transfer
<1> HIDE DEF event
<1>4. /\ r.hash = event.tx
      /\ r.operation = IF event.op = 0 THEN NoEntry ELSE << event.tx, event.op >>
      /\ r.index = TransferIndex(event.tx)
  BY DEF TransferRow
<1>5. TransferNames(r)
  <2> HIDE DEF r
  <2> QED
    BY <1>3, <1>4 DEF TransferNames, Txs
<1> QED
  BY <1>4, <1>5 DEF event, TransferIndex, RowsOf

LEMMA AddTransferRows ==
    ASSUME Types, TransferRowsInv, AddTransfer, ledger' = ledger,
           rows'["token_transfers"] = rows["token_transfers"] \o << TransferRow(ledger.transfers[t]) >>
    PROVE  TransferRowsInv'
<1> DEFINE r == TransferRow(ledger.transfers[t])
           old == rows["token_transfers"]
           new == rows'["token_transfers"]
<1>1. TransferNames(r) /\ r.index = Len(RowsOf("token_transfers", r.hash))
  BY TransferRowNames DEF AddTransfer
<1>2. Txs' = Txs
  BY DEF Txs
<1>3. IsSequence(old) /\ new = old \o << r >>
  BY DEF TransferRowsInv
<1> HIDE DEF r
<1>4. /\ IsSequence(new) /\ Len(new) = Len(old) + 1 /\ Len(old) \in Nat
      /\ \A m \in 1 .. Len(old) : new[m] = old[m]
      /\ new[Len(old) + 1] = r
  <2> HIDE DEF old, new
  <2>1. Len(<< r >>) = 1 /\ IsSequence(<< r >>) /\ << r >>[1] = r /\ 1 \in 1 .. Len(<< r >>)
    BY SmallSequences
  <2>2. Len(old) \in Nat
    BY <1>3 DEF IsSequence
  <2> QED
    BY <1>3, <2>1, <2>2, JoinedIs
<1>5. \A m \in 1 .. Len(new) : TransferNames(new[m])
  <2>1. \A l \in 1 .. Len(old) : TransferNames(old[l])
    BY DEF TransferRowsInv
  <2> HIDE DEF old, new
  <2>2. \A m \in 1 .. Len(new) : m \in 1 .. Len(old) \/ m = Len(old) + 1
    BY <1>4
  <2> QED
    BY <1>1, <1>4, <2>1, <2>2
<1>6. ASSUME NEW n \in DOMAIN Txs PROVE CountFromZero(RowsOf("token_transfers", n))'
  <2> DEFINE keep == {m \in DOMAIN old : old[m].hash = n}
             kept == {m \in DOMAIN new : new[m].hash = n}
             mine == Selected(old, keep)
             S == ToSet(old) \cup {r}
  <2>1. RowsOf("token_transfers", n)' = Selected(new, kept)
    BY DEF RowsOf, Where
  <2>2. RowsOf("token_transfers", n) = mine
    BY DEF RowsOf, Where
  <2>3. CountFromZero(mine)
    BY <2>2 DEF TransferRowsInv
  <2>4. old \in Seq(S) /\ r \in S
    BY <1>3 DEF IsSequence
  <2>5. DOMAIN old = 1 .. Len(old) /\ DOMAIN new = 1 .. Len(new)
    BY <1>3, <1>4, OwnElements DEF IsSequence
  <2> HIDE DEF old, new, S
  <2>6. \A m \in 1 .. Len(old) : m \in keep <=> m \in kept
    BY <1>4, <2>5
  <2>7. Len(old) + 1 \in kept <=> r.hash = n
    BY <1>4, <2>5
  <2>8. mine \in Seq(S)
    BY <2>4, SelectedPositions
  <2> HIDE DEF keep, kept
  <2>9. Selected(new, kept) = IF r.hash = n THEN Append(mine, r) ELSE mine
    BY <1>3, <2>4, <2>6, <2>7, SelectedGrows
  <2>10. r.hash = n => r.index = Len(mine)
    BY <1>1, <2>2
  <2> HIDE DEF mine
  <2>11. CountFromZero(Selected(new, kept))
    <3>1. CASE r.hash # n
      BY <2>3, <2>9, <3>1
    <3>2. CASE r.hash = n
      <4> DEFINE now == Append(mine, r)
      <4>1. /\ Len(now) = Len(mine) + 1 /\ Len(mine) \in Nat
            /\ \A k \in 1 .. Len(mine) : now[k] = mine[k]
            /\ now[Len(mine) + 1] = r
        BY <2>4, <2>8
      <4> HIDE DEF now
      <4>2. \A k \in 1 .. Len(mine) + 1 : k \in 1 .. Len(mine) \/ k = Len(mine) + 1
        BY <4>1
      <4>3. r.index = (Len(mine) + 1) - 1
        BY <2>10, <3>2, <4>1
      <4>4. CountFromZero(now)
        BY <2>3, <4>1, <4>2, <4>3 DEF CountFromZero
      <4> QED
        BY <2>9, <3>2, <4>4 DEF now
    <3> QED
      BY <3>1, <3>2
  <2> QED
    BY <2>1, <2>11 DEF CountFromZero
<1> QED
  BY <1>2, <1>4, <1>5, <1>6 DEF TransferRowsInv, TransferNames

LEMMA InitTransfers == Init => TransferRowsInv
<1> SUFFICES ASSUME Init PROVE TransferRowsInv
  OBVIOUS
<1>1. rows["token_transfers"] = << >>
  BY TableNames DEF Init
<1>2. ASSUME NEW n \in DOMAIN Txs PROVE RowsOf("token_transfers", n) = << >>
  BY <1>1, SelectedEmpty DEF RowsOf, Where
<1>3. Len(<< >>) = 0
  OBVIOUS
<1> QED
  BY <1>1, <1>2, <1>3, SmallSequences DEF TransferRowsInv, CountFromZero

LEMMA TransfersNext ==
    ASSUME IInv, TransferRowsInv, [Next]_vars
    PROVE  TransferRowsInv'
<1>1. "token_transfers" \in Tables \ {"transactions", "operations"}
  BY TableNames
<1>2. ledger' = ledger
  BY <1>1, OthersKept
<1>3. CASE rows'["token_transfers"] = rows["token_transfers"]
  <2>1. Txs' = Txs
    BY <1>2 DEF Txs
  <2> QED
    BY <1>3, <2>1 DEF TransferRowsInv, TransferNames, CountFromZero, RowsOf, Where
<1>4. CASE AddTransfer
  <2> DEFINE event == ledger.transfers[t]
             more == IF event.known THEN << TransferRow(event) >> ELSE << >>
  <2>1. Emit("token_transfers", more)
    BY <1>4 DEF AddTransfer
  <2> HIDE DEF more
  <2>2. rows'["token_transfers"] = rows["token_transfers"] \o more
    BY <1>1, <2>1, Emitted DEF IInv
  <2>3. CASE event.known
    <3>1. more = << TransferRow(event) >>
      BY <2>3 DEF more
    <3> QED
      BY <1>2, <1>4, <2>2, <3>1, AddTransferRows DEF IInv
  <2>4. CASE ~event.known
    <3>1. more = << >>
      BY <2>4 DEF more
    <3>2. PICK s : s = rows["token_transfers"]
      OBVIOUS
    <3>3. s \in Seq(ToSet(s))
      BY <3>2 DEF TransferRowsInv, IsSequence
    <3>4. s \o << >> = s
      BY <3>3
    <3> QED
      BY <1>3, <2>2, <3>1, <3>2, <3>4
  <2> QED
    BY <2>3, <2>4
<1>5. rows'["token_transfers"] = rows["token_transfers"] \/ AddTransfer
  <2>1. CASE rows' = rows
    BY <2>1
  <2>2. CASE ~AtTable("token_transfers")
    BY <1>1, <2>2, OthersKept
  <2>3. CASE AtTable("token_transfers") /\ rows' # rows /\ ~AddTransfer
    <3>1. TableOrder[turn] = "token_transfers"
      BY <2>3 DEF AtTable
    <3>2. FALSE
      BY <2>3, <3>1 DEF Next, vars, AddTransaction, FailTransactions, AddOperation,
           NextTransaction, EndOfLoop, AddLedger, AddEvictedKeys, Terminated, AtTable, PerOperation
    <3> QED
      BY <3>2
  <2> QED
    BY <2>1, <2>2, <2>3
<1> QED
  BY <1>3, <1>4, <1>5

\* (transaction, event index) is a key of token transfers without gaps, for
\* every ledger and every order of its events.
THEOREM Dense == Spec => []TransferIndexDense
<1>1. Init => TransferRowsInv
  BY InitTransfers
<1>2. IInv /\ IInv' /\ TransferRowsInv /\ [Next]_vars => TransferRowsInv'
  BY TransfersNext
<1>3. TransferRowsInv => TransferIndexDense
  <2> SUFFICES ASSUME TransferRowsInv, NEW n \in DOMAIN Txs
               PROVE  \A k \in DOMAIN RowsOf("token_transfers", n) :
                         RowsOf("token_transfers", n)[k].index = k - 1
    BY DEF TransferIndexDense
  <2>1. PICK s : s = RowsOf("token_transfers", n)
    OBVIOUS
  <2>2. s \in Seq(ToSet(rows["token_transfers"]))
    BY <2>1, SelectedPositions DEF TransferRowsInv, IsSequence, RowsOf, Where
  <2>3. CountFromZero(s)
    BY <2>1 DEF TransferRowsInv
  <2>4. DOMAIN s = 1 .. Len(s)
    BY <2>2
  <2> QED
    BY <2>1, <2>3, <2>4 DEF CountFromZero
<1> QED
  BY <1>1, <1>2, <1>3, Invariance, PTL DEF Spec

-----------------------------------------------------------------------------
(* The walk of the tables after the first two.                              *)

\* Where the walk of the p-th table has come to.
WalkedAt(p, n, k) == turn > p \/ (turn = p /\ Before(<< n, k >>, << t, i >>))

\* The loops move on.
LEMMA Progress ==
    ASSUME IInv, [Next]_vars
    PROVE  /\ ledger' = ledger
           /\ turn \in 1 .. 9 /\ t \in Nat \ {0} /\ i \in Nat \ {0}
           /\ turn' \in Nat /\ t' \in Nat \ {0} /\ i' \in Nat \ {0}
           /\ \/ turn' = turn + 1 /\ t' = 1 /\ i' = 1
              \/ turn' = turn /\ t' = t + 1
              \/ turn' = turn /\ t' = t /\ i' \in {i, i + 1}
<1>1. turn \in 1 .. 9 /\ t \in Nat \ {0} /\ i \in Nat \ {0}
  BY DEF IInv, Types
<1>2. /\ ledger' = ledger
      /\ \/ turn' = turn + 1 /\ t' = 1 /\ i' = 1
         \/ turn' = turn /\ t' = t + 1 /\ i' \in {i, 1}
         \/ turn' = turn /\ t' = t /\ i' \in {i, i + 1}
  BY DEF Next, vars, AddTransaction, FailTransactions, AddOperation, NextTransaction,
         AddTransfer, EndOfLoop, AddLedger, AddEvictedKeys, Terminated, Return
<1>3. turn' \in Nat /\ t' \in Nat \ {0} /\ i' \in Nat \ {0}
  BY <1>1, <1>2
<1> QED
  BY <1>1, <1>2, <1>3

\* What was walked stays walked.
LEMMA WalkedOnce ==
    ASSUME IInv, [Next]_vars, NEW p \in 1 .. 8, NEW n \in Nat, NEW k \in Nat, WalkedAt(p, n, k)
    PROVE  WalkedAt(p, n, k)'
<1>1. /\ turn \in 1 .. 9 /\ t \in Nat \ {0} /\ i \in Nat \ {0}
      /\ turn' \in Nat /\ t' \in Nat \ {0} /\ i' \in Nat \ {0}
      /\ \/ turn' = turn + 1
         \/ turn' = turn /\ t' = t + 1
         \/ turn' = turn /\ t' = t /\ i' \in {i, i + 1}
  BY Progress
<1>2. turn > p \/ (turn = p /\ (n < t \/ (n = t /\ k < i)))
  BY DEF WalkedAt, Before
<1>3. turn' > p \/ (turn' = p /\ (n < t' \/ (n = t' /\ k < i')))
  BY <1>1, <1>2
<1> QED
  BY <1>3 DEF WalkedAt, Before

\* A table that ranges over operations changes in AddOperation only.
LEMMA OnlyAddOperation ==
    ASSUME IInv, [Next]_vars, NEW table \in {"effects", "trades", "creations"}
    PROVE  rows'[table] = rows[table] \/ AddOperation(table)
<1>1. table \in Tables \ {"transactions", "operations"}
  BY TableNames
<1>2. CASE rows' = rows
  BY <1>2
<1>3. CASE ~AtTable(table)
  BY <1>1, <1>3, OthersKept
<1>4. CASE AtTable(table) /\ rows' # rows
  <2>1. TableOrder[turn] = table
    BY <1>4 DEF AtTable
  <2>2. \E x \in PerOperation : AddOperation(x)
    BY <1>4, <2>1 DEF Next, vars, AddTransaction, FailTransactions, AddTransfer,
         NextTransaction, EndOfLoop, AddLedger, AddEvictedKeys, Terminated, AtTable, PerOperation
  <2>3. \A x : AddOperation(x) => x = table
    BY <2>1 DEF AddOperation, AtTable
  <2> QED
    BY <2>2, <2>3
<1> QED
  BY <1>2, <1>3, <1>4

\* What AddOperation does in the tables of successful transactions.
LEMMA OperationAdded ==
    ASSUME IInv, NEW p \in 3 .. 5, NEW table, table = TableOrder[p], AddOperation(table)
    PROVE  /\ turn = p /\ turn' = p /\ t' = t /\ i' = i + 1
           /\ t \in DOMAIN Txs /\ i \in DOMAIN Tx.ops /\ Tx.ok
           /\ rows'[table] = rows[table] \o OperationRows(table)
           /\ \A n, k : n = t /\ k = i => WalkedAt(p, n, k)'
           /\ Op = Txs[t].ops[i] /\ Tx = Txs[t] /\ Op \in Operations /\ Tx \in Transaction
<1>1. table \in {"effects", "trades", "creations"} /\ table \in Tables
  BY TableNames DEF TableOrder
<1>2. /\ AtTable(table) /\ t \in DOMAIN Txs /\ ~Skipped(table) /\ i \in DOMAIN Tx.ops
      /\ Emit(table, OperationRows(table))
      /\ turn' = turn /\ t' = t /\ i' = i + 1
  BY DEF AddOperation
<1>3. Tx.ok
  BY <1>1, <1>2 DEF Skipped, OnlySuccessful
<1>4. turn = p
  BY <1>2 DEF AtTable, TableOrder
<1>5. rows'[table] = rows[table] \o OperationRows(table)
  BY <1>1, <1>2, Emitted DEF IInv
<1>6. i \in Nat /\ t \in Nat
  BY DEF IInv, Types
<1>7. ASSUME NEW n, NEW k, n = t, k = i PROVE WalkedAt(p, n, k)'
  <2>1. turn' = p /\ n = t' /\ k < i'
    BY <1>2, <1>4, <1>6, <1>7
  <2> QED
    BY <2>1 DEF WalkedAt, Before
<1>8. Tx = Txs[t] /\ Op = Txs[t].ops[i]
  BY DEF Tx, Op
<1>9. Tx \in Transaction /\ Tx.ops \in Seq(Operations)
  BY <1>2, LedgerShape DEF IInv, Types, Tx
<1>10. Op \in Operations
  BY <1>2, <1>9, OwnElements DEF Op
<1> QED
  BY <1>2, <1>3, <1>4, <1>5, <1>7, <1>8, <1>9, <1>10

-----------------------------------------------------------------------------
(* Trades.                                                                  *)

\* Rows of the claims of operation k of transaction n, in the order of the claims.
TradesOf(u, n, k) ==
    /\ IsSequence(u)
    /\ \A m \in 1 .. Len(u) :
          /\ u[m].hash = n /\ u[m].op = k - 1
          /\ LET claims == Txs[n].ops[k].claims
             IN  /\ u[m].index + 1 \in DOMAIN claims
                 /\ claims[u[m].index + 1].maker = u[m].seller
                 /\ claims[u[m].index + 1].kind = u[m].type
    /\ \A m \in 1 .. Len(u) : \A l \in 1 .. m - 1 : u[l].index < u[m].index

LEMMA TradesOfOperation ==
    ASSUME IInv, t \in DOMAIN Txs, i \in DOMAIN Tx.ops, Op \in Operations
    PROVE  TradesOf(OperationRows("trades"), t, i)
<1> DEFINE claims == Op.claims
           all == [n \in DOMAIN claims |-> TradeRow(claims[n], n)]
           keep == {n \in DOMAIN claims : ~(claims[n].sold = 0 /\ claims[n].bought = 0)}
<1>1. OperationRows("trades") = IF Op.kind \in {"offer", "path_payment"}
                                THEN Selected(all, keep) ELSE << >>
  BY DEF OperationRows, TradeRows
<1>2. claims \in Seq(ToSet(claims))
  BY LedgersAssumption DEF WellFormed, IsSequence
<1>3. DOMAIN claims = 1 .. Len(claims) /\ Len(claims) \in Nat
  BY <1>2
<1>4. TradesOf(<< >>, t, i)
  BY SmallSequences DEF TradesOf
<1>5. TradesOf(Selected(all, keep), t, i)
  <2> DEFINE u == Selected(all, keep)
             S == {TradeRow(claims[n], n) : n \in DOMAIN claims}
  <2>1. all \in Seq(S) /\ Len(all) = Len(claims)
    <3> DEFINE row(n) == TradeRow(claims[n], n)
    <3>1. all = [n \in 1 .. Len(claims) |-> row(n)] /\ \A n \in 1 .. Len(claims) : row(n) \in S
      BY <1>3
    <3> HIDE DEF row, all, S, claims
    <3> QED
      BY <1>3, <3>1
  <2>2. PICK p : u \in Seq(S) /\ Picks(p, u, all, keep, Len(claims))
    <3> HIDE DEF all, keep, S, claims
    <3> QED
      BY <2>1, SelectedPositions
  <2>3. ASSUME NEW m \in 1 .. Len(u)
        PROVE  p[m] \in DOMAIN claims /\ u[m] = TradeRow(claims[p[m]], p[m])
    <3>1. p[m] \in 1 .. Len(claims) /\ u[m] = all[p[m]]
      <4> HIDE DEF u, all, claims, keep
      <4> QED
        BY <2>2 DEF Picks
    <3> HIDE DEF u
    <3> QED
      BY <1>3, <3>1
  <2>4. ASSUME NEW m \in 1 .. Len(u)
        PROVE  /\ u[m].hash = t /\ u[m].op = i - 1 /\ u[m].index = p[m] - 1
               /\ u[m].seller = claims[p[m]].maker /\ u[m].type = claims[p[m]].kind
    <3>1. \A c, n : /\ TradeRow(c, n).hash = t /\ TradeRow(c, n).op = i - 1
                    /\ TradeRow(c, n).index = n - 1
                    /\ TradeRow(c, n).seller = c.maker /\ TradeRow(c, n).type = c.kind
      BY DEF TradeRow
    <3> HIDE DEF u, claims
    <3> QED
      BY <2>3, <3>1
  <2>5. ASSUME NEW m \in 1 .. Len(u) PROVE u[m].index + 1 = p[m] /\ p[m] \in Nat
    <3>1. p[m] \in Nat
      BY <1>3, <2>3
    <3> HIDE DEF u, claims
    <3> QED
      BY <2>4, <3>1
  <2>6. ASSUME NEW m \in 1 .. Len(u), NEW l \in 1 .. m - 1 PROVE u[l].index < u[m].index
    <3>1. l \in 1 .. Len(u) /\ l < m
      BY <2>2
    <3> HIDE DEF u
    <3>2. p[l] < p[m]
      BY <2>2, <3>1 DEF Picks
    <3>3. p[l] \in Nat /\ p[m] \in Nat /\ u[l].index = p[l] - 1 /\ u[m].index = p[m] - 1
      BY <2>4, <2>5, <3>1
    <3> QED
      BY <3>2, <3>3
  <2>7. IsSequence(u)
    BY <2>2, OwnElements
  <2>8. claims = Txs[t].ops[i].claims
    BY DEF Op, Tx
  <2>9. TradesOf(u, t, i)
    <3> HIDE DEF u, claims
    <3>1. ASSUME NEW m \in 1 .. Len(u)
          PROVE  /\ u[m].index + 1 \in DOMAIN claims
                 /\ claims[u[m].index + 1].maker = u[m].seller
                 /\ claims[u[m].index + 1].kind = u[m].type
      BY <2>3, <2>4, <2>5
    <3> QED
      BY <2>4, <2>6, <2>7, <2>8, <3>1 DEF TradesOf
  <2> QED
    BY <2>9
<1> QED
  BY <1>1, <1>4, <1>5

\* A trade row names a claim of an operation already walked.
TradeNames(r) ==
    /\ r.hash \in DOMAIN Txs /\ r.op + 1 \in DOMAIN Txs[r.hash].ops
    /\ WalkedAt(4, r.hash, r.op + 1)
    /\ LET claims == Txs[r.hash].ops[r.op + 1].claims
       IN  /\ r.index + 1 \in DOMAIN claims
           /\ claims[r.index + 1].maker = r.seller
           /\ claims[r.index + 1].kind = r.type

TradeRowsInv ==
    LET r == rows["trades"]
    IN  /\ IsSequence(r)
        /\ \A m \in 1 .. Len(r) : TradeNames(r[m])
        /\ \A m \in 1 .. Len(r) : \A l \in 1 .. m - 1 :
              r[l].hash = r[m].hash /\ r[l].op = r[m].op => r[l].index < r[m].index

\* The positions of a ledger are numbers.
LEMMA PlaceTyped ==
    ASSUME IInv, NEW n \in DOMAIN Txs, NEW k \in DOMAIN Txs[n].ops
    PROVE  n \in Nat /\ k \in Nat
BY LedgerShape DEF IInv, Types

LEMMA TradeNamesStays ==
    ASSUME IInv, [Next]_vars, NEW r, TradeNames(r)
    PROVE  TradeNames(r)'
<1>1. r.hash \in DOMAIN Txs /\ r.op + 1 \in DOMAIN Txs[r.hash].ops
  BY DEF TradeNames
<1>2. r.hash \in Nat /\ r.op + 1 \in Nat
  BY <1>1, PlaceTyped
<1>3. 4 \in 1 .. 8 /\ WalkedAt(4, r.hash, r.op + 1)
  BY DEF TradeNames
<1>4. WalkedAt(4, r.hash, r.op + 1)'
  BY <1>2, <1>3, WalkedOnce
<1>5. Txs' = Txs
  BY Progress DEF Txs
<1> QED
  BY <1>4, <1>5 DEF TradeNames

LEMMA TradesNext ==
    ASSUME IInv, TradeRowsInv, [Next]_vars
    PROVE  TradeRowsInv'
<1> DEFINE old == rows["trades"]
           new == rows'["trades"]
<1>1. Txs' = Txs
  BY Progress DEF Txs
<1>2. CASE new = old
  <2>1. ASSUME NEW m \in 1 .. Len(old), NEW r, r = old[m] PROVE TradeNames(r)'
    BY <2>1, TradeNamesStays DEF TradeRowsInv
  <2> QED
    BY <1>1, <1>2, <2>1 DEF TradeRowsInv, TradeNames
<1>3. CASE AddOperation("trades")
  <2> DEFINE u == OperationRows("trades")
  <2>1. 4 \in 3 .. 5 /\ "trades" = TableOrder[4]
    BY DEF TableOrder
  <2>2. /\ turn = 4 /\ t \in DOMAIN Txs /\ i \in DOMAIN Tx.ops /\ Op \in Operations
        /\ new = old \o u /\ Tx = Txs[t]
        /\ \A n, k : n = t /\ k = i => WalkedAt(4, n, k)'
    BY <1>3, <2>1, OperationAdded
  <2>3. TradesOf(u, t, i)
    BY <2>2, TradesOfOperation
  <2>4. IsSequence(old) /\ IsSequence(u) /\ Len(old) \in Nat
    BY <2>3 DEF TradesOf, TradeRowsInv, IsSequence
  <2> HIDE DEF old, new, u
  <2>5. /\ IsSequence(new)
        /\ \A m \in 1 .. Len(old) : new[m] = old[m]
        /\ \A m \in 1 .. Len(u) : new[Len(old) + m] = u[m]
        /\ \A m \in 1 .. Len(new) : m \in 1 .. Len(old) \/ \E k \in 1 .. Len(u) : m = Len(old) + k
    BY <2>2, <2>4, JoinedIs
  <2>6. t \in Nat /\ i \in Nat
    BY DEF IInv, Types
  <2>7. ASSUME NEW m \in 1 .. Len(old) PROVE TradeNames(old[m])
    BY DEF TradeRowsInv, old
  <2>8. ASSUME NEW m \in 1 .. Len(u), NEW r, r = u[m] PROVE TradeNames(r)'
    <3>1. r.hash = t /\ r.op = i - 1
      BY <2>3, <2>8 DEF TradesOf
    <3>2. r.op + 1 = i
      BY <2>6, <3>1
    <3>3. LET claims == Txs[t].ops[i].claims
          IN  /\ r.index + 1 \in DOMAIN claims
              /\ claims[r.index + 1].maker = r.seller /\ claims[r.index + 1].kind = r.type
      BY <2>3, <2>8 DEF TradesOf
    <3>4. WalkedAt(4, r.hash, r.op + 1)'
      BY <2>2, <3>1, <3>2
    <3> QED
      BY <1>1, <2>2, <3>1, <3>2, <3>3, <3>4 DEF TradeNames
  <2>9. ASSUME NEW m \in 1 .. Len(new), NEW r, r = new[m] PROVE TradeNames(r)'
    <3>1. CASE m \in 1 .. Len(old)
      <4>1. TradeNames(r)
        BY <2>5, <2>7, <2>9, <3>1
      <4> QED
        BY <4>1, TradeNamesStays
    <3>2. CASE \E k \in 1 .. Len(u) : m = Len(old) + k
      BY <2>5, <2>8, <2>9, <3>2
    <3> QED
      BY <2>5, <3>1, <3>2
  <2>10. ASSUME NEW m \in 1 .. Len(new), NEW l \in 1 .. m - 1,
                new[l].hash = new[m].hash, new[l].op = new[m].op
         PROVE  new[l].index < new[m].index
    <3>0. m \in Nat /\ l \in Nat /\ l < m
      BY <2>5, <2>4 DEF IsSequence
    <3>1. CASE m \in 1 .. Len(old)
      <4>1. l \in 1 .. Len(old)
        BY <2>4, <3>0, <3>1
      <4>2. new[m] = old[m] /\ new[l] = old[l]
        BY <2>5, <3>1, <4>1
      <4> QED
        BY <2>10, <3>1, <4>2 DEF TradeRowsInv, old
    <3>2. ASSUME NEW k \in 1 .. Len(u), m = Len(old) + k PROVE new[l].index < new[m].index
      <4>1. new[m] = u[k] /\ u[k].hash = t /\ u[k].op = i - 1
        BY <2>3, <2>5, <3>2 DEF TradesOf
      <4>2. CASE l \in 1 .. Len(old)
        <5>1. TradeNames(new[l]) /\ new[l].hash = t /\ new[l].op = i - 1
          BY <2>5, <2>7, <2>10, <4>1, <4>2
        <5>2. WalkedAt(4, t, (i - 1) + 1)
          BY <5>1 DEF TradeNames
        <5>3. FALSE
          BY <2>2, <2>6, <5>2 DEF WalkedAt, Before
        <5> QED
          BY <5>3
      <4>3. CASE l \notin 1 .. Len(old)
        <5>1. l - Len(old) \in 1 .. k - 1 /\ l - Len(old) \in 1 .. Len(u) /\ l = Len(old) + (l - Len(old))
          BY <2>4, <3>0, <3>2, <4>3
        <5>2. PICK j : j = l - Len(old)
          OBVIOUS
        <5>3. new[l] = u[j] /\ u[j].index < u[k].index
          BY <2>3, <2>5, <5>1, <5>2 DEF TradesOf
        <5> QED
          BY <4>1, <5>3
      <4> QED
        BY <4>2, <4>3
    <3> QED
      BY <2>5, <3>1, <3>2
  <2> QED
    BY <1>1, <2>5, <2>9, <2>10 DEF TradeRowsInv, TradeNames, new
<1> QED
  BY <1>2, <1>3, OnlyAddOperation

LEMMA InitTrades == Init => TradeRowsInv
<1> SUFFICES ASSUME Init PROVE TradeRowsInv
  OBVIOUS
<1>1. rows["trades"] = << >> /\ Len(<< >>) = 0
  BY TableNames DEF Init
<1> QED
  BY <1>1, SmallSequences DEF TradeRowsInv

\* TradeIndex names one claim, for every ledger and every list of claims.
THEOREM NamesClaim == Spec => []TradeIndexNamesClaim
<1>1. IInv /\ IInv' /\ TradeRowsInv /\ [Next]_vars => TradeRowsInv'
  BY TradesNext
<1>2. TradeRowsInv => TradeIndexNamesClaim
  <2> SUFFICES ASSUME TradeRowsInv PROVE TradeIndexNamesClaim
    OBVIOUS
  <2>1. DOMAIN rows["trades"] = 1 .. Len(rows["trades"])
    BY OwnElements DEF TradeRowsInv, IsSequence
  <2> QED
    BY <2>1 DEF TradeRowsInv, TradeNames, TradeIndexNamesClaim
<1> QED
  BY <1>1, <1>2, InitTrades, Invariance, PTL DEF Spec

-----------------------------------------------------------------------------
(* Contract creations.                                                      *)

\* The walk of a table of the successful transactions' operations passes over
\* none of them without AddOperation.
LEMMA NonePassed ==
    ASSUME IInv, [Next]_vars, NEW p \in 3 .. 5, NEW table, table = TableOrder[p],
           ~AddOperation(table), turn >= p,
           NEW n \in DOMAIN Txs, NEW k \in DOMAIN Txs[n].ops, Txs[n].ok
    PROVE  WalkedAt(p, n, k)' <=> WalkedAt(p, n, k)
<1>1. n \in Nat /\ k \in Nat /\ n >= 1 /\ n <= Len(Txs) /\ k <= Len(Txs[n].ops) /\ Len(Txs) \in Nat
  BY LedgerShape DEF IInv, Types
<1>2. turn \in 1 .. 9 /\ t \in Nat \ {0} /\ i \in Nat \ {0}
  BY DEF IInv, Types
<1>3. ASSUME WalkedAt(p, n, k) PROVE WalkedAt(p, n, k)'
  BY <1>1, <1>3, WalkedOnce
<1>4. CASE turn > p
  BY <1>2, <1>3, <1>4 DEF WalkedAt
<1>5. CASE turn = p /\ (UNCHANGED vars \/ Terminated)
  BY <1>5 DEF vars, Terminated, WalkedAt
<1>6. CASE turn = p /\ Next /\ ~Terminated
  <2>1. \A x \in Tables : AtTable(x) => x = table
    BY <1>6 DEF AtTable
  <2>2. table \in {"effects", "trades", "creations"}
    BY DEF TableOrder
  <2>3. NextTransaction(table) \/ EndOfLoop(table)
    BY <1>6, <2>1, <2>2, TableNames DEF Next, AddTransaction, FailTransactions, AddOperation,
         AddTransfer, NextTransaction, EndOfLoop, AddLedger, AddEvictedKeys, PerOperation
  <2>4. CASE NextTransaction(table)
    <3>1. turn' = turn /\ t' = t + 1 /\ (~Tx.ok \/ i > Len(Tx.ops))
      BY <2>4 DEF NextTransaction, Skipped
    <3>2. n = t => k < i
      BY <1>1, <1>2, <3>1 DEF Tx
    <3>3. n < t + 1 => n < t \/ n = t
      BY <1>1, <1>2
    <3>4. i' = 1 /\ ~(k < 1)
      <4>1. k >= 1
        BY LedgerShape DEF IInv, Types
      <4> QED
        BY <1>1, <2>4, <4>1 DEF NextTransaction
    <3> QED
      BY <1>3, <1>6, <3>1, <3>2, <3>3, <3>4 DEF WalkedAt, Before
  <2>5. CASE EndOfLoop(table)
    <3>1. t \notin DOMAIN Txs /\ turn' = turn + 1
      BY <2>2, <2>5 DEF EndOfLoop, Return
    <3>2. n < t
      <4>1. DOMAIN Txs = 1 .. Len(Txs)
        BY LedgerShape DEF IInv, Types
      <4> QED
        BY <1>1, <1>2, <3>1, <4>1
    <3> QED
      BY <1>3, <1>6, <3>2 DEF WalkedAt, Before
  <2> QED
    BY <2>3, <2>4, <2>5
<1> QED
  BY <1>2, <1>4, <1>5, <1>6

\* The rows of the successful create operations.
IsCreate(r) == r.ok /\ CreatesContract(Txs[r.hash].ops[r.index + 1])
Creates == Selected(rows["operations"], {n \in DOMAIN rows["operations"] : IsCreate(rows["operations"][n])})

\* Row o is the place (n, k) of a successful create operation.
IsPlace(o, n, k) ==
    /\ n \in DOMAIN Txs /\ k \in DOMAIN Txs[n].ops /\ Txs[n].ok /\ CreatesContract(Txs[n].ops[k])
    /\ o.hash = n /\ o.index + 1 = k /\ o.id = << n, k >>
    /\ o.source = Txs[n].ops[k].source

LEMMA CreatesShape ==
    ASSUME IInv, turn > 2
    PROVE  /\ Creates \in Seq(OperationRowSet)
           /\ \A m \in 1 .. Len(Creates) : \E n, k : IsPlace(Creates[m], n, k)
           /\ \A m \in 1 .. Len(Creates) : \A l \in 1 .. m - 1 :
                 Before(Creates[l].id, Creates[m].id)
           /\ \A n \in DOMAIN Txs : \A k \in DOMAIN Txs[n].ops :
                 Txs[n].ok /\ CreatesContract(Txs[n].ops[k]) =>
                    \E m \in 1 .. Len(Creates) : IsPlace(Creates[m], n, k)
<1> DEFINE s == rows["operations"]
           keep == {n \in DOMAIN s : IsCreate(s[n])}
           C == Creates
<1>1. s \in Seq(OperationRowSet) /\ DOMAIN s = 1 .. Len(s) /\ Len(s) \in Nat
  BY DEF IInv, Types
<1>2. C = Selected(s, keep)
  BY DEF Creates
<1>3. /\ \A m \in 1 .. Len(s) : TellsOf(s[m])
      /\ \A m \in 1 .. Len(s) : \A l \in 1 .. m - 1 : Before(s[l].id, s[m].id)
      /\ \A n \in DOMAIN Txs : \A k \in DOMAIN Txs[n].ops :
            \E m \in 1 .. Len(s) : s[m].hash = n /\ s[m].index = k - 1
  BY DEF IInv, OperationRowsInv, Walked
<1>4. \A n \in DOMAIN Txs : \A k \in DOMAIN Txs[n].ops : n \in Nat /\ k \in Nat
  BY PlaceTyped
<1> HIDE DEF s, C, keep
<1>5. PICK p : C \in Seq(OperationRowSet) /\ Picks(p, C, s, keep, Len(s))
  BY <1>1, <1>2, SelectedPositions
<1>6. ASSUME NEW m \in 1 .. Len(s), m \in keep
      PROVE  IsPlace(s[m], s[m].hash, s[m].index + 1)
  <2>1. TellsOf(s[m]) /\ IsCreate(s[m])
    BY <1>3, <1>6 DEF keep
  <2> QED
    BY <2>1 DEF TellsOf, IsCreate, IsPlace
<1>7. ASSUME NEW m \in 1 .. Len(C) PROVE \E n, k : IsPlace(C[m], n, k)
  <2>1. p[m] \in 1 .. Len(s) /\ p[m] \in keep /\ C[m] = s[p[m]]
    BY <1>5 DEF Picks
  <2> QED
    BY <1>6, <2>1
<1>8. ASSUME NEW m \in 1 .. Len(C), NEW l \in 1 .. m - 1 PROVE Before(C[l].id, C[m].id)
  <2>1. l \in 1 .. Len(C) /\ l < m
    BY <1>5
  <2>2. /\ p[l] < p[m] /\ p[l] \in 1 .. Len(s) /\ p[m] \in 1 .. Len(s)
        /\ C[l] = s[p[l]] /\ C[m] = s[p[m]]
    BY <1>5, <2>1 DEF Picks
  <2>3. p[l] \in 1 .. p[m] - 1
    BY <1>1, <2>2
  <2> QED
    BY <1>3, <2>2, <2>3
<1>9. ASSUME NEW n \in DOMAIN Txs, NEW k \in DOMAIN Txs[n].ops,
             Txs[n].ok, CreatesContract(Txs[n].ops[k])
      PROVE  \E m \in 1 .. Len(C) : IsPlace(C[m], n, k)
  <2>1. PICK j \in 1 .. Len(s) : s[j].hash = n /\ s[j].index = k - 1
    BY <1>3
  <2>2. s[j].index + 1 = k
    BY <1>4, <2>1
  <2>3. IsCreate(s[j])
    BY <1>3, <1>9, <2>1, <2>2 DEF IsCreate, TellsOf
  <2>4. j \in keep
    BY <1>1, <2>3 DEF keep
  <2>5. PICK m \in 1 .. Len(C) : p[m] = j
    BY <1>5, <2>4 DEF Picks
  <2>6. C[m] = s[j]
    BY <1>5, <2>5 DEF Picks
  <2> QED
    BY <1>6, <2>1, <2>2, <2>4, <2>6
<1> QED
  BY <1>5, <1>7, <1>8, <1>9 DEF C

\* The creation row c is that of the operation row o.
CreationOf(c, o) ==
    LET op == Txs[o.hash].ops[o.index + 1]
    IN  /\ c.creator = o.source
        /\ (\A e \in ToSet(op.created) : e.persistent => e.contract = op.contract)
           => c.contract = op.contract

\* The first rows of Creates, those walked, have the creation rows.
CreationRowsInv ==
    LET r == rows["creations"]
    IN  /\ IsSequence(r)
        /\ turn < 5 => r = << >>
        /\ turn >= 5 =>
              /\ Len(r) <= Len(Creates)
              /\ \A m \in 1 .. Len(Creates) :
                    m <= Len(r) <=> WalkedAt(5, Creates[m].hash, Creates[m].index + 1)
              /\ \A m \in 1 .. Len(r) : CreationOf(r[m], Creates[m])

\* The row of a create operation.
LEMMA CreationRowOf ==
    ASSUME IInv, t \in DOMAIN Txs, i \in DOMAIN Tx.ops, Tx.ok, CreatesContract(Op)
    PROVE  \E c : /\ OperationRows("creations") = << c >> /\ c.creator = Op.source
                  /\ (\A e \in ToSet(Op.created) : e.persistent => e.contract = Op.contract)
                     => c.contract = Op.contract
<1> DEFINE s == Op.created
           good == {n \in 1 .. Len(s) : s[n].persistent}
           n == SelectInSeq(s, LAMBDA e : e.persistent)
           c == [contract |-> s[n].contract, creator |-> Op.source]
<1>1. Tx \in Transaction /\ Tx = Txs[t] /\ Tx.ops \in Seq(Operations) /\ ledger \in Ledgers
  BY LedgerShape DEF IInv, Types, Tx
<1>2. Op \in Operations /\ Op \in ToSet(Tx.ops)
  <2>1. Op = Tx.ops[i]
    BY DEF Op
  <2> QED
    BY <1>1, <2>1, OwnElements DEF ToSet
<1>3. s \in Seq(ToSet(s))
  BY <1>2, LedgersAssumption DEF IsSequence
<1>4. DOMAIN s = 1 .. Len(s) /\ Len(s) \in Nat
  BY <1>3
<1>5. PICK e \in ToSet(s) : e.persistent
  BY <1>1, <1>2, LedgersAssumption DEF Txs
<1>6. n \in good
  <2>1. n = IF good # {} THEN Min(good) ELSE 0
    BY DEF SelectInSeq
  <2>2. PICK m \in 1 .. Len(s) : s[m] = e
    BY <1>4 DEF ToSet
  <2>3. m \in good
    BY <1>5, <2>2
  <2>4. good \subseteq Nat
    BY <1>4
  <2> HIDE DEF n, good
  <2>5. \E x \in good : \A y \in good : x <= y
    BY <2>3, <2>4, Least
  <2>6. Min(good) \in good
    BY <2>5, Zenon DEF Min
  <2> QED
    BY <2>1, <2>3, <2>6
<1>7. s[n].persistent /\ s[n] \in ToSet(s) /\ n # 0
  <2> HIDE DEF n, s
  <2> QED
    BY <1>4, <1>6 DEF ToSet
<1>8. OperationRows("creations") = CreationRows
  BY DEF OperationRows
<1>9. CreationRows = << c >>
  BY <1>7 DEF CreationRows
<1>10. c.creator = Op.source /\ c.contract = s[n].contract
  OBVIOUS
<1> HIDE DEF c, n
<1> QED
  BY <1>7, <1>8, <1>9, <1>10

\* The rows of Creates stand still from the third table on.
LEMMA CreatesKept ==
    ASSUME IInv, [Next]_vars, turn > 2
    PROVE  Creates' = Creates /\ Txs' = Txs
<1>1. Txs' = Txs
  BY Progress DEF Txs
<1>2. rows'["operations"] = rows["operations"]
  <2>1. CASE Next /\ ~Terminated
    <3>1. Later
      BY <2>1, OtherActions, Turns DEF IInv, Types, AddTransaction, FailTransactions,
         AddOperation, NextTransaction, EndOfLoop
    <3> QED
      BY <3>1 DEF Later
  <2>2. CASE UNCHANGED vars \/ Terminated
    BY <2>2 DEF vars, Terminated
  <2> QED
    BY <2>1, <2>2
<1> QED
  BY <1>1, <1>2 DEF Creates, IsCreate

\* A step that adds no row and walks past no create operation.
LEMMA CreationsKept ==
    ASSUME IInv, IInv', CreationRowsInv, [Next]_vars, turn > 2,
           rows'["creations"] = rows["creations"],
           turn >= 5 =>
              \A n \in DOMAIN Txs : \A k \in DOMAIN Txs[n].ops :
                 Txs[n].ok /\ CreatesContract(Txs[n].ops[k]) =>
                    (WalkedAt(5, n, k)' <=> WalkedAt(5, n, k))
    PROVE  CreationRowsInv'
<1>1. Creates' = Creates /\ Txs' = Txs
  BY CreatesKept
<1> DEFINE r == rows["creations"]
<1>2. turn \in 1 .. 9 /\ turn' \in Nat
  BY Progress
<1>3. CASE turn >= 5
  <2>1. turn' >= 5
    BY <1>2, <1>3, Progress
  <2>2. ASSUME NEW m \in 1 .. Len(Creates), NEW o, o = Creates[m]
        PROVE  m <= Len(r) <=> WalkedAt(5, o.hash, o.index + 1)'
    <3>1. PICK n, k : IsPlace(o, n, k)
      BY <2>2, CreatesShape
    <3>2. WalkedAt(5, n, k)' <=> WalkedAt(5, n, k)
      BY <1>3, <3>1 DEF IsPlace
    <3>3. m <= Len(r) <=> WalkedAt(5, o.hash, o.index + 1)
      BY <1>3, <2>2 DEF CreationRowsInv
    <3>4. o.hash = n /\ o.index + 1 = k
      BY <3>1 DEF IsPlace
    <3> QED
      BY <3>2, <3>3, <3>4 DEF WalkedAt
  <2>3. \A m \in 1 .. Len(Creates) :
           m <= Len(r) <=> WalkedAt(5, Creates[m].hash, Creates[m].index + 1)'
    BY <1>1, <2>2 DEF WalkedAt
  <2>4. \A m \in 1 .. Len(r) : CreationOf(r[m], Creates[m])'
    BY <1>1, <1>3 DEF CreationRowsInv, CreationOf
  <2>5. IsSequence(r) /\ Len(r) <= Len(Creates)
    BY <1>3 DEF CreationRowsInv
  <2> QED
    BY <1>1, <2>1, <1>2, <2>3, <2>4, <2>5 DEF CreationRowsInv
<1>4. CASE turn < 5
  <2>1. r = << >> /\ Len(r) = 0
    BY <1>4 DEF CreationRowsInv
  <2>2. CASE turn' < 5
    BY <1>2, <2>1, <2>2 DEF CreationRowsInv
  <2>3. CASE turn' >= 5
    <3>1. turn' = 5 /\ t' = 1 /\ i' = 1
      BY <1>2, <1>4, <2>3, Progress
    <3>2. ASSUME NEW m \in 1 .. Len(Creates), NEW o, o = Creates[m]
          PROVE  ~WalkedAt(5, o.hash, o.index + 1)'
      <4>1. PICK n, k : IsPlace(o, n, k)
        BY <3>2, CreatesShape
      <4>2. n \in DOMAIN Txs /\ k \in DOMAIN Txs[n].ops
        BY <4>1 DEF IsPlace
      <4>3. n \in Nat \ {0} /\ k \in Nat \ {0}
        <5>1. DOMAIN Txs = 1 .. Len(Txs) /\ DOMAIN Txs[n].ops = 1 .. Len(Txs[n].ops)
          BY <4>2, LedgerShape DEF IInv, Types
        <5> QED
          BY <4>2, <5>1
      <4>4. o.hash = n /\ o.index + 1 = k
        BY <4>1 DEF IsPlace
      <4> QED
        BY <3>1, <4>3, <4>4 DEF WalkedAt, Before
    <3>3. Len(Creates) \in Nat
      BY CreatesShape
    <3> QED
      BY <1>1, <1>2, <2>1, <2>3, <3>2, <3>3 DEF CreationRowsInv, WalkedAt
  <2> QED
    BY <1>2, <2>2, <2>3
<1> QED
  BY <1>2, <1>3, <1>4

\* The row of the next create operation.
LEMMA CreationAdded ==
    ASSUME IInv, CreationRowsInv, [Next]_vars, AddOperation("creations"), CreatesContract(Op)
    PROVE  CreationRowsInv'
<1> DEFINE old == rows["creations"]
           new == rows'["creations"]
           C == Creates
           L == Len(old)
<1>1. 5 \in 3 .. 5 /\ "creations" = TableOrder[5]
  BY DEF TableOrder
<1>2. /\ turn = 5 /\ turn' = 5 /\ t' = t /\ i' = i + 1
      /\ t \in DOMAIN Txs /\ i \in DOMAIN Tx.ops /\ Tx.ok
      /\ new = old \o OperationRows("creations")
      /\ Op = Txs[t].ops[i] /\ Tx = Txs[t]
  BY <1>1, OperationAdded
<1>3. Creates' = C /\ Txs' = Txs
  BY <1>2, CreatesKept
<1>4. PICK c : /\ OperationRows("creations") = << c >> /\ c.creator = Op.source
               /\ (\A e \in ToSet(Op.created) : e.persistent => e.contract = Op.contract)
                  => c.contract = Op.contract
  BY <1>2, CreationRowOf
<1>5. /\ C \in Seq(OperationRowSet) /\ Len(C) \in Nat
      /\ \A m \in 1 .. Len(C) : \E n, k : IsPlace(C[m], n, k)
      /\ \A m \in 1 .. Len(C) : \A l \in 1 .. m - 1 : Before(C[l].id, C[m].id)
  <2>1. turn > 2
    BY <1>2
  <2>2. C \in Seq(OperationRowSet)
    BY <2>1, CreatesShape
  <2>3. Len(C) \in Nat
    BY <2>2
  <2> QED
    BY <2>1, <2>2, <2>3, CreatesShape, Zenon
<1>6. /\ IsSequence(old) /\ L \in Nat /\ L <= Len(C)
      /\ \A m \in 1 .. Len(C) : m <= L <=> WalkedAt(5, C[m].hash, C[m].index + 1)
      /\ \A m \in 1 .. L : CreationOf(old[m], C[m])
  BY <1>2 DEF CreationRowsInv, IsSequence
<1>7. t \in Nat \ {0} /\ i \in Nat \ {0}
  BY DEF IInv, Types
<1>8. PICK m \in 1 .. Len(C) : IsPlace(C[m], t, i)
  BY <1>2, CreatesShape
<1> HIDE DEF C, L, old, new
<1>9. \A j \in 1 .. Len(C) : \E n, k : /\ n \in Nat /\ k \in Nat /\ C[j].id = << n, k >>
                                      /\ C[j].hash = n /\ C[j].index + 1 = k
  <2> TAKE j \in 1 .. Len(C)
  <2>1. PICK n, k : IsPlace(C[j], n, k)
    BY <1>5
  <2>2. n \in Nat /\ k \in Nat
    BY <2>1, PlaceTyped DEF IsPlace
  <2>3. C[j].id = << n, k >> /\ C[j].hash = n /\ C[j].index + 1 = k
    BY <2>1 DEF IsPlace
  <2> QED
    BY <2>2, <2>3
<1>10. C[m].id = << t, i >> /\ C[m].hash = t /\ C[m].index + 1 = i /\ C[m].source = Op.source
  BY <1>2, <1>8 DEF IsPlace
<1>11. m = L + 1
  <2>1. ~WalkedAt(5, t, i)
    BY <1>2, <1>7 DEF WalkedAt, Before
  <2>2. ~(m <= L)
    BY <1>6, <1>10, <2>1
  <2>3. ASSUME L + 1 < m PROVE FALSE
    <3>1. L + 1 \in 1 .. m - 1 /\ L + 1 \in 1 .. Len(C) /\ ~(L + 1 <= L)
      BY <1>5, <1>6, <2>3
    <3>2. Before(C[L + 1].id, << t, i >>)
      BY <1>5, <1>10, <3>1
    <3>3. C[L + 1].id = << C[L + 1].hash, C[L + 1].index + 1 >>
      BY <1>9, <3>1
    <3>4. WalkedAt(5, C[L + 1].hash, C[L + 1].index + 1)
      BY <1>2, <3>2, <3>3 DEF WalkedAt
    <3> QED
      BY <1>6, <3>1, <3>4
  <2> QED
    BY <1>5, <1>6, <2>2, <2>3
<1>12. /\ IsSequence(new) /\ Len(new) = L + 1
       /\ \A j \in 1 .. L : new[j] = old[j]
       /\ new[L + 1] = c
  <2>1. Len(<< c >>) = 1 /\ IsSequence(<< c >>) /\ << c >>[1] = c /\ 1 \in 1 .. Len(<< c >>)
    BY SmallSequences
  <2>2. L = Len(old) /\ new = old \o << c >>
    BY <1>2, <1>4 DEF L
  <2> QED
    BY <1>6, <2>1, <2>2, JoinedIs
<1>13. CreationOf(c, C[m])
  BY <1>2, <1>4, <1>10 DEF CreationOf
<1>14. ASSUME NEW n \in Nat, NEW k \in Nat
       PROVE  WalkedAt(5, n, k)' <=> WalkedAt(5, n, k) \/ (n = t /\ k = i)
  BY <1>2, <1>7 DEF WalkedAt, Before
<1>15. ASSUME NEW j \in 1 .. Len(C), NEW o, o = C[j]
       PROVE  j <= L + 1 <=> WalkedAt(5, o.hash, o.index + 1)'
  <2>1. PICK n \in Nat, k \in Nat : o.id = << n, k >> /\ o.hash = n /\ o.index + 1 = k
    BY <1>9, <1>15
  <2>2. j <= L <=> WalkedAt(5, n, k)
    BY <1>6, <1>15, <2>1
  <2>3. (n = t /\ k = i) <=> j = m
    <3>1. CASE j = m
      BY <1>10, <1>15, <2>1, <3>1
    <3>2. CASE j < m
      <4>1. j \in 1 .. m - 1
        BY <3>2
      <4>2. Before(<< n, k >>, << t, i >>)
        BY <1>5, <1>10, <1>15, <2>1, <4>1
      <4> QED
        BY <1>7, <3>2, <4>2 DEF Before
    <3>3. CASE m < j
      <4>1. m \in 1 .. j - 1
        BY <3>3
      <4>2. Before(<< t, i >>, << n, k >>)
        BY <1>5, <1>10, <1>15, <2>1, <4>1
      <4> QED
        BY <1>7, <3>3, <4>2 DEF Before
    <3> QED
      BY <3>1, <3>2, <3>3
  <2>4. WalkedAt(5, n, k)' <=> j <= L \/ j = m
    BY <1>14, <2>2, <2>3
  <2>5. j <= L + 1 <=> j <= L \/ j = m
    BY <1>6, <1>11
  <2>6. WalkedAt(5, o.hash, o.index + 1)' <=> WalkedAt(5, n, k)'
    BY <2>1 DEF WalkedAt
  <2> QED
    BY <2>4, <2>5, <2>6
<1>16. ASSUME NEW j \in 1 .. L + 1 PROVE CreationOf(new[j], C[j])
  <2>1. j \in 1 .. L \/ j = L + 1
    BY <1>6
  <2> QED
    BY <1>6, <1>11, <1>12, <1>13, <2>1
<1>17. L + 1 <= Len(C)
  BY <1>11
<1>18. \A j \in 1 .. Len(C) : j <= Len(new) <=> WalkedAt(5, Creates[j].hash, Creates[j].index + 1)'
  BY <1>3, <1>12, <1>15 DEF WalkedAt
<1>19. \A j \in 1 .. Len(new) : \A d : d = new[j] => CreationOf(d, Creates[j])'
  BY <1>3, <1>12, <1>16 DEF CreationOf
<1>20. Len(new) <= Len(Creates') /\ turn' >= 5 /\ ~(turn' < 5)
  BY <1>2, <1>3, <1>12, <1>17
<1>21. (\A j \in 1 .. Len(rows["creations"]) : CreationOf(rows["creations"][j], Creates[j]))'
  BY <1>19 DEF CreationOf, new
<1>22. (\A j \in 1 .. Len(Creates) :
           j <= Len(rows["creations"]) <=> WalkedAt(5, Creates[j].hash, Creates[j].index + 1))'
  BY <1>3, <1>18 DEF new
<1> QED
  BY <1>12, <1>20, <1>21, <1>22 DEF CreationRowsInv, new

LEMMA CreationsNext ==
    ASSUME IInv, IInv', CreationRowsInv, [Next]_vars
    PROVE  CreationRowsInv'
<1>1. turn \in 1 .. 9 /\ turn' \in Nat /\ turn' <= turn + 1
  BY Progress
<1>2. CASE turn <= 2
  <2>1. rows'["creations"] = rows["creations"]
    <3>1. "creations" \in Tables \ {"transactions", "operations"}
      BY TableNames
    <3>2. ~AtTable("creations")
      <4>1. ~(turn > 2)
        BY <1>1, <1>2
      <4> QED
        BY <1>1, <3>1, <4>1, Turns
    <3> QED
      BY <3>2, OnlyAddOperation DEF AddOperation
  <2>2. turn < 5 /\ turn' < 5 /\ ~(turn' >= 5)
    BY <1>1, <1>2
  <2>3. CreationRowsInv => IsSequence(rows["creations"]) /\ rows["creations"] = << >>
    BY <2>2 DEF CreationRowsInv
  <2> QED
    BY <2>1, <2>2, <2>3 DEF CreationRowsInv
<1>3. CASE turn > 2 /\ ~AddOperation("creations")
  <2>1. rows'["creations"] = rows["creations"]
    BY <1>3, OnlyAddOperation
  <2>2. 5 \in 3 .. 5 /\ "creations" = TableOrder[5]
    BY DEF TableOrder
  <2>3. ASSUME turn >= 5, NEW n \in DOMAIN Txs, NEW k \in DOMAIN Txs[n].ops, Txs[n].ok
        PROVE  WalkedAt(5, n, k)' <=> WalkedAt(5, n, k)
    BY <1>3, <2>2, <2>3, NonePassed
  <2> QED
    BY <1>3, <2>1, <2>3, CreationsKept
<1>4. CASE AddOperation("creations") /\ CreatesContract(Op)
  BY <1>4, CreationAdded
<1>5. CASE AddOperation("creations") /\ ~CreatesContract(Op)
  <2>1. 5 \in 3 .. 5 /\ "creations" = TableOrder[5]
    BY DEF TableOrder
  <2>2. /\ turn = 5 /\ turn' = 5 /\ t' = t /\ i' = i + 1
        /\ rows'["creations"] = rows["creations"] \o OperationRows("creations")
        /\ Op = Txs[t].ops[i]
    BY <1>5, <2>1, OperationAdded
  <2>3. OperationRows("creations") = << >>
    BY <1>5 DEF OperationRows, CreationRows
  <2>4. rows'["creations"] = rows["creations"]
    <3>1. PICK s : s = rows["creations"]
      OBVIOUS
    <3>2. s \in Seq(ToSet(s))
      BY <3>1 DEF CreationRowsInv, IsSequence
    <3>3. s \o << >> = s
      BY <3>2
    <3> QED
      BY <2>2, <2>3, <3>1, <3>3
  <2>5. ASSUME NEW n \in DOMAIN Txs, NEW k \in DOMAIN Txs[n].ops, CreatesContract(Txs[n].ops[k])
        PROVE  WalkedAt(5, n, k)' <=> WalkedAt(5, n, k)
    <3>1. n \in Nat /\ k \in Nat /\ t \in Nat /\ i \in Nat
      BY PlaceTyped DEF IInv, Types
    <3>2. ~(n = t /\ k = i)
      BY <1>5, <2>2, <2>5
    <3> QED
      BY <2>2, <3>1, <3>2 DEF WalkedAt, Before
  <2> QED
    BY <2>2, <2>4, <2>5, CreationsKept
<1> QED
  BY <1>1, <1>2, <1>3, <1>4, <1>5

LEMMA InitCreations == Init => CreationRowsInv
<1> SUFFICES ASSUME Init PROVE CreationRowsInv
  OBVIOUS
<1>1. rows["creations"] = << >> /\ turn = 1
  BY TableNames DEF Init
<1> QED
  BY <1>1, SmallSequences DEF CreationRowsInv

LEMMA CreationRowsAgree ==
    ASSUME IInv, CreationRowsInv, Finished("creations")
    PROVE  CreationsAgree
<1> DEFINE r == rows["creations"]
<1>1. turn > 5 /\ turn >= 5 /\ turn > 2
  <2>1. 5 \in DOMAIN TableOrder /\ TableOrder[5] = "creations"
    BY DEF TableOrder
  <2>2. turn > 5
    BY <2>1 DEF Finished
  <2> QED
    BY <2>2 DEF IInv, Types
<1>2. /\ Creates \in Seq(OperationRowSet) /\ Len(Creates) \in Nat
      /\ DOMAIN Creates = 1 .. Len(Creates)
  BY <1>1, CreatesShape
<1>3. Len(r) \in Nat /\ Len(r) <= Len(Creates)
  BY <1>1 DEF CreationRowsInv, IsSequence
<1>4. \A m \in 1 .. Len(Creates) : m <= Len(r)
  BY <1>1 DEF CreationRowsInv, WalkedAt
<1>5. Len(r) = Len(Creates)
  BY <1>2, <1>3, <1>4
<1>6. \A m \in DOMAIN Creates : CreationOf(r[m], Creates[m])
  BY <1>1, <1>2, <1>5 DEF CreationRowsInv
<1> QED
  BY <1>5, <1>6 DEF CreationsAgree, CreationOf, Creates, IsCreate, Where

\* The contract creations are those of the successful create operations, each
\* by the source account of its operation row, for every ledger.
THEOREM Creations == Spec => []CreationsAgree
<1>1. IInv /\ IInv' /\ CreationRowsInv /\ [Next]_vars => CreationRowsInv'
  BY CreationsNext
<1>2. IInv /\ CreationRowsInv => CreationsAgree
  BY CreationRowsAgree DEF CreationsAgree
<1> QED
  BY <1>1, <1>2, InitCreations, Invariance, PTL DEF Spec

-----------------------------------------------------------------------------
(* The ledger row and evicted keys.                                         *)

\* The two tables are empty before their turn and complete after it.
LedgerTablesInv ==
    /\ turn <= 7 => rows["ledgers"] = << >>
    /\ turn > 7  => rows["ledgers"] = << LedgerRow >>
    /\ turn <= 8 => rows["evicted_keys"] = << >>
    /\ turn > 8  => rows["evicted_keys"] = EvictedKeyRows

\* Evicted keys are listed in ascending order, each once.
LEMMA EvictedListed ==
    ASSUME ledger \in Ledgers
    PROVE  /\ EvictedKeyRows \in Seq(Int) /\ Len(EvictedKeyRows) <= Len(ledger.evicted)
           /\ ledger.version # 0 => ToSet(EvictedKeyRows) = ToSet(ledger.evicted)
<1> DEFINE ev == ledger.evicted
           S == ToSet(ev)
<1>1. ev \in Seq(Int)
  BY LedgersAssumption
<1>2. DOMAIN ev = 1 .. Len(ev) /\ Len(ev) \in Nat /\ S \in SUBSET Int /\ S = {ev[n] : n \in 1 .. Len(ev)}
  <2> HIDE DEF ev
  <2> QED
    BY <1>1, OwnElements DEF ToSet
<1>3. IsFiniteSet(1 .. Len(ev))
  BY <1>2, FS_Interval
<1>4. IsFiniteSet(S) /\ Cardinality(S) <= Len(ev)
  <2> HIDE DEF ev, S
  <2>1. IsFiniteSet(S)
    BY <1>2, <1>3, FiniteImage
  <2>2. [n \in 1 .. Len(ev) |-> ev[n]] \in Surjection(1 .. Len(ev), S)
    BY <1>2 DEF Surjection
  <2>3. Cardinality(S) <= Len(ev)
    BY <1>2, <2>2, FS_SurjCardinalityBound DEF ExistsSurjection
  <2> QED
    BY <2>1, <2>3
<1>5. /\ Ascending(S) \in Seq(S) /\ Len(Ascending(S)) = Cardinality(S)
      /\ \A x \in S : \E n \in 1 .. Cardinality(S) : Ascending(S)[n] = x
  <2> HIDE DEF S
  <2> QED
    BY <1>2, <1>4, AscendingLists
<1>6. CASE ledger.version = 0
  <2>1. EvictedKeyRows = << >> /\ Len(<< >>) = 0
    BY <1>6 DEF EvictedKeyRows
  <2>2. << >> \in Seq(Int)
    OBVIOUS
  <2> QED
    BY <1>2, <1>6, <2>1, <2>2
<1>7. CASE ledger.version # 0
  <2>1. EvictedKeyRows = Ascending(S)
    BY <1>7 DEF EvictedKeyRows
  <2> DEFINE a == Ascending(S)
  <2> HIDE DEF a, S, ev
  <2>2. a \in Seq(S) /\ Len(a) = Cardinality(S) /\ \A x \in S : \E n \in 1 .. Cardinality(S) : a[n] = x
    BY <1>5 DEF a
  <2>3. a \in Seq(Int)
    BY <1>2, <2>2
  <2>4. DOMAIN a = 1 .. Len(a) /\ \A n \in DOMAIN a : a[n] \in S
    BY <2>2, OwnElements
  <2>5. ToSet(a) = S
    BY <2>2, <2>4 DEF ToSet
  <2> QED
    BY <1>4, <2>1, <2>2, <2>3, <2>5 DEF a, S, ev
<1> QED
  BY <1>6, <1>7

LEMMA LedgerTablesNext ==
    ASSUME IInv, LedgerTablesInv, [Next]_vars
    PROVE  LedgerTablesInv'
<1>1. "ledgers" \in Tables \ {"transactions", "operations"}
      /\ "evicted_keys" \in Tables \ {"transactions", "operations"}
  BY TableNames
<1>2. /\ ledger' = ledger /\ turn \in 1 .. 9 /\ turn' \in Nat
      /\ turn' = turn \/ turn' = turn + 1
  BY Progress
<1>3. LedgerRow' = LedgerRow /\ EvictedKeyRows' = EvictedKeyRows
  BY <1>2 DEF LedgerRow, DeclaredOperations, SumOver, Where, EvictedKeyRows, Txs
<1>4. /\ AtTable("ledgers") <=> turn = 7
      /\ AtTable("evicted_keys") <=> turn = 8
  BY <1>2 DEF AtTable, TableOrder
<1>5. Types
  BY DEF IInv
<1>6. ~AtTable("ledgers") => rows'["ledgers"] = rows["ledgers"]
  BY <1>1, OthersKept
<1>7. ~AtTable("evicted_keys") => rows'["evicted_keys"] = rows["evicted_keys"]
  BY <1>1, OthersKept
<1>8. CASE UNCHANGED vars
  BY <1>3, <1>8 DEF vars, LedgerTablesInv
<1>9. CASE turn = 7 /\ ~UNCHANGED vars
  <2>1. AddLedger
    <3>1. TableOrder[turn] = "ledgers"
      BY <1>4, <1>9 DEF AtTable
    <3>2. turn <= Len(TableOrder)
      BY <1>9 DEF TableOrder
    <3> QED
      BY <1>9, <3>1, <3>2 DEF Next, AddTransaction, FailTransactions, AddOperation, NextTransaction,
         AddTransfer, EndOfLoop, AddEvictedKeys, Terminated, AtTable, PerOperation
  <2>2. turn' = 8
    BY <1>9, <2>1 DEF AddLedger, Return
  <2>3. rows'["ledgers"] = << LedgerRow >>
    <3>1. PICK row : row = LedgerRow
      OBVIOUS
    <3>2. Emit("ledgers", << row >>)
      BY <2>1, <3>1 DEF AddLedger
    <3>3. rows'["ledgers"] = rows["ledgers"] \o << row >>
      BY <1>1, <1>5, <3>2, Emitted
    <3>4. << >> \o << row >> = << row >>
      OBVIOUS
    <3>5. rows["ledgers"] = << >>
      BY <1>9 DEF LedgerTablesInv
    <3> QED
      BY <3>1, <3>3, <3>4, <3>5, Zenon
  <2>4. rows'["evicted_keys"] = << >>
    BY <1>4, <1>7, <1>9 DEF LedgerTablesInv
  <2> QED
    BY <1>3, <2>2, <2>3, <2>4 DEF LedgerTablesInv
<1>10. CASE turn = 8 /\ ~UNCHANGED vars
  <2>1. AddEvictedKeys
    <3>1. TableOrder[turn] = "evicted_keys"
      BY <1>4, <1>10 DEF AtTable
    <3>2. turn <= Len(TableOrder)
      BY <1>10 DEF TableOrder
    <3> QED
      BY <1>10, <3>1, <3>2 DEF Next, AddTransaction, FailTransactions, AddOperation, NextTransaction,
         AddTransfer, EndOfLoop, AddLedger, Terminated, AtTable, PerOperation
  <2>2. rows'["evicted_keys"] = rows["evicted_keys"] \o EvictedKeyRows /\ turn' = 9
    BY <1>1, <1>5, <1>10, <2>1, Emitted DEF AddEvictedKeys, Return
  <2>3. rows'["evicted_keys"] = EvictedKeyRows
    <3>1. PICK s \in Seq(Int) : s = EvictedKeyRows
      BY <1>5, EvictedListed DEF Types
    <3>2. << >> \o s = s
      OBVIOUS
    <3> QED
      BY <1>10, <2>2, <3>1, <3>2 DEF LedgerTablesInv
  <2>4. rows'["ledgers"] = << LedgerRow >>
    BY <1>4, <1>6, <1>10 DEF LedgerTablesInv
  <2> QED
    BY <1>3, <2>2, <2>3, <2>4 DEF LedgerTablesInv
<1>11. CASE turn \notin {7, 8}
  <2>1. rows'["ledgers"] = rows["ledgers"] /\ rows'["evicted_keys"] = rows["evicted_keys"]
    BY <1>4, <1>6, <1>7, <1>11
  <2>2. (turn <= 7 /\ turn' <= 7 /\ turn <= 8) \/ (turn > 8 /\ turn' > 8)
    BY <1>2, <1>11
  <2> QED
    BY <1>2, <1>3, <2>1, <2>2 DEF LedgerTablesInv
<1> QED
  BY <1>8, <1>9, <1>10, <1>11

LEMMA InitLedgerTables == Init => LedgerTablesInv
<1> SUFFICES ASSUME Init PROVE LedgerTablesInv
  OBVIOUS
<1>1. rows["ledgers"] = << >> /\ rows["evicted_keys"] = << >> /\ turn = 1
  BY TableNames DEF Init
<1> QED
  BY <1>1 DEF LedgerTablesInv

-----------------------------------------------------------------------------
\* The rows that tell of the operations in C[1], C[2], ... of the transactions
\* are as many as these are.
LEMMA RowsOfPlaces ==
    ASSUME IInv, turn > 2, NEW C, IsFiniteSet(Pairs(C, Len(Txs))),
           \A n \in DOMAIN Txs : C[n] \subseteq DOMAIN Txs[n].ops
    PROVE  Cardinality({m \in 1 .. Len(rows["operations"]) :
                           rows["operations"][m].index + 1 \in C[rows["operations"][m].hash]})
              = Cardinality(Pairs(C, Len(Txs)))
<1> DEFINE s == rows["operations"]
           P == Pairs(C, Len(Txs))
           K == {m \in 1 .. Len(s) : s[m].index + 1 \in C[s[m].hash]}
           g == [m \in K |-> s[m].id]
<1>1. s \in Seq(OperationRowSet) /\ Len(s) \in Nat
  BY DEF IInv, Types
<1>2. /\ \A m \in 1 .. Len(s) : TellsOf(s[m])
      /\ \A m \in 1 .. Len(s) : \A l \in 1 .. m - 1 : Before(s[l].id, s[m].id)
      /\ \A n \in DOMAIN Txs : \A k \in DOMAIN Txs[n].ops :
            \E m \in 1 .. Len(s) : s[m].hash = n /\ s[m].index = k - 1
  BY DEF IInv, OperationRowsInv, Walked
<1>3. DOMAIN Txs = 1 .. Len(Txs)
  BY LedgerShape DEF IInv, Types
<1>4. ASSUME NEW m \in 1 .. Len(s)
      PROVE  /\ s[m].hash \in 1 .. Len(Txs) /\ s[m].id = << s[m].hash, s[m].index + 1 >>
             /\ s[m].hash \in Nat /\ s[m].index + 1 \in Nat
  <2>1. TellsOf(s[m])
    BY <1>2
  <2>2. s[m].hash \in DOMAIN Txs /\ s[m].index + 1 \in DOMAIN Txs[s[m].hash].ops
    BY <2>1 DEF TellsOf
  <2> QED
    BY <1>3, <2>1, <2>2, PlaceTyped DEF TellsOf
<1> HIDE DEF s
<1>5. \A a \in 1 .. Len(s), b \in 1 .. Len(s) : a < b => s[a].id # s[b].id
  <2> SUFFICES ASSUME NEW a \in 1 .. Len(s), NEW b \in 1 .. Len(s), a < b PROVE s[a].id # s[b].id
    OBVIOUS
  <2>1. a \in 1 .. b - 1
    BY <1>1
  <2>2. Before(s[a].id, s[b].id)
    BY <1>2, <2>1
  <2> QED
    BY <1>4, <2>2 DEF Before
<1>6. g \in Injection(K, P)
  <2>1. ASSUME NEW m \in K PROVE s[m].id \in P
    <3>1. /\ s[m].hash \in 1 .. Len(Txs) /\ s[m].index + 1 \in C[s[m].hash]
          /\ s[m].id = << s[m].hash, s[m].index + 1 >>
      BY <1>4
    <3>2. PICK n, k : n \in 1 .. Len(Txs) /\ k \in C[n] /\ s[m].id = << n, k >>
      BY <3>1
    <3>3. << n, k >> \in {n} \X C[n]
      BY <3>2
    <3>4. << n, k >> \in P
      BY <3>2, <3>3 DEF Pairs
    <3> QED
      BY <3>2, <3>4
  <2>2. ASSUME NEW a \in K, NEW b \in K, g[a] = g[b] PROVE a = b
    <3>1. ~(a < b) /\ ~(b < a)
      BY <1>5, <2>2
    <3> QED
      BY <1>1, <3>1
  <2> HIDE DEF P
  <2>3. g \in [K -> P]
    BY <2>1
  <2> HIDE DEF K, g
  <2> QED
    BY <2>2, <2>3 DEF Injection, IsInjective
<1>7. g \in Surjection(K, P)
  <2>1. ASSUME NEW x \in P PROVE \E m \in K : g[m] = x
    <3>1. PICK n \in 1 .. Len(Txs) : x \in {n} \X C[n]
      BY DEF Pairs
    <3>2. PICK k \in C[n] : x = << n, k >>
      BY <3>1
    <3>3. n \in DOMAIN Txs /\ k \in DOMAIN Txs[n].ops
      BY <1>3, <3>2
    <3>4. PICK m \in 1 .. Len(s) : s[m].hash = n /\ s[m].index = k - 1
      BY <1>2, <3>3
    <3>5. k \in Nat
      BY <3>3, PlaceTyped
    <3>6. s[m].index + 1 = k
      BY <3>4, <3>5
    <3> QED
      BY <1>4, <3>2, <3>4, <3>6
  <2>2. g \in [K -> P]
    BY <1>6 DEF Injection
  <2> HIDE DEF K, g, P
  <2> QED
    BY <2>1, <2>2 DEF Surjection
<1>8. g \in Bijection(K, P)
  BY <1>6, <1>7 DEF Bijection
<1>9. IsFiniteSet(K)
  <2>1. 1 \in Int /\ Len(s) \in Int
    BY <1>1
  <2>2. IsFiniteSet(1 .. Len(s))
    BY <2>1, FS_Interval
  <2>3. K \in SUBSET (1 .. Len(s))
    OBVIOUS
  <2> HIDE DEF K
  <2> QED
    BY <2>2, <2>3, FS_Subset
<1> HIDE DEF K, P, g
<1>10. Cardinality(P) = Cardinality(K)
  BY <1>8, <1>9, FS_Bijection DEF ExistsBijection
<1> QED
  BY <1>10 DEF K, P, s

\* A count of rows as the sum over the transactions.
LEMMA CountedRows ==
    ASSUME IInv, turn > 2, NEW C, NEW sizes \in Seq(Nat), Len(sizes) = Len(Txs),
           \A n \in DOMAIN Txs : /\ C[n] \subseteq DOMAIN Txs[n].ops
                                 /\ IsFiniteSet(C[n]) /\ Cardinality(C[n]) = sizes[n],
           NEW keep,
           \A m \in 1 .. Len(rows["operations"]) :
              m \in keep <=> rows["operations"][m].index + 1 \in C[rows["operations"][m].hash]
    PROVE  Len(Selected(rows["operations"], keep)) = Total(sizes)
<1> DEFINE s == rows["operations"]
           K == {m \in 1 .. Len(s) : s[m].index + 1 \in C[s[m].hash]}
<1>1. s \in Seq(OperationRowSet)
  BY DEF IInv, Types
<1>2. DOMAIN Txs = 1 .. Len(Txs)
  BY LedgerShape DEF IInv, Types
<1>3. IsFiniteSet(Pairs(C, Len(Txs))) /\ Cardinality(Pairs(C, Len(Txs))) = Total(sizes)
  BY <1>2, TotalOfSizes
<1>4. Cardinality(K) = Total(sizes)
  BY <1>3, RowsOfPlaces
<1> HIDE DEF s
<1>5. Len(Selected(s, keep)) = Cardinality({m \in 1 .. Len(s) : m \in keep})
  BY <1>1, SelectedCount
<1>6. {m \in 1 .. Len(s) : m \in keep} = K
  BY DEF s
<1> QED
  BY <1>4, <1>5, <1>6 DEF s

\* The counts of operation rows.
LEMMA OperationCounts ==
    ASSUME IInv, turn > 2, NEW s, s = rows["operations"]
    PROVE  /\ Len(Selected(s, {m \in DOMAIN s : s[m].ok}))
                 = Total([n \in DOMAIN Txs |-> IF Txs[n].ok THEN Len(Txs[n].ops) ELSE 0])
           /\ Len(s) = Total([n \in DOMAIN Txs |-> Len(Txs[n].ops)])
           /\ Len(Selected(s, {m \in DOMAIN s : s[m].kind \in SorobanKinds}))
                 = Total([n \in DOMAIN Txs |->
                       Len(Selected(Txs[n].ops,
                                    {k \in DOMAIN Txs[n].ops : Txs[n].ops[k].kind \in SorobanKinds}))])
<1> DEFINE N == Len(Txs)
           all == [n \in DOMAIN Txs |-> DOMAIN Txs[n].ops]
           good == [n \in DOMAIN Txs |-> IF Txs[n].ok THEN DOMAIN Txs[n].ops ELSE {}]
           host == [n \in DOMAIN Txs |->
                       {k \in DOMAIN Txs[n].ops : Txs[n].ops[k].kind \in SorobanKinds}]
           allSizes == [n \in DOMAIN Txs |-> Len(Txs[n].ops)]
           goodSizes == [n \in DOMAIN Txs |-> IF Txs[n].ok THEN Len(Txs[n].ops) ELSE 0]
           hostSizes == [n \in DOMAIN Txs |-> Len(Selected(Txs[n].ops, host[n]))]
<1>1. s \in Seq(OperationRowSet) /\ DOMAIN s = 1 .. Len(s) /\ Len(s) \in Nat
  BY DEF IInv, Types
<1>2. /\ N \in Nat /\ DOMAIN Txs = 1 .. N
      /\ \A n \in DOMAIN Txs : /\ Txs[n].ops \in Seq(Operations)
                               /\ DOMAIN Txs[n].ops = 1 .. Len(Txs[n].ops)
                               /\ Len(Txs[n].ops) \in Nat
  BY LedgerShape DEF IInv, Types
<1>3. ASSUME NEW m \in 1 .. Len(s)
      PROVE  /\ s[m].hash \in DOMAIN Txs /\ s[m].index + 1 \in DOMAIN Txs[s[m].hash].ops
             /\ s[m].ok <=> Txs[s[m].hash].ok
             /\ s[m].kind = Txs[s[m].hash].ops[s[m].index + 1].kind
  <2>1. TellsOf(s[m])
    BY <1>3 DEF IInv, OperationRowsInv
  <2> QED
    BY <2>1 DEF TellsOf
<1>4. ASSUME NEW n \in DOMAIN Txs
      PROVE  /\ IsFiniteSet(DOMAIN Txs[n].ops)
             /\ Cardinality(DOMAIN Txs[n].ops) = Len(Txs[n].ops)
  <2> DEFINE L == Len(Txs[n].ops)
  <2>1. L \in Nat /\ DOMAIN Txs[n].ops = 1 .. L
    BY <1>2
  <2> HIDE DEF L
  <2>2. IsFiniteSet(1 .. L) /\ Cardinality(1 .. L) = L
    BY <2>1, FS_Interval
  <2> QED
    BY <2>1, <2>2 DEF L
<1>5. Len(Selected(s, {m \in DOMAIN s : s[m].ok})) = Total(goodSizes)
  <2>1. goodSizes \in Seq(Nat) /\ Len(goodSizes) = N
    BY <1>2
  <2>2. ASSUME NEW n \in DOMAIN Txs
        PROVE  /\ good[n] \subseteq DOMAIN Txs[n].ops
               /\ IsFiniteSet(good[n]) /\ Cardinality(good[n]) = goodSizes[n]
    BY <1>4, FS_EmptySet
  <2>3. ASSUME NEW m \in 1 .. Len(s)
        PROVE  m \in {k \in DOMAIN s : s[k].ok} <=> s[m].index + 1 \in good[s[m].hash]
    BY <1>1, <1>3
  <2> HIDE DEF good, goodSizes
  <2> QED
    BY <2>1, <2>2, <2>3, CountedRows
<1>6. Len(s) = Total(allSizes)
  <2>1. allSizes \in Seq(Nat) /\ Len(allSizes) = N
    BY <1>2
  <2>2. ASSUME NEW n \in DOMAIN Txs
        PROVE  /\ all[n] \subseteq DOMAIN Txs[n].ops
               /\ IsFiniteSet(all[n]) /\ Cardinality(all[n]) = allSizes[n]
    BY <1>4
  <2>3. ASSUME NEW m \in 1 .. Len(s)
        PROVE  m \in 1 .. Len(s) <=> s[m].index + 1 \in all[s[m].hash]
    BY <1>3
  <2> HIDE DEF all, allSizes
  <2>4. Len(Selected(s, 1 .. Len(s))) = Total(allSizes)
    BY <2>1, <2>2, <2>3, CountedRows
  <2>5. Len(Selected(s, 1 .. Len(s))) = Cardinality({m \in 1 .. Len(s) : m \in 1 .. Len(s)})
    BY <1>1, SelectedCount
  <2>6. {m \in 1 .. Len(s) : m \in 1 .. Len(s)} = 1 .. Len(s)
    OBVIOUS
  <2>7. Cardinality(1 .. Len(s)) = Len(s)
    BY <1>1, FS_Interval
  <2> QED
    BY <2>4, <2>5, <2>6, <2>7
<1>7. Len(Selected(s, {m \in DOMAIN s : s[m].kind \in SorobanKinds})) = Total(hostSizes)
  <2>1. ASSUME NEW n \in DOMAIN Txs
        PROVE  /\ host[n] \subseteq DOMAIN Txs[n].ops
               /\ IsFiniteSet(host[n]) /\ Cardinality(host[n]) = hostSizes[n]
               /\ hostSizes[n] \in Nat
    <3> DEFINE ops == Txs[n].ops
               h == host[n]
    <3>1. ops \in Seq(Operations) /\ DOMAIN ops = 1 .. Len(ops) /\ h \subseteq DOMAIN ops
      BY <1>2
    <3>2. hostSizes[n] = Len(Selected(ops, h))
      OBVIOUS
    <3> HIDE DEF ops, h, host, hostSizes
    <3>3. {k \in 1 .. Len(ops) : k \in h} = h
      BY <3>1
    <3>4. IsFiniteSet(h) /\ Len(Selected(ops, h)) = Cardinality(h)
      BY <3>1, <3>3, SelectedCount
    <3>5. Len(Selected(ops, h)) \in Nat
      BY <3>4, FS_CardinalityType
    <3> QED
      BY <3>1, <3>2, <3>4, <3>5 DEF ops, h
  <2>2. ASSUME NEW m \in 1 .. Len(s)
        PROVE  m \in {k \in DOMAIN s : s[k].kind \in SorobanKinds}
                  <=> s[m].index + 1 \in host[s[m].hash]
    <3> HIDE DEF SorobanKinds
    <3> QED
      BY <1>1, <1>3
  <2>3. hostSizes \in Seq(Nat) /\ Len(hostSizes) = N
    <3>1. hostSizes = [n \in 1 .. N |-> hostSizes[n]]
      BY <1>2
    <3> HIDE DEF hostSizes, host
    <3> QED
      BY <1>2, <2>1, <3>1
  <2> HIDE DEF host, hostSizes
  <2> QED
    BY <2>1, <2>2, <2>3, CountedRows
<1>8. hostSizes = [n \in DOMAIN Txs |->
                       Len(Selected(Txs[n].ops,
                                    {k \in DOMAIN Txs[n].ops : Txs[n].ops[k].kind \in SorobanKinds}))]
  OBVIOUS
<1> QED
  BY <1>5, <1>6, <1>7, <1>8, Zenon

\* The counts and sums of transaction rows.
LEMMA TransactionCounts ==
    ASSUME IInv, RowsOfFirst(Len(Txs)), NEW r, r = rows["transactions"],
           NEW bad, bad = Total([n \in DOMAIN Txs |-> IF Txs[n].ok THEN 0 ELSE 1])
    PROVE  /\ Len(r) = Len(Txs)
           /\ Len(Selected(r, {m \in DOMAIN r : ~r[m].ok})) = bad
           /\ Len(Selected(r, {m \in DOMAIN r : r[m].ok})) = Len(Txs) - bad
           /\ Total([m \in DOMAIN r |-> r[m].fee]) = Total([n \in DOMAIN Txs |-> Txs[n].fee])
           /\ Total([m \in DOMAIN r |-> IF r[m].events = NoCount THEN 0 ELSE r[m].events])
                 <= Total([n \in DOMAIN Txs |-> Txs[n].events])
<1> DEFINE N == Len(Txs)
           ones == [n \in DOMAIN Txs |-> IF Txs[n].ok THEN 0 ELSE 1]
           shown == [m \in DOMAIN r |-> IF r[m].events = NoCount THEN 0 ELSE r[m].events]
           events == [n \in DOMAIN Txs |-> Txs[n].events]
           Bad == {m \in 1 .. N : m \in {k \in DOMAIN r : ~r[k].ok}}
           Good == {m \in 1 .. N : m \in {k \in DOMAIN r : r[k].ok}}
<1>1. /\ N \in Nat /\ DOMAIN Txs = 1 .. N
      /\ \A n \in DOMAIN Txs : Txs[n] \in Transaction
  BY LedgerShape DEF IInv, Types
<1>2. r \in Seq(TransactionRowSet) /\ Len(r) = N /\ DOMAIN r = 1 .. N
  BY <1>1 DEF RowsOfFirst, IInv, Types
<1>3. \A n \in 1 .. N : /\ r[n].ok <=> Txs[n].ok
                        /\ r[n].fee = Txs[n].fee
                        /\ r[n].events = EventCount(Txs[n])
  BY DEF RowsOfFirst
<1>4. \A n \in 1 .. N : Txs[n].fee \in Nat /\ Txs[n].events \in Nat
  <2>1. \A tx \in Transaction : tx.fee \in Nat /\ tx.events \in Nat
    BY DEF Transaction
  <2> QED
    BY <1>1, <2>1
<1>5. /\ Len(Selected(r, {m \in DOMAIN r : ~r[m].ok})) = Cardinality(Bad)
      /\ Len(Selected(r, {m \in DOMAIN r : r[m].ok})) = Cardinality(Good)
  BY <1>2, SelectedCount
<1>6. bad = Cardinality(Bad)
  <2>1. ones \in Seq({0, 1}) /\ Len(ones) = N
    BY <1>1
  <2>2. {n \in 1 .. N : ones[n] = 1} = Bad
    BY <1>1, <1>2, <1>3
  <2> HIDE DEF ones, Bad
  <2>3. Total(ones) = Cardinality(Bad)
    BY <2>1, <2>2, TotalOfOnes
  <2> QED
    BY <2>3 DEF ones
<1>7. Cardinality(Good) = N - Cardinality(Bad)
  <2>1. IsFiniteSet(1 .. N) /\ Cardinality(1 .. N) = N
    <3>1. N \in Nat
      BY <1>1
    <3> HIDE DEF N
    <3> QED
      BY <3>1, FS_Interval
  <2>2. Good = (1 .. N) \ Bad /\ (1 .. N) \cap Bad = Bad
    BY <1>2
  <2> HIDE DEF Good, Bad
  <2>3. Cardinality((1 .. N) \ Bad) = Cardinality(1 .. N) - Cardinality((1 .. N) \cap Bad)
    BY <2>1, FS_Difference
  <2> QED
    BY <2>1, <2>2, <2>3
<1>8. [m \in DOMAIN r |-> r[m].fee] = [n \in DOMAIN Txs |-> Txs[n].fee]
  BY <1>1, <1>2, <1>3
<1>9. Total(shown) <= Total(events)
  <2>1. \A n \in 1 .. N : shown[n] \in Nat /\ shown[n] <= events[n] /\ events[n] \in Nat
    BY <1>1, <1>2, <1>3, <1>4 DEF EventCount
  <2>2. shown = [n \in 1 .. N |-> shown[n]] /\ events = [n \in 1 .. N |-> events[n]]
    BY <1>1, <1>2
  <2> HIDE DEF shown, events
  <2>3. shown \in Seq(Nat) /\ events \in Seq(Nat) /\ Len(shown) = N /\ Len(events) = N
    BY <1>1, <2>1, <2>2
  <2> QED
    BY <2>1, <2>3, TotalGrows
<1> HIDE DEF Bad, Good
<1> QED
  BY <1>2, <1>5, <1>6, <1>7, <1>8, <1>9

\* From close meta V1 on a transaction counts as its result says.
LEMMA LedgerRowCounts ==
    ASSUME ledger \in Ledgers, ledger.version > 0
    PROVE  \E bad :
              /\ bad = Total([n \in DOMAIN Txs |-> IF Txs[n].ok THEN 0 ELSE 1])
              /\ LedgerRow.transactions = Len(Txs)
              /\ LedgerRow.successful = Len(Txs) - bad /\ LedgerRow.failed = bad
              /\ LedgerRow.operations =
                    Total([n \in DOMAIN Txs |-> IF Txs[n].ok THEN Len(Txs[n].ops) ELSE 0])
              /\ LedgerRow.declared = Total([n \in DOMAIN Txs |-> Len(Txs[n].ops)])
              /\ LedgerRow.soroban =
                    Total([n \in DOMAIN Txs |->
                       Len(Selected(Txs[n].ops,
                                    {k \in DOMAIN Txs[n].ops : Txs[n].ops[k].kind \in SorobanKinds}))])
              /\ LedgerRow.fee = Total([n \in DOMAIN Txs |-> Txs[n].fee])
              /\ LedgerRow.events = Total([n \in DOMAIN Txs |-> Txs[n].events])
              /\ LedgerRow.evicted = Len(ledger.evicted)
<1> DEFINE counts(n) == ledger.version = 0 \/ (Txs[n].results /\ Txs[n].ok)
           zeros == [n \in DOMAIN Txs |-> IF counts(n) THEN 0 ELSE 1]
           run == [n \in DOMAIN Txs |-> IF counts(n) THEN Len(Txs[n].ops) ELSE 0]
<1>1. ~(ledger.version = 0)
  OBVIOUS
<1>2. \A n \in DOMAIN Txs : counts(n) <=> Txs[n].ok
  BY <1>1, LedgersAssumption DEF Txs
<1>3. zeros = [n \in DOMAIN Txs |-> IF Txs[n].ok THEN 0 ELSE 1]
  BY <1>2
<1>4. run = [n \in DOMAIN Txs |-> IF Txs[n].ok THEN Len(Txs[n].ops) ELSE 0]
  BY <1>2
<1>5. /\ LedgerRow.transactions = Len(Txs)
      /\ LedgerRow.successful = Len(Txs) - Total(zeros) /\ LedgerRow.failed = Total(zeros)
      /\ LedgerRow.operations = Total(run)
      /\ LedgerRow.declared = Total([n \in DOMAIN Txs |-> Len(Txs[n].ops)])
      /\ LedgerRow.soroban =
            Total([n \in DOMAIN Txs |->
                     Len(Selected(Txs[n].ops,
                                  {k \in DOMAIN Txs[n].ops : Txs[n].ops[k].kind \in SorobanKinds}))])
      /\ LedgerRow.fee = Total([n \in DOMAIN Txs |-> Txs[n].fee])
      /\ LedgerRow.events = Total([n \in DOMAIN Txs |-> Txs[n].events])
      /\ LedgerRow.evicted = Len(ledger.evicted)
  BY <1>1 DEF LedgerRow, DeclaredOperations, SumOver, Where
<1> HIDE DEF zeros, run
<1> QED
  BY <1>3, <1>4, <1>5

LEMMA CountsAgree ==
    ASSUME IInv, LedgerTablesInv, Finished("evicted_keys"), ledger.version > 0
    PROVE  LedgerCountsAgree
<1> DEFINE s == rows["operations"]
           r == rows["transactions"]
           row == rows["ledgers"][1]
<1>1. turn = 9 /\ turn > 8 /\ turn > 7 /\ turn > 2 /\ turn > 1
  <2>1. 8 \in DOMAIN TableOrder /\ TableOrder[8] = "evicted_keys"
    BY DEF TableOrder
  <2>2. turn > 8
    BY <2>1 DEF Finished
  <2> QED
    BY <2>2 DEF IInv, Types
<1>2. rows["ledgers"] = << LedgerRow >> /\ rows["evicted_keys"] = EvictedKeyRows
  BY <1>1 DEF LedgerTablesInv
<1>3. row = LedgerRow
  BY <1>2
<1>4. ledger \in Ledgers
  BY DEF IInv, Types
<1>5. PICK bad :
              /\ bad = Total([n \in DOMAIN Txs |-> IF Txs[n].ok THEN 0 ELSE 1])
              /\ row.transactions = Len(Txs)
              /\ row.successful = Len(Txs) - bad /\ row.failed = bad
              /\ row.operations =
                    Total([n \in DOMAIN Txs |-> IF Txs[n].ok THEN Len(Txs[n].ops) ELSE 0])
              /\ row.declared = Total([n \in DOMAIN Txs |-> Len(Txs[n].ops)])
              /\ row.soroban =
                    Total([n \in DOMAIN Txs |->
                       Len(Selected(Txs[n].ops,
                                    {k \in DOMAIN Txs[n].ops : Txs[n].ops[k].kind \in SorobanKinds}))])
              /\ row.fee = Total([n \in DOMAIN Txs |-> Txs[n].fee])
              /\ row.events = Total([n \in DOMAIN Txs |-> Txs[n].events])
              /\ row.evicted = Len(ledger.evicted)
  <2> HIDE DEF row
  <2> QED
    BY <1>3, <1>4, LedgerRowCounts
<1> HIDE DEF row, s, r
<1>6. /\ row.operations = Len(Selected(s, {m \in DOMAIN s : s[m].ok}))
      /\ row.declared = Len(s)
      /\ row.soroban = Len(Selected(s, {m \in DOMAIN s : s[m].kind \in SorobanKinds}))
  BY <1>1, <1>5, OperationCounts DEF s
<1>7. /\ ToSet(rows["evicted_keys"]) = ToSet(ledger.evicted)
      /\ row.evicted >= Len(rows["evicted_keys"])
  <2>1. ledger.version # 0
    OBVIOUS
  <2>2. /\ ToSet(EvictedKeyRows) = ToSet(ledger.evicted)
        /\ Len(EvictedKeyRows) <= Len(ledger.evicted)
        /\ Len(EvictedKeyRows) \in Nat /\ Len(ledger.evicted) \in Nat
    BY <1>4, <2>1, EvictedListed, LedgersAssumption
  <2> QED
    BY <1>2, <1>5, <2>2
<1>8. ASSUME failed = {}
      PROVE  /\ row.transactions = Len(r)
             /\ row.successful = Len(Selected(r, {m \in DOMAIN r : r[m].ok}))
             /\ row.failed = Len(Selected(r, {m \in DOMAIN r : ~r[m].ok}))
             /\ row.fee = Total([m \in DOMAIN r |-> r[m].fee])
             /\ Total([m \in DOMAIN r |-> IF r[m].events = NoCount THEN 0 ELSE r[m].events])
                   <= row.events
  <2>1. RowsOfFirst(Len(Txs))
    BY <1>1, <1>8 DEF IInv, TransactionRowsInv, NoRowsAtAll
  <2> QED
    BY <1>5, <2>1, TransactionCounts DEF r
<1>9. ASSUME failed = {}
      PROVE  row.events >= Total([m \in DOMAIN r |-> IF r[m].events = NoCount THEN 0 ELSE r[m].events])
  BY <1>8, <1>9
<1> QED
  BY <1>6, <1>7, <1>8, <1>9 DEF LedgerCountsAgree, SumOver, Where, row, s, r

\* From close meta V1 on the counts of the ledger row are those of the rows of
\* the other tables, for every ledger.
THEOREM LedgerCounts == Spec => []LedgerCountsAgree
<1>1. IInv /\ LedgerTablesInv /\ [Next]_vars => LedgerTablesInv'
  BY LedgerTablesNext
<1>2. IInv /\ LedgerTablesInv => LedgerCountsAgree
  BY CountsAgree DEF LedgerCountsAgree
<1> QED
  BY <1>1, <1>2, InitLedgerTables, Invariance, PTL DEF Spec

-----------------------------------------------------------------------------
(* Effects and trades of one operation.                                     *)

\* A row of an operation, all of them, and those the operation makes.
InPlace(table, r, n, k) ==
    r.hash = n /\ IF table = "effects" THEN r.operation = << n, k >> ELSE r.op = k - 1

OfPlace(table, n, k) ==
    Selected(rows[table], {m \in DOMAIN rows[table] : InPlace(table, rows[table][m], n, k)})

EffectsMade(n, k) ==
    LET effects == EffectsOf(Txs[n].ops[k])
    IN  [m \in DOMAIN effects |->
            [operation |-> << n, k >>, hash |-> n, index |-> m - 1,
             address |-> effects[m].address, type |-> effects[m].type]]

ClaimRows(n, k) ==
    LET op == Txs[n].ops[k]
    IN  [m \in DOMAIN op.claims |->
            [hash |-> n, op |-> k - 1, index |-> m - 1, type |-> op.claims[m].kind,
             seller |-> op.claims[m].maker,
             buyer |-> IF op.kind = "path_payment" THEN op.dest ELSE Txs[n].source]]

MovedClaims(op) == {m \in DOMAIN op.claims : ~(op.claims[m].sold = 0 /\ op.claims[m].bought = 0)}

TradesMade(n, k) ==
    IF Txs[n].ops[k].kind \in {"offer", "path_payment"}
    THEN Selected(ClaimRows(n, k), MovedClaims(Txs[n].ops[k])) ELSE << >>

Made(table, n, k) == IF table = "effects" THEN EffectsMade(n, k) ELSE TradesMade(n, k)

\* The rows of the table are those of the operations walked, each with its own.
PlacesInv(table, p) ==
    /\ IsSequence(rows[table])
    /\ \A m \in 1 .. Len(rows[table]) :
          \E n \in DOMAIN Txs : \E k \in DOMAIN Txs[n].ops :
             Txs[n].ok /\ InPlace(table, rows[table][m], n, k)
    /\ \A n \in DOMAIN Txs : \A k \in DOMAIN Txs[n].ops :
          OfPlace(table, n, k) =
             IF Txs[n].ok /\ WalkedAt(p, n, k) THEN Made(table, n, k) ELSE << >>

LEMMA AddedIsMade ==
    OperationRows("effects") = Made("effects", t, i) /\ OperationRows("trades") = Made("trades", t, i)
BY DEF OperationRows, EffectRows, TradeRows, TradeRow, Buyer, Made, EffectsMade, TradesMade,
       ClaimRows, MovedClaims, Op, Tx

\* What is made in a place is of that place.
LEMMA ClaimRowsAre ==
    ASSUME ledger \in Ledgers, NEW n \in DOMAIN Txs, NEW k \in DOMAIN Txs[n].ops
    PROVE  LET op == Txs[n].ops[k]
               R == ClaimRows(n, k)
           IN  /\ op \in Operations /\ WellFormed(op) /\ DOMAIN op.claims = 1 .. Len(op.claims)
               /\ NameClaims(R, op)
               /\ \A m \in 1 .. Len(R) : R[m].hash = n /\ R[m].op = k - 1
<1> DEFINE op == Txs[n].ops[k]
           row(m) == [hash |-> n, op |-> k - 1, index |-> m - 1, type |-> op.claims[m].kind,
                      seller |-> op.claims[m].maker,
                      buyer |-> IF op.kind = "path_payment" THEN op.dest ELSE Txs[n].source]
           R == ClaimRows(n, k)
           S == {row(m) : m \in 1 .. Len(op.claims)}
<1>1. op \in Operations
  BY LedgerShape
<1>2. WellFormed(op)
  BY <1>1, LedgersAssumption
<1>3. IsSequence(op.claims)
  BY <1>2 DEF WellFormed
<1>4. DOMAIN op.claims = 1 .. Len(op.claims) /\ Len(op.claims) \in Nat
  BY <1>3, OwnElements DEF IsSequence
<1>5. R = [m \in 1 .. Len(op.claims) |-> row(m)]
  BY <1>4 DEF ClaimRows
<1>6. \A m \in 1 .. Len(op.claims) : row(m) \in S
  OBVIOUS
<1>7. \A m : /\ row(m).type = op.claims[m].kind /\ row(m).seller = op.claims[m].maker
             /\ row(m).hash = n /\ row(m).op = k - 1
  OBVIOUS
<1> HIDE DEF op, row, R, S
<1>8. R \in Seq(S) /\ Len(R) = Len(op.claims) /\ \A m \in 1 .. Len(R) : R[m] = row(m)
  BY <1>4, <1>5, <1>6
<1>9. IsSequence(R)
  BY <1>8, OwnElements
<1>10. NameClaims(R, op)
  BY <1>7, <1>8, <1>9 DEF NameClaims
<1>11. \A m \in 1 .. Len(R) : R[m].hash = n /\ R[m].op = k - 1
  BY <1>7, <1>8
<1> QED
  BY <1>1, <1>2, <1>4, <1>10, <1>11 DEF op, R

LEMMA EffectsMadeAre ==
    ASSUME ledger \in Ledgers, NEW n \in DOMAIN Txs, NEW k \in DOMAIN Txs[n].ops
    PROVE  LET u == EffectsMade(n, k)
           IN  /\ Alike(EffectsOf(Txs[n].ops[k]), u) /\ IsSequence(u)
               /\ \A m \in 1 .. Len(u) : u[m].hash = n /\ u[m].operation = << n, k >>
<1> DEFINE x == EffectsOf(Txs[n].ops[k])
           row(m) == [operation |-> << n, k >>, hash |-> n, index |-> m - 1,
                      address |-> x[m].address, type |-> x[m].type]
           u == EffectsMade(n, k)
           S == {row(m) : m \in 1 .. Len(x)}
<1>1. WellFormed(Txs[n].ops[k])
  BY ClaimRowsAre
<1>2. IsSequence(x)
  BY <1>1, EffectsTold
<1>3. DOMAIN x = 1 .. Len(x) /\ Len(x) \in Nat
  BY <1>2, OwnElements DEF IsSequence
<1>4. u = [m \in 1 .. Len(x) |-> row(m)]
  BY <1>3 DEF EffectsMade
<1>5. \A m \in 1 .. Len(x) : row(m) \in S
  OBVIOUS
<1>6. \A m : /\ row(m).type = x[m].type /\ row(m).address = x[m].address
             /\ row(m).hash = n /\ row(m).operation = << n, k >>
  OBVIOUS
<1> HIDE DEF x, row, u, S
<1>7. u \in Seq(S) /\ Len(u) = Len(x) /\ \A m \in 1 .. Len(u) : u[m] = row(m)
  BY <1>3, <1>4, <1>5
<1>8. IsSequence(u)
  BY <1>7, OwnElements
<1>9. Alike(x, u)
  BY <1>2, <1>6, <1>7, <1>8 DEF Alike
<1>10. \A m \in 1 .. Len(u) : u[m].hash = n /\ u[m].operation = << n, k >>
  BY <1>6, <1>7
<1> QED
  BY <1>8, <1>9, <1>10 DEF u, x

LEMMA MadeIsOfPlace ==
    ASSUME ledger \in Ledgers, NEW n \in DOMAIN Txs, NEW k \in DOMAIN Txs[n].ops,
           NEW table \in {"effects", "trades"}
    PROVE  /\ IsSequence(Made(table, n, k))
           /\ \A m \in 1 .. Len(Made(table, n, k)) : InPlace(table, Made(table, n, k)[m], n, k)
<1>1. CASE table = "effects"
  BY <1>1, EffectsMadeAre DEF Made, InPlace
<1>2. CASE table = "trades" /\ Txs[n].ops[k].kind \in {"offer", "path_payment"}
  <2>1. PICK R, keep, u : R = ClaimRows(n, k) /\ keep = MovedClaims(Txs[n].ops[k])
                          /\ u = Selected(R, keep)
    OBVIOUS
  <2>2. IsSequence(R) /\ \A m \in 1 .. Len(R) : R[m].hash = n /\ R[m].op = k - 1
    BY <2>1, ClaimRowsAre DEF NameClaims
  <2>3. R \in Seq(ToSet(R))
    BY <2>2 DEF IsSequence
  <2>4. PICK p : u \in Seq(ToSet(R)) /\ Picks(p, u, R, keep, Len(R))
    BY <2>1, <2>3, SelectedPositions
  <2>5. \A m \in 1 .. Len(u) : p[m] \in 1 .. Len(R) /\ u[m] = R[p[m]]
    BY <2>4 DEF Picks
  <2>6. \A m \in 1 .. Len(u) : u[m].hash = n /\ u[m].op = k - 1
    BY <2>2, <2>5
  <2>7. IsSequence(u)
    BY <2>4, OwnElements
  <2>8. Made(table, n, k) = u
    BY <1>2, <2>1 DEF Made, TradesMade
  <2> QED
    BY <1>2, <2>6, <2>7, <2>8 DEF InPlace
<1>3. CASE table = "trades" /\ Txs[n].ops[k].kind \notin {"offer", "path_payment"}
  <2>1. Made(table, n, k) = << >>
    BY <1>3 DEF Made, TradesMade
  <2> QED
    BY <2>1, SmallSequences
<1> QED
  BY <1>1, <1>2, <1>3

LEMMA PlacesAdded ==
    ASSUME IInv, NEW table \in {"effects", "trades"}, NEW p \in 3 .. 4, table = TableOrder[p],
           PlacesInv(table, p), AddOperation(table), [Next]_vars
    PROVE  PlacesInv(table, p)'
<1> DEFINE old == rows[table]
           new == rows'[table]
           u == OperationRows(table)
<1>1. /\ turn = p /\ turn' = p /\ t' = t /\ i' = i + 1
      /\ t \in DOMAIN Txs /\ i \in DOMAIN Tx.ops /\ Tx.ok /\ Tx = Txs[t]
      /\ new = old \o u
      /\ \A n, k : n = t /\ k = i => WalkedAt(p, n, k)'
  <2>1. p \in 3 .. 5
    OBVIOUS
  <2> QED
    BY <2>1, OperationAdded
<1>2. ledger' = ledger /\ Txs' = Txs
  BY Progress DEF Txs
<1>3. u = Made(table, t, i)
  BY AddedIsMade
<1>4. /\ IsSequence(u) /\ \A m \in 1 .. Len(u) : InPlace(table, u[m], t, i)
  BY <1>1, <1>3, MadeIsOfPlace DEF IInv, Types
<1>5. IsSequence(old)
  BY DEF PlacesInv
<1>6. t \in Nat /\ i \in Nat /\ DOMAIN Txs = 1 .. Len(Txs) /\ Len(Txs) \in Nat
  BY LedgerShape DEF IInv, Types
<1> HIDE DEF old, new, u
<1>7. /\ IsSequence(new) /\ Len(new) = Len(old) + Len(u)
      /\ \A m \in 1 .. Len(old) : new[m] = old[m]
      /\ \A m \in 1 .. Len(u) : new[Len(old) + m] = u[m]
      /\ \A m \in 1 .. Len(new) : m \in 1 .. Len(old) \/ \E j \in 1 .. Len(u) : m = Len(old) + j
  <2>1. IsSequence(new) /\ Len(new) = Len(old) + Len(u)
    BY <1>1, <1>4, <1>5, JoinedIs
  <2>2. \A m \in 1 .. Len(old) : new[m] = old[m]
    BY <1>1, <1>4, <1>5, JoinedIs
  <2>3. \A m \in 1 .. Len(u) : new[Len(old) + m] = u[m]
    BY <1>1, <1>4, <1>5, JoinedIs
  <2>4. \A m \in 1 .. Len(new) : m \in 1 .. Len(old) \/ \E j \in 1 .. Len(u) : m = Len(old) + j
    BY <1>1, <1>4, <1>5, JoinedIs
  <2> QED
    BY <2>1, <2>2, <2>3, <2>4
<1>8. ASSUME NEW m \in 1 .. Len(new)
      PROVE  \E n \in DOMAIN Txs : \E k \in DOMAIN Txs[n].ops :
                Txs[n].ok /\ InPlace(table, new[m], n, k)
  <2>1. CASE m \in 1 .. Len(old)
    BY <1>7, <2>1 DEF PlacesInv, old
  <2>2. ASSUME NEW j \in 1 .. Len(u), m = Len(old) + j
        PROVE  \E n \in DOMAIN Txs : \E k \in DOMAIN Txs[n].ops :
                  Txs[n].ok /\ InPlace(table, new[m], n, k)
    <3>1. new[m] = u[j] /\ InPlace(table, u[j], t, i)
      BY <1>4, <1>7, <2>2
    <3>2. InPlace(table, new[m], t, i)
      BY <3>1
    <3> QED
      BY <1>1, <3>2
  <2> QED
    BY <1>7, <2>1, <2>2
<1>9. ASSUME NEW n \in DOMAIN Txs, NEW k \in DOMAIN Txs[n].ops
      PROVE  Selected(new, {m \in DOMAIN new : InPlace(table, new[m], n, k)}) =
                IF Txs[n].ok /\ WalkedAt(p, n, k)' THEN Made(table, n, k) ELSE << >>
  <2> DEFINE keep == {m \in DOMAIN new : InPlace(table, new[m], n, k)}
             keepOld == {m \in DOMAIN old : InPlace(table, old[m], n, k)}
             kept == {m \in DOMAIN u : InPlace(table, u[m], n, k)}
  <2>1. /\ DOMAIN new = 1 .. Len(new) /\ DOMAIN old = 1 .. Len(old) /\ DOMAIN u = 1 .. Len(u)
        /\ Len(old) \in Nat /\ Len(u) \in Nat /\ u \in Seq(ToSet(u))
    BY <1>4, <1>5, <1>7, OwnElements DEF IsSequence
  <2>2. /\ \A m \in 1 .. Len(old) : m \in keep <=> m \in keepOld
        /\ \A m \in 1 .. Len(u) : m \in kept <=> Len(old) + m \in keep
    BY <1>7, <2>1
  <2>3. n \in Nat /\ k \in Nat
    BY PlaceTyped
  <2>4. Selected(old, keepOld) = IF Txs[n].ok /\ WalkedAt(p, n, k) THEN Made(table, n, k) ELSE << >>
    BY DEF PlacesInv, OfPlace, old
  <2>5. n = t /\ k = i => ~WalkedAt(p, n, k) /\ WalkedAt(p, n, k)' /\ Txs[n].ok
    BY <1>1, <1>6 DEF WalkedAt, Before
  <2>6. ~(n = t /\ k = i) => (WalkedAt(p, n, k)' <=> WalkedAt(p, n, k))
    BY <1>1, <1>6, <2>3 DEF WalkedAt, Before
  <2>7. \A m \in 1 .. Len(u) : m \in kept <=> n = t /\ k = i
    <3>1. ASSUME NEW m \in 1 .. Len(u), m \in kept PROVE n = t /\ k = i
      <4>1. InPlace(table, u[m], n, k) /\ InPlace(table, u[m], t, i)
        BY <1>4, <3>1
      <4>2. n = t
        BY <4>1 DEF InPlace
      <4>3. CASE table = "effects"
        <5>1. << n, k >> = << t, i >>
          BY <4>1, <4>3 DEF InPlace
        <5> QED
          BY <4>2, <5>1
      <4>4. CASE table = "trades"
        <5>1. k - 1 = i - 1
          BY <4>1, <4>4 DEF InPlace
        <5> QED
          BY <1>6, <2>3, <4>2, <5>1
      <4> QED
        BY <4>3, <4>4
    <3>2. ASSUME NEW m \in 1 .. Len(u), n = t, k = i PROVE m \in kept
      BY <1>4, <2>1, <3>2
    <3> QED
      BY <3>1, <3>2
  <2> HIDE DEF keep, keepOld, kept
  <2>8. Selected(new, keep) = Selected(old, keepOld) \o Selected(u, kept)
    BY <1>1, <1>4, <1>5, <2>2, PartsJoined
  <2>9. IsSequence(Selected(old, keepOld))
    BY <1>4, <1>5, <2>2, PartsJoined
  <2>10. CASE n = t /\ k = i
    <3>1. Selected(u, kept) = u
      BY <2>1, <2>7, <2>10, SelectedAll
    <3>2. Selected(old, keepOld) = << >>
      BY <2>4, <2>5, <2>10
    <3>3. << >> \o u = u
      BY <2>1
    <3>4. Selected(new, keep) = u
      BY <2>8, <3>1, <3>2, <3>3, Zenon
    <3>5. Selected(new, keep) = Made(table, n, k)
      BY <1>3, <2>10, <3>4 DEF u
    <3> QED
      BY <2>5, <2>10, <3>5 DEF keep
  <2>11. CASE ~(n = t /\ k = i)
    <3>1. Selected(u, kept) = << >>
      BY <2>1, <2>7, <2>11, SelectedNone
    <3>2. Selected(old, keepOld) \o << >> = Selected(old, keepOld)
      BY <2>9, NothingAfter
    <3>3. Selected(new, keep) = Selected(old, keepOld)
      BY <2>8, <3>1, <3>2, Zenon
    <3> QED
      BY <2>4, <2>6, <2>11, <3>3 DEF keep
  <2> QED
    BY <2>10, <2>11
<1>10. ASSUME NEW n \in DOMAIN Txs, NEW k \in DOMAIN Txs[n].ops
       PROVE  (OfPlace(table, n, k) = IF Txs[n].ok /\ WalkedAt(p, n, k)
                                      THEN Made(table, n, k) ELSE << >>)'
  <2>1. Made(table, n, k)' = Made(table, n, k)
    BY <1>2 DEF Made, EffectsMade, TradesMade, ClaimRows
  <2> QED
    BY <1>2, <1>9, <2>1 DEF OfPlace, new
<1> QED
  BY <1>2, <1>7, <1>8, <1>10 DEF PlacesInv, new

LEMMA PlacesNext ==
    ASSUME IInv, NEW table \in {"effects", "trades"}, NEW p \in 3 .. 4, table = TableOrder[p],
           PlacesInv(table, p), [Next]_vars
    PROVE  PlacesInv(table, p)'
<1>1. Txs' = Txs
  BY Progress DEF Txs
<1>2. CASE ~AddOperation(table)
  <2>1. rows'[table] = rows[table]
    BY <1>2, OnlyAddOperation
  <2>2. ASSUME NEW n \in DOMAIN Txs, NEW k \in DOMAIN Txs[n].ops, Txs[n].ok
        PROVE  WalkedAt(p, n, k)' <=> WalkedAt(p, n, k)
    <3>1. CASE turn >= p
      <4>1. p \in 3 .. 5
        OBVIOUS
      <4> QED
        BY <1>2, <2>2, <3>1, <4>1, NonePassed
    <3>2. CASE turn < p
      <4>1. n \in Nat /\ k \in Nat /\ n >= 1 /\ k >= 1
        BY LedgerShape DEF IInv, Types
      <4>2. /\ turn \in 1 .. 9
            /\ \/ turn' = turn + 1 /\ t' = 1 /\ i' = 1
               \/ turn' = turn
        BY Progress
      <4>3. ~WalkedAt(p, n, k) /\ ~WalkedAt(p, n, k)'
        BY <3>2, <4>1, <4>2 DEF WalkedAt, Before
      <4> QED
        BY <4>3
    <3> QED
      BY <3>1, <3>2 DEF IInv, Types
  <2>3. ASSUME NEW n \in DOMAIN Txs, NEW k \in DOMAIN Txs[n].ops
        PROVE  (OfPlace(table, n, k) = IF Txs[n].ok /\ WalkedAt(p, n, k)
                                       THEN Made(table, n, k) ELSE << >>)'
    <3>1. OfPlace(table, n, k)' = OfPlace(table, n, k)
      BY <2>1 DEF OfPlace
    <3>2. Made(table, n, k)' = Made(table, n, k)
      BY <1>1 DEF Made, EffectsMade, TradesMade, ClaimRows
    <3>3. OfPlace(table, n, k) = IF Txs[n].ok /\ WalkedAt(p, n, k)
                                 THEN Made(table, n, k) ELSE << >>
      BY DEF PlacesInv
    <3> QED
      BY <1>1, <2>2, <3>1, <3>2, <3>3
  <2> QED
    BY <1>1, <2>1, <2>3 DEF PlacesInv
<1> QED
  BY <1>2, PlacesAdded

LEMMA InitPlaces ==
    ASSUME Init, NEW table \in {"effects", "trades"}, NEW p \in 3 .. 4
    PROVE  PlacesInv(table, p)
<1>1. rows[table] = << >> /\ Len(<< >>) = 0
  BY TableNames DEF Init
<1>2. ASSUME NEW n \in DOMAIN Txs, NEW k \in DOMAIN Txs[n].ops
      PROVE  OfPlace(table, n, k) = << >> /\ ~WalkedAt(p, n, k)
  <2>1. OfPlace(table, n, k) = << >>
    BY <1>1, SelectedEmpty DEF OfPlace
  <2>2. turn = 1
    BY DEF Init
  <2> QED
    BY <2>1, <2>2 DEF WalkedAt
<1> QED
  BY <1>1, <1>2, SmallSequences DEF PlacesInv

\* What an operation makes in the one table tells of what it makes in the other.
LEMMA MadeTells ==
    ASSUME ledger \in Ledgers, NEW n \in DOMAIN Txs, NEW k \in DOMAIN Txs[n].ops
    PROVE  /\ IsSequence(TradesMade(n, k))
           /\ Tells(EffectsMade(n, k), TradesMade(n, k), Txs[n].ops[k].changes # << >>)
<1> DEFINE op == Txs[n].ops[k]
<1>1. /\ op \in Operations /\ WellFormed(op) /\ DOMAIN op.claims = 1 .. Len(op.claims)
      /\ NameClaims(ClaimRows(n, k), op)
  BY ClaimRowsAre
<1>2. Alike(EffectsOf(op), EffectsMade(n, k))
  BY EffectsMadeAre
<1>3. TradesMade(n, k) = IF Trading(op) THEN Selected(ClaimRows(n, k), MovedClaims(op)) ELSE << >>
  BY DEF TradesMade, Trading
<1> HIDE DEF op
<1>4. PICK R, keep, told : R = ClaimRows(n, k) /\ keep = MovedClaims(op) /\ told = (op.changes # << >>)
  OBVIOUS
<1>5. \A m \in 1 .. Len(R) : m \in keep <=> MovesAny(op.claims[m])
  BY <1>1, <1>4 DEF MovedClaims, MovesAny, NameClaims
<1>6. PICK u : u = TradesMade(n, k)
  OBVIOUS
<1>7. CASE Trading(op)
  <2>1. IsSequence(Selected(R, keep)) /\ Tells(EffectsOf(op), Selected(R, keep), told)
    BY <1>1, <1>4, <1>5, <1>7, EffectsTold
  <2>2. IsSequence(u) /\ Tells(EffectsOf(op), u, told)
    BY <1>3, <1>4, <1>6, <1>7, <2>1
  <2>3. Tells(EffectsMade(n, k), u, told)
    BY <1>2, <2>2, TellsAlike
  <2> QED
    BY <1>4, <1>6, <2>2, <2>3 DEF op
<1>8. CASE ~Trading(op)
  <2>1. Tells(EffectsOf(op), << >>, told)
    BY <1>1, <1>4, <1>8, EffectsTold
  <2>2. IsSequence(u) /\ Tells(EffectsOf(op), u, told)
    BY <1>3, <1>6, <1>8, <2>1, SmallSequences
  <2>3. Tells(EffectsMade(n, k), u, told)
    BY <1>2, <2>2, TellsAlike
  <2> QED
    BY <1>4, <1>6, <2>2, <2>3 DEF op
<1> QED
  BY <1>7, <1>8

LEMMA PlacesMatch ==
    ASSUME IInv, PlacesInv("effects", 3), PlacesInv("trades", 4)
    PROVE  TradesMatchEffects
<1> SUFFICES ASSUME Finished("trades"), NEW n \in DOMAIN Txs, NEW k \in DOMAIN Txs[n].ops
             PROVE  LET trades == Where(rows["trades"], LAMBDA r : r.hash = n /\ r.op = k - 1)
                        book   == Where(trades, LAMBDA r : r.type # "liquidity_pool")
                        of(type) == Where(RowsOfOp("effects", n, k), LAMBDA r : r.type = type)
                    IN  /\ Len(of("trade")) = 2 * Len(book)
                        /\ \A j \in DOMAIN book : of("trade")[2 * j].address = book[j].seller
                        /\ Len(of("liquidity_pool_trade")) <= Len(trades) - Len(book)
                        /\ Txs[n].ops[k].changes # << >>
                           => Len(of("liquidity_pool_trade")) = Len(trades) - Len(book)
  BY DEF TradesMatchEffects
<1>1. turn > 4 /\ WalkedAt(3, n, k) /\ WalkedAt(4, n, k)
  <2>1. turn > 4
    BY DEF Finished, TableOrder
  <2> QED
    BY <2>1 DEF WalkedAt, IInv, Types
<1>2. PICK x, u, told : /\ x = OfPlace("effects", n, k) /\ u = OfPlace("trades", n, k)
                        /\ told = (Txs[n].ops[k].changes # << >>)
  OBVIOUS
<1>3. RowsOfOp("effects", n, k) = x
  <2>1. {m \in DOMAIN rows["effects"] : InPlace("effects", rows["effects"][m], n, k)}
           = {m \in DOMAIN rows["effects"] : rows["effects"][m].hash = n
                                             /\ rows["effects"][m].operation = << n, k >>}
    BY DEF InPlace
  <2> QED
    BY <1>2, <2>1 DEF RowsOfOp, Where, OfPlace
<1>4. Where(rows["trades"], LAMBDA r : r.hash = n /\ r.op = k - 1) = u
  <2>1. {m \in DOMAIN rows["trades"] : InPlace("trades", rows["trades"][m], n, k)}
           = {m \in DOMAIN rows["trades"] : rows["trades"][m].hash = n
                                            /\ rows["trades"][m].op = k - 1}
    BY DEF InPlace
  <2> QED
    BY <1>2, <2>1 DEF Where, OfPlace
<1>5. IsSequence(u) /\ Tells(x, u, told)
  <2>1. CASE Txs[n].ok
    <3>1. x = EffectsMade(n, k) /\ u = TradesMade(n, k)
      BY <1>1, <1>2, <2>1 DEF PlacesInv, Made
    <3> QED
      BY <1>2, <3>1, MadeTells DEF IInv, Types
  <2>2. CASE ~Txs[n].ok
    <3>1. x = << >> /\ u = << >>
      BY <1>2, <2>2 DEF PlacesInv
    <3> QED
      BY <3>1, SmallSequences, PlainOnes, PlainTells
  <2> QED
    BY <2>1, <2>2
<1>6. Where(u, LAMBDA r : r.type # "liquidity_pool") = Booked(u)
  BY DEF Where, Booked
<1>7. \A type : Where(x, LAMBDA r : r.type = type) = OfType(x, type)
  BY DEF Where, OfType
<1>8. DOMAIN Booked(u) = 1 .. Len(Booked(u))
  BY <1>5, BookedJoined, OwnElements DEF IsSequence
<1> QED
  BY <1>2, <1>3, <1>4, <1>5, <1>6, <1>7, <1>8 DEF Tells

\* The trades table and the effects table tell of the same claims, for every
\* ledger, every list of claims and every list of changes.
THEOREM Trades == Spec => []TradesMatchEffects
<1>1. IInv /\ IInv' /\ PlacesInv("effects", 3) /\ PlacesInv("trades", 4) /\ [Next]_vars
      => PlacesInv("effects", 3)' /\ PlacesInv("trades", 4)'
  <2>1. TableOrder[3] = "effects" /\ TableOrder[4] = "trades"
    BY DEF TableOrder
  <2> QED
    BY <2>1, PlacesNext
<1>2. Init => PlacesInv("effects", 3) /\ PlacesInv("trades", 4)
  BY InitPlaces
<1> QED
  BY <1>1, <1>2, PlacesMatch, Invariance, PTL DEF Spec

-----------------------------------------------------------------------------
(* Operation ids.                                                           *)

LEMMA PlacesJoin ==
    ASSUME IInv, PlacesInv("effects", 3), TransferRowsInv
    PROVE  OperationIDsJoin
<1> SUFFICES ASSUME Finished("operations"),
                    NEW r \in ToSet(rows["effects"]) \cup
                              {x \in ToSet(rows["token_transfers"]) : x.operation # NoEntry}
             PROVE  \E o \in ToSet(rows["operations"]) :
                       o.id = r.operation /\ o.hash = r.hash /\ o.ok
  BY DEF OperationIDsJoin
<1>1. turn > 2
  BY DEF Finished, TableOrder
<1>2. PICK n \in DOMAIN Txs : \E k \in DOMAIN Txs[n].ops :
         Txs[n].ok /\ r.hash = n /\ r.operation = << n, k >>
  <2>1. CASE r \in ToSet(rows["effects"])
    <3>1. PICK m \in 1 .. Len(rows["effects"]) : r = rows["effects"][m]
      BY <2>1, OwnElements DEF PlacesInv, IsSequence, ToSet
    <3> QED
      BY <3>1 DEF PlacesInv, InPlace
  <2>2. CASE r \in ToSet(rows["token_transfers"]) /\ r.operation # NoEntry
    <3>1. PICK m \in 1 .. Len(rows["token_transfers"]) : r = rows["token_transfers"][m]
      BY <2>2, OwnElements DEF TransferRowsInv, IsSequence, ToSet
    <3> QED
      BY <2>2, <3>1 DEF TransferRowsInv, TransferNames
  <2> QED
    BY <2>1, <2>2
<1>3. PICK k \in DOMAIN Txs[n].ops : Txs[n].ok /\ r.hash = n /\ r.operation = << n, k >>
  BY <1>2
<1>4. Walked(n, k)
  BY <1>1 DEF Walked
<1>5. PICK m \in 1 .. Len(rows["operations"]) :
         rows["operations"][m].hash = n /\ rows["operations"][m].index = k - 1
  BY <1>4 DEF IInv, OperationRowsInv
<1>6. TellsOf(rows["operations"][m])
  BY DEF IInv, OperationRowsInv
<1>7. rows["operations"][m].index + 1 = k
  BY <1>5, PlaceTyped
<1>8. rows["operations"][m].id = << n, k >> /\ rows["operations"][m].ok
  BY <1>3, <1>5, <1>6, <1>7 DEF TellsOf
<1>9. rows["operations"][m] \in ToSet(rows["operations"])
  <2>1. DOMAIN rows["operations"] = 1 .. Len(rows["operations"])
    BY OwnElements DEF IInv, Types
  <2> QED
    BY <2>1 DEF ToSet
<1> QED
  BY <1>3, <1>5, <1>8, <1>9

\* Every effect row and every token-transfer row of an operation joins with a row
\* of the operations table: the ids made from tx.Index and by the SDK are those
\* made from the counter, for every ledger.
THEOREM IDsJoin == Spec => []OperationIDsJoin
<1>1. IInv /\ IInv' /\ PlacesInv("effects", 3) /\ TransferRowsInv /\ [Next]_vars
      => PlacesInv("effects", 3)' /\ TransferRowsInv'
  <2>1. TableOrder[3] = "effects"
    BY DEF TableOrder
  <2> QED
    BY <2>1, PlacesNext, TransfersNext
<1>2. Init => PlacesInv("effects", 3) /\ TransferRowsInv
  BY InitPlaces, InitTransfers
<1> QED
  BY <1>1, <1>2, PlacesJoin, Invariance, PTL DEF Spec
=============================================================================
