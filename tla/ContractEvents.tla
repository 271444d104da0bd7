--------------------------- MODULE ContractEvents ---------------------------
(***************************************************************************)
(* The two walks that produce contract-event rows (soroban.go):            *)
(* ExtractContractEvents over parsed transactions, "parsed", and           *)
(* ExtractContractEventsView over borrowed transaction views, "view".      *)
(*                                                                         *)
(* A transaction carries three kinds of event lists, walked in the order   *)
(* diagnostic, one per operation, transaction-level: txs[i].lists.  The    *)
(* hash of a transaction, unique in its ledger, is its position i; the     *)
(* TransactionID is the transaction order inside the TOID.                 *)
(***************************************************************************)
EXTENDS Integers, Sequences

CONSTANT Ledgers  \* the ledgers considered: sequences of transactions

EventList == [stream : {"diagnostic", "operation", "transaction"},
              op : Nat, n : Nat]
Tx        == [readable : BOOLEAN, lists : Seq(EventList)]

ASSUME LedgersAssumption == Ledgers \subseteq Seq(Tx)

Walks == {"parsed", "view"}

VARIABLES txs,         \* the ledger; never assigned
          status,      \* per walk: "start", "walking", "done" or "failed"
          cursor,      \* the transaction of the range loop
          txIndex,     \* ExtractContractEvents: the counter beside the loop
          txID,        \* TransactionID given to the rows of this transaction
          list, pos,   \* the event list, and the next event in it
          eventIndex,
          rows

vars == << txs, status, cursor, txIndex, txID, list, pos, eventIndex, rows >>

EventRow ==
    [hash : Nat, txID : Nat, stream : {"diagnostic", "operation", "transaction"},
     op : Nat, index : Nat]

Init ==
    /\ txs \in Ledgers
    /\ status = [w \in Walks |-> "start"]
    /\ cursor = [w \in Walks |-> 0]
    /\ txIndex = [w \in Walks |-> 1]
    /\ txID = [w \in Walks |-> 0]
    /\ list = [w \in Walks |-> 1]
    /\ pos = [w \in Walks |-> 1]
    /\ eventIndex = [w \in Walks |-> 0]
    /\ rows = [w \in Walks |-> << >>]

\* input.Transactions() succeeded, or transactionViews() did.  What the SDK's
\* view walk makes of a transaction whose events it cannot present is open:
\* it fails the ledger, or presents the transaction without events.
Open(w) ==
    /\ status[w] = "start"
    /\ \/ status' = [status EXCEPT ![w] = "walking"]
       \/ /\ w = "view"
          /\ \E i \in DOMAIN txs : ~txs[i].readable
          /\ status' = [status EXCEPT ![w] = "failed"]
    /\ UNCHANGED << txs, cursor, txIndex, txID, list, pos, eventIndex, rows >>

\* The lists a walk sees of the transaction it is at: none where it skips it
\* ("if err != nil { continue }") or the view has none.
ListsAt(w) ==
    IF cursor[w] \in DOMAIN txs /\ txs[cursor[w]].readable
    THEN txs[cursor[w]].lists
    ELSE << >>

AtEndOfTx(w) == list[w] > Len(ListsAt(w))

\* Mutation: the counter is advanced after the "continue", not before it.
NextTxLateCount(w) ==
    /\ status[w] = "walking"
    /\ AtEndOfTx(w)
    /\ cursor[w] < Len(txs)
    /\ cursor' = [cursor EXCEPT ![w] = @ + 1]
    /\ txID' = [txID EXCEPT ![w] = IF w = "parsed" THEN txIndex[w]
                                   ELSE cursor[w] + 1]
    /\ txIndex' = [txIndex EXCEPT ![w] =
                      IF txs[cursor[w] + 1].readable THEN @ + 1 ELSE @]
    /\ list' = [list EXCEPT ![w] = 1]
    /\ pos' = [pos EXCEPT ![w] = 1]
    /\ eventIndex' = [eventIndex EXCEPT ![w] = 0]
    /\ UNCHANGED << txs, status, rows >>

\* Mutation: one event counter for the whole ledger in the view walk.
NextTxKeepsIndex(w) ==
    /\ status[w] = "walking"
    /\ AtEndOfTx(w)
    /\ cursor[w] < Len(txs)
    /\ cursor' = [cursor EXCEPT ![w] = @ + 1]
    /\ txID' = [txID EXCEPT ![w] = cursor[w] + 1]
    /\ txIndex' = [txIndex EXCEPT ![w] = @ + 1]
    /\ list' = [list EXCEPT ![w] = 1]
    /\ pos' = [pos EXCEPT ![w] = 1]
    /\ eventIndex' = [eventIndex EXCEPT ![w] = IF w = "view" THEN @ ELSE 0]
    /\ UNCHANGED << txs, status, rows >>

\* The next iteration of the range loop over transactions.
NextTx(w) ==
    /\ status[w] = "walking"
    /\ AtEndOfTx(w)
    /\ cursor[w] < Len(txs)
    /\ cursor' = [cursor EXCEPT ![w] = @ + 1]
    /\ txID' = [txID EXCEPT ![w] = IF w = "parsed" THEN txIndex[w]
                                   ELSE cursor[w] + 1]
    /\ txIndex' = [txIndex EXCEPT ![w] = @ + 1]
    /\ list' = [list EXCEPT ![w] = 1]
    /\ pos' = [pos EXCEPT ![w] = 1]
    /\ eventIndex' = [eventIndex EXCEPT ![w] = 0]
    /\ UNCHANGED << txs, status, rows >>

\* Mutation: every list numbers its events from zero, as it once did.
NextListRestarts(w) ==
    /\ status[w] = "walking"
    /\ ~AtEndOfTx(w)
    /\ pos[w] > ListsAt(w)[list[w]].n
    /\ list' = [list EXCEPT ![w] = @ + 1]
    /\ pos' = [pos EXCEPT ![w] = 1]
    /\ eventIndex' = [eventIndex EXCEPT ![w] = 0]
    /\ UNCHANGED << txs, status, cursor, txIndex, txID, rows >>

NextList(w) ==
    /\ status[w] = "walking"
    /\ ~AtEndOfTx(w)
    /\ pos[w] > ListsAt(w)[list[w]].n
    /\ list' = [list EXCEPT ![w] = @ + 1]
    /\ pos' = [pos EXCEPT ![w] = 1]
    /\ UNCHANGED << txs, status, cursor, txIndex, txID, eventIndex, rows >>

\* Mutation: the index is read from the counter of the previous event.
RowAtPrevious(w) ==
    [hash |-> cursor[w], txID |-> txID[w],
     stream |-> ListsAt(w)[list[w]].stream, op |-> ListsAt(w)[list[w]].op,
     index |-> eventIndex[w] - 1]

RowAt(w) ==
    [hash |-> cursor[w], txID |-> txID[w],
     stream |-> ListsAt(w)[list[w]].stream, op |-> ListsAt(w)[list[w]].op,
     index |-> eventIndex[w]]

\* extractDiagnosticEvent or extractContractEvent on one event.
Emit(w) ==
    /\ status[w] = "walking"
    /\ ~AtEndOfTx(w)
    /\ pos[w] <= ListsAt(w)[list[w]].n
    /\ rows' = [rows EXCEPT ![w] = Append(@, RowAt(w))]
    /\ eventIndex' = [eventIndex EXCEPT ![w] = @ + 1]
    /\ pos' = [pos EXCEPT ![w] = @ + 1]
    /\ UNCHANGED << txs, status, cursor, txIndex, txID, list >>

\* Mutation: the rows so far are returned beside the error.
EventUndecodableKeepsRows(w) ==
    /\ w = "view"
    /\ status[w] = "walking"
    /\ ~AtEndOfTx(w)
    /\ pos[w] <= ListsAt(w)[list[w]].n
    /\ status' = [status EXCEPT ![w] = "failed"]
    /\ UNCHANGED << txs, cursor, txIndex, txID, list, pos, eventIndex, rows >>

\* The view walk unmarshals each event as it comes to it; one that does not
\* unmarshal fails the call, and the rows so far are dropped.
EventUndecodable(w) ==
    /\ w = "view"
    /\ status[w] = "walking"
    /\ ~AtEndOfTx(w)
    /\ pos[w] <= ListsAt(w)[list[w]].n
    /\ status' = [status EXCEPT ![w] = "failed"]
    /\ rows' = [rows EXCEPT ![w] = << >>]
    /\ UNCHANGED << txs, cursor, txIndex, txID, list, pos, eventIndex >>

Finish(w) ==
    /\ status[w] = "walking"
    /\ AtEndOfTx(w)
    /\ cursor[w] = Len(txs)
    /\ status' = [status EXCEPT ![w] = "done"]
    /\ UNCHANGED << txs, cursor, txIndex, txID, list, pos, eventIndex, rows >>

Walk(w) ==
    \/ Open(w)
    \/ NextTx(w)
    \/ NextList(w)
    \/ Emit(w)
    \/ EventUndecodable(w)
    \/ Finish(w)

Terminated ==
    /\ \A w \in Walks : status[w] \in {"done", "failed"}
    /\ UNCHANGED vars

Next == Terminated \/ \E w \in Walks : Walk(w)

Spec == Init /\ [][Next]_vars

-----------------------------------------------------------------------------

TypeOK ==
    /\ txs \in Ledgers
    /\ status \in [Walks -> {"start", "walking", "done", "failed"}]
    /\ cursor \in [Walks -> 0 .. Len(txs)]
    /\ txIndex \in [Walks -> Nat]
    /\ txID \in [Walks -> Nat]
    /\ list \in [Walks -> Nat \ {0}]
    /\ pos \in [Walks -> Nat \ {0}]
    /\ eventIndex \in [Walks -> Nat]
    /\ rows \in [Walks -> Seq(EventRow)]

Before(r, q) ==
    \/ r.hash < q.hash
    \/ r.hash = q.hash /\ r.index < q.index

\* (transaction_hash, event_index) is a key across the three streams, and the
\* rows come out in its order (README.md:213, soroban.go:235-241).
EventKeysIncrease ==
    \A w \in Walks : \A i, j \in DOMAIN rows[w] :
        i < j => Before(rows[w][i], rows[w][j])

\* Within a transaction the index counts from 0 without a gap, so that the
\* highest index tells a consumer how many rows to expect.
EventIndexDense ==
    \A w \in Walks : \A i \in DOMAIN rows[w] :
        rows[w][i].index > 0 =>
            /\ i > 1
            /\ rows[w][i - 1].hash = rows[w][i].hash
            /\ rows[w][i - 1].index = rows[w][i].index - 1

\* An event's TransactionID names the transaction of its hash, although two
\* loops beside transactions.go count it and one of them skips transactions
\* (contract_event_transaction_id_test.go:3).
TransactionIDNamesItsTransaction ==
    \A w \in Walks : \A i \in DOMAIN rows[w] :
        rows[w][i].txID = rows[w][i].hash

\* Strengthening of the three: how far the counters are while a walk runs.
WalkCounters(w) ==
    /\ txIndex[w] = cursor[w] + 1
    /\ cursor[w] > 0 => txID[w] = cursor[w]
    /\ \A i \in DOMAIN rows[w] :
          /\ rows[w][i].hash <= cursor[w]
          /\ rows[w][i].hash = cursor[w] => rows[w][i].index < eventIndex[w]
    /\ eventIndex[w] > 0 /\ status[w] # "failed" =>
          /\ Len(rows[w]) > 0
          /\ rows[w][Len(rows[w])].hash = cursor[w]
          /\ rows[w][Len(rows[w])].index = eventIndex[w] - 1

CounterInv == \A w \in Walks : WalkCounters(w)

Inv ==
    /\ TypeOK
    /\ CounterInv
    /\ EventKeysIncrease
    /\ EventIndexDense
    /\ TransactionIDNamesItsTransaction

\* A view walk that succeeds yields the rows of the parsed walk; one that
\* fails yields none (docs/VIEW_EXTRACTION.md:71).
ViewParity ==
    /\ status["view"] = "done" /\ status["parsed"] = "done"
           => rows["view"] = rows["parsed"]
    /\ status["view"] = "failed" => rows["view"] = << >>
=============================================================================
