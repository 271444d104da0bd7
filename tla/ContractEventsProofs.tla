------------------------ MODULE ContractEventsProofs ------------------------
(***************************************************************************)
(* The identity of contract-event rows, and the agreement of both walks,   *)
(* for every ledger: any number of transactions, any number and kind of    *)
(* event lists of any length, any of them unreadable.                      *)
(***************************************************************************)
EXTENDS ContractEvents, SelectionProofs

\* What a step leaves behind, as far as the invariant sees it: the cursor
\* moves on, a row is appended, or the rows are dropped.
LEMMA StepCases ==
    ASSUME TypeOK, [Next]_vars
    PROVE  \/ \E w \in Walks : Open(w) \/ Finish(w) \/ NextList(w)
           \/ \E w \in Walks : NextTx(w)
           \/ \E w \in Walks : Emit(w)
           \/ \E w \in Walks : EventUndecodable(w)
           \/ UNCHANGED vars
  BY DEF Next, Walk, Terminated

\* Types are preserved; a row is emitted only inside a transaction.
LEMMA TypeStep ==
    ASSUME TypeOK, [Next]_vars
    PROVE  TypeOK'
<1> USE DEF TypeOK
<1>0. txs \in Seq(Tx) /\ Len(txs) \in Nat /\ DOMAIN txs = 1 .. Len(txs)
  BY LedgersAssumption
<1>1. ASSUME NEW w \in Walks, Open(w) \/ Finish(w) \/ NextList(w)
      PROVE  TypeOK'
  <2>1. CASE Open(w)
    BY <2>1 DEF Open
  <2>2. CASE Finish(w)
    BY <2>2 DEF Finish
  <2>3. CASE NextList(w)
    BY <2>3 DEF NextList
  <2> QED
    BY <1>1, <2>1, <2>2, <2>3
<1>2. ASSUME NEW w \in Walks, NextTx(w)
      PROVE  TypeOK'
  <2>1. /\ txs' = txs /\ status' = status /\ rows' = rows
        /\ cursor' = [cursor EXCEPT ![w] = cursor[w] + 1]
        /\ cursor[w] < Len(txs) /\ cursor[w] \in 0 .. Len(txs)
    BY <1>2 DEF NextTx
  <2>2. cursor' \in [Walks -> 0 .. Len(txs)]
    BY <1>0, <2>1
  <2>3. cursor[w] + 1 \in Nat /\ txIndex[w] + 1 \in Nat
    <3>1. cursor[w] \in Nat /\ txIndex[w] \in Nat
      BY <1>0, <2>1
    <3> QED
      BY <3>1
  <2>4. txID' \in [Walks -> Nat]
    BY <1>2, <2>3 DEF NextTx
  <2>5. /\ txIndex' \in [Walks -> Nat]
        /\ list' \in [Walks -> Nat \ {0}]
        /\ pos' \in [Walks -> Nat \ {0}]
        /\ eventIndex' \in [Walks -> Nat]
    BY <1>2, <2>3 DEF NextTx
  <2> QED
    BY <2>1, <2>2, <2>4, <2>5
<1>3. ASSUME NEW w \in Walks, Emit(w)
      PROVE  TypeOK'
  <2>1. list[w] \in DOMAIN ListsAt(w) /\ ListsAt(w) \in Seq(EventList)
    <3>1. list[w] \in Nat \ {0} /\ ~(list[w] > Len(ListsAt(w)))
      BY <1>3 DEF Emit, AtEndOfTx
    <3>2. cursor[w] \in DOMAIN txs
      BY <3>1 DEF ListsAt
    <3>3. txs[cursor[w]] \in Tx
      BY <1>0, <3>2
    <3>4. ListsAt(w) \in Seq(EventList)
      BY <3>3 DEF ListsAt, Tx
    <3> QED
      BY <3>1, <3>4
  <2>2. ListsAt(w)[list[w]] \in EventList
    BY <2>1
  <2>3. RowAt(w) \in EventRow
    BY <2>2 DEF RowAt, EventRow, EventList
  <2> QED
    BY <1>3, <2>3 DEF Emit
<1>4. ASSUME NEW w \in Walks, EventUndecodable(w)
      PROVE  TypeOK'
  BY <1>4 DEF EventUndecodable
<1>5. CASE UNCHANGED vars
  BY <1>5 DEF vars
<1> QED
  BY <1>1, <1>2, <1>3, <1>4, <1>5, StepCases

\* A row is appended after the rows of earlier transactions and after the
\* rows of its own transaction with smaller indices.
LEMMA EmitStep ==
    ASSUME Inv, TypeOK', NEW w \in Walks, Emit(w)
    PROVE  Inv'
<1> DEFINE R == rows[w]
           r == RowAt(w)
<1>1. cursor[w] > 0
  BY LedgersAssumption DEF Inv, TypeOK, Emit, AtEndOfTx, ListsAt
<1>2. /\ r.hash = cursor[w]
      /\ r.index = eventIndex[w]
      /\ r.txID = cursor[w]
  BY <1>1 DEF RowAt, Inv, CounterInv, WalkCounters
<1>3. /\ rows' = [rows EXCEPT ![w] = Append(R, r)]
      /\ eventIndex' = [eventIndex EXCEPT ![w] = eventIndex[w] + 1]
      /\ cursor' = cursor /\ txIndex' = txIndex /\ txID' = txID
      /\ status' = status /\ status[w] = "walking"
  BY DEF Emit
<1>4. /\ R \in Seq(EventRow)
      /\ eventIndex[w] \in Nat /\ cursor[w] \in Nat
      /\ \A v \in Walks : rows[v] \in Seq(EventRow)
      /\ \A v \in Walks : rows'[v] = IF v = w THEN Append(R, r) ELSE rows[v]
  BY <1>3, LedgersAssumption DEF Inv, TypeOK
<1>5. r \in EventRow
  <2>1. rows'[w] \in Seq(EventRow) /\ rows'[w] = Append(R, r)
    BY <1>4 DEF TypeOK
  <2>2. Len(R) + 1 \in DOMAIN Append(R, r) /\ Append(R, r)[Len(R) + 1] = r
    BY <1>4
  <2> QED
    BY <2>1, <2>2
<1>6. /\ Len(Append(R, r)) = Len(R) + 1
      /\ \A i \in 1 .. Len(R) : Append(R, r)[i] = R[i]
      /\ Append(R, r)[Len(R) + 1] = r
      /\ DOMAIN R = 1 .. Len(R) /\ Len(R) \in Nat
      /\ DOMAIN Append(R, r) = 1 .. (Len(R) + 1)
  BY <1>4, <1>5
<1>12. rows'[w] = Append(R, r) /\ DOMAIN rows'[w] = 1 .. (Len(R) + 1)
  BY <1>4, <1>6
<1>13. \A i \in 1 .. Len(R) : rows'[w][i] = R[i]
  BY <1>6, <1>12
<1>14. rows'[w][Len(R) + 1] = r
  BY <1>6, <1>12
<1>7. \A i \in 1 .. Len(R) :
          /\ R[i].hash \in Nat /\ R[i].index \in Nat
          /\ R[i].hash <= cursor[w]
          /\ R[i].hash = cursor[w] => R[i].index < eventIndex[w]
  <2> TAKE i \in 1 .. Len(R)
  <2>1. R[i] \in EventRow
    BY <1>4
  <2> QED
    BY <1>6, <2>1 DEF EventRow, Inv, CounterInv, WalkCounters
<1>8. CounterInv'
  <2> SUFFICES ASSUME NEW v \in Walks
               PROVE  WalkCounters(v)'
    BY DEF CounterInv
  <2>1. WalkCounters(v)
    BY DEF Inv, CounterInv
  <2>2. CASE v # w
    <3>1. rows'[v] = rows[v] /\ eventIndex'[v] = eventIndex[v]
      BY <1>3, <1>4, <2>2 DEF Inv, TypeOK
    <3> QED
      BY <1>3, <2>1, <3>1 DEF WalkCounters
  <2>3. CASE v = w
    <3>1. rows'[w] = Append(R, r) /\ eventIndex'[w] = eventIndex[w] + 1
      BY <1>3, <1>4 DEF Inv, TypeOK
    <3>2. \A i \in DOMAIN rows'[w] :
              /\ rows'[w][i].hash <= cursor[w]
              /\ rows'[w][i].hash = cursor[w] =>
                    rows'[w][i].index < eventIndex'[w]
      <4> SUFFICES ASSUME NEW i \in 1 .. Len(R) + 1
                   PROVE  /\ Append(R, r)[i].hash <= cursor[w]
                          /\ Append(R, r)[i].hash = cursor[w] =>
                                Append(R, r)[i].index < eventIndex[w] + 1
        BY <1>6, <3>1
      <4>1. CASE i = Len(R) + 1
        BY <1>2, <1>4, <1>6, <4>1
      <4>2. CASE i # Len(R) + 1
        <5>1. i \in 1 .. Len(R)
          BY <1>6, <4>2
        <5> QED
          BY <1>4, <1>6, <1>7, <5>1
      <4> QED
        BY <4>1, <4>2
    <3>3. /\ Len(rows'[w]) > 0
          /\ rows'[w][Len(rows'[w])].hash = cursor[w]
          /\ rows'[w][Len(rows'[w])].index = eventIndex'[w] - 1
      BY <1>2, <1>4, <1>6, <3>1
    <3> QED
      BY <1>3, <2>1, <2>3, <3>2, <3>3 DEF WalkCounters
  <2> QED
    BY <2>2, <2>3
<1>9. EventKeysIncrease'
  <2> SUFFICES ASSUME NEW v \in Walks,
                      NEW i \in DOMAIN rows'[v], NEW j \in DOMAIN rows'[v],
                      i < j
               PROVE  Before(rows'[v][i], rows'[v][j])
    BY DEF EventKeysIncrease
  <2>1. CASE v # w
    BY <1>4, <2>1 DEF Inv, EventKeysIncrease
  <2>2. CASE v = w
    <3>0. i \in 1 .. (Len(R) + 1) /\ j \in 1 .. (Len(R) + 1)
      <4>1. i \in DOMAIN rows'[w] /\ j \in DOMAIN rows'[w]
        BY <2>2
      <4> QED
        BY <1>12, <4>1
    <3>1. i \in 1 .. Len(R)
      BY <1>6, <3>0
    <3>2. CASE j = Len(R) + 1
      <4>1. rows'[v][i] = R[i] /\ rows'[v][j] = r
        BY <1>13, <1>14, <2>2, <3>1, <3>2
      <4>2. /\ R[i].hash \in Nat /\ R[i].index \in Nat
            /\ R[i].hash <= cursor[w]
            /\ R[i].hash = cursor[w] => R[i].index < eventIndex[w]
        BY <1>7, <3>1
      <4>3. Before(R[i], r)
        BY <1>2, <1>4, <4>2 DEF Before
      <4> QED
        BY <4>1, <4>3
    <3>3. CASE j # Len(R) + 1
      <4>1. j \in 1 .. Len(R)
        BY <1>6, <1>12, <2>2, <3>3
      <4>2. Before(R[i], R[j])
        BY <1>6, <3>1, <4>1 DEF Inv, EventKeysIncrease
      <4> QED
        BY <1>13, <2>2, <3>1, <4>1, <4>2
    <3> QED
      BY <3>2, <3>3
  <2> QED
    BY <2>1, <2>2
<1>10. EventIndexDense'
  <2> SUFFICES ASSUME NEW v \in Walks, NEW i \in DOMAIN rows'[v],
                      rows'[v][i].index > 0
               PROVE  /\ i > 1
                      /\ rows'[v][i - 1].hash = rows'[v][i].hash
                      /\ rows'[v][i - 1].index = rows'[v][i].index - 1
    BY DEF EventIndexDense
  <2>1. CASE v # w
    BY <1>4, <2>1 DEF Inv, EventIndexDense
  <2>2. CASE v = w /\ i = Len(R) + 1
    <3>1. /\ Len(R) > 0
          /\ R[Len(R)].hash = cursor[w]
          /\ R[Len(R)].index = eventIndex[w] - 1
      BY <1>2, <1>3, <1>4, <1>6, <2>2 DEF Inv, CounterInv, WalkCounters
    <3>2. i > 1 /\ i - 1 = Len(R)
      BY <1>6, <2>2, <3>1
    <3> QED
      BY <1>2, <1>6, <1>13, <1>14, <2>2, <3>1, <3>2
  <2>3. CASE v = w /\ i # Len(R) + 1
    <3>1. i \in 1 .. Len(R)
      BY <1>6, <1>12, <2>3
    <3>2. /\ i > 1
          /\ R[i - 1].hash = R[i].hash
          /\ R[i - 1].index = R[i].index - 1
      BY <1>6, <1>13, <2>3, <3>1 DEF Inv, EventIndexDense
    <3>3. i - 1 \in 1 .. Len(R)
      BY <1>6, <3>1, <3>2
    <3> QED
      BY <1>13, <2>3, <3>1, <3>2, <3>3
  <2> QED
    BY <2>1, <2>2, <2>3
<1>11. TransactionIDNamesItsTransaction'
  <2> SUFFICES ASSUME NEW v \in Walks, NEW i \in DOMAIN rows'[v]
               PROVE  rows'[v][i].txID = rows'[v][i].hash
    BY DEF TransactionIDNamesItsTransaction
  <2>1. CASE v # w
    BY <1>4, <2>1 DEF Inv, TransactionIDNamesItsTransaction
  <2>2. CASE v = w /\ i = Len(R) + 1
    BY <1>2, <1>14, <2>2
  <2>3. CASE v = w /\ i # Len(R) + 1
    <3>1. i \in 1 .. Len(R)
      BY <1>6, <1>12, <2>3
    <3> QED
      BY <1>6, <1>13, <2>3, <3>1 DEF Inv, TransactionIDNamesItsTransaction
  <2> QED
    BY <2>1, <2>2, <2>3
<1> QED
  BY <1>8, <1>9, <1>10, <1>11 DEF Inv

\* A step that leaves a walk's rows alone, or drops them, and moves its
\* counters the way NextTx does or not at all.
LEMMA CounterStep ==
    ASSUME Inv, TypeOK', NEW w \in Walks,
           Open(w) \/ NextTx(w) \/ NextList(w) \/ Finish(w)
    PROVE  Inv'
<1>1. rows' = rows
  BY DEF Open, NextTx, NextList, Finish
<1>2. /\ EventKeysIncrease'
      /\ EventIndexDense'
      /\ TransactionIDNamesItsTransaction'
  BY <1>1 DEF Inv, EventKeysIncrease, EventIndexDense,
              TransactionIDNamesItsTransaction
<1>3. ASSUME NEW v \in Walks
      PROVE  WalkCounters(v)'
  <2>1. WalkCounters(v)
    BY DEF Inv, CounterInv
  <2>2. CASE Open(w) \/ NextList(w) \/ Finish(w)
    <3>1. /\ txIndex' = txIndex /\ txID' = txID
          /\ cursor' = cursor /\ eventIndex' = eventIndex
      BY <2>2 DEF Open, NextList, Finish
    <3>2. status'[v] # "failed" => status[v] # "failed"
      BY <2>2 DEF Open, NextList, Finish, Inv, TypeOK
    <3> QED
      BY <1>1, <2>1, <3>1, <3>2 DEF WalkCounters
  <2>3. CASE NextTx(w) /\ v # w
    BY <1>1, <2>1, <2>3 DEF NextTx, WalkCounters, Inv, TypeOK
  <2>4. CASE NextTx(w) /\ v = w
    <3>1. /\ cursor'[w] = cursor[w] + 1
          /\ txIndex'[w] = txIndex[w] + 1
          /\ eventIndex'[w] = 0
          /\ txID'[w] = txIndex[w] \/ txID'[w] = cursor[w] + 1
      BY <2>4 DEF NextTx, Inv, TypeOK
    <3>2. cursor[w] \in Nat
      BY LedgersAssumption DEF Inv, TypeOK
    <3>3. \A i \in DOMAIN rows[w] : rows[w][i].hash \in Nat
      <4> SUFFICES ASSUME NEW i \in DOMAIN rows[w]
                   PROVE  rows[w][i].hash \in Nat
        OBVIOUS
      <4>1. rows[w] \in Seq(EventRow)
        BY DEF Inv, TypeOK
      <4>2. rows[w][i] \in EventRow
        BY <4>1
      <4> QED
        BY <4>2 DEF EventRow
    <3> QED
      BY <1>1, <2>1, <2>4, <3>1, <3>2, <3>3 DEF WalkCounters
  <2> QED
    BY <2>2, <2>3, <2>4
<1> QED
  BY <1>2, <1>3 DEF Inv, CounterInv

\* A view walk that gives up has no rows left to be wrong about.
LEMMA FailStep ==
    ASSUME Inv, TypeOK', NEW w \in Walks, EventUndecodable(w)
    PROVE  Inv'
<1>1. /\ txIndex' = txIndex /\ txID' = txID
      /\ cursor' = cursor /\ eventIndex' = eventIndex
  BY DEF EventUndecodable
<1>2. \A v \in Walks :
          \/ v = w /\ rows'[v] = << >> /\ status'[v] = "failed"
          \/ v # w /\ rows'[v] = rows[v] /\ status'[v] = status[v]
  BY DEF EventUndecodable, Inv, TypeOK
<1>3. \A v \in Walks : rows'[v] = rows[v] \/ DOMAIN rows'[v] = {}
  BY <1>2
<1>4. /\ EventKeysIncrease'
      /\ EventIndexDense'
      /\ TransactionIDNamesItsTransaction'
  BY <1>3 DEF Inv, EventKeysIncrease, EventIndexDense,
              TransactionIDNamesItsTransaction
<1>5. CounterInv'
  BY <1>1, <1>2, <1>3 DEF Inv, CounterInv, WalkCounters
<1> QED
  BY <1>4, <1>5 DEF Inv

LEMMA InitCorrect == Init => Inv
<1> SUFFICES ASSUME Init PROVE Inv
  OBVIOUS
<1>1. txs \in Seq(Tx) /\ Len(txs) \in Nat
  BY LedgersAssumption DEF Init
<1>2. TypeOK
  BY <1>1 DEF Init, TypeOK
<1>3. \A w \in Walks : rows[w] = << >> /\ DOMAIN rows[w] = {}
  BY DEF Init
<1>4. CounterInv
  BY <1>3 DEF Init, CounterInv, WalkCounters
<1> QED
  BY <1>2, <1>3, <1>4 DEF Inv, EventKeysIncrease, EventIndexDense,
                          TransactionIDNamesItsTransaction

\* The counters of both walks keep pace with their range loops, and the rows
\* with the counters (ExtractContractEvents, extractContractEventsFromViews).
THEOREM Invariance == Spec => []Inv
<1>1. Inv /\ [Next]_vars => Inv'
  <2> SUFFICES ASSUME Inv, [Next]_vars PROVE Inv'
    OBVIOUS
  <2>1. TypeOK /\ TypeOK'
    BY TypeStep DEF Inv
  <2>2. CASE UNCHANGED vars
    BY <2>2 DEF vars, Inv, TypeOK, CounterInv, WalkCounters,
                EventKeysIncrease, EventIndexDense,
                TransactionIDNamesItsTransaction
  <2> QED
    BY <2>1, <2>2, StepCases, CounterStep, EmitStep, FailStep
<1> QED
  BY InitCorrect, <1>1, PTL DEF Spec

\* The variables of both walks keep their types; the row's index is never
\* negative and its operation never unset (soroban.go:36-196).
THEOREM TypeCorrect == Spec => []TypeOK
<1>1. Inv => TypeOK
  BY DEF Inv
<1> QED
  BY <1>1, Invariance, PTL

\* (transaction_hash, event_index) is a key of contract_events, for any
\* ledger and in both walks (soroban.go:235-241).
THEOREM EventKeys == Spec => []EventKeysIncrease
<1>1. Inv => EventKeysIncrease
  BY DEF Inv
<1> QED
  BY <1>1, Invariance, PTL

\* The indices of a transaction have no gap (soroban.go:66).
THEOREM EventIndices == Spec => []EventIndexDense
<1>1. Inv => EventIndexDense
  BY DEF Inv
<1> QED
  BY <1>1, Invariance, PTL

\* The counter beside the loop and the position of the view agree with the
\* transaction of the hash (soroban.go:49-61, 128-140).
THEOREM TransactionIDs == Spec => []TransactionIDNamesItsTransaction
<1>1. Inv => TransactionIDNamesItsTransaction
  BY DEF Inv
<1> QED
  BY <1>1, Invariance, PTL
-----------------------------------------------------------------------------
(* Both walks enumerate the same events.                                    *)

\* The place of an event: its transaction, its list and its position there.
Places == Nat \X Nat \X Nat

Earlier(x, y) ==
    \/ x[1] < y[1]
    \/ x[1] = y[1] /\ (x[2] < y[2] \/ (x[2] = y[2] /\ x[3] < y[3]))

IsEvent(x) ==
    /\ x \in Places
    /\ x[1] \in DOMAIN txs /\ txs[x[1]].readable
    /\ x[2] \in DOMAIN txs[x[1]].lists
    /\ x[3] \in 1 .. txs[x[1]].lists[x[2]].n

\* The walk has come past x.
Passed(w, x) == Earlier(x, << cursor[w], list[w], pos[w] >>)

\* Row r is that of the event at x, as far as its place tells.
RowOf(r, x) ==
    /\ r.hash = x[1]
    /\ r.stream = txs[x[1]].lists[x[2]].stream /\ r.op = txs[x[1]].lists[x[2]].op

\* q has the places of the rows: those of the events passed, in order.
Enumerates(q, w) ==
    /\ q \in [1 .. Len(rows[w]) -> Places]
    /\ \A m \in 1 .. Len(rows[w]) :
          IsEvent(q[m]) /\ Passed(w, q[m]) /\ RowOf(rows[w][m], q[m])
    /\ \A a, b \in 1 .. Len(rows[w]) : a < b => Earlier(q[a], q[b])
    /\ \A x : IsEvent(x) /\ Passed(w, x) => \E m \in 1 .. Len(rows[w]) : q[m] = x

WalkInv(w) ==
    /\ status[w] \in {"start", "failed"} => rows[w] = << >>
    /\ status[w] # "failed" => \E q : Enumerates(q, w)
    /\ status[w] = "done" => cursor[w] = Len(txs) /\ AtEndOfTx(w)

PlacesInv == \A w \in Walks : WalkInv(w)

\* The order of places is strict.
LEMMA EarlierIsStrict ==
    ASSUME NEW x \in Places, NEW y \in Places
    PROVE  ~(Earlier(x, y) /\ Earlier(y, x)) /\ ~Earlier(x, x)
<1>1. /\ x[1] \in Nat /\ x[2] \in Nat /\ x[3] \in Nat
      /\ y[1] \in Nat /\ y[2] \in Nat /\ y[3] \in Nat
  BY DEF Places
<1>2. PICK a \in Nat, b \in Nat, c \in Nat, d \in Nat, e \in Nat, f \in Nat :
         /\ x[1] = a /\ x[2] = b /\ x[3] = c
         /\ y[1] = d /\ y[2] = e /\ y[3] = f
  BY <1>1
<1> QED
  BY <1>2, SMT DEF Earlier

InOrder(q, L) == q \in [1 .. L -> Places] /\ \A a, b \in 1 .. L : a < b => Earlier(q[a], q[b])

Within(q, L, r, M) == \A m \in 1 .. L : \E k \in 1 .. M : r[k] = q[m]

Begins(q, L, r, M) == \A m \in 1 .. L : m \in 1 .. M /\ q[m] = r[m]

\* A list of places in order is determined by which places it has.
LEMMA SameFrom ==
    ASSUME NEW L \in Nat, NEW M \in Nat, NEW q, NEW r, InOrder(q, L), InOrder(r, M),
           Within(q, L, r, M), Within(r, M, q, L)
    PROVE  Begins(q, L, r, M)
<1> USE DEF InOrder, Within, Begins
<1> DEFINE T == {m \in 1 .. L : ~(m \in 1 .. M /\ q[m] = r[m])}
<1> SUFFICES ASSUME T # {} PROVE FALSE
  OBVIOUS
<1>1. T \in SUBSET Nat
  OBVIOUS
<1>2. PICK m \in T : \A k \in T : m <= k
  <2> HIDE DEF T
  <2> QED
    BY <1>1, Least
<1>3. \A k \in 1 .. m - 1 : k \in 1 .. M /\ q[k] = r[k]
  <2> SUFFICES ASSUME NEW k \in 1 .. m - 1 PROVE k \in 1 .. M /\ q[k] = r[k]
    OBVIOUS
  <2>1. m \in 1 .. L
    OBVIOUS
  <2>2. k \in 1 .. L /\ k < m /\ k \in Nat /\ m \in Nat
    BY <2>1
  <2>3. k \notin T
    <3> HIDE DEF T
    <3> QED
      BY <1>2, <2>2
  <2> QED
    BY <2>2, <2>3
<1>4. \A x, y \in Places : ~(Earlier(x, y) /\ Earlier(y, x)) /\ ~Earlier(x, x)
  BY EarlierIsStrict
<1>5. PICK j \in 1 .. M : r[j] = q[m]
  OBVIOUS
<1>6. m \in 1 .. L /\ ~(m \in 1 .. M /\ q[m] = r[m])
  OBVIOUS
<1>7. ~(j < m)
  <2> SUFFICES ASSUME j < m PROVE FALSE
    OBVIOUS
  <2>1. j \in 1 .. m - 1 /\ j \in 1 .. L
    BY <1>6
  <2>2. Earlier(q[j], q[m]) /\ q[j] = q[m]
    BY <1>3, <1>5, <1>6, <2>1
  <2> QED
    BY <1>4, <1>6, <2>2
<1>8. j # m /\ m \in 1 .. M /\ m < j
  <2> HIDE DEF T
  <2>1. j # m
    <3> SUFFICES ASSUME j = m PROVE FALSE
      OBVIOUS
    <3> QED
      BY <1>5, <1>6
  <2>2. j \in Nat /\ m \in Nat /\ 1 <= m /\ j <= M
    BY <1>5, <1>6
  <2> QED
    BY <1>7, <2>1, <2>2
<1>9. Earlier(r[m], q[m])
  BY <1>5, <1>8
<1>10. PICK i \in 1 .. L : q[i] = r[m]
  BY <1>8
<1>11. CASE i < m
  <2>1. i \in 1 .. m - 1 /\ i \in 1 .. M
    BY <1>6, <1>8, <1>11
  <2>2. Earlier(r[i], r[m]) /\ r[i] = r[m]
    BY <1>3, <1>8, <1>10, <1>11, <2>1
  <2> QED
    BY <1>4, <1>8, <2>2
<1>12. CASE i = m
  BY <1>6, <1>8, <1>10, <1>12
<1>13. CASE m < i
  <2>1. Earlier(q[m], r[m])
    BY <1>6, <1>10, <1>13
  <2> QED
    BY <1>4, <1>6, <1>8, <1>9, <2>1
<1> QED
  BY <1>6, <1>11, <1>12, <1>13

\* A walk that stands still.
LEMMA PlacesKept ==
    ASSUME NEW v \in Walks, WalkInv(v), txs' = txs, rows'[v] = rows[v], cursor'[v] = cursor[v],
           list'[v] = list[v], pos'[v] = pos[v], status'[v] = status[v]
    PROVE  WalkInv(v)'
<1>1. ASSUME NEW q, Enumerates(q, v) PROVE Enumerates(q, v)'
  BY <1>1 DEF Enumerates, IsEvent, Passed, RowOf
<1> QED
  BY <1>1 DEF WalkInv, AtEndOfTx, ListsAt

\* The lists a walk has before it.
LEMMA ListsTyped ==
    ASSUME TypeOK, NEW w \in Walks
    PROVE  /\ ListsAt(w) \in Seq(EventList)
           /\ DOMAIN ListsAt(w) = 1 .. Len(ListsAt(w)) /\ Len(ListsAt(w)) \in Nat
           /\ \A l \in DOMAIN ListsAt(w) : ListsAt(w)[l].n \in Nat
<1>1. ListsAt(w) \in Seq(EventList)
  <2>1. CASE cursor[w] \in DOMAIN txs /\ txs[cursor[w]].readable
    <3>1. txs[cursor[w]] \in Tx
      BY <2>1, LedgersAssumption DEF TypeOK
    <3> QED
      BY <2>1, <3>1 DEF ListsAt, Tx
  <2>2. CASE ~(cursor[w] \in DOMAIN txs /\ txs[cursor[w]].readable)
    <3>1. << >> \in Seq(EventList)
      OBVIOUS
    <3> QED
      BY <2>2, <3>1 DEF ListsAt
  <2> QED
    BY <2>1, <2>2
<1>2. PICK s \in Seq(EventList) : s = ListsAt(w)
  BY <1>1
<1>3. DOMAIN s = 1 .. Len(s) /\ Len(s) \in Nat /\ \A l \in DOMAIN s : s[l] \in EventList
  OBVIOUS
<1>4. \A e \in EventList : e.n \in Nat
  BY DEF EventList
<1> QED
  BY <1>2, <1>3, <1>4

\* A walk that moves its position without a row has passed the same events.
LEMMA PlacesMove ==
    ASSUME TypeOK, NEW w \in Walks, WalkInv(w), txs' = txs, rows'[w] = rows[w],
           status[w] = "walking", status'[w] = status[w],
           \A x : IsEvent(x) => (Passed(w, x)' <=> Passed(w, x))
    PROVE  WalkInv(w)'
<1>1. PICK q : Enumerates(q, w)
  BY DEF WalkInv
<1>2. \A x : IsEvent(x)' <=> IsEvent(x)
  BY DEF IsEvent
<1>3. \A m \in 1 .. Len(rows[w]) :
         IsEvent(q[m])' /\ Passed(w, q[m])' /\ RowOf(rows[w][m], q[m])
  BY <1>1, <1>2 DEF Enumerates
<1>4. \A x : IsEvent(x)' /\ Passed(w, x)' => \E m \in 1 .. Len(rows[w]) : q[m] = x
  BY <1>1, <1>2 DEF Enumerates
<1>5. Enumerates(q, w)'
  BY <1>1, <1>3, <1>4 DEF Enumerates, RowOf
<1> QED
  BY <1>5 DEF WalkInv

\* The next list, or the next transaction, is begun where one has been walked.
LEMMA NextPlace ==
    ASSUME TypeOK, TypeOK', NEW w \in Walks, WalkInv(w), NextTx(w) \/ NextList(w)
    PROVE  WalkInv(w)'
<1>1. /\ cursor[w] \in Nat /\ list[w] \in Nat \ {0} /\ pos[w] \in Nat \ {0} /\ txs \in Seq(Tx)
  BY LedgersAssumption DEF TypeOK
<1>2. /\ txs' = txs /\ rows' = rows /\ status' = status /\ status[w] = "walking"
  BY DEF NextTx, NextList
<1>3. ASSUME NEW x, IsEvent(x)
      PROVE  /\ x[1] \in Nat /\ x[2] \in Nat /\ x[3] \in Nat /\ x[1] >= 1 /\ x[2] >= 1 /\ x[3] >= 1
             /\ x[1] = cursor[w] =>
                   /\ x[2] <= Len(ListsAt(w)) /\ Len(ListsAt(w)) \in Nat
                   /\ x[2] = list[w] => x[3] <= ListsAt(w)[list[w]].n
                                        /\ ListsAt(w)[list[w]].n \in Nat
  <2>1. /\ x[1] \in Nat /\ x[2] \in Nat /\ x[3] \in Nat
    BY <1>3 DEF IsEvent, Places
  <2>2. x[1] \in DOMAIN txs /\ x[1] >= 1 /\ txs[x[1]] \in Tx
    BY <1>1, <1>3 DEF IsEvent
  <2>3. /\ DOMAIN txs[x[1]].lists = 1 .. Len(txs[x[1]].lists)
        /\ \A l \in DOMAIN txs[x[1]].lists : txs[x[1]].lists[l] \in EventList
    <3>1. txs[x[1]].lists \in Seq(EventList)
      BY <2>2 DEF Tx
    <3> QED
      BY <3>1
  <2>4. x[2] \in 1 .. Len(txs[x[1]].lists) /\ x[3] \in 1 .. txs[x[1]].lists[x[2]].n
    BY <1>3, <2>3 DEF IsEvent
  <2>5. x[2] >= 1 /\ x[3] >= 1
    BY <2>4
  <2>6. ASSUME x[1] = cursor[w]
        PROVE  /\ x[2] <= Len(ListsAt(w)) /\ Len(ListsAt(w)) \in Nat
               /\ x[2] = list[w] => x[3] <= ListsAt(w)[list[w]].n
                                        /\ ListsAt(w)[list[w]].n \in Nat
    <3>1. ListsAt(w) = txs[x[1]].lists
      BY <1>3, <2>6 DEF IsEvent, ListsAt
    <3>2. Len(ListsAt(w)) \in Nat /\ DOMAIN ListsAt(w) = 1 .. Len(ListsAt(w))
          /\ \A l \in DOMAIN ListsAt(w) : ListsAt(w)[l].n \in Nat
      BY ListsTyped
    <3> QED
      BY <2>4, <3>1, <3>2
  <2> QED
    BY <2>1, <2>2, <2>5, <2>6
<1>4. ASSUME NEW x, IsEvent(x), NextTx(w) PROVE Passed(w, x)' <=> Passed(w, x)
  <2>1. cursor'[w] = cursor[w] + 1 /\ list'[w] = 1 /\ pos'[w] = 1 /\ list[w] > Len(ListsAt(w))
    BY <1>4 DEF NextTx, AtEndOfTx, TypeOK
  <2>2. x[1] = cursor[w] => x[2] < list[w]
    BY <1>1, <1>3, <1>4, <2>1
  <2> QED
    BY <1>1, <1>3, <1>4, <2>1, <2>2 DEF Passed, Earlier
<1>5. ASSUME NEW x, IsEvent(x), NextList(w) PROVE Passed(w, x)' <=> Passed(w, x)
  <2>1. /\ cursor'[w] = cursor[w] /\ list'[w] = list[w] + 1 /\ pos'[w] = 1
        /\ pos[w] > ListsAt(w)[list[w]].n
    BY <1>5 DEF NextList, TypeOK
  <2>2. x[1] = cursor[w] /\ x[2] = list[w] => x[3] < pos[w]
    BY <1>1, <1>3, <1>5, <2>1
  <2> QED
    BY <1>1, <1>3, <1>5, <2>1, <2>2 DEF Passed, Earlier
<1> QED
  BY <1>2, <1>4, <1>5, PlacesMove

\* The place a walk has come to is before the one after it, and no event lies between.
LEMMA PassedNext ==
    ASSUME NEW x \in Places, NEW a \in Nat, NEW b \in Nat, NEW c \in Nat
    PROVE  Earlier(x, << a, b, c + 1 >>) <=> Earlier(x, << a, b, c >>) \/ x = << a, b, c >>
<1>1. PICK d \in Nat, e \in Nat, f \in Nat : x = << d, e, f >>
  BY DEF Places
<1>2. x[1] = d /\ x[2] = e /\ x[3] = f
  BY <1>1
<1>3. x = << a, b, c >> <=> d = a /\ e = b /\ f = c
  BY <1>1
<1> QED
  BY <1>2, <1>3, SMT DEF Earlier

\* The row of an event is appended, and the event has been passed.
LEMMA EmitPlace ==
    ASSUME Inv, TypeOK', NEW w \in Walks, WalkInv(w), Emit(w)
    PROVE  WalkInv(w)'
<1> DEFINE here == << cursor[w], list[w], pos[w] >>
           L == Len(rows[w])
<1>1. TypeOK /\ rows[w] \in Seq(EventRow) /\ L \in Nat
      /\ cursor[w] \in Nat /\ list[w] \in Nat \ {0} /\ pos[w] \in Nat \ {0}
  <2>1. TypeOK /\ txs \in Seq(Tx) /\ rows[w] \in Seq(EventRow)
    BY LedgersAssumption DEF Inv, TypeOK
  <2>2. Len(txs) \in Nat /\ L \in Nat
    BY <2>1
  <2>3. cursor[w] \in 0 .. Len(txs) /\ list[w] \in Nat \ {0} /\ pos[w] \in Nat \ {0}
    BY <2>1 DEF TypeOK
  <2> QED
    BY <2>1, <2>2, <2>3
<1>2. /\ txs' = txs /\ status' = status /\ status[w] = "walking"
      /\ cursor' = cursor /\ list' = list /\ pos'[w] = pos[w] + 1
      /\ rows'[w] = Append(rows[w], RowAt(w))
  BY <1>1 DEF Emit, TypeOK
<1>3. PICK r : r = RowAt(w)
  OBVIOUS
<1>4. Len(rows'[w]) = L + 1
      /\ (\A m \in 1 .. L : rows'[w][m] = rows[w][m]) /\ rows'[w][L + 1] = r
  <2>1. rows'[w] = Append(rows[w], r)
    BY <1>2, <1>3
  <2> QED
    BY <1>1, <2>1
<1>5. /\ cursor[w] \in DOMAIN txs /\ txs[cursor[w]].readable
      /\ ListsAt(w) = txs[cursor[w]].lists /\ list[w] \in DOMAIN ListsAt(w)
      /\ pos[w] \in 1 .. ListsAt(w)[list[w]].n
  <2>1. /\ DOMAIN ListsAt(w) = 1 .. Len(ListsAt(w)) /\ Len(ListsAt(w)) \in Nat
        /\ \A l \in DOMAIN ListsAt(w) : ListsAt(w)[l].n \in Nat
    BY <1>1, ListsTyped
  <2>2. ~(list[w] > Len(ListsAt(w))) /\ pos[w] <= ListsAt(w)[list[w]].n
    BY DEF Emit, AtEndOfTx
  <2>3. list[w] \in DOMAIN ListsAt(w)
    BY <1>1, <2>1, <2>2
  <2>4. pos[w] \in 1 .. ListsAt(w)[list[w]].n
    BY <1>1, <2>1, <2>2, <2>3
  <2>5. cursor[w] \in DOMAIN txs /\ txs[cursor[w]].readable
    BY <2>3 DEF ListsAt
  <2> QED
    BY <2>3, <2>4, <2>5 DEF ListsAt
<1>6. here \in Places
  BY <1>1 DEF Places
<1>7. PICK h \in Places : h = here
  BY <1>6
<1>8. h[1] = cursor[w] /\ h[2] = list[w] /\ h[3] = pos[w]
  BY <1>7
<1>9. IsEvent(h) /\ RowOf(r, h)
  <2>1. /\ r.hash = cursor[w] /\ r.stream = ListsAt(w)[list[w]].stream
        /\ r.op = ListsAt(w)[list[w]].op
    BY <1>3 DEF RowAt
  <2> QED
    BY <1>5, <1>8, <2>1 DEF IsEvent, RowOf
<1>10. \A x \in Places : Passed(w, x)' <=> Passed(w, x) \/ x = h
  <2> SUFFICES ASSUME NEW x \in Places PROVE Passed(w, x)' <=> Passed(w, x) \/ x = h
    OBVIOUS
  <2>1. Earlier(x, << cursor[w], list[w], pos[w] + 1 >>)
           <=> Earlier(x, here) \/ x = here
    BY <1>1, PassedNext
  <2>2. Passed(w, x)' <=> Earlier(x, << cursor[w], list[w], pos[w] + 1 >>)
    BY <1>2 DEF Passed, Earlier
  <2> QED
    BY <1>7, <2>1, <2>2 DEF Passed
<1>11. PICK q : Enumerates(q, w)
  BY <1>2 DEF WalkInv
<1>12. /\ q \in [1 .. L -> Places]
       /\ \A m \in 1 .. L : IsEvent(q[m]) /\ Passed(w, q[m]) /\ RowOf(rows[w][m], q[m])
       /\ \A a, b \in 1 .. L : a < b => Earlier(q[a], q[b])
       /\ \A x : IsEvent(x) /\ Passed(w, x) => \E m \in 1 .. L : q[m] = x
  BY <1>11 DEF Enumerates
<1>13. PICK g : Extends(g, q, L, h, Places, Places)
  BY <1>1, <1>12, ExtendedBy, Zenon
<1> HIDE DEF L, here
<1>14. /\ g \in [1 .. L + 1 -> Places] /\ g[L + 1] = h
       /\ \A n \in 1 .. L : g[n] = q[n] /\ q[n] \in Places
       /\ \A n \in 1 .. L + 1 : n = L + 1 \/ n \in 1 .. L
       /\ \A n \in 1 .. L : n \in 1 .. L + 1
       /\ L + 1 \in 1 .. L + 1
  <2>1. /\ g \in [1 .. L + 1 -> Places] /\ g[L + 1] = h
        /\ \A n \in 1 .. L : g[n] = q[n] /\ q[n] \in Places
        /\ \A n \in 1 .. L + 1 : n = L + 1 \/ n \in 1 .. L
    BY <1>13 DEF Extends
  <2>2. (\A n \in 1 .. L : n \in 1 .. L + 1) /\ L + 1 \in 1 .. L + 1
    BY <1>1
  <2> QED
    BY <2>1, <2>2
<1>15. \A x : IsEvent(x)' <=> IsEvent(x)
  BY <1>2 DEF IsEvent
<1>16. ASSUME NEW m \in 1 .. L + 1
       PROVE  IsEvent(g[m])' /\ Passed(w, g[m])' /\ RowOf(rows'[w][m], g[m])
  <2>1. CASE m = L + 1
    <3>1. g[m] = h /\ rows'[w][m] = r
      BY <1>4, <1>14, <2>1
    <3>2. IsEvent(h)' /\ Passed(w, h)' /\ RowOf(r, h)
      BY <1>9, <1>10, <1>15
    <3>3. PICK y : y = rows'[w][m]
      OBVIOUS
    <3> QED
      BY <3>1, <3>2
  <2>2. CASE m \in 1 .. L
    <3>1. g[m] = q[m] /\ q[m] \in Places /\ rows'[w][m] = rows[w][m]
      BY <1>4, <1>14, <2>2
    <3>2. IsEvent(q[m])' /\ Passed(w, q[m])' /\ RowOf(rows[w][m], q[m])
      BY <1>10, <1>12, <1>15, <2>2, <3>1
    <3> QED
      BY <3>1, <3>2
  <2> QED
    BY <1>14, <2>1, <2>2
<1>17. ASSUME NEW a \in 1 .. L + 1, NEW b \in 1 .. L + 1, a < b PROVE Earlier(g[a], g[b])
  <2>1. a \in 1 .. L
    BY <1>1, <1>17
  <2>2. CASE b = L + 1
    <3>1. Passed(w, q[a]) /\ g[a] = q[a] /\ g[b] = h
      BY <1>12, <1>14, <2>1, <2>2
    <3> QED
      BY <1>7, <3>1 DEF Passed, here
  <2>3. CASE b \in 1 .. L
    BY <1>12, <1>14, <1>17, <2>1, <2>3
  <2> QED
    BY <1>14, <2>2, <2>3
<1>18. ASSUME NEW x, IsEvent(x)', Passed(w, x)' PROVE \E m \in 1 .. L + 1 : g[m] = x
  <2>1. IsEvent(x) /\ x \in Places
    BY <1>15, <1>18 DEF IsEvent
  <2>2. CASE x = h
    BY <1>14, <2>2
  <2>3. CASE Passed(w, x)
    <3>1. PICK m \in 1 .. L : q[m] = x
      BY <1>12, <2>1, <2>3
    <3> QED
      BY <1>14, <3>1
  <2> QED
    BY <1>10, <1>18, <2>1, <2>2, <2>3
<1>19. Enumerates(g, w)'
  <2>1. \A m \in 1 .. Len(rows'[w]) :
           IsEvent(g[m])' /\ Passed(w, g[m])' /\ RowOf(rows[w][m], g[m])'
    <3> SUFFICES ASSUME NEW m \in 1 .. L + 1
                 PROVE  IsEvent(g[m])' /\ Passed(w, g[m])' /\ RowOf(rows[w][m], g[m])'
      BY <1>4
    <3>1. RowOf(rows[w][m], g[m])'
      BY <1>2, <1>16 DEF RowOf
    <3> QED
      BY <1>16, <3>1
  <2>2. \A a, b \in 1 .. Len(rows'[w]) : a < b => Earlier(g[a], g[b])
    BY <1>4, <1>17
  <2>3. \A x : IsEvent(x)' /\ Passed(w, x)' => \E m \in 1 .. Len(rows'[w]) : g[m] = x
    BY <1>4, <1>18
  <2>4. g \in [1 .. Len(rows'[w]) -> Places]
    BY <1>4, <1>14
  <2>5. (/\ g \in [1 .. Len(rows[w]) -> Places]
         /\ \A m \in 1 .. Len(rows[w]) :
               IsEvent(g[m]) /\ Passed(w, g[m]) /\ RowOf(rows[w][m], g[m])
         /\ \A a, b \in 1 .. Len(rows[w]) : a < b => Earlier(g[a], g[b])
         /\ \A x : IsEvent(x) /\ Passed(w, x) => \E m \in 1 .. Len(rows[w]) : g[m] = x)'
    BY <2>1, <2>2, <2>3, <2>4 DEF Earlier
  <2> QED
    BY <2>5 DEF Enumerates
<1> QED
  BY <1>2, <1>19 DEF WalkInv

\* A walk is opened, has come to its end, or gives up.
LEMMA StatusPlace ==
    ASSUME TypeOK, NEW w \in Walks, WalkInv(w), Open(w) \/ Finish(w) \/ EventUndecodable(w)
    PROVE  WalkInv(w)'
<1>1. ASSUME NEW q, Enumerates(q, w), txs' = txs, rows' = rows, UNCHANGED << cursor, list, pos >>
      PROVE  Enumerates(q, w)'
  BY <1>1 DEF Enumerates, IsEvent, Passed, RowOf
<1>2. CASE Open(w)
  <2>1. /\ txs' = txs /\ rows' = rows /\ UNCHANGED << cursor, list, pos >>
        /\ status[w] = "start" /\ status'[w] \in {"walking", "failed"}
    BY <1>2 DEF Open, TypeOK
  <2>2. rows'[w] = << >> /\ \E q : Enumerates(q, w)
    BY <2>1 DEF WalkInv
  <2>3. \E q : Enumerates(q, w)'
    BY <1>1, <2>1, <2>2
  <2> QED
    BY <2>1, <2>2, <2>3 DEF WalkInv
<1>3. CASE Finish(w)
  <2>1. /\ txs' = txs /\ rows' = rows /\ UNCHANGED << cursor, list, pos >>
        /\ status[w] = "walking" /\ status'[w] = "done"
        /\ cursor[w] = Len(txs) /\ AtEndOfTx(w)
    BY <1>3 DEF Finish, TypeOK
  <2>2. cursor'[w] = Len(txs') /\ AtEndOfTx(w)'
    BY <2>1 DEF AtEndOfTx, ListsAt
  <2>3. \E q : Enumerates(q, w)
    BY <2>1 DEF WalkInv
  <2>4. \E q : Enumerates(q, w)'
    BY <1>1, <2>1, <2>3
  <2> QED
    BY <2>1, <2>2, <2>4 DEF WalkInv
<1>4. CASE EventUndecodable(w)
  BY <1>4 DEF EventUndecodable, TypeOK, WalkInv
<1> QED
  BY <1>2, <1>3, <1>4

\* Before the first transaction no event has been passed.
LEMMA InitPlaces == Init => PlacesInv
<1> SUFFICES ASSUME Init, NEW w \in Walks PROVE WalkInv(w)
  BY DEF PlacesInv
<1>1. rows[w] = << >> /\ cursor[w] = 0 /\ status[w] = "start" /\ txs \in Seq(Tx)
  BY LedgersAssumption DEF Init
<1>2. PICK q : q \in [1 .. 0 -> Places]
  <2>1. << >> \in [1 .. 0 -> Places]
    OBVIOUS
  <2> QED
    BY <2>1
<1>3. ASSUME NEW x, IsEvent(x) PROVE ~Passed(w, x)
  <2>1. x[1] \in DOMAIN txs /\ x[1] \in Nat
    BY <1>3 DEF IsEvent, Places
  <2>2. x[1] >= 1
    BY <1>1, <2>1
  <2> QED
    BY <1>1, <2>1, <2>2 DEF Passed, Earlier
<1>4. 1 .. Len(rows[w]) = 1 .. 0 /\ 1 .. 0 = {}
  BY <1>1
<1>5. Enumerates(q, w)
  BY <1>2, <1>3, <1>4 DEF Enumerates
<1> QED
  BY <1>1, <1>5 DEF WalkInv

LEMMA PlacesStep ==
    ASSUME Inv, TypeOK', PlacesInv, [Next]_vars
    PROVE  PlacesInv'
<1> SUFFICES ASSUME NEW v \in Walks PROVE WalkInv(v)'
  BY DEF PlacesInv
<1>1. TypeOK /\ WalkInv(v)
  BY DEF Inv, PlacesInv
<1>2. ASSUME NEW w \in Walks, Walk(w), w # v PROVE WalkInv(v)'
  <2>1. /\ txs' = txs /\ rows'[v] = rows[v] /\ cursor'[v] = cursor[v]
        /\ list'[v] = list[v] /\ pos'[v] = pos[v] /\ status'[v] = status[v]
    <3>1. CASE Open(w)
      BY <1>1, <1>2, <3>1 DEF Open, TypeOK
    <3>2. CASE NextTx(w)
      BY <1>1, <1>2, <3>2 DEF NextTx, TypeOK
    <3>3. CASE NextList(w)
      BY <1>1, <1>2, <3>3 DEF NextList, TypeOK
    <3>4. CASE Emit(w)
      BY <1>1, <1>2, <3>4 DEF Emit, TypeOK
    <3>5. CASE EventUndecodable(w)
      BY <1>1, <1>2, <3>5 DEF EventUndecodable, TypeOK
    <3>6. CASE Finish(w)
      BY <1>1, <1>2, <3>6 DEF Finish, TypeOK
    <3> QED
      BY <1>2, <3>1, <3>2, <3>3, <3>4, <3>5, <3>6 DEF Walk
  <2> QED
    BY <1>1, <2>1, PlacesKept
<1>3. CASE Walk(v)
  BY <1>1, <1>3, StatusPlace, NextPlace, EmitPlace DEF Walk
<1>4. CASE UNCHANGED vars
  BY <1>1, <1>4, PlacesKept DEF vars
<1> QED
  BY <1>2, <1>3, <1>4 DEF Next, Terminated

\* A walk that is done has passed every event.
LEMMA AllPassed ==
    ASSUME TypeOK, NEW w \in Walks, WalkInv(w), status[w] = "done", NEW x, IsEvent(x)
    PROVE  Passed(w, x)
<1>1. cursor[w] = Len(txs) /\ list[w] > Len(ListsAt(w)) /\ list[w] \in Nat
  BY DEF WalkInv, AtEndOfTx, TypeOK
<1>2. txs \in Seq(Tx) /\ Len(txs) \in Nat
  BY LedgersAssumption DEF TypeOK
<1>3. x[1] \in 1 .. Len(txs) /\ x[1] \in Nat /\ x[2] \in Nat /\ x[3] \in Nat
  BY <1>2 DEF IsEvent, Places
<1>4. CASE x[1] = cursor[w]
  <2>1. ListsAt(w) = txs[x[1]].lists /\ x[2] \in DOMAIN ListsAt(w)
    BY <1>4 DEF IsEvent, ListsAt
  <2>2. DOMAIN ListsAt(w) = 1 .. Len(ListsAt(w)) /\ Len(ListsAt(w)) \in Nat
    BY ListsTyped
  <2>3. x[2] < list[w]
    BY <1>1, <2>1, <2>2
  <2> QED
    BY <1>4, <2>3 DEF Passed, Earlier
<1>5. CASE x[1] # cursor[w]
  <2>1. x[1] < cursor[w]
    BY <1>1, <1>2, <1>3, <1>5
  <2> QED
    BY <2>1 DEF Passed, Earlier
<1> QED
  BY <1>4, <1>5

\* What the walk's invariant says of its first L rows.
Numbered(a, L) ==
    /\ \A i \in 1 .. L : a[i].index \in Nat /\ a[i].hash \in Nat
    /\ \A i \in 1 .. L : a[i].index > 0 =>
          i > 1 /\ a[i - 1].hash = a[i].hash /\ a[i - 1].index = a[i].index - 1
    /\ \A i, j \in 1 .. L : i < j => Before(a[i], a[j])

\* The indices of rows that agree in their hashes agree.
LEMMA SameIndices ==
    ASSUME NEW L \in Nat, NEW a, NEW b, Numbered(a, L), Numbered(b, L),
           \A i \in 1 .. L : a[i].hash = b[i].hash
    PROVE  \A i \in 1 .. L : a[i].index = b[i].index
<1> USE DEF Numbered
<1> DEFINE T == {i \in 1 .. L : a[i].index # b[i].index}
<1> SUFFICES ASSUME T # {} PROVE FALSE
  OBVIOUS
<1>1. T \in SUBSET Nat
  OBVIOUS
<1>2. PICK m \in T : \A k \in T : m <= k
  <2> HIDE DEF T
  <2> QED
    BY <1>1, Least
<1>3. m \in 1 .. L /\ a[m].index # b[m].index
  OBVIOUS
<1>4. ASSUME m > 1 PROVE m - 1 \in 1 .. L /\ a[m - 1].index = b[m - 1].index /\ m - 1 < m
  <2>1. m - 1 \in 1 .. L /\ m - 1 \in Nat /\ m - 1 < m /\ ~(m <= m - 1)
    BY <1>3, <1>4
  <2>2. m - 1 \notin T
    <3> HIDE DEF T
    <3> QED
      BY <1>2, <2>1
  <2> QED
    BY <2>1, <2>2
<1> HIDE DEF T
<1>5. /\ a[m].index \in Nat /\ b[m].index \in Nat /\ a[m].hash = b[m].hash /\ a[m].hash \in Nat
      /\ a[m].index > 0 => m > 1 /\ a[m - 1].hash = a[m].hash /\ a[m - 1].index = a[m].index - 1
      /\ b[m].index > 0 => m > 1 /\ b[m - 1].hash = b[m].hash /\ b[m - 1].index = b[m].index - 1
  BY <1>3
<1>6. ASSUME m > 1
      PROVE  /\ Before(a[m - 1], a[m]) /\ Before(b[m - 1], b[m])
             /\ a[m - 1].hash = b[m - 1].hash
             /\ a[m - 1].index \in Nat /\ a[m - 1].index = b[m - 1].index
  BY <1>3, <1>4, <1>6
<1>7. CASE a[m].index > 0 /\ b[m].index > 0
  BY <1>3, <1>5, <1>6, <1>7
<1>8. CASE a[m].index > 0 /\ ~(b[m].index > 0)
  <2>1. m > 1 /\ a[m - 1].hash = a[m].hash /\ b[m].index = 0
    BY <1>5, <1>8
  <2>2. b[m - 1].index < b[m].index
    BY <1>5, <1>6, <2>1 DEF Before
  <2> QED
    BY <1>6, <2>1, <2>2
<1>9. CASE b[m].index > 0 /\ ~(a[m].index > 0)
  <2>1. m > 1 /\ b[m - 1].hash = b[m].hash /\ a[m].index = 0
    BY <1>5, <1>9
  <2>2. a[m - 1].index < a[m].index
    BY <1>5, <1>6, <2>1 DEF Before
  <2> QED
    BY <1>6, <2>1, <2>2
<1> QED
  BY <1>3, <1>5, <1>7, <1>8, <1>9

\* Two walks that are done have the same rows.
LEMMA DoneRowsAgree ==
    ASSUME Inv, PlacesInv, NEW v \in Walks, NEW w \in Walks, status[v] = "done", status[w] = "done"
    PROVE  rows[v] = rows[w]
<1>1. TypeOK /\ WalkInv(v) /\ WalkInv(w) /\ rows[v] \in Seq(EventRow) /\ rows[w] \in Seq(EventRow)
  BY DEF Inv, PlacesInv, TypeOK
<1>2. PICK q : Enumerates(q, v)
  BY <1>1 DEF WalkInv
<1>3. PICK r : Enumerates(r, w)
  BY <1>1 DEF WalkInv
<1>4. \A x : IsEvent(x) => Passed(v, x) /\ Passed(w, x)
  BY <1>1, AllPassed
<1> DEFINE L == Len(rows[v])
           M == Len(rows[w])
<1>5. L \in Nat /\ M \in Nat
  BY <1>1
<1>6. InOrder(q, L) /\ InOrder(r, M) /\ Within(q, L, r, M) /\ Within(r, M, q, L)
  BY <1>2, <1>3, <1>4 DEF Enumerates, InOrder, Within
<1>7. /\ \A m \in 1 .. L : RowOf(rows[v][m], q[m])
      /\ \A m \in 1 .. M : RowOf(rows[w][m], r[m])
  BY <1>2, <1>3 DEF Enumerates
<1>8. /\ \A m \in 1 .. L : rows[v][m] \in EventRow
      /\ \A m \in 1 .. M : rows[w][m] \in EventRow
      /\ DOMAIN rows[v] = 1 .. L /\ DOMAIN rows[w] = 1 .. M
  BY <1>1
<1> HIDE DEF L, M
<1>9. Begins(q, L, r, M) /\ Begins(r, M, q, L)
  BY <1>5, <1>6, SameFrom
<1>10. (\A m \in 1 .. L : m \in 1 .. M /\ q[m] = r[m]) /\ \A m \in 1 .. M : m \in 1 .. L
  BY <1>9 DEF Begins
<1>11. L = M
  BY <1>5, <1>10
<1>12. \A i \in 1 .. L : /\ rows[v][i].hash = rows[w][i].hash
                        /\ rows[v][i].stream = rows[w][i].stream
                        /\ rows[v][i].op = rows[w][i].op
  BY <1>7, <1>10 DEF RowOf
<1>13. \A i \in 1 .. L : rows[v][i].txID = rows[w][i].txID
  <2>1. \A i \in 1 .. L : rows[v][i].txID = rows[v][i].hash /\ rows[w][i].txID = rows[w][i].hash
    BY <1>8, <1>11 DEF Inv, TransactionIDNamesItsTransaction
  <2> QED
    BY <1>12, <2>1
<1>14. \A i \in 1 .. L : rows[v][i].index = rows[w][i].index
  <2>1. ASSUME NEW u \in Walks, DOMAIN rows[u] = 1 .. L, \A i \in 1 .. L : rows[u][i] \in EventRow
        PROVE  Numbered(rows[u], L)
    <3>1. \A i \in 1 .. L : rows[u][i].index \in Nat /\ rows[u][i].hash \in Nat
      BY <2>1 DEF EventRow
    <3>2. \A i \in 1 .. L : rows[u][i].index > 0 =>
             /\ i > 1 /\ rows[u][i - 1].hash = rows[u][i].hash
             /\ rows[u][i - 1].index = rows[u][i].index - 1
      BY <2>1 DEF Inv, EventIndexDense
    <3>3. \A i, j \in 1 .. L : i < j => Before(rows[u][i], rows[u][j])
      BY <2>1 DEF Inv, EventKeysIncrease
    <3> QED
      BY <3>1, <3>2, <3>3 DEF Numbered
  <2>2. Numbered(rows[v], L) /\ Numbered(rows[w], L)
    BY <1>8, <1>11, <2>1
  <2>3. \A i \in 1 .. L : rows[v][i].hash = rows[w][i].hash
    BY <1>12
  <2> QED
    BY <1>5, <2>2, <2>3, SameIndices
<1>15. \A i \in 1 .. L : rows[v][i] = rows[w][i]
  <2> SUFFICES ASSUME NEW i \in 1 .. L PROVE rows[v][i] = rows[w][i]
    OBVIOUS
  <2>1. PICK a \in EventRow : a = rows[v][i]
    BY <1>8
  <2>2. PICK b \in EventRow : b = rows[w][i]
    BY <1>8, <1>11
  <2>3. a.hash = b.hash /\ a.txID = b.txID /\ a.stream = b.stream /\ a.op = b.op /\ a.index = b.index
    BY <1>12, <1>13, <1>14, <2>1, <2>2
  <2>4. a = b
    BY <2>3 DEF EventRow
  <2> QED
    BY <2>1, <2>2, <2>4
<1> QED
  <2>1. PICK s \in Seq(EventRow) : s = rows[v]
    BY <1>1
  <2>2. PICK t \in Seq(EventRow) : t = rows[w]
    BY <1>1
  <2>3. Len(s) = Len(t) /\ \A i \in 1 .. Len(s) : s[i] = t[i]
    BY <1>11, <1>15, <2>1, <2>2 DEF L, M
  <2>4. s = t
    BY <2>3
  <2> QED
    BY <2>1, <2>2, <2>4

\* The two walks agree on every ledger: a view walk that succeeds returns the
\* rows of the parsed one, and one that fails returns none
\* (docs/VIEW_EXTRACTION.md:71, soroban.go:66-260).
THEOREM Parity == Spec => []ViewParity
<1>1. Init => Inv /\ PlacesInv
  BY InitCorrect, InitPlaces
<1>2. Inv /\ Inv' /\ PlacesInv /\ [Next]_vars => PlacesInv'
  BY PlacesStep DEF Inv
<1>3. Inv /\ PlacesInv => ViewParity
  BY DoneRowsAgree DEF ViewParity, PlacesInv, WalkInv, Walks
<1> QED
  BY <1>1, <1>2, <1>3, Invariance, PTL DEF Spec
=============================================================================
