------------------------ MODULE SnapshotTablesProofs ------------------------
(***************************************************************************)
(* Proofs about SnapshotTables, for every set of ledger-entry keys.        *)
(***************************************************************************)
EXTENDS SnapshotTables, TLAPS

ChangeRecord ==
    [key : Keys, kind : {"created", "updated", "removed", "restored"},
     pre : Entry \cup {NoEntry}, post : Entry \cup {NoEntry}, lost : BOOLEAN]

\* A change has a state before or after it.
ProperChange(c) ==
    /\ c \in ChangeRecord
    /\ Active(c) \in Entry

\* Entries are told from NoEntry by their value.
LEMMA EntryValue ==
    ASSUME NEW e \in Entry
    PROVE  e # NoEntry /\ e.value \in Values /\ e.value \in Nat \ {0}
<1>1. e.value \in Values
  BY DEF Entry
<1>2. e.value \in Nat \ {0} /\ NoEntry.value = 0
  BY <1>1, SnapshotAssumption DEF NoEntry
<1> QED
  BY <1>1, <1>2

LEMMA KeyShape ==
    ASSUME NEW k \in Keys
    PROVE  /\ k \in Key /\ k.owner \in Nat /\ k.id \in Nat
           /\ RowKey(k) \in RowKeys /\ KeyHash(k) \in RowKeys
    BY SnapshotAssumption DEF Key, RowKey, KeyHash, RowKeys

\* What the treatment of one change yields in a table of one row per entry:
\* at most the row of the changed entry, of the last state, deleted exactly if
\* there is no post state; and a row unless the change is lost, unlisted, of
\* another type, or a removal in a table of live entries.
Renders(t, c, new) ==
    /\ DOMAIN new \subseteq {RowKey(c.key)}
    /\ \A r \in DOMAIN new :
          /\ c.key.type = TypeOf[t]
          /\ new[r] \in Row
          /\ new[r].value = Active(c).value
          /\ t \in Flagged => (new[r].deleted <=> c.post = NoEntry)
    /\ /\ Listed(c, TypeOf[t])
       /\ t = "ttl" => ~c.lost
       /\ c.post # NoEntry \/ t \in Flagged \cup {"native_balances"}
       => RowKey(c.key) \in DOMAIN new

\* A table of one row per entry renders every change so.
LEMMA RowsOfChange ==
    ASSUME NEW t \in DOMAIN TypeOf, NEW c, ProperChange(c)
    PROVE  Renders(t, c, RowsOf(t, c))
<1> DEFINE r0 == RowKey(c.key)
<1>1. Active(c).value \in Values
  BY EntryValue DEF ProperChange
<1>2. ASSUME c.post # NoEntry PROVE Active(c) = c.post
  BY <1>2 DEF Active
<1>3. DOMAIN NoRows = {}
  BY DEF NoRows
<1>4. ASSUME t \in Flagged PROVE Renders(t, c, FlaggedRow(c, TypeOf[t]))
  <2>1. CASE Listed(c, TypeOf[t])
    <3> DEFINE v == [value |-> Active(c).value, deleted |-> c.post = NoEntry]
    <3>1. FlaggedRow(c, TypeOf[t]) = Only(r0, v)
      BY <2>1 DEF FlaggedRow
    <3>2. v \in Row /\ v.value = Active(c).value
                    /\ (v.deleted <=> c.post = NoEntry)
      BY <1>1 DEF Row
    <3>3. c.key.type = TypeOf[t]
      BY <2>1 DEF Listed
    <3> HIDE DEF v
    <3> QED
      BY <3>1, <3>2, <3>3 DEF Renders, Only
  <2>2. CASE ~Listed(c, TypeOf[t])
    BY <2>2, <1>3 DEF FlaggedRow, Renders
  <2> QED
    BY <2>1, <2>2
<1>5. ASSUME t \notin Flagged, t # "native_balances"
      PROVE  Renders(t, c, LiveRow(c, TypeOf[t]))
  <2>1. CASE Listed(c, TypeOf[t]) /\ c.post # NoEntry
    <3> DEFINE v == [value |-> c.post.value, deleted |-> FALSE]
    <3>1. LiveRow(c, TypeOf[t]) = Only(r0, v)
      BY <2>1 DEF LiveRow
    <3>2. v \in Row /\ v.value = Active(c).value
      BY <1>1, <1>2, <2>1 DEF Row
    <3>3. c.key.type = TypeOf[t]
      BY <2>1 DEF Listed
    <3> HIDE DEF v
    <3> QED
      BY <1>5, <3>1, <3>2, <3>3 DEF Renders, Only
  <2>2. CASE ~(Listed(c, TypeOf[t]) /\ c.post # NoEntry)
    BY <1>5, <2>2, <1>3 DEF LiveRow, Renders
  <2> QED
    BY <2>1, <2>2
<1>6. ASSUME t = "native_balances"
      PROVE  Renders(t, c, NativeBalanceRows(c))
  <2>0. TypeOf[t] = "account" /\ t \notin Flagged
    BY <1>6 DEF TypeOf, Flagged
  <2>1. CASE Listed(c, "account")
    <3> DEFINE v == [value |-> Active(c).value, deleted |-> FALSE]
    <3>1. NativeBalanceRows(c) = Only(r0, v)
      BY <2>1 DEF NativeBalanceRows
    <3>2. v \in Row /\ v.value = Active(c).value
      BY <1>1 DEF Row
    <3>3. c.key.type = TypeOf[t]
      BY <2>0, <2>1 DEF Listed
    <3> HIDE DEF v
    <3> QED
      BY <2>0, <3>1, <3>2, <3>3 DEF Renders, Only
  <2>2. CASE ~Listed(c, "account")
    BY <2>0, <2>2, <1>3 DEF NativeBalanceRows, Renders
  <2> QED
    BY <2>1, <2>2
<1>7. CASE t = "ttl"
  <2>1. t \in Flagged /\ TypeOf[t] = "ttl"
    BY <1>7 DEF Flagged, TypeOf
  <2>2. RowsOf(t, c) = IF c.lost THEN NoRows ELSE FlaggedRow(c, TypeOf[t])
    BY <1>7, <2>1 DEF RowsOf, TTLRows
  <2>3. CASE c.lost
    BY <1>3, <1>7, <2>2, <2>3 DEF Renders
  <2>4. CASE ~c.lost
    BY <1>4, <2>1, <2>2, <2>4
  <2> QED
    BY <2>3, <2>4
<1>8. CASE t = "native_balances"
  BY <1>6, <1>8 DEF RowsOf
<1>9. CASE t \in {"config_settings", "contract_data", "contract_code"}
  <2>1. t \in Flagged /\ RowsOf(t, c) = FlaggedRow(c, TypeOf[t])
    BY <1>9 DEF RowsOf, ConfigSettingRows, ContractDataRows, ContractCodeRows,
                Flagged, TypeOf
  <2> QED
    BY <1>4, <2>1
<1>10. CASE t \in {"accounts", "trustlines", "offers", "claimable_balances",
                   "liquidity_pools"}
  <2>1. /\ t \notin Flagged /\ t # "native_balances"
        /\ RowsOf(t, c) = LiveRow(c, TypeOf[t])
    BY <1>10 DEF RowsOf, AccountRows, TrustlineRows, OfferRows,
                 ClaimableBalanceRows, LiquidityPoolRows, Flagged, TypeOf
  <2> QED
    BY <1>5, <2>1
<1> QED
  BY <1>7, <1>8, <1>9, <1>10 DEF TypeOf

-----------------------------------------------------------------------------
(* The inductive invariant.                                                *)

\* A row has an entry of the table behind it that changed in this ledger:
\* without it a removal could meet a row that stems from nothing.
RowsHaveKeys ==
    table \in DOMAIN TypeOf =>
        \A r \in DOMAIN rows :
            \E k \in touched : k.type = TypeOf[table] /\ RowKey(k) = r

\* The rows written are in order and come before the ones left.
OutInv ==
    /\ phase = "reading" => out = << >>
    /\ phase = "done" => Unwritten = {}
    /\ \A i, j \in DOMAIN out : i < j => Precedes(out[i], out[j])
    /\ \A i \in DOMAIN out : \A q \in Unwritten : Precedes(out[i], q)

ReportInv == LatestStateReported /\ EveryChangeReported /\ DeletedIffGone

Inv == /\ TypeOK /\ OutInv
       /\ RowsHaveKeys /\ ReportInv
       /\ SignersReported /\ RestoredExactly

LEMMA InitInv == Init => Inv
<1> SUFFICES ASSUME Init PROVE Inv
  OBVIOUS
<1>1. DOMAIN rows = {} /\ touched = {} /\ restored = {} /\ lost = {}
  BY DEF Init, NoRows
<1>2. out = << >> /\ phase = "reading"
  BY DEF Init
<1>3. TypeOK
  <2>1. live \cap archived = {} /\ live \subseteq Scope[table]
        /\ archived \subseteq Scope[table]
    BY DEF Init
  <2> QED
    BY <1>1, <1>2, <2>1 DEF Init, TypeOK
<1>4. OutInv
  BY <1>2 DEF OutInv
<1>5. RowsHaveKeys /\ SignersReported /\ RestoredExactly
  BY <1>1 DEF RowsHaveKeys, SignersReported, RestoredExactly
<1>6. ReportInv
  BY <1>1 DEF ReportInv, LatestStateReported, EveryChangeReported,
              DeletedIffGone, Reported
<1> QED
  BY <1>3, <1>4, <1>5, <1>6 DEF Inv

\* The changes a ledger can make of k.
Faithful(k, kind, pre, post) ==
    /\ k \in Scope[table]
    /\ kind \in {"created", "updated", "removed", "restored"}
    /\ pre = IF k \in live THEN latest[k] ELSE NoEntry
    /\ post \in Entry \cup {NoEntry}
    /\ post = NoEntry => k \in live /\ kind # "restored"

LEMMA ChangeIsRead ==
    ASSUME TypeOK, NEW k \in Scope[table], Change(k)
    PROVE  \E kind, pre, post :
              Faithful(k, kind, pre, post) /\ Read(k, kind, pre, post)
<1>0. \A e \in EntriesOf(k) : e \in Entry /\ e # NoEntry
  BY EntryValue DEF EntriesOf
<1>1. CASE Create(k)
  BY <1>0, <1>1 DEF Create, Faithful
<1>2. CASE Update(k)
  BY <1>0, <1>2 DEF Update, Faithful
<1>3. CASE Remove(k)
  BY <1>3 DEF Remove, Faithful
<1>4. CASE Restore(k)
  <2>1. k \notin live
    BY <1>4 DEF Restore, TypeOK
  <2> QED
    BY <1>0, <1>4, <2>1 DEF Restore, Faithful
<1> QED
  BY <1>1, <1>2, <1>3, <1>4 DEF Change

\* One iteration keeps the types and the conjuncts about each kind of table.
LEMMA ReadInv ==
    ASSUME Inv, NEW k, NEW kind, NEW pre, NEW post,
           Faithful(k, kind, pre, post), Read(k, kind, pre, post)
    PROVE  Inv'
<1>1. PICK gone \in IF table = "ttl" THEN BOOLEAN ELSE {FALSE} :
        /\ phase = "reading"
        /\ Put(RowsOf(table, [key |-> k, kind |-> kind, pre |-> pre,
                              post |-> post, lost |-> gone]))
        /\ latest' = IF post = NoEntry THEN latest
                     ELSE [latest EXCEPT ![k] = post]
        /\ live' = IF post = NoEntry THEN live \ {k} ELSE live \cup {k}
        /\ archived' = archived \ {k}
        /\ touched' = touched \cup {k}
        /\ restored' = IF kind = "restored" THEN restored \cup {k}
                       ELSE restored
        /\ lost' = IF gone THEN lost \cup {k} ELSE lost
        /\ UNCHANGED << table, phase, out >>
  BY DEF Read
<1> DEFINE c   == [key |-> k, kind |-> kind, pre |-> pre, post |-> post,
                   lost |-> gone]
           new == RowsOf(table, c)
<1>2. /\ TypeOK /\ OutInv /\ RowsHaveKeys /\ ReportInv
      /\ SignersReported /\ RestoredExactly
  BY DEF Inv
<1>3. /\ table \in Tables /\ table' = table
      /\ k \in Keys /\ k \in Scope[table] /\ Scope[table] \subseteq Keys
      /\ gone \in BOOLEAN /\ (table # "ttl" => ~gone)
  BY <1>1, <1>2, SnapshotAssumption DEF TypeOK, Faithful
<1>4. /\ c.key = k /\ c.kind = kind /\ c.pre = pre /\ c.post = post
      /\ c.lost = gone
  OBVIOUS
<1>5. k \in live => latest[k] \in Entry
  BY <1>2, <1>3 DEF TypeOK
<1>6. ProperChange(c)
  <2>1. pre \in Entry \cup {NoEntry} /\ post \in Entry \cup {NoEntry}
    BY <1>5 DEF Faithful
  <2>2. c \in ChangeRecord
    BY <1>3, <2>1 DEF Faithful, ChangeRecord
  <2>3. Active(c) \in Entry
    BY <1>4, <1>5, <2>1 DEF Active, Faithful
  <2> QED
    BY <2>2, <2>3 DEF ProperChange
<1>7. /\ latest' \in [Scope[table] -> Entry \cup {NoEntry}]
      /\ latest'[k] = Active(c)
      /\ \A j \in Scope[table] \ {k} : latest'[j] = latest[j]
      /\ post = NoEntry => latest'[k] = latest[k]
  BY <1>1, <1>2, <1>3, <1>4, <1>6 DEF TypeOK, Faithful, Active
<1>8. /\ k \in live' <=> post # NoEntry
      /\ \A j : j # k => (j \in live' <=> j \in live)
  BY <1>1
<1>9. /\ DOMAIN rows' = DOMAIN new \cup DOMAIN rows
      /\ \A r \in DOMAIN new : rows'[r] = new[r]
      /\ \A r \in DOMAIN rows \ DOMAIN new : rows'[r] = rows[r]
  <2>1. rows' = Over(new, rows)
    BY <1>1 DEF Put
  <2> HIDE DEF new
  <2> QED
    BY <2>1 DEF Over
<1> HIDE DEF new, c
<1>10. table \in DOMAIN TypeOf => Renders(table, c, new)
  BY <1>6, RowsOfChange DEF new
<1>11. table = "account_signers" =>
          /\ k.type # "account" => DOMAIN new = {}
          /\ k.type = "account" =>
                DOMAIN new = {<< k.owner, s >> : s \in Active(c).signers}
          /\ \A r \in DOMAIN new :
                /\ new[r].value = Active(c).value
                /\ new[r].deleted <=> post = NoEntry
                /\ new[r] \in Row
  <2> SUFFICES ASSUME table = "account_signers" PROVE <1>11!2
    OBVIOUS
  <2>1. new = SignerRows(c)
    BY DEF new, RowsOf
  <2>2. Active(c).value \in Values
    BY <1>6, EntryValue DEF ProperChange
  <2>3. CASE k.type = "account"
    <3>1. Listed(c, "account")
      BY <1>3, <1>4, <2>3, SnapshotAssumption DEF Listed
    <3> DEFINE v == [value |-> Active(c).value, deleted |-> c.post = NoEntry]
    <3>2. v \in Row /\ v.value = Active(c).value
                    /\ (v.deleted <=> post = NoEntry)
      BY <1>4, <2>2 DEF Row
    <3>3. new = [r \in {<< k.owner, s >> : s \in Active(c).signers} |-> v]
      BY <1>4, <2>1, <3>1 DEF SignerRows
    <3> HIDE DEF v
    <3> QED
      BY <2>3, <3>2, <3>3
  <2>4. CASE k.type # "account"
    BY <1>4, <2>1, <2>4 DEF SignerRows, Listed, NoRows
  <2> QED
    BY <2>3, <2>4
<1>12. table = "restored_keys" =>
          /\ DOMAIN new = IF kind = "restored" THEN {KeyHash(k)} ELSE {}
          /\ \A r \in DOMAIN new : new[r] \in Row
  <2> SUFFICES ASSUME table = "restored_keys" PROVE <1>12!2
    OBVIOUS
  <2>1. new = RestoredKeyRows(c)
    BY DEF new, RowsOf
  <2>2. CASE kind = "restored"
    <3>1. post # NoEntry /\ post \in Entry
      BY <2>2 DEF Faithful
    <3> DEFINE v == [value |-> post.value, deleted |-> FALSE]
    <3>2. v \in Row
      BY <3>1, EntryValue DEF Row
    <3>3. new = Only(KeyHash(k), v)
      BY <1>4, <2>1, <2>2, <3>1 DEF RestoredKeyRows
    <3> HIDE DEF v
    <3> QED
      BY <2>2, <3>2, <3>3 DEF Only
  <2>3. CASE kind # "restored"
    BY <1>4, <2>1, <2>3 DEF RestoredKeyRows, NoRows
  <2> QED
    BY <2>2, <2>3
<1>13. DOMAIN new \subseteq RowKeys /\ \A r \in DOMAIN new : new[r] \in Row
  <2>1. CASE table \in DOMAIN TypeOf
    BY <1>3, <1>4, <1>10, <2>1, KeyShape DEF Renders
  <2>2. CASE table = "account_signers"
    <3>1. Active(c).signers \subseteq Nat
      BY <1>6, SnapshotAssumption DEF ProperChange, Entry
    <3> QED
      BY <1>3, <1>11, <2>2, <3>1, KeyShape DEF RowKeys
  <2>3. CASE table = "restored_keys"
    BY <1>3, <1>12, <2>3, KeyShape
  <2> QED
    BY <1>3, <2>1, <2>2, <2>3 DEF Tables, TypeOf
<1>14. TypeOK'
  <2>1. /\ live' \subseteq Scope[table] /\ archived' \subseteq Scope[table]
        /\ touched' \subseteq Scope[table]
        /\ restored' \subseteq touched' /\ lost' \subseteq touched'
        /\ live' \cap archived' = {}
    BY <1>1, <1>2, <1>3 DEF TypeOK
  <2>2. \A j \in live' : latest'[j] # NoEntry
    <3>1. k \in live' => latest'[k] # NoEntry
      BY <1>6, <1>7, EntryValue DEF ProperChange
    <3> QED
      BY <1>2, <1>7, <1>8, <2>1, <3>1 DEF TypeOK
  <2>3. DOMAIN rows' \subseteq RowKeys /\ \A r \in DOMAIN rows' : rows'[r] \in Row
    BY <1>2, <1>9, <1>13 DEF TypeOK
  <2>4. out' \in Seq(DOMAIN rows')
    BY <1>1, <1>2 DEF OutInv
  <2> QED
    BY <1>1, <1>3, <1>7, <2>1, <2>2, <2>3, <2>4 DEF TypeOK
<1>15. OutInv'
  BY <1>1, <1>2 DEF OutInv
<1>16. RowsHaveKeys'
  <2> SUFFICES ASSUME table \in DOMAIN TypeOf, NEW r \in DOMAIN rows'
               PROVE  \E j \in touched' : j.type = TypeOf[table] /\ RowKey(j) = r
    BY <1>3 DEF RowsHaveKeys
  <2>1. CASE r \in DOMAIN new
    BY <1>1, <1>4, <1>10, <2>1 DEF Renders
  <2>2. CASE r \in DOMAIN rows
    BY <1>1, <1>2, <2>2 DEF RowsHaveKeys
  <2> QED
    BY <1>9, <2>1, <2>2
<1>17. ReportInv'
  <2> SUFFICES ASSUME NEW j \in Reported'
               PROVE  LET r == RowKey(j) IN
                      /\ r \in DOMAIN rows' => rows'[r].value = latest'[j].value
                      /\ j \in live' \/ table \in Flagged \cup {"native_balances"}
                         => r \in DOMAIN rows'
                      /\ r \in DOMAIN rows' /\ table \in Flagged
                         => (rows'[r].deleted <=> j \notin live')
    BY <1>3 DEF ReportInv, LatestStateReported, EveryChangeReported,
                DeletedIffGone
  <2>1. /\ j \in touched' \ lost' /\ table \in DOMAIN TypeOf
        /\ j.type = TypeOf[table] /\ j.kind # "unlisted"
        /\ \A i \in Scope[table] :
              i.type = j.type /\ RowKey(i) = RowKey(j) => i = j
    BY <1>3 DEF Reported
  <2>2. ASSUME j \in touched
        PROVE  /\ j \in Reported
               /\ RowKey(j) \in DOMAIN rows
                    => rows[RowKey(j)].value = latest[j].value
               /\ j \in live \/ table \in Flagged \cup {"native_balances"}
                    => RowKey(j) \in DOMAIN rows
               /\ RowKey(j) \in DOMAIN rows /\ table \in Flagged
                    => (rows[RowKey(j)].deleted <=> j \notin live)
    <3>1. j \in Reported
      BY <1>1, <2>1, <2>2 DEF Reported
    <3> QED
      BY <1>2, <3>1 DEF ReportInv, LatestStateReported, EveryChangeReported,
                        DeletedIffGone
  <2>3. CASE j # k
    <3>1. j \in touched /\ j \in Scope[table]
      BY <1>1, <1>2, <2>1, <2>3 DEF TypeOK
    <3>2. RowKey(j) \notin DOMAIN new
      BY <1>3, <1>4, <1>10, <2>1, <2>3 DEF Renders
    <3> QED
      BY <1>7, <1>8, <1>9, <2>2, <2>3, <3>1, <3>2
  <2>4. CASE j = k /\ RowKey(k) \in DOMAIN new
    <3>1. /\ new[RowKey(k)].value = Active(c).value
          /\ table \in Flagged => (new[RowKey(k)].deleted <=> post = NoEntry)
      BY <1>4, <1>10, <2>1, <2>4 DEF Renders
    <3> QED
      BY <1>7, <1>8, <1>9, <2>4, <3>1
  \* The change left no row: a removal, in a table of live entries.
  <2>5. CASE j = k /\ RowKey(k) \notin DOMAIN new
    <3>1. gone => k \in lost'
      BY <1>1
    <3>2. Listed(c, TypeOf[table]) /\ ~c.lost
      BY <1>4, <2>1, <2>5, <3>1 DEF Listed
    <3>3. post = NoEntry /\ table \notin Flagged \cup {"native_balances"}
      BY <1>4, <1>10, <2>1, <2>5, <3>2 DEF Renders
    <3>4. k \notin live' /\ latest'[k] = latest[k]
      BY <1>7, <1>8, <3>3
    <3>5. ASSUME RowKey(k) \in DOMAIN rows
          PROVE  rows[RowKey(k)].value = latest[k].value
      <4>1. PICK i \in touched : i.type = TypeOf[table] /\ RowKey(i) = RowKey(k)
        BY <1>2, <2>1, <3>5 DEF RowsHaveKeys
      <4>2. i = k
        BY <1>2, <2>1, <2>5, <4>1 DEF TypeOK
      <4> QED
        BY <2>2, <2>5, <3>5, <4>1, <4>2
    <3> QED
      BY <1>9, <2>5, <3>3, <3>4, <3>5
  <2> QED
    BY <2>3, <2>4, <2>5
<1>18. SignersReported'
  <2> SUFFICES ASSUME table = "account_signers", NEW j \in touched',
                      j.type = "account", NEW s \in latest'[j].signers
               PROVE  /\ << j.owner, s >> \in DOMAIN rows'
                      /\ rows'[<< j.owner, s >>].value = latest'[j].value
                      /\ rows'[<< j.owner, s >>].deleted <=> j \notin live'
    BY <1>3 DEF SignersReported
  <2>1. CASE j = k
    BY <1>7, <1>8, <1>9, <1>11, <2>1
  <2>2. CASE j # k
    <3>1. j \in touched /\ j \in Keys /\ j \in Scope[table]
      BY <1>1, <1>2, <1>3, <2>2 DEF TypeOK
    <3>2. k.type = "account" => j.owner # k.owner
      BY <1>3, <2>2, <3>1, SnapshotAssumption DEF KeyHash
    <3>3. << j.owner, s >> \notin DOMAIN new
      BY <1>11, <3>2
    <3>4. s \in latest[j].signers /\ latest'[j] = latest[j]
      BY <1>7, <2>2, <3>1
    <3>5. /\ << j.owner, s >> \in DOMAIN rows
          /\ rows[<< j.owner, s >>].value = latest[j].value
          /\ rows[<< j.owner, s >>].deleted <=> j \notin live
      BY <1>2, <3>1, <3>4 DEF SignersReported
    <3> QED
      BY <1>8, <1>9, <2>2, <3>3, <3>4, <3>5
  <2> QED
    BY <2>1, <2>2
<1>19. RestoredExactly'
  BY <1>1, <1>2, <1>3, <1>9, <1>12 DEF RestoredExactly
<1> QED
  BY <1>14, <1>15, <1>16, <1>17, <1>18, <1>19 DEF Inv

\* Writing out the map leaves the rest alone.
LEMMA WriteInv ==
    ASSUME Inv, EndOfChanges \/ WriteRow \/ Return \/ Terminated
    PROVE  Inv'
<1>1. /\ TypeOK /\ OutInv /\ RowsHaveKeys /\ ReportInv
      /\ SignersReported /\ RestoredExactly
  BY DEF Inv
<1>2. UNCHANGED << table, ledger, rows >>
  BY DEF EndOfChanges, WriteRow, Return, Terminated, vars
<1>3. TypeOK' /\ OutInv'
  <2>1. CASE EndOfChanges
    BY <1>1, <1>2, <2>1 DEF EndOfChanges, TypeOK, OutInv, Unwritten, ledger
  <2>2. CASE WriteRow
    <3>1. PICK r \in Unwritten :
            /\ \A q \in Unwritten : q = r \/ Precedes(r, q)
            /\ out' = Append(out, r)
      BY <2>2 DEF WriteRow
    <3>2. r \in DOMAIN rows /\ phase = "writing" /\ phase' = phase
      BY <2>2 DEF Unwritten, WriteRow
    <3>3. out \in Seq(DOMAIN rows) /\ out' \in Seq(DOMAIN rows)
      BY <1>1, <3>1, <3>2 DEF TypeOK
    <3>4. /\ DOMAIN out = 1 .. Len(out) /\ Len(out) \in Nat
          /\ DOMAIN out' = 1 .. Len(out) + 1
          /\ \A i \in DOMAIN out : out'[i] = out[i]
          /\ out'[Len(out) + 1] = r
      BY <3>1, <3>2, <3>3
    <3>5. Unwritten' \subseteq Unwritten \ {r}
      BY <1>2, <3>4 DEF Unwritten
    <3>6. \A i \in DOMAIN out' : \A q \in Unwritten' : Precedes(out'[i], q)
      BY <1>1, <3>1, <3>4, <3>5 DEF OutInv
    <3>7. \A i, j \in DOMAIN out' : i < j => Precedes(out'[i], out'[j])
      <4> SUFFICES ASSUME NEW i \in DOMAIN out', NEW j \in DOMAIN out', i < j
                   PROVE  Precedes(out'[i], out'[j])
        OBVIOUS
      <4>1. i \in DOMAIN out
        BY <3>4
      <4>2. CASE j \in DOMAIN out
        BY <1>1, <3>4, <4>1, <4>2 DEF OutInv
      <4>3. CASE j = Len(out) + 1
        BY <1>1, <3>4, <4>1, <4>3 DEF OutInv
      <4> QED
        BY <3>4, <4>2, <4>3
    <3> QED
      BY <1>1, <1>2, <3>2, <3>3, <3>6, <3>7 DEF TypeOK, OutInv, ledger
  <2>3. CASE Return
    BY <1>1, <1>2, <2>3 DEF Return, TypeOK, OutInv, Unwritten, ledger
  <2>4. CASE Terminated
    BY <1>1, <2>4 DEF Terminated, vars, ledger, TypeOK, OutInv, Unwritten
  <2> QED
    BY <2>1, <2>2, <2>3, <2>4
<1>4. RowsHaveKeys' /\ SignersReported' /\ RestoredExactly'
  BY <1>1, <1>2 DEF ledger, RowsHaveKeys, SignersReported, RestoredExactly
<1>5. ReportInv'
  BY <1>1, <1>2 DEF ledger, ReportInv, LatestStateReported,
                    EveryChangeReported, DeletedIffGone, Reported
<1> QED
  BY <1>3, <1>4, <1>5 DEF Inv

LEMMA StutterInv == Inv /\ UNCHANGED vars => Inv'
  BY DEF vars, ledger, Inv, TypeOK, OutInv, Unwritten, RowsHaveKeys, ReportInv,
         LatestStateReported, EveryChangeReported, DeletedIffGone, Reported,
         SignersReported, RestoredExactly

THEOREM Invariance == Spec => []Inv
<1>1. Inv /\ [Next]_vars => Inv'
  <2> SUFFICES ASSUME Inv, [Next]_vars PROVE Inv'
    OBVIOUS
  <2>1. ASSUME NEW k \in Scope[table], Change(k) PROVE Inv'
    BY <2>1, ChangeIsRead, ReadInv DEF Inv
  <2>2. CASE UNCHANGED vars
    BY <2>2, StutterInv
  <2> QED
    BY <2>1, <2>2, WriteInv DEF Next
<1> QED
  BY <1>1, InitInv, PTL DEF Spec

\* Every state of the loop and its result are of the declared kinds.
THEOREM TypeCorrect == Spec => []TypeOK
  BY Invariance, PTL DEF Inv

\* The rows show the last state of each entry that has a row key of its own,
\* for any number of changes in any order.
THEOREM LatestState == Spec => []LatestStateReported
  BY Invariance, PTL DEF Inv, ReportInv

\* No changed live entry is missing.
THEOREM Complete == Spec => []EveryChangeReported
  BY Invariance, PTL DEF Inv, ReportInv

\* The deleted column tells whether the entry is gone.
THEOREM Deleted == Spec => []DeletedIffGone
  BY Invariance, PTL DEF Inv, ReportInv

\* The signers of changed accounts are complete and current.
THEOREM SignersComplete == Spec => []SignersReported
  BY Invariance, PTL DEF Inv

\* restored_keys is the set of restored keys.
THEOREM Restored == Spec => []RestoredExactly
  BY Invariance, PTL DEF Inv

\* The output is sorted and complete.
THEOREM Sorted == Spec => []OutputSorted
<1>1. Inv => OutputSorted
  <2> SUFFICES ASSUME Inv, phase = "done"
               PROVE  /\ {out[i] : i \in DOMAIN out} = DOMAIN rows
                      /\ \A i, j \in DOMAIN out : i < j => Precedes(out[i], out[j])
    BY DEF OutputSorted
  <2>1. Unwritten = {} /\ out \in Seq(DOMAIN rows)
    BY DEF Inv, OutInv, TypeOK
  <2>2. \A i \in DOMAIN out : out[i] \in DOMAIN rows
    BY <2>1
  <2>3. {out[i] : i \in DOMAIN out} = DOMAIN rows
    BY <2>1, <2>2 DEF Unwritten
  <2> QED
    BY <2>3 DEF Inv, OutInv
<1> QED
  BY <1>1, Invariance, PTL
=============================================================================
