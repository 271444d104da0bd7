----------------------------- MODULE ExtractAll -----------------------------
(***************************************************************************)
(* ExtractAll and its byte-level entry points (extract.go, view_input.go): *)
(* the caller's goroutine unmarshals the ledger, starts one goroutine per  *)
(* extractor, waits for the WaitGroup and returns; an extractor goroutine  *)
(* walks its shared stream (LedgerInput), runs its body, stores its rows   *)
(* or appends its error under the mutex, and counts itself out.            *)
(*                                                                         *)
(* The extractors are the members of Callers, any part of the table.       *)
(***************************************************************************)
EXTENDS LedgerInput, Integers, FiniteSets

ASSUME ExtractAllAssumption ==
    Callers \subseteq AllExtractors /\ IsFiniteSet(Callers)

VARIABLES main,    \* the goroutine of the caller of ExtractAll
          pc,      \* the goroutine of each extractor
          fault,   \* what the extractor has to report
          locked,  \* sync.Mutex mu
          loaded,  \* the errs slice an append has read
          wg,      \* sync.WaitGroup
          table,   \* LedgerData: number of rows stored, Unset before
          errs     \* []error, as the set of its reports

allVars == << main, pc, fault, locked, loaded, wg, table, errs >>
vars    == << streamVars, allVars >>

Unset == -1

Init ==
    /\ StreamInit
    /\ main = "unmarshal"
    /\ pc = [e \in Callers |-> "unborn"]
    /\ fault = [e \in Callers |-> "none"]
    /\ locked = FALSE
    /\ loaded = [e \in Callers |-> {}]
    /\ wg = 0
    /\ table = [e \in Callers |-> Unset]
    /\ errs = {}

-----------------------------------------------------------------------------
(* The caller's goroutine. *)

\* NewLedgerInputFromXDR or Decode; a ledger that does not unmarshal starts
\* nothing and is the only error.
Unmarshal ==
    /\ main = "unmarshal"
    /\ \/ main' = "spawning" /\ UNCHANGED errs
       \/ /\ main' = "rejected"
          /\ errs' = {[from |-> "unmarshal", kind |-> "error"]}
    /\ UNCHANGED << streamVars, pc, fault, locked, loaded, wg, table >>

\* run(): wg.Add(1) and the go statement, in the order of the collect calls.
Spawn(e) ==
    /\ main = "spawning"
    /\ pc[e] = "unborn"
    /\ \A f \in Callers : pc[f] = "unborn" => Position(e) <= Position(f)
    /\ wg' = wg + 1
    /\ pc' = [pc EXCEPT ![e] = "start"]
    /\ UNCHANGED << streamVars, main, fault, locked, loaded, table, errs >>

\* Mutation: ExtractAll returns without wg.Wait().
WaitSkipped ==
    /\ main = "spawning"
    /\ \A e \in Callers : pc[e] # "unborn"
    /\ main' = "returned"
    /\ UNCHANGED << streamVars, pc, fault, locked, loaded, wg, table, errs >>

\* wg.Wait() and the return.
Wait ==
    /\ main = "spawning"
    /\ \A e \in Callers : pc[e] # "unborn"
    /\ wg = 0
    /\ main' = "returned"
    /\ UNCHANGED << streamVars, pc, fault, locked, loaded, wg, table, errs >>

-----------------------------------------------------------------------------
(* An extractor's goroutine. *)

\* The extractor asks for its stream, or starts on input.LCM directly.
Start(e) ==
    /\ pc[e] = "start"
    /\ IF UsesStream(e)
       THEN Call(e, StreamOf(e)) /\ pc' = [pc EXCEPT ![e] = "fetch"]
       ELSE UNCHANGED streamVars /\ pc' = [pc EXCEPT ![e] = "body"]
    /\ UNCHANGED << main, fault, locked, loaded, wg, table, errs >>

Fetch(e) ==
    /\ pc[e] = "fetch"
    /\ StreamStep(e)
    /\ UNCHANGED allVars

\* The "if err != nil" after the call, or the panic that came out of it.
Fetched(e) ==
    /\ pc[e] = "fetch"
    /\ \/ /\ at[e] = "returned" /\ ~answer[e].err
          /\ pc' = [pc EXCEPT ![e] = "body"]
          /\ UNCHANGED fault
       \/ /\ at[e] = "returned" /\ answer[e].err /\ e \in Swallowers
          /\ pc' = [pc EXCEPT ![e] = "store"]
          /\ UNCHANGED fault
       \/ /\ at[e] = "returned" /\ answer[e].err /\ e \notin Swallowers
          /\ pc' = [pc EXCEPT ![e] = "report"]
          /\ fault' = [fault EXCEPT ![e] = "error"]
       \/ /\ at[e] = "panicked"
          /\ pc' = [pc EXCEPT ![e] = "report"]
          /\ fault' = [fault EXCEPT ![e] = "panic"]
    /\ UNCHANGED << streamVars, main, locked, loaded, wg, table, errs >>

\* Mutation: a failure of the body is reported without its reason.
BodyUnexplained(e) ==
    /\ pc[e] = "body"
    /\ \/ pc' = [pc EXCEPT ![e] = "store"]
       \/ pc' = [pc EXCEPT ![e] = "report"]
    /\ UNCHANGED << streamVars, main, fault, locked, loaded, wg, table, errs >>

\* The extractor's own work: rows, an error, or a panic of an XDR accessor.
Body(e) ==
    /\ pc[e] = "body"
    /\ \/ /\ pc' = [pc EXCEPT ![e] = "store"]
          /\ UNCHANGED fault
       \/ /\ pc' = [pc EXCEPT ![e] = "report"]
          /\ \/ e \in BodyErrs /\ fault' = [fault EXCEPT ![e] = "error"]
             \/ fault' = [fault EXCEPT ![e] = "panic"]
    /\ UNCHANGED << streamVars, main, locked, loaded, wg, table, errs >>

RowsOf(e) == IF UsesStream(e) /\ ~answer[e].err THEN answer[e].rows ELSE 0

\* Mutation: append to errs without taking the mutex.
LockMissing(e) ==
    /\ locked' = TRUE
    /\ \/ /\ pc[e] = "store"
          /\ pc' = [pc EXCEPT ![e] = "storing"]
          /\ UNCHANGED loaded
       \/ /\ pc[e] = "report"
          /\ pc' = [pc EXCEPT ![e] = "reporting"]
          /\ loaded' = [loaded EXCEPT ![e] = errs]
    /\ UNCHANGED << streamVars, main, fault, wg, table, errs >>

\* mu.Lock(), and for a report the read of errs that append starts with.
Lock(e) ==
    /\ ~locked
    /\ locked' = TRUE
    /\ \/ /\ pc[e] = "store"
          /\ pc' = [pc EXCEPT ![e] = "storing"]
          /\ UNCHANGED loaded
       \/ /\ pc[e] = "report"
          /\ pc' = [pc EXCEPT ![e] = "reporting"]
          /\ loaded' = [loaded EXCEPT ![e] = errs]
    /\ UNCHANGED << streamVars, main, fault, wg, table, errs >>

\* data.X = rows; mu.Unlock()
Store(e) ==
    /\ pc[e] = "storing"
    /\ table' = [table EXCEPT ![e] = RowsOf(e)]
    /\ locked' = FALSE
    /\ pc' = [pc EXCEPT ![e] = "deferred"]
    /\ UNCHANGED << streamVars, main, fault, loaded, wg, errs >>

\* errs = append(errs, ...); mu.Unlock(), in collect or in the recover.
Report(e) ==
    /\ pc[e] = "reporting"
    /\ errs' = loaded[e] \cup {[from |-> e, kind |-> fault[e]]}
    /\ locked' = FALSE
    /\ pc' = [pc EXCEPT ![e] = "deferred"]
    /\ UNCHANGED << streamVars, main, fault, loaded, wg, table >>

\* The deferred wg.Done(), which runs after the deferred recover.
Done(e) ==
    /\ pc[e] = "deferred"
    /\ wg' = wg - 1
    /\ pc' = [pc EXCEPT ![e] = "done"]
    /\ UNCHANGED << streamVars, main, fault, locked, loaded, table, errs >>

Goroutine(e) ==
    \/ Start(e)
    \/ Fetch(e)
    \/ Fetched(e)
    \/ Body(e)
    \/ Lock(e)
    \/ Store(e)
    \/ Report(e)
    \/ Done(e)

Main == Unmarshal \/ Wait \/ \E e \in Callers : Spawn(e)

\* The caller of ExtractAll has its result; nothing is left to run.
Terminated == main \in {"returned", "rejected"} /\ UNCHANGED vars

Next == Main \/ Terminated \/ \E e \in Callers : Goroutine(e)

\* The Go scheduler runs every goroutine that can run.
Fairness == WF_vars(Main) /\ \A e \in Callers : WF_vars(Goroutine(e))

Spec == Init /\ [][Next]_vars /\ Fairness

-----------------------------------------------------------------------------

Reports(e) == {r \in errs : r.from = e}
InCritical(e) == pc[e] \in {"storing", "reporting"}
Settled(e) == pc[e] \in {"deferred", "done"}
Returned == main \in {"returned", "rejected"}

AllReports ==
    [from : Callers \cup {"unmarshal"}, kind : {"error", "panic"}]

TypeOK ==
    /\ StreamTypeOK
    /\ main \in {"unmarshal", "spawning", "returned", "rejected"}
    /\ pc \in [Callers -> {"unborn", "start", "fetch", "body", "store",
                           "storing", "report", "reporting", "deferred",
                           "done"}]
    /\ fault \in [Callers -> {"none", "error", "panic"}]
    /\ locked \in BOOLEAN
    /\ wg \in Int
    /\ table \in [Callers -> Int]
    /\ loaded \in [Callers -> SUBSET AllReports]
    /\ errs \subseteq AllReports

\* Once ExtractAll has returned, every extractor either has its rows in
\* LedgerData or has exactly one report in errs: no append is lost, no panic
\* goes unreported, nothing is both stored and reported (extract.go:166-189).
EveryExtractorAccounted ==
    main = "returned" =>
        \A e \in Callers :
            \/ table[e] # Unset /\ Reports(e) = {}
            \/ table[e] = Unset /\ \E r \in errs : Reports(e) = {r}

\* Strengthening of EveryExtractorAccounted: the mutex is held by the one
\* goroutine in its critical section, whose copy of errs is current; an
\* extractor is accounted for exactly when its goroutine is past that section;
\* the WaitGroup counts the goroutines between go and Done.
Live == {e \in Callers : pc[e] \notin {"unborn", "done"}}

MutexInv ==
    /\ \A e \in Callers : InCritical(e) => locked
    /\ \A e, f \in Callers : InCritical(e) /\ InCritical(f) => e = f
    /\ \A e \in Callers : pc[e] = "reporting" => loaded[e] = errs

AccountInv ==
    \A e \in Callers :
        /\ pc[e] \in {"report", "reporting"} => fault[e] # "none"
        /\ IF Settled(e)
           THEN \/ table[e] # Unset /\ Reports(e) = {}
                \/ table[e] = Unset /\ \E r \in errs : Reports(e) = {r}
           ELSE table[e] = Unset /\ Reports(e) = {}

MainInv ==
    /\ wg = Cardinality(Live)
    /\ main \in {"unmarshal", "rejected"} =>
           \A e \in Callers : pc[e] = "unborn"
    /\ main = "returned" => \A e \in Callers : pc[e] = "done"

Inv == TypeOK /\ StreamInv /\ MutexInv /\ AccountInv /\ MainInv

\* The caller reads data and errs without the mutex: nothing an extractor
\* does may still change them then (wg.Done after the deferred recover).
ResultIsFinal ==
    [][Returned => UNCHANGED << table, errs >>]_vars

\* ExtractAll returns: no goroutine is stuck in Do, on the mutex or on the
\* WaitGroup, even when the goroutine that ran the decode panicked.
Returns == <>Returned

\* The parallel extraction with shared decodes implements one extractor
\* after the other, each on its own.
resultBar ==
    [e \in Callers |->
        IF table[e] # Unset THEN [kind |-> "rows", rows |-> table[e]]
        ELSE IF Reports(e) # {}
        THEN [kind |-> (CHOOSE r \in errs : r.from = e).kind, rows |-> 0]
        ELSE [kind |-> "pending", rows |-> 0]]

phaseBar == IF Returned THEN main ELSE "running"

Independent == INSTANCE IndependentExtraction
                   WITH phase <- phaseBar, result <- resultBar

ExtractsIndependently == Independent!Spec

\* What the refinement rests on beside Inv: a goroutine on its way to the
\* mutex carries a result that the extractor could have had on its own.
CarriesResult(e) ==
    /\ pc[e] = "fetch" => UsesStream(e) /\ on[e] = StreamOf(e)
    /\ at[e] = "panicked" => ending[on[e]] \in Panics
    /\ pc[e] = "body" =>
           Independent!BodyResults(e, RowsOf(e)) \subseteq Independent!Results(e)
    /\ pc[e] \in {"store", "storing"} =>
           Independent!Rows(RowsOf(e)) \in Independent!Results(e)
    /\ pc[e] \in {"report", "reporting"} =>
           [kind |-> fault[e], rows |-> 0] \in Independent!Results(e)

ResultInv == \A e \in Callers : CarriesResult(e)

\* "Errors from individual extractors are collected" (extract.go:159): an
\* extractor whose stream could not be decoded is named in the errors.
BrokenStreamReported ==
    main = "returned" =>
        \A e \in Callers :
            UsesStream(e) /\ ending[StreamOf(e)] # "eof"
                => \E r \in errs : r.from = e
=============================================================================
