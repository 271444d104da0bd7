----------------------- MODULE IndependentExtraction -----------------------
(***************************************************************************)
(* What ExtractAll promises, with no goroutines, streams, locks or wait    *)
(* groups: every extractor settles once, on a result that depends on the   *)
(* ledger alone, as if it ran by itself; the caller gets all results or,   *)
(* if the ledger bytes do not unmarshal, none.                             *)
(***************************************************************************)
EXTENDS ExtractorTable, Integers

CONSTANTS Callers, MaxItems, Endings

VARIABLES items, ending, phase, result

vars == << items, ending, phase, result >>

Pending == [kind |-> "pending", rows |-> 0]
Rows(n) == [kind |-> "rows", rows |-> n]
Err     == [kind |-> "error", rows |-> 0]
Panic   == [kind |-> "panic", rows |-> 0]

\* Results of the extractor's body on n elements.
BodyResults(e, n) ==
    {Rows(n), Panic} \cup (IF e \in BodyErrs THEN {Err} ELSE {})

\* All a failed walk leaves: a panicking reader is reported by the extractor
\* that ran it, and is a complete-looking ledger to the others.
Results(e) ==
    IF ~UsesStream(e) THEN BodyResults(e, 0)
    ELSE LET s == StreamOf(e) IN
         CASE ending[s] = "eof" -> BodyResults(e, items[s])
           [] ending[s] \in {"openErr", "readErr"} ->
                IF e \in Swallowers THEN {Rows(0)} ELSE {Err}
           [] OTHER -> BodyResults(e, items[s])

Init ==
    /\ items \in [Streams -> 0 .. MaxItems]
    /\ ending \in [Streams -> Endings]
    /\ phase = "running"
    /\ result = [e \in Callers |-> Pending]

Reject ==
    /\ phase = "running"
    /\ \A e \in Callers : result[e] = Pending
    /\ phase' = "rejected"
    /\ UNCHANGED << items, ending, result >>

Settle(e) ==
    /\ phase = "running"
    /\ result[e] = Pending
    /\ \E r \in Results(e) : result' = [result EXCEPT ![e] = r]
    /\ UNCHANGED << items, ending, phase >>

Deliver ==
    /\ phase = "running"
    /\ \A e \in Callers : result[e] # Pending
    /\ phase' = "returned"
    /\ UNCHANGED << items, ending, result >>

Next == Reject \/ Deliver \/ \E e \in Callers : Settle(e)

Fairness == WF_vars(Deliver) /\ \A e \in Callers : WF_vars(Settle(e))

\* What may happen, and with it what must.
Safety == Init /\ [][Next]_vars

Spec == Safety /\ Fairness
=============================================================================
