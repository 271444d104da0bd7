---------------------------- MODULE LedgerInput ----------------------------
(***************************************************************************)
(* The two decode-once streams of a LedgerInput, Transactions() and        *)
(* Changes(), called by concurrent goroutines (extract.go).                *)
(*                                                                         *)
(* Each stream is guarded by a sync.Once: the first caller runs the        *)
(* decode loop, later ones block in Do until it has returned -- normally   *)
(* or by a panic -- and then read the remembered slice and error.  What    *)
(* the reader finds in the ledger is fixed before the first call: items[s] *)
(* readable elements, and then the way the walk ends.                      *)
(***************************************************************************)
EXTENDS ExtractorTable

CONSTANTS Callers,   \* the goroutines sharing this LedgerInput
          MaxItems,  \* bound on the elements of one stream
          Endings    \* the ways a walk may end

OpenFailures == {"openErr", "openPanic"}
Failures     == {"openErr", "readErr"}
Panics       == {"openPanic", "readPanic"}
AllEndings   == {"eof"} \cup Failures \cup Panics

ASSUME LedgerInputAssumption ==
    /\ MaxItems \in Nat
    /\ Endings \subseteq AllEndings

VARIABLES items, ending,     \* the ledger under the reader; never assigned
          once, rows, serr,  \* per stream: the Once, len(slice), err # nil
          at, on, answer     \* per caller: progress in the call

ledgerVars == << items, ending >>
cacheVars  == << once, rows, serr >>
callVars   == << at, on, answer >>
streamVars == << ledgerVars, cacheVars, callVars >>

NoAnswer == [rows |-> 0, err |-> FALSE]

StreamInit ==
    /\ items \in [Streams -> 0 .. MaxItems]
    /\ ending \in [Streams -> Endings]
    /\ \A s \in Streams : ending[s] \in OpenFailures => items[s] = 0
    /\ once = [s \in Streams |-> "new"]
    /\ rows = [s \in Streams |-> 0]
    /\ serr = [s \in Streams |-> FALSE]
    /\ at = [c \in Callers |-> "idle"]
    /\ on = [c \in Callers |-> "transactions"]
    /\ answer = [c \in Callers |-> NoAnswer]

-----------------------------------------------------------------------------

\* Enter input.Transactions() or input.Changes().
Call(c, s) ==
    /\ at[c] = "idle"
    /\ at' = [at EXCEPT ![c] = "calling"]
    /\ on' = [on EXCEPT ![c] = s]
    /\ UNCHANGED << ledgerVars, cacheVars, answer >>

\* Mutation: a hand-rolled guard that decodes again while the slice is nil.
ClaimWhileEmpty(c) ==
    /\ at[c] = "calling"
    /\ once[on[c]] # "running" /\ rows[on[c]] = 0
    /\ once' = [once EXCEPT ![on[c]] = "running"]
    /\ at' = [at EXCEPT ![c] = "opening"]
    /\ UNCHANGED << ledgerVars, rows, serr, on, answer >>

\* Once.Do picks the first caller to run the decode function.
Claim(c) ==
    /\ at[c] = "calling"
    /\ once[on[c]] = "new"
    /\ once' = [once EXCEPT ![on[c]] = "running"]
    /\ at' = [at EXCEPT ![c] = "opening"]
    /\ UNCHANGED << ledgerVars, rows, serr, on, answer >>

\* Mutation: "done" is not set by a defer, so a panic leaves the Once running.
FinishDoUndeferred(c, next, failed) ==
    /\ once' = [once EXCEPT ![on[c]] =
                    IF next = "panicked" THEN "running" ELSE "done"]
    /\ serr' = [serr EXCEPT ![on[c]] = failed]
    /\ at' = [at EXCEPT ![c] = next]

\* The decode function ends; Once marks itself done on a panic as well.
FinishDo(c, next, failed) ==
    /\ once' = [once EXCEPT ![on[c]] = "done"]
    /\ serr' = [serr EXCEPT ![on[c]] = failed]
    /\ at' = [at EXCEPT ![c] = next]

OpenReader(c) ==
    /\ at[c] = "opening"
    /\ \/ /\ ending[on[c]] \notin OpenFailures
          /\ at' = [at EXCEPT ![c] = "reading"]
          /\ UNCHANGED << once, serr >>
       \/ /\ ending[on[c]] = "openErr"
          /\ FinishDo(c, "calling", TRUE)
       \/ /\ ending[on[c]] = "openPanic"
          /\ FinishDo(c, "panicked", FALSE)
    /\ UNCHANGED << ledgerVars, rows, on, answer >>

ReadNext(c) ==
    /\ at[c] = "reading"
    /\ rows[on[c]] < items[on[c]]
    /\ rows' = [rows EXCEPT ![on[c]] = @ + 1]
    /\ UNCHANGED << ledgerVars, once, serr, callVars >>

\* io.EOF, a read error (the partial slice stays), or a panic in Read.
ReadEnd(c) ==
    /\ at[c] = "reading"
    /\ rows[on[c]] = items[on[c]]
    /\ \/ ending[on[c]] = "eof" /\ FinishDo(c, "calling", FALSE)
       \/ ending[on[c]] = "readErr" /\ FinishDo(c, "calling", TRUE)
       \/ ending[on[c]] = "readPanic" /\ FinishDo(c, "panicked", FALSE)
    /\ UNCHANGED << ledgerVars, rows, on, answer >>

\* Mutation: a later caller does not wait for the one that decodes.
ReturnEarly(c) ==
    /\ at[c] = "calling"
    /\ once[on[c]] # "new"
    /\ answer' = [answer EXCEPT ![c] = [rows |-> rows[on[c]],
                                        err  |-> serr[on[c]]]]
    /\ at' = [at EXCEPT ![c] = "returned"]
    /\ UNCHANGED << ledgerVars, cacheVars, on >>

\* Mutation: the decode error is not remembered for later callers.
ReturnForgetful(c) ==
    /\ at[c] = "calling"
    /\ once[on[c]] = "done"
    /\ answer' = [answer EXCEPT ![c] = [rows |-> rows[on[c]], err |-> FALSE]]
    /\ at' = [at EXCEPT ![c] = "returned"]
    /\ UNCHANGED << ledgerVars, cacheVars, on >>

\* Do has returned: hand out the remembered slice and error.
Return(c) ==
    /\ at[c] = "calling"
    /\ once[on[c]] = "done"
    /\ answer' = [answer EXCEPT ![c] = [rows |-> rows[on[c]],
                                        err  |-> serr[on[c]]]]
    /\ at' = [at EXCEPT ![c] = "returned"]
    /\ UNCHANGED << ledgerVars, cacheVars, on >>

StreamStep(c) ==
    \/ Claim(c)
    \/ OpenReader(c)
    \/ ReadNext(c)
    \/ ReadEnd(c)
    \/ Return(c)

-----------------------------------------------------------------------------

Decoding(c) == at[c] \in {"opening", "reading"}

StreamTypeOK ==
    /\ items \in [Streams -> 0 .. MaxItems]
    /\ ending \in [Streams -> Endings]
    /\ once \in [Streams -> {"new", "running", "done"}]
    /\ rows \in [Streams -> 0 .. MaxItems]
    /\ serr \in [Streams -> BOOLEAN]
    /\ at \in [Callers -> {"idle", "calling", "opening", "reading",
                           "returned", "panicked"}]
    /\ on \in [Callers -> Streams]
    /\ answer \in [Callers -> [rows : 0 .. MaxItems, err : BOOLEAN]]

\* What a private, complete walk of the stream would have returned.
PrivateWalk(s) == [rows |-> items[s], err |-> ending[s] # "eof"]

\* Whoever gets an answer gets what a walk of its own would have returned,
\* unless the reader panics: waiting in Do never exposes a half-built slice,
\* and a remembered error is never lost (extract.go, Transactions, Changes).
SharedWalkIsPrivateWalk ==
    \A c \in Callers :
        at[c] = "returned" /\ ending[on[c]] \notin Panics
            => answer[c] = PrivateWalk(on[c])

\* The same without the exception: "A decode failure is remembered too, so a
\* broken ledger fails the same way for every caller" (extract.go:51).
BrokenLedgerFailsForEveryCaller ==
    \A c \in Callers :
        at[c] = "returned" /\ ending[on[c]] # "eof" => answer[c].err

\* Strengthening of SharedWalkIsPrivateWalk: who may be decoding, and what the
\* cache holds before, during and after the walk.
CacheInv(s) ==
    /\ ending[s] \in OpenFailures => items[s] = 0
    /\ once[s] = "new" => rows[s] = 0
    /\ once[s] # "done" => ~serr[s]
    /\ once[s] = "done" => /\ rows[s] = items[s]
                           /\ serr[s] <=> ending[s] \in Failures

CallInv(c) ==
    /\ Decoding(c) => once[on[c]] = "running"
    /\ at[c] = "opening" => rows[on[c]] = 0
    /\ at[c] = "reading" => ending[on[c]] \notin OpenFailures
    /\ at[c] = "returned" =>
          /\ once[on[c]] = "done"
          /\ answer[c] = [rows |-> rows[on[c]], err |-> serr[on[c]]]

OneDecoder ==
    \A c, d \in Callers :
        Decoding(c) /\ Decoding(d) /\ on[c] = on[d] => c = d

StreamInv ==
    /\ \A s \in Streams : CacheInv(s)
    /\ \A c \in Callers : CallInv(c)
    /\ OneDecoder

\* A stream is walked once: after Do has returned, its slice and error are
\* never assigned again, whoever calls (extract.go, transactionsOnce).
DecodedOnce ==
    [][\A s \in Streams :
          once[s] = "done" =>
              /\ once'[s] = "done"
              /\ rows'[s] = rows[s]
              /\ serr'[s] = serr[s]]_streamVars
=============================================================================
