-------------------------- MODULE ExtractAllProofs --------------------------
(***************************************************************************)
(* ExtractAll for every set of extractors, every ledger and every way its  *)
(* walks may end.  The invariant Inv of ExtractAll is proved in four       *)
(* lemmas, one per part, the streams first, as LedgerInput has them; the   *)
(* properties of the runs follow from it.                                  *)
(***************************************************************************)
EXTENDS ExtractAll, FiniteSetTheorems, TLAPS

-----------------------------------------------------------------------------
(* What the steps of LedgerInput preserve, for every set of callers, every *)
(* number of elements and every way a walk may end.                        *)

\* The type and the contents of the cache, before any caller arrives.
LEMMA StreamInitCorrect ==
    StreamInit => StreamTypeOK /\ StreamInv
  BY LedgerInputAssumption
     DEF StreamInit, StreamTypeOK, StreamInv, CacheInv, CallInv, OneDecoder,
         Decoding, NoAnswer, Streams, OpenFailures, Failures

\* Entering Transactions() or Changes() disturbs nobody's answer.
LEMMA CallStep ==
    ASSUME StreamTypeOK, StreamInv, NEW c \in Callers, NEW s \in Streams,
           Call(c, s)
    PROVE  StreamTypeOK' /\ StreamInv'
  BY DEF Call, StreamTypeOK, StreamInv, CacheInv, CallInv, OneDecoder,
         Decoding, ledgerVars, cacheVars

\* A step of a caller inside Transactions() or Changes() preserves the types.
LEMMA StreamStepType ==
    ASSUME StreamTypeOK, NEW c \in Callers, StreamStep(c)
    PROVE  StreamTypeOK'
<1> USE DEF StreamTypeOK, ledgerVars, cacheVars, callVars
<1>1. CASE Claim(c)
  BY <1>1 DEF Claim
<1>2. CASE OpenReader(c)
  BY <1>2 DEF OpenReader, FinishDo
<1>3. CASE ReadNext(c)
  BY <1>3, LedgerInputAssumption DEF ReadNext
<1>4. CASE ReadEnd(c)
  BY <1>4 DEF ReadEnd, FinishDo
<1>5. CASE Return(c)
  BY <1>5 DEF Return
<1> QED
  BY <1>1, <1>2, <1>3, <1>4, <1>5 DEF StreamStep

\* ... and the strengthening of SharedWalkIsPrivateWalk: the caller in Do is
\* the only one to touch its stream, and the answers handed out before are of
\* streams that are done.
LEMMA StreamStepInv ==
    ASSUME StreamTypeOK, StreamInv, NEW c \in Callers, StreamStep(c)
    PROVE  StreamInv'
<1> USE DEF StreamTypeOK, StreamInv, Decoding, ledgerVars, cacheVars, callVars
<1>1. ASSUME NEW s \in Streams
      PROVE  CacheInv(s)'
  <2> USE DEF CacheInv, CallInv
  <2>1. CASE Claim(c)
    BY <2>1 DEF Claim
  <2>2. CASE OpenReader(c)
    BY <2>2 DEF OpenReader, FinishDo, OpenFailures, Failures
  <2>3. CASE ReadNext(c)
    BY <2>3 DEF ReadNext
  <2>4. CASE ReadEnd(c)
    BY <2>4 DEF ReadEnd, FinishDo, Failures
  <2>5. CASE Return(c)
    BY <2>5 DEF Return
  <2> QED
    BY <2>1, <2>2, <2>3, <2>4, <2>5 DEF StreamStep
<1>2. ASSUME NEW d \in Callers
      PROVE  CallInv(d)'
  <2> USE DEF CallInv, OneDecoder
  <2>1. CASE Claim(c)
    BY <2>1 DEF Claim, CacheInv
  <2>2. CASE OpenReader(c)
    BY <2>2 DEF OpenReader, FinishDo
  <2>3. CASE ReadNext(c)
    BY <2>3 DEF ReadNext
  <2>4. CASE ReadEnd(c)
    BY <2>4 DEF ReadEnd, FinishDo
  <2>5. CASE Return(c)
    BY <2>5 DEF Return
  <2> QED
    BY <2>1, <2>2, <2>3, <2>4, <2>5 DEF StreamStep
<1>3. OneDecoder'
  <2> USE DEF CallInv, OneDecoder
  <2>1. CASE Claim(c)
    BY <2>1 DEF Claim
  <2>2. CASE OpenReader(c)
    BY <2>2 DEF OpenReader, FinishDo
  <2>3. CASE ReadNext(c)
    BY <2>3 DEF ReadNext
  <2>4. CASE ReadEnd(c)
    BY <2>4 DEF ReadEnd, FinishDo
  <2>5. CASE Return(c)
    BY <2>5 DEF Return
  <2> QED
    BY <2>1, <2>2, <2>3, <2>4, <2>5 DEF StreamStep
<1> QED
  BY <1>1, <1>2, <1>3

\* The invariant says that every answer is that of a private walk.
LEMMA StreamInvImpliesPrivateWalk ==
    ASSUME StreamTypeOK, StreamInv
    PROVE  SharedWalkIsPrivateWalk
<1> SUFFICES ASSUME NEW c \in Callers, at[c] = "returned",
                    ending[on[c]] \notin Panics
             PROVE  answer[c] = PrivateWalk(on[c])
  BY DEF SharedWalkIsPrivateWalk
<1> DEFINE s == on[c]
<1>1. /\ s \in Streams
      /\ once[s] = "done"
      /\ answer[c] = [rows |-> rows[s], err |-> serr[s]]
  BY DEF StreamTypeOK, StreamInv, CallInv
<1>2. rows[s] = items[s] /\ (serr[s] <=> ending[s] \in Failures)
  BY <1>1 DEF StreamInv, CacheInv
<1>3. ending[s] \in Failures <=> ending[s] # "eof"
  BY <1>1, LedgerInputAssumption
     DEF StreamTypeOK, AllEndings, Failures, Panics
<1>4. serr[s] = (ending[s] # "eof")
  <2>1. serr[s] \in BOOLEAN
    BY <1>1 DEF StreamTypeOK
  <2>2. serr[s] <=> ending[s] # "eof"
    BY <1>2, <1>3
  <2> QED
    BY <2>1, <2>2
<1> QED
  BY <1>1, <1>2, <1>4 DEF PrivateWalk

\* No step of a caller touches a stream whose Once is done.
LEMMA StreamStepKeepsDone ==
    ASSUME StreamTypeOK, StreamInv, NEW c \in Callers, StreamStep(c),
           NEW s \in Streams, once[s] = "done"
    PROVE  once'[s] = "done" /\ rows'[s] = rows[s] /\ serr'[s] = serr[s]
<1> USE DEF StreamTypeOK, StreamInv, CallInv, Decoding, ledgerVars, cacheVars,
            callVars
<1>1. CASE Claim(c)
  BY <1>1 DEF Claim
<1>2. CASE OpenReader(c)
  BY <1>2 DEF OpenReader, FinishDo
<1>3. CASE ReadNext(c)
  BY <1>3 DEF ReadNext
<1>4. CASE ReadEnd(c)
  BY <1>4 DEF ReadEnd, FinishDo
<1>5. CASE Return(c)
  BY <1>5 DEF Return
<1> QED
  BY <1>1, <1>2, <1>3, <1>4, <1>5 DEF StreamStep

-----------------------------------------------------------------------------
(* ExtractAll on top of it.                                                 *)

\* Every step is one of these.
LEMMA StepCases ==
    ASSUME [Next]_vars
    PROVE  \/ Unmarshal
           \/ Wait
           \/ \E e \in Callers : Spawn(e)
           \/ \E e \in Callers : Start(e)
           \/ \E e \in Callers : Fetch(e)
           \/ \E e \in Callers : Fetched(e)
           \/ \E e \in Callers : Body(e)
           \/ \E e \in Callers : Lock(e)
           \/ \E e \in Callers : Store(e)
           \/ \E e \in Callers : Report(e)
           \/ \E e \in Callers : Done(e)
           \/ UNCHANGED vars
  BY DEF Next, Main, Goroutine, Terminated

\* The streams are moved by Start and Fetch only.
LEMMA StreamPartStep ==
    ASSUME StreamTypeOK, StreamInv, [Next]_vars
    PROVE  StreamTypeOK' /\ StreamInv'
<1>1. CASE UNCHANGED streamVars
  BY <1>1 DEF StreamTypeOK, StreamInv, CacheInv, CallInv, OneDecoder,
              Decoding, streamVars, ledgerVars, cacheVars, callVars
<1>2. ASSUME NEW e \in Callers, Start(e), UsesStream(e)
      PROVE  StreamTypeOK' /\ StreamInv'
  <2>1. StreamOf(e) \in Streams
    BY DEF StreamOf, Streams
  <2> QED
    BY <1>2, <2>1, CallStep DEF Start
<1>3. ASSUME NEW e \in Callers, Fetch(e)
      PROVE  StreamTypeOK' /\ StreamInv'
  BY <1>3, StreamStepType, StreamStepInv DEF Fetch
<1> QED
  BY <1>1, <1>2, <1>3, StepCases
     DEF vars, Unmarshal, Wait, Spawn, Start, Fetched, Body, Lock, Store,
         Report, Done

\* Types are preserved.
LEMMA TypeStep ==
    ASSUME TypeOK, StreamInv, AccountInv, [Next]_vars
    PROVE  TypeOK'
<1> USE DEF TypeOK
<1>0. StreamTypeOK'
  BY StreamPartStep
<1>1. CASE Unmarshal
  BY <1>0, <1>1 DEF Unmarshal, AllReports
<1>2. CASE Wait
  BY <1>0, <1>2 DEF Wait
<1>3. ASSUME NEW e \in Callers, Spawn(e) PROVE TypeOK'
  BY <1>0, <1>3 DEF Spawn
<1>4. ASSUME NEW e \in Callers, Start(e) PROVE TypeOK'
  BY <1>0, <1>4 DEF Start
<1>5. ASSUME NEW e \in Callers, Fetch(e) PROVE TypeOK'
  BY <1>0, <1>5 DEF Fetch, allVars
<1>6. ASSUME NEW e \in Callers, Fetched(e) PROVE TypeOK'
  BY <1>0, <1>6 DEF Fetched
<1>7. ASSUME NEW e \in Callers, Body(e) PROVE TypeOK'
  BY <1>0, <1>7 DEF Body
<1>8. ASSUME NEW e \in Callers, Lock(e) PROVE TypeOK'
  BY <1>0, <1>8 DEF Lock
<1>9. ASSUME NEW e \in Callers, Store(e) PROVE TypeOK'
  <2>1. RowsOf(e) \in Int
    BY LedgerInputAssumption DEF RowsOf, StreamTypeOK
  <2> QED
    BY <1>0, <1>9, <2>1 DEF Store
<1>10. ASSUME NEW e \in Callers, Report(e) PROVE TypeOK'
  <2>1. fault[e] \in {"error", "panic"}
    BY <1>10 DEF Report, AccountInv
  <2>2. errs' \subseteq AllReports
    BY <1>10, <2>1 DEF Report, AllReports
  <2> QED
    BY <1>0, <1>10, <2>2 DEF Report
<1>11. ASSUME NEW e \in Callers, Done(e) PROVE TypeOK'
  BY <1>0, <1>11 DEF Done
<1>12. CASE UNCHANGED vars
  BY <1>0, <1>12 DEF vars, allVars
<1> QED
  BY <1>1, <1>2, <1>3, <1>4, <1>5, <1>6, <1>7, <1>8, <1>9, <1>10, <1>11,
     <1>12, StepCases

\* Steps that leave mu, the program counters and the two slices alone keep
\* what the invariant says of them.
LEMMA MutexStep ==
    ASSUME TypeOK, MutexInv, MainInv, [Next]_vars
    PROVE  MutexInv'
<1> USE DEF TypeOK, MutexInv, InCritical
<1>1. CASE Unmarshal
  BY <1>1 DEF Unmarshal, MainInv
<1>2. CASE Wait
  BY <1>2 DEF Wait
<1>3. ASSUME NEW e \in Callers, Spawn(e) PROVE MutexInv'
  BY <1>3 DEF Spawn
<1>4. ASSUME NEW e \in Callers, Start(e) PROVE MutexInv'
  BY <1>4 DEF Start
<1>5. ASSUME NEW e \in Callers, Fetch(e) PROVE MutexInv'
  BY <1>5 DEF Fetch, allVars
<1>6. ASSUME NEW e \in Callers, Fetched(e) PROVE MutexInv'
  BY <1>6 DEF Fetched
<1>7. ASSUME NEW e \in Callers, Body(e) PROVE MutexInv'
  BY <1>7 DEF Body
<1>8. ASSUME NEW e \in Callers, Lock(e) PROVE MutexInv'
  <2>1. \A f \in Callers : ~InCritical(f)
    BY <1>8 DEF Lock
  <2>2. CASE pc[e] = "store" /\ loaded' = loaded
    BY <1>8, <2>1, <2>2 DEF Lock
  <2>3. CASE pc[e] = "report" /\ loaded' = [loaded EXCEPT ![e] = errs]
    BY <1>8, <2>1, <2>3 DEF Lock
  <2> QED
    BY <1>8, <2>2, <2>3 DEF Lock
<1>9. ASSUME NEW e \in Callers, Store(e) PROVE MutexInv'
  BY <1>9 DEF Store
<1>10. ASSUME NEW e \in Callers, Report(e) PROVE MutexInv'
  BY <1>10 DEF Report
<1>11. ASSUME NEW e \in Callers, Done(e) PROVE MutexInv'
  BY <1>11 DEF Done
<1>12. CASE UNCHANGED vars
  BY <1>12 DEF vars, allVars
<1> QED
  BY <1>1, <1>2, <1>3, <1>4, <1>5, <1>6, <1>7, <1>8, <1>9, <1>10, <1>11,
     <1>12, StepCases

\* An extractor is accounted for by the one step that ends its critical
\* section, and by no other.
LEMMA AccountStep ==
    ASSUME TypeOK, StreamInv, MutexInv, AccountInv, MainInv, [Next]_vars
    PROVE  AccountInv'
<1> USE DEF TypeOK, AccountInv, Settled, Reports
<1>1. CASE Unmarshal
  <2>1. \A e \in Callers : e # "unmarshal"
    BY ExtractAllAssumption
       DEF AllExtractors, TransactionReaders, ChangeReaders, LedgerReaders
  <2>2. \A e \in Callers : pc[e] = "unborn"
    BY <1>1 DEF Unmarshal, MainInv
  <2> QED
    BY <1>1, <2>1, <2>2 DEF Unmarshal
<1>2. CASE Wait
  BY <1>2 DEF Wait
<1>3. ASSUME NEW e \in Callers, Spawn(e) PROVE AccountInv'
  BY <1>3 DEF Spawn
<1>4. ASSUME NEW e \in Callers, Start(e) PROVE AccountInv'
  BY <1>4 DEF Start
<1>5. ASSUME NEW e \in Callers, Fetch(e) PROVE AccountInv'
  BY <1>5 DEF Fetch, allVars
<1>6. ASSUME NEW e \in Callers, Fetched(e) PROVE AccountInv'
  BY <1>6 DEF Fetched
<1>7. ASSUME NEW e \in Callers, Body(e) PROVE AccountInv'
  BY <1>7 DEF Body
<1>8. ASSUME NEW e \in Callers, Lock(e) PROVE AccountInv'
  BY <1>8 DEF Lock
<1>9. ASSUME NEW e \in Callers, Store(e) PROVE AccountInv'
  <2>1. RowsOf(e) # Unset
    BY LedgerInputAssumption DEF RowsOf, StreamTypeOK, Unset
  <2> QED
    BY <1>9, <2>1 DEF Store
<1>10. ASSUME NEW e \in Callers, Report(e) PROVE AccountInv'
  <2> DEFINE r == [from |-> e, kind |-> fault[e]]
  <2>1. errs' = errs \cup {r} /\ r.from = e
    BY <1>10 DEF Report, MutexInv
  <2>2. Reports(e)' = {r} /\ table'[e] = Unset
    BY <1>10, <2>1 DEF Report
  <2>3. \A f \in Callers \ {e} : Reports(f)' = Reports(f)
    BY <2>1
  <2>4. /\ table' = table /\ fault' = fault
        /\ pc' = [pc EXCEPT ![e] = "deferred"]
        /\ r \in errs'
    BY <1>10, <2>1 DEF Report
  <2> QED
    BY <2>2, <2>3, <2>4
<1>11. ASSUME NEW e \in Callers, Done(e) PROVE AccountInv'
  BY <1>11 DEF Done
<1>12. CASE UNCHANGED vars
  BY <1>12 DEF vars, allVars
<1> QED
  BY <1>1, <1>2, <1>3, <1>4, <1>5, <1>6, <1>7, <1>8, <1>9, <1>10, <1>11,
     <1>12, StepCases

\* The WaitGroup counts the goroutines between go and wg.Done, so that it is
\* zero after the last Spawn only if every goroutine is done.
LEMMA MainStep ==
    ASSUME TypeOK, MainInv, [Next]_vars
    PROVE  MainInv'
<1> USE DEF TypeOK, MainInv
<1>0. IsFiniteSet(Live) /\ Cardinality(Live) \in Nat
  BY ExtractAllAssumption, FS_Subset, FS_CardinalityType DEF Live
<1>1. CASE Unmarshal
  BY <1>1 DEF Unmarshal, Live
<1>2. CASE Wait
  <2>1. Live = {}
    BY <1>0, <1>2, FS_EmptySet DEF Wait
  <2>2. \A e \in Callers : pc[e] = "done"
    BY <1>2, <2>1 DEF Wait, Live
  <2> QED
    BY <1>2, <2>2 DEF Wait, Live
<1>3. ASSUME NEW e \in Callers, Spawn(e) PROVE MainInv'
  <2>1. Live' = Live \cup {e} /\ e \notin Live
    BY <1>3 DEF Spawn, Live
  <2>2. wg' = Cardinality(Live')
    BY <1>0, <1>3, <2>1, FS_AddElement DEF Spawn
  <2> QED
    BY <1>3, <2>2 DEF Spawn
<1>4. ASSUME NEW e \in Callers, pc[e] \notin {"unborn", "deferred", "done"},
             NEW next \in {"fetch", "body", "store", "storing", "report",
                           "reporting", "deferred"},
             pc' = [pc EXCEPT ![e] = next], main' = main, wg' = wg
      PROVE  MainInv'
  <2>1. Live' = Live
    BY <1>4 DEF Live
  <2> QED
    BY <1>4, <2>1
<1>5. ASSUME NEW e \in Callers, Start(e) PROVE MainInv'
  BY <1>4, <1>5 DEF Start
<1>6. ASSUME NEW e \in Callers, Fetched(e) PROVE MainInv'
  BY <1>4, <1>6 DEF Fetched
<1>7. ASSUME NEW e \in Callers, Body(e) PROVE MainInv'
  BY <1>4, <1>7 DEF Body
<1>8. ASSUME NEW e \in Callers, Lock(e) PROVE MainInv'
  BY <1>4, <1>8 DEF Lock
<1>9. ASSUME NEW e \in Callers, Store(e) PROVE MainInv'
  BY <1>4, <1>9 DEF Store
<1>10. ASSUME NEW e \in Callers, Report(e) PROVE MainInv'
  BY <1>4, <1>10 DEF Report
<1>11. ASSUME NEW e \in Callers, Done(e) PROVE MainInv'
  <2>1. Live' = Live \ {e} /\ e \in Live
    BY <1>11 DEF Done, Live
  <2>2. wg' = Cardinality(Live')
    BY <1>0, <1>11, <2>1, FS_RemoveElement DEF Done
  <2> QED
    BY <1>11, <2>2 DEF Done
<1>12. CASE UNCHANGED << main, pc, wg >>
  BY <1>12 DEF Live
<1> QED
  BY <1>1, <1>2, <1>3, <1>5, <1>6, <1>7, <1>8, <1>9, <1>10, <1>11, <1>12,
     StepCases DEF vars, allVars, Fetch

\* The initial state satisfies the invariant.
LEMMA InitCorrect ==
    Init => Inv
<1> SUFFICES ASSUME Init
             PROVE  Inv
  OBVIOUS
<1>1. StreamTypeOK /\ StreamInv
  BY StreamInitCorrect DEF Init
<1>2. Live = {}
  BY DEF Init, Live
<1>3. MainInv
  BY <1>2, FS_EmptySet DEF Init, MainInv
<1>4. TypeOK
  <2>1. /\ loaded \in [Callers -> SUBSET AllReports]
        /\ errs \subseteq AllReports
    BY DEF Init
  <2>2. table \in [Callers -> Int] /\ wg \in Int
    BY DEF Init, Unset
  <2>3. main \in {"unmarshal"} /\ locked \in BOOLEAN
    BY DEF Init
  <2>4. pc \in [Callers -> {"unborn"}] /\ fault \in [Callers -> {"none"}]
    BY DEF Init
  <2> QED
    BY <1>1, <2>1, <2>2, <2>3, <2>4 DEF TypeOK
<1>5. MutexInv
  BY DEF Init, MutexInv, InCritical
<1>6. AccountInv
  BY DEF Init, AccountInv, Settled, Reports
<1> QED
  BY <1>1, <1>3, <1>4, <1>5, <1>6 DEF Inv

\* Inv is inductive: it holds in every reachable state of ExtractAll.
THEOREM Invariance == Spec => []Inv
<1>1. Inv /\ [Next]_vars => Inv'
  <2> SUFFICES ASSUME Inv, [Next]_vars
               PROVE  Inv'
    OBVIOUS
  <2>1. StreamInv'
    BY StreamPartStep DEF Inv, TypeOK
  <2>2. TypeOK'
    BY TypeStep DEF Inv
  <2>3. MutexInv'
    BY MutexStep DEF Inv
  <2>4. AccountInv'
    BY AccountStep DEF Inv
  <2>5. MainInv'
    BY MainStep DEF Inv
  <2> QED
    BY <2>1, <2>2, <2>3, <2>4, <2>5 DEF Inv
<1> QED
  BY <1>1, InitCorrect, PTL DEF Spec

\* The types of extract.go's shared state.
THEOREM TypeCorrect == Spec => []TypeOK
<1>1. Inv => TypeOK
  BY DEF Inv
<1> QED
  BY <1>1, Invariance, PTL

\* When ExtractAll returns, every extractor has its rows in LedgerData or
\* exactly one report in errs, whatever fails and however the goroutines
\* interleave (extract.go:166-189).
THEOREM Accounted == Spec => []EveryExtractorAccounted
<1>1. Inv => EveryExtractorAccounted
  BY DEF Inv, AccountInv, MainInv, Settled, EveryExtractorAccounted
<1> QED
  BY <1>1, Invariance, PTL

\* Sharing a decode is invisible: every answer of Transactions and Changes is
\* that of a walk of the caller's own, unless the reader panics.
THEOREM SharedWalk == Spec => []SharedWalkIsPrivateWalk
<1>1. Inv => SharedWalkIsPrivateWalk
  BY StreamInvImpliesPrivateWalk DEF Inv, TypeOK
<1> QED
  BY <1>1, Invariance, PTL

\* What ExtractAll has returned does not change any more.
THEOREM Final == Spec => ResultIsFinal
<1>1. ASSUME Inv, [Next]_vars, Returned
      PROVE  UNCHANGED << table, errs >>
  <2>1. main # "spawning" /\ main # "unmarshal"
    BY <1>1 DEF Returned
  <2>2. \A e \in Callers : pc[e] \in {"unborn", "done"}
    BY <1>1 DEF Inv, MainInv, Returned
  <2> QED
    BY <1>1, <2>1, <2>2, StepCases
       DEF Unmarshal, Wait, Spawn, Start, Fetch, Fetched, Body, Lock, Store,
           Report, Done, vars, allVars
<1>2. Inv /\ [Next]_vars => [Returned => UNCHANGED << table, errs >>]_vars
  BY <1>1
<1> QED
  BY <1>2, Invariance, PTL DEF Spec, ResultIsFinal

\* A stream is decoded once; nothing changes it afterwards.
THEOREM Decoded == Spec => DecodedOnce
<1> DEFINE Kept == \A s \in Streams :
                       once[s] = "done" =>
                           /\ once'[s] = "done"
                           /\ rows'[s] = rows[s]
                           /\ serr'[s] = serr[s]
<1>1. ASSUME Inv, [Next]_vars
      PROVE  Kept
  <2>1. CASE UNCHANGED streamVars
    BY <2>1 DEF streamVars, cacheVars
  <2>2. ASSUME NEW e \in Callers, Start(e), UsesStream(e)
        PROVE  Kept
    BY <2>2 DEF Start, Call, cacheVars
  <2>3. ASSUME NEW e \in Callers, Fetch(e)
        PROVE  Kept
    BY <1>1, <2>3, StreamStepKeepsDone DEF Fetch, Inv, TypeOK
  <2> QED
    BY <1>1, <2>1, <2>2, <2>3, StepCases
       DEF vars, Unmarshal, Wait, Spawn, Start, Fetched, Body, Lock, Store,
           Report, Done
<1>2. Inv /\ [Next]_vars => [Kept]_streamVars
  BY <1>1
<1> QED
  BY <1>2, Invariance, PTL DEF Spec, DecodedOnce

-----------------------------------------------------------------------------
(* Refinement: the parallel extraction implements the independent one.      *)

\* Both specifications read the one table of extractors.
LEMMA SameTable ==
    /\ \A e : (Independent!UsesStream(e) <=> UsesStream(e)) /\ Independent!StreamOf(e) = StreamOf(e)
    /\ Independent!Swallowers = Swallowers /\ Independent!BodyErrs = BodyErrs
    /\ Independent!Streams = Streams
  BY DEF Independent!UsesStream, UsesStream, Independent!StreamOf, StreamOf,
         Independent!Swallowers, Swallowers, Independent!BodyErrs, BodyErrs,
         Independent!Streams, Streams,
         Independent!LedgerReaders, LedgerReaders, Independent!ChangeReaders, ChangeReaders,
         Independent!TransactionReaders, TransactionReaders

\* What an extractor takes from its stream.
LEMMA FetchedResult ==
    ASSUME Inv, ResultInv, NEW e \in Callers, Fetched(e)
    PROVE  /\ pc'[e] = "body" =>
                  Independent!BodyResults(e, RowsOf(e)) \subseteq Independent!Results(e)
           /\ pc'[e] = "store" => Independent!Rows(RowsOf(e)) \in Independent!Results(e)
           /\ pc'[e] = "report" =>
                  [kind |-> fault'[e], rows |-> 0] \in Independent!Results(e)
<1>1. pc[e] = "fetch" /\ UsesStream(e) /\ on[e] = StreamOf(e)
  BY DEF Fetched, ResultInv, CarriesResult
<1>2. PICK s \in Streams : s = StreamOf(e)
  BY DEF StreamOf, Streams
<1>3. ending[s] \in AllEndings /\ items[s] \in Nat /\ fault[e] \in {"none", "error", "panic"}
  BY LedgerInputAssumption DEF Inv, TypeOK, StreamTypeOK
<1>4. Independent!Results(e) =
         IF ending[s] = "eof" THEN Independent!BodyResults(e, items[s])
         ELSE IF ending[s] \in {"openErr", "readErr"}
         THEN IF e \in Swallowers THEN {Independent!Rows(0)} ELSE {Independent!Err}
         ELSE Independent!BodyResults(e, items[s])
  BY <1>1, <1>2, SameTable DEF Independent!Results
<1>5. CASE at[e] = "returned"
  <2>1. answer[e].rows = items[s] /\ (answer[e].err <=> ending[s] \in Failures)
    <3>1. CacheInv(s) /\ CallInv(e) /\ on[e] = s
      BY <1>1, <1>2 DEF Inv, StreamInv
    <3>2. once[s] = "done" /\ answer[e] = [rows |-> rows[s], err |-> serr[s]]
      BY <1>5, <3>1 DEF CallInv
    <3> QED
      BY <3>1, <3>2 DEF CacheInv
  <2>2. RowsOf(e) = IF answer[e].err THEN 0 ELSE items[s]
    BY <1>1, <2>1 DEF RowsOf
  <2>3. CASE ~answer[e].err
    BY <1>1, <1>3, <1>4, <1>5, <2>1, <2>2, <2>3
       DEF Fetched, Inv, TypeOK, Failures, AllEndings, Panics
  <2>4. CASE answer[e].err /\ e \in Swallowers
    BY <1>1, <1>3, <1>4, <1>5, <2>1, <2>2, <2>4
       DEF Fetched, Inv, TypeOK, Failures
  <2>5. CASE answer[e].err /\ e \notin Swallowers
    BY <1>1, <1>3, <1>4, <1>5, <2>1, <2>2, <2>5
       DEF Fetched, Inv, TypeOK, Failures, Independent!Err
  <2> QED
    BY <2>3, <2>4, <2>5
<1>6. CASE at[e] = "panicked"
  <2>1. ending[s] \in Panics
    BY <1>1, <1>2, <1>6 DEF ResultInv, CarriesResult
  <2>2. Independent!Panic \in Independent!Results(e)
    BY <1>4, <2>1 DEF Panics, Independent!BodyResults
  <2>3. pc'[e] = "report" /\ fault'[e] = "panic"
    BY <1>1, <1>6 DEF Fetched, Inv, TypeOK
  <2> QED
    BY <2>2, <2>3 DEF Independent!Panic
<1> QED
  BY <1>5, <1>6 DEF Fetched

\* A goroutine that stands still carries the same result.
LEMMA ResultKept ==
    ASSUME NEW e \in Callers, CarriesResult(e), UNCHANGED ledgerVars,
           UNCHANGED << pc[e], at[e], on[e], answer[e], fault[e] >>
    PROVE  CarriesResult(e)'
<1>1. \A f : (UsesStream(f)' <=> UsesStream(f)) /\ StreamOf(f)' = StreamOf(f)
  BY DEF UsesStream, StreamOf
<1>2. RowsOf(e)' = RowsOf(e)
  BY <1>1 DEF RowsOf
<1>3. Independent!Results(e)' = Independent!Results(e)
  BY SameTable DEF Independent!Results, Independent!BodyResults, Independent!Rows,
                   Independent!Err, Independent!Panic, ledgerVars
<1>4. PICK n : n = RowsOf(e)
  OBVIOUS
<1>5. /\ Independent!BodyResults(e, RowsOf(e))' = Independent!BodyResults(e, RowsOf(e))
      /\ Independent!Rows(RowsOf(e))' = Independent!Rows(RowsOf(e))
  BY <1>2 DEF Independent!BodyResults, Independent!Rows, Independent!Err, Independent!Panic
<1> QED
  BY <1>1, <1>3, <1>5 DEF CarriesResult, ledgerVars

\* In a call, the caller moves alone, and panics where the reader does.
LEMMA StreamStepMoves ==
    ASSUME StreamTypeOK, NEW c \in Callers, StreamStep(c)
    PROVE  /\ UNCHANGED << ledgerVars, on >>
           /\ \A d \in Callers \ {c} : at'[d] = at[d] /\ answer'[d] = answer[d]
           /\ at[c] # "panicked" /\ (at'[c] = "panicked" => ending[on[c]] \in Panics)
<1> USE DEF StreamTypeOK, Panics, callVars
<1>1. CASE Claim(c)
  BY <1>1 DEF Claim
<1>2. CASE OpenReader(c)
  BY <1>2 DEF OpenReader, FinishDo
<1>3. CASE ReadNext(c)
  BY <1>3 DEF ReadNext
<1>4. CASE ReadEnd(c)
  BY <1>4 DEF ReadEnd, FinishDo
<1>5. CASE Return(c)
  BY <1>5 DEF Return
<1> QED
  BY <1>1, <1>2, <1>3, <1>4, <1>5 DEF StreamStep

\* A step of one goroutine, which leaves the others and the ledger alone.
LEMMA ResultStep ==
    ASSUME Inv, ResultInv, [Next]_vars
    PROVE  ResultInv'
<1> SUFFICES ASSUME NEW f \in Callers PROVE CarriesResult(f)'
  BY DEF ResultInv
<1>0. CarriesResult(f) /\ TypeOK /\ StreamTypeOK
  BY DEF ResultInv, Inv, TypeOK
<1>1. CASE Unmarshal \/ Wait \/ UNCHANGED vars
  <2>1. UNCHANGED ledgerVars /\ UNCHANGED << pc[f], at[f], on[f], answer[f], fault[f] >>
    BY <1>1 DEF Unmarshal, Wait, vars, streamVars, allVars, callVars, ledgerVars
  <2> QED
    BY <1>0, <2>1, ResultKept
<1>2. ASSUME NEW e \in Callers, e # f,
             Spawn(e) \/ Start(e) \/ Fetch(e) \/ Fetched(e) \/ Body(e) \/ Lock(e) \/ Store(e)
             \/ Report(e) \/ Done(e)
      PROVE  CarriesResult(f)'
  <2>1. CASE Fetch(e)
    <3>1. UNCHANGED ledgerVars /\ UNCHANGED << pc[f], at[f], on[f], answer[f], fault[f] >>
      BY <1>0, <1>2, <2>1, StreamStepMoves DEF Fetch, allVars
    <3> QED
      BY <1>0, <3>1, ResultKept
  <2>2. CASE Start(e)
    <3>1. UNCHANGED ledgerVars /\ UNCHANGED << pc[f], at[f], on[f], answer[f], fault[f] >>
      BY <1>0, <1>2, <2>2 DEF Start, Call, streamVars, callVars, TypeOK, StreamTypeOK
    <3> QED
      BY <1>0, <3>1, ResultKept
  <2>3. CASE Spawn(e) \/ Fetched(e) \/ Body(e) \/ Lock(e) \/ Store(e) \/ Report(e) \/ Done(e)
    <3>1. UNCHANGED streamVars /\ UNCHANGED << pc[f], fault[f] >>
      BY <1>0, <1>2, <2>3
         DEF Spawn, Fetched, Body, Lock, Store, Report, Done, TypeOK
    <3>2. UNCHANGED ledgerVars /\ UNCHANGED << pc[f], at[f], on[f], answer[f], fault[f] >>
      BY <3>1 DEF streamVars, callVars
    <3> QED
      BY <1>0, <3>2, ResultKept
  <2> QED
    BY <1>2, <2>1, <2>2, <2>3
<1>3. ASSUME Spawn(f) \/ Done(f) \/ Store(f) \/ Report(f) PROVE CarriesResult(f)'
  <2>1. pc'[f] \in {"start", "done", "deferred"} /\ UNCHANGED streamVars
    BY <1>0, <1>3 DEF Spawn, Done, Store, Report, TypeOK
  <2> QED
    BY <1>0, <2>1 DEF CarriesResult, streamVars, callVars, ledgerVars
<1>4. ASSUME Start(f) PROVE CarriesResult(f)'
  <2>1. CASE UsesStream(f)
    <3>1. /\ at'[f] = "calling" /\ on'[f] = StreamOf(f) /\ pc'[f] = "fetch"
      BY <1>0, <1>4, <2>1 DEF Start, Call, TypeOK, StreamTypeOK
    <3> QED
      BY <2>1, <3>1 DEF CarriesResult, StreamOf, UsesStream
  <2>2. CASE ~UsesStream(f)
    <3>1. /\ UNCHANGED << at, on, ledgerVars >> /\ pc'[f] = "body"
      BY <1>0, <1>4, <2>2 DEF Start, streamVars, callVars, TypeOK
    <3>2. RowsOf(f)' = 0 /\ ~Independent!UsesStream(f)
      BY <2>2, SameTable DEF RowsOf, UsesStream
    <3>3. (Independent!BodyResults(f, RowsOf(f)) \subseteq Independent!Results(f))'
      BY <3>2 DEF Independent!Results, Independent!BodyResults, Independent!Rows,
                  Independent!Err, Independent!Panic
    <3> QED
      BY <1>0, <3>1, <3>3 DEF CarriesResult, ledgerVars
  <2> QED
    BY <2>1, <2>2
<1>5. ASSUME Fetch(f) PROVE CarriesResult(f)'
  <2>1. /\ pc'[f] = "fetch" /\ on' = on /\ UNCHANGED ledgerVars
        /\ at'[f] = "panicked" => ending[on[f]] \in Panics
    BY <1>0, <1>5, StreamStepMoves DEF Fetch, allVars
  <2> QED
    BY <1>0, <1>5, <2>1 DEF CarriesResult, Fetch, ledgerVars, UsesStream, StreamOf
<1>6. ASSUME UNCHANGED streamVars
      PROVE  /\ UNCHANGED << at, on, ledgerVars >>
             /\ RowsOf(f)' = RowsOf(f)
             /\ Independent!Results(f)' = Independent!Results(f)
             /\ Independent!BodyResults(f, RowsOf(f))' = Independent!BodyResults(f, RowsOf(f))
             /\ Independent!Rows(RowsOf(f))' = Independent!Rows(RowsOf(f))
  <2>1. UNCHANGED << at, on, answer, ledgerVars >>
    BY <1>6 DEF streamVars, callVars
  <2>2. RowsOf(f)' = RowsOf(f)
    BY <2>1 DEF RowsOf, UsesStream
  <2>3. Independent!Results(f)' = Independent!Results(f)
    BY <2>1, SameTable
       DEF Independent!Results, Independent!BodyResults, Independent!Rows,
           Independent!Err, Independent!Panic, ledgerVars
  <2> QED
    BY <2>1, <2>2, <2>3
       DEF Independent!BodyResults, Independent!Rows, Independent!Err, Independent!Panic
<1>7. ASSUME Fetched(f) PROVE CarriesResult(f)'
  <2>1. /\ pc'[f] = "body" =>
               Independent!BodyResults(f, RowsOf(f)) \subseteq Independent!Results(f)
        /\ pc'[f] = "store" => Independent!Rows(RowsOf(f)) \in Independent!Results(f)
        /\ pc'[f] = "report" =>
               [kind |-> fault'[f], rows |-> 0] \in Independent!Results(f)
    BY <1>7, FetchedResult
  <2>2. UNCHANGED streamVars /\ pc'[f] \in {"body", "store", "report"}
    BY <1>0, <1>7 DEF Fetched, TypeOK
  <2>3. UNCHANGED << at, on, ledgerVars >>
    BY <1>6, <2>2
  <2> QED
    BY <1>0, <1>6, <2>1, <2>2, <2>3 DEF CarriesResult, ledgerVars
<1>8. ASSUME Body(f) PROVE CarriesResult(f)'
  <2>1. Independent!BodyResults(f, RowsOf(f)) \subseteq Independent!Results(f)
    BY <1>0, <1>8 DEF Body, CarriesResult
  <2>2. /\ Independent!Rows(RowsOf(f)) \in Independent!Results(f)
        /\ [kind |-> "panic", rows |-> 0] \in Independent!Results(f)
        /\ f \in BodyErrs => [kind |-> "error", rows |-> 0] \in Independent!Results(f)
    BY <2>1, SameTable DEF Independent!BodyResults, Independent!Panic, Independent!Err
  <2>3. /\ UNCHANGED streamVars /\ pc'[f] \in {"store", "report"}
        /\ pc'[f] = "report" =>
              fault'[f] = "panic" \/ (f \in BodyErrs /\ fault'[f] = "error")
    BY <1>0, <1>8 DEF Body, TypeOK
  <2>4. UNCHANGED << at, on, ledgerVars >>
    BY <1>6, <2>3
  <2> QED
    BY <1>0, <1>6, <2>2, <2>3, <2>4 DEF CarriesResult, ledgerVars
<1>9. ASSUME Lock(f) PROVE CarriesResult(f)'
  <2>1. /\ UNCHANGED streamVars /\ fault' = fault
        /\ \/ pc[f] = "store" /\ pc'[f] = "storing"
           \/ pc[f] = "report" /\ pc'[f] = "reporting"
    BY <1>0, <1>9 DEF Lock, TypeOK
  <2>2. UNCHANGED << at, on, ledgerVars >>
    BY <1>6, <2>1
  <2> QED
    BY <1>0, <1>6, <2>1, <2>2 DEF CarriesResult, ledgerVars
<1> QED
  BY <1>1, <1>2, <1>3, <1>4, <1>5, <1>7, <1>8, <1>9, StepCases

LEMMA InitResult == Init => ResultInv
  BY DEF Init, StreamInit, ResultInv, CarriesResult

\* The initial states are initial states of the abstract specification.
LEMMA InitRefines == Init => Independent!Init
<1> SUFFICES ASSUME Init PROVE Independent!Init
  OBVIOUS
<1>1. phaseBar = "running"
  BY DEF Init, phaseBar, Returned
<1>2. \A e \in Callers : table[e] = Unset /\ Reports(e) = {}
  BY DEF Init, Reports
<1>3. resultBar = [e \in Callers |-> Independent!Pending]
  BY <1>2 DEF resultBar, Independent!Pending
<1>4. items \in [Streams -> 0 .. MaxItems] /\ ending \in [Streams -> Endings]
  BY DEF Init, StreamInit
<1> QED
  BY <1>1, <1>3, <1>4, SameTable DEF Independent!Init

\* The one report of an extractor is its result.
LEMMA OutcomeOf ==
    ASSUME NEW e \in Callers
    PROVE  /\ table[e] # Unset => resultBar[e] = Independent!Rows(table[e])
           /\ table[e] = Unset /\ Reports(e) = {} => resultBar[e] = Independent!Pending
           /\ \A r : table[e] = Unset /\ Reports(e) = {r} =>
                 resultBar[e] = [kind |-> r.kind, rows |-> 0]
<1>1. ASSUME NEW r, table[e] = Unset, Reports(e) = {r}
      PROVE  resultBar[e] = [kind |-> r.kind, rows |-> 0]
  <2>1. r \in errs /\ r.from = e /\ \A x \in errs : x.from = e => x = r
    BY <1>1 DEF Reports
  <2>2. (CHOOSE x \in errs : x.from = e) = r
    BY <2>1
  <2> QED
    BY <1>1, <2>2 DEF resultBar
<1> QED
  BY <1>1 DEF resultBar, Independent!Rows, Independent!Pending

\* An extractor that has not been accounted for has no result.
LEMMA Unsettled ==
    ASSUME Inv, NEW e \in Callers, ~Settled(e)
    PROVE  resultBar[e] = Independent!Pending
  BY OutcomeOf DEF Inv, AccountInv

\* Where data, errs and the return are left alone, nothing has happened.
LEMMA StepStutters ==
    ASSUME UNCHANGED << items, ending, table, errs >>, Returned' = Returned,
           Returned => main' = main
    PROVE  UNCHANGED Independent!vars
  BY DEF Independent!vars, phaseBar, resultBar, Reports

\* Every step is a step of the abstract specification, or none.
LEMMA StepRefines ==
    ASSUME Inv, ResultInv, [Next]_vars
    PROVE  [Independent!Next]_(Independent!vars)
<1>1. TypeOK /\ StreamTypeOK /\ MutexInv /\ AccountInv /\ MainInv
  BY DEF Inv, TypeOK
<1>2. ASSUME NEW e \in Callers,
             Spawn(e) \/ Start(e) \/ Fetch(e) \/ Fetched(e) \/ Body(e) \/ Lock(e) \/ Done(e)
      PROVE  UNCHANGED Independent!vars
  <2>1. UNCHANGED ledgerVars
    BY <1>1, <1>2, StreamStepMoves
       DEF Spawn, Start, Call, Fetch, Fetched, Body, Lock, Done, streamVars
  <2>2. UNCHANGED << main, table, errs >>
    BY <1>2 DEF Spawn, Start, Fetch, Fetched, Body, Lock, Done, allVars
  <2> QED
    BY <2>1, <2>2, StepStutters DEF ledgerVars, Returned
<1>3. CASE UNCHANGED vars
  BY <1>3, StepStutters DEF vars, streamVars, allVars, ledgerVars, Returned
<1>4. CASE Unmarshal
  <2>1. UNCHANGED << items, ending, table >> /\ ~Returned
    BY <1>4 DEF Unmarshal, streamVars, ledgerVars, Returned
  <2>2. CASE main' = "spawning" /\ UNCHANGED errs
    BY <2>1, <2>2, StepStutters DEF Returned
  <2>3. CASE main' = "rejected" /\ errs' = {[from |-> "unmarshal", kind |-> "error"]}
    <3>1. \A e \in Callers : pc[e] = "unborn" /\ e # "unmarshal"
      BY <1>1, <1>4, ExtractAllAssumption
         DEF Unmarshal, MainInv, AllExtractors, TransactionReaders, ChangeReaders, LedgerReaders
    <3>2. \A e \in Callers : table[e] = Unset /\ Reports(e) = {}
      BY <1>1, <3>1 DEF AccountInv, Settled
    <3>3. \A e \in Callers : Reports(e)' = {}
      BY <2>3, <3>1 DEF Reports
    <3>4. \A e \in Callers : resultBar[e] = Independent!Pending
      BY <3>2, OutcomeOf
    <3>5. resultBar' = resultBar
      BY <2>1, <3>2, <3>3 DEF resultBar
    <3>6. phaseBar = "running" /\ phaseBar' = "rejected"
      BY <2>1, <2>3 DEF phaseBar, Returned
    <3> QED
      BY <2>1, <3>4, <3>5, <3>6 DEF Independent!Next, Independent!Reject
  <2> QED
    BY <1>4, <2>2, <2>3 DEF Unmarshal
<1>5. CASE Wait
  <2>1. UNCHANGED << items, ending, table, errs >>
    BY <1>5 DEF Wait, streamVars, ledgerVars
  <2>2. \A e \in Callers : Settled(e)
    <3>1. MainInv'
      BY <1>1, MainStep
    <3> QED
      BY <1>5, <3>1 DEF MainInv, Wait, Settled
  <2>3. ASSUME NEW e \in Callers PROVE resultBar[e] # Independent!Pending
    <3>0. Independent!Pending.kind = "pending"
      BY DEF Independent!Pending
    <3>1. CASE table[e] # Unset
      <4>1. Independent!Rows(table[e]).kind = "rows"
        BY DEF Independent!Rows
      <4> QED
        BY <3>0, <3>1, <4>1, OutcomeOf
    <3>2. CASE table[e] = Unset
      <4>1. PICK r \in errs : Reports(e) = {r}
        BY <1>1, <2>2, <3>2 DEF AccountInv
      <4>2. r.kind \in {"error", "panic"}
        BY <1>1, <4>1 DEF TypeOK, AllReports
      <4>3. resultBar[e] = [kind |-> r.kind, rows |-> 0]
        BY <3>2, <4>1, OutcomeOf
      <4>4. resultBar[e].kind = r.kind
        BY <4>3
      <4> QED
        BY <3>0, <4>2, <4>4
    <3> QED
      BY <3>1, <3>2
  <2>4. resultBar' = resultBar
    BY <2>1 DEF resultBar, Reports
  <2>5. phaseBar = "running" /\ phaseBar' = "returned"
    BY <1>5 DEF Wait, phaseBar, Returned
  <2> QED
    BY <2>1, <2>3, <2>4, <2>5 DEF Independent!Next, Independent!Deliver
<1>6. ASSUME NEW e \in Callers, pc[e] \in {"storing", "reporting"}, UNCHANGED << items, ending, main >>,
             NEW r \in Independent!Results(e),
             \A f \in Callers : resultBar'[f] = IF f = e THEN r ELSE resultBar[f]
      PROVE  Independent!Next
  <2>1. ~Returned /\ phaseBar = "running" /\ phaseBar' = "running"
    BY <1>1, <1>6 DEF MainInv, Returned, phaseBar
  <2>2. resultBar[e] = Independent!Pending
    BY <1>6, Unsettled DEF Settled
  <2>3. resultBar' = [resultBar EXCEPT ![e] = r]
    BY <1>6 DEF resultBar
  <2> QED
    BY <1>6, <2>1, <2>2, <2>3 DEF Independent!Next, Independent!Settle
<1>7. ASSUME NEW e \in Callers, Store(e) PROVE Independent!Next
  <2>1. /\ pc[e] = "storing" /\ UNCHANGED << items, ending, main, errs >>
        /\ table' = [table EXCEPT ![e] = RowsOf(e)]
    BY <1>7 DEF Store, streamVars, ledgerVars
  <2>2. PICK n : n = RowsOf(e)
    OBVIOUS
  <2>3. n # Unset /\ Independent!Rows(n) \in Independent!Results(e)
    <3>1. answer[e].rows \in Nat
      BY <1>1, LedgerInputAssumption DEF StreamTypeOK
    <3>2. n # Unset
      BY <2>2, <3>1 DEF RowsOf, Unset
    <3> QED
      BY <2>1, <2>2, <3>2 DEF ResultInv, CarriesResult
  <2>4. table[e] = Unset /\ Reports(e) = {}
    BY <1>1, <2>1 DEF AccountInv, Settled
  <2>5. ASSUME NEW f \in Callers
        PROVE  resultBar'[f] = IF f = e THEN Independent!Rows(n) ELSE resultBar[f]
    BY <1>1, <2>1, <2>2, <2>3 DEF resultBar, Reports, Independent!Rows, TypeOK
  <2> QED
    BY <1>6, <2>1, <2>3, <2>5
<1>8. ASSUME NEW e \in Callers, Report(e) PROVE Independent!Next
  <2>1. /\ pc[e] = "reporting" /\ UNCHANGED << items, ending, main, table >>
        /\ errs' = errs \cup {[from |-> e, kind |-> fault[e]]}
    BY <1>1, <1>8 DEF Report, streamVars, ledgerVars, MutexInv
  <2>2. PICK r : r = [kind |-> fault[e], rows |-> 0]
    OBVIOUS
  <2>3. r \in Independent!Results(e)
    BY <2>1, <2>2 DEF ResultInv, CarriesResult
  <2>4. table[e] = Unset /\ Reports(e) = {}
    BY <1>1, <2>1 DEF AccountInv, Settled
  <2>5. ASSUME NEW f \in Callers, f # e PROVE resultBar'[f] = resultBar[f]
    <3>1. Reports(f)' = Reports(f)
      BY <1>8, <2>1, <2>5 DEF Reports
    <3>2. CASE table[f] # Unset
      BY <2>1, <3>2 DEF resultBar
    <3>3. CASE table[f] = Unset /\ Reports(f) = {}
      BY <2>1, <3>1, <3>3 DEF resultBar
    <3>4. CASE table[f] = Unset /\ Reports(f) # {}
      <4>1. PICK x \in errs : Reports(f) = {x}
        BY <1>1, <3>4 DEF AccountInv
      <4>2. x.from = f /\ (\A y \in errs : y.from = f => y = x)
            /\ x \in errs' /\ \A y \in errs' : y.from = f => y = x
        BY <2>1, <2>5, <4>1 DEF Reports
      <4>3. (CHOOSE y \in errs : y.from = f) = x /\ (CHOOSE y \in errs' : y.from = f) = x
        BY <4>2
      <4> QED
        BY <2>1, <3>1, <3>4, <4>3 DEF resultBar
    <3> QED
      BY <3>2, <3>3, <3>4
  <2>6. resultBar'[e] = r
    <3> DEFINE x == [from |-> e, kind |-> fault[e]]
    <3>1. x \in errs' /\ x.from = e /\ \A y \in errs' : y.from = e => y = x
      BY <2>1, <2>4 DEF Reports
    <3>2. (CHOOSE y \in errs' : y.from = e) = x /\ x.kind = fault[e]
      BY <3>1
    <3>3. Reports(e)' # {}
      BY <3>1 DEF Reports
    <3> HIDE DEF x
    <3> QED
      BY <2>1, <2>2, <2>4, <3>2, <3>3 DEF resultBar
  <2> QED
    BY <1>6, <2>1, <2>3, <2>5, <2>6
<1> QED
  BY <1>2, <1>3, <1>4, <1>5, <1>7, <1>8, StepCases

\* The results of the parallel extraction with shared decodes are those of
\* extractors that run one by one on streams of their own, whichever of the
\* extractors are run and however their goroutines interleave
\* (extract.go:94-190).
THEOREM Refinement == Spec => Independent!Safety
<1>1. Init => ResultInv /\ Independent!Init
  BY InitResult, InitRefines
<1>2. Inv /\ ResultInv /\ [Next]_vars => ResultInv'
  BY ResultStep
<1>3. Inv /\ ResultInv /\ [Next]_vars => [Independent!Next]_(Independent!vars)
  BY StepRefines
<1> QED
  BY <1>1, <1>2, <1>3, Invariance, PTL DEF Spec, Independent!Safety
=============================================================================
