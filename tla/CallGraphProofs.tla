--------------------------- MODULE CallGraphProofs ---------------------------
(***************************************************************************)
(* Proofs about CallGraph, for any contracts, traces of any length and     *)
(* authorization trees of any shape: the stack of the event walk, the      *)
(* error that is reported, the calls of the authorizations, the graph, and *)
(* the calls of the events against those that the host made.               *)
(***************************************************************************)
EXTENDS CallGraph, SelectionProofs

Types == {"fn_call", "fn_return", "other", "error_value", "error"}
Events ==
    {e \in [type : Types, contract : Contracts \cup {NoContract}, fn : FunctionNames] :
        e.type = "fn_call" => e.fn \in Functions}

Trace ==
    /\ trace \in Seq(Events) /\ frames \in Seq(Contracts)
    /\ pos \in Nat \ {0}

Stack ==
    /\ callStack \in Seq(Contracts) /\ currentDepth \in Nat
    /\ callStack # << >> /\ callStack[1] = Main
    /\ \A n \in 1 .. Len(callStack) - 1 : callStack[n] # callStack[n + 1]
    /\ currentDepth = Len(callStack) - 1

IInv == Trace /\ Stack

LEMMA EventTyped ==
    ASSUME NEW type \in Types, NEW c \in Contracts \cup {NoContract}, NEW fn \in FunctionNames,
           type = "fn_call" => fn \in Functions
    PROVE  Event(type, c, fn) \in Events
    BY DEF Event, Events

LEMMA FunctionTyped ==
    /\ Unknown \in FunctionNames /\ MainFunction \in Functions
    /\ \A fn \in Functions : fn \in FunctionNames
    BY FunctionAssumption DEF FunctionNames

\* The running contract is one.
LEMMA TopTyped ==
    ASSUME Trace, frames # << >>
    PROVE  Top \in Contracts /\ SubSeq(frames, 1, Len(frames) - 1) \in Seq(Contracts)
    BY DEF Trace, Top

LEMMA InitInv == Init => IInv
<1> SUFFICES ASSUME Init PROVE IInv
  OBVIOUS
<1>1. Main \in Contracts
  BY MainAssumption
<1>2. trace \in Seq(Events)
  <2>1. /\ Event("fn_call", NoContract, MainFunction) \in Events
        /\ Event("fn_call", Main, MainFunction) \in Events
    BY <1>1, EventTyped, FunctionTyped DEF Types
  <2>2. \A e \in Events : << e >> \in Seq(Events)
    OBVIOUS
  <2> QED
    BY <2>1, <2>2 DEF Init
<1>3. frames \in Seq(Contracts) /\ pos \in Nat \ {0}
  BY <1>1 DEF Init
<1>4. Stack
  BY <1>1 DEF Init, Stack
<1> QED
  BY <1>2, <1>3, <1>4 DEF IInv, Trace

\* The host writes events and keeps its own stack.
LEMMA HostInv ==
    ASSUME IInv, \/ \E c \in Contracts, fn \in Functions : HostCall(c, fn)
                 \/ \E type \in {"other", "error_value"} : HostEmit(type)
                 \/ HostReturn \/ HostFail \/ HostCatch \/ HostDone
    PROVE  IInv'
<1>1. UNCHANGED walkVars
  BY DEF HostCall, HostEmit, HostReturn, HostFail, HostCatch, HostDone, HostOnly
<1>2. Stack' /\ pos' = pos
  BY <1>1 DEF IInv, Stack, walkVars
<1>3. trace \in Seq(Events) /\ frames \in Seq(Contracts) /\ pos \in Nat \ {0}
  BY DEF IInv, Trace
<1>4. CASE \E c \in Contracts, fn \in Functions : HostCall(c, fn)
  <2>1. PICK c \in Contracts, fn \in Functions : HostCall(c, fn)
    BY <1>4
  <2>2. Top \in Contracts
    BY <2>1, TopTyped DEF HostCall, Running, IInv
  <2>3. Event("fn_call", IF convention = "caller" THEN Top ELSE c, fn) \in Events
    BY <2>2, EventTyped, FunctionTyped DEF Types
  <2>4. trace' \in Seq(Events) /\ frames' \in Seq(Contracts)
    BY <1>3, <2>1, <2>3 DEF HostCall
  <2> QED
    BY <1>2, <1>3, <2>4 DEF IInv, Trace
<1>5. CASE \E type \in {"other", "error_value"} : HostEmit(type)
  <2>0. PICK type \in {"other", "error_value"} : HostEmit(type)
    BY <1>5
  <2>1. Event(type, Top, Unknown) \in Events
    BY <2>0, TopTyped, EventTyped, FunctionTyped DEF HostEmit, Running, IInv, Types
  <2>2. trace' \in Seq(Events) /\ frames' = frames
    BY <1>3, <2>0, <2>1 DEF HostEmit
  <2> QED
    BY <1>2, <1>3, <2>2 DEF IInv, Trace
<1>6. CASE HostReturn
  <2>1. frames # << >>
    BY <1>6 DEF HostReturn, Running
  <2>2. Event("fn_return", Top, Unknown) \in Events /\ frames' \in Seq(Contracts)
    BY <1>6, <2>1, TopTyped, EventTyped, FunctionTyped DEF HostReturn, Leave, IInv, Types
  <2>3. trace' \in Seq(Events)
    BY <1>3, <1>6, <2>2 DEF HostReturn
  <2> QED
    BY <1>2, <1>3, <2>2, <2>3 DEF IInv, Trace
<1>7. CASE HostFail
  <2>1. Event("error", Top, Unknown) \in Events /\ frames' \in Seq(Contracts)
    BY <1>7, TopTyped, EventTyped, FunctionTyped DEF HostFail, Leave, IInv, Types
  <2>2. trace' \in Seq(Events)
    BY <1>3, <1>7, <2>1 DEF HostFail
  <2> QED
    BY <1>2, <1>3, <2>1, <2>2 DEF IInv, Trace
<1>8. CASE HostCatch
  BY <1>2, <1>3, <1>8 DEF HostCatch, IInv, Trace
<1>9. CASE HostDone
  <2>1. frames' = frames /\ trace' \in {trace, << >>}
    BY <1>9 DEF HostDone
  <2>2. << >> \in Seq(Events)
    OBVIOUS
  <2> QED
    BY <1>2, <1>3, <2>1, <2>2 DEF IInv, Trace
<1> QED
  BY <1>4, <1>5, <1>6, <1>7, <1>8, <1>9

\* A fn_call pushes another contract than the one on top.
LEMMA PushStack ==
    ASSUME Stack, Push, EventAt.contract \in Contracts
    PROVE  Stack'
<1> DEFINE c == EventAt.contract
<1>1. callStack \in Seq(Contracts) /\ Len(callStack) \in Nat \ {0}
  BY DEF Stack
<1>2. callStack' = Append(callStack, c) /\ callStack[Len(callStack)] # c
  BY DEF Push, StackTop
<1>3. /\ callStack' \in Seq(Contracts) /\ Len(callStack') = Len(callStack) + 1
      /\ \A n \in 1 .. Len(callStack) : callStack'[n] = callStack[n]
      /\ callStack'[Len(callStack) + 1] = c
  <2> HIDE DEF c
  <2>1. c \in Contracts
    BY DEF c
  <2> QED
    BY <1>1, <1>2, <2>1
<1>4. callStack' # << >> /\ callStack'[1] = Main
  BY <1>1, <1>3 DEF Stack
<1>5. ASSUME NEW n \in 1 .. Len(callStack') - 1 PROVE callStack'[n] # callStack'[n + 1]
  <2>1. CASE n = Len(callStack)
    BY <1>1, <1>2, <1>3, <2>1
  <2>2. CASE n \in 1 .. Len(callStack) - 1
    BY <1>1, <1>3, <2>2 DEF Stack
  <2> QED
    BY <1>1, <1>3, <2>1, <2>2
<1>6. currentDepth' = currentDepth + 1 /\ currentDepth \in Nat /\ currentDepth = Len(callStack) - 1
  BY DEF Push, Stack
<1> QED
  BY <1>1, <1>3, <1>4, <1>5, <1>6 DEF Stack

\* A fn_return pops, but never the main contract.
LEMMA PopStack ==
    ASSUME Stack, Pop
    PROVE  Stack'
<1>1. callStack \in Seq(Contracts) /\ Len(callStack) \in Nat /\ Len(callStack) > 1
  BY DEF Stack, Pop
<1>2. callStack' = SubSeq(callStack, 1, Len(callStack) - 1)
  BY DEF Pop
<1>3. /\ callStack' \in Seq(Contracts) /\ Len(callStack') = Len(callStack) - 1
      /\ \A n \in 1 .. Len(callStack) - 1 : callStack'[n] = callStack[n]
  BY <1>1, <1>2
<1>4. currentDepth' = currentDepth - 1 /\ currentDepth = Len(callStack) - 1
  BY <1>1 DEF Stack, Pop
<1>5. callStack' # << >> /\ callStack'[1] = Main
  BY <1>1, <1>3 DEF Stack
<1>6. ASSUME NEW n \in 1 .. Len(callStack') - 1 PROVE callStack'[n] # callStack'[n + 1]
  <2>1. n \in 1 .. Len(callStack) - 1 /\ n + 1 \in 1 .. Len(callStack) - 1
    BY <1>1, <1>3
  <2> QED
    BY <1>3, <2>1 DEF Stack
<1> QED
  BY <1>1, <1>3, <1>4, <1>5, <1>6 DEF Stack

LEMMA WalkEventInv == IInv /\ WalkEvent => IInv'
<1> SUFFICES ASSUME IInv, WalkEvent PROVE IInv'
  OBVIOUS
<1>1. trace' = trace /\ frames' = frames /\ pos' = pos + 1
  BY DEF WalkEvent, hostVars
<1>2. Trace'
  BY <1>1 DEF IInv, Trace
<1>3. EventAt.contract \in Contracts
  <2>1. pos \in 1 .. Len(trace) /\ trace \in Seq(Events)
    BY DEF IInv, Trace, WalkEvent
  <2>2. EventAt \in Events
    BY <2>1 DEF EventAt
  <2> QED
    BY <2>2 DEF Events, WalkEvent
<1>4. CASE Push
  BY <1>2, <1>3, <1>4, PushStack DEF IInv
<1>5. CASE Pop
  BY <1>2, <1>5, PopStack DEF IInv
<1>6. CASE StackUntouched
  BY <1>2, <1>6 DEF IInv, Stack, StackUntouched
<1> QED
  BY <1>4, <1>5, <1>6 DEF WalkEvent

\* All other steps leave trace and stack alone.
LEMMA QuietInv ==
    ASSUME IInv, UNCHANGED << trace, frames, callStack, currentDepth >>, pos' \in Nat \ {0}
    PROVE  IInv'
    BY DEF IInv, Trace, Stack

LEMMA NextInv == IInv /\ [Next]_vars => IInv'
<1> SUFFICES ASSUME IInv, [Next]_vars PROVE IInv'
  OBVIOUS
<1>1. pos \in Nat \ {0}
  BY DEF IInv, Trace
<1>2. CASE SkipEvent \/ EventsDone \/ WalkInvocation \/ CutOff \/ Integrate
  <2>1. UNCHANGED << trace, frames, callStack, currentDepth >>
    BY <1>2 DEF SkipEvent, EventsDone, WalkInvocation, CutOff, Integrate, hostVars
  <2>2. pos' \in Nat \ {0}
    BY <1>1, <1>2 DEF SkipEvent, EventsDone, WalkInvocation, CutOff, Integrate
  <2> QED
    BY <2>1, <2>2, QuietInv
<1>3. CASE Terminated \/ UNCHANGED vars
  BY <1>1, <1>3, QuietInv DEF Terminated, vars, hostVars, walkVars
<1> QED
  BY <1>2, <1>3, HostInv, WalkEventInv DEF Next

-----------------------------------------------------------------------------
\* Whatever the trace, the stack of the event walk never loses the main
\* contract, never has a contract on top of itself, and its depth is kept.
THEOREM Sound == Spec => []StackSound
<1>1. Init => IInv
  BY InitInv
<1>2. IInv /\ [Next]_vars => IInv'
  BY NextInv
<1>3. IInv => StackSound
  BY DEF IInv, Stack, StackSound
<1> QED
  BY <1>1, <1>2, <1>3, PTL DEF Spec

-----------------------------------------------------------------------------
(* The error that is reported.                                              *)

\* The first error event of the trace.
FirstError(t, k) ==
    t[k].type = "error" /\ \A m \in 1 .. k - 1 : t[m].type # "error"

NonePublished(t) == \A n \in 1 .. Len(t) : t[n].type # "error_value"

\* Until something is caught, the first error is of the frame that failed.
ErrorInv ==
    ~caught /\ (phase = "host" \/ trace # << >>) /\ NonePublished(trace) =>
        IF cause = NoContract THEN \A n \in 1 .. Len(trace) : trace[n].type # "error"
        ELSE \E k \in 1 .. Len(trace) : FirstError(trace, k) /\ trace[k].contract = cause

LEMMA ErrorNext ==
    ASSUME IInv, ErrorInv, [Next]_vars
    PROVE  ErrorInv'
<1>1. trace \in Seq(Events) /\ Len(trace) \in Nat
  BY DEF IInv, Trace
<1>2. ASSUME NEW e, trace' = Append(trace, e), e \in Events
      PROVE  /\ Len(trace') = Len(trace) + 1 /\ trace'[Len(trace) + 1] = e
             /\ \A n \in 1 .. Len(trace) : trace'[n] = trace[n]
             /\ \A n \in 1 .. Len(trace') : n = Len(trace) + 1 \/ n \in 1 .. Len(trace)
             /\ NonePublished(trace') => NonePublished(trace)
  <2>1. /\ Len(trace') = Len(trace) + 1 /\ trace'[Len(trace) + 1] = e
        /\ \A n \in 1 .. Len(trace) : trace'[n] = trace[n] /\ n \in 1 .. Len(trace')
        /\ \A n \in 1 .. Len(trace') : n = Len(trace) + 1 \/ n \in 1 .. Len(trace)
    BY <1>1, <1>2
  <2> QED
    BY <2>1 DEF NonePublished
<1>3. ASSUME Running, NEW type \in Types \ {"error"}, NEW c \in Contracts \cup {NoContract},
             NEW fn \in FunctionNames, type = "fn_call" => fn \in Functions,
             trace' = Append(trace, Event(type, c, fn)), UNCHANGED << cause, caught >>
      PROVE  ErrorInv'
  <2>1. Event(type, c, fn) \in Events /\ Event(type, c, fn).type # "error"
    BY <1>3, EventTyped DEF Event
  <2>2. cause = NoContract /\ phase = "host"
    BY <1>3 DEF Running
  <2>3. ASSUME ~caught, NonePublished(trace')
        PROVE  \A n \in 1 .. Len(trace') : trace'[n].type # "error"
    BY <1>1, <1>2, <1>3, <2>1, <2>2, <2>3 DEF ErrorInv
  <2> QED
    BY <1>3, <2>2, <2>3 DEF ErrorInv
<1>4. CASE \E c \in Contracts, fn \in Functions : HostCall(c, fn)
  <2>1. PICK c \in Contracts, fn \in Functions : HostCall(c, fn)
    BY <1>4
  <2>2. Top \in Contracts
    BY <2>1, TopTyped DEF HostCall, Running, IInv
  <2> QED
    BY <1>3, <2>1, <2>2, FunctionTyped DEF HostCall, Types
<1>5. CASE \E type \in {"other", "error_value"} : HostEmit(type)
  BY <1>3, <1>5, TopTyped, FunctionTyped DEF HostEmit, Running, IInv, Types
<1>6. CASE HostReturn
  BY <1>3, <1>6, TopTyped, FunctionTyped DEF HostReturn, Running, IInv, Types
<1>7. CASE HostFail
  <2>1. Top \in Contracts /\ Top # NoContract
    BY <1>7, TopTyped, MainAssumption DEF HostFail, IInv
  <2> DEFINE e == Event("error", Top, Unknown)
  <2>2. e \in Events /\ e.type = "error" /\ e.contract = Top /\ trace' = Append(trace, e)
    BY <1>7, <2>1, EventTyped, FunctionTyped DEF HostFail, Event, Types
  <2> HIDE DEF e
  <2>3. /\ Len(trace') = Len(trace) + 1 /\ trace'[Len(trace) + 1] = e
        /\ \A n \in 1 .. Len(trace) : trace'[n] = trace[n]
        /\ NonePublished(trace') => NonePublished(trace)
    BY <1>2, <2>2
  <2>4. phase = "host" /\ caught' = caught
    BY <1>7 DEF HostFail
  <2>5. ASSUME ~caught, NonePublished(trace), cause = NoContract PROVE ErrorInv'
    <3>1. FirstError(trace', Len(trace) + 1)
      BY <1>1, <2>2, <2>3, <2>4, <2>5 DEF FirstError, ErrorInv
    <3>2. cause' = Top /\ trace'[Len(trace) + 1].contract = Top
      BY <1>7, <2>2, <2>3, <2>5 DEF HostFail
    <3> QED
      BY <1>1, <2>1, <2>3, <3>1, <3>2 DEF ErrorInv
  <2>6. ASSUME ~caught, NonePublished(trace), cause # NoContract PROVE ErrorInv'
    <3>1. PICK k \in 1 .. Len(trace) : FirstError(trace, k) /\ trace[k].contract = cause
      BY <2>4, <2>6 DEF ErrorInv
    <3>2. FirstError(trace', k) /\ trace'[k].contract = cause
      BY <1>1, <2>3, <3>1 DEF FirstError
    <3>3. cause' = cause /\ k \in 1 .. Len(trace')
      BY <1>1, <1>7, <2>3, <2>6 DEF HostFail
    <3> QED
      BY <2>6, <3>2, <3>3 DEF ErrorInv
  <2> QED
    BY <2>3, <2>4, <2>5, <2>6 DEF ErrorInv
<1>8. CASE HostCatch
  BY <1>8 DEF HostCatch, ErrorInv
<1>9. CASE HostDone
  <2>1. phase = "host" /\ phase' # "host" /\ UNCHANGED << cause, caught >> /\ trace' \in {trace, << >>}
    BY <1>9 DEF HostDone
  <2>2. CASE trace' = trace
    BY <2>1, <2>2 DEF ErrorInv, FirstError
  <2>3. CASE trace' = << >>
    BY <2>1, <2>3 DEF ErrorInv
  <2> QED
    BY <2>1, <2>2, <2>3
<1>10. ASSUME UNCHANGED << trace, cause, caught >>, phase' = "host" => phase = "host" PROVE ErrorInv'
  BY <1>10 DEF ErrorInv, FirstError
<1>11. CASE SkipEvent \/ WalkEvent \/ EventsDone \/ WalkInvocation \/ CutOff \/ Integrate
  <2>1. UNCHANGED << trace, cause, caught >> /\ (phase' = "host" => phase = "host")
    BY <1>11 DEF SkipEvent, WalkEvent, EventsDone, WalkInvocation, CutOff, Integrate, hostVars
  <2> QED
    BY <1>10, <2>1
<1>12. CASE Terminated \/ UNCHANGED vars
  BY <1>10, <1>12 DEF Terminated, vars, hostVars
<1> QED
  BY <1>4, <1>5, <1>6, <1>7, <1>8, <1>9, <1>11, <1>12 DEF Next

\* The search for the first error stops at it.
LEMMA FirstErrorFound ==
    ASSUME Trace, ErrorInv, phase = "events", ~caught, trace # << >>, NonePublished(trace)
    PROVE  ContractError = cause
<1> DEFINE errors == {n \in 1 .. Len(trace) : CarriesError(trace[n])}
<1>0. errors = {n \in 1 .. Len(trace) : trace[n].type = "error"}
  BY DEF CarriesError, NonePublished
<1>1. ContractError = LET n == IF errors # {} THEN Min(errors) ELSE 0
                      IN  IF n = 0 THEN NoContract ELSE trace[n].contract
  BY DEF ContractError, SelectInSeq
<1>2. CASE cause = NoContract
  BY <1>0, <1>1, <1>2 DEF ErrorInv
<1>3. CASE cause # NoContract
  <2>1. PICK k \in 1 .. Len(trace) : FirstError(trace, k) /\ trace[k].contract = cause
    BY <1>3 DEF ErrorInv
  <2>2. k \in errors /\ \A n \in errors : k <= n
    BY <1>0, <2>1 DEF FirstError, Trace
  <2>3. Min(errors) \in errors /\ \A n \in errors : Min(errors) <= n
    <3> HIDE DEF errors
    <3> QED
      BY <2>2, Zenon DEF Min
  <2>4. Min(errors) = k
    BY <2>2, <2>3
  <2>5. Min(errors) # 0 /\ errors # {}
    BY <2>2, <2>4
  <2> HIDE DEF errors
  <2> QED
    BY <1>1, <2>1, <2>4, <2>5
<1> QED
  BY <1>2, <1>3

\* An invocation that caught nothing reports the error of the frame whose
\* failure unwound it, the first of contractErrorFacts, however deep it failed,
\* if no contract put an error into an event of its own.
THEOREM Reported == Spec => []ErrorIsTheCause
<1>1. Init => IInv /\ ErrorInv
  <2>1. Init => ErrorInv
    BY DEF Init, ErrorInv, NonePublished, Event
  <2> QED
    BY <2>1, InitInv
<1>2. IInv /\ ErrorInv /\ [Next]_vars => IInv' /\ ErrorInv'
  BY NextInv, ErrorNext
<1>3. IInv /\ ErrorInv => ErrorIsTheCause
  BY FirstErrorFound DEF IInv, ErrorIsTheCause, NonePublished
<1> QED
  BY <1>1, <1>2, <1>3, PTL DEF Spec

-----------------------------------------------------------------------------
(* Sequences and sets.                                                      *)

LEMMA Positions ==
    ASSUME NEW L \in Nat \ {0}
    PROVE  /\ L \in 1 .. L /\ 1 \in 1 .. L
           /\ L # 1 => L - 1 \in 1 .. L - 1 /\ L - 1 \in 1 .. L /\ L - 1 # L /\ L \in 2 .. L
    OBVIOUS

LEMMA Shorter ==
    ASSUME NEW S, NEW f \in Seq(S), f # << >>
    PROVE  /\ Front(f) \in Seq(S) /\ f[Len(f)] \in S
           /\ Len(f) \in Nat \ {0} /\ Len(Front(f)) = Len(f) - 1
           /\ \A n \in 1 .. Len(f) - 1 : Front(f)[n] = f[n] /\ n \in 1 .. Len(f)
           /\ Append(Front(f), f[Len(f)]) = f
<1>1. Len(f) \in Nat \ {0} /\ f[Len(f)] \in S
  OBVIOUS
<1>2. /\ Front(f) \in Seq(S) /\ Len(Front(f)) = Len(f) - 1
      /\ \A n \in 1 .. Len(f) - 1 : Front(f)[n] = f[n] /\ n \in 1 .. Len(f)
  <2> DEFINE L == Len(f) - 1
  <2>1. L \in Nat /\ Front(f) = SubSeq(f, 1, L) /\ L <= Len(f)
    BY <1>1 DEF Front
  <2> HIDE DEF L
  <2>2. Front(f) \in Seq(S) /\ Len(Front(f)) = L /\ \A n \in 1 .. L : Front(f)[n] = f[n]
    BY <2>1
  <2> QED
    BY <1>1, <2>2 DEF L
<1>3. Append(Front(f), f[Len(f)]) = f
  <2> DEFINE g == Append(Front(f), f[Len(f)])
  <2>1. /\ g \in Seq(S) /\ Len(g) = Len(f) /\ g[Len(f)] = f[Len(f)]
        /\ \A n \in 1 .. Len(f) - 1 : g[n] = f[n]
    BY <1>1, <1>2
  <2>2. \A n \in 1 .. Len(f) : n = Len(f) \/ n \in 1 .. Len(f) - 1
    BY <1>1
  <2> HIDE DEF g
  <2>3. g = f
    BY <2>1, <2>2
  <2> QED
    BY <2>3 DEF g
<1> QED
  BY <1>1, <1>2, <1>3

LEMMA FrontOfLonger ==
    ASSUME NEW S, NEW f \in Seq(S), NEW c \in S
    PROVE  Front(Append(f, c)) = f
  BY DEF Front

LEMMA Longer ==
    ASSUME NEW S, NEW f \in Seq(S), NEW c \in S
    PROVE  /\ Append(f, c) \in Seq(S) /\ Append(f, c) # << >>
           /\ Len(f) \in Nat /\ Len(Append(f, c)) = Len(f) + 1
           /\ Append(f, c)[Len(f) + 1] = c
           /\ \A n \in 1 .. Len(f) : Append(f, c)[n] = f[n] /\ n \in 1 .. Len(f) + 1
           /\ \A n \in 1 .. Len(f) + 1 : n = Len(f) + 1 \/ n \in 1 .. Len(f)
           /\ ToSet(Append(f, c)) = ToSet(f) \cup {c}
<1> DEFINE g == Append(f, c)
<1>1. /\ g \in Seq(S) /\ Len(f) \in Nat /\ Len(g) = Len(f) + 1 /\ g[Len(f) + 1] = c
      /\ \A n \in 1 .. Len(f) : g[n] = f[n]
      /\ DOMAIN g = 1 .. Len(f) + 1 /\ DOMAIN f = 1 .. Len(f)
  OBVIOUS
<1> HIDE DEF g
<1>2. /\ \A n \in 1 .. Len(f) + 1 : n = Len(f) + 1 \/ n \in 1 .. Len(f)
      /\ \A n \in 1 .. Len(f) : n \in 1 .. Len(f) + 1
      /\ Len(f) + 1 \in 1 .. Len(f) + 1 /\ Len(f) + 1 # 0
  BY <1>1
<1>3. ToSet(g) = ToSet(f) \cup {c}
  BY <1>1, <1>2, Zenon DEF ToSet
<1>4. g # << >>
  BY <1>1, <1>2
<1> QED
  BY <1>1, <1>2, <1>3, <1>4 DEF g

LEMMA MaxIs ==
    ASSUME NEW S \in SUBSET Int, NEW x \in S, \A y \in S : y <= x
    PROVE  Max(S) = x
<1>1. x \in S /\ \A y \in S : x >= y
  OBVIOUS
<1>2. Max(S) \in S /\ \A y \in S : Max(S) >= y
  BY <1>1, Zenon DEF Max
<1>3. x \in Int /\ Max(S) \in Int /\ x <= Max(S) /\ Max(S) <= x
  BY <1>1, <1>2
<1> QED
  BY <1>3

LEMMA Joined ==
    ASSUME NEW S, NEW s \in Seq(S), NEW t \in Seq(S)
    PROVE  s \o t \in Seq(S) /\ ToSet(s \o t) = ToSet(s) \cup ToSet(t)
<1>1. /\ s \o t \in Seq(S) /\ Len(s) \in Nat /\ Len(t) \in Nat
      /\ DOMAIN (s \o t) = 1 .. Len(s) + Len(t)
      /\ DOMAIN s = 1 .. Len(s) /\ DOMAIN t = 1 .. Len(t)
      /\ \A n \in 1 .. Len(s) : (s \o t)[n] = s[n]
      /\ \A n \in 1 .. Len(t) : (s \o t)[Len(s) + n] = t[n]
  OBVIOUS
<1> DEFINE u == s \o t
<1> HIDE DEF u
<1>2. /\ \A n \in 1 .. Len(s) : n \in 1 .. Len(s) + Len(t)
      /\ \A n \in 1 .. Len(t) : Len(s) + n \in 1 .. Len(s) + Len(t)
      /\ \A n \in 1 .. Len(s) + Len(t) : n \in 1 .. Len(s) \/ \E m \in 1 .. Len(t) : n = Len(s) + m
  <2>1. ASSUME NEW n \in 1 .. Len(s) + Len(t), n \notin 1 .. Len(s)
        PROVE  \E m \in 1 .. Len(t) : n = Len(s) + m
    <3>1. n - Len(s) \in 1 .. Len(t) /\ n = Len(s) + (n - Len(s))
      BY <1>1, <2>1
    <3> QED
      BY <3>1
  <2> QED
    BY <1>1, <2>1
<1>3. ToSet(u) = ToSet(s) \cup ToSet(t)
  <2>1. /\ DOMAIN u = 1 .. Len(s) + Len(t)
        /\ \A n \in 1 .. Len(s) : u[n] = s[n]
        /\ \A n \in 1 .. Len(t) : u[Len(s) + n] = t[n]
    BY <1>1 DEF u
  <2>2. ASSUME NEW n \in DOMAIN u PROVE u[n] \in ToSet(s) \cup ToSet(t)
    <3>1. CASE n \in 1 .. Len(s)
      BY <1>1, <2>1, <3>1 DEF ToSet
    <3>2. CASE \E m \in 1 .. Len(t) : n = Len(s) + m
      BY <1>1, <2>1, <3>2 DEF ToSet
    <3> QED
      BY <1>2, <2>1, <2>2, <3>1, <3>2
  <2>3. ASSUME NEW n \in 1 .. Len(s) PROVE s[n] \in ToSet(u)
    <3>1. u[n] = s[n] /\ n \in DOMAIN u
      BY <1>2, <2>1
    <3> QED
      BY <3>1 DEF ToSet
  <2>4. ASSUME NEW n \in 1 .. Len(t) PROVE t[n] \in ToSet(u)
    <3>1. u[Len(s) + n] = t[n] /\ Len(s) + n \in DOMAIN u
      BY <1>2, <2>1
    <3> QED
      BY <3>1 DEF ToSet
  <2> QED
    BY <1>1, <2>2, <2>3, <2>4 DEF ToSet
<1> QED
  BY <1>1, <1>3 DEF u

LEMMA ToSetSmall ==
    ASSUME NEW x
    PROVE  ToSet(<< >>) = {} /\ ToSet(<< x >>) = {x}
<1>1. DOMAIN << x >> = {1} /\ << x >>[1] = x
  OBVIOUS
<1>2. ToSet(<< x >>) = {x}
  <2> DEFINE s == << x >>
  <2> HIDE DEF s
  <2>1. DOMAIN s = {1} /\ s[1] = x
    BY <1>1 DEF s
  <2>2. ToSet(s) = {x}
    BY <2>1, Zenon DEF ToSet
  <2> QED
    BY <2>2 DEF s
<1>3. ToSet(<< >>) = {}
  BY DEF ToSet
<1> QED
  BY <1>2, <1>3

-----------------------------------------------------------------------------
(* The authorizations and the graph.                                        *)

Nodes == [depth : Nat \ {0}, to : Contracts \cup {NotAContract, Creation}, fn : FunctionNames]

LEMMA AuthTyped ==
    ASSUME auth \in AuthTrees
    PROVE  /\ auth \in Seq(Nodes) /\ Len(auth) \in Nat /\ DOMAIN auth = 1 .. Len(auth)
           /\ \A n \in 1 .. Len(auth) : Depth(n) \in Nat \ {0}
           /\ 1 \in 1 .. Len(auth) => Depth(1) = 1
           /\ \A n \in 2 .. Len(auth) : n - 1 \in 1 .. Len(auth) /\ Depth(n) <= Depth(n - 1) + 1
           /\ AuthDepthLimit \in Nat
<1>1. Preorder(auth) /\ AuthDepthLimit \in Nat
  BY AuthAssumption
<1>2. auth \in Seq(Nodes)
  BY <1>1 DEF Preorder, Nodes
<1>3. \A n \in 1 .. Len(auth) : Depth(n) \in Nat \ {0}
  <2>1. \A n \in 1 .. Len(auth) : auth[n] \in Nodes
    BY <1>2
  <2> QED
    BY <2>1 DEF Nodes, Depth
<1>4. 1 \in 1 .. Len(auth) => Depth(1) = 1
  BY <1>1, <1>2 DEF Preorder, Depth
<1>5. ASSUME NEW n \in 2 .. Len(auth)
      PROVE  n - 1 \in 1 .. Len(auth) /\ Depth(n) <= Depth(n - 1) + 1
  <2>1. n - 1 \in 1 .. Len(auth) - 1 /\ (n - 1) + 1 = n /\ n - 1 \in 1 .. Len(auth)
    BY <1>2
  <2>2. auth[(n - 1) + 1].depth <= auth[n - 1].depth + 1
    BY <1>1, <2>1 DEF Preorder
  <2> QED
    BY <2>1, <2>2 DEF Depth
<1> QED
  BY <1>1, <1>2, <1>3, <1>4, <1>5

\* The contracts above an invocation of depth d before node p of the preorder.
AboveAt(p, d) ==
    {m \in 1 .. p - 1 : /\ auth[m].to \in Contracts /\ Depth(m) < d
                        /\ \A l \in m + 1 .. p - 1 : Depth(l) > Depth(m)}
CallerAt(p, d) == IF AboveAt(p, d) = {} THEN Main ELSE auth[Max(AboveAt(p, d))].to

LEMMA CallerIs ==
    ASSUME auth \in AuthTrees, NEW n \in 1 .. Len(auth)
    PROVE  Caller(n) = CallerAt(n, Depth(n))
<1>1. Len(auth) \in Nat /\ \A m \in 1 .. Len(auth) : Depth(m) \in Nat \ {0}
  BY AuthTyped
<1>2. ASSUME NEW m \in 1 .. n - 1
      PROVE  (\A l \in m + 1 .. n : Depth(l) > Depth(m)) <=>
                 Depth(m) < Depth(n) /\ \A l \in m + 1 .. n - 1 : Depth(l) > Depth(m)
  <2>1. /\ m \in 1 .. Len(auth) /\ n \in m + 1 .. n
        /\ \A l \in m + 1 .. n : l = n \/ l \in m + 1 .. n - 1
        /\ \A l \in m + 1 .. n - 1 : l \in m + 1 .. n
    BY <1>1
  <2>2. Depth(m) < Depth(n) <=> Depth(n) > Depth(m)
    BY <1>1, <2>1
  <2> QED
    BY <2>1, <2>2, Zenon
<1>3. Above(n) = AboveAt(n, Depth(n))
  BY <1>2 DEF Above, AboveAt
<1> QED
  BY <1>3 DEF Caller, CallerAt

\* Node p is above none of the nodes no deeper than it.
LEMMA CallerKept ==
    ASSUME auth \in AuthTrees, NEW p \in 1 .. Len(auth), NEW d \in Nat, d <= Depth(p)
    PROVE  CallerAt(p + 1, d) = CallerAt(p, d)
<1>1. Len(auth) \in Nat /\ \A m \in 1 .. Len(auth) : Depth(m) \in Nat \ {0}
  BY AuthTyped
<1>2. p \in Nat /\ (p + 1) - 1 = p /\ \A m \in 1 .. p : m = p \/ m \in 1 .. p - 1
  BY <1>1
<1>3. ASSUME NEW m \in 1 .. p - 1, Depth(m) < d
      PROVE  (\A l \in m + 1 .. p : Depth(l) > Depth(m)) <=>
                 \A l \in m + 1 .. p - 1 : Depth(l) > Depth(m)
  <2>1. /\ m \in 1 .. Len(auth)
        /\ \A l \in m + 1 .. p : l = p \/ l \in m + 1 .. p - 1
        /\ \A l \in m + 1 .. p - 1 : l \in m + 1 .. p
    BY <1>1
  <2>2. Depth(p) > Depth(m)
    BY <1>1, <1>3, <2>1
  <2> QED
    BY <2>1, <2>2, Zenon
<1>4. ~(Depth(p) < d) /\ \A m \in 1 .. p - 1 : m \in 1 .. p
  BY <1>1
<1>5. AboveAt(p + 1, d) = AboveAt(p, d)
  BY <1>2, <1>3, <1>4 DEF AboveAt
<1> QED
  BY <1>5 DEF CallerAt

\* It is above the nodes below it if it calls a contract; if not, the caller
\* below it is its own.
LEMMA CallerBelowNode ==
    ASSUME auth \in AuthTrees, NEW p \in 1 .. Len(auth)
    PROVE  CallerAt(p + 1, Depth(p) + 1) =
              IF auth[p].to \in Contracts THEN auth[p].to ELSE CallerAt(p, Depth(p))
<1> DEFINE D == Depth(p)
<1>1. Len(auth) \in Nat /\ \A m \in 1 .. Len(auth) : Depth(m) \in Nat \ {0}
  BY AuthTyped
<1>2. /\ p \in Nat /\ (p + 1) - 1 = p /\ \A m \in 1 .. p : m = p \/ m \in 1 .. p - 1
      /\ p \in 1 .. p /\ D < D + 1 /\ \A m \in 1 .. p - 1 : m \in 1 .. p /\ m <= p
      /\ p <= p /\ \A m \in 1 .. p : m \in Int
  BY <1>1
<1>3. ASSUME NEW m \in 1 .. p - 1
      PROVE  Depth(m) < D + 1 /\ (\A l \in m + 1 .. p : Depth(l) > Depth(m)) <=>
                 Depth(m) < D /\ \A l \in m + 1 .. p - 1 : Depth(l) > Depth(m)
  <2>1. /\ m \in 1 .. Len(auth) /\ p \in m + 1 .. p
        /\ \A l \in m + 1 .. p : l = p \/ l \in m + 1 .. p - 1
        /\ \A l \in m + 1 .. p - 1 : l \in m + 1 .. p
    BY <1>1
  <2>2. Depth(p) > Depth(m) <=> Depth(m) < D
    BY <1>1, <2>1
  <2>3. Depth(m) < D => Depth(m) < D + 1
    BY <1>1, <2>1
  <2> HIDE DEF D
  <2> QED
    BY <2>1, <2>2, <2>3, Zenon
<1>4. \A l \in p + 1 .. p : FALSE
  BY <1>1
<1>5. AboveAt(p + 1, D + 1) = AboveAt(p, D) \cup {m \in {p} : auth[m].to \in Contracts}
  <2>1. /\ p \in AboveAt(p + 1, D + 1) <=> auth[p].to \in Contracts
        /\ p \notin AboveAt(p, D)
    <3>1. p \notin 1 .. p - 1
      BY <1>1
    <3>2. p \in 1 .. (p + 1) - 1 /\ Depth(p) < D + 1 /\ \A l \in p + 1 .. (p + 1) - 1 : FALSE
      BY <1>2, <1>4
    <3> HIDE DEF D
    <3> QED
      BY <3>1, <3>2, Zenon DEF AboveAt
  <2>2. \A m \in 1 .. p - 1 : m \in AboveAt(p + 1, D + 1) <=> m \in AboveAt(p, D)
    <3> HIDE DEF D
    <3> QED
      BY <1>2, <1>3, Zenon DEF AboveAt
  <2>3. AboveAt(p + 1, D + 1) \subseteq 1 .. p /\ AboveAt(p, D) \subseteq 1 .. p - 1
    BY <1>2 DEF AboveAt
  <2> HIDE DEF D
  <2> QED
    BY <1>2, <2>1, <2>2, <2>3, Zenon
<1>6. CASE auth[p].to \in Contracts
  <2>1. Max(AboveAt(p + 1, D + 1)) = p /\ AboveAt(p + 1, D + 1) # {}
    <3>1. p \in AboveAt(p + 1, D + 1)
      BY <1>5, <1>6
    <3>2. \A m \in AboveAt(p + 1, D + 1) : m \in Int /\ m <= p
      BY <1>2 DEF AboveAt
    <3> QED
      BY <3>1, <3>2, MaxIs
  <2> QED
    BY <1>6, <2>1 DEF CallerAt
<1>7. CASE auth[p].to \notin Contracts
  BY <1>5, <1>7 DEF CallerAt
<1> QED
  BY <1>6, <1>7

\* The edges and the skipped invocations before node p.
EdgesTo(p) == {Edge(n) : n \in {m \in 1 .. p - 1 : Depth(m) <= AuthDepthLimit /\ Leaves(m)}}
SkippedTo(p) == {n \in 1 .. p - 1 : Depth(n) <= AuthDepthLimit /\ auth[n].to = NotAContract}

LEMMA EdgesNext ==
    ASSUME NEW p \in Nat \ {0}
    PROVE  /\ EdgesTo(1) = {} /\ SkippedTo(1) = {}
           /\ EdgesTo(p + 1) = IF Depth(p) <= AuthDepthLimit /\ Leaves(p)
                               THEN EdgesTo(p) \cup {Edge(p)} ELSE EdgesTo(p)
           /\ SkippedTo(p + 1) = IF Depth(p) <= AuthDepthLimit /\ auth[p].to = NotAContract
                                 THEN SkippedTo(p) \cup {p} ELSE SkippedTo(p)
           /\ p \notin SkippedTo(p) /\ IsFiniteSet(SkippedTo(p))
<1>1. 1 .. (p + 1) - 1 = (1 .. p - 1) \cup {p} /\ 1 .. 1 - 1 = {} /\ p \notin 1 .. p - 1
  OBVIOUS
<1>2. IsFiniteSet(SkippedTo(p))
  <2>1. IsFiniteSet(1 .. p - 1) /\ SkippedTo(p) \subseteq 1 .. p - 1
    BY FS_Interval DEF SkippedTo
  <2> QED
    BY <2>1, FS_Subset
<1> QED
  BY <1>1, <1>2 DEF EdgesTo, SkippedTo

CallRecords == [from : Contracts, to : Contracts, fn : FunctionNames, depth : Nat \ {0}]
Calls == {c \in CallRecords : c.from # c.to}

\* What the recursion has when it comes to node pos.
AuthAt ==
    /\ pos \in 1 .. Len(auth) + 1
    /\ callerAt \in Seq(Contracts)
    /\ Len(callerAt) = IF pos = 1 THEN 1
                       ELSE IF Depth(pos - 1) <= AuthDepthLimit THEN Depth(pos - 1) + 1
                       ELSE AuthDepthLimit + 1
    /\ \A d \in 1 .. Len(callerAt) : callerAt[d] = CallerAt(pos, d)
    /\ EdgesTo(pos) \subseteq ToSet(calls)
    /\ trace = << >> => ToSet(calls) = EdgesTo(pos)
    /\ skippedEdges = Cardinality(SkippedTo(pos))

AuthInv ==
    /\ auth \in AuthTrees /\ calls \in Seq(Calls)
    /\ phase \in {"host", "events"} => callerAt = << Main >> /\ skippedEdges = 0
    /\ phase = "host" \/ (phase = "events" /\ trace = << >>) => calls = << >>
    /\ phase \in {"auth", "done"} => AuthAt
    /\ phase = "done" =>
           /\ pos > Len(auth)
           /\ graph = IF calls = << >> THEN NoGraph
                      ELSE [calls |-> Deduplicated, contracts |-> ContractsInvolved,
                            maxDepth |-> MaxDepth]

\* A name that is found for a call is a function's, or "unknown".
LEMMA NamesTyped ==
    ASSUME IInv, pos <= Len(trace), EventAt.type = "fn_call"
    PROVE  NameOfOther \in FunctionNames /\ NameByMain \in FunctionNames
<1>1. pos \in 1 .. Len(trace) /\ trace \in Seq(Events)
  BY DEF IInv, Trace
<1>2. EventAt.fn \in Functions
  <2>1. EventAt \in Events
    BY <1>1 DEF EventAt
  <2> QED
    BY <2>1 DEF Events
<1>3. InArguments[EventAt.fn] \in FunctionNames
  BY <1>2, FunctionAssumption
<1>4. \A e : Spelled(e) \in FunctionNames
  BY FunctionAssumption DEF Spelled, FunctionNames
<1>5. \A a, b \in FunctionNames : OrElse(a, b) \in FunctionNames
  BY DEF OrElse
<1>6. NameOfOther \in FunctionNames
  <2>1. Spelled(EventAt) \in FunctionNames
    BY <1>4
  <2> QED
    BY <1>3, <1>5, <2>1 DEF NameOfOther
<1>7. NameByMain \in FunctionNames
  <2>1. Spelled(EventAt) \in FunctionNames /\ Spelled(trace[pos + 1]) \in FunctionNames
    BY <1>4
  <2>2. OrElse(Spelled(trace[pos + 1]), Spelled(EventAt)) \in FunctionNames
    BY <1>5, <2>1
  <2> QED
    BY <1>3, <1>5, <2>2 DEF NameByMain
<1> QED
  BY <1>6, <1>7

\* A call recorded from an event is of two contracts.
LEMMA EventCallsTyped ==
    ASSUME IInv, phase = "events", pos <= Len(trace), EventAt.contract # NoContract
    PROVE  CallOfMain \in Seq(Calls) /\ CallOfOther \in Seq(Calls)
<1>1. /\ pos \in 1 .. Len(trace) /\ trace \in Seq(Events) /\ Len(trace) \in Nat
      /\ currentDepth \in Nat /\ StackTop \in Contracts
  BY DEF IInv, Trace, Stack, StackTop
<1>2. \A n \in 1 .. Len(trace) : trace[n].contract \in Contracts \cup {NoContract}
  <2>1. \A n \in 1 .. Len(trace) : trace[n] \in Events
    BY <1>1
  <2> QED
    BY <2>1 DEF Events
<1>3. ASSUME NEW f \in Contracts, NEW t \in Contracts, f # t, NEW fn \in FunctionNames
      PROVE  << Call(f, t, fn, currentDepth + 1) >> \in Seq(Calls)
  <2> DEFINE c == Call(f, t, fn, currentDepth + 1)
  <2>1. c \in Calls
    BY <1>1, <1>3 DEF Calls, CallRecords, Call
  <2> HIDE DEF c
  <2> QED
    BY <2>1 DEF c
<1>4. << >> \in Seq(Calls)
  OBVIOUS
<1>5. CASE EventAt.type # "fn_call"
  BY <1>4, <1>5 DEF CallOfMain, CallOfOther
<1>6. ASSUME EventAt.type = "fn_call" PROVE CallOfOther \in Seq(Calls)
  <2>1. EventAt.contract \in Contracts
    BY <1>1, <1>2 DEF EventAt
  <2>2. NameOfOther \in FunctionNames
    BY <1>6, NamesTyped
  <2> QED
    BY <1>1, <1>3, <1>4, <2>1, <2>2 DEF CallOfOther
<1>7. ASSUME EventAt.type = "fn_call" PROVE CallOfMain \in Seq(Calls)
  <2>1. CASE pos < Len(trace) /\ trace[pos + 1].contract \notin {NoContract, Main}
    <3>1. trace[pos + 1].contract \in Contracts /\ Main \in Contracts
      BY <1>1, <1>2, <2>1, MainAssumption
    <3>2. NameByMain \in FunctionNames
      BY <1>7, NamesTyped
    <3> QED
      BY <1>3, <1>4, <2>1, <3>1, <3>2 DEF CallOfMain
  <2>2. CASE ~(pos < Len(trace) /\ trace[pos + 1].contract \notin {NoContract, Main})
    BY <1>4, <2>2 DEF CallOfMain
  <2> QED
    BY <2>1, <2>2
<1> QED
  BY <1>5, <1>6, <1>7

LEMMA InitAuth == Init => AuthInv
<1> SUFFICES ASSUME Init PROVE AuthInv
  OBVIOUS
<1> QED
  BY DEF Init, AuthInv

\* A node at the limit or above it finds its caller in callerAt.
LEMMA CallerKnown ==
    ASSUME auth \in AuthTrees, AuthAt, pos <= Len(auth)
    PROVE  /\ pos \in 1 .. Len(auth) /\ Depth(pos) \in Nat \ {0} /\ Len(callerAt) \in Nat
           /\ Depth(pos) <= AuthDepthLimit =>
                  Depth(pos) \in 1 .. Len(callerAt) /\ callerAt[Depth(pos)] = Caller(pos)
           /\ Depth(pos) > AuthDepthLimit => Len(callerAt) = AuthDepthLimit + 1
<1>1. /\ pos \in 1 .. Len(auth) /\ Depth(pos) \in Nat \ {0} /\ Len(callerAt) \in Nat
      /\ AuthDepthLimit \in Nat
  BY AuthTyped DEF AuthAt
<1>2. CASE pos = 1
  BY <1>1, <1>2, AuthTyped, CallerIs DEF AuthAt
<1>3. CASE pos # 1
  <2>1. pos \in 2 .. Len(auth) /\ pos - 1 \in 1 .. Len(auth)
    BY <1>1, <1>3
  <2>2. Depth(pos) <= Depth(pos - 1) + 1 /\ Depth(pos - 1) \in Nat \ {0}
    BY <2>1, AuthTyped
  <2>3. Len(callerAt) = IF Depth(pos - 1) <= AuthDepthLimit THEN Depth(pos - 1) + 1 ELSE AuthDepthLimit + 1
    BY <1>3 DEF AuthAt
  <2>4. Depth(pos) <= AuthDepthLimit => Depth(pos) \in 1 .. Len(callerAt)
    BY <1>1, <2>2, <2>3
  <2>5. Depth(pos) > AuthDepthLimit => Len(callerAt) = AuthDepthLimit + 1
    BY <1>1, <2>2, <2>3
  <2>6. Caller(pos) = CallerAt(pos, Depth(pos))
    BY <1>1, CallerIs
  <2> QED
    BY <1>1, <2>4, <2>5, <2>6 DEF AuthAt
<1> QED
  BY <1>2, <1>3

LEMMA WalkInvocationAuth ==
    ASSUME AuthInv, WalkInvocation
    PROVE  /\ AuthInv'
           /\ ToSet(calls') \subseteq ToSet(calls) \cup EdgesTo(pos)'
           /\ EdgesTo(pos) \subseteq EdgesTo(pos)'
<1>1. /\ auth \in AuthTrees /\ auth' = auth /\ calls \in Seq(Calls) /\ AuthAt
      /\ phase' = "auth" /\ pos <= Len(auth) /\ pos' = pos + 1 /\ trace' = trace
      /\ Depth(pos) <= AuthDepthLimit
  <2>1. auth' = auth /\ phase' = "auth" /\ phase = "auth" /\ pos <= Len(auth) /\ pos' = pos + 1 /\ trace' = trace
    BY DEF WalkInvocation, hostVars
  <2>2. ~(Depth(pos) > AuthDepthLimit)
    BY DEF WalkInvocation, TooDeep, Node, Depth
  <2>3. auth \in AuthTrees /\ AuthAt /\ calls \in Seq(Calls)
    BY <2>1 DEF AuthInv
  <2>4. Depth(pos) \in Nat /\ AuthDepthLimit \in Nat
    BY <2>1, <2>3, CallerKnown, AuthTyped
  <2> QED
    BY <2>1, <2>2, <2>3, <2>4
<1> DEFINE D == Depth(pos)
           from == callerAt[D]
           edge == auth[pos].to \in Contracts /\ auth[pos].to # from
<1>2. /\ pos \in 1 .. Len(auth) /\ D \in Nat \ {0} /\ D \in 1 .. Len(callerAt)
      /\ from = Caller(pos) /\ from \in Contracts /\ callerAt \in Seq(Contracts)
  <2>1. callerAt \in Seq(Contracts)
    BY <1>1 DEF AuthAt
  <2> QED
    BY <1>1, <2>1, CallerKnown
<1>3. /\ calls' = IF edge THEN Append(calls, Edge(pos)) ELSE calls
      /\ skippedEdges' = IF auth[pos].to = NotAContract THEN skippedEdges + 1 ELSE skippedEdges
      /\ callerAt' = Append(SubSeq(callerAt, 1, D), IF edge THEN auth[pos].to ELSE from)
      /\ edge <=> Leaves(pos)
  BY <1>2 DEF WalkInvocation, Node, Depth, Edge, CallerBelow, Leaves
<1>4. edge => Edge(pos) \in Calls
  <2>1. auth[pos].fn \in FunctionNames
    <3>1. auth \in Seq(Nodes)
      BY <1>1, AuthTyped
    <3>2. auth[pos] \in Nodes
      BY <1>2, <3>1
    <3> QED
      BY <3>2 DEF Nodes
  <2> QED
    BY <1>2, <2>1 DEF Edge, Call, Calls, CallRecords
<1>5. calls' \in Seq(Calls) /\ ToSet(calls') = IF edge THEN ToSet(calls) \cup {Edge(pos)} ELSE ToSet(calls)
  <2>1. CASE edge
    <3>1. Append(calls, Edge(pos)) \in Seq(Calls) /\ ToSet(Append(calls, Edge(pos))) = ToSet(calls) \cup {Edge(pos)}
      BY <1>1, <1>4, <2>1, Longer
    <3> QED
      BY <1>3, <2>1, <3>1
  <2>2. CASE ~edge
    BY <1>1, <1>3, <2>2
  <2> QED
    BY <2>1, <2>2
<1>6. /\ callerAt' \in Seq(Contracts) /\ Len(callerAt') = D + 1
      /\ callerAt'[D + 1] = IF edge THEN auth[pos].to ELSE from
      /\ \A d \in 1 .. D : callerAt'[d] = callerAt[d]
  <2> DEFINE top == IF edge THEN auth[pos].to ELSE from
             s == SubSeq(callerAt, 1, D)
  <2>1. top \in Contracts
    BY <1>2
  <2>2. s \in Seq(Contracts) /\ Len(s) = D /\ \A d \in 1 .. D : s[d] = callerAt[d]
    <3> HIDE DEF D
    <3> QED
      BY <1>2
  <2>3. callerAt' = Append(s, top)
    BY <1>3
  <2> HIDE DEF top, s, D
  <2>4. /\ callerAt' \in Seq(Contracts) /\ Len(callerAt') = D + 1
        /\ callerAt'[D + 1] = top /\ \A d \in 1 .. D : callerAt'[d] = s[d]
    BY <2>1, <2>2, <2>3, Longer
  <2> QED
    BY <2>2, <2>4 DEF top
<1>7. ASSUME NEW d \in 1 .. D + 1 PROVE callerAt'[d] = CallerAt(pos + 1, d)
  <2>1. CASE d = D + 1
    BY <1>1, <1>2, <1>6, <2>1, CallerBelowNode, CallerIs
  <2>2. CASE d \in 1 .. D
    <3>1. CallerAt(pos + 1, d) = CallerAt(pos, d) /\ d \in 1 .. Len(callerAt)
      BY <1>1, <1>2, <2>2, CallerKept
    <3> QED
      BY <1>1, <1>6, <2>2, <3>1 DEF AuthAt
  <2> QED
    BY <1>2, <2>1, <2>2
<1>8. /\ EdgesTo(pos + 1) = IF edge THEN EdgesTo(pos) \cup {Edge(pos)} ELSE EdgesTo(pos)
      /\ SkippedTo(pos + 1) = IF auth[pos].to = NotAContract THEN SkippedTo(pos) \cup {pos} ELSE SkippedTo(pos)
      /\ pos \notin SkippedTo(pos) /\ IsFiniteSet(SkippedTo(pos))
  <2>1. pos \in Nat \ {0} /\ (edge <=> Depth(pos) <= AuthDepthLimit /\ Leaves(pos))
    BY <1>1, <1>2, <1>3
  <2> HIDE DEF edge
  <2> QED
    BY <1>1, <2>1, EdgesNext
<1>9. skippedEdges' = Cardinality(SkippedTo(pos + 1))
  BY <1>1, <1>3, <1>8, FS_AddElement DEF AuthAt
<1>10. EdgesTo(pos + 1) \subseteq ToSet(calls') /\ (trace = << >> => ToSet(calls') = EdgesTo(pos + 1))
  BY <1>1, <1>5, <1>8 DEF AuthAt
<1>11. pos' # 1 /\ pos' - 1 = pos /\ pos' \in 1 .. Len(auth) + 1 /\ auth' = auth
  BY <1>1, <1>2
<1>12. \A d \in 1 .. D + 1 : CallerAt(pos, d)' = CallerAt(pos + 1, d)
  BY <1>1 DEF CallerAt, AboveAt, Depth
<1>13. EdgesTo(pos)' = EdgesTo(pos + 1) /\ SkippedTo(pos)' = SkippedTo(pos + 1)
  BY <1>1 DEF EdgesTo, SkippedTo, Edge, Leaves, Caller, Above, Depth
<1>14. AuthAt'
  <2>1. Depth(pos - 1)' = D
    BY <1>11 DEF Depth
  <2>2. Len(callerAt') = IF pos' = 1 THEN 1
                         ELSE IF Depth(pos - 1)' <= AuthDepthLimit THEN Depth(pos - 1)' + 1
                         ELSE AuthDepthLimit + 1
    BY <1>1, <1>6, <1>11, <2>1
  <2>3. \A d \in 1 .. Len(callerAt') : callerAt'[d] = CallerAt(pos, d)'
    BY <1>6, <1>7, <1>12
  <2>4. EdgesTo(pos)' \subseteq ToSet(calls') /\ (trace' = << >> => ToSet(calls') = EdgesTo(pos)')
    BY <1>1, <1>10, <1>13
  <2>5. skippedEdges' = Cardinality(SkippedTo(pos)')
    BY <1>9, <1>13
  <2>6. pos' \in 1 .. Len(auth') + 1 /\ callerAt' \in Seq(Contracts)
    BY <1>6, <1>11
  <2> HIDE DEF D
  <2> QED
    BY <2>2, <2>3, <2>4, <2>5, <2>6 DEF AuthAt
<1>15. AuthInv'
  BY <1>1, <1>5, <1>14 DEF AuthInv
<1>16. /\ ToSet(calls') \subseteq ToSet(calls) \cup EdgesTo(pos + 1)
       /\ EdgesTo(pos) \subseteq EdgesTo(pos + 1)
  <2> HIDE DEF edge
  <2> QED
    BY <1>5, <1>8
<1> QED
  BY <1>13, <1>15, <1>16

LEMMA CutOffAuth ==
    ASSUME AuthInv, CutOff
    PROVE  AuthInv' /\ EdgesTo(pos)' = EdgesTo(pos)
<1>1. /\ auth \in AuthTrees /\ auth' = auth /\ calls \in Seq(Calls) /\ calls' = calls /\ AuthAt
      /\ phase' = "auth" /\ pos <= Len(auth) /\ pos' = pos + 1 /\ trace' = trace
      /\ callerAt' = callerAt /\ skippedEdges' = skippedEdges
  BY DEF CutOff, hostVars, AuthInv
<1> DEFINE D == Depth(pos)
<1>2. /\ pos \in 1 .. Len(auth) /\ D \in Nat \ {0} /\ AuthDepthLimit \in Nat
      /\ D > AuthDepthLimit /\ Len(callerAt) = AuthDepthLimit + 1
      /\ callerAt \in Seq(Contracts)
  <2>1. D > AuthDepthLimit
    BY DEF CutOff, TooDeep, Node, Depth
  <2> QED
    BY <1>1, <2>1, CallerKnown, AuthTyped DEF AuthAt
<1>3. \A d \in 1 .. AuthDepthLimit + 1 : callerAt[d] = CallerAt(pos + 1, d)
  <2>1. ASSUME NEW d \in 1 .. AuthDepthLimit + 1 PROVE CallerAt(pos + 1, d) = CallerAt(pos, d)
    <3>1. d \in Nat /\ d <= Depth(pos)
      BY <1>2
    <3> QED
      BY <1>1, <1>2, <3>1, CallerKept
  <2> QED
    BY <1>1, <1>2, <2>1 DEF AuthAt
<1>4. EdgesTo(pos + 1) = EdgesTo(pos) /\ SkippedTo(pos + 1) = SkippedTo(pos)
  <2>1. pos \in Nat \ {0} /\ ~(Depth(pos) <= AuthDepthLimit)
    BY <1>1, <1>2, AuthTyped
  <2> QED
    BY <2>1, EdgesNext
<1>5. pos' # 1 /\ pos' - 1 = pos /\ pos' \in 1 .. Len(auth) + 1
  BY <1>1, <1>2, AuthTyped
<1>6. \A d \in 1 .. AuthDepthLimit + 1 : CallerAt(pos, d)' = CallerAt(pos + 1, d)
  BY <1>1 DEF CallerAt, AboveAt, Depth
<1>7. EdgesTo(pos)' = EdgesTo(pos + 1) /\ SkippedTo(pos)' = SkippedTo(pos + 1)
  BY <1>1 DEF EdgesTo, SkippedTo, Edge, Leaves, Caller, Above, Depth
<1>8. AuthAt'
  <2>1. Depth(pos - 1)' = D
    BY <1>1, <1>5 DEF Depth
  <2>2. Len(callerAt') = IF pos' = 1 THEN 1
                         ELSE IF Depth(pos - 1)' <= AuthDepthLimit THEN Depth(pos - 1)' + 1
                         ELSE AuthDepthLimit + 1
    BY <1>1, <1>2, <1>5, <2>1
  <2>3. \A d \in 1 .. Len(callerAt') : callerAt'[d] = CallerAt(pos, d)'
    BY <1>1, <1>2, <1>3, <1>6
  <2>4. EdgesTo(pos)' \subseteq ToSet(calls') /\ (trace' = << >> => ToSet(calls') = EdgesTo(pos)')
    BY <1>1, <1>4, <1>7 DEF AuthAt
  <2>5. skippedEdges' = Cardinality(SkippedTo(pos)')
    BY <1>1, <1>4, <1>7 DEF AuthAt
  <2>6. pos' \in 1 .. Len(auth') + 1 /\ callerAt' \in Seq(Contracts)
    BY <1>1, <1>2, <1>5
  <2> HIDE DEF D
  <2> QED
    BY <2>2, <2>3, <2>4, <2>5, <2>6 DEF AuthAt
<1> QED
  BY <1>1, <1>4, <1>7, <1>8 DEF AuthInv

\* The recursion starts below the main contract.
LEMMA EventsDoneAuth ==
    ASSUME AuthInv, EventsDone
    PROVE  AuthInv'
<1>1. /\ auth \in AuthTrees /\ auth' = auth /\ calls \in Seq(Calls) /\ calls' = calls
      /\ phase' = "auth" /\ pos' = 1 /\ trace' = trace /\ callerAt' = << Main >>
      /\ skippedEdges' = 0 /\ (trace = << >> => calls = << >>)
  BY DEF EventsDone, hostVars, AuthInv
<1>2. callerAt' \in Seq(Contracts) /\ Len(callerAt') = 1 /\ callerAt'[1] = Main
  BY <1>1, MainAssumption
<1>3. CallerAt(pos, 1)' = Main
  BY <1>1 DEF CallerAt, AboveAt
<1>4. EdgesTo(pos)' = {} /\ SkippedTo(pos)' = {}
  <2>1. 1 .. pos' - 1 = {}
    BY <1>1
  <2> QED
    BY <2>1 DEF EdgesTo, SkippedTo
<1>5. AuthAt'
  <2>1. pos' \in 1 .. Len(auth') + 1
    BY <1>1, AuthTyped
  <2>2. \A d \in 1 .. Len(callerAt') : callerAt'[d] = CallerAt(pos, d)'
    BY <1>2, <1>3
  <2>3. Cardinality(SkippedTo(pos)') = 0
    BY <1>4, FS_EmptySet
  <2>4. trace' = << >> => ToSet(calls') = EdgesTo(pos)'
    BY <1>1, <1>4, ToSetSmall
  <2> QED
    BY <1>1, <1>2, <1>4, <2>1, <2>2, <2>3, <2>4 DEF AuthAt
<1> QED
  BY <1>1, <1>5 DEF AuthInv

LEMMA AuthKept ==
    ASSUME AuthAt, UNCHANGED << auth, pos, callerAt, calls, trace, skippedEdges >>
    PROVE  AuthAt' /\ EdgesTo(pos)' = EdgesTo(pos)
<1>1. \A d \in 1 .. Len(callerAt) : CallerAt(pos, d)' = CallerAt(pos, d)
  BY DEF CallerAt, AboveAt, Depth
<1>2. EdgesTo(pos)' = EdgesTo(pos) /\ SkippedTo(pos)' = SkippedTo(pos)
  BY DEF EdgesTo, SkippedTo, Edge, Leaves, Caller, Above, Depth
<1>3. Depth(pos - 1)' = Depth(pos - 1)
  BY DEF Depth
<1> QED
  BY <1>1, <1>2, <1>3 DEF AuthAt

LEMMA AuthNext ==
    ASSUME IInv, AuthInv, [Next]_vars
    PROVE  AuthInv'
<1>1. CASE \/ \E c \in Contracts, fn \in Functions : HostCall(c, fn)
           \/ \E type \in {"other", "error_value"} : HostEmit(type)
           \/ HostReturn \/ HostFail \/ HostCatch
  <2>1. UNCHANGED << phase, auth, walkVars >> /\ phase = "host"
    BY <1>1 DEF HostCall, HostEmit, HostReturn, HostFail, HostCatch, HostOnly, Running
  <2> QED
    BY <2>1 DEF AuthInv, walkVars
<1>2. CASE HostDone
  BY <1>2 DEF HostDone, AuthInv, walkVars
<1>3. CASE SkipEvent
  <2>1. phase = "events" /\ phase' = "events" /\ UNCHANGED << auth, calls, trace, callerAt, skippedEdges >>
    BY <1>3 DEF SkipEvent, hostVars
  <2> QED
    BY <2>1 DEF AuthInv
<1>4. CASE WalkEvent
  <2>1. /\ phase = "events" /\ phase' = "events" /\ UNCHANGED << auth, trace, callerAt, skippedEdges >>
        /\ calls' = calls \o CallOfMain \o CallOfOther
        /\ pos <= Len(trace) /\ EventAt.contract # NoContract
    BY <1>4 DEF WalkEvent, hostVars
  <2>2. trace # << >>
    BY <2>1 DEF IInv, Trace
  <2>3. calls' \in Seq(Calls)
    BY <2>1, EventCallsTyped, Joined DEF AuthInv
  <2> QED
    BY <2>1, <2>2, <2>3 DEF AuthInv
<1>5. CASE Integrate
  <2>1. /\ phase = "auth" /\ phase' = "done" /\ pos > Len(auth)
        /\ UNCHANGED << auth, pos, callerAt, calls, trace, skippedEdges >>
        /\ graph' = IF calls = << >> THEN NoGraph
                    ELSE [calls |-> Deduplicated, contracts |-> ContractsInvolved,
                          maxDepth |-> MaxDepth]
    BY <1>5 DEF Integrate, hostVars
  <2>2. AuthAt' /\ auth \in AuthTrees /\ calls \in Seq(Calls)
    BY <2>1, AuthKept DEF AuthInv
  <2>3. Deduplicated' = Deduplicated /\ ContractsInvolved' = ContractsInvolved /\ MaxDepth' = MaxDepth
    BY <2>1 DEF Deduplicated, ContractsInvolved, MaxDepth
  <2> QED
    BY <2>1, <2>2, <2>3 DEF AuthInv
<1>6. CASE UNCHANGED vars
  <2>1. UNCHANGED << auth, pos, callerAt, calls, trace, skippedEdges, phase, graph >>
    BY <1>6 DEF vars, hostVars, walkVars
  <2>2. Deduplicated' = Deduplicated /\ ContractsInvolved' = ContractsInvolved /\ MaxDepth' = MaxDepth
    BY <2>1 DEF Deduplicated, ContractsInvolved, MaxDepth
  <2> QED
    BY <2>1, <2>2, AuthKept DEF AuthInv
<1> QED
  BY <1>1, <1>2, <1>3, <1>4, <1>5, <1>6, EventsDoneAuth, WalkInvocationAuth, CutOffAuth
  DEF Next, Terminated

\* deduplicateCalls keeps every call, the first of each, and no call twice.
LEMMA DeduplicatedIs ==
    ASSUME calls \in Seq(Calls)
    PROVE  /\ Deduplicated \in Seq(Calls) /\ ToSet(Deduplicated) = ToSet(calls)
           /\ \A n \in DOMAIN Deduplicated : \A m \in 1 .. n - 1 : Deduplicated[m] # Deduplicated[n]
<1> DEFINE keep == {n \in DOMAIN calls : \A m \in 1 .. n - 1 : calls[m] # calls[n]}
           N == Len(calls)
<1>1. N \in Nat /\ DOMAIN calls = 1 .. N
  OBVIOUS
<1>2. PICK d, p : d = Deduplicated /\ d \in Seq(Calls) /\ Picks(p, d, calls, keep, N)
  <2>1. Deduplicated = Selected(calls, keep)
    BY DEF Deduplicated
  <2> HIDE DEF keep, N
  <2> QED
    BY <2>1, SelectedPositions DEF N
<1> DEFINE L == Len(d)
<1>3. /\ L \in Nat /\ DOMAIN d = 1 .. L /\ p \in [1 .. L -> 1 .. N]
      /\ \A k \in 1 .. L : p[k] \in keep /\ d[k] = calls[p[k]]
      /\ \A j, k \in 1 .. L : j < k => p[j] < p[k]
      /\ \A n \in 1 .. N : n \in keep => \E k \in 1 .. L : p[k] = n
  <2> HIDE DEF keep, N
  <2> QED
    BY <1>2 DEF Picks
<1>4. ASSUME NEW n \in 1 .. N PROVE \E m \in keep : calls[m] = calls[n]
  <2> DEFINE T == {m \in 1 .. N : calls[m] = calls[n]}
  <2>1. T \in SUBSET Nat /\ n \in T
    OBVIOUS
  <2>2. PICK m \in T : \A l \in T : m <= l
    <3> HIDE DEF T
    <3> QED
      BY <2>1, Least
  <2>3. \A l \in 1 .. m - 1 : calls[l] # calls[m]
    <3>1. ASSUME NEW l \in 1 .. m - 1, calls[l] = calls[m] PROVE FALSE
      <4>1. l \in 1 .. N /\ calls[l] = calls[n] /\ ~(m <= l)
        BY <1>1, <2>2, <3>1
      <4> QED
        BY <2>2, <4>1
    <3> QED
      BY <3>1
  <2> QED
    BY <1>1, <2>2, <2>3
<1>5. ToSet(d) = ToSet(calls)
  <2>1. ASSUME NEW k \in 1 .. L PROVE d[k] \in ToSet(calls)
    BY <1>1, <1>3 DEF ToSet
  <2>2. ASSUME NEW n \in 1 .. N PROVE calls[n] \in ToSet(d)
    <3>1. PICK m \in keep : calls[m] = calls[n]
      BY <1>4
    <3>2. m \in 1 .. N
      BY <1>1, <3>1
    <3>3. PICK k \in 1 .. L : p[k] = m
      <4> HIDE DEF keep, N, L
      <4> QED
        BY <1>3, <3>1, <3>2
    <3>4. d[k] = calls[n]
      <4> HIDE DEF keep, N, L
      <4> QED
        BY <1>3, <3>1, <3>3
    <3> QED
      BY <1>3, <3>4 DEF ToSet
  <2> QED
    BY <1>1, <1>3, <2>1, <2>2 DEF ToSet
<1>6. ASSUME NEW n \in 1 .. L, NEW m \in 1 .. n - 1 PROVE d[m] # d[n]
  <2>1. m \in 1 .. L /\ m < n
    BY <1>3
  <2>2. p[m] < p[n] /\ p[m] \in 1 .. N /\ p[n] \in 1 .. N /\ p[n] \in keep
    <3> HIDE DEF keep, N, L
    <3> QED
      BY <1>3, <2>1
  <2>3. p[m] \in 1 .. p[n] - 1
    BY <1>1, <2>2
  <2>4. calls[p[m]] # calls[p[n]]
    BY <2>2, <2>3
  <2> HIDE DEF keep, N, L
  <2> QED
    BY <1>3, <2>1, <2>4
<1> QED
  BY <1>2, <1>3, <1>5, <1>6

\* The stored graph has the calls that were recorded.
LEMMA GraphCalls ==
    ASSUME AuthInv, phase = "done"
    PROVE  ToSet(graph.calls) = ToSet(calls)
<1>1. CASE calls = << >>
  BY <1>1 DEF AuthInv, NoGraph
<1>2. CASE calls # << >>
  <2>1. graph.calls = Deduplicated
    BY <1>2 DEF AuthInv
  <2> QED
    BY <2>1, DeduplicatedIs DEF AuthInv
<1> QED
  BY <1>1, <1>2

LEMMA AuthorizedAtEnd == AuthInv => AuthorizedCallsRecorded
<1> SUFFICES ASSUME AuthInv, phase = "done" PROVE AuthorizedCallsRecorded
  BY DEF AuthorizedCallsRecorded
<1>1. AuthAt /\ auth \in AuthTrees /\ pos > Len(auth)
  BY DEF AuthInv
<1>2. pos - 1 = Len(auth) /\ DOMAIN auth = 1 .. Len(auth)
  BY <1>1, AuthTyped DEF AuthAt
<1>3. /\ EdgesTo(pos) = {Edge(n) : n \in {m \in Reached : Leaves(m)}}
      /\ SkippedTo(pos) = {n \in Reached : auth[n].to = NotAContract}
  BY <1>2 DEF EdgesTo, SkippedTo, Reached
<1> QED
  BY <1>1, <1>3, GraphCalls DEF AuthorizedCallsRecorded, AuthorizedEdges, AuthAt

\* Whatever the authorization tree, each invocation of another contract down to
\* the limit is an edge from the nearest contract above it.
THEOREM Authorized == Spec => []AuthorizedCallsRecorded
<1>1. Init => IInv /\ AuthInv
  BY InitInv, InitAuth
<1>2. IInv /\ AuthInv /\ [Next]_vars => IInv' /\ AuthInv'
  BY NextInv, AuthNext
<1>3. AuthInv => AuthorizedCallsRecorded
  BY AuthorizedAtEnd
<1> QED
  BY <1>1, <1>2, <1>3, PTL DEF Spec

-----------------------------------------------------------------------------
(* The history of the host's stack.                                         *)

\* The stacks before and after an event of a frame that does not fail.
StepOf(f, e, g) ==
    /\ f # << >>
    /\ \/ /\ e.type = "fn_call" /\ g = Append(f, g[Len(g)]) /\ g[Len(g)] \in Contracts
          /\ e.contract = IF convention = "caller" THEN f[Len(f)] ELSE g[Len(g)]
       \/ e.type \in {"other", "error_value"} /\ e.contract = f[Len(f)] /\ g = f
       \/ e.type = "fn_return" /\ e.contract = f[Len(f)] /\ g = Front(f)

\* Some call between two contracts at a depth, whatever its function.
Edged(S, from, to, depth) == \E c \in S : c.from = from /\ c.to = to /\ c.depth = depth

\* A stack of the host: the main contract is at its bottom, no contract is on
\* it twice, and each was called by the one below.
HostStack(f) ==
    /\ f \in Seq(Contracts)
    /\ f # << >> => f[1] = Main
    /\ \A m, n \in 1 .. Len(f) : m # n => f[m] # f[n]
    /\ \A n \in 2 .. Len(f) : Edged(ToSet(made), f[n - 1], f[n], n - 1)

FirstEvent == Event("fn_call", IF convention = "caller" THEN NoContract ELSE Main, MainFunction)

\* h[n] is the stack after event n.
History(h) ==
    /\ h \in Seq(Seq(Contracts)) /\ Len(h) = Len(trace) /\ Len(h) \in Nat \ {0}
    /\ h[1] = << Main >> /\ trace[1] = FirstEvent
    /\ \A n \in 1 .. Len(h) : HostStack(h[n])
    /\ \A n \in 2 .. Len(h) : StepOf(h[n - 1], trace[n], h[n])
    /\ h[Len(h)] = IF phase = "host" THEN frames ELSE << >>

\* Event k is the fn_call of the call c.
CallAt(h, k, c) ==
    /\ trace[k].type = "fn_call" /\ h[k - 1] # << >>
    /\ h[k] = Append(h[k - 1], c.to)
    /\ c.from = h[k - 1][Len(h[k - 1])] /\ c.depth = Len(h[k - 1]) /\ c.fn = trace[k].fn

\* The call between the stacks f and g, of the function fn.
CallTo(f, g, fn) == Call(f[Len(f)], g[Len(g)], fn, Len(f))

\* The call c made the frame on top of f.
MadeTop(f, c) == Len(f) = c.depth + 1 /\ f[c.depth] = c.from /\ f[c.depth + 1] = c.to

\* Every call has its event and every fn_call its call; and the next call, if it
\* is one deeper, was made by the frame that the call made.
MadeHistory(h) ==
    /\ made \in Seq(CallRecords)
    /\ \A k \in 2 .. Len(h) : trace[k].type = "fn_call" =>
           CallTo(h[k - 1], h[k], trace[k].fn) \in ToSet(made)
    /\ \A n \in 1 .. Len(made) : \E k \in 2 .. Len(h) : CallAt(h, k, made[n])
    /\ \A n \in 2 .. Len(made) : made[n].depth = made[n - 1].depth + 1 =>
           \E k \in 2 .. Len(h) : CallAt(h, k, made[n]) /\ MadeTop(h[k - 1], made[n - 1])
    /\ phase = "host" /\ made # << >> => 
           LET c == made[Len(made)]
           IN  /\ Len(frames) <= c.depth + 1
               /\ Len(frames) = c.depth + 1 => MadeTop(frames, c)

LEMMA HistoryGrows ==
    ASSUME NEW h, History(h), Running, trace \in Seq(Events),
           UNCHANGED << phase, convention >>,
           NEW e \in Events, trace' = Append(trace, e),
           NEW f \in Seq(Contracts), frames' = f, StepOf(frames, e, f),
           HostStack(f)', ToSet(made) \subseteq ToSet(made'),
           NEW g, g = Append(h, f)
    PROVE  History(g)'
<1> DEFINE N == Len(h)
<1>1. h \in Seq(Seq(Contracts)) /\ N = Len(trace) /\ N \in Nat \ {0} /\ h[N] = frames
  BY DEF History, Running
<1>2. /\ g \in Seq(Seq(Contracts)) /\ Len(g) = N + 1 /\ g[N + 1] = f
      /\ \A n \in 1 .. N : g[n] = h[n]
  BY <1>1
<1>3. /\ Len(trace') = N + 1 /\ trace'[N + 1] = e
      /\ \A n \in 1 .. N : trace'[n] = trace[n]
  BY <1>1
<1> HIDE DEF N
<1>4. /\ \A n \in 1 .. N + 1 : n = N + 1 \/ n \in 1 .. N
      /\ \A n \in 2 .. N + 1 : n = N + 1 \/ n \in 2 .. N
      /\ \A n \in 2 .. N : n \in 1 .. N /\ n - 1 \in 1 .. N
      /\ 1 \in 1 .. N /\ N \in 1 .. N /\ (N + 1) - 1 = N /\ N + 1 # 1 /\ N + 1 \in 2 .. N + 1
      /\ \A n \in 2 .. N : n \in 2 .. N + 1
  BY <1>1
<1>5. \A n \in 1 .. N + 1 : HostStack(g[n])'
  <2>1. \A n \in 1 .. N : HostStack(h[n])
    BY <1>1 DEF History, N
  <2>2. \A n \in 1 .. N : HostStack(h[n])'
    BY <2>1 DEF HostStack, Edged
  <2>3. HostStack(g[N + 1])'
    BY <1>2
  <2>4. \A n \in 1 .. N : HostStack(g[n])'
    BY <1>2, <2>2
  <2> QED
    BY <1>4, <2>3, <2>4
<1>6. \A n \in 2 .. N + 1 : StepOf(g[n - 1], trace'[n], g[n])
  <2>1. \A n \in 2 .. N : StepOf(h[n - 1], trace[n], h[n])
    BY DEF History, N
  <2>2. \A n \in 2 .. N : StepOf(g[n - 1], trace'[n], g[n])
    BY <1>2, <1>3, <1>4, <2>1
  <2>3. StepOf(g[N], trace'[N + 1], g[N + 1])
    BY <1>1, <1>2, <1>3, <1>4
  <2> QED
    BY <1>4, <2>2, <2>3
<1>7. g[1] = << Main >> /\ trace'[1] = FirstEvent /\ FirstEvent' = FirstEvent
  BY <1>2, <1>3, <1>4 DEF History, FirstEvent
<1>8. phase' = "host"
  BY DEF Running
<1>9. \A n \in 2 .. N + 1 : StepOf(g[n - 1], trace[n], g[n])'
  BY <1>6 DEF StepOf
<1>10. Len(g) \in Nat \ {0} /\ g[Len(g)] = f
  BY <1>1, <1>2
<1> QED
  BY <1>2, <1>3, <1>5, <1>7, <1>8, <1>9, <1>10 DEF History

\* The stack of the host, one longer.
LEMMA StackGrows ==
    ASSUME NEW f, HostStack(f), f # << >>, NEW c \in Contracts, c \notin ToSet(f),
           Edged(ToSet(made'), f[Len(f)], c, Len(f)), ToSet(made) \subseteq ToSet(made')
    PROVE  HostStack(Append(f, c))'
<1> DEFINE L == Len(f)
           g == Append(f, c)
<1>1. /\ f \in Seq(Contracts) /\ f[1] = Main
      /\ \A m, n \in 1 .. L : m # n => f[m] # f[n]
      /\ \A n \in 2 .. L : Edged(ToSet(made'), f[n - 1], f[n], n - 1)
  BY DEF HostStack, Edged
<1>2. /\ g \in Seq(Contracts) /\ Len(g) = L + 1 /\ g[L + 1] = c
      /\ \A n \in 1 .. L : g[n] = f[n]
      /\ \A n \in 1 .. L + 1 : n = L + 1 \/ n \in 1 .. L
  BY <1>1, Longer
<1>3. L \in Nat \ {0} /\ \A n \in 1 .. L : f[n] # c
  <2>1. f \in Seq(Contracts) /\ c \notin {f[i] : i \in DOMAIN f}
    BY <1>1 DEF ToSet
  <2> QED
    BY <2>1
<1> HIDE DEF g, L
<1>4. ASSUME NEW m \in 1 .. L + 1, NEW n \in 1 .. L + 1, m # n PROVE g[m] # g[n]
  BY <1>1, <1>2, <1>3, <1>4
<1>5. ASSUME NEW n \in 2 .. L + 1 PROVE Edged(ToSet(made'), g[n - 1], g[n], n - 1)
  <2>1. CASE n = L + 1
    <3>1. n - 1 = L /\ L \in 1 .. L
      BY <1>3, <2>1
    <3> QED
      BY <1>2, <2>1, <3>1 DEF L
  <2>2. CASE n # L + 1
    <3>1. n \in 2 .. L /\ n \in 1 .. L /\ n - 1 \in 1 .. L
      BY <1>3, <2>2
    <3> QED
      BY <1>1, <1>2, <3>1
  <2> QED
    BY <2>1, <2>2
<1>6. g[1] = Main
  BY <1>1, <1>2, <1>3
<1>7. HostStack(g)'
  BY <1>2, <1>4, <1>5, <1>6 DEF HostStack
<1> QED
  BY <1>7 DEF g

LEMMA StackShrinks ==
    ASSUME NEW f, HostStack(f), f # << >>
    PROVE  HostStack(Front(f))
<1> DEFINE L == Len(f)
           g == Front(f)
<1>1. /\ f \in Seq(Contracts) /\ f[1] = Main
      /\ \A m, n \in 1 .. L : m # n => f[m] # f[n]
      /\ \A n \in 2 .. L : Edged(ToSet(made), f[n - 1], f[n], n - 1)
  BY DEF HostStack
<1>2. /\ g \in Seq(Contracts) /\ L \in Nat \ {0} /\ Len(g) = L - 1
      /\ \A n \in 1 .. L - 1 : g[n] = f[n] /\ n \in 1 .. L
  BY <1>1, Shorter
<1> HIDE DEF g, L
<1>3. g # << >> => g[1] = Main
  BY <1>1, <1>2
<1>4. \A m, n \in 1 .. L - 1 : m # n => g[m] # g[n]
  BY <1>1, <1>2
<1>5. ASSUME NEW n \in 2 .. L - 1 PROVE Edged(ToSet(made), g[n - 1], g[n], n - 1)
  <2>1. n \in 2 .. L /\ n \in 1 .. L - 1 /\ n - 1 \in 1 .. L - 1
    BY <1>2
  <2> QED
    BY <1>1, <1>2, <2>1
<1>6. HostStack(g)
  BY <1>2, <1>3, <1>4, <1>5 DEF HostStack
<1> QED
  BY <1>6 DEF g

\* What a step of the host that does not fail does to the calls it made.
LEMMA MadeGrows ==
    ASSUME NEW h, History(h), MadeHistory(h), Running, trace \in Seq(Events), frames \in Seq(Contracts),
           phase' = phase, NEW e \in Events, trace' = Append(trace, e), e.type = "fn_call",
           NEW c \in Contracts, frames' = Append(frames, c),
           made' = Append(made, Call(Top, c, e.fn, Len(frames))),
           NEW f, f = frames', NEW g, g = Append(h, f)
    PROVE  MadeHistory(g)'
<1> DEFINE N == Len(h)
<1>0. PICK d, M : d = Call(Top, c, e.fn, Len(frames)) /\ M = Len(made)
  OBVIOUS
<1>1. /\ h \in Seq(Seq(Contracts)) /\ N = Len(trace) /\ N \in Nat \ {0} /\ h[N] = frames
      /\ f \in Seq(Contracts) /\ frames # << >> /\ phase = "host" /\ made \in Seq(CallRecords)
  BY Longer DEF History, Running, MadeHistory
<1>2. /\ g \in Seq(Seq(Contracts)) /\ Len(g) = N + 1 /\ g[N + 1] = f
      /\ \A n \in 1 .. N : g[n] = h[n]
      /\ trace'[N + 1] = e /\ \A n \in 1 .. N : trace'[n] = trace[n]
  BY <1>1
<1>3. Top = frames[Len(frames)] /\ Top \in Contracts /\ Len(frames) \in Nat \ {0}
  BY <1>1 DEF Top
<1>4. d \in CallRecords /\ d.from = Top /\ d.to = c /\ d.depth = Len(frames) /\ d.fn = e.fn
  <2>1. e.fn \in FunctionNames
    BY DEF Events
  <2> QED
    BY <1>0, <1>3, <2>1 DEF Call, CallRecords
<1>5. /\ made' \in Seq(CallRecords) /\ M \in Nat /\ Len(made') = M + 1 /\ made'[M + 1] = d
      /\ \A n \in 1 .. M : made'[n] = made[n] /\ made[n] \in CallRecords
  <2>1. made' = Append(made, d) /\ made \in Seq(CallRecords) /\ d \in CallRecords
    BY <1>0, <1>1, <1>4
  <2>2. \A n \in 1 .. Len(made) : made[n] \in CallRecords
    BY <2>1
  <2> QED
    BY <1>0, <2>1, <2>2, Longer
<1>16. ToSet(made') = ToSet(made) \cup {d}
  BY <1>0, <1>1, <1>4, Longer
<1>6. /\ f # << >> /\ Len(f) = Len(frames) + 1 /\ f[Len(frames) + 1] = c
      /\ f[Len(frames)] = Top
  BY <1>1, <1>3, Longer
<1> HIDE DEF N
<1>7. /\ \A k \in 2 .. N : k \in 2 .. N + 1 /\ k \in 1 .. N /\ k - 1 \in 1 .. N
      /\ N + 1 \in 2 .. N + 1 /\ (N + 1) - 1 = N /\ N \in 1 .. N
      /\ \A k \in 2 .. N + 1 : k = N + 1 \/ k \in 2 .. N
      /\ \A n \in 1 .. M + 1 : n = M + 1 \/ n \in 1 .. M
      /\ \A n \in 2 .. M + 1 : (n = M + 1 /\ n - 1 = M) \/ (n \in 1 .. M /\ n \in 2 .. M)
      /\ \A n \in 2 .. M + 1 : n - 1 \in 1 .. M
  BY <1>1, <1>5
<1>8. ASSUME NEW k \in 2 .. N, NEW x, CallAt(h, k, x) PROVE CallAt(g, k, x)'
  BY <1>2, <1>7, <1>8 DEF CallAt
<1>9. CallAt(g, N + 1, d)'
  <2>1. /\ trace'[N + 1].type = "fn_call" /\ g[N] = frames /\ g[N + 1] = Append(frames, c)
        /\ d.from = frames[Len(frames)] /\ d.to = c /\ d.depth = Len(frames)
        /\ d.fn = trace'[N + 1].fn
    BY <1>1, <1>2, <1>3, <1>4, <1>7
  <2> QED
    BY <1>1, <1>7, <2>1 DEF CallAt
<1>10. ASSUME NEW n \in 1 .. M + 1 PROVE \E k \in 2 .. N + 1 : CallAt(g, k, made[n])'
  <2>1. ASSUME NEW x, NEW k \in 2 .. N + 1, CallAt(g, k, x)', x = made'[n]
        PROVE  \E l \in 2 .. N + 1 : CallAt(g, l, made[n])'
    BY <2>1
  <2>2. CASE n = M + 1
    BY <1>5, <1>7, <1>9, <2>1, <2>2
  <2>3. CASE n \in 1 .. M
    <3>1. PICK k \in 2 .. N : CallAt(h, k, made[n])
      BY <1>0, <2>3 DEF MadeHistory, N
    <3>2. PICK x : x = made[n]
      OBVIOUS
    <3> QED
      BY <1>5, <1>7, <1>8, <2>1, <2>3, <3>1, <3>2
  <2> QED
    BY <1>7, <2>2, <2>3
<1>11. ASSUME NEW n \in 2 .. M + 1, made'[n].depth = made'[n - 1].depth + 1
       PROVE  \E k \in 2 .. N + 1 : CallAt(g, k, made[n])' /\ MadeTop(g[k - 1], made'[n - 1])
  <2>1. ASSUME NEW x, NEW k \in 2 .. N + 1, CallAt(g, k, x)', x = made'[n], MadeTop(g[k - 1], made'[n - 1])
        PROVE  \E l \in 2 .. N + 1 : CallAt(g, l, made[n])' /\ MadeTop(g[l - 1], made'[n - 1])
    BY <2>1
  <2>2. CASE n = M + 1
    <3>1. M \in 1 .. M /\ made[M] \in CallRecords /\ made # << >> /\ made'[M] = made[M]
      BY <1>5, <1>7, <2>2
    <3>0. n - 1 = M /\ made'[n] = d /\ made'[n - 1] = made[M]
      BY <1>5, <1>7, <2>2, <3>1
    <3>2. Len(frames) = made[M].depth + 1
      BY <1>4, <1>11, <3>0
    <3>3. MadeTop(g[N], made[M])
      BY <1>0, <1>1, <1>2, <1>7, <3>1, <3>2 DEF MadeHistory
    <3>4. MadeTop(g[(N + 1) - 1], made'[n - 1]) /\ N + 1 \in 2 .. N + 1
      BY <1>7, <3>0, <3>3
    <3> QED
      BY <1>9, <2>1, <3>0, <3>4
  <2>3. CASE n \in 1 .. M /\ n \in 2 .. M
    <3>1. n - 1 \in 1 .. M /\ made'[n - 1] = made[n - 1] /\ made'[n] = made[n]
      BY <1>5, <1>7, <2>3
    <3>2. PICK k \in 2 .. N : CallAt(h, k, made[n]) /\ MadeTop(h[k - 1], made[n - 1])
      BY <1>0, <1>11, <2>3, <3>1 DEF MadeHistory, N
    <3>3. PICK x : x = made[n]
      OBVIOUS
    <3>4. CallAt(g, k, x)' /\ k \in 2 .. N + 1 /\ MadeTop(g[k - 1], made'[n - 1])
      BY <1>2, <1>7, <1>8, <3>1, <3>2, <3>3
    <3> QED
      BY <2>1, <3>1, <3>3, <3>4
  <2> QED
    BY <1>7, <2>2, <2>3
<1>12. LET x == made'[M + 1]
       IN  Len(f) <= x.depth + 1 /\ (Len(f) = x.depth + 1 => MadeTop(f, x))
  BY <1>3, <1>4, <1>5, <1>6 DEF MadeTop
<1>13. \A n \in 2 .. M + 1 : made'[n].depth = made'[n - 1].depth + 1 =>
           \E k \in 2 .. N + 1 : (CallAt(g, k, made[n]) /\ MadeTop(g[k - 1], made[n - 1]))'
  BY <1>11 DEF MadeTop
<1>14. Len(made') = M + 1 /\ Len(g) = N + 1 /\ frames' = f
  BY <1>2, <1>5
<1>15. Len(frames') <= made'[M + 1].depth + 1
       /\ (Len(frames') = made'[M + 1].depth + 1 => MadeTop(frames, made[M + 1])')
  BY <1>12, <1>14 DEF MadeTop
<1>17. ASSUME NEW k \in 2 .. N + 1, trace'[k].type = "fn_call"
       PROVE  CallTo(g[k - 1], g[k], trace'[k].fn) \in ToSet(made')
  <2>1. CASE k = N + 1
    <3>1. g[k - 1] = frames /\ g[k] = f /\ trace'[k] = e
      BY <1>1, <1>2, <1>7, <2>1
    <3>2. f[Len(f)] = c
      BY <1>6
    <3>3. CallTo(g[k - 1], g[k], trace'[k].fn) = d
      BY <1>0, <1>3, <3>1, <3>2 DEF CallTo
    <3> QED
      BY <1>16, <3>3
  <2>2. CASE k \in 2 .. N
    <3>1. g[k - 1] = h[k - 1] /\ g[k] = h[k] /\ trace'[k] = trace[k]
      BY <1>2, <1>7, <2>2
    <3>2. CallTo(h[k - 1], h[k], trace[k].fn) \in ToSet(made)
      BY <1>17, <2>2, <3>1 DEF MadeHistory, N
    <3> QED
      BY <1>16, <3>1, <3>2
  <2> QED
    BY <1>7, <2>1, <2>2
<1>18. \A k \in 2 .. Len(g) : trace'[k].type = "fn_call" =>
           CallTo(g[k - 1], g[k], trace'[k].fn) \in ToSet(made')
  BY <1>14, <1>17
<1> QED
  BY <1>5, <1>10, <1>13, <1>14, <1>15, <1>18 DEF MadeHistory

LEMMA MadeKept ==
    ASSUME NEW h, History(h), MadeHistory(h), Running, trace \in Seq(Events), frames \in Seq(Contracts),
           phase' = phase, NEW e, trace' = Append(trace, e), e \in Events,
           e.type # "fn_call", frames' \in {frames, Front(frames)}, made' = made,
           NEW f, f = frames', NEW g, g = Append(h, f)
    PROVE  MadeHistory(g)'
<1> DEFINE N == Len(h)
<1>1. /\ h \in Seq(Seq(Contracts)) /\ N = Len(trace) /\ N \in Nat \ {0} /\ h[N] = frames
      /\ f \in Seq(Contracts) /\ frames # << >> /\ phase = "host" /\ made \in Seq(CallRecords)
  BY Shorter DEF History, Running, MadeHistory
<1>2. /\ g \in Seq(Seq(Contracts)) /\ Len(g) = N + 1 /\ \A n \in 1 .. N : g[n] = h[n]
      /\ trace'[N + 1] = e /\ \A n \in 1 .. N : trace'[n] = trace[n]
  BY <1>1
<1> HIDE DEF N
<1>3. /\ \A k \in 2 .. N : k \in 2 .. N + 1 /\ k \in 1 .. N /\ k - 1 \in 1 .. N
      /\ \A k \in 2 .. N + 1 : k = N + 1 \/ k \in 2 .. N
  BY <1>1
<1>4. ASSUME NEW k \in 2 .. N, NEW d, CallAt(h, k, d) PROVE CallAt(g, k, d)'
  BY <1>2, <1>3, <1>4 DEF CallAt
<1>5. ASSUME NEW n \in 1 .. Len(made) PROVE \E k \in 2 .. N + 1 : CallAt(g, k, made[n])'
  BY <1>3, <1>4 DEF MadeHistory, N
<1>6. ASSUME NEW n \in 2 .. Len(made), made[n].depth = made[n - 1].depth + 1
      PROVE  \E k \in 2 .. N + 1 : CallAt(g, k, made[n])' /\ MadeTop(g[k - 1], made[n - 1])
  BY <1>2, <1>3, <1>4, <1>6 DEF MadeHistory, N
<1>7. ASSUME made # << >>
      PROVE  LET c == made[Len(made)]
             IN  /\ Len(f) <= c.depth + 1
                 /\ Len(f) = c.depth + 1 => MadeTop(f, c)
  <2> DEFINE c == made[Len(made)]
  <2>1. c \in CallRecords
    BY <1>1, <1>7
  <2>2. Len(frames) <= c.depth + 1 /\ (Len(frames) = c.depth + 1 => MadeTop(frames, c))
    BY <1>1, <1>7 DEF MadeHistory
  <2>3. c.depth \in Nat \ {0} /\ Len(frames) \in Nat
    BY <1>1, <2>1 DEF CallRecords
  <2> HIDE DEF c
  <2>4. CASE f = frames
    BY <2>2, <2>4 DEF c
  <2>5. CASE f = Front(frames)
    <3>1. Len(f) < c.depth + 1
      BY <1>1, <2>2, <2>3, <2>5, Shorter
    <3> QED
      BY <2>3, <3>1 DEF c
  <2> QED
    BY <2>4, <2>5
<1>8. ASSUME NEW k \in 2 .. N + 1, trace'[k].type = "fn_call"
      PROVE  CallTo(g[k - 1], g[k], trace'[k].fn) \in ToSet(made)
  <2>1. k \in 2 .. N
    BY <1>2, <1>3, <1>8
  <2>2. g[k - 1] = h[k - 1] /\ g[k] = h[k] /\ trace'[k] = trace[k]
    BY <1>2, <1>3, <2>1
  <2> QED
    BY <1>8, <2>1, <2>2 DEF MadeHistory, N
<1>9. \A k \in 2 .. Len(g) : trace'[k].type = "fn_call" =>
          CallTo(g[k - 1], g[k], trace'[k].fn) \in ToSet(made')
  BY <1>2, <1>8
<1> QED
  BY <1>1, <1>2, <1>5, <1>6, <1>7, <1>9 DEF MadeHistory, MadeTop

-----------------------------------------------------------------------------
(* The walk over the events against it.                                     *)

\* The stack of the walk after the events that leave the host with the stack f:
\* with fn_call filed under the caller, the running contract is not yet on it.
StackAt(f) ==
    IF convention = "callee" THEN IF f = << >> THEN << Main >> ELSE f
    ELSE IF Len(f) < 2 THEN << Main >> ELSE Front(f)

\* A fn_call of another contract than those on the stack.
CallsAnew(f, g, c) ==
    /\ Len(f) \in Nat \ {0} /\ Len(g) = Len(f) + 1 /\ g[Len(g)] = c
    /\ \A n \in 1 .. Len(f) : g[n] = f[n] /\ f[n] # c /\ f[n] \in Contracts
    /\ f[1] = Main /\ c # Main

LEMMA CalledAnew ==
    ASSUME NEW f, NEW g, HostStack(f), HostStack(g), f # << >>, NEW c \in Contracts, g = Append(f, c)
    PROVE  CallsAnew(f, g, c)
<1>1. /\ f \in Seq(Contracts) /\ f[1] = Main /\ Len(f) \in Nat \ {0}
      /\ \A m, n \in 1 .. Len(g) : m # n => g[m] # g[n]
  BY DEF HostStack
<1>2. /\ Len(g) = Len(f) + 1 /\ g[Len(f) + 1] = c
      /\ \A n \in 1 .. Len(f) : g[n] = f[n] /\ f[n] \in Contracts
  BY <1>1
<1>3. ASSUME NEW n \in 1 .. Len(f) PROVE f[n] # c
  <2>1. n \in 1 .. Len(g) /\ Len(g) \in 1 .. Len(g) /\ n # Len(g)
    BY <1>1, <1>2
  <2> QED
    BY <1>1, <1>2, <2>1
<1> QED
  BY <1>1, <1>2, <1>3 DEF CallsAnew

LEMMA StackWalked ==
    ASSUME NEW f, NEW g, HostStack(f), HostStack(g), StepOf(f, EventAt, g),
           convention \in {"caller", "callee"}, callStack = StackAt(f),
           Push \/ Pop \/ StackUntouched
    PROVE  callStack' = StackAt(g)
<1> DEFINE e == EventAt
           L == Len(f)
<1>1. /\ f \in Seq(Contracts) /\ g \in Seq(Contracts) /\ f # << >> /\ L \in Nat \ {0} /\ f[1] = Main
  BY DEF HostStack, StepOf
<1> HIDE DEF e, L
<1>2. CASE e.type = "fn_call"
  <2>1. PICK c \in Contracts : g = Append(f, c) /\ e.contract = IF convention = "caller" THEN f[L] ELSE c
    BY <1>2 DEF StepOf, e, L
  <2>2. /\ Len(g) = L + 1 /\ g[Len(g)] = c /\ c # Main
        /\ \A n \in 1 .. L : g[n] = f[n] /\ f[n] # c /\ f[n] \in Contracts
    <3>1. CallsAnew(f, g, c)
      BY <1>1, <2>1, CalledAnew
    <3> QED
      BY <3>1 DEF CallsAnew, L
  <2>3. Front(g) = f /\ g # << >>
    BY <1>1, <2>1, <2>2, FrontOfLonger
  <2>4. callStack' = IF StackTop # e.contract THEN Append(callStack, e.contract) ELSE callStack
    BY <1>2 DEF Push, Pop, StackUntouched, e
  <2>5. CASE convention = "callee"
    <3>1. callStack = f /\ StackTop = f[L] /\ e.contract = c /\ f[L] # c
      BY <1>1, <2>1, <2>2, <2>5 DEF StackAt, StackTop, L
    <3> QED
      BY <2>1, <2>3, <2>4, <2>5, <3>1 DEF StackAt, L
  <2>6. CASE convention = "caller" /\ L = 1
    <3>1. callStack = << Main >> /\ StackTop = Main /\ e.contract = Main
      BY <1>1, <2>1, <2>6 DEF StackAt, StackTop, L
    <3>2. f = << Main >>
      BY <1>1, <2>6 DEF L
    <3> QED
      BY <2>2, <2>3, <2>4, <2>6, <3>1, <3>2 DEF StackAt, L
  <2>7. CASE convention = "caller" /\ L # 1
    <3>1. callStack = Front(f) /\ e.contract = f[L]
      BY <1>1, <2>1, <2>7 DEF StackAt, L
    <3>2. StackTop = f[L - 1] /\ L - 1 \in 1 .. L /\ L \in 1 .. L /\ L - 1 # L
      <4>1. L - 1 \in 1 .. L - 1 /\ L - 1 \in 1 .. L /\ L \in 1 .. L /\ L - 1 # L
        BY <1>1, <2>7
      <4>2. Len(Front(f)) = L - 1 /\ \A n \in 1 .. L - 1 : Front(f)[n] = f[n]
        BY <1>1, Shorter DEF L
      <4> QED
        BY <3>1, <4>1, <4>2 DEF StackTop
    <3>3. f[L - 1] # f[L]
      BY <3>2 DEF HostStack, L
    <3>4. Append(Front(f), f[L]) = f
      BY <1>1, Shorter DEF L
    <3> QED
      BY <1>1, <2>2, <2>3, <2>4, <2>7, <3>1, <3>2, <3>3, <3>4 DEF StackAt, L
  <2> QED
    BY <2>5, <2>6, <2>7
<1>3. CASE e.type \in {"other", "error_value"}
  BY <1>3 DEF StepOf, Push, Pop, StackUntouched, e, L
<1>4. CASE e.type = "fn_return"
  <2>1. g = Front(f) /\ Len(g) = L - 1
    BY <1>1, <1>4, Shorter DEF StepOf, e, L
  <2>2. callStack' = IF Len(callStack) > 1 THEN Front(callStack) ELSE callStack
    BY <1>4 DEF Push, Pop, StackUntouched, Front, e
  <2>3. CASE convention = "callee"
    <3>1. callStack = f
      BY <1>1, <2>3 DEF StackAt, L
    <3>2. CASE L = 1
      <4>1. f = << Main >> /\ g = << >>
        BY <1>1, <2>1, <3>2 DEF L
      <4> QED
        BY <1>1, <2>2, <2>3, <3>1, <3>2, <4>1 DEF StackAt, L
    <3>3. CASE L # 1
      <4>1. L > 1 /\ g # << >>
        BY <1>1, <2>1, <3>3
      <4> QED
        BY <2>1, <2>2, <2>3, <3>1, <4>1 DEF StackAt, L
    <3> QED
      BY <3>2, <3>3
  <2>4. CASE convention = "caller" /\ L < 3
    <3>1. callStack = << Main >>
      <4>1. CASE L < 2
        BY <2>4, <4>1 DEF StackAt, L
      <4>2. CASE L = 2
        <5>1. callStack = Front(f)
          BY <2>4, <4>2 DEF StackAt, L
        <5>2. /\ Front(f) \in Seq(Contracts) /\ Len(Front(f)) = 1 /\ Front(f)[1] = Main
          <6>1. /\ Front(f) \in Seq(Contracts) /\ Len(Front(f)) = L - 1
                /\ \A n \in 1 .. L - 1 : Front(f)[n] = f[n]
            BY <1>1, Shorter DEF L
          <6>2. 1 \in 1 .. L - 1 /\ L - 1 = 1
            BY <4>2
          <6> QED
            BY <1>1, <6>1, <6>2
        <5>3. \A s \in Seq(Contracts) : Len(s) = 1 /\ s[1] = Main => s = << Main >>
          OBVIOUS
        <5> QED
          BY <5>1, <5>2, <5>3
      <4> QED
        BY <1>1, <2>4, <4>1, <4>2
    <3>2. Len(<< Main >>) = 1
      OBVIOUS
    <3> QED
      BY <1>1, <2>1, <2>2, <2>4, <3>1, <3>2 DEF StackAt, L
  <2>5. CASE convention = "caller" /\ L >= 3
    <3>1. callStack = Front(f) /\ Len(Front(f)) = L - 1
      BY <1>1, <2>5, Shorter DEF StackAt, L
    <3> QED
      BY <1>1, <2>1, <2>2, <2>5, <3>1 DEF StackAt, L
  <2> QED
    BY <1>1, <2>3, <2>4, <2>5
<1> QED
  BY <1>2, <1>3, <1>4 DEF StepOf, e

\* What is told of the call that the walk records for a fn_call of the function
\* fn between the stacks f and g: of the call itself, or under the caller of the
\* one that made the caller.
CallOf(f, g, fn) ==
    IF convention = "callee" THEN Told(CallTo(f, g, fn))
    ELSE IF Len(f) = 1 THEN Call(Main, g[Len(g)], Unknown, 1)
    ELSE Call(f[Len(f) - 1], f[Len(f)], Unknown, Len(f) - 1)

\* Under the caller no name is told.
LEMMA Nameless ==
    ASSUME ~NamesTold
    PROVE  /\ \A from, to, fn, depth : Told(Call(from, to, fn, depth)) = Call(from, to, Unknown, depth)
           /\ \A from, to, depth : Edged(ToSet(made), from, to, depth)
                  => Call(from, to, Unknown, depth) \in AllTold(made)
    BY DEF Told, AllTold, Edged, Call

\* It was made.
LEMMA CallOfMade ==
    ASSUME NEW f, NEW g, HostStack(f), HostStack(g), f # << >>,
           NEW c \in Contracts, g = Append(f, c), NEW fn, CallTo(f, g, fn) \in ToSet(made),
           convention \in {"caller", "callee"}
    PROVE  CallOf(f, g, fn) \in AllTold(made)
<1> DEFINE L == Len(f)
<1>1. CallsAnew(f, g, c)
  BY CalledAnew
<1>2. /\ L \in Nat \ {0} /\ Len(g) = L + 1 /\ g[L + 1] = c /\ f[1] = Main /\ g[L] = f[L]
      /\ L \in 1 .. L
  BY <1>1 DEF CallsAnew
<1>3. /\ \A n \in 2 .. Len(f) : Edged(ToSet(made), f[n - 1], f[n], n - 1)
      /\ \A n \in 2 .. Len(g) : Edged(ToSet(made), g[n - 1], g[n], n - 1)
  BY DEF HostStack
<1> HIDE DEF L
<1>4. Edged(ToSet(made), f[L], c, L)
  <2>1. L + 1 \in 2 .. Len(g) /\ (L + 1) - 1 = L
    BY <1>2
  <2> QED
    BY <1>2, <1>3, <2>1
<1>5. L # 1 => Edged(ToSet(made), f[L - 1], f[L], L - 1)
  <2>1. L # 1 => L \in 2 .. Len(f)
    BY <1>2, Positions DEF L
  <2> QED
    BY <1>3, <2>1
<1>6. CASE convention = "callee"
  BY <1>6 DEF CallOf, AllTold
<1>7. CASE convention = "caller"
  <2>1. ~NamesTold
    BY <1>7 DEF NamesTold
  <2>2. CASE L = 1
    <3>1. Call(Main, c, Unknown, 1) \in AllTold(made)
      BY <1>2, <1>4, <2>1, <2>2, Nameless
    <3> QED
      BY <1>2, <1>7, <2>2, <3>1 DEF CallOf, L
  <2>3. CASE L # 1
    <3>1. Call(f[L - 1], f[L], Unknown, L - 1) \in AllTold(made)
      BY <1>5, <2>1, <2>3, Nameless
    <3> QED
      BY <1>7, <2>3, <3>1 DEF CallOf, L
  <2> QED
    BY <2>2, <2>3
<1> QED
  BY <1>6, <1>7

\* The name recorded is that of the function where names can be told.
LEMMA NameFound ==
    ASSUME NamesTold, pos \in 1 .. Len(trace), EventAt.type = "fn_call", Len(trace) \in Nat
    PROVE  /\ NameOfOther = EventAt.fn
           /\ pos < Len(trace) /\ trace[pos + 1].type = "fn_call" => NameByMain = trace[pos + 1].fn
<1>1. \A n \in 1 .. Len(trace) : trace[n].type = "fn_call" =>
          Spelled(trace[n]) = trace[n].fn /\ trace[n].fn # Unknown
  BY FunctionAssumption DEF NamesTold, Spelled
<1>2. pos < Len(trace) => pos + 1 \in 1 .. Len(trace)
  OBVIOUS
<1> QED
  BY <1>1, <1>2 DEF NameOfOther, NameByMain, OrElse, EventAt

\* The event after a fn_call is of the contract that was called, if the events
\* are filed under the running contract.
LEMMA NextContract ==
    ASSUME NEW h, History(h), NEW n \in 1 .. Len(trace) - 1,
           convention = "caller" \/ (h[n] = << Main >> /\ trace[n + 1].contract # Main)
    PROVE  /\ h[n] # << >>
           /\ convention = "caller" => trace[n + 1].contract = h[n][Len(h[n])]
           /\ convention # "caller" =>
                  /\ h[n + 1] = Append(h[n], trace[n + 1].contract)
                  /\ trace[n + 1].contract \in Contracts /\ trace[n + 1].type = "fn_call"
<1>1. n + 1 \in 2 .. Len(h) /\ (n + 1) - 1 = n
  BY DEF History
<1>2. StepOf(h[n], trace[n + 1], h[n + 1])
  BY <1>1 DEF History
<1>3. h[n] = << Main >> => h[n][Len(h[n])] = Main
  OBVIOUS
<1> QED
  BY <1>2, <1>3 DEF StepOf

\* One of the patterns records the call d.
RecordsOne(d) ==
    \/ CallOfMain = << d >> /\ CallOfOther = << >>
    \/ CallOfMain = << >> /\ CallOfOther = << d >>

LEMMA EventRecorded ==
    ASSUME NEW h, History(h), MadeHistory(h), phase # "host", Stack, NoContract \notin Contracts,
           convention \in {"caller", "callee"}, pos \in 2 .. Len(trace),
           callStack = StackAt(h[pos - 1])
    PROVE  /\ EventAt.type # "fn_call" => CallOfMain = << >> /\ CallOfOther = << >>
           /\ EventAt.type = "fn_call" =>
                  LET c == CallOf(h[pos - 1], h[pos], EventAt.fn)
                  IN  /\ c \in AllTold(made)
                      /\ \E d : Told(d) = c /\ RecordsOne(d)
<1>1. CASE EventAt.type # "fn_call"
  BY <1>1 DEF CallOfMain, CallOfOther
<1>2. CASE EventAt.type = "fn_call"
  <2>1. PICK f, g : f = h[pos - 1] /\ g = h[pos]
    OBVIOUS
  <2>2. /\ pos \in Nat /\ pos \in 2 .. Len(h) /\ pos - 1 \in 1 .. Len(h) /\ pos \in 1 .. Len(h)
        /\ Len(trace) = Len(h) /\ Len(h) \in Nat
    BY DEF History
  <2>3. HostStack(f) /\ HostStack(g) /\ StepOf(f, EventAt, g)
    BY <2>1, <2>2 DEF History, EventAt
  <2>4. PICK c \in Contracts :
            /\ f # << >> /\ g = Append(f, c)
            /\ EventAt.contract = IF convention = "caller" THEN f[Len(f)] ELSE c
    BY <1>2, <2>3 DEF StepOf
  <2>5. CallsAnew(f, g, c)
    BY <2>3, <2>4, CalledAnew
  <2>6. CallOf(f, g, EventAt.fn) \in AllTold(made)
    <3>1. CallTo(f, g, EventAt.fn) \in ToSet(made)
      BY <1>2, <2>1, <2>2 DEF MadeHistory, EventAt
    <3> QED
      BY <2>3, <2>4, <3>1, CallOfMade
  <2>12. \A d : Told(d) = CallOf(f, g, EventAt.fn) /\ RecordsOne(d) =>
             LET b == CallOf(h[pos - 1], h[pos], EventAt.fn)
             IN  b \in AllTold(made) /\ \E x : Told(x) = b /\ RecordsOne(x)
    BY <2>1, <2>6
  <2>7. /\ Len(f) \in Nat \ {0} /\ g[Len(g)] = c /\ c # Main /\ f[1] = Main /\ f \in Seq(Contracts)
        /\ \A n \in 1 .. Len(f) : f[n] # c /\ f[n] \in Contracts
        /\ g # << >>
    BY <2>3, <2>4, <2>5 DEF CallsAnew, HostStack
  <2>8. callStack = StackAt(f) /\ currentDepth = Len(callStack) - 1
    BY <2>1 DEF Stack
  <2>9. CASE convention = "callee"
    <3>1. callStack = f /\ StackTop = f[Len(f)] /\ StackTop # c /\ EventAt.contract = c
      BY <2>4, <2>7, <2>8, <2>9 DEF StackAt, StackTop
    <3>2. CallOfMain = << >>
      BY <2>7, <3>1 DEF CallOfMain
    <3>3. currentDepth + 1 = Len(f)
      BY <2>7, <2>8, <3>1
    <3>4. CallOfOther = << Call(f[Len(f)], c, NameOfOther, Len(f)) >>
      BY <1>2, <2>7, <3>1, <3>3 DEF CallOfOther
    <3>9. RecordsOne(Call(f[Len(f)], c, NameOfOther, Len(f)))
      BY <3>2, <3>4 DEF RecordsOne
    <3>5. Told(Call(f[Len(f)], c, NameOfOther, Len(f))) = CallOf(f, g, EventAt.fn)
      <4>1. CASE NamesTold
        <5>1. NameOfOther = EventAt.fn
          BY <1>2, <2>2, <4>1, NameFound
        <5> QED
          BY <2>7, <2>9, <5>1 DEF CallOf, CallTo
      <4>2. CASE ~NamesTold
        BY <2>7, <2>9, <4>2, Nameless DEF CallOf, CallTo
      <4> QED
        BY <4>1, <4>2
    <3> QED
      BY <1>2, <2>12, <3>5, <3>9
  <2>10. CASE convention = "caller" /\ Len(f) = 1
    <3>1. callStack = << Main >> /\ currentDepth = 0 /\ EventAt.contract = Main
      BY <2>4, <2>7, <2>8, <2>10 DEF StackAt
    <3>2. CallOfOther = << >>
      BY <3>1 DEF CallOfOther
    <3>3. pos < Len(trace)
      <4>1. pos # Len(h)
        BY <2>1, <2>7 DEF History
      <4> QED
        BY <2>2, <4>1
    <3>4. trace[pos + 1].contract = c
      <4>1. pos \in 1 .. Len(trace) - 1
        BY <2>2, <3>3
      <4>2. trace[pos + 1].contract = h[pos][Len(h[pos])]
        BY <2>10, <4>1, NextContract
      <4> QED
        BY <2>1, <2>7, <4>2
    <3>5. c \notin {NoContract, Main}
      BY <2>7
    <3>6. CallOfMain = << Call(Main, c, NameByMain, 1) >>
      BY <1>2, <3>1, <3>3, <3>4, <3>5 DEF CallOfMain
    <3>7. ~NamesTold
      BY <2>10 DEF NamesTold
    <3>8. Told(Call(Main, c, NameByMain, 1)) = CallOf(f, g, EventAt.fn)
      BY <2>7, <2>10, <3>7, Nameless DEF CallOf
    <3>9. RecordsOne(Call(Main, c, NameByMain, 1))
      BY <3>2, <3>6 DEF RecordsOne
    <3> QED
      BY <1>2, <2>12, <3>8, <3>9
  <2>11. CASE convention = "caller" /\ Len(f) # 1
    <3>1. callStack = Front(f) /\ EventAt.contract = f[Len(f)]
      BY <2>4, <2>7, <2>8, <2>11 DEF StackAt
    <3>2. /\ Len(Front(f)) = Len(f) - 1 /\ Len(f) - 1 \in 1 .. Len(f) - 1
          /\ Front(f)[Len(f) - 1] = f[Len(f) - 1]
      <4>1. Len(f) - 1 \in 1 .. Len(f) - 1
        BY <2>7, <2>11, Positions
      <4>2. Len(Front(f)) = Len(f) - 1 /\ \A n \in 1 .. Len(f) - 1 : Front(f)[n] = f[n]
        BY <2>4, <2>7, Shorter
      <4> QED
        BY <4>1, <4>2
    <3>3. f[Len(f)] # Main /\ f[Len(f) - 1] # f[Len(f)]
      <4>1. /\ Len(f) - 1 \in 1 .. Len(f) /\ Len(f) \in 1 .. Len(f) /\ 1 \in 1 .. Len(f)
            /\ Len(f) - 1 # Len(f)
        BY <2>7, <2>11, Positions
      <4>2. \A m, n \in 1 .. Len(f) : m # n => f[m] # f[n]
        BY <2>3 DEF HostStack
      <4> QED
        BY <2>7, <2>11, <4>1, <4>2
    <3>4. StackTop = f[Len(f) - 1] /\ currentDepth + 1 = Len(f) - 1
      BY <2>7, <2>8, <3>1, <3>2 DEF StackTop
    <3>5. CallOfMain = << >>
      BY <3>1, <3>3 DEF CallOfMain
    <3>6. CallOfOther = << Call(f[Len(f) - 1], f[Len(f)], NameOfOther, Len(f) - 1) >>
      BY <1>2, <3>1, <3>3, <3>4 DEF CallOfOther
    <3>7. ~NamesTold
      BY <2>11 DEF NamesTold
    <3>8. Told(Call(f[Len(f) - 1], f[Len(f)], NameOfOther, Len(f) - 1)) = CallOf(f, g, EventAt.fn)
      BY <2>11, <3>7, Nameless DEF CallOf
    <3>9. RecordsOne(Call(f[Len(f) - 1], f[Len(f)], NameOfOther, Len(f) - 1))
      BY <3>5, <3>6 DEF RecordsOne
    <3> QED
      BY <1>2, <2>12, <3>8, <3>9
  <2> QED
    BY <2>9, <2>10, <2>11
<1> QED
  BY <1>1, <1>2

\* The first event is the fn_call of the main contract.
LEMMA FirstRecorded ==
    ASSUME NEW h, History(h), MadeHistory(h), Stack, pos = 1, EventAt.contract # NoContract,
           callStack = << Main >>
    PROVE  /\ convention # "caller" /\ EventAt.contract = Main
           /\ CallOfOther = << >>
           /\ CallOfMain = << >> \/ \E c : Told(c) \in AllTold(made) /\ CallOfMain = << c >>
<1>1. convention # "caller" /\ EventAt.contract = Main
  BY DEF History, EventAt, FirstEvent, Event
<1>2. CallOfOther = << >> /\ currentDepth + 1 = 1
  BY <1>1 DEF CallOfOther, Stack
<1>3. CASE pos < Len(trace) /\ trace[pos + 1].contract \notin {NoContract, Main}
  <2>1. 1 \in 1 .. Len(trace) - 1 /\ h[1] = << Main >> /\ 1 + 1 = 2 /\ 2 \in 1 .. Len(h)
    BY <1>3 DEF History
  <2>2. PICK c \in Contracts : /\ c = trace[2].contract /\ h[2] = Append(<< Main >>, c)
                              /\ trace[2].type = "fn_call"
    <3>1. 1 \in 1 .. Len(trace) - 1 /\ h[1] = << Main >> /\ trace[1 + 1].contract # Main
      BY <1>3, <2>1
    <3>2. /\ h[1 + 1] = Append(h[1], trace[1 + 1].contract) /\ trace[1 + 1].contract \in Contracts
          /\ trace[1 + 1].type = "fn_call"
      BY <1>1, <3>1, NextContract
    <3> QED
      BY <2>1, <3>2
  <2>3. Len(h[2]) = 2 /\ h[2][2] = c /\ h[1][1] = Main /\ Len(h[1]) = 1
    BY <2>1, <2>2, MainAssumption
  <2>4. CallTo(h[1], h[2], trace[2].fn) \in ToSet(made)
    <3>1. 2 \in 2 .. Len(h) /\ 2 - 1 = 1
      BY <2>1
    <3>2. CallTo(h[2 - 1], h[2], trace[2].fn) \in ToSet(made)
      BY <2>2, <3>1 DEF MadeHistory
    <3> QED
      BY <3>1, <3>2
  <2>5. CallTo(h[1], h[2], trace[2].fn) = Call(Main, c, trace[2].fn, 1)
    BY <2>3 DEF CallTo
  <2>6. Told(Call(Main, c, NameByMain, 1)) \in AllTold(made)
    <3>1. Told(Call(Main, c, trace[2].fn, 1)) \in AllTold(made)
      BY <2>4, <2>5 DEF AllTold
    <3>2. CASE NamesTold
      <4>1. CASE EventAt.type = "fn_call"
        <5>1. pos \in 1 .. Len(trace) /\ Len(trace) \in Nat /\ pos + 1 = 2
          BY <1>3 DEF History
        <5>2. NameByMain = trace[2].fn
          BY <1>3, <2>2, <3>2, <4>1, <5>1, NameFound
        <5> QED
          BY <3>1, <5>2
      <4>2. EventAt.type = "fn_call"
        BY DEF History, EventAt, FirstEvent, Event
      <4> QED
        BY <4>1, <4>2
    <3>3. CASE ~NamesTold
      BY <3>1, <3>3, Nameless
    <3> QED
      BY <3>2, <3>3
  <2>7. CallOfMain = << >> \/ CallOfMain = << Call(Main, c, NameByMain, 1) >>
    BY <1>2, <2>1, <2>2 DEF CallOfMain
  <2> QED
    BY <1>1, <1>2, <2>6, <2>7
<1>4. CASE ~(pos < Len(trace) /\ trace[pos + 1].contract \notin {NoContract, Main})
  BY <1>1, <1>2, <1>4 DEF CallOfMain
<1> QED
  BY <1>3, <1>4

\* What the walk has at event pos.
WalkAt(h) ==
    phase # "host" =>
        /\ phase = "events" =>
               /\ pos \in 1 .. Len(trace) + 1
               /\ callStack = IF pos = 1 THEN << Main >> ELSE StackAt(h[pos - 1])
               /\ AllTold(calls) \subseteq AllTold(made)
        /\ \A k \in 2 .. Len(trace) :
               (phase = "events" => k < pos) /\ trace[k].type = "fn_call" =>
                   CallOf(h[k - 1], h[k], trace[k].fn) \in AllTold(calls)
        /\ phase # "events" /\ NamesTold => ToSet(calls) \subseteq ToSet(made) \cup EdgesTo(pos)

Recording ==
    /\ convention \in {"caller", "callee"}
    /\ phase = "host" => pos = 1 /\ callStack = << Main >>

WalkInv ==
    Clean /\ (phase = "host" \/ trace # << >>) =>
        \E h : History(h) /\ MadeHistory(h) /\ WalkAt(h)

LEMMA InitWalk == Init => Recording /\ WalkInv
<1> SUFFICES ASSUME Init PROVE Recording /\ WalkInv
  OBVIOUS
<1>1. Recording /\ phase = "host" /\ made = << >> /\ frames = << Main >>
  BY DEF Init, Recording
<1>2. Main \in Contracts
  BY MainAssumption
<1> DEFINE h == << << Main >> >>
<1>3. HostStack(<< Main >>)
  BY <1>2 DEF HostStack
<1>4. h \in Seq(Seq(Contracts)) /\ Len(h) = 1 /\ h[1] = << Main >> /\ \A n \in 1 .. 1 : n = 1
  BY <1>2
<1>5. trace[1] = FirstEvent /\ Len(trace) = 1
  BY DEF Init, FirstEvent
<1> HIDE DEF h
<1>6. History(h)
  BY <1>1, <1>3, <1>4, <1>5 DEF History
<1>7. MadeHistory(h)
  <2>1. \A k \in 2 .. Len(h) : FALSE
    BY <1>4
  <2> QED
    BY <1>1, <2>1 DEF MadeHistory
<1>8. WalkAt(h)
  BY <1>1 DEF WalkAt
<1> QED
  BY <1>1, <1>6, <1>7, <1>8 DEF WalkInv

LEMMA RecordingNext ==
    ASSUME Recording, [Next]_vars
    PROVE  Recording'
<1>1. CASE \/ \E c \in Contracts, fn \in Functions : HostCall(c, fn)
           \/ \E type \in {"other", "error_value"} : HostEmit(type)
           \/ HostReturn \/ HostFail \/ HostCatch \/ HostDone
  BY <1>1 DEF HostCall, HostEmit, HostReturn, HostFail, HostCatch, HostDone, HostOnly, Recording,
     walkVars, Running
<1>2. CASE SkipEvent \/ WalkEvent \/ EventsDone \/ WalkInvocation \/ CutOff \/ Integrate
  BY <1>2 DEF SkipEvent, WalkEvent, EventsDone, WalkInvocation, CutOff, Integrate, Recording
<1>3. CASE UNCHANGED vars
  BY <1>3 DEF vars, walkVars, Recording
<1> QED
  BY <1>1, <1>2, <1>3 DEF Next, Terminated

\* Steps of the host that do not fail.
LEMMA HostWalk ==
    ASSUME IInv, WalkInv, Clean, Running,
           \/ \E c \in Contracts, fn \in Functions : HostCall(c, fn)
           \/ \E type \in {"other", "error_value"} : HostEmit(type)
           \/ HostReturn
    PROVE  WalkInv'
<1>1. PICK h : History(h) /\ MadeHistory(h)
  BY DEF WalkInv, Running
<1>2. trace \in Seq(Events) /\ frames \in Seq(Contracts) /\ frames # << >> /\ phase = "host"
  BY DEF IInv, Trace, Running
<1>3. Top = frames[Len(frames)] /\ Top \in Contracts
  BY <1>2, TopTyped DEF Top, IInv
<1>4. HostStack(frames)
  BY <1>1, <1>2 DEF History
<1>5. UNCHANGED << phase, convention >>
  BY DEF HostCall, HostEmit, HostReturn, HostOnly
<1>6. ASSUME NEW g, History(g)', MadeHistory(g)' PROVE WalkInv'
  BY <1>2, <1>5, <1>6 DEF WalkInv, WalkAt
<1>7. CASE \E c \in Contracts, fn \in Functions : HostCall(c, fn)
  <2>1. PICK c \in Contracts, fn \in Functions : HostCall(c, fn)
    BY <1>7
  <2>2. PICK d, e, f, g :
            /\ d = Call(Top, c, fn, Len(frames))
            /\ e = Event("fn_call", IF convention = "caller" THEN Top ELSE c, fn)
            /\ f = Append(frames, c) /\ g = Append(h, f)
    OBVIOUS
  <2>3. /\ e \in Events /\ e.type = "fn_call" /\ e.fn = fn
        /\ e.contract = IF convention = "caller" THEN Top ELSE c
    BY <1>3, <2>2, EventTyped, FunctionTyped DEF Event, Types
  <2>4. /\ trace' = Append(trace, e) /\ frames' = f /\ made' = Append(made, d) /\ c \notin ToSet(frames)
        /\ f \in Seq(Contracts) /\ f[Len(f)] = c
    BY <1>2, <2>1, <2>2, Longer DEF HostCall
  <2>5. ToSet(made') = ToSet(made) \cup {d}
    <3>1. d \in CallRecords
      <4>1. Len(frames) \in Nat \ {0}
        BY <1>2
      <4> QED
        BY <1>3, <2>2, <4>1, FunctionTyped DEF Call, CallRecords
    <3>2. made \in Seq(CallRecords)
      BY <1>1 DEF MadeHistory
    <3> QED
      BY <2>4, <3>1, <3>2, Longer
  <2>6. HostStack(f)'
    <3>1. d \in ToSet(made') /\ ToSet(made) \subseteq ToSet(made')
      BY <2>5
    <3>2. PICK s : s = frames
      OBVIOUS
    <3>4. Edged(ToSet(made'), s[Len(s)], c, Len(s))
      BY <1>3, <2>2, <3>1, <3>2 DEF Edged, Call
    <3>3. HostStack(Append(s, c))'
      BY <1>2, <1>3, <1>4, <2>2, <2>4, <3>1, <3>2, <3>4, StackGrows
    <3> QED
      BY <2>2, <3>2, <3>3
  <2>7. StepOf(frames, e, f)
    BY <1>2, <1>3, <2>2, <2>3, <2>4 DEF StepOf
  <2>8. ToSet(made) \subseteq ToSet(made')
    BY <2>5
  <2>9. History(g)'
    BY <1>1, <1>2, <1>5, <2>2, <2>3, <2>4, <2>6, <2>7, <2>8, HistoryGrows
  <2>10. MadeHistory(g)'
    BY <1>1, <1>2, <1>5, <2>2, <2>3, <2>4, MadeGrows
  <2> QED
    BY <1>6, <2>9, <2>10
<1>8. CASE (\E type \in {"other", "error_value"} : HostEmit(type)) \/ HostReturn
  <2>1. PICK e, f, g :
            /\ e \in {Event(type, Top, Unknown) : type \in {"other", "error_value", "fn_return"}}
            /\ trace' = Append(trace, e) /\ made' = made
            /\ f = frames' /\ f = IF e.type = "fn_return" THEN Front(frames) ELSE frames
            /\ g = Append(h, f)
    BY <1>8 DEF HostEmit, HostReturn, Leave, Front, Event
  <2>2. /\ e \in Events /\ e.type \in {"other", "error_value", "fn_return"}
        /\ e.contract = Top
    BY <1>3, <2>1, EventTyped, FunctionTyped DEF Event, Types
  <2>3. /\ trace' = Append(trace, e) /\ made' = made
        /\ f = IF e.type = "fn_return" THEN Front(frames) ELSE frames
    BY <2>1
  <2>4. f \in Seq(Contracts) /\ StepOf(frames, e, f)
    BY <1>2, <1>3, <2>2, <2>3, Shorter DEF StepOf
  <2>5. HostStack(f)
    BY <1>2, <1>4, <2>3, StackShrinks
  <2>6. HostStack(f)'
    BY <2>3, <2>5 DEF HostStack, Edged
  <2>7. History(g)'
    BY <1>1, <1>2, <1>5, <2>1, <2>2, <2>3, <2>4, <2>6, HistoryGrows
  <2>8. MadeHistory(g)'
    BY <1>1, <1>2, <1>5, <2>1, <2>2, <2>3, MadeKept
  <2> QED
    BY <1>6, <2>7, <2>8
<1> QED
  BY <1>7, <1>8

\* The host is done.
LEMMA HostDoneWalk ==
    ASSUME IInv, AuthInv, Recording, WalkInv, Clean, HostDone, trace' # << >>
    PROVE  WalkInv'
<1>1. /\ phase = "host" /\ frames = << >> /\ phase' = "events" /\ trace' = trace
      /\ UNCHANGED << convention, frames, made, calls, pos, callStack >>
  BY DEF HostDone, walkVars
<1>2. PICK h : History(h) /\ MadeHistory(h)
  BY <1>1 DEF WalkInv
<1>3. calls = << >> /\ pos = 1 /\ callStack = << Main >>
  BY <1>1 DEF AuthInv, Recording
<1>4. History(h)'
  <2>1. \A f : HostStack(f)' <=> HostStack(f)
    BY <1>1 DEF HostStack, Edged
  <2>2. \A f, e, g : StepOf(f, e, g)' <=> StepOf(f, e, g)
    BY <1>1 DEF StepOf
  <2>3. FirstEvent' = FirstEvent
    BY <1>1 DEF FirstEvent
  <2>4. /\ h \in Seq(Seq(Contracts)) /\ Len(h) = Len(trace) /\ Len(h) \in Nat \ {0}
        /\ h[1] = << Main >> /\ trace[1] = FirstEvent
        /\ \A n \in 1 .. Len(h) : HostStack(h[n])
        /\ \A n \in 2 .. Len(h) : StepOf(h[n - 1], trace[n], h[n])
        /\ h[Len(h)] = << >>
    BY <1>1, <1>2 DEF History
  <2>5. \A n \in 1 .. Len(h) : HostStack(h[n])'
    BY <2>1, <2>4
  <2>6. \A n \in 2 .. Len(h) : StepOf(h[n - 1], trace[n], h[n])'
    BY <1>1, <2>4 DEF StepOf
  <2> QED
    BY <1>1, <2>3, <2>4, <2>5, <2>6 DEF History
<1>5. MadeHistory(h)'
  BY <1>1, <1>2 DEF MadeHistory, CallAt, CallTo, MadeTop
<1>6. WalkAt(h)'
  <2>1. Len(trace) \in Nat
    BY <1>2 DEF History
  <2>2. AllTold(calls)' = {} /\ pos' \in 1 .. Len(trace') + 1 /\ \A k \in 2 .. Len(trace') : ~(k < pos')
    BY <1>1, <1>3, <2>1, ToSetSmall DEF AllTold
  <2> QED
    BY <1>1, <1>3, <2>2 DEF WalkAt
<1> QED
  BY <1>4, <1>5, <1>6 DEF WalkInv

\* The history stays as it is while it is walked.
LEMMA HistoryKept ==
    ASSUME NEW h, History(h), MadeHistory(h), UNCHANGED << convention, hostVars >>,
           (phase = "host") <=> (phase' = "host")
    PROVE  /\ History(h)' /\ MadeHistory(h)'
           /\ \A f : StackAt(f)' = StackAt(f)
           /\ \A f, g, fn : CallOf(f, g, fn)' = CallOf(f, g, fn)
           /\ NamesTold' = NamesTold /\ \A c : Told(c)' = Told(c)
           /\ AllTold(made)' = AllTold(made)
<1>1. UNCHANGED << convention, trace, frames, made >>
  BY DEF hostVars
<1>2. History(h)'
  <2>1. \A n \in 1 .. Len(h) : HostStack(h[n])'
    BY <1>1 DEF History, HostStack, Edged
  <2>2. \A n \in 2 .. Len(h) : StepOf(h[n - 1], trace[n], h[n])'
    BY <1>1 DEF History, StepOf
  <2>3. FirstEvent' = FirstEvent
    BY <1>1 DEF FirstEvent
  <2>4. h[Len(h)] = IF phase' = "host" THEN frames' ELSE << >>
    BY <1>1 DEF History
  <2> QED
    BY <1>1, <2>1, <2>2, <2>3, <2>4 DEF History
<1>3. MadeHistory(h)'
  BY <1>1 DEF MadeHistory, CallAt, CallTo, MadeTop
<1>4. NamesTold' = NamesTold
  BY <1>1 DEF NamesTold
<1>5. \A c : Told(c)' = Told(c)
  BY <1>4 DEF Told
<1>6. AllTold(made)' = AllTold(made)
  BY <1>1, <1>5 DEF AllTold
<1>7. \A f, g, fn : CallOf(f, g, fn)' = CallOf(f, g, fn)
  BY <1>1, <1>5 DEF CallOf, CallTo
<1> QED
  BY <1>1, <1>2, <1>3, <1>4, <1>5, <1>6, <1>7 DEF StackAt

\* Only the first event, filed under the caller, has no contract.
LEMMA SkipEventWalk ==
    ASSUME Recording, WalkInv, Clean, SkipEvent, trace # << >>
    PROVE  WalkInv'
<1>1. /\ phase = "events" /\ phase' = "events" /\ pos <= Len(trace) /\ EventAt.contract = NoContract
      /\ pos' = pos + 1 /\ UNCHANGED << convention, hostVars, calls, callStack >>
      /\ trace' = trace /\ made' = made
  BY DEF SkipEvent, hostVars
<1>2. PICK h : History(h) /\ MadeHistory(h) /\ WalkAt(h)
  BY DEF WalkInv
<1>3. /\ History(h)' /\ MadeHistory(h)'
      /\ \A f : StackAt(f)' = StackAt(f)
      /\ AllTold(made)' = AllTold(made) /\ \A c : Told(c)' = Told(c)
  BY <1>1, <1>2, HistoryKept
<1>4. /\ pos \in 1 .. Len(trace) + 1 /\ Len(h) = Len(trace) /\ Len(h) \in Nat /\ h[1] = << Main >>
  BY <1>1, <1>2 DEF WalkAt, History
<1>5. pos = 1
  <2>1. ASSUME pos # 1 PROVE FALSE
    <3>1. pos \in 2 .. Len(h) /\ pos - 1 \in 1 .. Len(h) /\ pos \in 1 .. Len(h)
      BY <1>1, <1>4, <2>1
    <3>2. StepOf(h[pos - 1], EventAt, h[pos]) /\ HostStack(h[pos - 1])
      BY <1>2, <3>1 DEF History, EventAt
    <3>3. EventAt.contract \in Contracts
      BY <3>2, Shorter DEF StepOf, HostStack
    <3> QED
      BY <1>1, <3>3, MainAssumption
  <2> QED
    BY <2>1
<1>6. convention = "caller" /\ callStack = << Main >>
  BY <1>1, <1>2, <1>5, MainAssumption DEF History, EventAt, FirstEvent, Event, WalkAt
<1>7. WalkAt(h)'
  <2>1. pos' = 2 /\ 2 \in 1 .. Len(trace) + 1 /\ pos' - 1 = 1
    BY <1>1, <1>4, <1>5
  <2>2. StackAt(h[1]) = << Main >>
    BY <1>4, <1>6 DEF StackAt
  <2>3. callStack' = StackAt(h[pos - 1])'
    BY <1>1, <1>3, <1>4, <1>6, <2>1, <2>2 DEF StackAt
  <2>4. \A k \in 2 .. Len(trace) : ~(k < pos')
    BY <2>1
  <2>5. AllTold(calls)' \subseteq AllTold(made)'
    <3>1. AllTold(calls) \subseteq AllTold(made) /\ calls' = calls
      BY <1>1, <1>2 DEF WalkAt
    <3>2. AllTold(calls)' = AllTold(calls)
      BY <1>3, <3>1 DEF AllTold
    <3> QED
      BY <1>3, <3>1, <3>2
  <2> QED
    BY <1>1, <2>1, <2>3, <2>4, <2>5 DEF WalkAt
<1> QED
  BY <1>3, <1>7 DEF WalkInv

LEMMA AllToldSmall ==
    ASSUME NEW c
    PROVE  AllTold(<< >>) = {} /\ AllTold(<< c >>) = {Told(c)}
<1>1. PICK s, e : s = << c >> /\ e = << >>
  OBVIOUS
<1>2. ToSet(s) = {c} /\ ToSet(e) = {}
  BY <1>1, ToSetSmall
<1>3. AllTold(s) = {Told(c)} /\ AllTold(e) = {}
  BY <1>2, Zenon DEF AllTold
<1> QED
  BY <1>1, <1>3

LEMMA WalkEventWalk ==
    ASSUME IInv, AuthInv, Recording, WalkInv, Clean, WalkEvent
    PROVE  WalkInv'
<1>1. /\ phase = "events" /\ phase' = "events" /\ pos <= Len(trace) /\ EventAt.contract # NoContract
      /\ pos' = pos + 1 /\ UNCHANGED << convention, hostVars >>
      /\ trace' = trace /\ made' = made
      /\ calls' = calls \o CallOfMain \o CallOfOther /\ (Push \/ Pop \/ StackUntouched)
  BY DEF WalkEvent, hostVars
<1>2. trace # << >> /\ Stack /\ pos \in Nat \ {0} /\ calls \in Seq(Calls)
  BY <1>1 DEF IInv, Trace, AuthInv
<1>3. PICK h : History(h) /\ MadeHistory(h) /\ WalkAt(h)
  BY <1>2 DEF WalkInv
<1>4. /\ History(h)' /\ MadeHistory(h)'
      /\ \A f : StackAt(f)' = StackAt(f)
      /\ \A f, g, fn : CallOf(f, g, fn)' = CallOf(f, g, fn)
      /\ AllTold(made)' = AllTold(made) /\ \A c : Told(c)' = Told(c)
  BY <1>1, <1>3, HistoryKept
<1>5. /\ pos \in 1 .. Len(trace) /\ Len(h) = Len(trace) /\ Len(h) \in Nat /\ h[1] = << Main >>
      /\ pos' \in 1 .. Len(trace) + 1 /\ pos' # 1 /\ pos' - 1 = pos
  <2>1. Len(h) = Len(trace) /\ Len(h) \in Nat /\ h[1] = << Main >>
    BY <1>3 DEF History
  <2> QED
    BY <1>1, <1>2, <2>1
<1>6. /\ callStack = IF pos = 1 THEN << Main >> ELSE StackAt(h[pos - 1])
      /\ AllTold(calls) \subseteq AllTold(made)
      /\ \A k \in 2 .. Len(trace) : k < pos /\ trace[k].type = "fn_call" =>
             CallOf(h[k - 1], h[k], trace[k].fn) \in AllTold(calls)
  BY <1>1, <1>3 DEF WalkAt
<1>7. AllTold(calls)' = AllTold(calls) \cup AllTold(CallOfMain) \cup AllTold(CallOfOther)
  <2>1. CallOfMain \in Seq(Calls) /\ CallOfOther \in Seq(Calls)
    BY <1>1, EventCallsTyped
  <2>2. PICK a, b : a = CallOfMain /\ b = CallOfOther
    OBVIOUS
  <2>3. calls \o a \in Seq(Calls) /\ ToSet(calls \o a) = ToSet(calls) \cup ToSet(a)
    BY <1>2, <2>1, <2>2, Joined
  <2>4. PICK s : s = calls \o a
    OBVIOUS
  <2>5. s \in Seq(Calls) /\ b \in Seq(Calls)
    BY <2>1, <2>2, <2>3, <2>4
  <2>6. ToSet(s \o b) = ToSet(s) \cup ToSet(b)
    BY <2>5, Joined
  <2>7. calls' = s \o b
    BY <1>1, <2>2, <2>4
  <2>8. ToSet(calls') = ToSet(calls) \cup ToSet(CallOfMain) \cup ToSet(CallOfOther)
    BY <2>2, <2>3, <2>4, <2>6, <2>7
  <2>9. AllTold(calls)' = {Told(c) : c \in ToSet(calls')}
    BY <1>4 DEF AllTold
  <2> QED
    BY <2>8, <2>9 DEF AllTold
<1>10. AllTold(<< >>) = {} /\ \A c : AllTold(<< c >>) = {Told(c)}
  BY AllToldSmall
<1>8. /\ callStack' = StackAt(h[pos]) /\ AllTold(calls)' \subseteq AllTold(made)
      /\ pos # 1 /\ EventAt.type = "fn_call" =>
             CallOf(h[pos - 1], h[pos], EventAt.fn) \in AllTold(calls)'
  <2>1. CASE pos = 1
    <3>1. callStack = << Main >>
      BY <1>6, <2>1
    <3>2. /\ convention # "caller" /\ EventAt.contract = Main /\ CallOfOther = << >>
          /\ CallOfMain = << >> \/ \E c : Told(c) \in AllTold(made) /\ CallOfMain = << c >>
      BY <1>1, <1>2, <1>3, <2>1, <3>1, FirstRecorded
    <3>3. AllTold(calls)' \subseteq AllTold(made)
      <4>1. AllTold(CallOfOther) = {}
        BY <1>10, <3>2
      <4>2. CASE CallOfMain = << >>
        <5>1. AllTold(CallOfMain) = {}
          BY <1>10, <4>2
        <5> QED
          BY <1>6, <1>7, <4>1, <5>1
      <4>3. CASE \E c : Told(c) \in AllTold(made) /\ CallOfMain = << c >>
        <5>1. PICK c : Told(c) \in AllTold(made) /\ CallOfMain = << c >>
          BY <4>3
        <5>2. AllTold(CallOfMain) = {Told(c)}
          BY <1>10, <5>1
        <5> QED
          BY <1>6, <1>7, <4>1, <5>1, <5>2
      <4> QED
        BY <3>2, <4>2, <4>3
    <3>4. callStack' = << Main >>
      <4>1. StackTop = Main /\ Len(callStack) = 1
        BY <3>1 DEF StackTop
      <4> QED
        BY <1>1, <3>1, <3>2, <4>1 DEF Push, Pop, StackUntouched
    <3>5. StackAt(h[1]) = << Main >>
      BY <1>5, <3>2 DEF StackAt, Recording
    <3> QED
      BY <2>1, <3>3, <3>4, <3>5
  <2>2. CASE pos # 1
    <3>1. pos \in 2 .. Len(trace) /\ callStack = StackAt(h[pos - 1]) /\ phase # "host"
      BY <1>1, <1>5, <1>6, <2>2
    <3>2. /\ EventAt.type # "fn_call" => CallOfMain = << >> /\ CallOfOther = << >>
          /\ EventAt.type = "fn_call" =>
                 LET c == CallOf(h[pos - 1], h[pos], EventAt.fn)
                 IN  c \in AllTold(made) /\ \E d : Told(d) = c /\ RecordsOne(d)
      BY <1>2, <1>3, <3>1, EventRecorded, MainAssumption DEF Recording
    <3>3. /\ AllTold(calls)' \subseteq AllTold(made)
          /\ EventAt.type = "fn_call" => CallOf(h[pos - 1], h[pos], EventAt.fn) \in AllTold(calls)'
      <4>1. PICK c : c = CallOf(h[pos - 1], h[pos], EventAt.fn)
        OBVIOUS
      <4>2. CASE EventAt.type # "fn_call"
        <5>1. AllTold(CallOfMain) = {} /\ AllTold(CallOfOther) = {}
          BY <1>10, <3>2, <4>2
        <5> QED
          BY <1>6, <1>7, <4>2, <5>1
      <4>3. CASE EventAt.type = "fn_call"
        <5>1. PICK d : c \in AllTold(made) /\ Told(d) = c /\ RecordsOne(d)
          BY <3>2, <4>1, <4>3
        <5>2. AllTold(CallOfMain) \cup AllTold(CallOfOther) = {c}
          <6>1. CASE CallOfMain = << d >> /\ CallOfOther = << >>
            BY <1>10, <5>1, <6>1
          <6>2. CASE CallOfMain = << >> /\ CallOfOther = << d >>
            BY <1>10, <5>1, <6>2
          <6> QED
            BY <5>1, <6>1, <6>2 DEF RecordsOne
        <5> QED
          BY <1>6, <1>7, <4>1, <5>1, <5>2
      <4> QED
        BY <4>2, <4>3
    <3>4. callStack' = StackAt(h[pos])
      <4>1. HostStack(h[pos - 1]) /\ HostStack(h[pos]) /\ StepOf(h[pos - 1], EventAt, h[pos])
        <5>1. pos - 1 \in 1 .. Len(h) /\ pos \in 1 .. Len(h) /\ pos \in 2 .. Len(h)
          BY <1>5, <3>1
        <5> QED
          BY <1>3, <5>1 DEF History, EventAt
      <4> QED
        BY <1>1, <3>1, <4>1, StackWalked DEF Recording
    <3> QED
      BY <3>3, <3>4
  <2> QED
    BY <2>1, <2>2
<1>9. WalkAt(h)'
  <2>1. callStack' = IF pos' = 1 THEN << Main >> ELSE StackAt(h[pos - 1])'
    BY <1>1, <1>4, <1>5, <1>8 DEF StackAt
  <2>2. ASSUME NEW k \in 2 .. Len(trace), k < pos', trace[k].type = "fn_call"
        PROVE  CallOf(h[k - 1], h[k], trace[k].fn) \in AllTold(calls)'
    <3>1. CASE k < pos
      BY <1>6, <1>7, <2>2, <3>1
    <3>2. CASE k = pos
      BY <1>8, <2>2, <3>2 DEF EventAt
    <3> QED
      BY <1>1, <1>5, <2>2, <3>1, <3>2
  <2>3. \A k \in 2 .. Len(trace) : k < pos' /\ trace[k].type = "fn_call" =>
            CallOf(h[k - 1], h[k], trace[k].fn)' \in AllTold(calls)'
    BY <1>1, <1>4, <2>2
  <2>4. AllTold(calls)' \subseteq AllTold(made)'
    BY <1>4, <1>8
  <2> QED
    BY <1>1, <1>5, <2>1, <2>3, <2>4 DEF WalkAt
<1> QED
  BY <1>4, <1>9 DEF WalkInv

\* After the events the calls only become more.
LEMMA CallsKept ==
    ASSUME WalkInv, Clean, trace # << >>, phase # "host", phase' \notin {"host", "events"},
           UNCHANGED << convention, hostVars >>, ToSet(calls) \subseteq ToSet(calls'),
           phase = "events" => pos > Len(trace) /\ pos \in Nat,
           phase = "events" \/ EdgesTo(pos) \subseteq EdgesTo(pos)',
           ToSet(calls') \subseteq ToSet(calls) \cup EdgesTo(pos)'
    PROVE  WalkInv'
<1>1. PICK h : History(h) /\ MadeHistory(h) /\ WalkAt(h)
  BY DEF WalkInv
<1>2. /\ History(h)' /\ MadeHistory(h)'
      /\ \A f, g, fn : CallOf(f, g, fn)' = CallOf(f, g, fn)
      /\ NamesTold' = NamesTold /\ \A c : Told(c)' = Told(c)
  BY <1>1, HistoryKept
<1>3. trace' = trace /\ Len(trace) \in Nat
  BY <1>1 DEF hostVars, History
<1>4. \A k \in 2 .. Len(trace) : trace[k].type = "fn_call" =>
          CallOf(h[k - 1], h[k], trace[k].fn) \in AllTold(calls)
  <2>1. phase = "events" => \A k \in 2 .. Len(trace) : k < pos
    BY <1>3
  <2> QED
    BY <1>1, <2>1 DEF WalkAt
<1>5. WalkAt(h)'
  <2>1. \A k \in 2 .. Len(trace) : trace[k].type = "fn_call" =>
            CallOf(h[k - 1], h[k], trace[k].fn)' \in AllTold(calls)'
    <3>1. AllTold(calls) \subseteq AllTold(calls)'
      BY <1>2 DEF AllTold
    <3> QED
      BY <1>2, <1>3, <1>4, <3>1
  <2>2. NamesTold => ToSet(calls') \subseteq ToSet(made') \cup EdgesTo(pos)'
    <3>1. made' = made
      BY DEF hostVars
    <3>2. CASE phase = "events"
      <4>1. AllTold(calls) \subseteq AllTold(made)
        BY <1>1, <3>2 DEF WalkAt
      <4>2. NamesTold => AllTold(calls) = ToSet(calls) /\ AllTold(made) = ToSet(made)
        BY DEF AllTold, Told
      <4> QED
        BY <3>1, <4>1, <4>2
    <3>3. CASE phase # "events"
      BY <1>1, <3>1, <3>3 DEF WalkAt
    <3> QED
      BY <3>2, <3>3
  <2> QED
    BY <1>2, <1>3, <2>1, <2>2 DEF WalkAt
<1> QED
  BY <1>2, <1>5 DEF WalkInv

LEMMA WalkNext ==
    ASSUME IInv, AuthInv, Recording, WalkInv, [Next]_vars
    PROVE  WalkInv'
<1>1. SUFFICES ASSUME Clean', phase' = "host" \/ trace' # << >> PROVE WalkInv'
  BY DEF WalkInv
<1>2. CASE \/ \E c \in Contracts, fn \in Functions : HostCall(c, fn)
           \/ \E type \in {"other", "error_value"} : HostEmit(type)
           \/ HostReturn
  <2>1. Running /\ Clean
    BY <1>1, <1>2 DEF HostCall, HostEmit, HostReturn, Clean
  <2> QED
    BY <1>2, <2>1, HostWalk
<1>3. CASE HostFail
  <2>1. Top \in Contracts
    BY <1>3, TopTyped DEF HostFail, IInv
  <2> QED
    BY <1>1, <1>3, <2>1, MainAssumption DEF HostFail, Clean
<1>4. CASE HostCatch
  BY <1>1, <1>4 DEF HostCatch, Clean
<1>5. CASE HostDone
  <2>1. Clean /\ trace' # << >>
    BY <1>1, <1>5 DEF HostDone, Clean
  <2> QED
    BY <1>5, <2>1, HostDoneWalk
<1>6. CASE SkipEvent \/ WalkEvent \/ EventsDone \/ WalkInvocation \/ CutOff \/ Integrate
  <2>1. /\ Clean /\ trace' = trace /\ UNCHANGED << convention, hostVars >>
        /\ phase' # "host" /\ phase # "host" /\ trace # << >>
    BY <1>1, <1>6 DEF SkipEvent, WalkEvent, EventsDone, WalkInvocation, CutOff, Integrate, hostVars, Clean
  <2>2. CASE EventsDone \/ CutOff \/ Integrate
    <3>1. /\ calls' = calls /\ phase' \notin {"host", "events"}
          /\ phase = "events" => pos > Len(trace) /\ pos \in Nat
      BY <2>2 DEF EventsDone, CutOff, Integrate, IInv, Trace
    <3>2. phase = "events" \/ EdgesTo(pos) \subseteq EdgesTo(pos)'
      <4>1. CASE EventsDone
        BY <4>1 DEF EventsDone
      <4>2. CASE CutOff
        BY <4>2, CutOffAuth
      <4>3. CASE Integrate
        <5>1. AuthAt /\ UNCHANGED << auth, pos, callerAt, calls, trace, skippedEdges >>
          BY <4>3 DEF Integrate, hostVars, AuthInv
        <5> QED
          BY <5>1, AuthKept
      <4> QED
        BY <2>2, <4>1, <4>2, <4>3
    <3> QED
      BY <2>1, <3>1, <3>2, CallsKept
  <2>3. CASE WalkInvocation
    <3>1. phase = "auth" /\ phase' = "auth" /\ calls \in Seq(Calls)
      BY <2>3 DEF WalkInvocation, AuthInv
    <3>2. ToSet(calls) \subseteq ToSet(calls')
      <4>1. calls' \in Seq(Calls)
        BY <2>3, WalkInvocationAuth DEF AuthInv
      <4>2. calls' = calls \/ \E c : calls' = Append(calls, c)
        BY <2>3 DEF WalkInvocation
      <4>3. ASSUME NEW c, calls' = Append(calls, c) PROVE ToSet(calls) \subseteq ToSet(calls')
        <5>1. c \in Calls
          <6>1. Len(calls) \in Nat /\ Len(calls') = Len(calls) + 1 /\ calls'[Len(calls) + 1] = c
            BY <3>1, <4>3
          <6> QED
            BY <4>1, <6>1
        <5> QED
          BY <3>1, <4>3, <5>1, Longer
      <4> QED
        BY <4>2, <4>3
    <3>3. /\ EdgesTo(pos) \subseteq EdgesTo(pos)'
          /\ ToSet(calls') \subseteq ToSet(calls) \cup EdgesTo(pos)'
      BY <2>3, WalkInvocationAuth
    <3> QED
      BY <2>1, <3>1, <3>2, <3>3, CallsKept
  <2> QED
    BY <1>6, <2>1, <2>2, <2>3, SkipEventWalk, WalkEventWalk
<1>7. CASE UNCHANGED vars
  <2>1. /\ UNCHANGED << convention, hostVars, phase, pos, calls, callStack >>
        /\ trace' = trace /\ made' = made /\ Clean
    BY <1>1, <1>7 DEF vars, hostVars, walkVars, Clean
  <2>2. PICK h : History(h) /\ MadeHistory(h) /\ WalkAt(h)
    BY <1>1, <2>1 DEF WalkInv
  <2>3. /\ History(h)' /\ MadeHistory(h)'
        /\ \A f, g, fn : CallOf(f, g, fn)' = CallOf(f, g, fn)
        /\ NamesTold' = NamesTold /\ \A c : Told(c)' = Told(c)
        /\ AllTold(made)' = AllTold(made)
    BY <2>1, <2>2, HistoryKept
  <2>5. AllTold(calls)' = AllTold(calls)
    BY <2>1, <2>3 DEF AllTold
  <2>6. auth' = auth
    BY <1>7 DEF vars
  <2>7. EdgesTo(pos)' = EdgesTo(pos)
    BY <2>1, <2>6 DEF EdgesTo, Edge, Leaves, Caller, Above, Depth
  <2>4. WalkAt(h)'
    BY <2>1, <2>2, <2>3, <2>5, <2>7 DEF WalkAt, StackAt
  <2> QED
    BY <2>3, <2>4 DEF WalkInv
<1> QED
  BY <1>2, <1>3, <1>4, <1>5, <1>6, <1>7 DEF Next, Terminated

LEMMA RecordedAtEnd == AuthInv /\ WalkInv => RecordedCallsWereMade
<1> SUFFICES ASSUME AuthInv, WalkInv, phase = "events", Clean
             PROVE  AllTold(calls) \subseteq AllTold(made)
  BY DEF RecordedCallsWereMade
<1>1. CASE trace = << >>
  <2>1. calls = << >>
    BY <1>1 DEF AuthInv
  <2> QED
    BY <2>1, AllToldSmall
<1>2. CASE trace # << >>
  BY <1>2 DEF WalkInv, WalkAt
<1> QED
  BY <1>1, <1>2

LEMMA MadeRecorded ==
    ASSUME Recording, WalkInv, phase \in {"auth", "done"}, Clean, trace # << >>,
           NEW n \in DOMAIN made
    PROVE  \/ Told(made[n]) \in AllTold(calls)
           \/ /\ convention = "caller" /\ made[n].from # Main
              /\ ~(n + 1 \in DOMAIN made /\ made[n + 1].depth = made[n].depth + 1)
<1>1. PICK h : History(h) /\ MadeHistory(h) /\ WalkAt(h)
  BY DEF WalkInv
<1>2. /\ \A k \in 2 .. Len(h) : trace[k].type = "fn_call" =>
             CallOf(h[k - 1], h[k], trace[k].fn) \in AllTold(calls)
      /\ made \in Seq(CallRecords) /\ n \in 1 .. Len(made) /\ Len(made) \in Nat
      /\ \A k \in 2 .. Len(h) : k \in 1 .. Len(h) /\ k - 1 \in 1 .. Len(h)
      /\ made[n] \in CallRecords
  <2>1. /\ \A k \in 2 .. Len(trace) : trace[k].type = "fn_call" =>
               CallOf(h[k - 1], h[k], trace[k].fn) \in AllTold(calls)
        /\ Len(h) = Len(trace) /\ Len(h) \in Nat
    BY <1>1 DEF WalkAt, History
  <2>2. made \in Seq(CallRecords)
    BY <1>1 DEF MadeHistory
  <2>3. n \in 1 .. Len(made) /\ Len(made) \in Nat /\ made[n] \in CallRecords
    BY <2>2
  <2>4. \A k \in 2 .. Len(h) : k \in 1 .. Len(h) /\ k - 1 \in 1 .. Len(h)
    BY <2>1
  <2> QED
    BY <2>1, <2>2, <2>3, <2>4
<1>3. made[n] = Call(made[n].from, made[n].to, made[n].fn, made[n].depth)
  BY <1>2 DEF CallRecords, Call
<1>4. PICK k \in 2 .. Len(h) : CallAt(h, k, made[n])
  BY <1>1, <1>2 DEF MadeHistory
<1>5. PICK f, g, c : f = h[k - 1] /\ g = h[k] /\ c = made[n].to
  OBVIOUS
<1>6. /\ trace[k].type = "fn_call" /\ f # << >> /\ g = Append(f, c) /\ c \in Contracts
      /\ made[n].from = f[Len(f)] /\ made[n].depth = Len(f) /\ made[n].fn = trace[k].fn
      /\ HostStack(f) /\ HostStack(g)
  BY <1>1, <1>2, <1>4, <1>5 DEF CallAt, CallRecords, History
<1>7. CallsAnew(f, g, c) /\ CallOf(f, g, made[n].fn) \in AllTold(calls)
  BY <1>2, <1>5, <1>6, CalledAnew
<1>8. g[Len(g)] = c /\ f[1] = Main /\ Len(f) \in Nat \ {0}
  BY <1>7 DEF CallsAnew
<1>9. CASE convention = "callee"
  <2>1. CallTo(f, g, made[n].fn) = made[n]
    BY <1>3, <1>5, <1>6, <1>8 DEF CallTo
  <2> QED
    BY <1>7, <1>9, <2>1 DEF CallOf
<1>11. convention = "caller" => Told(made[n]) = Call(made[n].from, made[n].to, Unknown, made[n].depth)
  BY DEF Told, NamesTold
<1>12. CASE convention = "caller" /\ Len(f) = 1
  <2>1. CallOf(f, g, made[n].fn) = Call(Main, c, Unknown, 1)
    BY <1>8, <1>12 DEF CallOf
  <2> QED
    BY <1>5, <1>6, <1>7, <1>8, <1>11, <1>12, <2>1
<1>10. CASE convention = "caller" /\ Len(f) # 1
  <2>1. made[n].from # Main
    <3>1. Len(f) \in 1 .. Len(f) /\ 1 \in 1 .. Len(f)
      BY <1>8, Positions
    <3> QED
      BY <1>6, <1>8, <1>10, <3>1 DEF HostStack
  <2>2. ASSUME n + 1 \in DOMAIN made, made[n + 1].depth = made[n].depth + 1
        PROVE  Told(made[n]) \in AllTold(calls)
    <3>1. n + 1 \in 2 .. Len(made) /\ (n + 1) - 1 = n
      BY <1>2, <2>2
    <3>2. PICK l \in 2 .. Len(h) : CallAt(h, l, made[n + 1]) /\ MadeTop(h[l - 1], made[n])
      BY <1>1, <2>2, <3>1 DEF MadeHistory
    <3>3. PICK d, e : d = h[l - 1] /\ e = h[l]
      OBVIOUS
    <3>4. /\ CallOf(d, e, trace[l].fn) \in AllTold(calls)
          /\ Len(d) = made[n].depth + 1 /\ d[made[n].depth] = made[n].from
          /\ d[made[n].depth + 1] = made[n].to
      BY <1>2, <3>2, <3>3 DEF CallAt, MadeTop
    <3>5. Len(d) # 1 /\ Len(d) - 1 = made[n].depth
      BY <1>6, <1>8, <3>4
    <3>6. CallOf(d, e, trace[l].fn) = Call(made[n].from, made[n].to, Unknown, made[n].depth)
      BY <1>10, <3>4, <3>5 DEF CallOf
    <3> QED
      BY <1>10, <1>11, <3>4, <3>6
  <2> QED
    BY <1>10, <2>1, <2>2
<1> QED
  BY <1>9, <1>10, <1>12 DEF Recording

LEMMA MadeAtEnd == Recording /\ WalkInv => MadeCallsAreRecorded
    BY MadeRecorded DEF MadeCallsAreRecorded

\* With the names told, nothing is told of a call but the call.
LEMMA StoredAtEnd == AuthInv /\ Recording /\ WalkInv => CallsStoredOnce
<1> SUFFICES ASSUME AuthInv, Recording, WalkInv, phase = "done", Clean, trace # << >>, NamesTold
             PROVE  /\ ToSet(graph.calls) = ToSet(made) \cup AuthorizedEdges
                    /\ \A n \in DOMAIN graph.calls :
                           \A m \in 1 .. n - 1 : graph.calls[m] # graph.calls[n]
  BY DEF CallsStoredOnce
<1>1. calls \in Seq(Calls) /\ AuthAt /\ auth \in AuthTrees /\ pos > Len(auth)
  BY DEF AuthInv
<1>2. EdgesTo(pos) = AuthorizedEdges
  <2>1. pos - 1 = Len(auth) /\ DOMAIN auth = 1 .. Len(auth)
    BY <1>1, AuthTyped DEF AuthAt
  <2> QED
    BY <2>1 DEF EdgesTo, AuthorizedEdges, Reached
<1>3. ToSet(calls) \subseteq ToSet(made) \cup EdgesTo(pos)
  BY DEF WalkInv, WalkAt
<1>4. EdgesTo(pos) \subseteq ToSet(calls)
  BY <1>1 DEF AuthAt
<1>5. ToSet(made) \subseteq ToSet(calls)
  <2>1. convention # "caller" /\ \A c : Told(c) = c
    BY DEF NamesTold, Told
  <2>2. AllTold(calls) = ToSet(calls)
    BY <2>1 DEF AllTold
  <2>3. \A n \in DOMAIN made : made[n] \in ToSet(calls)
    BY <2>1, <2>2, MadeRecorded
  <2> QED
    BY <2>3 DEF ToSet
<1>6. ToSet(graph.calls) = ToSet(calls)
  BY GraphCalls
<1>7. ASSUME NEW n \in DOMAIN graph.calls, NEW m \in 1 .. n - 1
      PROVE  graph.calls[m] # graph.calls[n]
  <2>1. CASE calls = << >>
    <3>1. graph.calls = << >>
      BY <2>1 DEF AuthInv, NoGraph
    <3> QED
      BY <1>7, <3>1
  <2>2. CASE calls # << >>
    <3>1. graph.calls = Deduplicated
      BY <2>2 DEF AuthInv
    <3> QED
      BY <1>1, <1>7, <3>1, DeduplicatedIs
  <2> QED
    BY <2>1, <2>2
<1> QED
  BY <1>2, <1>3, <1>4, <1>5, <1>6, <1>7

\* Without a failure, every call that the walk over the events records was made
\* by the contract and at the depth it is recorded with, whichever contract the
\* host files a fn_call under.
THEOREM WereMade == Spec => []RecordedCallsWereMade
<1>1. Init => IInv /\ AuthInv /\ Recording /\ WalkInv
  BY InitInv, InitAuth, InitWalk
<1>2. IInv /\ AuthInv /\ Recording /\ WalkInv /\ [Next]_vars
      => IInv' /\ AuthInv' /\ Recording' /\ WalkInv'
  BY NextInv, AuthNext, RecordingNext, WalkNext
<1>3. AuthInv /\ WalkInv => RecordedCallsWereMade
  BY RecordedAtEnd
<1> QED
  BY <1>1, <1>2, <1>3, PTL DEF Spec

\* Without a failure, every call that was made is recorded with fn_call filed
\* under the callee; under the caller, those of the main contract and those
\* whose callee went on to call.
THEOREM AreRecorded == Spec => []MadeCallsAreRecorded
<1>1. Init => IInv /\ AuthInv /\ Recording /\ WalkInv
  BY InitInv, InitAuth, InitWalk
<1>2. IInv /\ AuthInv /\ Recording /\ WalkInv /\ [Next]_vars
      => IInv' /\ AuthInv' /\ Recording' /\ WalkInv'
  BY NextInv, AuthNext, RecordingNext, WalkNext
<1>3. Recording /\ WalkInv => MadeCallsAreRecorded
  BY MadeAtEnd
<1> QED
  BY <1>1, <1>2, <1>3, PTL DEF Spec

\* Without a failure, and where the names can be told, the stored graph has the
\* calls that were made and those authorized, each of them once, whichever of
\* them both patterns or the authorizations give a second time.
THEOREM StoredOnce == Spec => []CallsStoredOnce
<1>1. Init => IInv /\ AuthInv /\ Recording /\ WalkInv
  BY InitInv, InitAuth, InitWalk
<1>2. IInv /\ AuthInv /\ Recording /\ WalkInv /\ [Next]_vars
      => IInv' /\ AuthInv' /\ Recording' /\ WalkInv'
  BY NextInv, AuthNext, RecordingNext, WalkNext
<1>3. AuthInv /\ Recording /\ WalkInv => CallsStoredOnce
  BY StoredAtEnd
<1> QED
  BY <1>1, <1>2, <1>3, PTL DEF Spec
=============================================================================
