------------------------------ MODULE CallGraph ------------------------------
(***************************************************************************)
(* The cross-contract call graph of one InvokeContract operation           *)
(* (call_graph.go) and the contract error of its transaction               *)
(* (contract_error.go), both read off the diagnostic events.               *)
(*                                                                         *)
(* A contract host, external, first runs the invocation and leaves a trace *)
(* of events: a contract is not entered while it is on the stack, a frame  *)
(* that fails leaves an error and no fn_return, and its caller catches the *)
(* failure or fails too.  Under which contract the host files a fn_call,   *)
(* the caller's (none for the outermost) or the callee's, is left open:    *)
(* extractCrossContractCallsFromDiagnosticEvents has a pattern for each.   *)
(* Then the events are walked, then the authorization entries, and the     *)
(* calls of both are put together.  Of a call's arguments only the fn_name *)
(* found in them is kept.                                                  *)
(***************************************************************************)
EXTENDS Integers, Sequences, FiniteSets, SequencesExt, Selection

CONSTANTS Contracts,      \* contract ids, ordered as integers
          Main,           \* the contract the operation invokes
          NoContract,     \* the nil ContractId of an event
          NotAContract,   \* an address of an authorization that is no contract
          Creation,       \* an authorized function that calls no contract
          Functions,      \* names of contract functions
          MainFunction,   \* the one the operation invokes
          Unknown,        \* "unknown", and the function of what calls none
          Legible,        \* the functions whose second topic can be read
          InArguments,    \* the fn_name in the arguments of a call, or Unknown
          AuthTrees,      \* the authorizations: invocations in preorder
          AuthDepthLimit, \* the code's 10
          MaxEvents       \* bound on the trace

ASSUME MainAssumption ==
    Contracts \subseteq Int /\ Main \in Contracts /\ NoContract \notin Contracts

FunctionNames == Functions \cup {Unknown}

ASSUME FunctionAssumption ==
    /\ MainFunction \in Functions /\ Unknown \notin Functions /\ Legible \subseteq Functions
    /\ InArguments \in [Functions -> FunctionNames]

\* A node is its depth and what it calls; each is at most one below the last.
Preorder(tree) ==
    /\ tree \in Seq([depth : Nat \ {0}, to : Contracts \cup {NotAContract, Creation},
                     fn : FunctionNames])
    /\ tree # << >> => tree[1].depth = 1
    /\ \A n \in 1 .. Len(tree) - 1 : tree[n + 1].depth <= tree[n].depth + 1

ASSUME AuthAssumption ==
    AuthDepthLimit \in Nat /\ \A tree \in AuthTrees : Preorder(tree)

Call(from, to, fn, depth) == [from |-> from, to |-> to, fn |-> fn, depth |-> depth]
Event(type, contract, fn) == [type |-> type, contract |-> contract, fn |-> fn]

VARIABLES convention,   \* "caller" or "callee": the contract of a fn_call
          trace,        \* the diagnostic events
          frames,       \* the host's stack
          made,         \* the calls the host really made
          cause,        \* contract whose failure is unwinding, or NoContract
          caught,       \* a failure was caught
          auth,         \* never assigned
          phase,        \* "host", "events", "auth", "done"
          pos,          \* the event or invocation the loop is at
          calls,        \* allCalls
          callStack, currentDepth,
          callerAt,     \* fromContract of the recursion at each depth
          skippedEdges, \* callGraphSkippedEdges
          graph         \* the result

hostVars == << trace, frames, made, cause, caught >>
walkVars == << pos, calls, callStack, currentDepth, callerAt, skippedEdges, graph >>
vars == << convention, auth, phase, hostVars, walkVars >>

NoGraph == [calls |-> << >>, contracts |-> << >>, maxDepth |-> 0]

Init ==
    /\ convention \in {"caller", "callee"} /\ auth \in AuthTrees
    /\ trace = << Event("fn_call", IF convention = "caller" THEN NoContract ELSE Main,
                        MainFunction) >>
    /\ frames = << Main >> /\ made = << >> /\ cause = NoContract /\ caught = FALSE
    /\ phase = "host" /\ pos = 1 /\ calls = << >>
    /\ callStack = << Main >> /\ currentDepth = 0
    /\ callerAt = << Main >> /\ skippedEdges = 0 /\ graph = NoGraph

-----------------------------------------------------------------------------
(* The host.                                                                *)

Top == frames[Len(frames)]
Running == phase = "host" /\ frames # << >> /\ cause = NoContract
\* Room for every frame on the stack to return.
HasRoom == Len(trace) + Len(frames) < MaxEvents
Leave == frames' = SubSeq(frames, 1, Len(frames) - 1)
HostOnly == UNCHANGED << convention, auth, phase, walkVars >>

HostCall(c, fn) ==
    /\ Running /\ HasRoom /\ c \notin ToSet(frames) /\ Len(trace) + Len(frames) + 1 < MaxEvents
    /\ trace' = Append(trace, Event("fn_call", IF convention = "caller" THEN Top ELSE c, fn))
    /\ frames' = Append(frames, c)
    /\ made' = Append(made, Call(Top, c, fn, Len(frames)))
    /\ UNCHANGED << cause, caught >> /\ HostOnly

\* An event of a contract may have an error among its topics or as its data.
HostEmit(type) ==
    /\ Running /\ HasRoom
    /\ trace' = Append(trace, Event(type, Top, Unknown))
    /\ UNCHANGED << frames, made, cause, caught >> /\ HostOnly

HostReturn ==
    /\ Running
    /\ trace' = Append(trace, Event("fn_return", Top, Unknown))
    /\ Leave
    /\ UNCHANGED << made, cause, caught >> /\ HostOnly

\* The running frame fails, or the one whose callee just has.
HostFail ==
    /\ phase = "host" /\ frames # << >>
    /\ trace' = Append(trace, Event("error", Top, Unknown))
    /\ cause' = IF cause = NoContract THEN Top ELSE cause
    /\ Leave
    /\ UNCHANGED << made, caught >> /\ HostOnly

HostCatch ==
    /\ phase = "host" /\ frames # << >> /\ cause # NoContract
    /\ cause' = NoContract /\ caught' = TRUE
    /\ UNCHANGED << trace, frames, made >> /\ HostOnly

\* Not every node keeps the diagnostic events.
HostDone ==
    /\ phase = "host" /\ frames = << >>
    /\ phase' = "events" /\ trace' \in {trace, << >>}
    /\ UNCHANGED << convention, auth, frames, made, cause, caught, walkVars >>

-----------------------------------------------------------------------------
(* The walk over the diagnostic events.                                     *)

StackTop == callStack[Len(callStack)]
EventAt  == trace[pos]

OrElse(name, other) == IF name # Unknown THEN name ELSE other

\* extractFunctionNameFromDiagnosticEvent, of a fn_call.
Spelled(e) == IF e.type = "fn_call" /\ e.fn \in Legible THEN e.fn ELSE Unknown

\* Mutation: the caller's event is asked for the name first.
NameByMainFirst ==
    OrElse(OrElse(Spelled(EventAt), Spelled(trace[pos + 1])), InArguments[EventAt.fn])

\* The name from the next event if that is a fn_call, or else from this one, or
\* else from this one's arguments.
NameByMain ==
    OrElse(OrElse(Spelled(trace[pos + 1]), Spelled(EventAt)), InArguments[EventAt.fn])

\* A fn_call of the main contract, followed by an event of another one.
CallOfMain ==
    IF /\ EventAt.type = "fn_call" /\ EventAt.contract = Main /\ pos < Len(trace)
       /\ trace[pos + 1].contract \notin {NoContract, Main}
    THEN << Call(Main, trace[pos + 1].contract, NameByMain, currentDepth + 1) >>
    ELSE << >>

NameOfOther == OrElse(Spelled(EventAt), InArguments[EventAt.fn])

\* Mutation: the caller is taken to be the main contract.
CallOfOtherByMain ==
    IF EventAt.type = "fn_call" /\ EventAt.contract # Main /\ StackTop # EventAt.contract
    THEN << Call(Main, EventAt.contract, NameOfOther, currentDepth + 1) >>
    ELSE << >>

\* A fn_call of another contract than the one on top of the stack.
CallOfOther ==
    IF EventAt.type = "fn_call" /\ EventAt.contract # Main /\ StackTop # EventAt.contract
    THEN << Call(StackTop, EventAt.contract, NameOfOther, currentDepth + 1) >>
    ELSE << >>

Push ==
    /\ EventAt.type = "fn_call" /\ StackTop # EventAt.contract
    /\ callStack' = Append(callStack, EventAt.contract)
    /\ currentDepth' = currentDepth + 1

\* Mutation: the depth is never taken back.
PopKeepsDepth ==
    /\ EventAt.type = "fn_return" /\ Len(callStack) > 1
    /\ callStack' = SubSeq(callStack, 1, Len(callStack) - 1)
    /\ UNCHANGED currentDepth

Pop ==
    /\ EventAt.type = "fn_return" /\ Len(callStack) > 1
    /\ callStack' = SubSeq(callStack, 1, Len(callStack) - 1)
    /\ currentDepth' = IF currentDepth > 0 THEN currentDepth - 1 ELSE currentDepth

StackUntouched ==
    /\ ~(EventAt.type = "fn_call" /\ StackTop # EventAt.contract)
    /\ ~(EventAt.type = "fn_return" /\ Len(callStack) > 1)
    /\ UNCHANGED << callStack, currentDepth >>

SkipEvent ==
    /\ phase = "events" /\ pos <= Len(trace) /\ EventAt.contract = NoContract
    /\ pos' = pos + 1
    /\ UNCHANGED << convention, auth, phase, hostVars, calls, callStack, currentDepth,
                    callerAt, skippedEdges, graph >>

WalkEvent ==
    /\ phase = "events" /\ pos <= Len(trace) /\ EventAt.contract # NoContract
    /\ calls' = calls \o CallOfMain \o CallOfOther
    /\ Push \/ Pop \/ StackUntouched
    /\ pos' = pos + 1
    /\ UNCHANGED << convention, auth, phase, hostVars, callerAt, skippedEdges, graph >>

EventsDone ==
    /\ phase = "events" /\ pos > Len(trace)
    /\ phase' = "auth" /\ pos' = 1
    /\ UNCHANGED << convention, auth, hostVars, calls, callStack, currentDepth,
                    callerAt, skippedEdges, graph >>

-----------------------------------------------------------------------------
(* The recursion over the authorized invocations, in preorder.              *)

Node == auth[pos]

\* Mutation: the nodes below keep the caller of their parent.
CallerBelowUnchanged(from) == from

\* A node that calls another contract is the caller of the nodes below it.
CallerBelow(from) ==
    IF Node.to \in Contracts /\ Node.to # from THEN Node.to ELSE from

\* Mutation: the limit lets one level more through.
TooDeepLate == Node.depth > AuthDepthLimit + 1

TooDeep == Node.depth > AuthDepthLimit

WalkInvocation ==
    LET from == callerAt[Node.depth]
    IN  /\ phase = "auth" /\ pos <= Len(auth) /\ ~TooDeep
        /\ calls' = IF Node.to \in Contracts /\ Node.to # from
                    THEN Append(calls, Call(from, Node.to, Node.fn, Node.depth)) ELSE calls
        /\ skippedEdges' = IF Node.to = NotAContract THEN skippedEdges + 1 ELSE skippedEdges
        /\ callerAt' = Append(SubSeq(callerAt, 1, Node.depth), CallerBelow(from))
        /\ pos' = pos + 1
        /\ UNCHANGED << convention, auth, phase, hostVars, callStack, currentDepth, graph >>

\* The recursion returns at once, and does not come to the nodes below.
CutOff ==
    /\ phase = "auth" /\ pos <= Len(auth) /\ TooDeep
    /\ pos' = pos + 1
    /\ UNCHANGED << convention, auth, phase, hostVars, calls, callStack, currentDepth,
                    callerAt, skippedEdges, graph >>

-----------------------------------------------------------------------------
(* The result.                                                              *)

\* Mutation: the key is the two contracts and the depth.
DeduplicatedByContracts ==
    Selected(calls, {n \in DOMAIN calls :
        \A m \in 1 .. n - 1 : [calls[m] EXCEPT !.fn = Unknown] # [calls[n] EXCEPT !.fn = Unknown]})

\* deduplicateCalls: the first of each key, from->to:function@depth, stays.
Deduplicated ==
    Selected(calls, {n \in DOMAIN calls : \A m \in 1 .. n - 1 : calls[m] # calls[n]})

MaxDepth == Max({0} \cup {c.depth : c \in ToSet(calls)})

\* sortedSetKeys of the contracts of the calls and the main contract.
ContractsInvolved ==
    Ascending({Main} \cup {c.from : c \in ToSet(calls)} \cup {c.to : c \in ToSet(calls)})

\* Without a cross-contract call there is no graph.
Integrate ==
    /\ phase = "auth" /\ pos > Len(auth)
    /\ phase' = "done"
    /\ graph' = IF calls = << >> THEN NoGraph
                ELSE [calls |-> Deduplicated, contracts |-> ContractsInvolved,
                      maxDepth |-> MaxDepth]
    /\ UNCHANGED << convention, auth, hostVars, pos, calls, callStack, currentDepth,
                    callerAt, skippedEdges >>

CarriesError(e) == e.type \in {"error", "error_value"}

\* Mutation: the last error of the trace.
ContractErrorLast ==
    LET n == SelectLastInSeq(trace, CarriesError)
    IN  IF n = 0 THEN NoContract ELSE trace[n].contract

\* contractErrorFacts: the first error of the trace, by the contract it is of.
ContractError ==
    LET n == SelectInSeq(trace, CarriesError)
    IN  IF n = 0 THEN NoContract ELSE trace[n].contract

Terminated == phase = "done" /\ UNCHANGED vars

Next ==
    \/ \E c \in Contracts, fn \in Functions : HostCall(c, fn)
    \/ \E type \in {"other", "error_value"} : HostEmit(type)
    \/ HostReturn
    \/ HostFail
    \/ HostCatch
    \/ HostDone
    \/ SkipEvent
    \/ WalkEvent
    \/ EventsDone
    \/ WalkInvocation
    \/ CutOff
    \/ Integrate
    \/ Terminated

Spec == Init /\ [][Next]_vars

-----------------------------------------------------------------------------
Depth(n) == auth[n].depth

\* The stack of the event walk is rooted in the main contract whatever the
\* trace, balanced or not; no contract is on top of itself; and the depth kept
\* beside it is the number of calls on it.
StackSound ==
    /\ callStack # << >> /\ callStack[1] = Main
    /\ \A n \in 1 .. Len(callStack) - 1 : callStack[n] # callStack[n + 1]
    /\ currentDepth = Len(callStack) - 1

Clean == cause = NoContract /\ ~caught

\* Where fn_call is filed under the callee and every second topic can be read,
\* the names recorded are those of the functions called.  Otherwise a call can
\* have the name of its caller or of what its callee calls next, and only the
\* contracts and the depth are compared.
NamesTold ==
    /\ convention = "callee"
    /\ \A n \in 1 .. Len(trace) : trace[n].type = "fn_call" => trace[n].fn \in Legible
Told(c) == IF NamesTold THEN c ELSE Call(c.from, c.to, Unknown, c.depth)
AllTold(s) == {Told(c) : c \in ToSet(s)}

\* In a trace in which no frame failed, whichever contract a fn_call is filed
\* under, every call that the walk records was made, by that contract and at
\* that depth.  (A failed frame has no fn_return and stays on the stack.)
RecordedCallsWereMade ==
    phase = "events" /\ Clean => AllTold(calls) \subseteq AllTold(made)

\* Every call that was made is recorded if fn_call is filed under the callee;
\* under the caller, those by the main contract, and of the others those whose
\* callee went on to call: a call that ends below another contract leaves none.
MadeCallsAreRecorded ==
    phase = "auth" /\ Clean /\ trace # << >> =>
        \A n \in DOMAIN made :
            \/ Told(made[n]) \in AllTold(calls)
            \/ /\ convention = "caller" /\ made[n].from # Main
               /\ ~(n + 1 \in DOMAIN made /\ made[n + 1].depth = made[n].depth + 1)

\* The nodes above n that call a contract, the nearest of them, and the edge
\* that n is if it leaves that contract.
Above(n) ==
    {m \in 1 .. n - 1 : auth[m].to \in Contracts /\ \A l \in m + 1 .. n : Depth(l) > Depth(m)}
Caller(n) == IF Above(n) = {} THEN Main ELSE auth[Max(Above(n))].to
Reached == {n \in DOMAIN auth : Depth(n) <= AuthDepthLimit}
Leaves(n) == auth[n].to \in Contracts /\ auth[n].to # Caller(n)
Edge(n) == Call(Caller(n), auth[n].to, auth[n].fn, Depth(n))
AuthorizedEdges == {Edge(n) : n \in {m \in Reached : Leaves(m)}}

\* The authorization tree is read down to the limit: an invocation is an edge
\* from the nearest contract above it, unless it stays in that contract; those
\* cut off leave no edge, those of no contract are counted.  Without diagnostic
\* events these are all the edges there are.
AuthorizedCallsRecorded ==
    phase = "done" =>
        /\ AuthorizedEdges \subseteq ToSet(graph.calls)
        /\ trace = << >> => ToSet(graph.calls) = AuthorizedEdges
        /\ skippedEdges = Cardinality({n \in Reached : auth[n].to = NotAContract})

\* Where the names can be told, the stored graph has the calls that were made
\* and those authorized, and each of them once: a call that both patterns match,
\* or that was authorized too, is not counted twice, and two calls that differ
\* in the function only are not taken for one.
CallsStoredOnce ==
    phase = "done" /\ Clean /\ trace # << >> /\ NamesTold =>
        /\ ToSet(graph.calls) = ToSet(made) \cup AuthorizedEdges
        /\ \A n \in DOMAIN graph.calls : \A m \in 1 .. n - 1 : graph.calls[m] # graph.calls[n]

\* An invocation that fails without having caught anything reports the error of
\* the frame whose failure unwound it, unless a contract put one into an event
\* of its own; one without a failed frame reports none.
ErrorIsTheCause ==
    phase = "events" /\ ~caught /\ trace # << >>
    /\ (\A n \in 1 .. Len(trace) : trace[n].type # "error_value") => ContractError = cause
=============================================================================
