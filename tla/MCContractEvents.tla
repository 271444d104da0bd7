-------------------------- MODULE MCContractEvents --------------------------
(***************************************************************************)
(* Ledgers for ContractEvents: up to MaxTxs transactions, each unreadable, *)
(* without events, or with events in some of the lists and several in one. *)
(***************************************************************************)
EXTENDS ContractEvents

CONSTANT MaxTxs

Lists(d, a, b, t) ==
    << [stream |-> "diagnostic", op |-> 0, n |-> d],
       [stream |-> "operation", op |-> 0, n |-> a],
       [stream |-> "operation", op |-> 1, n |-> b],
       [stream |-> "transaction", op |-> 0, n |-> t] >>

MCTxs ==
    { [readable |-> FALSE, lists |-> << >>],
      [readable |-> TRUE, lists |-> << >>],
      [readable |-> TRUE, lists |-> Lists(1, 2, 0, 1)],
      [readable |-> TRUE, lists |-> Lists(2, 0, 1, 0)] }

MCLedgers == UNION { [1 .. k -> MCTxs] : k \in 0 .. MaxTxs }
=============================================================================
