-------------------------- MODULE MCOperationFlow --------------------------
(* Small instances of OperationFlow: the requests an operator makes. *)
EXTENDS OperationFlow, TLC

\* The name of a request is what it asks for.
KindOfName == [r \in Requests |-> r]

TxSymmetry == Permutations(Txs)
=============================================================================
