------------------------------ MODULE MCIfxTx -------------------------------
(* Small values for IfxTx: a network whose priority fee does not round evenly. *)
EXTENDS IfxTx

MCSched == [sig |-> 1, cuLimit |-> 3, cuPrice |-> 500000, rent |-> 2, buffer |-> 0]
=============================================================================
