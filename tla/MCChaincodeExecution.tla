------------------------ MODULE MCChaincodeExecution ------------------------
(* TLC instance of ChaincodeExecution.                                     *)
EXTENDS ChaincodeExecution
=============================================================================
