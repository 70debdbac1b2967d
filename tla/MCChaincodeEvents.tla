------------------------- MODULE MCChaincodeEvents -------------------------
(* TLC instance of ChaincodeEvents.                                        *)
EXTENDS ChaincodeEvents
=============================================================================
