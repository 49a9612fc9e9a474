-------------------------- MODULE MCConnectorSync ---------------------------
(* ConnectorSync with interchangeable documents. *)
EXTENDS ConnectorSync

DocSymmetry == Permutations(Doc)
=============================================================================
