----------------------------- MODULE MCTcpFiles ------------------------------
(* Model-checking instance of TcpFiles.                                     *)
EXTENDS TcpFiles
CONSTANTS c1, c2
=============================================================================
