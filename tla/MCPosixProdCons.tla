--------------------------- MODULE MCPosixProdCons --------------------------
(* PosixProdCons on small instances; the sizes are scaled, the arithmetic is not. *)
EXTENDS PosixProdCons

\* 2^20 stands for 2^64: larger than any size the instances reach.
MCSizeMod == 1048576
=============================================================================
