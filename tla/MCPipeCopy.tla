----------------------------- MODULE MCPipeCopy -----------------------------
(* PipeCopy on three files of a few units. *)
EXTENDS PipeCopy

\* A chunk of three units is read in two parts, and so is a header with a chunk.
AnyText == {<<>>, <<"text">>, <<"text", "text", "text", "text">>,
            <<"END", "text">>, <<"text", "FILE", "text">>, <<"FILE", "text", "text", "text">>}
=============================================================================
