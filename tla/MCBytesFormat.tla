--------------------------- MODULE MCBytesFormat ----------------------------
(***************************************************************************)
(* Items of up to three bytes; one of three is always a memo, one of two  *)
(* from two rows on, so that items become memos, and stop to be,            *)
(* as rows come and go.  Strings end with a byte 0.                         *)
(***************************************************************************)
EXTENDS BytesFormat

MCValues == [t \in {"B", "S"} |-> IF t = "B" THEN {<< >>, <<1>>, <<2, 1>>}
                                  ELSE {<<0>>, <<2, 1, 0>>}]
MCParts  == {<<1>>}
=============================================================================
