---------------------------- MODULE MCBlockedView ----------------------------
(***************************************************************************)
(* A blocked view (BlockedView.tla) in small: blocks of four rows.          *)
(***************************************************************************)
EXTENDS BlockedView

MCRow == {0, 1}
=============================================================================
