----------------------------- MODULE MCVolRead -----------------------------
(***************************************************************************)
(* Sectors of one and of four bytes: every range of up to nine bytes from  *)
(* the first ten on, of windows that begin on a sector or inside one, on   *)
(* devices that hold the window or end inside it.                          *)
(***************************************************************************)
EXTENDS VolRead

MCStarts == 0..9
MCSizes == 0..9
=============================================================================
