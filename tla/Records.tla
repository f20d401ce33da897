------------------------------ MODULE Records -------------------------------
(***************************************************************************)
(* What the modules of the record-keeping services share.                  *)
(***************************************************************************)
CONSTANT None   \* no row, no value: a nil pointer or the zero UUID
=============================================================================
