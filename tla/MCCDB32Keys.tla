---------------------------- MODULE MCCDB32Keys ----------------------------
(* Model values for CDB32Keys: keys of up to three bytes take two blocks,  *)
(* the second one not full; they may reach beyond the file.                *)
EXTENDS CDB32Keys

MCByte == {0, 1}
=============================================================================
