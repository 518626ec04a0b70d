----------------------------- MODULE MCLogReader -----------------------------
(***************************************************************************)
(* ForeignLog on every file of a few physical records.                     *)
(***************************************************************************)
EXTENDS ForeignLog

MCByte == 1..(MaxUnits + 1)
==============================================================================
