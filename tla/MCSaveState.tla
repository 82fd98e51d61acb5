---------------------------- MODULE MCSaveState ----------------------------
(***************************************************************************)
(* The machine runs up to twice between saves and two restores, so that    *)
(* what is saved, what was there before and what a restore leaves differ.  *)
(* MCAllMembers.cfg looks at the members no stream holds.                  *)
(***************************************************************************)
EXTENDS SaveState
=============================================================================
