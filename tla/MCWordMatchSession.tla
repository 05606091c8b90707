------------------------ MODULE MCWordMatchSession ------------------------
(* Small instances of WordMatchSession: a window of six samples is the     *)
(* smallest in which one, two and no windows begin in the carried samples. *)
EXTENDS WordMatchSession
=============================================================================
