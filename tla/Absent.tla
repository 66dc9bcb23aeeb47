------------------------------- MODULE Absent -------------------------------
(* The value of a field that holds null or undefined, shared by the modules that *)
(* are checked together.                                                         *)
CONSTANT None
=============================================================================
