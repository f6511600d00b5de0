------------------------------ MODULE MCJobControl ------------------------------
(* Small instances of JobControl for TLC. *)
EXTENDS JobControl
===============================================================================
