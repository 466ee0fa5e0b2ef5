------------------------------ MODULE MCLoader ------------------------------
(***************************************************************************)
(* Loader with the two programs of the Makefile behind a kernel of one     *)
(* sector, and one name that is not a program's.                           *)
(***************************************************************************)
EXTENDS Loader

MakefilePrograms == <<"task_a", "task_b">>
=============================================================================
