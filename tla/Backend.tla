------------------------------- MODULE Backend -------------------------------
(***************************************************************************)
(* What the modules of the request handlers share.  A handler runs in one  *)
(* database session (backend/app/core/database.py, get_db): it reads       *)
(* committed rows, and what it wrote is seen by others when get_db         *)
(* commits.  Two statements that touch one row or one foreign key wait for *)
(* each other, so the last write of a handler and its commit are one       *)
(* action here wherever nothing outside the database happens in between.   *)
(* A handler that fails, or whose commit does, writes nothing.             *)
(***************************************************************************)
EXTENDS Naturals, FiniteSets

CONSTANT Nil   \* None, or NULL
===============================================================================
