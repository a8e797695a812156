--------------------------------- MODULE Merge ---------------------------------
(***************************************************************************)
(* How a repository's save changes one column of a row.  Saving hands a    *)
(* detached copy of the row to SQLAlchemy's Session.merge, which reads the *)
(* row (the instance of the first read is gone by then) and marks the      *)
(* columns in which the copy differs from what it finds.  The UPDATE that  *)
(* follows names these columns only; another transaction may have written  *)
(* the row in between.                                                     *)
(***************************************************************************)

(* A column is marked when the copy differs from the row as it is now.     *)
Marked(column, copy, now) == IF copy # now THEN {column} ELSE {}

(* Its value after the UPDATE that names the columns in cols.              *)
Written(column, cols, copy, now) == IF column \in cols THEN copy ELSE now
=============================================================================
