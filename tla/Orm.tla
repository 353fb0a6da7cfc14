-------------------------------- MODULE Orm --------------------------------
(***************************************************************************)
(* How SQLAlchemy's unit of work writes back a row that a handler has      *)
(* loaded and edited (backend/app/db/session.py: autoflush off, READ       *)
(* COMMITTED).  A row is a record of columns.                              *)
(***************************************************************************)

CONSTANT None   \* SQL NULL

\* Defect variant: the row is written back as it was loaded and edited.
OrmChanges_WholeRow(loaded, edited) == edited

\* What the unit of work writes at flush: the columns whose value is no longer
\* the loaded one.
OrmChanges(loaded, edited) ==
  [c \in {c \in DOMAIN loaded : edited[c] # loaded[c]} |-> edited[c]]

\* UPDATE ... SET changes WHERE id = ..., onto whatever the row holds by then.
OrmFlush(row, changes) ==
  [c \in DOMAIN row |-> IF c \in DOMAIN changes THEN changes[c] ELSE row[c]]

=============================================================================
