------------------------------ MODULE OrmSession ------------------------------
(***************************************************************************)
(* What an ORM session writes when it updates a row it loaded earlier.     *)
(* Sessions are made in app/db/session.py without version columns: nothing *)
(* detects that the row changed between the SELECT and the UPDATE.         *)
(***************************************************************************)

\* Mutant: the whole loaded row is written back.
WriteWholeRow(current, seen, new) == new

\* The UPDATE of a row that was loaded as `seen` and whose attributes now read
\* `new`: only columns that differ from what was loaded are written, the others
\* keep what other transactions put there meanwhile.
OrmUpdate(current, seen, new) ==
    [column \in DOMAIN current |->
        IF new[column] = seen[column] THEN current[column] ELSE new[column]]
=============================================================================
