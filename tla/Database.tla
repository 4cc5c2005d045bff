------------------------------ MODULE Database ------------------------------
(***************************************************************************)
(* The two databases the application opens (apps/web/runtime/database.ts). *)
(*                                                                         *)
(*   sqlite    one connection whose transactions run one at a time         *)
(*   postgres  a pool; each statement of a transaction sees the rows that  *)
(*             are committed before it (READ COMMITTED), an UPDATE locks   *)
(*             the rows it matches until its transaction ends, and a       *)
(*             unique index fails the later of two equal keys              *)
(*                                                                         *)
(* A handler is a request being served: it is idle, or its record says     *)
(* which operation it runs, how far it is and what it has read.            *)
(***************************************************************************)
CONSTANT Databases   \* the databases an instance is checked on

ASSUME DatabasesOK == Databases \subseteq {"sqlite", "postgres"}

VARIABLE database

Idle == [op |-> "idle"]

\* A transaction may begin: always in a pool, and on SQLite when none runs.
TransactionMayBeginBug(handlers) == TRUE
TransactionMayBegin(handlers) ==
  database = "sqlite" => \A h \in DOMAIN handlers : handlers[h] = Idle
=============================================================================
