---------------------------- MODULE OrmSession ----------------------------
(***************************************************************************)
(* What a SQLAlchemy session of common/infrastructure/database.py does to  *)
(* one row of the `volume` table.  The session maker turns autoflush off   *)
(* and expire_on_commit off, so a unit of work is: load entities once,     *)
(* change them in memory across any number of awaits, and write at commit. *)
(* The UPDATE of a commit names only the columns whose value differs from  *)
(* the value that was LOADED; every other column of the stored row, and    *)
(* whatever another transaction has put there since, is left alone.        *)
(* There is no version column on Volume, so nothing detects that the row   *)
(* moved between the load and the commit.                                  *)
(*                                                                         *)
(* The columns kept are the ones the services decide on.  `life` stands    *)
(* for the row's existence and its deleted_at column.                      *)
(***************************************************************************)
EXTENDS Naturals

CONSTANTS
  Server,     \* servers, the values of the server_id column
  NoServer,   \* NULL in the server_id column
  MaxSize     \* bound on volume sizes

ASSUME OrmAssumption == NoServer \notin Server /\ MaxSize \in Nat \ {0}

VolumeStatus ==
  {"CREATING", "AVAILABLE", "ATTACHING", "IN_USE", "DETACHING", "EXTENDING",
   "DELETING", "ERROR"}

Row == [life   : {"absent", "live", "deleted"},
        status : VolumeStatus,
        server : Server \cup {NoServer},
        size   : 0..MaxSize]

\* What a session holds for a row it has not loaded, and the content of a
\* primary key nothing was inserted under.
AbsentRow ==
  [life |-> "absent", status |-> "CREATING", server |-> NoServer, size |-> 0]

Column(stored, loaded, current) ==
  IF current = loaded THEN stored ELSE current

\* MUTANT  an UPDATE that names every column of a changed entity
FlushEveryColumn(stored, loaded, entity) ==
  IF entity = loaded THEN stored ELSE entity

\* The row after the flush of `entity`, which the session loaded as `loaded`.
Flush(stored, loaded, entity) ==
  [life   |-> Column(stored.life,   loaded.life,   entity.life),
   status |-> Column(stored.status, loaded.status, entity.status),
   server |-> Column(stored.server, loaded.server, entity.server),
   size   |-> Column(stored.size,   loaded.size,   entity.size)]
=============================================================================
