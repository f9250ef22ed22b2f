--------------------------- MODULE VolumeEntity ---------------------------
(***************************************************************************)
(* The methods of common/domain/volume/entity.py, as predicates on an      *)
(* entity (the guards, which raise when they do not hold) and as functions *)
(* from an entity to the changed entity (the state changes).  An entity is *)
(* the in-memory image of a row; nothing here touches the database.        *)
(***************************************************************************)
EXTENDS OrmSession

Live(entity) == entity.life = "live"

\* ERROR_RESTORING and ERROR_EXTENDING, deletable too, are folded into ERROR.
DELETABLE_STATUSES == {"AVAILABLE", "ERROR"}

New(size) ==
  [life |-> "live", status |-> "CREATING", server |-> NoServer, size |-> size]

\* MUTANT  the check of `_server` is gone
ValidateDeletableByStatus(e) ==
  e.status \in DELETABLE_STATUSES /\ e.life # "deleted"

ValidateDeletable(e) ==
  /\ e.server = NoServer
  /\ e.status \in DELETABLE_STATUSES
  /\ e.life # "deleted"

ValidateResizable(e, size) ==
  /\ e.status = "AVAILABLE"
  /\ size > e.size

\* `_server` is not loaded: reading it is None for a NULL server_id, the server
\* when this session loaded that very server, and otherwise a lazy load that
\* raises.  Each of the last two ends the request.
ValidateNotAttached(e) ==
  /\ e.status # "IN_USE"
  /\ e.server = NoServer

ValidateServerMatch(e, s) == e.server = s

ValidateAttached(e) ==
  /\ e.status = "IN_USE"
  /\ e.server # NoServer

ValidateDetachable(e, isRoot) == ValidateAttached(e) /\ ~isRoot

UpdateStatus(e, status) == [e EXCEPT !.status = status]
PrepareForAttachment(e) == [e EXCEPT !.status = "ATTACHING"]
PrepareForDetachment(e) == [e EXCEPT !.status = "DETACHING"]
CompleteCreation(e)     == [e EXCEPT !.status = "AVAILABLE"]
FailCreation(e)         == [e EXCEPT !.status = "ERROR"]
FailAttachment(e)       == [e EXCEPT !.status = "ERROR"]
AttachToServer(e, s)    == [e EXCEPT !.status = "IN_USE", !.server = s]
\* MUTANT  the link is removed and the status is left
DetachKeepingStatus(e)  == [e EXCEPT !.server = NoServer]
DetachFromServer(e)     == [e EXCEPT !.status = "AVAILABLE", !.server = NoServer]
SoftDelete(e)           == [e EXCEPT !.life = "deleted"]
===========================================================================
