-------------------------- MODULE VolumeLifecycle --------------------------
(***************************************************************************)
(* The life of volumes: the volume service (create, resize, delete), the   *)
(* server service (attach, detach, delete server with its background       *)
(* tasks), the rows they keep in MySQL, and the Cinder volumes and Nova    *)
(* servers the rows are meant to describe.                                 *)
(*                                                                         *)
(* A request is one HTTP request with the background tasks queued by its   *)
(* router, run by one coroutine.  It is interleaved with the others at its *)
(* awaits: a select, a call to OpenStack, a commit.  An action is what a   *)
(* request does from one await to the next; `request[r].at` names the      *)
(* await it is suspended at.  The guards a request checks in memory are in *)
(* the action whose select loaded the entity; the write of a unit of work  *)
(* is at its commit, from entities that may be stale by then.              *)
(*                                                                         *)
(* Read-only endpoints, names and descriptions, projects and permissions,  *)
(* NIC rows and floating IPs are left out.                                 *)
(***************************************************************************)
EXTENDS VolumeEntity, FiniteSets

CONSTANTS
  Volume,      \* primary keys of the volume table, one Cinder volume each
  RootVolume,  \* the volumes a server boots from (is_root_volume)
  NoVolume,    \* volume_id None in the answer of delete_server
  Request,     \* concurrent requests: each is a slot that serves many in turn
  MaxPolls,    \* MAX_..._ATTEMPTS_FOR_..., one bound for every poll loop
  Operation,   \* the endpoints that clients call
  Faulty       \* may calls to OpenStack fail and the process restart?

ASSUME LifecycleAssumption ==
  /\ IsFiniteSet(Volume)
  /\ RootVolume \subseteq Volume
  /\ NoVolume \notin Volume
  /\ MaxPolls \in Nat \ {0}
  /\ Operation \subseteq
       {"create", "attach", "detach", "resize", "delete", "delete_server"}
  /\ Faulty \in BOOLEAN

VARIABLES
  row,        \* the volume table
  serverRow,  \* deleted_at of the server table: "live" or "deleted"
  cinder,     \* external: the volumes as Cinder has them
  nova,       \* external: the servers as Nova has them
  request,    \* the suspended coroutines
  accepted    \* history: the pairs <<v, s>> Nova ever accepted an attach for

vars == <<row, serverRow, cinder, nova, request, accepted>>

---------------------------------------------------------------------------
(* Types and the initial states.                                           *)

\* RESERVED is folded into ATTACHING and DOWNLOADING into CREATING: no poll
\* loop tells them apart.  A GET on the last two answers 404.
CinderStatus == VolumeStatus \cup {"UNCREATED", "GONE"}

CinderVolume == [status : CinderStatus,
                 host   : Server \cup {NoServer},
                 size   : 0..MaxSize,
                 target : 0..MaxSize]

Location ==
  {"idle", "insert", "sync", "sync_load", "sync_save",
   "nova_attach", "save_attaching", "attach_poll", "attach_load", "attach_save",
   "nova_detach", "detach_poll", "detach_load", "detach_save", "detach_outer",
   "extend", "extend_poll", "resize_save",
   "cinder_delete", "delete_poll", "delete_save",
   "nova_delete", "remove_load", "remove_ports", "remove_save",
   "gone_load", "gone_poll", "gone_save", "root_load", "root_poll", "root_save"}

NothingLoaded == [v \in Volume |-> AbsentRow]

Idle == [at |-> "idle", vol |-> NoVolume, srv |-> NoServer, size |-> 0,
         polls |-> 0, seen |-> "NOTHING", loaded |-> NothingLoaded]

RequestState ==
  [at     : Location,
   vol    : Volume \cup {NoVolume},
   srv    : Server \cup {NoServer},
   size   : 0..MaxSize,
   polls  : 0..(MaxPolls - 1),
   seen   : VolumeStatus \cup {"NOTHING", "TIMEOUT"},
   loaded : [Volume -> Row]]

TypeOK ==
  /\ row \in [Volume -> Row]
  /\ serverRow \in [Server -> {"live", "deleted"}]
  /\ cinder \in [Volume -> CinderVolume]
  /\ nova \in [Server -> {"EXISTS", "DELETING", "GONE"}]
  /\ request \in [Request -> RequestState]
  /\ accepted \subseteq Volume \X Server

Uncreated == [status |-> "UNCREATED", host |-> NoServer, size |-> 0, target |-> 0]

\* Servers run, each root volume sits on one of them as
\* finalize_server_creation leaves it, and some data volumes exist.
Init ==
  /\ \E existing \in SUBSET (Volume \ RootVolume), home \in [RootVolume -> Server] :
       /\ \A v, w \in RootVolume : home[v] = home[w] => v = w
       /\ row = [v \in Volume |->
            IF v \in RootVolume
              THEN [life |-> "live", status |-> "AVAILABLE", server |-> home[v], size |-> 1]
            ELSE IF v \in existing THEN CompleteCreation(New(1))
            ELSE AbsentRow]
       /\ cinder = [v \in Volume |->
            IF v \in RootVolume
              THEN [status |-> "IN_USE", host |-> home[v], size |-> 1, target |-> 1]
            ELSE IF v \in existing
              THEN [status |-> "AVAILABLE", host |-> NoServer, size |-> 1, target |-> 1]
            ELSE Uncreated]
  /\ serverRow = [s \in Server |-> "live"]
  /\ nova = [s \in Server |-> "EXISTS"]
  /\ request = [r \in Request |-> Idle]
  /\ accepted = {}

---------------------------------------------------------------------------
(* Control of a request.                                                   *)

\* The request returns or raises: its coroutine and its sessions are gone.
Finish(r) == request' = [request EXCEPT ![r] = Idle]

Await(r, label) == request' = [request EXCEPT ![r].at = label]

\* The rows of `vs` as the session's first select sees them.
Snapshot(vs) == [v \in Volume |-> IF v \in vs THEN row[v] ELSE AbsentRow]

Load(r, vs, label) ==
  request' = [request EXCEPT ![r].at = label, ![r].loaded = Snapshot(vs)]

\* The request handler starts in an idle slot with the rows `vs` loaded.
Start(r, v, s, size, vs, label) ==
  /\ request[r].at = "idle"
  /\ request' = [request EXCEPT ![r] =
       [Idle EXCEPT !.at = label, !.vol = v, !.srv = s, !.size = size,
                    !.loaded = Snapshot(vs)]]

Entity(r) == request[r].loaded[request[r].vol]

\* Commit of a session in which the request's volume became `entity`.
Save(r, entity) ==
  LET v == request[r].vol
  IN  row' = [row EXCEPT ![v] = Flush(row[v], Entity(r), entity)]

\* After the commit the request goes on to `label` with a fresh poll loop.
Continue(r, label) ==
  request' = [request EXCEPT ![r].at = label, ![r].polls = 0,
                             ![r].seen = "NOTHING", ![r].loaded = NothingLoaded]

LastPoll(r) == request[r].polls + 1 = MaxPolls

\* MUTANT  a `while True` loop in place of `for _ in range(MAX)`
PollAgainForever(r) == UNCHANGED request

PollAgain(r) ==
  /\ ~LastPoll(r)
  /\ request' = [request EXCEPT ![r].polls = @ + 1]

\* The loop is left with the status that decides what to write.
Observe(r, status, label) ==
  request' = [request EXCEPT ![r].at = label, ![r].seen = status]

CinderStatusOf(r) == cinder[request[r].vol].status

\* GET on the request's volume finds it; otherwise get_volume raises on 404.
CinderKnows(r) == CinderStatusOf(r) \in VolumeStatus

\* One turn of a poll loop: wait while the status is in `pending`, leave with
\* "TIMEOUT" from the last attempt, or with the first other status.
Poll(r, pending, label) ==
  /\ \/ CinderStatusOf(r) \in pending /\ PollAgain(r)
     \/ CinderStatusOf(r) \in pending /\ LastPoll(r) /\ Observe(r, "TIMEOUT", label)
     \/ CinderKnows(r) /\ CinderStatusOf(r) \notin pending
        /\ Observe(r, CinderStatusOf(r), label)
     \/ ~CinderKnows(r) /\ Finish(r)
  /\ UNCHANGED <<row, serverRow, cinder, nova, accepted>>

\* A call that OpenStack carried out: the answer arrives, or is lost (a read
\* timeout, a 5xx of a proxy) and the handler raises.
Answered(r, label) == Await(r, label) \/ (Faulty /\ Finish(r))

---------------------------------------------------------------------------
(* POST /volumes, then its background task.                                *)

\* create_volume up to the answer of Cinder.
CreateVolume(r, v, size) ==
  /\ "create" \in Operation
  /\ row[v].life = "absent" /\ cinder[v].status = "UNCREATED"
  /\ cinder' = [cinder EXCEPT ![v] =
       [status |-> "CREATING", host |-> NoServer, size |-> size, target |-> size]]
  /\ Start(r, v, NoServer, size, {}, "insert")
  /\ UNCHANGED <<row, serverRow, nova, accepted>>

\* The INSERT commits; the router queues sync_creating_volume_until_available.
InsertVolume(r) ==
  /\ request[r].at = "insert"
  /\ row' = [row EXCEPT ![request[r].vol] = New(request[r].size)]
  /\ Continue(r, "sync")
  /\ UNCHANGED <<serverRow, cinder, nova, accepted>>

PollCreation(r) ==
  /\ request[r].at = "sync"
  /\ Poll(r, {"CREATING"}, "sync_load")

\* _get_volume_by_openstack_id, in a session whose first statement this is.
LoadCreated(r) ==
  /\ request[r].at = "sync_load"
  /\ \/ Live(row[request[r].vol]) /\ Load(r, {request[r].vol}, "sync_save")
     \/ ~Live(row[request[r].vol]) /\ Finish(r)
  /\ UNCHANGED <<row, serverRow, cinder, nova, accepted>>

\* MUTANT  the for-else branch logs and forgets fail_creation
CreatedOnlyIfAnswered(e, seen) ==
  IF seen = "AVAILABLE" THEN CompleteCreation(e)
  ELSE IF seen = "TIMEOUT" THEN e
  ELSE FailCreation(e)

Created(e, seen) ==
  IF seen = "AVAILABLE" THEN CompleteCreation(e) ELSE FailCreation(e)

SaveCreated(r) ==
  /\ request[r].at = "sync_save"
  /\ Save(r, Created(Entity(r), request[r].seen))
  /\ Finish(r)
  /\ UNCHANGED <<serverRow, cinder, nova, accepted>>

---------------------------------------------------------------------------
(* POST /servers/{id}/volumes/{id}: two units of work, one after the other. *)

\* _initiate_volume_attachment up to the call of Nova.
AttachVolume(r, v, s) ==
  /\ "attach" \in Operation
  /\ serverRow[s] = "live" /\ Live(row[v])
  /\ ValidateNotAttached(row[v])
  /\ Start(r, v, s, 0, {v}, "nova_attach")
  /\ UNCHANGED <<row, serverRow, cinder, nova, accepted>>

\* MUTANT  an OpenStackException of the attach call is caught and forgotten
NovaAttachSwallowed(r) ==
  LET v == request[r].vol
      s == request[r].srv
  IN  /\ request[r].at = "nova_attach"
      /\ IF cinder[v].status = "AVAILABLE" /\ nova[s] = "EXISTS"
           THEN /\ cinder' = [cinder EXCEPT ![v].status = "ATTACHING", ![v].host = s]
                /\ accepted' = accepted \cup {<<v, s>>}
           ELSE UNCHANGED <<cinder, accepted>>
      /\ Await(r, "save_attaching")
      /\ UNCHANGED <<row, serverRow, nova>>

\* Nova takes the request when the volume is free; a refusal raises.
NovaAttach(r) ==
  LET v == request[r].vol
      s == request[r].srv
      takes == cinder[v].status = "AVAILABLE" /\ nova[s] = "EXISTS"
  IN  /\ request[r].at = "nova_attach"
      /\ \/ /\ takes
            /\ cinder' = [cinder EXCEPT ![v].status = "ATTACHING", ![v].host = s]
            /\ accepted' = accepted \cup {<<v, s>>}
            /\ Answered(r, "save_attaching")
         \/ /\ ~takes
            /\ Finish(r)
            /\ UNCHANGED <<cinder, accepted>>
      /\ UNCHANGED <<row, serverRow, nova>>

SaveAttaching(r) ==
  /\ request[r].at = "save_attaching"
  /\ Save(r, PrepareForAttachment(Entity(r)))
  /\ Continue(r, "attach_poll")
  /\ UNCHANGED <<serverRow, cinder, nova, accepted>>

PollAttachment(r) ==
  /\ request[r].at = "attach_poll"
  /\ Poll(r, {"ATTACHING"}, "attach_load")

\* On IN_USE the server is looked up too and attach_to_server checks again.
CanFinalizeAttachment(r) ==
  LET e == row[request[r].vol]
  IN  /\ Live(e)
      /\ request[r].seen = "IN_USE" =>
           serverRow[request[r].srv] = "live" /\ ValidateNotAttached(e)

LoadAttached(r) ==
  /\ request[r].at = "attach_load"
  /\ \/ CanFinalizeAttachment(r) /\ Load(r, {request[r].vol}, "attach_save")
     \/ ~CanFinalizeAttachment(r) /\ Finish(r)
  /\ UNCHANGED <<row, serverRow, cinder, nova, accepted>>

Attached(e, seen, s) ==
  CASE seen = "IN_USE"  -> AttachToServer(e, s)
    [] seen = "TIMEOUT" -> FailAttachment(e)
    [] OTHER            -> UpdateStatus(e, seen)

SaveAttached(r) ==
  /\ request[r].at = "attach_save"
  /\ Save(r, Attached(Entity(r), request[r].seen, request[r].srv))
  /\ Finish(r)
  /\ UNCHANGED <<serverRow, cinder, nova, accepted>>

---------------------------------------------------------------------------
(* DELETE /servers/{id}/volumes/{id}: detach_volume_from_server opens one  *)
(* session, which _initiate_volume_detachment joins; the wrapper of that   *)
(* call clears the context variable, so that                               *)
(* _wait_until_volume_detachment_and_finalize opens and commits a second   *)
(* session while the first is still to be committed (TransactionScope).    *)

DetachVolume(r, v, s) ==
  /\ "detach" \in Operation
  /\ Live(row[v]) /\ serverRow[s] = "live"
  /\ ValidateServerMatch(row[v], s)
  /\ ValidateDetachable(row[v], v \in RootVolume)
  /\ Start(r, v, s, 0, {v}, "nova_detach")
  /\ UNCHANGED <<row, serverRow, cinder, nova, accepted>>

NovaDetach(r) ==
  LET v == request[r].vol
      takes == cinder[v].status = "IN_USE" /\ cinder[v].host = request[r].srv
  IN  /\ request[r].at = "nova_detach"
      /\ \/ /\ takes
            /\ cinder' = [cinder EXCEPT ![v].status = "DETACHING"]
            /\ Answered(r, "detach_poll")
         \/ ~takes /\ Finish(r) /\ UNCHANGED cinder
      /\ UNCHANGED <<row, serverRow, nova, accepted>>

Detached(status) == status = "AVAILABLE"

DetachPending(status) == status \in {"IN_USE", "DETACHING"} /\ ~Detached(status)

\* The last attempt returns False and detach_volume_from_server raises.
PollDetachment(r) ==
  /\ request[r].at = "detach_poll"
  /\ \/ DetachPending(CinderStatusOf(r)) /\ PollAgain(r)
     \/ DetachPending(CinderStatusOf(r)) /\ LastPoll(r) /\ Finish(r)
     \/ /\ CinderKnows(r) /\ ~DetachPending(CinderStatusOf(r))
        /\ Observe(r, CinderStatusOf(r), "detach_load")
     \/ ~CinderKnows(r) /\ Finish(r)
  /\ UNCHANGED <<row, serverRow, cinder, nova, accepted>>

LoadDetached(r) ==
  /\ request[r].at = "detach_load"
  /\ \/ Live(row[request[r].vol]) /\ Load(r, {request[r].vol}, "detach_save")
     \/ ~Live(row[request[r].vol]) /\ Finish(r)
  /\ UNCHANGED <<row, serverRow, cinder, nova, accepted>>

\* Commit of the second session.  When the detachment failed the handler
\* raises next and the first session is rolled back.
SaveDetached(r) ==
  /\ request[r].at = "detach_save"
  /\ \/ /\ Detached(request[r].seen)
        /\ Save(r, DetachFromServer(Entity(r)))
        /\ Continue(r, "detach_outer")
     \/ /\ ~Detached(request[r].seen)
        /\ Save(r, UpdateStatus(Entity(r), request[r].seen))
        /\ Finish(r)
  /\ UNCHANGED <<serverRow, cinder, nova, accepted>>

\* Commit of the first session: it loaded IN_USE, its entity is DETACHING.
CommitDetachVolumeFromServer(r) ==
  /\ request[r].at = "detach_outer"
  /\ row' = [row EXCEPT ![request[r].vol] = PrepareForDetachment(@)]
  /\ Finish(r)
  /\ UNCHANGED <<serverRow, cinder, nova, accepted>>

---------------------------------------------------------------------------
(* PUT /volumes/{id}/size.                                                 *)

\* _prepare_volume_for_resize: its session is closed, the entity is detached.
ResizeVolume(r, v, size) ==
  /\ "resize" \in Operation
  /\ Live(row[v]) /\ ValidateResizable(row[v], size)
  /\ Start(r, v, NoServer, size, {v}, "extend")
  /\ UNCHANGED <<row, serverRow, cinder, nova, accepted>>

CinderExtend(r) ==
  LET v == request[r].vol
      takes == cinder[v].status = "AVAILABLE" /\ request[r].size > cinder[v].size
  IN  /\ request[r].at = "extend"
      /\ \/ /\ takes
            /\ cinder' = [cinder EXCEPT ![v].status = "EXTENDING",
                                        ![v].target = request[r].size]
            /\ Answered(r, "extend_poll")
         \/ ~takes /\ Finish(r) /\ UNCHANGED cinder
      /\ UNCHANGED <<row, serverRow, nova, accepted>>

\* MUTANT  the size Cinder reports is not compared with the target
ExtendedWhateverTheSize(c, size) == c.status = "AVAILABLE"

Extended(c, size) == c.status = "AVAILABLE" /\ c.size = size

PollResize(r) ==
  LET c == cinder[request[r].vol]
  IN  /\ request[r].at = "extend_poll"
      /\ \/ c.status = "EXTENDING" /\ PollAgain(r)
         \/ Extended(c, request[r].size) /\ Await(r, "resize_save")
         \/ c.status # "EXTENDING" /\ ~Extended(c, request[r].size) /\ Finish(r)
         \/ c.status = "EXTENDING" /\ LastPoll(r) /\ Finish(r)
      /\ UNCHANGED <<row, serverRow, cinder, nova, accepted>>

\* _resize_and_persist_volume: resize checks the entity again (it is the one
\* loaded first, so the checks pass) and changes it, but the entity belongs to
\* no session: this commit has nothing to write.
SaveResize(r) ==
  /\ request[r].at = "resize_save"
  /\ UNCHANGED row
  /\ Finish(r)
  /\ UNCHANGED <<serverRow, cinder, nova, accepted>>

---------------------------------------------------------------------------
(* DELETE /volumes/{id}: one unit of work around the whole poll loop.      *)

DeleteVolume(r, v) ==
  /\ "delete" \in Operation
  /\ Live(row[v]) /\ ValidateDeletable(row[v])
  /\ Start(r, v, NoServer, 0, {v}, "cinder_delete")
  /\ UNCHANGED <<row, serverRow, cinder, nova, accepted>>

CinderDelete(r) ==
  LET v == request[r].vol
      takes == cinder[v].status \in {"AVAILABLE", "ERROR"}
  IN  /\ request[r].at = "cinder_delete"
      /\ \/ /\ takes
            /\ cinder' = [cinder EXCEPT ![v].status = "DELETING"]
            /\ Answered(r, "delete_poll")
         \/ ~takes /\ Finish(r) /\ UNCHANGED cinder
      /\ UNCHANGED <<row, serverRow, nova, accepted>>

\* MUTANT  the for-else branch falls through to volume.delete()
GoneOrTimeout(r) == CinderStatusOf(r) = "GONE" \/ LastPoll(r)

\* exists_volume answered 404.
VolumeIsGone(r) == CinderStatusOf(r) = "GONE"

\* A loop that waits for the volume to vanish and raises when it does not.
PollUntilVolumeIsGone(r, label) ==
  /\ \/ VolumeIsGone(r) /\ Await(r, label)
     \/ ~VolumeIsGone(r) /\ PollAgain(r)
     \/ ~VolumeIsGone(r) /\ LastPoll(r) /\ Finish(r)
  /\ UNCHANGED <<row, serverRow, cinder, nova, accepted>>

PollDeletion(r) ==
  /\ request[r].at = "delete_poll"
  /\ PollUntilVolumeIsGone(r, "delete_save")

SaveDeletion(r) ==
  /\ request[r].at = "delete_save"
  /\ Save(r, SoftDelete(Entity(r)))
  /\ Finish(r)
  /\ UNCHANGED <<serverRow, cinder, nova, accepted>>

---------------------------------------------------------------------------
(* DELETE /servers/{id}, then its two background tasks, in order: the      *)
(* second one runs only when the first did not raise.                      *)

\* delete_server reads the server and its volumes.  No status is checked.
DeleteServer(r, s) ==
  LET roots == {v \in RootVolume : row[v].server = s}
  IN  /\ "delete_server" \in Operation
      /\ serverRow[s] = "live"
      /\ \E v \in IF roots = {} THEN {NoVolume} ELSE roots :
           Start(r, v, s, 0, {}, "nova_delete")
      /\ UNCHANGED <<row, serverRow, cinder, nova, accepted>>

NovaDelete(r) ==
  LET s == request[r].srv
  IN  /\ request[r].at = "nova_delete"
      /\ \/ /\ nova[s] # "GONE"
            /\ nova' = [nova EXCEPT ![s] = "DELETING"]
            /\ Answered(r, "remove_load")
         \/ nova[s] = "GONE" /\ Finish(r) /\ UNCHANGED nova
      /\ UNCHANGED <<row, serverRow, cinder, accepted>>

\* MUTANT  only the volumes shown as attached are released
InUseVolumesOf(s) == {v \in Volume : row[v].server = s /\ row[v].status = "IN_USE"}

VolumesOf(s) == {v \in Volume : row[v].server = s}

\* The volumes that the loop `for volume in volumes: volume.detach_from_server()`
\* reaches.  It walks the live list server._linked_volumes, from which the
\* back_populates of the two relationships takes each volume as it is detached, so
\* that the loop steps over the next one: the 1st, 3rd, 5th ... are reached.  The
\* select that fills the list has no ORDER BY.
EverySecond(vs) ==
  {ws \in SUBSET vs : 2 * Cardinality(ws) \in {Cardinality(vs), Cardinality(vs) + 1}}

\* _remove_server_resources: server.volumes has no deleted_at filter.  `loaded` is
\* what the session will write, the volumes the loop reaches; it read the others
\* too, but it changes nothing in them.
LoadServerResources(r) ==
  LET s == request[r].srv
  IN  /\ request[r].at = "remove_load"
      /\ \/ /\ serverRow[s] = "live"
            /\ \E reached \in EverySecond(VolumesOf(s)) : Load(r, reached, "remove_ports")
         \/ serverRow[s] # "live" /\ Finish(r)
      /\ UNCHANGED <<row, serverRow, cinder, nova, accepted>>

\* The Neutron calls of the gather.  The ports are gone when every call
\* succeeds; one failure raises and the session rolls back (CallFails).
RemovePorts(r) ==
  /\ request[r].at = "remove_ports"
  /\ Await(r, "remove_save")
  /\ UNCHANGED <<row, serverRow, cinder, nova, accepted>>

\* The commit: the volumes the loop reached are released, the others are left.
SaveServerResources(r) ==
  LET loaded == request[r].loaded
  IN  /\ request[r].at = "remove_save"
      /\ row' = [v \in Volume |->
           IF loaded[v] = AbsentRow
             THEN row[v]
             ELSE Flush(row[v], loaded[v], DetachFromServer(loaded[v]))]
      /\ Continue(r, "gone_load")
      /\ UNCHANGED <<serverRow, cinder, nova, accepted>>

LoadServerForDeletion(r) ==
  /\ request[r].at = "gone_load"
  /\ \/ serverRow[request[r].srv] = "live" /\ Await(r, "gone_poll")
     \/ serverRow[request[r].srv] # "live" /\ Finish(r)
  /\ UNCHANGED <<row, serverRow, cinder, nova, accepted>>

\* MUTANT  a server that is being deleted counts as deleted
ServerIsLeaving(s) == nova[s] # "EXISTS"

\* exists_server answered 404.
ServerIsGone(s) == nova[s] = "GONE"

PollServerDeletion(r) ==
  /\ request[r].at = "gone_poll"
  /\ \/ ServerIsGone(request[r].srv) /\ Await(r, "gone_save")
     \/ ~ServerIsGone(request[r].srv) /\ PollAgain(r)
     \/ ~ServerIsGone(request[r].srv) /\ LastPoll(r) /\ Finish(r)
  /\ UNCHANGED <<row, serverRow, cinder, nova, accepted>>

SaveServerDeletion(r) ==
  /\ request[r].at = "gone_save"
  /\ serverRow' = [serverRow EXCEPT ![request[r].srv] = "deleted"]
  /\ Continue(r, "root_load")
  /\ UNCHANGED <<row, cinder, nova, accepted>>

\* wait_volume_until_deleted_and_finalize: find_by_id(None) finds nothing.
LoadRootVolume(r) ==
  LET v == request[r].vol
      found == v # NoVolume /\ Live(row[v])
  IN  /\ request[r].at = "root_load"
      /\ \/ found /\ Load(r, {v}, "root_poll")
         \/ ~found /\ Finish(r)
      /\ UNCHANGED <<row, serverRow, cinder, nova, accepted>>

PollRootDeletion(r) ==
  /\ request[r].at = "root_poll"
  /\ PollUntilVolumeIsGone(r, "root_save")

SaveRootDeletion(r) ==
  /\ request[r].at = "root_save"
  /\ Save(r, SoftDelete(Entity(r)))
  /\ Finish(r)
  /\ UNCHANGED <<serverRow, cinder, nova, accepted>>

---------------------------------------------------------------------------
(* Failures, and what OpenStack does on its own.                           *)

\* The awaits that are calls to OpenStack.
Calling == {"sync", "nova_attach", "attach_poll", "nova_detach", "detach_poll",
            "extend", "extend_poll", "cinder_delete", "delete_poll",
            "nova_delete", "remove_ports", "gone_poll", "root_poll"}

\* The call fails without effect: OpenStackException or an httpx error ends
\* the request, the background tasks still queued included.
CallFails(r) ==
  /\ Faulty
  /\ request[r].at \in Calling
  /\ Finish(r)
  /\ UNCHANGED <<row, serverRow, cinder, nova, accepted>>

\* The process stops and starts again: no background task survives.
Restart ==
  /\ Faulty
  /\ \E r \in Request : request[r].at # "idle"
  /\ request' = [r \in Request |-> Idle]
  /\ UNCHANGED <<row, serverRow, cinder, nova, accepted>>

Becomes(c, status, host) == [c EXCEPT !.status = status, !.host = host]

\* What an asynchronous Cinder operation may end in.
Outcomes(c) ==
  CASE c.status = "CREATING"  -> {Becomes(c, s, NoServer) : s \in {"AVAILABLE", "ERROR"}}
    [] c.status = "ATTACHING" -> {Becomes(c, "IN_USE", c.host)}
                                 \cup {Becomes(c, s, NoServer) : s \in {"AVAILABLE", "ERROR"}}
    [] c.status = "DETACHING" -> {Becomes(c, "IN_USE", c.host)}
                                 \cup {Becomes(c, s, NoServer) : s \in {"AVAILABLE", "ERROR"}}
    [] c.status = "EXTENDING" -> {[c EXCEPT !.status = "AVAILABLE", !.size = c.target]}
                                 \cup {[c EXCEPT !.status = s, !.target = c.size] :
                                         s \in {"AVAILABLE", "ERROR"}}
    [] c.status = "DELETING"  -> {Becomes(c, s, NoServer) : s \in {"GONE", "ERROR"}}
    [] OTHER                  -> {}

CinderCompletes(v) ==
  /\ \E c \in Outcomes(cinder[v]) : cinder' = [cinder EXCEPT ![v] = c]
  /\ UNCHANGED <<row, serverRow, nova, request, accepted>>

\* Nova lets go of the volumes of a server it deletes; the root volume was
\* created with delete_on_termination.
NovaCompletesDeletion(s) ==
  /\ nova[s] = "DELETING"
  /\ nova' = [nova EXCEPT ![s] = "GONE"]
  /\ cinder' = [v \in Volume |->
       IF cinder[v].host # s THEN cinder[v]
       ELSE Becomes(cinder[v], IF v \in RootVolume THEN "DELETING" ELSE "AVAILABLE", NoServer)]
  /\ UNCHANGED <<row, serverRow, request, accepted>>

---------------------------------------------------------------------------
(* The specification.                                                      *)

\* A client's request arrives at the router of volumes.
VolumeRequest(r) ==
  \E v \in Volume :
    \/ \E size \in 1..MaxSize : CreateVolume(r, v, size) \/ ResizeVolume(r, v, size)
    \/ DeleteVolume(r, v)

\* A client's request arrives at the router of servers.
ServerRequest(r) ==
  \E s \in Server :
    \/ \E v \in Volume : AttachVolume(r, v, s) \/ DetachVolume(r, v, s)
    \/ DeleteServer(r, s)

Begin(r) == VolumeRequest(r) \/ ServerRequest(r)

\* The event loop resumes a suspended request.
Resume(r) ==
  \/ InsertVolume(r)  \/ PollCreation(r) \/ LoadCreated(r) \/ SaveCreated(r)
  \/ NovaAttach(r) \/ SaveAttaching(r)
  \/ PollAttachment(r) \/ LoadAttached(r) \/ SaveAttached(r)
  \/ NovaDetach(r) \/ PollDetachment(r) \/ LoadDetached(r)
  \/ SaveDetached(r) \/ CommitDetachVolumeFromServer(r)
  \/ CinderExtend(r) \/ PollResize(r) \/ SaveResize(r)
  \/ CinderDelete(r) \/ PollDeletion(r) \/ SaveDeletion(r)
  \/ NovaDelete(r) \/ LoadServerResources(r) \/ RemovePorts(r)
  \/ SaveServerResources(r)
  \/ LoadServerForDeletion(r) \/ PollServerDeletion(r) \/ SaveServerDeletion(r)
  \/ LoadRootVolume(r) \/ PollRootDeletion(r) \/ SaveRootDeletion(r)

OpenStack ==
  \/ \E v \in Volume : CinderCompletes(v)
  \/ \E s \in Server : NovaCompletesDeletion(s)

Next ==
  \/ \E r \in Request : Begin(r) \/ Resume(r) \/ CallFails(r)
  \/ Restart
  \/ OpenStack

Spec == Init /\ [][Next]_vars

\* The event loop resumes every coroutine whose await is over; every await is
\* over at some time (clients give up on a call after their timeout).  Nothing
\* is assumed of the clients, of Cinder or of Nova.
FairSpec == Spec /\ \A r \in Request : WF_vars(Resume(r))

---------------------------------------------------------------------------
(* Safety.                                                                 *)

\* delete_volume and wait_volume_until_deleted_and_finalize mark a volume
\* deleted only when Cinder has none under its id, whatever else is in flight.
DeletedVolumeIsGone ==
  \A v \in Volume : row[v].life = "deleted" => cinder[v].status = "GONE"

\* check_server_until_deleted_and_remove_resources marks a server deleted only
\* when Nova has none under its id.
DeletedServerIsGone ==
  \A s \in Server : serverRow[s] = "deleted" => nova[s] = "GONE"

\* The server_id of a data volume is never a server Nova did not accept an
\* attachment to: no failed or abandoned attach request leaves a trace in it.
AttachmentWasAccepted ==
  \A v \in Volume \ RootVolume :
    row[v].server # NoServer => <<v, row[v].server>> \in accepted

\* No commit, from however stale an entity, brings a deleted row back.
SoftDeleteIsFinal ==
  [][\A v \in Volume : row[v].life = "deleted" => row'[v].life = "deleted"]_row

\* A resize is reported as done only when Cinder has the volume at that size.
ResizeIsReal ==
  [][\A r \in Request :
       request[r].at = "resize_save" /\ request'[r].at = "idle"
         => cinder[request[r].vol].size >= request[r].size]_request

---------------------------------------------------------------------------
(* The inductive invariant: what the requests in flight know, and what     *)
(* stays true of it while others run.                                      *)

\* The awaits of DELETE /servers/{id}, up to the look at the root volume.
ServerDeletion ==
  {"nova_delete", "remove_load", "remove_ports", "remove_save",
   "gone_load", "gone_poll", "gone_save", "root_load"}

TargetIsKnown ==
  \A r \in Request :
    /\ request[r].at \notin ServerDeletion \cup {"idle"} => request[r].vol \in Volume
    /\ request[r].at \in ServerDeletion \cup {"nova_attach"} => request[r].srv \in Server

\* A poll loop hands the status it saw to the step that writes it.
StatusIsObserved ==
  \A r \in Request :
    /\ request[r].at \in {"attach_load", "attach_save"} => request[r].seen # "NOTHING"
    /\ request[r].at \in {"detach_load", "detach_save"} => request[r].seen \in VolumeStatus

\* A request that is about to mark something deleted has seen it gone, and gone
\* is for ever: no server deletion brings a volume back.
DeletionIsObserved ==
  /\ \A r \in Request :
       /\ request[r].at \in {"delete_save", "root_save"}
            => cinder[request[r].vol].status = "GONE"
       /\ request[r].at = "gone_save" => nova[request[r].srv] = "GONE"
  /\ \A v \in Volume : cinder[v].status = "GONE" => cinder[v].host = NoServer

\* From the answer of Nova to the last commit of an attach request.
AttachmentInFlight ==
  \A r \in Request :
    request[r].at \in {"save_attaching", "attach_poll", "attach_load", "attach_save"}
      => <<request[r].vol, request[r].srv>> \in accepted

\* Only the request that is about to insert a row knows its volume: the others
\* work on rows that are there.
InsertIsFirst ==
  /\ \A v \in Volume : row[v].life = "absent" => row[v].server = NoServer
  /\ \A r \in Request :
       LET v == request[r].vol
       IN  /\ request[r].at = "insert"
                => row[v].life = "absent" /\ cinder[v].status # "UNCREATED"
           /\ request[r].at \notin {"idle", "insert"} /\ v \in Volume
                => row[v].life # "absent"
           /\ \A w \in Volume :
                request[r].loaded[w] # AbsentRow => row[w].life # "absent"
  /\ \A r, q \in Request :
       request[r].at = "insert" /\ request[q].at = "insert"
         /\ request[r].vol = request[q].vol => r = q

\* Strong enough to be kept by every step; the theorems rest on it.
IndInv ==
  /\ TypeOK
  /\ TargetIsKnown
  /\ StatusIsObserved
  /\ DeletionIsObserved
  /\ DeletedVolumeIsGone
  /\ DeletedServerIsGone
  /\ AttachmentInFlight
  /\ AttachmentWasAccepted
  /\ InsertIsFirst

---------------------------------------------------------------------------
(* Liveness.                                                               *)

\* Every request returns or raises: no poll loop runs forever, whatever Cinder
\* and Nova do.
RequestsReturn ==
  \A r \in Request : request[r].at # "idle" ~> request[r].at = "idle"

\* Without failures, a volume does not stay CREATING.
CreationResolves ==
  \A v \in Volume :
    Live(row[v]) /\ row[v].status = "CREATING" ~> row[v].status # "CREATING"

---------------------------------------------------------------------------
(* What the documents say and the code does not do.                        *)

\* docs/sequence_diagram_resource.md:479: a detachment that succeeds leaves the
\* volume AVAILABLE and without a server.
DetachEndsAvailable ==
  [][\A r \in Request :
       LET v == request[r].vol
       IN  request[r].at = "detach_outer" /\ request'[r].at = "idle"
             => row'[v].status = "AVAILABLE"]_request

\* docs/sequence_diagram_resource.md:780: a resize that succeeds changes the
\* size in the database.
ResizeIsPersisted ==
  [][\A r \in Request :
       request[r].at = "resize_save" /\ request'[r].at = "idle"
         => row'[request[r].vol].size = request[r].size]_request

\* docs/sequence_diagram_resource.md:213: the data volumes of a deleted server
\* are detached.
DeletedServerHasNoVolumes ==
  \A v \in Volume \ RootVolume :
    row[v].server # NoServer => serverRow[row[v].server] = "live"

---------------------------------------------------------------------------
(* What the operations promise when the requests at work at one time are   *)
(* about different volumes and different servers.  Without that, each of   *)
(* the three can break.                                                    *)

Apart ==
  \A r, q \in Request : r # q =>
    /\ request[r].vol = request[q].vol => request[r].vol = NoVolume
    /\ request[r].srv = request[q].srv => request[r].srv = NoServer

\* A request arrives only about a volume and a server that nobody works on.
NextApart ==
  \/ \E r \in Request : (Begin(r) /\ Apart') \/ Resume(r) \/ CallFails(r)
  \/ Restart
  \/ OpenStack

SpecApart == Init /\ [][NextApart]_vars

\* A volume shown as IN_USE names the server that uses it: the two columns are
\* written by the same commits, but each commit writes the changed ones only.
InUseHasServer ==
  \A v \in Volume : row[v].status = "IN_USE" => row[v].server # NoServer

\* A deletion releases the first of the volumes it finds on the server and every
\* second one after it, whatever their status.  So no more than half of all volumes
\* can be left with the server_id of a server that is deleted: one of two, and none
\* when there is only one.
AtMostHalf(vs) == 2 * Cardinality(vs) <= Cardinality(Volume)
DeletedServerKeepsAtMostHalf ==
  \A s \in Server :
    serverRow[s] = "deleted" => AtMostHalf({v \in Volume : row[v].server = s})

\* docs/sequence_diagram_resource.md:789: a volume attached to a server cannot be
\* deleted.  It can after the server: a root volume that the release of
\* DELETE /servers/{id} stepped over is marked deleted with its server_id.
LiveServerHasLiveVolumes ==
  \A v \in Volume :
    row[v].server # NoServer /\ row[v].life = "deleted" => serverRow[row[v].server] = "deleted"

---------------------------------------------------------------------------
(* Why they hold: a request keeps the others away from the rows it works   *)
(* on, its volume and the volumes of its server, so what it loaded is what *)
(* its commit finds.                                                       *)

\* A resize is the exception: it may share the volume with the deletion of the
\* server the volume is on, which writes it.  But a resize writes nothing.
Resizing == {"extend", "extend_poll", "resize_save"}

\* Where the entity of the request's volume is held for a commit to come.
HoldsItsRow ==
  {"sync_save", "nova_attach", "save_attaching", "attach_save", "detach_save",
   "cinder_delete", "delete_poll", "delete_save", "root_poll", "root_save"}

LoadedIsStored ==
  \A r \in Request :
    LET q == request[r]
    IN  /\ q.at \in HoldsItsRow => q.loaded[q.vol] = row[q.vol]
        /\ \A v \in Volume :
             q.at \notin Resizing \cup {"idle"} /\ q.loaded[v] # AbsentRow
               => /\ q.loaded[v] = row[v]
                  /\ v # q.vol => q.srv # NoServer /\ row[v].server = q.srv

\* The volume of a request is free or on the server of that request; the deletion
\* of a volume finds it free, and that of a root volume finds its server deleted.
ServerOfItsVolume ==
  \A r \in Request :
    LET q == request[r]
    IN  q.vol \in Volume =>
          /\ q.at \notin Resizing \cup {"idle"} => row[q.vol].server \in {NoServer, q.srv}
          /\ q.at \in {"cinder_delete", "delete_poll", "delete_save"}
               => row[q.vol].server = NoServer
          /\ q.at \in {"root_load", "root_poll", "root_save"}
               => q.srv \in Server /\ serverRow[q.srv] = "deleted"
          /\ q.at \in {"nova_delete", "remove_load", "remove_ports", "remove_save"}
               => row[q.vol].server = q.srv

\* The deletion of a server is about to release, or has released, all but half of
\* its volumes; an attachment is finalised on a server and a volume that are still
\* there.
VolumesOfItsServer ==
  \A r \in Request :
    LET q == request[r]
        linked == {v \in Volume : row[v].server = q.srv}
    IN  /\ q.at \in {"remove_ports", "remove_save"} =>
             AtMostHalf({v \in linked : q.loaded[v] = AbsentRow})
        /\ q.at \in {"gone_load", "gone_poll", "gone_save"} => AtMostHalf(linked)
        /\ q.at = "attach_save" /\ q.seen = "IN_USE" =>
             serverRow[q.srv] = "live" /\ row[q.vol].life = "live"
        /\ q.at \in {"detach_load", "detach_save"} => q.seen # "IN_USE"

\* Kept, together with IndInv, by every step of SpecApart.
ApartInv ==
  /\ InUseHasServer
  /\ DeletedServerKeepsAtMostHalf
  /\ LiveServerHasLiveVolumes
  /\ LoadedIsStored
  /\ ServerOfItsVolume
  /\ VolumesOfItsServer

---------------------------------------------------------------------------
(* Why a resize is real, among any requests: Cinder's sizes only grow.     *)

SizesGrow ==
  /\ \A v \in Volume :
       /\ cinder[v].size <= cinder[v].target
       /\ cinder[v].status = "UNCREATED" => cinder[v].size = 0
  /\ \A r \in Request :
       request[r].at = "resize_save" => cinder[request[r].vol].size >= request[r].size
===========================================================================
