-------------------------- MODULE ServerLifecycle --------------------------
(***************************************************************************)
(* The life of a server: create_server with its compensation and the       *)
(* background task that finalizes it, start and stop with the tasks that   *)
(* wait for Nova, delete_server with its two background tasks; the rows of *)
(* the server, of its network interface and of its root volume; the server *)
(* as Nova has it, its port in Neutron and its disk in Cinder.             *)
(*                                                                         *)
(* An action is what a request does from one await to the next, as in      *)
(* VolumeLifecycle, which has the data volumes of a server that is deleted.*)
(* Names, projects, permissions and flavors are left out, and so are the   *)
(* security groups of the port (SecurityGroups) and its floating IP        *)
(* (FloatingIps).  Nova changes a server only when it was asked to.        *)
(***************************************************************************)
EXTENDS Compensation

CONSTANTS
  Server,    \* primary keys of the server table, one Nova server each
  NoServer,  \* no server
  Request,   \* concurrent requests: each is a slot that serves many in turn
  MaxPolls,  \* MAX_CHECK_ATTEMPTS_FOR_..., one bound for every poll loop
  Operation, \* the endpoints that clients call
  Fault      \* what may go wrong besides the races

ASSUME ServersAssumption ==
  /\ NoServer \notin Server
  /\ MaxPolls \in Nat \ {0}
  /\ Operation \subseteq {"create", "start", "stop", "delete"}
  /\ Fault \subseteq {"refusal", "lost_answer", "database", "restart", "nova"}

VARIABLES
  row,      \* the server table
  nic,      \* deleted_at of the network_interface row of a server
  root,     \* the volume row of the root volume of a server
  nova,     \* external: the servers as Nova has them
  port,     \* external: the port of each server in Neutron
  disk,     \* external: the root volume of each server in Cinder
  request,  \* the suspended coroutines
  blurred,  \* history: servers a failure other than a timeout has hit
  unsure    \* history: servers a poll loop has given up on, or on which two
            \* starts or stops have crossed

tables == <<row, nic, root>>
openstack == <<nova, port, disk>>
vars == <<row, nic, root, nova, port, disk, request, blurred, unsure>>

---------------------------------------------------------------------------
(* Types and the initial states.                                           *)

ServerStatus == {"BUILD", "ACTIVE", "SHUTOFF", "ERROR", "DELETED"}

Row == [life : {"absent", "live", "deleted"}, status : ServerStatus]

\* `linked` stands for the server_id column.
RootRow == [life : {"absent", "live", "deleted"}, linked : BOOLEAN]

\* While a task runs Nova shows the status the server had before.
NovaServer ==
  [status : {"UNCREATED", "BUILD", "ACTIVE", "SHUTOFF", "ERROR", "GONE"},
   task   : {"none", "starting", "stopping", "deleting"}]

Location ==
  {"idle", "create_port", "create_nova", "insert", "rollback",
   "build_poll", "build_load", "build_save",
   "nova_start", "start_poll", "start_load", "start_save",
   "nova_stop", "stop_poll", "stop_load", "stop_save",
   "nova_delete", "remove_load", "remove_ports", "remove_save",
   "gone_load", "gone_poll", "gone_save", "root_load", "root_poll", "root_save"}

\* `loaded` is the status column when the entity was loaded, `nics` and `root`
\* say whether the session holds a live NIC and a linked root volume; `clean`
\* is history: the request has had its server to itself.
RequestState ==
  [at     : Location,
   srv    : Server \cup {NoServer},
   polls  : 0..(MaxPolls - 1),
   seen   : {"NOTHING", "TIMEOUT", "ACTIVE", "SHUTOFF", "ERROR"},
   loaded : ServerStatus \cup {"NOTHING"},
   nics   : BOOLEAN,
   root   : BOOLEAN,
   answer : BOOLEAN,
   tasks  : Seq({"delete_port", "delete_server"}),
   clean  : BOOLEAN]

Idle ==
  [at |-> "idle", srv |-> NoServer, polls |-> 0, seen |-> "NOTHING",
   loaded |-> "NOTHING", nics |-> FALSE, root |-> FALSE, answer |-> FALSE,
   tasks |-> <<>>, clean |-> FALSE]

TypeOK ==
  /\ row \in [Server -> Row]
  /\ nic \in [Server -> {"absent", "live", "deleted"}]
  /\ root \in [Server -> RootRow]
  /\ nova \in [Server -> NovaServer]
  /\ port \in [Server -> {"UNCREATED", "EXISTS", "GONE"}]
  /\ disk \in [Server -> {"UNCREATED", "EXISTS", "GONE"}]
  /\ request \in [Request -> RequestState]
  /\ blurred \subseteq Server
  /\ unsure \subseteq Server

Init ==
  /\ row = [s \in Server |-> [life |-> "absent", status |-> "BUILD"]]
  /\ nic = [s \in Server |-> "absent"]
  /\ root = [s \in Server |-> [life |-> "absent", linked |-> FALSE]]
  /\ nova = [s \in Server |-> [status |-> "UNCREATED", task |-> "none"]]
  /\ port = [s \in Server |-> "UNCREATED"]
  /\ disk = [s \in Server |-> "UNCREATED"]
  /\ request = [r \in Request |-> Idle]
  /\ blurred = {}
  /\ unsure = {}
---------------------------------------------------------------------------
(* Control of a request.                                                   *)

May(fault) == fault \in Fault

Become(r, state) == request' = [request EXCEPT ![r] = state]

Await(r, label) == Become(r, [request[r] EXCEPT !.at = label])

Finish(r) == Become(r, Idle)

Busy(s) == \E q \in Request : request[q].srv = s

\* A handler starts in an idle slot; the others lose the server to themselves.
Start(r, state) ==
  /\ request[r].at = "idle"
  /\ request' = [q \in Request |->
       IF q = r THEN [state EXCEPT !.clean = ~Busy(state.srv)]
       ELSE IF request[q].srv = state.srv THEN [request[q] EXCEPT !.clean = FALSE]
       ELSE request[q]]

\* An exception leaves the unit of work; the router of POST /servers undoes.
Raise(r) == IF request[r].tasks = <<>> THEN Finish(r) ELSE Await(r, "rollback")

Calm == UNCHANGED <<blurred, unsure>>

Blurs(r) == blurred' = blurred \cup {request[r].srv} /\ UNCHANGED unsure

LeavesUnsure(r) == unsure' = unsure \cup {request[r].srv} /\ UNCHANGED blurred

\* OpenStack has done what it was asked: the answer arrives, or is lost and
\* the request raises.
Answered(r, state) ==
  \/ Become(r, state) /\ Calm
  \/ May("lost_answer") /\ Raise(r) /\ Blurs(r)

\* A failure that ends the request and leaves what it has done half done.
Dies(r, fault) == May(fault) /\ Finish(r) /\ Blurs(r)

\* MUTANT  `range(MAX + 1)`
LastPollOneLater(r) == request[r].polls = MaxPolls

LastPoll(r) == request[r].polls + 1 = MaxPolls

PollAgain(r) ==
  /\ ~LastPoll(r)
  /\ Become(r, [request[r] EXCEPT !.polls = @ + 1])
  /\ Calm

\* find_by_id and find_by_openstack_id find live rows only.
Live(s) == row[s].life = "live"

\* _get_server_by_openstack_id, or ServerNotFoundException.
LoadLive(r, from, to) ==
  LET s == request[r].srv
  IN  /\ request[r].at = from
      /\ \/ Live(s) /\ Become(r, [request[r] EXCEPT !.at = to, !.loaded = row[s].status])
         \/ ~Live(s) /\ Finish(r)
      /\ Calm /\ UNCHANGED <<tables, openstack>>

\* The UPDATE of a commit names the columns whose value was changed.
Column(stored, loaded, current) == IF current = loaded THEN stored ELSE current

WithStatus(r, status) ==
  [row EXCEPT ![request[r].srv].status = Column(@, request[r].loaded, status)]

---------------------------------------------------------------------------
(* POST /servers, then its background task finalize_server_creation.       *)

CreateServer(r, s) ==
  /\ "create" \in Operation
  /\ row[s].life = "absent" /\ port[s] = "UNCREATED" /\ ~Busy(s)
  /\ Start(r, [Idle EXCEPT !.at = "create_port", !.srv = s])
  /\ Calm /\ UNCHANGED <<tables, openstack>>

CreatePort(r) ==
  LET q == request[r]
  IN  /\ q.at = "create_port"
      /\ \/ /\ port' = [port EXCEPT ![q.srv] = "EXISTS"]
            /\ Answered(r, [q EXCEPT !.at = "create_nova",
                                     !.tasks = AddTask(@, "delete_port")])
         \/ May("refusal") /\ Raise(r) /\ Calm /\ UNCHANGED port
      /\ UNCHANGED <<tables, nova, disk>>

\* MUTANT  the server is not undone
WithoutServerUndo(tasks) == tasks

WithServerUndo(tasks) == AddTask(tasks, "delete_server")

CreateInNova(r) ==
  LET q == request[r]
  IN  /\ q.at = "create_nova"
      /\ \/ /\ nova' = [nova EXCEPT ![q.srv].status = "BUILD"]
            /\ Answered(r, [q EXCEPT !.at = "insert", !.tasks = WithServerUndo(@)])
         \/ May("refusal") /\ Raise(r) /\ Calm /\ UNCHANGED nova
      /\ UNCHANGED <<tables, port, disk>>

\* The commit of create_server; the router queues finalize_server_creation.
InsertServer(r) ==
  LET q == request[r]
  IN  /\ q.at = "insert"
      /\ \/ /\ row' = [row EXCEPT ![q.srv] = [life |-> "live", status |-> "BUILD"]]
            /\ nic' = [nic EXCEPT ![q.srv] = "live"]
            /\ Become(r, [q EXCEPT !.at = "build_poll", !.tasks = <<>>])
         \/ May("database") /\ Raise(r) /\ UNCHANGED <<row, nic>>
      /\ Calm /\ UNCHANGED <<root, openstack>>

\* A server that is gone answers 404; any other takes the request.
Leaving(S) == [S EXCEPT !.task = "deleting"]

\* One undo, the latest first; what it raises is swallowed.
Undo(r) ==
  LET q == request[r]
      s == q.srv
      rest == WithoutLatest(q.tasks)
  IN  /\ q.at = "rollback"
      /\ Become(r, IF rest = <<>> THEN Idle ELSE [q EXCEPT !.tasks = rest])
      /\ \/ /\ IF LatestTask(q.tasks) = "delete_server"
                 THEN nova' = [nova EXCEPT ![s] = Leaving(@)] /\ UNCHANGED port
                 ELSE port' = [port EXCEPT ![s] = "GONE"] /\ UNCHANGED nova
            /\ Calm
         \/ May("refusal") /\ Blurs(r) /\ UNCHANGED <<nova, port>>
      /\ UNCHANGED <<tables, disk>>

\* MUTANT  the for-else branch logs and returns
AfterBuildTimeout(r) == Finish(r)

\* After the last attempt the creation has failed, like after an ERROR.
FromBuildTimeout(r) ==
  Become(r, [request[r] EXCEPT !.at = "build_load", !.seen = "TIMEOUT"])

\* get_server raises on the 404 of a server deleted meanwhile.
PollBuild(r) ==
  LET status == nova[request[r].srv].status
  IN  /\ request[r].at = "build_poll"
      /\ \/ status = "BUILD" /\ PollAgain(r)
         \/ status = "BUILD" /\ LastPoll(r) /\ FromBuildTimeout(r) /\ LeavesUnsure(r)
         \/ /\ status \notin {"BUILD", "GONE"}
            /\ Become(r, [request[r] EXCEPT !.at = "build_load", !.seen = status])
            /\ Calm
         \/ status = "GONE" /\ Finish(r) /\ Calm
      /\ UNCHANGED <<tables, openstack>>

LoadBuilt(r) == LoadLive(r, "build_load", "build_save")

\* On ACTIVE the root volume is inserted by the same commit.
SaveBuilt(r) ==
  LET q == request[r]
      built == q.seen = "ACTIVE"
  IN  /\ q.at = "build_save"
      /\ \/ /\ row' = WithStatus(r, IF built THEN "ACTIVE" ELSE "ERROR")
            /\ root' = IF built
                 THEN [root EXCEPT ![q.srv] = [life |-> "live", linked |-> TRUE]]
                 ELSE root
            /\ Finish(r) /\ Calm
         \/ Dies(r, "database") /\ UNCHANGED <<row, root>>
      /\ UNCHANGED <<nic, openstack>>

---------------------------------------------------------------------------
(* PUT /servers/{id}/status, then wait_until_server_started or _stopped.   *)

\* MUTANT  start takes what stop takes, failed servers included
ValidateStartableOrFailed(s) == row[s].status \in {"SHUTOFF", "ERROR"}

ValidateStartable(s) == row[s].status = "SHUTOFF"

ValidateStoppable(s) == row[s].status \in {"ACTIVE", "ERROR"}

StartServer(r, s) ==
  /\ "start" \in Operation
  /\ Live(s) /\ ValidateStartable(s)
  /\ Start(r, [Idle EXCEPT !.at = "nova_start", !.srv = s])
  /\ Calm /\ UNCHANGED <<tables, openstack>>

StopServer(r, s) ==
  /\ "stop" \in Operation
  /\ Live(s) /\ ValidateStoppable(s)
  /\ Start(r, [Idle EXCEPT !.at = "nova_stop", !.srv = s])
  /\ Calm /\ UNCHANGED <<tables, openstack>>

PowerTask ==
  {"start_poll", "start_load", "start_save", "stop_poll", "stop_load", "stop_save"}

\* Another request still waits for its start or stop of this server, or is
\* about to write what it has seen.
Crosses(r) ==
  \E q \in Request \ {r} :
    request[q].srv = request[r].srv /\ request[q].at \in PowerTask

\* MUTANT  the router returns before background_tasks.add_task
NotQueued(q, label) == Idle

\* The response is sent and the background task runs.
Queued(q, label) == [q EXCEPT !.at = label]

\* The action of Nova, which it refuses while another one runs.  The row was
\* checked before: Nova may have been started and stopped again since.
PowerCall(r, from, statuses, task, to) ==
  LET q == request[r]
      takes == nova[q.srv].status \in statuses /\ nova[q.srv].task = "none"
  IN  /\ q.at = from
      /\ \/ /\ takes
            /\ nova' = [nova EXCEPT ![q.srv].task = task]
            /\ \/ /\ Become(r, Queued(q, to))
                  /\ IF Crosses(r) THEN LeavesUnsure(r) ELSE Calm
               \/ Dies(r, "lost_answer")
         \/ (~takes \/ May("refusal")) /\ Finish(r) /\ Calm /\ UNCHANGED nova
      /\ UNCHANGED <<tables, port, disk>>

NovaStart(r) == PowerCall(r, "nova_start", {"SHUTOFF"}, "starting", "start_poll")

NovaStop(r) == PowerCall(r, "nova_stop", {"ACTIVE", "ERROR"}, "stopping", "stop_poll")

\* Waits while the status is in `pending`.  Any status but `wanted` returns
\* False and so do the attempts that run out: the row stays as it is.
PollPower(r, from, pending, wanted, to) ==
  LET status == nova[request[r].srv].status
  IN  /\ request[r].at = from
      /\ \/ status \in pending /\ PollAgain(r)
         \/ status \in pending /\ LastPoll(r) /\ Finish(r) /\ LeavesUnsure(r)
         \/ status = wanted /\ Await(r, to) /\ Calm
         \/ status \notin pending \cup {wanted, "GONE"} /\ Finish(r) /\ LeavesUnsure(r)
         \/ status = "GONE" /\ Finish(r) /\ Calm
      /\ UNCHANGED <<tables, openstack>>

PollStart(r) == PollPower(r, "start_poll", {"SHUTOFF", "ERROR"}, "ACTIVE", "start_load")

\* A failed server that is being stopped is seen as ERROR: the loop is left.
PollStop(r) == PollPower(r, "stop_poll", {"ACTIVE"}, "SHUTOFF", "stop_load")

LoadStarted(r) == LoadLive(r, "start_load", "start_save")

LoadStopped(r) == LoadLive(r, "stop_load", "stop_save")

SavePower(r, from, status) ==
  /\ request[r].at = from
  /\ \/ row' = WithStatus(r, status) /\ Finish(r) /\ Calm
     \/ Dies(r, "database") /\ UNCHANGED row
  /\ UNCHANGED <<nic, root, openstack>>

SaveStarted(r) == SavePower(r, "start_save", "ACTIVE")

SaveStopped(r) == SavePower(r, "stop_save", "SHUTOFF")

---------------------------------------------------------------------------
(* DELETE /servers/{id}, then its two background tasks, in order: the      *)
(* second one runs only when the first did not raise.                      *)

\* MUTANT  the answer of delete_server carries no volume id
NoRootInAnswer(s) == FALSE

\* server.volumes has no deleted_at filter.
RootInAnswer(s) == root[s].linked

\* No status is checked.
DeleteServer(r, s) ==
  /\ "delete" \in Operation
  /\ Live(s)
  /\ Start(r, [Idle EXCEPT !.at = "nova_delete", !.srv = s, !.answer = RootInAnswer(s)])
  /\ Calm /\ UNCHANGED <<tables, openstack>>

NovaDelete(r) ==
  LET q == request[r]
      found == nova[q.srv].status # "GONE"
  IN  /\ q.at = "nova_delete"
      /\ \/ /\ found
            /\ nova' = [nova EXCEPT ![q.srv] = Leaving(@)]
            /\ Answered(r, [q EXCEPT !.at = "remove_load"])
         \/ (~found \/ May("refusal")) /\ Finish(r) /\ Calm /\ UNCHANGED nova
      /\ UNCHANGED <<tables, port, disk>>

\* _remove_server_resources: the volumes linked to the server, and of the NICs
\* in the answer those still live.
LoadResources(r) ==
  LET q == request[r]
  IN  /\ q.at = "remove_load"
      /\ \/ /\ Live(q.srv)
            /\ Become(r, [q EXCEPT !.at = "remove_ports",
                                   !.nics = nic[q.srv] = "live",
                                   !.root = root[q.srv].linked])
         \/ ~Live(q.srv) /\ Finish(r)
      /\ Calm /\ UNCHANGED <<tables, openstack>>

\* MUTANT  gather(..., return_exceptions=True)
PortFailureIgnored(r) == Await(r, "remove_save") /\ Calm

PortFailure(r) == Finish(r) /\ Blurs(r)

\* The gather of the port deletions.  A port that is gone answers 404.
RemovePorts(r) ==
  LET q == request[r]
      s == q.srv
  IN  /\ q.at = "remove_ports"
      /\ \/ ~q.nics /\ Await(r, "remove_save") /\ Calm /\ UNCHANGED port
         \/ /\ q.nics /\ port[s] = "EXISTS"
            /\ port' = [port EXCEPT ![s] = "GONE"]
            /\ Answered(r, [q EXCEPT !.at = "remove_save"])
         \/ q.nics /\ port[s] = "GONE" /\ Finish(r) /\ Calm /\ UNCHANGED port
         \/ q.nics /\ May("refusal") /\ PortFailure(r) /\ UNCHANGED port
      /\ UNCHANGED <<tables, nova, disk>>

SaveResources(r) ==
  LET q == request[r]
  IN  /\ q.at = "remove_save"
      /\ \/ /\ nic' = IF q.nics THEN [nic EXCEPT ![q.srv] = "deleted"] ELSE nic
            /\ root' = IF q.root THEN [root EXCEPT ![q.srv].linked = FALSE] ELSE root
            /\ Await(r, "gone_load") /\ Calm
         \/ Dies(r, "database") /\ UNCHANGED <<nic, root>>
      /\ UNCHANGED <<row, openstack>>

\* _wait_server_until_deleted_and_finalize, a unit of work of its own.
LoadLeaving(r) == LoadLive(r, "gone_load", "gone_poll")

PollServerGone(r) ==
  LET gone == nova[request[r].srv].status = "GONE"
  IN  /\ request[r].at = "gone_poll"
      /\ \/ gone /\ Become(r, [request[r] EXCEPT !.at = "gone_save", !.polls = 0]) /\ Calm
         \/ ~gone /\ PollAgain(r)
         \/ ~gone /\ LastPoll(r) /\ Finish(r) /\ LeavesUnsure(r)
      /\ UNCHANGED <<tables, openstack>>

SaveServerGone(r) ==
  /\ request[r].at = "gone_save"
  /\ \/ /\ row' = [row EXCEPT ![request[r].srv] = [life |-> "deleted", status |-> "DELETED"]]
        /\ Await(r, "root_load") /\ Calm
     \/ Dies(r, "database") /\ UNCHANGED row
  /\ UNCHANGED <<nic, root, openstack>>

\* wait_volume_until_deleted_and_finalize: find_by_id(None) finds nothing.
LoadRoot(r) ==
  LET found == request[r].answer /\ root[request[r].srv].life = "live"
  IN  /\ request[r].at = "root_load"
      /\ \/ found /\ Await(r, "root_poll")
         \/ ~found /\ Finish(r)
      /\ Calm /\ UNCHANGED <<tables, openstack>>

PollRootGone(r) ==
  LET gone == disk[request[r].srv] = "GONE"
  IN  /\ request[r].at = "root_poll"
      /\ \/ gone /\ Await(r, "root_save") /\ Calm
         \/ ~gone /\ PollAgain(r)
         \/ ~gone /\ LastPoll(r) /\ Finish(r) /\ LeavesUnsure(r)
      /\ UNCHANGED <<tables, openstack>>

SaveRootGone(r) ==
  /\ request[r].at = "root_save"
  /\ \/ root' = [root EXCEPT ![request[r].srv].life = "deleted"] /\ Finish(r) /\ Calm
     \/ Dies(r, "database") /\ UNCHANGED root
  /\ UNCHANGED <<row, nic, openstack>>

---------------------------------------------------------------------------
(* Failures, and what OpenStack does on its own.                           *)

\* A GET of a poll loop fails, or the refresh of the system token has not
\* succeeded yet: the task raises.
PollFails(r) ==
  /\ request[r].at \in {"build_poll", "start_poll", "stop_poll", "gone_poll", "root_poll"}
  /\ Dies(r, "refusal")
  /\ UNCHANGED <<tables, openstack>>

\* The process stops and starts again: no request and no task survives.
Restart ==
  /\ May("restart")
  /\ \E r \in Request : request[r].at # "idle"
  /\ request' = [r \in Request |-> Idle]
  /\ blurred' = blurred \cup {s \in Server : Busy(s)}
  /\ UNCHANGED <<tables, openstack, unsure>>

\* What a server may come to be when Nova does what it was asked.
Outcomes(S) ==
  CASE S.task = "starting" -> {"ACTIVE"}
    [] S.task = "stopping" -> {"SHUTOFF"}
    [] S.task = "deleting" -> {"GONE"}
    [] S.task = "none"     -> IF S.status = "BUILD" THEN {"ACTIVE", "ERROR"} ELSE {}

\* A server that runs has been given its disk.
NovaCompletes(s) ==
  \E status \in Outcomes(nova[s]) :
    /\ nova' = [nova EXCEPT ![s] = [status |-> status, task |-> "none"]]
    /\ disk' = IF nova[s].status = "BUILD" /\ status = "ACTIVE"
                 THEN [disk EXCEPT ![s] = "EXISTS"] ELSE disk
    /\ Calm /\ UNCHANGED <<tables, port, request>>

\* Nova fails in what it was asked and nobody is told.
NovaFails(s) ==
  /\ May("nova")
  /\ nova[s].task # "none"
  /\ \E status \in {"ERROR", nova[s].status} :
       nova' = [nova EXCEPT ![s] = [status |-> status, task |-> "none"]]
  /\ blurred' = blurred \cup {s}
  /\ UNCHANGED <<tables, port, disk, request, unsure>>

\* delete_on_termination
DiskIsDeleted(s) ==
  /\ nova[s].status = "GONE" /\ disk[s] = "EXISTS"
  /\ disk' = [disk EXCEPT ![s] = "GONE"]
  /\ Calm /\ UNCHANGED <<tables, nova, port, request>>

---------------------------------------------------------------------------
(* The specification.                                                      *)

\* A client's request arrives.
Begin(r) ==
  \E s \in Server :
    CreateServer(r, s) \/ StartServer(r, s) \/ StopServer(r, s) \/ DeleteServer(r, s)

\* The event loop resumes a suspended request.
Resume(r) ==
  \/ CreatePort(r) \/ CreateInNova(r) \/ InsertServer(r) \/ Undo(r)
  \/ PollBuild(r) \/ LoadBuilt(r) \/ SaveBuilt(r)
  \/ NovaStart(r) \/ PollStart(r) \/ LoadStarted(r) \/ SaveStarted(r)
  \/ NovaStop(r) \/ PollStop(r) \/ LoadStopped(r) \/ SaveStopped(r)
  \/ NovaDelete(r) \/ LoadResources(r) \/ RemovePorts(r) \/ SaveResources(r)
  \/ LoadLeaving(r) \/ PollServerGone(r) \/ SaveServerGone(r)
  \/ LoadRoot(r) \/ PollRootGone(r) \/ SaveRootGone(r)

OpenStack ==
  \E s \in Server : NovaCompletes(s) \/ NovaFails(s) \/ DiskIsDeleted(s)

Next ==
  \/ \E r \in Request : Begin(r) \/ Resume(r) \/ PollFails(r)
  \/ Restart
  \/ OpenStack

Spec == Init /\ [][Next]_vars

\* The event loop resumes every coroutine whose await is over.  Nothing is
\* assumed of the clients or of OpenStack.
FairSpec == Spec /\ \A r \in Request : WF_vars(Resume(r))

---------------------------------------------------------------------------
(* Properties.                                                             *)

\* The status clients see: a deleted server is not found whatever its column.
Shown(s) ==
  CASE row[s].life = "absent"  -> "NONE"
    [] row[s].life = "deleted" -> "DELETED"
    [] OTHER                   -> row[s].status

Machine == INSTANCE ServerStatusMachine WITH shown <- [s \in Server |-> Shown(s)]

\* However late and stale the commits of the background tasks are, the status
\* of a server moves as the methods of entity.py let it: a failed creation
\* never becomes ACTIVE, no commit shows a deleted server again.
StatusMoves == Machine!Spec

\* A server row is marked deleted only after the server is gone from Nova, its
\* NIC row deleted and its port gone from Neutron, whatever else ran or failed.
DeletedServerLeavesNoPort ==
  \A s \in Server :
    row[s].life = "deleted" =>
      nova[s].status = "GONE" /\ nic[s] = "deleted" /\ port[s] = "GONE"

\* A creation that failed leaves no port and no server behind that nobody has
\* a row of, unless an answer was lost, an undo failed or the process stopped.
NothingIsOrphaned ==
  \A s \in Server :
    row[s].life = "absent" /\ ~Busy(s) /\ s \notin blurred =>
      /\ port[s] # "EXISTS"
      /\ nova[s].status \in {"UNCREATED", "GONE"} \/ nova[s].task = "deleting"

\* When no request works on a server its row shows the status Nova shows,
\* unless a failure hit a request on it (`blurred`), or a poll loop gave up or a
\* start and a stop crossed on it (`unsure`).
QuietRowsAgree ==
  \A s \in Server :
    Live(s) /\ ~Busy(s) /\ s \notin blurred \cup unsure =>
      row[s].status = nova[s].status

\* DELETE /servers/{id} that has the server to itself until its last background
\* task ends, no failure and no timeout included, leaves the server, its NIC
\* and its root volume deleted, in the database and in OpenStack.
LoneDeletionLeavesNothing ==
  [][\A r \in Request :
       LET s == request[r].srv
       IN  /\ request[r].at = "root_load" \/ request[r].at = "root_save"
           /\ request[r].clean /\ request'[r].at = "idle"
           /\ s \notin blurred' \cup unsure'
           => /\ row'[s].life = "deleted" /\ nic'[s] = "deleted"
              /\ root'[s].life # "live" /\ disk'[s] # "EXISTS"]_vars

\* A server does not stay BUILD: the task that finalizes its creation ends it
\* whatever Nova does, unless a failure ends the task or the server is deleted.
BuildResolves ==
  \A s \in Server :
    Live(s) /\ row[s].status = "BUILD"
      ~> \/ ~Live(s) \/ row[s].status # "BUILD"
         \/ s \in blurred \/ nova[s].status = "GONE"

---------------------------------------------------------------------------
(* The inductive invariant.                                                *)

\* The request makes its server, or takes it away again.
Making(q) == q.at \in {"create_port", "create_nova", "insert", "rollback"}

Building(q) == q.at \in {"build_poll", "build_load", "build_save"}

Starting(q) == q.at \in {"nova_start", "start_poll", "start_load", "start_save"}

Stopping(q) == q.at \in {"nova_stop", "stop_poll", "stop_load", "stop_save"}

OnePort == <<"delete_port">>

PortAndServer == <<"delete_port", "delete_server">>

\* The undo tasks of a request, by where it is.
WellFormed(q) ==
  /\ q.at = "idle" => q = Idle
  /\ q.at # "idle" => q.srv # NoServer
  /\ ~Making(q) \/ q.at = "create_port" => q.tasks = <<>>
  /\ q.at = "create_nova" => q.tasks = OnePort
  /\ q.at = "insert" => q.tasks = PortAndServer
  /\ q.at = "rollback" => q.tasks \in {OnePort, PortAndServer}

RequestsWellFormed == \A r \in Request : WellFormed(request[r])

\* A creation has its server to itself until the row is there; then one task
\* finalizes it.
MakersAreAlone ==
  \A r, p \in Request :
    r # p /\ request[r].srv # NoServer /\ request[r].srv = request[p].srv =>
      ~Making(request[r]) /\ ~(Building(request[r]) /\ Building(request[p]))

Unclaimed(S) == S.status \in {"UNCREATED", "GONE"} \/ S.task = "deleting"

\* What a creation knows of its server.
MakerKnows(q) ==
  /\ row[q.srv].life = "absent"
  /\ q.at = "create_port" => port[q.srv] = "UNCREATED"
  /\ q.at \in {"create_nova", "insert"} => port[q.srv] = "EXISTS"
  /\ q.at \in {"create_port", "create_nova"} => nova[q.srv].status = "UNCREATED"
  /\ q.tasks = PortAndServer =>
       nova[q.srv].status \in {"BUILD", "ACTIVE", "ERROR"} /\ nova[q.srv].task = "none"
  /\ q.at = "rollback" /\ q.tasks = OnePort /\ q.srv \notin blurred => Unclaimed(nova[q.srv])

\* The statuses that the row may have taken since the request checked it.
StatusAllows(q, status) ==
  /\ Building(q) => status = "BUILD"
  /\ Starting(q) => status \in {"ACTIVE", "SHUTOFF"}
  /\ Stopping(q) => status \in {"ACTIVE", "SHUTOFF", "ERROR"}

\* What any other request knows of its server.
UserKnows(q) ==
  /\ row[q.srv].life # "absent"
  /\ row[q.srv].life = "live" => StatusAllows(q, row[q.srv].status)
  /\ q.at = "build_save" => q.loaded = "BUILD"
  /\ q.at \in {"remove_ports", "remove_save"} /\ ~q.nics => nic[q.srv] = "deleted"
  /\ q.at = "remove_save" /\ q.nics => port[q.srv] = "GONE"
  /\ q.at \in {"gone_load", "gone_poll", "gone_save"} => nic[q.srv] = "deleted"
  /\ q.at = "gone_save" => nova[q.srv].status = "GONE"

RequestsKnow ==
  \A r \in Request :
    request[r].srv # NoServer =>
      IF Making(request[r]) THEN MakerKnows(request[r]) ELSE UserKnows(request[r])

\* The rows, the server of Nova and the port of server s.
ServerFits(s) ==
  /\ row[s].life = "absent" <=> nic[s] = "absent"
  /\ row[s].life = "live" => row[s].status # "DELETED"
  /\ row[s].life = "deleted" => nova[s].status = "GONE" /\ nic[s] = "deleted"
  /\ nic[s] = "deleted" => port[s] = "GONE"
  /\ port[s] = "UNCREATED" => nova[s].status = "UNCREATED"
  /\ nova[s].status = "UNCREATED" => row[s].life = "absent"
  /\ nova[s].status \in {"UNCREATED", "GONE"} => nova[s].task = "none"

ServersFit == \A s \in Server : ServerFits(s)

IndInv ==
  /\ TypeOK
  /\ RequestsWellFormed
  /\ MakersAreAlone
  /\ RequestsKnow
  /\ ServersFit
  /\ NothingIsOrphaned

\* No failure has hit a live server, and nobody has given up on it.
Sure(s) == Live(s) /\ s \notin blurred \cup unsure

Removing == {"remove_load", "remove_ports", "remove_save", "gone_load", "gone_poll", "gone_save"}

\* A deletion that Nova has taken or finished, whose port or NIC row is gone, is
\* in the hands of a request that will go on with it.
RemovalGoesOn(s) ==
  /\ nova[s].status = "GONE" \/ nova[s].task = "deleting"
       => \E q \in Request : request[q].srv = s /\ request[q].at \in Removing
  /\ port[s] = "GONE" /\ nic[s] = "live"
       => \E q \in Request :
            request[q].srv = s /\ request[q].at = "remove_save" /\ request[q].nics
  /\ nic[s] = "deleted"
       => \E q \in Request :
            request[q].srv = s /\ request[q].at \in {"gone_load", "gone_poll", "gone_save"}

\* The request is about to bring the row of its server up to date.
Tells(q) == Building(q) \/ q.at \in PowerTask

\* Nova has changed the server, or is about to, from `from` to `to`.
Turning(S, from, task, to) ==
  \/ S.status = from /\ S.task \in {task, "deleting"}
  \/ S.status = to /\ S.task \in {"none", "deleting"}
  \/ S.status = "GONE"

\* What a request that tells knows of the server it tells of.
TellsRight(q) ==
  LET S == nova[q.srv]
      R == row[q.srv]
  IN  /\ q.at = "build_poll" =>
           \/ S.status \in {"BUILD", "ACTIVE", "ERROR"} /\ S.task \in {"none", "deleting"}
           \/ S.status = "GONE"
      /\ q.at \in {"build_load", "build_save"} =>
           q.seen \in {"ACTIVE", "ERROR"} /\ Turning(S, q.seen, "none", q.seen)
      /\ q.at = "start_poll" =>
           R.status = "SHUTOFF" /\ Turning(S, "SHUTOFF", "starting", "ACTIVE")
      /\ q.at \in {"start_load", "start_save"} =>
           R.status = "SHUTOFF" /\ Turning(S, "ACTIVE", "none", "ACTIVE")
      /\ q.at = "stop_poll" =>
           R.status \in {"ACTIVE", "ERROR"} /\ Turning(S, R.status, "stopping", "SHUTOFF")
      /\ q.at \in {"stop_load", "stop_save"} =>
           R.status \in {"ACTIVE", "ERROR"} /\ Turning(S, "SHUTOFF", "none", "SHUTOFF")
      /\ q.at \in {"start_save", "stop_save"} => q.loaded = R.status

\* One request at a time tells of a server, and when none does there is nothing
\* to tell.
RowIsTold(s) ==
  /\ \A r, p \in Request :
       r # p /\ request[r].srv = s /\ request[p].srv = s
         => ~(Tells(request[r]) /\ Tells(request[p]))
  /\ \A r \in Request : request[r].srv = s => TellsRight(request[r])
  /\ (\A r \in Request : request[r].srv = s => ~Tells(request[r]))
       => \/ nova[s].status = "GONE"
          \/ /\ nova[s].status = row[s].status /\ row[s].status # "BUILD"
             /\ nova[s].task \in {"none", "deleting"}

\* Whatever OpenStack does with a server that is sure, a request is on its way to
\* tell the row of it: no start, stop, creation or deletion is forgotten.
ChangesAreTold == \A s \in Server : Sure(s) => RemovalGoesOn(s) /\ RowIsTold(s)

\* No other request is on the server of a request that has had it to itself.
CleanIsAlone ==
  \A r, p \in Request :
    r # p /\ request[r].clean => request[p].srv # request[r].srv

\* A disk comes with the first ACTIVE of a server and goes with the server; only
\* the deletion of a server unlinks a root volume that is still there.
DiskFits(s) ==
  /\ nova[s].status \in {"UNCREATED", "BUILD"} => disk[s] = "UNCREATED"
  /\ nova[s].status = "ERROR" /\ s \notin blurred => disk[s] # "EXISTS"
  /\ root[s].life = "live" /\ ~root[s].linked => nic[s] = "deleted"

\* The disk of a server that is sure has a row, or the request that finalizes the
\* creation of the server will write it.
DiskIsKnown(s) ==
  Sure(s) /\ disk[s] = "EXISTS" /\ nova[s].status # "GONE" =>
    \/ root[s].life = "live"
    \/ \E q \in Request : request[q].srv = s /\ Building(request[q])

DisksFit == \A s \in Server : DiskFits(s) /\ DiskIsKnown(s)

RootTask == {"root_load", "root_poll", "root_save"}

Deleting(q) == q.at \in {"nova_delete"} \cup Removing \cup RootTask

\* What the task that waits for the root volume knows, and what a deletion knows
\* that has its server to itself: the server is past its creation, the answer
\* has named the root volume if there is one, and the disk has a row.
DeletionKnows(q) ==
  /\ q.at \in RootTask => row[q.srv].life = "deleted"
  /\ q.at = "root_save" => disk[q.srv] = "GONE"
  /\ Deleting(q) /\ q.clean /\ q.srv \notin blurred \cup unsure =>
       /\ nova[q.srv].status # "BUILD"
       /\ root[q.srv].life = "live" => q.answer
       /\ disk[q.srv] = "EXISTS" => root[q.srv].life = "live"

DeletionsKnow == \A r \in Request : DeletionKnows(request[r])

DeletionInv == CleanIsAlone /\ DisksFit /\ DeletionsKnow

\* What the requests know of their servers fits the rows, Nova, Neutron and Cinder
\* in every state, and no change of a server is forgotten.
ServersInv == IndInv /\ ChangesAreTold /\ DeletionInv
=============================================================================
