---------------------------- MODULE FloatingIps ----------------------------
(***************************************************************************)
(* Floating IPs: the floating IP service (create, delete), the network     *)
(* interface service (attach, detach), what the deletion of a server does  *)
(* to its network interface and to the floating IP on it, the rows they    *)
(* write, and the floating IPs and ports of Neutron.                       *)
(*                                                                         *)
(* An action is what a request does from one await to the next.  The       *)
(* entities are loaded by the first select and written, in the columns     *)
(* that changed, by the commit at the end: there is no version column and  *)
(* no lock between them.  The status column is written by the same methods *)
(* and commits as network_interface_id, always with it, and is left out,   *)
(* as are projects, permissions and addresses.                             *)
(***************************************************************************)
EXTENDS Compensation

CONSTANTS
  Ip,        \* primary keys of floating_ip, one floating IP of Neutron each
  Nic,       \* the network interfaces of running servers, one port each
  None,      \* NULL, no floating IP or no network interface
  Request,   \* concurrent requests: each is a slot that serves many in turn
  Operation, \* the endpoints that clients call
  Fault      \* what may go wrong besides the races

ASSUME IpsAssumption ==
  /\ None \notin Ip \cup Nic
  /\ Operation \subseteq {"create", "delete", "attach", "detach", "delete_server"}
  /\ Fault \subseteq {"refusal", "lost_answer", "database", "restart"}

VARIABLES
  row,      \* the floating_ip table
  nic,      \* deleted_at of the network_interface table
  neutron,  \* external: the floating IPs as Neutron has them
  port,     \* external: the ports as Neutron has them
  request,  \* the suspended coroutines
  blurred,  \* history: floating IPs that a failure has left half changed
  crossed   \* history: floating IPs on which two requests have crossed

tables == <<row, nic>>
vars == <<row, nic, neutron, port, request, blurred, crossed>>

---------------------------------------------------------------------------
(* Types and the initial states.                                           *)

Row == [life : {"absent", "live", "deleted"}, nic : Nic \cup {None}]

NeutronIp == [life : {"UNCREATED", "EXISTS", "GONE"}, port : Nic \cup {None}]

Location ==
  {"idle", "create_ip", "insert", "delete_ip", "soft_delete",
   "bind", "save_bound", "unbind", "save_unbound",
   "delete_port", "save_removed", "rollback"}

\* `loaded` is network_interface_id when the entity was loaded.
RequestState ==
  [at     : Location,
   ip     : Ip \cup {None},
   nic    : Nic \cup {None},
   loaded : Nic \cup {None},
   tasks  : Seq({"delete_ip", "unbind", "rebind"})]

Idle == [at |-> "idle", ip |-> None, nic |-> None, loaded |-> None, tasks |-> <<>>]

TypeOK ==
  /\ row \in [Ip -> Row]
  /\ nic \in [Nic -> {"live", "deleted"}]
  /\ neutron \in [Ip -> NeutronIp]
  /\ port \in [Nic -> {"EXISTS", "GONE"}]
  /\ request \in [Request -> RequestState]
  /\ \A r \in Request : request[r].at = "idle" => request[r] = Idle
  /\ blurred \subseteq Ip
  /\ crossed \subseteq Ip

\* Servers run, each with its network interface.
Init ==
  /\ row = [i \in Ip |-> [life |-> "absent", nic |-> None]]
  /\ nic = [n \in Nic |-> "live"]
  /\ neutron = [i \in Ip |-> [life |-> "UNCREATED", port |-> None]]
  /\ port = [n \in Nic |-> "EXISTS"]
  /\ request = [r \in Request |-> Idle]
  /\ blurred = {}
  /\ crossed = {}

---------------------------------------------------------------------------
(* Control of a request.                                                   *)

May(fault) == fault \in Fault

Become(r, state) == request' = [request EXCEPT ![r] = state]

\* MUTANT  the list of undo tasks outlives its request
FinishKeepingTasks(r) == Become(r, [Idle EXCEPT !.tasks = request[r].tasks])

Finish(r) == Become(r, Idle)

Busy(i) == \E q \in Request : request[q].ip = i

Start(r, state) == request[r].at = "idle" /\ Become(r, state)

\* An exception leaves the unit of work; compensating_transaction undoes.
Raise(r) ==
  Become(r, IF request[r].tasks = <<>> THEN Idle ELSE [request[r] EXCEPT !.at = "rollback"])

\* The floating IPs that the request, or the port it deletes, is about.
Touched(r) ==
  ({request[r].ip} \cup {i \in Ip : neutron[i].port = request[r].nic}) \ {None}

Blurs(r) == blurred' = blurred \cup Touched(r)

Calm == UNCHANGED <<blurred, crossed>>

\* A failure that ends the request and leaves what it has done half done.
Dies(r, fault) == May(fault) /\ Finish(r) /\ Blurs(r)

\* MUTANT  a status error of Neutron is logged and not raised
RefusalSwallowed(r, state) == Become(r, state)

Refusal(r, state) == Raise(r)

\* Neutron has done what request q is still to commit or to undo, or q holds
\* the entities it is going to change.
InFlight(q) ==
  request[q].at \in {"save_bound", "save_unbound", "soft_delete", "rollback",
                     "delete_port", "save_removed"}

\* Request q, in flight, is about the same floating IP or network interface.
Meets(q, state) ==
  /\ InFlight(q)
  /\ \/ state.ip # None /\ request[q].ip = state.ip
     \/ state.nic # None /\ request[q].nic = state.nic

Crossings(r, state) ==
  UNION {{state.ip, request[q].ip} \ {None} : q \in {p \in Request \ {r} : Meets(p, state)}}

\* A call that Neutron carries out when `takes` holds; the answer may be lost.
IpCall(r, takes, N, state) ==
  /\ \/ /\ takes
        /\ neutron' = [neutron EXCEPT ![request[r].ip] = N]
        /\ crossed' = crossed \cup Crossings(r, state)
        /\ \/ Become(r, state) /\ UNCHANGED blurred
           \/ Dies(r, "lost_answer")
     \/ /\ ~takes \/ May("refusal")
        /\ Refusal(r, state)
        /\ Calm /\ UNCHANGED neutron
  /\ UNCHANGED <<tables, port>>

\* The UPDATE of a commit names the column only when its value was changed.
Column(stored, loaded, current) == IF current = loaded THEN stored ELSE current

\* Commit of the session that loaded the floating IP with `loaded`.
LinkSaved(r, n) ==
  [row EXCEPT ![request[r].ip].nic = Column(@, request[r].loaded, n)]

\* The commit that ends a request.
Commit(r, saved) ==
  /\ \/ row' = saved /\ Finish(r)
     \/ May("database") /\ Raise(r) /\ UNCHANGED row
  /\ Calm /\ UNCHANGED <<nic, neutron, port>>

---------------------------------------------------------------------------
(* POST /floating-ips and DELETE /floating-ips/{id}                        *)

CreateIp(r, i) ==
  /\ "create" \in Operation
  /\ row[i].life = "absent" /\ neutron[i].life = "UNCREATED" /\ ~Busy(i)
  /\ Start(r, [Idle EXCEPT !.at = "create_ip", !.ip = i])
  /\ Calm /\ UNCHANGED <<tables, neutron, port>>

\* MUTANT  the task is added after the INSERT
WithoutIpUndo(tasks) == tasks

WithIpUndo(tasks) == AddTask(tasks, "delete_ip")

CreateInNeutron(r) ==
  LET q == request[r]
  IN  /\ q.at = "create_ip"
      /\ IpCall(r, TRUE, [life |-> "EXISTS", port |-> None],
                [q EXCEPT !.at = "insert", !.tasks = WithIpUndo(@)])

InsertIp(r) ==
  /\ request[r].at = "insert"
  /\ Commit(r, [row EXCEPT ![request[r].ip].life = "live"])

\* validate_deletable; the row is marked in memory.
DeleteIp(r, i) ==
  /\ "delete" \in Operation
  /\ row[i].life = "live" /\ row[i].nic = None
  /\ Start(r, [Idle EXCEPT !.at = "delete_ip", !.ip = i])
  /\ Calm /\ UNCHANGED <<tables, neutron, port>>

Gone == [life |-> "GONE", port |-> None]

DeleteInNeutron(r) ==
  LET q == request[r]
  IN  /\ q.at = "delete_ip"
      /\ IpCall(r, neutron[q.ip].life = "EXISTS", Gone, [q EXCEPT !.at = "soft_delete"])

\* Nothing undoes the deletion when this commit fails.
SaveDeletion(r) ==
  /\ request[r].at = "soft_delete"
  /\ \/ row' = [row EXCEPT ![request[r].ip].life = "deleted"] /\ Finish(r) /\ Calm
     \/ Dies(r, "database") /\ UNCHANGED <<row, crossed>>
  /\ UNCHANGED <<nic, neutron, port>>

---------------------------------------------------------------------------
(* POST and DELETE /network-interfaces/{id}/floating-ips/{id}              *)

AttachIp(r, i, n) ==
  /\ "attach" \in Operation
  /\ nic[n] = "live" /\ row[i].life = "live" /\ row[i].nic = None
  /\ Start(r, [Idle EXCEPT !.at = "bind", !.ip = i, !.nic = n])
  /\ Calm /\ UNCHANGED <<tables, neutron, port>>

\* Neutron moves a floating IP that is bound elsewhere, and refuses a port that
\* has another one.
Bindable(i, n) ==
  /\ neutron[i].life = "EXISTS" /\ port[n] = "EXISTS"
  /\ \A j \in Ip \ {i} : neutron[j].port # n

BindIp(r) ==
  LET q == request[r]
  IN  /\ q.at = "bind"
      /\ IpCall(r, Bindable(q.ip, q.nic), [neutron[q.ip] EXCEPT !.port = q.nic],
                [q EXCEPT !.at = "save_bound", !.tasks = AddTask(@, "unbind")])

SaveBound(r) ==
  request[r].at = "save_bound" /\ Commit(r, LinkSaved(r, request[r].nic))

\* The network interface of the row is loaded, deleted or not.
DetachIp(r, i, n) ==
  /\ "detach" \in Operation
  /\ row[i].life = "live" /\ row[i].nic = n
  /\ Start(r, [Idle EXCEPT !.at = "unbind", !.ip = i, !.nic = n, !.loaded = n])
  /\ Calm /\ UNCHANGED <<tables, neutron, port>>

\* MUTANT  no task is added
WithoutRebind(tasks) == tasks

WithRebind(tasks) == AddTask(tasks, "rebind")

UnbindIp(r) ==
  LET q == request[r]
  IN  /\ q.at = "unbind"
      /\ IpCall(r, neutron[q.ip].life = "EXISTS", [neutron[q.ip] EXCEPT !.port = None],
                [q EXCEPT !.at = "save_unbound", !.tasks = WithRebind(@)])

SaveUnbound(r) ==
  request[r].at = "save_unbound" /\ Commit(r, LinkSaved(r, None))

\* What the undo of `task` makes of floating IP i; Neutron refuses what cannot be.
Undone(task, i, n) ==
  CASE task = "delete_ip" /\ neutron[i].life = "EXISTS" -> Gone
    [] task = "unbind" /\ neutron[i].life = "EXISTS"    -> [neutron[i] EXCEPT !.port = None]
    [] task = "rebind" /\ Bindable(i, n)                -> [neutron[i] EXCEPT !.port = n]
    [] OTHER                                            -> neutron[i]

\* The undo of a request that met another change of the row is a crossing too.
Undo(r) ==
  LET q == request[r]
      i == q.ip
      rest == WithoutLatest(q.tasks)
  IN  /\ q.at = "rollback"
      /\ Become(r, IF rest = <<>> THEN Idle ELSE [q EXCEPT !.tasks = rest])
      /\ \/ /\ neutron' = [neutron EXCEPT ![i] = Undone(LatestTask(q.tasks), i, q.nic)]
            /\ crossed' = IF row[i].nic # q.loaded THEN crossed \cup {i} ELSE crossed
            /\ UNCHANGED blurred
         \/ May("refusal") /\ Blurs(r) /\ UNCHANGED <<neutron, crossed>>
      /\ UNCHANGED <<tables, port>>

---------------------------------------------------------------------------
(* DELETE /servers/{id}: _remove_server_resources on one of its network    *)
(* interfaces (ServerLifecycle has the rest of the deletion).              *)

OnNic(n) == {i \in Ip : row[i].nic = n}

\* The NIC and the floating IP on it are loaded; of several rows the
\* relationship gives one.
RemoveNic(r, n) ==
  /\ "delete_server" \in Operation
  /\ nic[n] = "live"
  /\ \E i \in IF OnNic(n) = {} THEN {None} ELSE OnNic(n) :
       LET state == [Idle EXCEPT !.at = "delete_port", !.nic = n, !.ip = i,
                                 !.loaded = IF i = None THEN None ELSE n]
       IN  /\ Start(r, state)
           /\ crossed' = crossed \cup Crossings(r, state) \cup (OnNic(n) \ {i})
  /\ UNCHANGED <<tables, neutron, port, blurred>>

\* Neutron unbinds the floating IP of a port it deletes.
DeletePort(r) ==
  LET q == request[r]
      n == q.nic
      found == port[n] = "EXISTS"
  IN  /\ q.at = "delete_port"
      /\ \/ /\ found
            /\ port' = [port EXCEPT ![n] = "GONE"]
            /\ neutron' = [i \in Ip |->
                 IF neutron[i].port = n THEN [neutron[i] EXCEPT !.port = None] ELSE neutron[i]]
            /\ \/ Become(r, [q EXCEPT !.at = "save_removed"]) /\ UNCHANGED blurred
               \/ Dies(r, "lost_answer")
            /\ UNCHANGED crossed
         \/ (~found \/ May("refusal")) /\ Finish(r) /\ Calm /\ UNCHANGED <<neutron, port>>
      /\ UNCHANGED tables

\* MUTANT  the deletion of a server leaves the floating IP as it is
LinkKept(r) == row

LinkReleased(r) == IF request[r].ip = None THEN row ELSE LinkSaved(r, None)

SaveRemoved(r) ==
  /\ request[r].at = "save_removed"
  /\ \/ /\ nic' = [nic EXCEPT ![request[r].nic] = "deleted"]
        /\ row' = LinkReleased(r)
        /\ Finish(r) /\ Calm
     \/ Dies(r, "database") /\ UNCHANGED <<tables, crossed>>
  /\ UNCHANGED <<neutron, port>>

---------------------------------------------------------------------------
(* The process stops and starts again: no request and no undo survives.    *)

Restart ==
  /\ May("restart")
  /\ \E r \in Request : request[r].at # "idle"
  /\ request' = [r \in Request |-> Idle]
  /\ blurred' = blurred \cup UNION {Touched(r) : r \in Request}
  /\ UNCHANGED <<tables, neutron, port, crossed>>

---------------------------------------------------------------------------
(* The specification.                                                      *)

\* A client's request arrives.
Begin(r) ==
  \/ \E i \in Ip : CreateIp(r, i) \/ DeleteIp(r, i)
  \/ \E i \in Ip, n \in Nic : AttachIp(r, i, n) \/ DetachIp(r, i, n)
  \/ \E n \in Nic : RemoveNic(r, n)

\* The event loop resumes a suspended request.
Resume(r) ==
  \/ CreateInNeutron(r) \/ InsertIp(r) \/ DeleteInNeutron(r) \/ SaveDeletion(r)
  \/ BindIp(r) \/ SaveBound(r) \/ UnbindIp(r) \/ SaveUnbound(r) \/ Undo(r)
  \/ DeletePort(r) \/ SaveRemoved(r)

Next == (\E r \in Request : Begin(r) \/ Resume(r)) \/ Restart

Spec == Init /\ [][Next]_vars

---------------------------------------------------------------------------
(* Properties.                                                             *)

\* delete_floating_ip marks a row deleted only when Neutron has the floating IP
\* no more, and no later attach or detach changes that.
DeletedIpIsGone ==
  \A i \in Ip : row[i].life = "deleted" => neutron[i].life = "GONE"

\* A creation that failed leaves no floating IP in Neutron that no row names,
\* unless an answer was lost, an undo failed or the process stopped.
NoOrphanIp ==
  \A i \in Ip :
    row[i].life = "absent" /\ ~Busy(i) /\ i \notin blurred => neutron[i].life # "EXISTS"

\* When no request works on a floating IP, its row and Neutron name the same
\* network interface, and that one is not deleted: failed attachments and
\* detachments are undone, and deleting a server releases its floating IP.
\* Not so after a failure that nothing undoes, or when two requests crossed.
QuietIpAgrees ==
  \A i \in Ip :
    row[i].life = "live" /\ ~Busy(i) /\ i \notin blurred \cup crossed =>
      /\ neutron[i].life = "EXISTS"
      /\ neutron[i].port = row[i].nic
      /\ row[i].nic # None => nic[row[i].nic] = "live"

---------------------------------------------------------------------------
(* The inductive invariant.                                                *)

\* The undo task of a request: one at most, known by what the request is about.
Undoing(q) ==
  IF q.nic = None THEN "delete_ip" ELSE IF q.loaded = None THEN "unbind" ELSE "rebind"

\* What a request holds, by where it is.
WellFormed(q) ==
  /\ q.at \in {"create_ip", "insert", "delete_ip", "soft_delete"} =>
       q.ip # None /\ q.nic = None /\ q.loaded = None
  /\ q.at \in {"bind", "save_bound"} => q.ip # None /\ q.nic # None /\ q.loaded = None
  /\ q.at \in {"unbind", "save_unbound"} => q.ip # None /\ q.nic # None /\ q.loaded = q.nic
  /\ q.at \in {"delete_port", "save_removed"} =>
       q.nic # None /\ q.loaded = IF q.ip = None THEN None ELSE q.nic
  /\ q.at = "rollback" => q.ip # None /\ q.loaded \in {None, q.nic}
  /\ q.tasks = IF q.at \in {"insert", "save_bound", "save_unbound", "rollback"}
                 THEN <<Undoing(q)>> ELSE <<>>

RequestsWellFormed == \A r \in Request : WellFormed(request[r])

\* The request makes its floating IP, or takes it away again.
Creating(q) ==
  q.at \in {"create_ip", "insert"} \/ (q.at = "rollback" /\ q.nic = None)

CreatesAlone ==
  \A r \in Request :
    Creating(request[r]) =>
      /\ row[request[r].ip].life = "absent"
      /\ \A q \in Request \ {r} : request[q].ip # request[r].ip
      /\ request[r].at = "create_ip" => neutron[request[r].ip].life = "UNCREATED"
      /\ request[r].at = "insert" =>
           neutron[request[r].ip].life = "EXISTS" /\ neutron[request[r].ip].port = None

OthersHaveRows ==
  \A r \in Request :
    request[r].ip # None /\ ~Creating(request[r]) => row[request[r].ip].life # "absent"

AbsentIsUnlinked == \A i \in Ip : row[i].life = "absent" => row[i].nic = None

\* Neutron binds floating IPs it has to ports it has, and none to a port that
\* has one.
PortsHaveOne ==
  \A i \in Ip :
    neutron[i].port # None =>
      /\ neutron[i].life = "EXISTS"
      /\ port[neutron[i].port] = "EXISTS"
      /\ \A j \in Ip : neutron[j].port = neutron[i].port => j = i

DeletedNicHasNoPort == \A n \in Nic : nic[n] = "deleted" => port[n] = "GONE"

\* A commit that marks a row deleted comes after the deletion it reports.
DeletionsAreDone ==
  \A r \in Request :
    /\ request[r].at = "soft_delete" => neutron[request[r].ip].life = "GONE"
    /\ request[r].at = "save_removed" => port[request[r].nic] = "GONE"

\* Neither a failure nor a crossing of requests has touched floating IP i.
Trusted(i) == row[i].life = "live" /\ i \notin blurred \cup crossed

\* A request in flight on a trusted floating IP is the only one, on its network
\* interface as well.
FlightsAreApart ==
  \A r, q \in Request :
    /\ r # q /\ InFlight(r) /\ InFlight(q)
    /\ request[r].ip # None /\ Trusted(request[r].ip)
    => /\ request[q].ip # request[r].ip
       /\ request[r].nic # None => request[q].nic # request[r].nic

\* The deletion of a port knows the floating IP on it.
RemovalsKnow ==
  \A r \in Request, i \in Ip :
    /\ request[r].at \in {"delete_port", "save_removed"}
    /\ Trusted(i) /\ row[i].nic = request[r].nic
    => request[r].ip = i

\* What the call of the request has made of a trusted floating IP, and that the
\* undo of a detachment will be taken.
Bound(i, n) == neutron[i].life = "EXISTS" /\ neutron[i].port = n /\ nic[n] = "live"

Released(i, n) ==
  /\ neutron[i].life = "EXISTS" /\ neutron[i].port = None
  /\ row[i].nic = n => nic[n] = "live" /\ Bindable(i, n)

Settled(i) ==
  /\ neutron[i].life = "EXISTS"
  /\ neutron[i].port = row[i].nic
  /\ row[i].nic # None => nic[row[i].nic] = "live"

Known(q) ==
  /\ q.at = "save_bound" \/ (q.at = "rollback" /\ q.loaded = None) => Bound(q.ip, q.nic)
  /\ q.at = "save_unbound" \/ (q.at = "rollback" /\ q.loaded # None) => Released(q.ip, q.nic)
  /\ q.at = "delete_port" => Settled(q.ip) /\ row[q.ip].nic = q.nic
  /\ q.at = "save_removed" => neutron[q.ip].life = "EXISTS" /\ neutron[q.ip].port = None

FlightsAreKnown ==
  \A r \in Request :
    request[r].ip # None /\ Trusted(request[r].ip) => Known(request[r])

OthersAreSettled ==
  \A i \in Ip :
    Trusted(i) /\ (\A q \in Request : request[q].ip = i => ~InFlight(q)) => Settled(i)

IndInv ==
  /\ TypeOK
  /\ RequestsWellFormed
  /\ CreatesAlone
  /\ OthersHaveRows
  /\ AbsentIsUnlinked
  /\ PortsHaveOne
  /\ DeletedNicHasNoPort
  /\ DeletionsAreDone
  /\ DeletedIpIsGone
  /\ NoOrphanIp
  /\ FlightsAreApart
  /\ RemovalsKnow
  /\ FlightsAreKnown
  /\ OthersAreSettled
=============================================================================
