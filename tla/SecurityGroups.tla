--------------------------- MODULE SecurityGroups ---------------------------
(***************************************************************************)
(* Security groups: the security group service (create, update, delete),   *)
(* the requests of the server service that put a group on the network      *)
(* interface of a new server and take it off again, the tables they keep   *)
(* in MySQL, and the groups, rules and ports of Neutron.                   *)
(*                                                                         *)
(* As in VolumeLifecycle an action is what a request does from one await   *)
(* to the next, `request[r].at` names the await, and the guards checked in *)
(* memory are in the action whose select loaded the row.  An update is one *)
(* unit of work inside a retry loop (backoff, on StaleDataError) inside a  *)
(* compensating transaction, whose tasks pile up over the tries.           *)
(*                                                                         *)
(* One project; descriptions are left out but for the UPDATE they cause.   *)
(* The row's version is kept as what it tells: whether the row was written *)
(* since a request loaded it.  A rule's id is what it says and the POST    *)
(* that made it: Neutron never gives an id twice.                          *)
(***************************************************************************)
EXTENDS Compensation, FiniteSets

CONSTANTS
  Group,        \* primary keys of security_group, one Neutron group each
  Nic,          \* network interfaces, one for each server
  Name,         \* names of groups
  Content,      \* what a rule says; Neutron refuses two equal rules in a group
  DefaultRules, \* the rules Neutron gives a new group
  Request,      \* concurrent requests: each is a slot that serves many in turn
  MaxTries,     \* max_tries of the backoff decorator
  Quota,        \* bound: the POSTs that may add rules to one group
  Operation,    \* the endpoints that clients call
  Fault,        \* what may go wrong besides the races
  None          \* no group, no NIC, no name

ASSUME GroupsAssumption ==
  /\ DefaultRules \subseteq Content
  /\ IsFiniteSet(Content)
  /\ MaxTries \in Nat \ {0}
  /\ Quota \in Nat
  /\ Operation \subseteq {"create", "update", "delete", "create_server", "delete_server"}
  /\ Fault \subseteq {"refusal", "lost_answer", "database"}
  /\ None \notin Group \cup Nic \cup Name

VARIABLES
  row,      \* the security_group table
  link,     \* network_interface_security_group: the groups linked to a NIC
  nic,      \* deleted_at of the network_interface table
  neutron,  \* external: the security groups as Neutron has them
  port,     \* external: the ports as Neutron has them
  request   \* the suspended coroutines

vars == <<row, link, nic, neutron, port, request>>

---------------------------------------------------------------------------
(* Types and the initial states.                                           *)

Rule == [content : Content, id : 0..Quota]

Location ==
  {"idle", "rename", "list", "delete_rules", "add_rules", "save", "retry",
   "create_group", "insert", "delete_group", "soft_delete",
   "create_port", "link", "delete_port", "unlink", "raise", "rollback"}

Task ==
       [undo : {"rename"}, name : Name \cup {None}]
  \cup [undo : {"create_rule"}, content : Content]
  \cup [undo : {"delete_rule"}, rule : Rule]
  \cup [undo : {"delete_group", "delete_port"}]

\* A request, and after `clean` what a client can say of it: it has had its
\* group to itself, which was in order, and every call of it had an answer and
\* every undo an effect.  `before` is what the group was like at its start.
RequestState ==
  [at      : Location,
   grp     : Group \cup {None},
   nic     : Nic \cup {None},
   grps    : SUBSET Group,
   name    : Name \cup {None},
   rules   : SUBSET Content,
   loaded  : Name \cup {None},
   stale   : BOOLEAN,
   tries   : 1..MaxTries,
   doomed  : SUBSET Rule,
   adding  : SUBSET Content,
   failed  : BOOLEAN,
   tasks   : Seq(Task),
   clean   : BOOLEAN,
   before  : [name : Name \cup {None}, rules : SUBSET Content]]

Idle ==
  [at |-> "idle", grp |-> None, nic |-> None, grps |-> {}, name |-> None,
   rules |-> {}, loaded |-> None, stale |-> FALSE, tries |-> 1, doomed |-> {},
   adding |-> {}, failed |-> FALSE, tasks |-> <<>>, clean |-> FALSE,
   before |-> [name |-> None, rules |-> {}]]

Row == [life : {"absent", "live", "deleted"}, name : Name \cup {None}]

NeutronGroup == [life  : {"UNCREATED", "EXISTS", "GONE"},
                 name  : Name \cup {None},
                 rules : SUBSET Rule,
                 made  : 0..Quota]

Port == [life : {"UNCREATED", "EXISTS", "GONE"}, grps : SUBSET Group]

TypeOK ==
  /\ row \in [Group -> Row]
  /\ link \in [Nic -> SUBSET Group]
  /\ nic \in [Nic -> {"absent", "live", "deleted"}]
  /\ neutron \in [Group -> NeutronGroup]
  /\ port \in [Nic -> Port]
  /\ request \in [Request -> RequestState]

GonePort == [life |-> "GONE", grps |-> {}]

Init ==
  /\ row = [g \in Group |-> [life |-> "absent", name |-> None]]
  /\ link = [n \in Nic |-> {}]
  /\ nic = [n \in Nic |-> "absent"]
  /\ neutron = [g \in Group |->
       [life |-> "UNCREATED", name |-> None, rules |-> {}, made |-> 0]]
  /\ port = [n \in Nic |-> [life |-> "UNCREATED", grps |-> {}]]
  /\ request = [r \in Request |-> Idle]
---------------------------------------------------------------------------
(* Control of a request.                                                   *)

May(fault) == fault \in Fault

Become(r, state) == request' = [request EXCEPT ![r] = state]

Finish(r) == Become(r, Idle)

\* An exception leaves the unit of work.  Deletions of rules that gather has
\* not waited for go on by themselves.
Raise(r) ==
  Become(r, [request[r] EXCEPT !.at = IF request[r].doomed = {} THEN "rollback" ELSE "raise"])

\* Neutron has done what it was asked: the answer arrives, or is lost and the
\* request raises before it adds the undo.
Answered(r, state) ==
  \/ Become(r, state)
  \/ /\ May("lost_answer")
     /\ Become(r, [request[r] EXCEPT !.at = "rollback", !.clean = FALSE])

\* A call of Neutron about the group, which takes it or refuses it.
GroupCall(r, takes, G, state) ==
  /\ \/ takes /\ neutron' = [neutron EXCEPT ![request[r].grp] = G] /\ Answered(r, state)
     \/ (~takes \/ May("refusal")) /\ Raise(r) /\ UNCHANGED neutron
  /\ UNCHANGED <<row, link, nic, port>>

\* The same about the port.
PortCall(r, takes, P, state) ==
  /\ \/ takes /\ port' = [port EXCEPT ![request[r].nic] = P] /\ Answered(r, state)
     \/ (~takes \/ May("refusal")) /\ Raise(r) /\ UNCHANGED port
  /\ UNCHANGED <<row, link, nic, neutron>>

Busy(g) == \E q \in Request : request[q].grp = g

InOrder(g) ==
  neutron[g].life = "EXISTS" /\ neutron[g].name = row[g].name /\ ~Busy(g)

Contents(G) == {x.content : x \in G.rules}

\* A handler starts in an idle slot.
Start(r, state) ==
  /\ request[r].at = "idle"
  /\ request' = [q \in Request |->
       IF q = r THEN state
       ELSE IF state.grp # None /\ request[q].grp = state.grp
         THEN [request[q] EXCEPT !.clean = FALSE]
       ELSE request[q]]

\* The commit of an UPDATE of g, the last step of r: its version moves on.
Written(r, g) ==
  request' = [q \in Request |->
    IF q = r THEN Idle
    ELSE IF request[q].grp = g THEN [request[q] EXCEPT !.stale = TRUE]
    ELSE request[q]]

\* exists_by_project_and_name
NameTaken(name) == \E g \in Group : row[g].life = "live" /\ row[g].name = name

---------------------------------------------------------------------------
(* The group as Neutron has it.                                            *)

\* A POST of rules is refused as a whole when the group has one of them.
TakesRules(g, contents) ==
  /\ neutron[g].life = "EXISTS" /\ neutron[g].made < Quota
  /\ contents \cap Contents(neutron[g]) = {}

WithRules(G, contents) ==
  [G EXCEPT !.rules = @ \cup [content : contents, id : {G.made + 1}], !.made = @ + 1]

Without(G, x) == [G EXCEPT !.rules = @ \ {x}]

Deleted(G) == [G EXCEPT !.life = "GONE", !.name = None, !.rules = {}]

\* Neutron does not delete a group that a port uses.
Deletable(g) ==
  /\ neutron[g].life = "EXISTS"
  /\ \A n \in Nic : port[n].life = "EXISTS" => g \notin port[n].grps

---------------------------------------------------------------------------
(* POST /security-groups                                                   *)

CreateGroup(r, g, name, rules) ==
  /\ "create" \in Operation
  /\ row[g].life = "absent" /\ neutron[g].life = "UNCREATED" /\ ~Busy(g)
  /\ ~NameTaken(name)
  /\ Start(r, [Idle EXCEPT !.at = "create_group", !.grp = g, !.name = name,
                           !.rules = rules, !.adding = rules \ DefaultRules])
  /\ UNCHANGED <<row, link, nic, neutron, port>>

\* The INSERT is flushed next; like the commit it may fail, which is left to it.
NeutronCreateGroup(r) ==
  LET s == request[r]
  IN  /\ s.at = "create_group"
      /\ GroupCall(r, TRUE,
           [life |-> "EXISTS", name |-> s.name, made |-> 0,
            rules |-> [content : DefaultRules, id : {0}]],
           [s EXCEPT !.at = IF s.adding = {} THEN "insert" ELSE "add_rules",
                     !.tasks = AddTask(@, [undo |-> "delete_group"])])

\* The commit of create_security_group.
InsertGroup(r) ==
  LET s == request[r]
  IN  /\ s.at = "insert"
      /\ \/ /\ row' = [row EXCEPT ![s.grp] = [life |-> "live", name |-> s.name]]
            /\ Finish(r)
         \/ May("database") /\ Raise(r) /\ UNCHANGED row
      /\ UNCHANGED <<link, nic, neutron, port>>

---------------------------------------------------------------------------
(* PUT /security-groups/{id}                                               *)

\* find_by_id and the name check, of one snapshot, in each try.
MayUpdate(g, name) ==
  row[g].life = "live" /\ (name # row[g].name => ~NameTaken(name))

\* The entity is changed in memory; Neutron is told of a new name only.
Loaded(s) ==
  [s EXCEPT !.at = IF s.name = row[s.grp].name THEN "list" ELSE "rename",
            !.loaded = row[s.grp].name, !.stale = FALSE]

UpdateGroup(r, g, name, rules) ==
  /\ "update" \in Operation
  /\ MayUpdate(g, name)
  /\ Start(r, Loaded([Idle EXCEPT !.grp = g, !.name = name, !.rules = rules,
                      !.clean = InOrder(g),
                      !.before = [name |-> row[g].name, rules |-> Contents(neutron[g])]]))
  /\ UNCHANGED <<row, link, nic, neutron, port>>

\* The next try, after backoff's sleep, with a new session.
TryAgain(r) ==
  LET s == request[r]
  IN  /\ s.at = "retry"
      /\ \/ MayUpdate(s.grp, s.name) /\ Become(r, Loaded(s))
         \/ ~MayUpdate(s.grp, s.name) /\ Raise(r)
      /\ UNCHANGED <<row, link, nic, neutron, port>>

\* MUTANT  the undo reads the name of the changed entity
UndoRenameLate(s) == [undo |-> "rename", name |-> s.name]

\* The undo restores the name this try loaded.
UndoRename(s) == [undo |-> "rename", name |-> s.loaded]

\* _update_security_group_info up to the answer of Neutron.
RenameGroup(r) ==
  LET s == request[r]
      G == neutron[s.grp]
  IN  /\ s.at = "rename"
      /\ GroupCall(r, G.life = "EXISTS", [G EXCEPT !.name = s.name],
           [s EXCEPT !.at = "list", !.tasks = AddTask(@, UndoRename(s))])

\* MUTANT  the rules to add are forgotten
AfterDeletionsSave(s) == "save"

AfterDeletions(s) == IF s.adding = {} THEN "save" ELSE "add_rules"

\* find_security_group_rules and the comparison with the rules asked for; of a
\* group that is gone Neutron lists no rules.
ListRules(r) ==
  LET s == request[r]
      doomed == {x \in neutron[s.grp].rules : x.content \notin s.rules}
      listed == [s EXCEPT !.doomed = doomed, !.adding = s.rules \ Contents(neutron[s.grp])]
  IN  /\ s.at = "list"
      /\ \/ Become(r, [listed EXCEPT !.at =
                          IF doomed # {} THEN "delete_rules" ELSE AfterDeletions(listed)])
         \/ May("refusal") /\ Raise(r)
      /\ UNCHANGED <<row, link, nic, neutron, port>>

\* The deletion of x has been answered.  gather resumes the request after the
\* last one; a task added once the rollback has started is never run.
Settled(s, x, deleted) ==
  LET t == [s EXCEPT
        !.doomed = @ \ {x},
        !.failed = @ \/ ~deleted,
        !.tasks = IF deleted /\ s.at # "rollback"
                    THEN AddTask(@, [undo |-> "create_rule", content |-> x.content])
                    ELSE @]
  IN  IF s.at # "delete_rules" \/ t.doomed # {} THEN t
      ELSE [t EXCEPT !.at = IF t.failed THEN "rollback" ELSE AfterDeletions(t)]

\* The answer of a deletion is lost: an httpx exception, which delete_rule does
\* not catch and gather raises at once.
Dropped(s, x) ==
  [s EXCEPT !.doomed = @ \ {x},
            !.at = IF @ # "delete_rules" THEN @
                   ELSE IF s.doomed = {x} THEN "rollback" ELSE "raise",
            !.clean = FALSE]

\* One of the parallel calls of _delete_security_group_rules.
DeleteRule(r, x) ==
  LET s == request[r]
      G == neutron[s.grp]
  IN  /\ x \in s.doomed
      /\ \/ /\ x \in G.rules
            /\ neutron' = [neutron EXCEPT ![s.grp] = Without(G, x)]
            /\ Become(r, Settled(s, x, TRUE))
         \/ /\ x \notin G.rules \/ May("refusal")
            /\ Become(r, Settled(s, x, FALSE))
            /\ UNCHANGED neutron
         \/ /\ May("lost_answer")
            /\ neutron' \in {neutron, [neutron EXCEPT ![s.grp] = Without(G, x)]}
            /\ Become(r, Dropped(s, x))
      /\ UNCHANGED <<row, link, nic, port>>

\* One task for each created rule; the lambdas share the loop variable `rule`,
\* which ends at the last one.
UndoAdded(tasks, added, last) ==
  AddTasks(tasks, [undo |-> "delete_rule", rule |-> last], Cardinality(added))

\* create_security_group_rules, of an update and (without undo: the group's own
\* undo does) of a creation.
AddRules(r) ==
  LET s == request[r]
      G == neutron[s.grp]
      H == WithRules(G, s.adding)
  IN  /\ s.at = "add_rules"
      /\ \E last \in H.rules \ G.rules :
           GroupCall(r, TakesRules(s.grp, s.adding), H,
             IF row[s.grp].life = "absent" THEN [s EXCEPT !.at = "insert"]
             ELSE [s EXCEPT !.at = "save", !.tasks = UndoAdded(@, s.adding, last)])

MayRetry(s) == s.tries < MaxTries

\* MUTANT  the tries are not counted
RetriedUncounted(s) == [s EXCEPT !.at = "retry", !.failed = FALSE, !.adding = {}]

Retried(s) ==
  [s EXCEPT !.at = "retry", !.failed = FALSE, !.adding = {}, !.tries = @ + 1]

\* The commit.  An UPDATE, of a new name or description, checks the version;
\* StaleDataError is tried again.
SaveGroup(r) ==
  LET s == request[r]
  IN  /\ s.at = "save"
      /\ \/ s.name = s.loaded /\ Finish(r) /\ UNCHANGED row
         \/ /\ ~s.stale
            /\ row' = [row EXCEPT ![s.grp].name = s.name]
            /\ Written(r, s.grp)
         \/ /\ s.stale
            /\ IF MayRetry(s) THEN Become(r, Retried(s)) ELSE Raise(r)
            /\ UNCHANGED row
         \/ May("database") /\ Raise(r) /\ UNCHANGED row
      /\ UNCHANGED <<link, nic, neutron, port>>

---------------------------------------------------------------------------
(* DELETE /security-groups/{id}: no compensation, no retry.                *)

DeleteGroup(r, g) ==
  /\ "delete" \in Operation
  /\ row[g].life = "live"
  /\ \A n \in Nic : g \notin link[n]
  /\ Start(r, [Idle EXCEPT !.at = "delete_group", !.grp = g])
  /\ UNCHANGED <<row, link, nic, neutron, port>>

\* MUTANT  an OpenStackException of the call is caught and forgotten
NeutronDeleteSwallowed(r) ==
  LET s == request[r]
  IN  /\ s.at = "delete_group"
      /\ neutron' = [neutron EXCEPT ![s.grp] = IF Deletable(s.grp) THEN Deleted(@) ELSE @]
      /\ Become(r, [s EXCEPT !.at = "soft_delete"])
      /\ UNCHANGED <<row, link, nic, port>>

NeutronDeleteGroup(r) ==
  LET s == request[r]
  IN  /\ s.at = "delete_group"
      /\ GroupCall(r, Deletable(s.grp), Deleted(neutron[s.grp]), [s EXCEPT !.at = "soft_delete"])

SoftDeleteGroup(r) ==
  LET s == request[r]
  IN  /\ s.at = "soft_delete"
      /\ \/ /\ ~s.stale
            /\ row' = [row EXCEPT ![s.grp].life = "deleted"]
            /\ Written(r, s.grp)
         \/ (s.stale \/ May("database")) /\ Raise(r) /\ UNCHANGED row
      /\ UNCHANGED <<link, nic, neutron, port>>

---------------------------------------------------------------------------
(* POST /servers and _remove_server_resources, as far as groups go.        *)

CreateServer(r, n, grps) ==
  /\ "create_server" \in Operation
  /\ nic[n] = "absent" /\ port[n].life = "UNCREATED"
  /\ \A q \in Request : request[q].nic # n
  /\ \A g \in grps : row[g].life = "live"
  /\ Start(r, [Idle EXCEPT !.at = "create_port", !.nic = n, !.grps = grps])
  /\ UNCHANGED <<row, link, nic, neutron, port>>

NeutronCreatePort(r) ==
  LET s == request[r]
  IN  /\ s.at = "create_port"
      /\ PortCall(r, \A g \in s.grps : neutron[g].life = "EXISTS",
           [life |-> "EXISTS", grps |-> s.grps],
           [s EXCEPT !.at = "link", !.tasks = AddTask(@, [undo |-> "delete_port"])])

\* Nova's answer, the INSERTs of the NIC and its links, and the commit.
LinkGroups(r) ==
  LET s == request[r]
  IN  /\ s.at = "link"
      /\ \/ /\ link' = [link EXCEPT ![s.nic] = s.grps]
            /\ nic' = [nic EXCEPT ![s.nic] = "live"]
            /\ Finish(r)
         \/ Fault # {} /\ Raise(r) /\ UNCHANGED <<link, nic>>
      /\ UNCHANGED <<row, neutron, port>>

RemoveNic(r, n) ==
  /\ "delete_server" \in Operation
  /\ nic[n] = "live"
  /\ Start(r, [Idle EXCEPT !.at = "delete_port", !.nic = n])
  /\ UNCHANGED <<row, link, nic, neutron, port>>

NeutronDeletePort(r) ==
  LET s == request[r]
  IN  /\ s.at = "delete_port"
      /\ PortCall(r, port[s.nic].life = "EXISTS", GonePort, [s EXCEPT !.at = "unlink"])

UnlinkGroups(r) ==
  LET s == request[r]
  IN  /\ s.at = "unlink"
      /\ \/ /\ link' = [link EXCEPT ![s.nic] = {}]
            /\ nic' = [nic EXCEPT ![s.nic] = "deleted"]
            /\ Finish(r)
         \/ May("database") /\ Raise(r) /\ UNCHANGED <<link, nic>>
      /\ UNCHANGED <<row, neutron, port>>

---------------------------------------------------------------------------
(* The compensating transaction of the router.                             *)

StartRollback(r) ==
  /\ request[r].at = "raise"
  /\ Become(r, [request[r] EXCEPT !.at = "rollback"])
  /\ UNCHANGED <<row, link, nic, neutron, port>>

CanUndo(t, s) ==
  CASE t.undo = "rename"       -> neutron[s.grp].life = "EXISTS"
    [] t.undo = "create_rule"  -> TakesRules(s.grp, {t.content})
    [] t.undo = "delete_rule"  -> t.rule \in neutron[s.grp].rules
    [] t.undo = "delete_group" -> Deletable(s.grp)
    [] t.undo = "delete_port"  -> port[s.nic].life = "EXISTS"

Undone(G, t) ==
  CASE t.undo = "rename"       -> [G EXCEPT !.name = t.name]
    [] t.undo = "create_rule"  -> WithRules(G, {t.content})
    [] t.undo = "delete_rule"  -> Without(G, t.rule)
    [] t.undo = "delete_group" -> Deleted(G)

\* The latest task has its effect, or raises; nobody hears of either.  To
\* delete what is gone already leaves nothing to be desired.
UndoLatest(r) ==
  LET s == request[r]
      t == LatestTask(s.tasks)
      rest == [s EXCEPT !.tasks = WithoutLatest(@)]
  IN  /\ s.at = "rollback" /\ s.tasks # <<>>
      /\ \/ /\ CanUndo(t, s)
            /\ IF t.undo = "delete_port"
                 THEN /\ port' = [port EXCEPT ![s.nic] = GonePort]
                      /\ UNCHANGED neutron
                 ELSE /\ neutron' = [neutron EXCEPT ![s.grp] = Undone(@, t)]
                      /\ UNCHANGED port
            /\ Become(r, rest)
         \/ /\ ~CanUndo(t, s) \/ May("refusal")
            /\ Become(r, [rest EXCEPT !.clean = @ /\ t.undo = "delete_rule" /\ ~CanUndo(t, s)])
            /\ UNCHANGED <<neutron, port>>
      /\ UNCHANGED <<row, link, nic>>

\* The exception leaves the router, and no deletion is on its way any more.
EndFailed(r) ==
  /\ request[r].at = "rollback"
  /\ request[r].tasks = <<>> /\ request[r].doomed = {}
  /\ Finish(r)
  /\ UNCHANGED <<row, link, nic, neutron, port>>

Begin(r) ==
  \/ \E g \in Group, name \in Name, rules \in SUBSET Content :
       CreateGroup(r, g, name, rules) \/ UpdateGroup(r, g, name, rules)
  \/ \E g \in Group : DeleteGroup(r, g)
  \/ \E n \in Nic, grps \in SUBSET Group : CreateServer(r, n, grps)
  \/ \E n \in Nic : RemoveNic(r, n)

Progress(r) ==
  \/ NeutronCreateGroup(r) \/ InsertGroup(r)
  \/ TryAgain(r) \/ RenameGroup(r) \/ ListRules(r)
  \/ \E x \in request[r].doomed : DeleteRule(r, x)
  \/ AddRules(r) \/ SaveGroup(r)
  \/ NeutronDeleteGroup(r) \/ SoftDeleteGroup(r)
  \/ NeutronCreatePort(r) \/ LinkGroups(r)
  \/ NeutronDeletePort(r) \/ UnlinkGroups(r)
  \/ StartRollback(r) \/ UndoLatest(r) \/ EndFailed(r)

Next == \E r \in Request : Begin(r) \/ Progress(r)

Spec == Init /\ [][Next]_vars

\* The event loop resumes every request and every await ends.
FairSpec == Spec /\ \A r \in Request : WF_vars(Progress(r))

---------------------------------------------------------------------------
\* A network interface that has its port is linked to live groups, which Neutron
\* has too: delete_security_group's check of the links may be outdated when it
\* calls Neutron, and find_all_by_ids of create_server when the port is made.
LinkedGroupIsLive ==
  \A n \in Nic : port[n].life = "EXISTS" =>
    \A g \in link[n] : row[g].life = "live" /\ neutron[g].life = "EXISTS"

\* A group whose row is marked deleted is gone in Neutron, whatever its updates,
\* their rollbacks and its deletions do to each other.
DeletedGroupIsGone ==
  \A g \in Group : row[g].life = "deleted" => neutron[g].life = "GONE"

\* The inductive invariant behind these two: a suspended request works on what
\* its location says,
WorksOnTarget ==
  \A r \in Request :
    LET s == request[r]
    IN  /\ s.at \in {"create_group", "rename", "list", "delete_rules", "add_rules", "save",
                     "retry", "insert", "delete_group", "soft_delete"} => s.grp \in Group
        /\ s.doomed # {} => s.grp \in Group /\ s.at \in {"delete_rules", "raise", "rollback"}
        /\ s.at \in {"create_port", "link", "delete_port", "unlink"} => s.nic \in Nic
        /\ s.at \in {"rename", "list", "delete_rules", "save", "retry", "delete_group",
                     "soft_delete"} => row[s.grp].life # "absent"

Creates(r) ==
  \/ request[r].at \in {"create_group", "insert"}
  \/ request[r].at = "add_rules" /\ row[request[r].grp].life = "absent"

\* nobody else works on a group or an interface before it has a row,
CreatesAlone ==
  \A q \in Request : Creates(q) =>
    /\ row[request[q].grp].life = "absent"
    /\ \A r \in Request \ {q} : request[r].grp # request[q].grp

MakesPortAlone ==
  \A q \in Request : request[q].at = "create_port" =>
    /\ nic[request[q].nic] = "absent"
    /\ \A r \in Request \ {q} : request[r].nic # request[q].nic

\* a soft delete waits for Neutron,
SoftDeletesGone ==
  \A r \in Request : request[r].at = "soft_delete" => neutron[request[r].grp].life = "GONE"

\* Neutron keeps the groups of its ports, and links follow the ports.
PortsHaveGroups ==
  \A n \in Nic : port[n].life = "EXISTS" =>
    \A g \in port[n].grps : neutron[g].life = "EXISTS"

LinksFollowPorts ==
  \A n \in Nic :
    /\ port[n].life = "EXISTS" => link[n] \subseteq port[n].grps
    /\ nic[n] = "absent" => link[n] = {}
    /\ \A g \in link[n] : row[g].life # "absent"

LinksItsGroups ==
  \A r \in Request :
    LET s == request[r]
    IN  /\ s.at \in {"create_port", "link"} => \A g \in s.grps : row[g].life # "absent"
        /\ s.at = "link" /\ port[s.nic].life = "EXISTS" => s.grps \subseteq port[s.nic].grps

IndInv ==
  /\ TypeOK
  /\ WorksOnTarget
  /\ CreatesAlone
  /\ MakesPortAlone
  /\ SoftDeletesGone
  /\ PortsHaveGroups
  /\ LinksFollowPorts
  /\ LinksItsGroups
  /\ DeletedGroupIsGone

\* The invariant behind what an update does that has its group to itself: nobody
\* else works on the group,
CleanIsAlone ==
  \A r, q \in Request :
    r # q /\ request[r].clean => request[q].grp # request[r].grp

Listed(task, tasks) == \E i \in DOMAIN tasks : tasks[i] = task

\* its undo tasks bring back the name and the rules it has changed,
Restorable(s) ==
  LET G == neutron[s.grp]
  IN  /\ \A i \in DOMAIN s.tasks :
           LET t == s.tasks[i]
           IN  /\ t.undo \in {"rename", "create_rule", "delete_rule"}
               /\ t.undo = "rename" => t.name = s.before.name
               /\ t.undo = "delete_rule" => t.rule.content \notin s.before.rules
      /\ \/ G.name = s.before.name
         \/ Listed([undo |-> "rename", name |-> s.before.name], s.tasks)
      /\ \A c \in s.before.rules :
           c \in Contents(G) \/ Listed([undo |-> "create_rule", content |-> c], s.tasks)

\* and between the two it is on its way from the old name and rules to the new.
OnItsWay(s) ==
  LET G == neutron[s.grp]
  IN  /\ s.at \in {"rename", "list"} => ~s.failed /\ Contents(G) = s.before.rules
      /\ s.at = "rename" => G.name = s.loaded
      /\ s.at \in {"list", "delete_rules", "add_rules", "save"} => G.name = s.name
      /\ s.at \in {"delete_rules", "add_rules"} =>
           s.adding = s.rules \ Contents(G) /\ s.adding \cap s.before.rules = {}
      /\ s.at = "delete_rules" =>
           /\ \A x \in s.doomed : x.content \notin s.rules
           /\ s.failed \/ \A x \in G.rules : x.content \in s.rules \/ x \in s.doomed
      /\ s.at = "add_rules" => Contents(G) \subseteq s.rules
      /\ s.at = "save" => Contents(G) = s.rules

LoneKnows(s) ==
  /\ s.grp \in Group /\ ~s.stale
  /\ s.at \in {"rename", "list", "delete_rules", "add_rules", "save", "rollback"}
  /\ s.doomed # {} => s.at = "delete_rules"
  /\ row[s.grp].life # "absent"
  /\ row[s.grp].name = s.loaded /\ s.before.name = s.loaded
  /\ OnItsWay(s)
  /\ Restorable(s)

LoneUpdatesKnow == \A r \in Request : request[r].clean => LoneKnows(request[r])

GroupsInv == IndInv /\ CleanIsAlone /\ LoneUpdatesKnow

\* An update of r that was alone on its group ends, having returned or raised.
LoneUpdateEnds(r, label) ==
  LET s == request[r]
  IN  /\ s.clean /\ s.at = label
      /\ request'[r].at = "idle"

\* An update that returns, and had its group to itself, leaves the row and
\* Neutron with the name, and Neutron with the rules, it was asked for.
LoneUpdateIsDone ==
  [][\A r \in Request :
       LET s == request[r]
       IN  LoneUpdateEnds(r, "save") =>
             /\ row'[s.grp].name = s.name
             /\ neutron'[s.grp].name = s.name
             /\ Contents(neutron'[s.grp]) = s.rules]_vars

\* An update that raises, had its group to itself, lost no answer and could undo
\* what it did leaves the row and Neutron with the old name and the old rules;
\* the next property is about the rules it added.
LoneFailureIsUndone ==
  [][\A r \in Request :
       LET s == request[r]
       IN  LoneUpdateEnds(r, "rollback") =>
             /\ row'[s.grp].name = s.before.name
             /\ neutron'[s.grp].name = s.before.name
             /\ s.before.rules \subseteq Contents(neutron'[s.grp])]_vars

\* docs/sequence_diagram_resource.md:1099: a failing update is compensated in
\* OpenStack, so it leaves none of the rules it added.
LoneFailureLeavesNoRule ==
  [][\A r \in Request :
       LET s == request[r]
       IN  LoneUpdateEnds(r, "rollback") =>
             Contents(neutron'[s.grp]) \subseteq s.before.rules]_vars

\* Every request ends: the tries of an update are counted, and neither the
\* rollback nor the deletions it leaves behind keep it.
RequestsEnd == \A r \in Request : request[r].at # "idle" ~> request[r].at = "idle"
=============================================================================
