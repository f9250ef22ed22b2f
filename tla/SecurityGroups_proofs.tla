----------------------- MODULE SecurityGroups_proofs -----------------------
(***************************************************************************)
(* Proofs about SecurityGroups, for any number of groups, interfaces and   *)
(* concurrent requests, any rules, any number of tries and any faults.     *)
(***************************************************************************)
EXTENDS SecurityGroups, FiniteSetTheorems, SequenceTheorems, TLAPS

(***************************************************************************)
(* Types: tasks, the states of a request, Neutron's groups.                *)
(***************************************************************************)

\* The lists of undo calls stay lists of undo calls.
LEMMA TasksType ==
  ASSUME NEW tasks \in Seq(Task), NEW task \in Task, NEW n \in Nat
  PROVE  /\ AddTask(tasks, task) \in Seq(Task)
         /\ AddTasks(tasks, task, n) \in Seq(Task)
         /\ tasks # <<>> => /\ LatestTask(tasks) \in Task
                            /\ WithoutLatest(tasks) \in Seq(Task)
<1>1. AddTask(tasks, task) \in Seq(Task)
  BY DEF AddTask
<1>2. AddTasks(tasks, task, n) \in Seq(Task)
  <2>1. [i \in 1..n |-> task] \in Seq(Task)
    OBVIOUS
  <2>2. QED
    BY <2>1 DEF AddTasks
<1>3. ASSUME tasks # <<>>
      PROVE  LatestTask(tasks) \in Task /\ WithoutLatest(tasks) \in Seq(Task)
  <2>1. Len(tasks) \in Nat /\ Len(tasks) >= 1
    BY <1>3
  <2>2. QED
    BY <2>1 DEF LatestTask, WithoutLatest
<1>4. QED
  BY <1>1, <1>2, <1>3

\* A slot whose request has ended is well-formed.
LEMMA IdleType == Idle \in RequestState
<1>1. <<>> \in Seq(Task)
  OBVIOUS
<1>2. 1 \in 1..MaxTries
  BY GroupsAssumption
<1>3. QED
  BY <1>1, <1>2 DEF Idle, RequestState, Location

\* A request that waits somewhere else.
LEMMA LabelType ==
  ASSUME NEW s \in RequestState, NEW label \in Location, NEW t, t = [s EXCEPT !.at = label]
  PROVE  /\ t \in RequestState
         /\ t.at = label /\ t.grp = s.grp /\ t.nic = s.nic /\ t.grps = s.grps
         /\ t.doomed = s.doomed
  BY DEF RequestState

\* A request whose row or whose group was written by another.
LEMMA FlagsType ==
  ASSUME NEW s \in RequestState
  PROVE  /\ [s EXCEPT !.stale = TRUE] \in RequestState
         /\ [s EXCEPT !.clean = FALSE] \in RequestState
  BY DEF RequestState

\* What is in a request is of its type.
LEMMA RequestType ==
  ASSUME TypeOK, NEW r \in Request
  PROVE  /\ request[r] \in RequestState
         /\ request[r].tasks \in Seq(Task)
         /\ request[r].grp \in Group => neutron[request[r].grp] \in NeutronGroup
         /\ request[r].nic \in Nic => port[request[r].nic] \in Port
  BY DEF TypeOK, RequestState

\* A group of Neutron that gets or loses rules or its name stays one.
LEMMA NeutronType ==
  ASSUME NEW G \in NeutronGroup, NEW name \in Name \cup {None}
  PROVE  /\ [G EXCEPT !.name = name] \in NeutronGroup
         /\ Deleted(G) \in NeutronGroup
         /\ \A x : Without(G, x) \in NeutronGroup
         /\ \A contents \in SUBSET Content :
              G.made < Quota => WithRules(G, contents) \in NeutronGroup
<1>1. [G EXCEPT !.name = name] \in NeutronGroup /\ Deleted(G) \in NeutronGroup
  BY DEF NeutronGroup, Deleted
<1>2. ASSUME NEW x PROVE Without(G, x) \in NeutronGroup
  BY DEF NeutronGroup, Without
<1>3. ASSUME NEW contents \in SUBSET Content, G.made < Quota
      PROVE  WithRules(G, contents) \in NeutronGroup
  <2> DEFINE m == G.made
  <2>0. m \in 0..Quota /\ m < Quota
    BY <1>3 DEF NeutronGroup
  <2> HIDE DEF m
  <2>1. m + 1 \in 0..Quota
    BY <2>0, GroupsAssumption
  <2> USE DEF m
  <2>2. [content : contents, id : {G.made + 1}] \subseteq Rule
    BY <2>1 DEF Rule
  <2>3. QED
    BY <2>1, <2>2 DEF NeutronGroup, WithRules
<1>4. QED
  BY <1>1, <1>2, <1>3

(***************************************************************************)
(* The invariant, in the parts of a request and the parts of the tables.   *)
(***************************************************************************)

\* What the tables must satisfy of a request in the state s.
RequestInv(s) ==
  /\ s.at \in {"create_group", "rename", "list", "delete_rules", "add_rules", "save",
              "retry", "insert", "delete_group", "soft_delete"} => s.grp \in Group
  /\ s.doomed # {} => s.grp \in Group /\ s.at \in {"delete_rules", "raise", "rollback"}
  /\ s.at \in {"create_port", "link", "delete_port", "unlink"} => s.nic \in Nic
  /\ s.at \in {"rename", "list", "delete_rules", "save", "retry", "delete_group",
              "soft_delete"} => row[s.grp].life # "absent"
  /\ s.at = "soft_delete" => neutron[s.grp].life = "GONE"
  /\ s.at \in {"create_port", "link"} => \A g \in s.grps : row[g].life # "absent"
  /\ s.at = "link" /\ port[s.nic].life = "EXISTS" => s.grps \subseteq port[s.nic].grps

Tables ==
  /\ row \in [Group -> Row]
  /\ link \in [Nic -> SUBSET Group]
  /\ nic \in [Nic -> {"absent", "live", "deleted"}]
  /\ neutron \in [Group -> NeutronGroup]
  /\ port \in [Nic -> Port]
  /\ PortsHaveGroups
  /\ LinksFollowPorts
  /\ DeletedGroupIsGone

Requests ==
  /\ request \in [Request -> RequestState]
  /\ \A r \in Request : RequestInv(request[r])
  /\ CreatesAlone
  /\ MakesPortAlone

\* The two parts make up the invariant, ...
LEMMA IndInvParts == IndInv <=> Tables /\ Requests
  BY DEF IndInv, Tables, Requests, RequestInv, TypeOK, WorksOnTarget, SoftDeletesGone,
         LinksItsGroups

\* ... in the next state too.
LEMMA IndInvPartsPrimed == IndInv' <=> Tables' /\ Requests'
  BY DEF IndInv, Tables, Requests, RequestInv, TypeOK, WorksOnTarget, SoftDeletesGone,
         LinksItsGroups

\* What a step of r may do to the tables that the other requests count on: only
\* to its group and its interface, and nothing is undone that others take for
\* final.
TablesMove(r) ==
  /\ \A g \in Group : request[r].grp # g => row'[g] = row[g]
  /\ \A g \in Group : row[g].life # "absent" => row'[g].life # "absent"
  /\ \A g \in Group :
       \/ neutron[g].life = "GONE" => neutron'[g].life = "GONE"
       \/ request[r].grp = g /\ request[r].at = "create_group"
  /\ \A n \in Nic : request[r].nic # n => nic'[n] = nic[n]
  /\ \A n \in Nic :
       \/ port'[n] = port[n]
       \/ port'[n].life # "EXISTS"
       \/ request[r].nic = n /\ request[r].at = "create_port"

\* The others stay where they are; a flag of them may change.
OthersStay(r) ==
  \A q \in Request \ {r} :
    LET s == request[q]
        t == request'[q]
    IN  /\ t.at = s.at /\ t.grp = s.grp /\ t.nic = s.nic /\ t.grps = s.grps
        /\ t.doomed = s.doomed

\* Where r goes: its new state fits the new tables, and it does not touch what
\* another request is creating.
Fits(r) ==
  LET t == request'[r]
  IN  /\ RequestInv(request[r])'
      /\ Creates(r)' =>
           /\ row'[t.grp].life = "absent"
           /\ \A q \in Request \ {r} : request[q].grp # t.grp
      /\ t.at = "create_port" =>
           /\ nic'[t.nic] = "absent"
           /\ \A q \in Request \ {r} : request[q].nic # t.nic
      /\ \A q \in Request \ {r} :
           /\ Creates(q) => request[q].grp # t.grp
           /\ request[q].at = "create_port" => request[q].nic # t.nic

\* A step of r keeps the invariant of all requests.
LEMMA RequestsKept ==
  ASSUME Tables, Requests, NEW r \in Request, TablesMove(r), OthersStay(r), Fits(r),
         request' \in [Request -> RequestState]
  PROVE  Requests'
<1>1. ASSUME NEW q \in Request PROVE RequestInv(request[q])'
  <2>1. CASE q = r
    BY <2>1 DEF Fits
  <2>2. CASE q # r
    <3> DEFINE s == request[q]
               t == request'[q]
    <3>1. /\ t.at = s.at /\ t.grp = s.grp /\ t.nic = s.nic /\ t.grps = s.grps
          /\ t.doomed = s.doomed /\ s \in RequestState
      BY <2>2 DEF OthersStay, Requests
    <3>2. RequestInv(s) /\ s.grps \subseteq Group
      BY <3>1 DEF Requests, RequestState
    <3>3. /\ s.grp \in Group /\ row[s.grp].life # "absent" => row'[s.grp].life # "absent"
          /\ \A g \in s.grps : row[g].life # "absent" => row'[g].life # "absent"
      BY <3>2 DEF TablesMove
    <3>4. ASSUME s.at = "soft_delete" PROVE neutron'[s.grp].life = "GONE"
      <4>1. s.grp \in Group /\ neutron[s.grp].life = "GONE"
        BY <3>2, <3>4 DEF RequestInv
      <4>2. ~(request[r].grp = s.grp /\ request[r].at = "create_group")
        BY <2>2 DEF Requests, CreatesAlone, Creates
      <4>3. QED
        BY <4>1, <4>2 DEF TablesMove
    <3>5. ASSUME s.at = "link", port'[s.nic].life = "EXISTS"
          PROVE  s.grps \subseteq port'[s.nic].grps
      <4>1. s.nic \in Nic
        BY <3>2, <3>5 DEF RequestInv
      <4>2. port'[s.nic] = port[s.nic]
        BY <2>2, <3>5, <4>1 DEF TablesMove, Requests, MakesPortAlone
      <4>3. QED
        BY <3>2, <3>5, <4>2 DEF RequestInv
    <3>6. /\ s.at \in {"create_group", "rename", "list", "delete_rules", "add_rules", "save",
                     "retry", "insert", "delete_group", "soft_delete"} => s.grp \in Group
          /\ s.doomed # {} => s.grp \in Group /\ s.at \in {"delete_rules", "raise", "rollback"}
          /\ s.at \in {"create_port", "link", "delete_port", "unlink"} => s.nic \in Nic
      BY <3>2 DEF RequestInv
    <3>7. s.at \in {"rename", "list", "delete_rules", "save", "retry", "delete_group",
                   "soft_delete"} => row'[s.grp].life # "absent"
      BY <3>2, <3>3, <3>6 DEF RequestInv
    <3>8. s.at \in {"create_port", "link"} => \A g \in s.grps : row'[g].life # "absent"
      BY <3>2, <3>3 DEF RequestInv
    <3>9. QED
      BY <3>1, <3>5, <3>6, <3>7, <3>8, <3>4 DEF RequestInv
  <2>3. QED
    BY <2>1, <2>2
<1>2. CreatesAlone'
  <2> SUFFICES ASSUME NEW q \in Request, Creates(q)'
               PROVE  /\ row'[request'[q].grp].life = "absent"
                      /\ \A p \in Request \ {q} : request'[p].grp # request'[q].grp
    BY DEF CreatesAlone
  <2>1. CASE q = r
    BY <2>1 DEF Fits, OthersStay
  <2>2. CASE q # r
    <3>1. request'[q].at = request[q].at /\ request'[q].grp = request[q].grp
      BY <2>2 DEF OthersStay
    <3>2. request[q].grp \in Group /\ (row'[request[q].grp].life = "absent" =>
                                       row[request[q].grp].life = "absent")
      BY <3>1 DEF Creates, Requests, RequestInv, TablesMove
    <3>3. Creates(q)
      BY <3>1, <3>2 DEF Creates
    <3>4. /\ row[request[q].grp].life = "absent"
          /\ \A p \in Request \ {q} : request[p].grp # request[q].grp
      BY <3>3 DEF Requests, CreatesAlone
    <3>5. row'[request[q].grp] = row[request[q].grp]
      BY <2>2, <3>2, <3>4 DEF TablesMove
    <3>6. request[q].grp # request'[r].grp
      BY <2>2, <3>3 DEF Fits
    <3>7. ASSUME NEW p \in Request \ {q} PROVE request'[p].grp # request[q].grp
      BY <3>4, <3>6 DEF OthersStay
    <3>8. QED
      BY <3>1, <3>4, <3>5, <3>7
  <2>3. QED
    BY <2>1, <2>2
<1>3. MakesPortAlone'
  <2> SUFFICES ASSUME NEW q \in Request, request'[q].at = "create_port"
               PROVE  /\ nic'[request'[q].nic] = "absent"
                      /\ \A p \in Request \ {q} : request'[p].nic # request'[q].nic
    BY DEF MakesPortAlone
  <2>1. CASE q = r
    BY <2>1 DEF Fits, OthersStay
  <2>2. CASE q # r
    <3>1. request[q].at = "create_port" /\ request'[q].nic = request[q].nic
      BY <2>2 DEF OthersStay
    <3>2. request[q].nic \in Nic
      BY <3>1 DEF Requests, RequestInv
    <3>3. /\ nic[request[q].nic] = "absent"
          /\ \A p \in Request \ {q} : request[p].nic # request[q].nic
      BY <3>1 DEF Requests, MakesPortAlone
    <3>4. nic'[request[q].nic] = nic[request[q].nic]
      BY <2>2, <3>2, <3>3 DEF TablesMove
    <3>5. request[q].nic # request'[r].nic
      BY <2>2, <3>1 DEF Fits
    <3>6. ASSUME NEW p \in Request \ {q} PROVE request'[p].nic # request[q].nic
      BY <3>3, <3>5 DEF OthersStay
    <3>7. QED
      BY <3>1, <3>3, <3>4, <3>6
  <2>3. QED
    BY <2>1, <2>2
<1>4. QED
  BY <1>1, <1>2, <1>3 DEF Requests

(***************************************************************************)
(* What the helpers of the actions do to the invariant.                    *)
(***************************************************************************)

\* A state a request may go on to: it gives up what it works on or keeps it.
GoesOn(s, t) ==
  /\ t \in RequestState
  /\ t.grp \in {s.grp, None}
  /\ t.nic \in {s.nic, None}
  /\ t.at # "create_port"
  /\ t.at \in {"create_group", "insert"} => s.at \in {"create_group", "insert", "add_rules"}

\* A request goes on, and only its state and the tables it may touch change.
LEMMA BecomeKeeps ==
  ASSUME Tables, Requests, NEW r \in Request, NEW t, Become(r, t), GoesOn(request[r], t),
         TablesMove(r), RequestInv(t)',
         t.at \in {"create_group", "insert", "add_rules"} =>
           /\ row' = row
           /\ t.grp = request[r].grp
           /\ t.at # "add_rules" => Creates(r)
           /\ row[t.grp].life = "absent" => Creates(r)
  PROVE  Requests'
<1> USE GroupsAssumption
<1>1. request' = [request EXCEPT ![r] = t] /\ request \in [Request -> RequestState]
  BY DEF Become, Requests
<1>2. request' \in [Request -> RequestState] /\ request'[r] = t
  BY <1>1 DEF GoesOn
<1>3. OthersStay(r)
  BY <1>1 DEF OthersStay
<1>4. Creates(r)' => Creates(r) /\ row' = row /\ t.grp = request[r].grp
  BY <1>2 DEF Creates
<1>5. ASSUME Creates(r)'
      PROVE  /\ row'[t.grp].life = "absent"
             /\ \A q \in Request \ {r} : request[q].grp # t.grp
  BY <1>4, <1>5 DEF Requests, CreatesAlone
<1>6. ASSUME NEW q \in Request \ {r}
      PROVE  /\ Creates(q) => request[q].grp # t.grp
             /\ request[q].at = "create_port" => request[q].nic # t.nic
  <2>1. t.grp \in {request[r].grp, None} /\ t.nic \in {request[r].nic, None}
    BY DEF GoesOn
  <2>2. Creates(q) => request[q].grp \in Group /\ request[q].grp # request[r].grp
    BY DEF Requests, RequestInv, Creates, CreatesAlone
  <2>3. request[q].at = "create_port" => request[q].nic \in Nic /\ request[q].nic # request[r].nic
    BY DEF Requests, RequestInv, MakesPortAlone
  <2>4. QED
    BY <2>1, <2>2, <2>3
<1>7. RequestInv(request[r])'
  BY <1>2
<1>8. Fits(r)
  BY <1>2, <1>5, <1>6, <1>7 DEF Fits, GoesOn
<1>9. QED
  BY <1>2, <1>3, <1>8, RequestsKept

\* The tables stay as they are.
Untouched == UNCHANGED <<row, link, nic, neutron, port>>

LEMMA UntouchedKeeps ==
  ASSUME Tables, NEW r \in Request, Untouched
  PROVE  Tables' /\ TablesMove(r)
  BY DEF Untouched, Tables, TablesMove, PortsHaveGroups, LinksFollowPorts, DeletedGroupIsGone

\* An exception.
LEMMA RaiseKeeps ==
  ASSUME Tables, Requests, NEW r \in Request, Raise(r), Untouched
  PROVE  Tables' /\ Requests'
<1>1. PICK label \in {"rollback", "raise"} : Become(r, [request[r] EXCEPT !.at = label])
  BY DEF Raise
<1>2. PICK t : t = [request[r] EXCEPT !.at = label]
  OBVIOUS
<1>3. Become(r, t)
  BY <1>1, <1>2
<1>4. /\ t.at = label /\ t.grp = request[r].grp /\ t.nic = request[r].nic
      /\ t.doomed = request[r].doomed /\ t \in RequestState
  <2>1. request[r] \in RequestState /\ label \in Location
    BY <1>1 DEF Requests, Location
  <2>2. QED
    BY <1>2, <2>1, LabelType
<1>5. t.doomed # {} => t.grp \in Group
  BY <1>4 DEF Requests, RequestInv
<1>6. RequestInv(t)'
  BY <1>1, <1>4, <1>5 DEF RequestInv
<1>7. GoesOn(request[r], t)
  BY <1>1, <1>4 DEF GoesOn
<1>8. QED
  BY <1>1, <1>3, <1>4, <1>6, <1>7, BecomeKeeps, UntouchedKeeps

\* A request ends.
LEMMA FinishKeeps ==
  ASSUME Tables, Requests, NEW r \in Request, Finish(r), TablesMove(r)
  PROVE  Requests'
<1>1. Become(r, Idle) /\ GoesOn(request[r], Idle)
  BY IdleType DEF Finish, GoesOn, Idle
<1>2. RequestInv(Idle)'
  BY DEF RequestInv, Idle
<1>3. QED
  BY <1>1, <1>2, BecomeKeeps DEF Idle

\* Neutron changes the group of a request: the group stays if it was there, is
\* made by the request that creates it, or is deleted when no port uses it.
LEMMA NeutronKeeps ==
  ASSUME Tables, Requests, NEW r \in Request, NEW G \in NeutronGroup,
         request[r].grp \in Group,
         neutron' = [neutron EXCEPT ![request[r].grp] = G],
         UNCHANGED <<row, link, nic, port>>,
         \/ G.life = neutron[request[r].grp].life
         \/ G.life = "EXISTS" /\ request[r].at = "create_group"
         \/ G.life = "GONE" /\ Deletable(request[r].grp)
  PROVE  Tables' /\ TablesMove(r)
<1> DEFINE h == request[r].grp
<1>1. /\ neutron' \in [Group -> NeutronGroup]
      /\ \A g \in Group : neutron'[g] = IF g = h THEN G ELSE neutron[g]
  BY DEF Tables
<1>2. request[r].at = "create_group" => row[h].life = "absent"
  BY DEF Requests, CreatesAlone, Creates
<1>3. PortsHaveGroups'
  <2> SUFFICES ASSUME NEW n \in Nic, port[n].life = "EXISTS", NEW g \in port[n].grps
               PROVE  neutron'[g].life = "EXISTS"
    BY DEF PortsHaveGroups
  <2>1. g \in Group /\ neutron[g].life = "EXISTS"
    BY DEF Tables, PortsHaveGroups, Port
  <2>2. QED
    BY <1>1, <2>1 DEF Deletable
<1>4. DeletedGroupIsGone'
  <2> SUFFICES ASSUME NEW g \in Group, row[g].life = "deleted"
               PROVE  neutron'[g].life = "GONE"
    BY DEF DeletedGroupIsGone
  <2>1. neutron[g].life = "GONE"
    BY DEF Tables, DeletedGroupIsGone
  <2>2. QED
    BY <1>1, <1>2, <2>1 DEF Deletable
<1>5. LinksFollowPorts'
  BY DEF Tables, LinksFollowPorts
<1>6. TablesMove(r)
  BY <1>1 DEF TablesMove, Deletable
<1>7. QED
  BY <1>1, <1>3, <1>4, <1>5, <1>6 DEF Tables

\* An exception after the answer of a call was lost.
LEMMA LostKeeps ==
  ASSUME Tables, Requests, NEW r \in Request, TablesMove(r),
         Become(r, [request[r] EXCEPT !.at = "rollback", !.clean = FALSE])
  PROVE  Requests'
<1>1. PICK t : t = [request[r] EXCEPT !.at = "rollback", !.clean = FALSE]
  OBVIOUS
<1>2. request[r] \in RequestState /\ (request[r].doomed # {} => request[r].grp \in Group)
  BY DEF Requests, RequestInv
<1>3. /\ t.at = "rollback" /\ t.grp = request[r].grp /\ t.nic = request[r].nic
      /\ t.doomed = request[r].doomed
  BY <1>1, <1>2 DEF RequestState
<1>4. t \in RequestState
  BY <1>1, <1>2 DEF RequestState, Location
<1>5. RequestInv(t)'
  BY <1>2, <1>3 DEF RequestInv
<1>6. GoesOn(request[r], t)
  BY <1>3, <1>4 DEF GoesOn
<1>7. QED
  BY <1>1, <1>3, <1>5, <1>6, BecomeKeeps

\* A call that had its effect.
LEMMA AnsweredKeeps ==
  ASSUME Tables, Requests, NEW r \in Request, NEW t, Answered(r, t),
         TablesMove(r), GoesOn(request[r], t), RequestInv(t)',
         t.at \in {"create_group", "insert", "add_rules"} =>
           /\ row' = row
           /\ t.grp = request[r].grp
           /\ t.at # "add_rules" => Creates(r)
           /\ row[t.grp].life = "absent" => Creates(r)
  PROVE  Requests'
<1>1. CASE Become(r, t)
  BY <1>1, BecomeKeeps
<1>2. CASE Become(r, [request[r] EXCEPT !.at = "rollback", !.clean = FALSE])
  BY <1>2, LostKeeps
<1>3. QED
  BY <1>1, <1>2 DEF Answered

\* The commit of an UPDATE.
LEMMA WrittenKeeps ==
  ASSUME Tables, Requests, NEW r \in Request, request[r].grp \in Group,
         Written(r, request[r].grp), NEW new \in Row,
         row' = [row EXCEPT ![request[r].grp] = new],
         UNCHANGED <<link, nic, neutron, port>>,
         row[request[r].grp].life # "absent",
         \/ new.life = row[request[r].grp].life
         \/ new.life = "deleted" /\ neutron[request[r].grp].life = "GONE"
  PROVE  Tables' /\ Requests'
<1> DEFINE h == request[r].grp
<1>1. row' \in [Group -> Row] /\ \A g \in Group : row'[g] = IF g = h THEN new ELSE row[g]
  BY DEF Tables
<1>2. DeletedGroupIsGone'
  <2> SUFFICES ASSUME NEW g \in Group, row'[g].life = "deleted"
               PROVE  neutron[g].life = "GONE"
    BY DEF DeletedGroupIsGone
  <2>1. row[g].life = "deleted" => neutron[g].life = "GONE"
    BY DEF Tables, DeletedGroupIsGone
  <2>2. QED
    BY <1>1, <2>1
<1>3. new.life # "absent"
  OBVIOUS
<1>4. LinksFollowPorts'
  <2> SUFFICES ASSUME NEW n \in Nic, NEW g \in link[n]
               PROVE  row'[g].life # "absent"
    BY DEF Tables, LinksFollowPorts
  <2>1. g \in Group /\ row[g].life # "absent"
    BY DEF Tables, LinksFollowPorts
  <2>2. QED
    BY <1>1, <1>3, <2>1
<1>5. Tables'
  BY <1>1, <1>2, <1>4 DEF Tables, PortsHaveGroups
<1>6. TablesMove(r)
  BY <1>1, <1>3 DEF TablesMove
<1>7. request' \in [Request -> RequestState] /\ OthersStay(r) /\ request'[r] = Idle
  <2>1. ASSUME NEW q \in Request
        PROVE  [request[q] EXCEPT !.stale = TRUE] \in RequestState
    BY FlagsType DEF Requests
  <2>2. request' \in [Request -> RequestState]
    BY <2>1, IdleType DEF Written, Requests
  <2>3. OthersStay(r)
    BY DEF Written, OthersStay, Requests, RequestState
  <2>4. QED
    BY <2>2, <2>3 DEF Written
<1>8. Fits(r)
  <2>1. RequestInv(request[r])'
    BY <1>7 DEF RequestInv, Idle
  <2>2. ASSUME NEW q \in Request \ {r}
        PROVE  /\ Creates(q) => request[q].grp # None
               /\ request[q].at = "create_port" => request[q].nic # None
    BY GroupsAssumption DEF Requests, RequestInv, Creates
  <2>3. QED
    BY <1>7, <2>1, <2>2 DEF Fits, Idle, Creates
<1>9. QED
  BY <1>5, <1>6, <1>7, <1>8, RequestsKept

\* Neutron changes the port of a request: it is deleted, or made, with groups
\* that Neutron has, by the request that creates it.
LEMMA PortKeeps ==
  ASSUME Tables, Requests, NEW r \in Request, NEW P \in Port,
         request[r].nic \in Nic,
         port' = [port EXCEPT ![request[r].nic] = P],
         UNCHANGED <<row, link, nic, neutron>>,
         \/ P.life = "GONE"
         \/ /\ request[r].at = "create_port"
            /\ \A g \in P.grps : neutron[g].life = "EXISTS"
  PROVE  Tables' /\ TablesMove(r)
<1> DEFINE m == request[r].nic
<1>1. port' \in [Nic -> Port] /\ \A n \in Nic : port'[n] = IF n = m THEN P ELSE port[n]
  BY DEF Tables
<1>2. request[r].at = "create_port" => link[m] = {}
  BY DEF Requests, MakesPortAlone, Tables, LinksFollowPorts
<1>3. PortsHaveGroups'
  BY <1>1 DEF Tables, PortsHaveGroups
<1>4. LinksFollowPorts'
  BY <1>1, <1>2 DEF Tables, LinksFollowPorts
<1>5. TablesMove(r)
  BY <1>1 DEF TablesMove
<1>6. QED
  BY <1>1, <1>3, <1>4, <1>5 DEF Tables, DeletedGroupIsGone

\* A handler starts: the group or the interface it is about has a row, or is
\* one that nobody works on.
LEMMA StartKeeps ==
  ASSUME Tables, Requests, NEW r \in Request, NEW t \in RequestState, Start(r, t),
         Untouched, RequestInv(t), t.at \notin {"insert", "add_rules"},
         t.at = "create_group" => row[t.grp].life = "absent" /\ ~Busy(t.grp),
         t.at # "create_group" /\ t.grp # None => row[t.grp].life # "absent",
         t.at = "create_port" => /\ nic[t.nic] = "absent"
                                 /\ \A q \in Request : request[q].nic # t.nic,
         t.at # "create_port" /\ t.nic # None => nic[t.nic] # "absent"
  PROVE  Tables' /\ Requests'
<1>1. ASSUME NEW q \in Request
      PROVE  /\ request[q] \in RequestState
             /\ [request[q] EXCEPT !.clean = FALSE] \in RequestState
  BY FlagsType DEF Requests
<1>2. request' \in [Request -> RequestState] /\ request'[r] = t
  BY <1>1 DEF Start
<1>3. OthersStay(r)
  BY <1>1 DEF Start, OthersStay, RequestState
<1>4. ASSUME NEW q \in Request \ {r}
      PROVE  /\ Creates(q) => request[q].grp # t.grp
             /\ request[q].at = "create_port" => request[q].nic # t.nic
  <2>1. Creates(q) => request[q].grp # None /\ row[request[q].grp].life = "absent"
    BY GroupsAssumption DEF Requests, RequestInv, Creates, CreatesAlone
  <2>2. request[q].at = "create_port" => request[q].nic # None /\ nic[request[q].nic] = "absent"
    BY GroupsAssumption DEF Requests, RequestInv, MakesPortAlone
  <2>3. QED
    BY <2>1, <2>2 DEF Busy
<1>5. RequestInv(request[r])'
  BY <1>2 DEF Untouched, RequestInv
<1>6. Creates(r)' => /\ row'[t.grp].life = "absent"
                     /\ \A q \in Request \ {r} : request[q].grp # t.grp
  BY <1>2 DEF Creates, Untouched, Busy
<1>7. Fits(r)
  BY <1>2, <1>4, <1>5, <1>6 DEF Fits, Untouched
<1>8. QED
  BY <1>2, <1>3, <1>7, UntouchedKeeps, RequestsKept

(***************************************************************************)
(* The handlers start.                                                     *)
(***************************************************************************)

LEMMA CreateGroupStep ==
  ASSUME Tables, Requests, NEW r \in Request, NEW g \in Group, NEW name \in Name,
         NEW rules \in SUBSET Content, CreateGroup(r, g, name, rules)
  PROVE  Tables' /\ Requests'
<1>1. PICK t : t = [Idle EXCEPT !.at = "create_group", !.grp = g, !.name = name,
                                !.rules = rules, !.adding = rules \ DefaultRules]
  OBVIOUS
<1>2. /\ t.at = "create_group" /\ t.grp = g /\ t.nic = None /\ t.doomed = {}
  BY <1>1 DEF Idle
<1>3. t \in RequestState
  BY <1>1, IdleType DEF RequestState, Location
<1>4. Start(r, t) /\ Untouched /\ row[g].life = "absent" /\ ~Busy(g)
  BY <1>1 DEF CreateGroup, Untouched
<1>5. RequestInv(t)
  BY <1>2 DEF RequestInv
<1>6. QED
  BY <1>2, <1>3, <1>4, <1>5, StartKeeps

\* The states of a try that has loaded the row.
LEMMA LoadedType ==
  ASSUME Tables, NEW s \in RequestState, s.grp \in Group, NEW t, t = Loaded(s)
  PROVE  /\ t \in RequestState
         /\ t.at \in {"list", "rename"} /\ t.grp = s.grp /\ t.nic = s.nic
         /\ t.doomed = s.doomed
<1>1. row[s.grp].name \in Name \cup {None}
  BY DEF Tables, Row
<1>2. PICK label \in {"list", "rename"} :
        t = [s EXCEPT !.at = label, !.loaded = row[s.grp].name, !.stale = FALSE]
  BY DEF Loaded
<1>3. label \in Location
  BY <1>2 DEF Location
<1>4. t \in RequestState
  BY <1>1, <1>2, <1>3 DEF RequestState
<1>5. t.at = label /\ t.grp = s.grp /\ t.nic = s.nic /\ t.doomed = s.doomed
  BY <1>2 DEF RequestState
<1>6. QED
  BY <1>2, <1>4, <1>5

LEMMA UpdateGroupStep ==
  ASSUME Tables, Requests, NEW r \in Request, NEW g \in Group, NEW name \in Name,
         NEW rules \in SUBSET Content, UpdateGroup(r, g, name, rules)
  PROVE  Tables' /\ Requests'
<1>1. PICK clean \in BOOLEAN : clean = InOrder(g)
  BY DEF InOrder
<1>2. PICK before : before = [name |-> row[g].name, rules |-> Contents(neutron[g])]
  OBVIOUS
<1>3. PICK s : s = [Idle EXCEPT !.grp = g, !.name = name, !.rules = rules,
                                !.clean = clean, !.before = before]
  OBVIOUS
<1>4. before \in [name : Name \cup {None}, rules : SUBSET Content]
  BY <1>2 DEF Tables, Row, NeutronGroup, Rule, Contents
<1>5. s \in RequestState /\ s.grp = g /\ s.nic = None /\ s.doomed = {}
  <2>1. s \in RequestState
    BY <1>3, <1>4, IdleType DEF RequestState
  <2>2. s.grp = g /\ s.nic = None /\ s.doomed = {}
    BY <1>3 DEF Idle
  <2>3. QED
    BY <2>1, <2>2
<1>6. PICK t : t = Loaded(s)
  OBVIOUS
<1>7. /\ t \in RequestState
      /\ t.at \in {"list", "rename"} /\ t.grp = g /\ t.nic = None /\ t.doomed = {}
  BY <1>5, <1>6, LoadedType
<1>8. Start(r, t) /\ Untouched /\ row[g].life = "live"
  BY <1>1, <1>2, <1>3, <1>6 DEF UpdateGroup, MayUpdate, Untouched
<1>9. RequestInv(t)
  BY <1>7, <1>8 DEF RequestInv
<1>10. QED
  BY <1>7, <1>8, <1>9, StartKeeps

LEMMA DeleteGroupStep ==
  ASSUME Tables, Requests, NEW r \in Request, NEW g \in Group, DeleteGroup(r, g)
  PROVE  Tables' /\ Requests'
<1>1. PICK t : t = [Idle EXCEPT !.at = "delete_group", !.grp = g]
  OBVIOUS
<1>2. t.at = "delete_group" /\ t.grp = g /\ t.nic = None /\ t.doomed = {}
  BY <1>1 DEF Idle
<1>3. t \in RequestState
  BY <1>1, IdleType DEF RequestState, Location
<1>4. Start(r, t) /\ Untouched /\ row[g].life = "live"
  BY <1>1 DEF DeleteGroup, Untouched
<1>5. RequestInv(t)
  BY <1>2, <1>4 DEF RequestInv
<1>6. QED
  BY <1>2, <1>3, <1>4, <1>5, StartKeeps

LEMMA CreateServerStep ==
  ASSUME Tables, Requests, NEW r \in Request, NEW n \in Nic, NEW grps \in SUBSET Group,
         CreateServer(r, n, grps)
  PROVE  Tables' /\ Requests'
<1>1. PICK t : t = [Idle EXCEPT !.at = "create_port", !.nic = n, !.grps = grps]
  OBVIOUS
<1>2. t.at = "create_port" /\ t.grp = None /\ t.nic = n /\ t.grps = grps /\ t.doomed = {}
  BY <1>1 DEF Idle
<1>3. t \in RequestState
  BY <1>1, IdleType DEF RequestState, Location
<1>4. /\ Start(r, t) /\ Untouched /\ nic[n] = "absent"
      /\ \A q \in Request : request[q].nic # n
      /\ \A g \in grps : row[g].life = "live"
  BY <1>1 DEF CreateServer, Untouched
<1>5. RequestInv(t)
  BY <1>2, <1>4 DEF RequestInv
<1>6. QED
  BY <1>2, <1>3, <1>4, <1>5, StartKeeps

LEMMA RemoveNicStep ==
  ASSUME Tables, Requests, NEW r \in Request, NEW n \in Nic, RemoveNic(r, n)
  PROVE  Tables' /\ Requests'
<1>1. PICK t : t = [Idle EXCEPT !.at = "delete_port", !.nic = n]
  OBVIOUS
<1>2. t.at = "delete_port" /\ t.grp = None /\ t.nic = n /\ t.doomed = {}
  BY <1>1 DEF Idle
<1>3. t \in RequestState
  BY <1>1, IdleType DEF RequestState, Location
<1>4. Start(r, t) /\ Untouched /\ nic[n] = "live"
  BY <1>1 DEF RemoveNic, Untouched
<1>5. RequestInv(t)
  BY <1>2 DEF RequestInv
<1>6. QED
  BY <1>2, <1>3, <1>4, <1>5, StartKeeps

(***************************************************************************)
(* The steps of a creation.                                                *)
(***************************************************************************)

LEMMA NeutronCreateGroupStep ==
  ASSUME Tables, Requests, NEW r \in Request, NeutronCreateGroup(r)
  PROVE  Tables' /\ Requests'
<1> DEFINE s == request[r]
           made == [life |-> "EXISTS", name |-> s.name, made |-> 0,
                    rules |-> [content : DefaultRules, id : {0}]]
<1>1. s \in RequestState /\ s.at = "create_group" /\ s.grp \in Group /\ s.doomed = {}
  BY DEF NeutronCreateGroup, Requests, RequestInv
<1>2. CASE Raise(r) /\ UNCHANGED neutron
  <2>1. Untouched
    BY <1>2 DEF NeutronCreateGroup, GroupCall, Untouched
  <2>2. QED
    BY <1>2, <2>1, RaiseKeeps
<1>3. ASSUME neutron' = [neutron EXCEPT ![s.grp] = made],
             Answered(r, [s EXCEPT !.at = IF s.adding = {} THEN "insert" ELSE "add_rules",
                                   !.tasks = AddTask(@, [undo |-> "delete_group"])])
      PROVE  Tables' /\ Requests'
  <2>1. PICK tasks : tasks = AddTask(s.tasks, [undo |-> "delete_group"])
    OBVIOUS
  <2>2. tasks \in Seq(Task)
    <3>1. [undo |-> "delete_group"] \in Task /\ s.tasks \in Seq(Task)
      BY <1>1 DEF Task, RequestState
    <3>2. QED
      BY <2>1, <3>1, TasksType
  <2>3. PICK label \in {"insert", "add_rules"} :
          label = IF s.adding = {} THEN "insert" ELSE "add_rules"
    OBVIOUS
  <2>4. PICK t : t = [s EXCEPT !.at = label, !.tasks = tasks]
    OBVIOUS
  <2>5. Answered(r, t)
    BY <1>3, <2>1, <2>3, <2>4
  <2>6. /\ t.at = label /\ t.grp = s.grp /\ t.nic = s.nic /\ t.doomed = {}
        /\ t \in RequestState
    <3>1. label \in Location
      BY <2>3 DEF Location
    <3>2. QED
      BY <1>1, <2>2, <2>4, <3>1 DEF RequestState
  <2>7. made \in NeutronGroup
    <3>1. [content : DefaultRules, id : {0}] \in SUBSET Rule /\ 0 \in 0..Quota
      BY GroupsAssumption DEF Rule
    <3>2. s.name \in Name \cup {None}
      BY <1>1 DEF RequestState
    <3>3. QED
      BY <3>1, <3>2 DEF NeutronGroup
  <2>8. UNCHANGED <<row, link, nic, port>>
    BY DEF NeutronCreateGroup, GroupCall
  <2>9. Tables' /\ TablesMove(r)
    BY <1>1, <1>3, <2>7, <2>8, NeutronKeeps
  <2>10. RequestInv(t)'
    BY <1>1, <2>3, <2>6 DEF RequestInv
  <2>11. GoesOn(s, t) /\ Creates(r)
    BY <1>1, <2>3, <2>6 DEF GoesOn, Creates
  <2> HIDE DEF s
  <2>12. QED
    BY <2>5, <2>6, <2>8, <2>9, <2>10, <2>11, AnsweredKeeps DEF s
<1>4. QED
  BY <1>2, <1>3 DEF NeutronCreateGroup, GroupCall

LEMMA InsertGroupStep ==
  ASSUME Tables, Requests, NEW r \in Request, InsertGroup(r)
  PROVE  Tables' /\ Requests'
<1> DEFINE s == request[r]
           new == [life |-> "live", name |-> s.name]
<1>1. /\ s \in RequestState /\ s.at = "insert" /\ s.grp \in Group
      /\ row[s.grp].life = "absent"
  BY DEF InsertGroup, Requests, RequestInv, CreatesAlone, Creates
<1>2. CASE Raise(r) /\ UNCHANGED row
  <2>1. Untouched
    BY <1>2 DEF InsertGroup, Untouched
  <2>2. QED
    BY <1>2, <2>1, RaiseKeeps
<1>3. ASSUME row' = [row EXCEPT ![s.grp] = new], Finish(r)
      PROVE  Tables' /\ Requests'
  <2>1. UNCHANGED <<link, nic, neutron, port>>
    BY DEF InsertGroup
  <2>2. new \in Row
    BY <1>1 DEF Row, RequestState
  <2>3. /\ row' \in [Group -> Row]
        /\ \A g \in Group : row'[g] = IF g = s.grp THEN new ELSE row[g]
    BY <1>3, <2>2 DEF Tables
  <2>4. Tables'
    BY <2>1, <2>3 DEF Tables, PortsHaveGroups, LinksFollowPorts, DeletedGroupIsGone
  <2>5. TablesMove(r)
    BY <2>1, <2>3 DEF TablesMove
  <2>6. QED
    BY <1>3, <2>4, <2>5, FinishKeeps
<1>4. QED
  BY <1>2, <1>3 DEF InsertGroup

(***************************************************************************)
(* The steps of an update.                                                 *)
(***************************************************************************)

LEMMA TryAgainStep ==
  ASSUME Tables, Requests, NEW r \in Request, TryAgain(r)
  PROVE  Tables' /\ Requests'
<1> DEFINE s == request[r]
<1>1. /\ s \in RequestState /\ s.at = "retry" /\ s.grp \in Group /\ s.doomed = {}
      /\ row[s.grp].life # "absent"
  BY DEF TryAgain, Requests, RequestInv
<1>2. Untouched
  BY DEF TryAgain, Untouched
<1>3. CASE Become(r, Loaded(s))
  <2>1. PICK t : t = Loaded(s)
    OBVIOUS
  <2>2. /\ t \in RequestState
        /\ t.at \in {"list", "rename"} /\ t.grp = s.grp /\ t.nic = s.nic /\ t.doomed = {}
    BY <1>1, <2>1, LoadedType
  <2>3. RequestInv(t)'
    BY <1>1, <1>2, <2>2 DEF RequestInv, Untouched
  <2>4. GoesOn(s, t)
    BY <2>2 DEF GoesOn
  <2>5. Become(r, t)
    BY <1>3, <2>1
  <2>6. QED
    BY <1>2, <2>2, <2>3, <2>4, <2>5, BecomeKeeps, UntouchedKeeps
<1>4. CASE Raise(r)
  BY <1>2, <1>4, RaiseKeeps
<1>5. QED
  BY <1>3, <1>4 DEF TryAgain

LEMMA RenameGroupStep ==
  ASSUME Tables, Requests, NEW r \in Request, RenameGroup(r)
  PROVE  Tables' /\ Requests'
<1> DEFINE s == request[r]
           G == neutron[s.grp]
<1>1. /\ s \in RequestState /\ s.at = "rename" /\ s.grp \in Group /\ s.doomed = {}
      /\ row[s.grp].life # "absent" /\ G \in NeutronGroup
  BY DEF RenameGroup, Requests, RequestInv, Tables
<1>2. UNCHANGED <<row, link, nic, port>>
  BY DEF RenameGroup, GroupCall
<1>3. CASE Raise(r) /\ UNCHANGED neutron
  BY <1>2, <1>3, RaiseKeeps DEF Untouched
<1>4. ASSUME G.life = "EXISTS",
             neutron' = [neutron EXCEPT ![s.grp] = [G EXCEPT !.name = s.name]],
             Answered(r, [s EXCEPT !.at = "list", !.tasks = AddTask(@, UndoRename(s))])
      PROVE  Tables' /\ Requests'
  <2>1. PICK tasks : tasks = AddTask(s.tasks, UndoRename(s))
    OBVIOUS
  <2>2. tasks \in Seq(Task)
    <3>1. UndoRename(s) \in Task /\ s.tasks \in Seq(Task)
      BY <1>1 DEF Task, RequestState, UndoRename
    <3>2. QED
      BY <2>1, <3>1, TasksType
  <2>3. PICK t : t = [s EXCEPT !.at = "list", !.tasks = tasks]
    OBVIOUS
  <2>4. Answered(r, t)
    BY <1>4, <2>1, <2>3
  <2>5. /\ t.at = "list" /\ t.grp = s.grp /\ t.nic = s.nic /\ t.doomed = {}
        /\ t \in RequestState
    BY <1>1, <2>2, <2>3 DEF RequestState, Location
  <2>6. /\ [G EXCEPT !.name = s.name] \in NeutronGroup
        /\ [G EXCEPT !.name = s.name].life = G.life
    <3>1. s.name \in Name \cup {None}
      BY <1>1 DEF RequestState
    <3>2. QED
      BY <1>1, <3>1, NeutronType DEF NeutronGroup
  <2>7. Tables' /\ TablesMove(r)
    BY <1>1, <1>2, <1>4, <2>6, NeutronKeeps
  <2>8. RequestInv(t)'
    BY <1>1, <1>2, <2>5 DEF RequestInv
  <2>9. GoesOn(s, t)
    BY <2>5 DEF GoesOn
  <2>10. QED
    BY <2>4, <2>5, <2>7, <2>8, <2>9, AnsweredKeeps
<1>5. QED
  BY <1>3, <1>4 DEF RenameGroup, GroupCall

LEMMA ListRulesStep ==
  ASSUME Tables, Requests, NEW r \in Request, ListRules(r)
  PROVE  Tables' /\ Requests'
<1> DEFINE s == request[r]
           doomed == {x \in neutron[s.grp].rules : x.content \notin s.rules}
           adding == s.rules \ Contents(neutron[s.grp])
           listed == [s EXCEPT !.doomed = doomed, !.adding = adding]
           at == IF doomed # {} THEN "delete_rules" ELSE AfterDeletions(listed)
<1>1. /\ s \in RequestState /\ s.at = "list" /\ s.grp \in Group
      /\ row[s.grp].life # "absent" /\ neutron[s.grp] \in NeutronGroup
  BY DEF ListRules, Requests, RequestInv, Tables
<1>2. Untouched
  BY DEF ListRules, Untouched
<1>3. CASE Raise(r)
  BY <1>2, <1>3, RaiseKeeps
<1>4. CASE Become(r, [listed EXCEPT !.at = at])
  <2>1. doomed \in SUBSET Rule /\ adding \in SUBSET Content
    BY <1>1 DEF NeutronGroup, RequestState
  <2> HIDE DEF doomed, adding
  <2>2. PICK u : u = listed
    OBVIOUS
  <2>3. /\ u \in RequestState
        /\ u.grp = s.grp /\ u.nic = s.nic /\ u.doomed = doomed
    BY <1>1, <2>1, <2>2 DEF RequestState
  <2>4. PICK label \in {"delete_rules", "save", "add_rules"} :
          label = at /\ (doomed # {} => label = "delete_rules")
    BY DEF AfterDeletions
  <2>5. PICK t : t = [u EXCEPT !.at = label]
    OBVIOUS
  <2>6. label \in Location
    BY <2>4 DEF Location
  <2>7. /\ t \in RequestState
        /\ t.at = label /\ t.grp = s.grp /\ t.nic = s.nic /\ t.doomed = doomed
    BY <2>3, <2>5, <2>6, LabelType
  <2>8. RequestInv(t)'
    BY <1>1, <1>2, <2>4, <2>7 DEF RequestInv, Untouched
  <2>9. GoesOn(s, t)
    BY <2>4, <2>7 DEF GoesOn
  <2>10. Become(r, t)
    BY <1>4, <2>2, <2>4, <2>5
  <2>11. QED
    BY <1>1, <1>2, <2>4, <2>7, <2>8, <2>9, <2>10, BecomeKeeps, UntouchedKeeps DEF Untouched
<1>5. QED
  BY <1>3, <1>4 DEF ListRules

\* Where the answer of a deletion leaves its request.
LEMMA SettledType ==
  ASSUME NEW s \in RequestState, s.at \in {"delete_rules", "raise", "rollback"},
         NEW x \in s.doomed, NEW deleted \in BOOLEAN, NEW t, t = Settled(s, x, deleted)
  PROVE  /\ t \in RequestState
         /\ t.grp = s.grp /\ t.nic = s.nic /\ t.doomed = s.doomed \ {x}
         /\ \/ t.at = s.at
            \/ t.doomed = {} /\ s.at = "delete_rules" /\ t.at \in {"save", "add_rules", "rollback"}
<1>1. PICK failed \in BOOLEAN : failed = (s.failed \/ ~deleted)
  OBVIOUS
<1>2. PICK tasks : tasks = IF deleted /\ s.at # "rollback"
                             THEN AddTask(s.tasks, [undo |-> "create_rule", content |-> x.content])
                             ELSE s.tasks
  OBVIOUS
<1>3. tasks \in Seq(Task)
  <2>1. s.tasks \in Seq(Task) /\ x \in Rule
    BY DEF RequestState
  <2>2. [undo |-> "create_rule", content |-> x.content] \in Task
    BY <2>1 DEF Task, Rule
  <2>3. QED
    BY <1>2, <2>1, <2>2, TasksType
<1>4. PICK u : u = [s EXCEPT !.doomed = s.doomed \ {x}, !.failed = failed, !.tasks = tasks]
  OBVIOUS
<1>5. /\ u \in RequestState
      /\ u.at = s.at /\ u.grp = s.grp /\ u.nic = s.nic /\ u.doomed = s.doomed \ {x}
  BY <1>3, <1>4 DEF RequestState
<1>6. t = IF s.at # "delete_rules" \/ u.doomed # {} THEN u
          ELSE [u EXCEPT !.at = IF u.failed THEN "rollback" ELSE AfterDeletions(u)]
  BY <1>1, <1>2, <1>4 DEF Settled
<1>7. CASE s.at # "delete_rules" \/ u.doomed # {}
  BY <1>5, <1>6, <1>7
<1>8. CASE s.at = "delete_rules" /\ u.doomed = {}
  <2>1. PICK label \in {"save", "add_rules", "rollback"} : t = [u EXCEPT !.at = label]
    BY <1>6, <1>8 DEF AfterDeletions
  <2>2. label \in Location
    BY <2>1 DEF Location
  <2>3. t \in RequestState /\ t.at = label /\ t.grp = u.grp /\ t.nic = u.nic /\ t.doomed = u.doomed
    BY <1>5, <2>1, <2>2, LabelType
  <2>4. QED
    BY <1>5, <1>8, <2>1, <2>3
<1>9. QED
  BY <1>7, <1>8

\* Where a lost answer of a deletion leaves its request.
LEMMA DroppedType ==
  ASSUME NEW s \in RequestState, s.at \in {"delete_rules", "raise", "rollback"},
         NEW x \in s.doomed, NEW t, t = Dropped(s, x)
  PROVE  /\ t \in RequestState
         /\ t.grp = s.grp /\ t.nic = s.nic /\ t.doomed = s.doomed \ {x}
         /\ t.at \in {"raise", "rollback"}
<1>1. PICK label \in {"raise", "rollback"} :
        t = [s EXCEPT !.doomed = s.doomed \ {x}, !.at = label, !.clean = FALSE]
  <2>1. PICK label : label = IF s.at # "delete_rules" THEN s.at
                             ELSE IF s.doomed = {x} THEN "rollback" ELSE "raise"
    OBVIOUS
  <2>2. label \in {"raise", "rollback"}
    BY <2>1
  <2>3. t = [s EXCEPT !.doomed = s.doomed \ {x}, !.at = label, !.clean = FALSE]
    BY <2>1 DEF Dropped
  <2>4. QED
    BY <2>2, <2>3
<1>2. label \in Location
  BY <1>1 DEF Location
<1>3. PICK u : u = [s EXCEPT !.doomed = s.doomed \ {x}, !.clean = FALSE]
  OBVIOUS
<1>4. u \in RequestState /\ u.grp = s.grp /\ u.nic = s.nic /\ u.doomed = s.doomed \ {x}
  BY <1>3 DEF RequestState
<1>5. t = [u EXCEPT !.at = label]
  BY <1>1, <1>3 DEF RequestState
<1>6. /\ t \in RequestState
      /\ t.grp = s.grp /\ t.nic = s.nic /\ t.doomed = s.doomed \ {x} /\ t.at = label
  BY <1>2, <1>4, <1>5, LabelType
<1>7. QED
  BY <1>1, <1>6

LEMMA DeleteRuleStep ==
  ASSUME Tables, Requests, NEW r \in Request, NEW x, DeleteRule(r, x)
  PROVE  Tables' /\ Requests'
<1> DEFINE s == request[r]
           G == neutron[s.grp]
<1>1. /\ s \in RequestState /\ x \in s.doomed
      /\ s.at \in {"delete_rules", "raise", "rollback"} /\ s.grp \in Group
      /\ s.at = "delete_rules" => row[s.grp].life # "absent"
      /\ G \in NeutronGroup
  BY DEF DeleteRule, Requests, RequestInv, Tables
<1>2. UNCHANGED <<row, link, nic, port>>
  BY DEF DeleteRule
<1>3. neutron' = neutron \/ neutron' = [neutron EXCEPT ![s.grp] = Without(G, x)]
  BY DEF DeleteRule
<1>4. Tables' /\ TablesMove(r)
  <2>1. CASE neutron' = neutron
    BY <1>2, <2>1, UntouchedKeeps DEF Untouched
  <2>2. CASE neutron' = [neutron EXCEPT ![s.grp] = Without(G, x)]
    <3>1. Without(G, x) \in NeutronGroup
      BY <1>1, NeutronType, GroupsAssumption
    <3>2. Without(G, x).life = G.life
      BY <1>1 DEF Without, NeutronGroup
    <3>3. QED
      BY <1>1, <1>2, <2>2, <3>1, <3>2, NeutronKeeps
  <2>3. QED
    BY <1>3, <2>1, <2>2
<1>5. PICK t :
        /\ Become(r, t)
        /\ t = Dropped(s, x) \/ \E deleted \in BOOLEAN : t = Settled(s, x, deleted)
  BY DEF DeleteRule
<1>6. /\ t \in RequestState
      /\ t.grp = s.grp /\ t.nic = s.nic /\ t.doomed = s.doomed \ {x}
      /\ \/ t.at \in {"raise", "rollback"}
         \/ t.at = "delete_rules" /\ s.at = "delete_rules"
         \/ t.doomed = {} /\ s.at = "delete_rules" /\ t.at \in {"save", "add_rules"}
  <2>1. CASE t = Dropped(s, x)
    BY <1>1, <2>1, DroppedType
  <2>2. CASE \E deleted \in BOOLEAN : t = Settled(s, x, deleted)
    BY <1>1, <2>2, SettledType
  <2>3. QED
    BY <1>5, <2>1, <2>2
<1>7. RequestInv(t)'
  BY <1>1, <1>2, <1>6 DEF RequestInv
<1>8. GoesOn(s, t)
  BY <1>6 DEF GoesOn
<1>9. QED
  BY <1>1, <1>2, <1>4, <1>5, <1>6, <1>7, <1>8, BecomeKeeps

LEMMA AddRulesStep ==
  ASSUME Tables, Requests, NEW r \in Request, AddRules(r)
  PROVE  Tables' /\ Requests'
<1> DEFINE s == request[r]
           G == neutron[s.grp]
           H == WithRules(G, s.adding)
           next(last) == IF row[s.grp].life = "absent" THEN [s EXCEPT !.at = "insert"]
                         ELSE [s EXCEPT !.at = "save", !.tasks = UndoAdded(@, s.adding, last)]
<1>1. /\ s \in RequestState /\ s.at = "add_rules" /\ s.grp \in Group /\ s.doomed = {}
      /\ G \in NeutronGroup
  BY DEF AddRules, Requests, RequestInv, Tables
<1>2. UNCHANGED <<row, link, nic, port>>
  BY DEF AddRules, GroupCall
<1>3. CASE Raise(r) /\ UNCHANGED neutron
  BY <1>2, <1>3, RaiseKeeps DEF Untouched
<1>4. ASSUME NEW last \in H.rules \ G.rules, TakesRules(s.grp, s.adding),
             neutron' = [neutron EXCEPT ![s.grp] = H], Answered(r, next(last))
      PROVE  Tables' /\ Requests'
  <2>1. H \in NeutronGroup /\ H.life = G.life
    <3>1. G.made < Quota /\ s.adding \in SUBSET Content
      BY <1>1, <1>4 DEF TakesRules, RequestState
    <3>2. H \in NeutronGroup
      BY <1>1, <3>1, NeutronType, GroupsAssumption
    <3>3. H.life = G.life
      BY <1>1 DEF WithRules, NeutronGroup
    <3>4. QED
      BY <3>2, <3>3
  <2>2. Tables' /\ TablesMove(r)
    BY <1>1, <1>2, <1>4, <2>1, NeutronKeeps
  <2>3. PICK tasks : tasks = UndoAdded(s.tasks, s.adding, last)
    OBVIOUS
  <2>4. tasks \in Seq(Task)
    <3>1. s.adding \in SUBSET Content /\ s.tasks \in Seq(Task)
      BY <1>1 DEF RequestState
    <3>2. IsFiniteSet(s.adding)
      BY <3>1, GroupsAssumption, FS_Subset
    <3>3. Cardinality(s.adding) \in Nat
      BY <3>2, FS_CardinalityType
    <3>4. [undo |-> "delete_rule", rule |-> last] \in Task
      BY <1>4, <2>1 DEF NeutronGroup, Task
    <3> HIDE DEF s
    <3>5. QED
      BY <2>3, <3>1, <3>3, <3>4, TasksType DEF UndoAdded
  <2>5. PICK t : t = next(last)
    OBVIOUS
  <2>6. /\ t \in RequestState /\ t.grp = s.grp /\ t.nic = s.nic /\ t.doomed = {}
        /\ t.at = IF row[s.grp].life = "absent" THEN "insert" ELSE "save"
    <3>1. CASE row[s.grp].life = "absent"
      <4>1. t = [s EXCEPT !.at = "insert"] /\ "insert" \in Location
        BY <2>5, <3>1 DEF Location
      <4>2. QED
        BY <1>1, <3>1, <4>1, LabelType
    <3>2. CASE row[s.grp].life # "absent"
      <4>1. t = [s EXCEPT !.at = "save", !.tasks = tasks]
        BY <2>3, <2>5, <3>2
      <4>2. t \in RequestState
        BY <1>1, <2>4, <4>1 DEF RequestState, Location
      <4>3. t.grp = s.grp /\ t.nic = s.nic /\ t.doomed = {} /\ t.at = "save"
        BY <1>1, <4>1 DEF RequestState
      <4>4. QED
        BY <3>2, <4>2, <4>3
    <3>3. QED
      BY <3>1, <3>2
  <2>7. RequestInv(t)'
    BY <1>1, <1>2, <2>6 DEF RequestInv
  <2>8. GoesOn(s, t)
    BY <1>1, <2>6 DEF GoesOn
  <2>9. t.at = "insert" => Creates(r)
    BY <1>1, <2>6 DEF Creates
  <2>10. Answered(r, t)
    BY <1>4, <2>5
  <2>11. QED
    BY <1>2, <2>2, <2>6, <2>7, <2>8, <2>9, <2>10, AnsweredKeeps
<1>5. QED
  BY <1>3, <1>4 DEF AddRules, GroupCall

LEMMA SaveGroupStep ==
  ASSUME Tables, Requests, NEW r \in Request, SaveGroup(r)
  PROVE  Tables' /\ Requests'
<1> DEFINE s == request[r]
<1>1. /\ s \in RequestState /\ s.at = "save" /\ s.grp \in Group /\ s.doomed = {}
      /\ row[s.grp].life # "absent" /\ row[s.grp] \in Row
  BY DEF SaveGroup, Requests, RequestInv, Tables
<1>2. UNCHANGED <<link, nic, neutron, port>>
  BY DEF SaveGroup
<1>3. CASE Finish(r) /\ UNCHANGED row
  BY <1>2, <1>3, FinishKeeps, UntouchedKeeps DEF Untouched
<1>4. ASSUME row' = [row EXCEPT ![s.grp].name = s.name], Written(r, s.grp)
      PROVE  Tables' /\ Requests'
  <2>1. PICK new : new = [row[s.grp] EXCEPT !.name = s.name]
    OBVIOUS
  <2>2. new \in Row /\ new.life = row[s.grp].life
    <3>1. s.name \in Name \cup {None}
      BY <1>1 DEF RequestState
    <3>2. QED
      BY <1>1, <2>1, <3>1 DEF Row
  <2>3. row' = [row EXCEPT ![s.grp] = new]
    BY <1>4, <2>1
  <2>4. QED
    BY <1>1, <1>2, <1>4, <2>2, <2>3, WrittenKeeps
<1>5. ASSUME MayRetry(s), Become(r, Retried(s)), UNCHANGED row
      PROVE  Tables' /\ Requests'
  <2>1. PICK tries : tries = s.tries + 1
    OBVIOUS
  <2>2. tries \in 1..MaxTries
    <3>1. s.tries \in 1..MaxTries /\ s.tries < MaxTries
      BY <1>1, <1>5 DEF MayRetry, RequestState
    <3> HIDE DEF s
    <3>2. QED
      BY <2>1, <3>1, GroupsAssumption
  <2>3. PICK t : t = [s EXCEPT !.at = "retry", !.failed = FALSE, !.adding = {}, !.tries = tries]
    OBVIOUS
  <2>4. t.at = "retry" /\ t.grp = s.grp /\ t.nic = s.nic /\ t.doomed = {}
    BY <1>1, <2>3 DEF RequestState
  <2>5. t \in RequestState
    BY <1>1, <2>2, <2>3 DEF RequestState, Location
  <2>6. RequestInv(t)'
    BY <1>1, <1>5, <2>4 DEF RequestInv
  <2>7. GoesOn(s, t)
    BY <2>4, <2>5 DEF GoesOn
  <2>8. Become(r, t)
    BY <1>5, <2>1, <2>3 DEF Retried
  <2>9. QED
    BY <1>2, <1>5, <2>4, <2>6, <2>7, <2>8, BecomeKeeps, UntouchedKeeps DEF Untouched
<1>6. CASE Raise(r) /\ UNCHANGED row
  BY <1>2, <1>6, RaiseKeeps DEF Untouched
<1>7. QED
  BY <1>3, <1>4, <1>5, <1>6 DEF SaveGroup

(***************************************************************************)
(* The steps of a deletion.                                                *)
(***************************************************************************)

LEMMA NeutronDeleteGroupStep ==
  ASSUME Tables, Requests, NEW r \in Request, NeutronDeleteGroup(r)
  PROVE  Tables' /\ Requests'
<1> DEFINE s == request[r]
           G == Deleted(neutron[s.grp])
<1>1. /\ s \in RequestState /\ s.at = "delete_group" /\ s.grp \in Group /\ s.doomed = {}
      /\ row[s.grp].life # "absent" /\ neutron[s.grp] \in NeutronGroup
  BY DEF NeutronDeleteGroup, Requests, RequestInv, Tables
<1>2. UNCHANGED <<row, link, nic, port>>
  BY DEF NeutronDeleteGroup, GroupCall
<1>3. CASE Raise(r) /\ UNCHANGED neutron
  BY <1>2, <1>3, RaiseKeeps DEF Untouched
<1>4. ASSUME Deletable(s.grp), neutron' = [neutron EXCEPT ![s.grp] = G],
             Answered(r, [s EXCEPT !.at = "soft_delete"])
      PROVE  Tables' /\ Requests'
  <2>1. G \in NeutronGroup /\ G.life = "GONE"
    <3>1. G \in NeutronGroup
      BY <1>1, NeutronType, GroupsAssumption
    <3>2. G.life = "GONE"
      BY <1>1 DEF Deleted, NeutronGroup
    <3>3. QED
      BY <3>1, <3>2
  <2>2. Tables' /\ TablesMove(r)
    BY <1>1, <1>2, <1>4, <2>1, NeutronKeeps
  <2>3. PICK t : t = [s EXCEPT !.at = "soft_delete"]
    OBVIOUS
  <2>4. /\ t \in RequestState
        /\ t.at = "soft_delete" /\ t.grp = s.grp /\ t.nic = s.nic /\ t.doomed = {}
    BY <1>1, <2>3, LabelType DEF Location
  <2>5. neutron'[s.grp].life = "GONE"
    BY <1>1, <1>4, <2>1 DEF Tables
  <2>6. RequestInv(t)'
    BY <1>1, <1>2, <2>4, <2>5 DEF RequestInv
  <2>7. GoesOn(s, t)
    BY <2>4 DEF GoesOn
  <2>8. Answered(r, t)
    BY <1>4, <2>3
  <2>9. QED
    BY <2>2, <2>4, <2>6, <2>7, <2>8, AnsweredKeeps
<1>5. QED
  BY <1>3, <1>4 DEF NeutronDeleteGroup, GroupCall

LEMMA SoftDeleteGroupStep ==
  ASSUME Tables, Requests, NEW r \in Request, SoftDeleteGroup(r)
  PROVE  Tables' /\ Requests'
<1> DEFINE s == request[r]
<1>1. /\ s.at = "soft_delete" /\ s.grp \in Group /\ neutron[s.grp].life = "GONE"
      /\ row[s.grp].life # "absent" /\ row[s.grp] \in Row
  BY DEF SoftDeleteGroup, Requests, RequestInv, Tables
<1>2. UNCHANGED <<link, nic, neutron, port>>
  BY DEF SoftDeleteGroup
<1>3. CASE Raise(r) /\ UNCHANGED row
  BY <1>2, <1>3, RaiseKeeps DEF Untouched
<1>4. ASSUME row' = [row EXCEPT ![s.grp].life = "deleted"], Written(r, s.grp)
      PROVE  Tables' /\ Requests'
  <2>1. PICK new : new = [row[s.grp] EXCEPT !.life = "deleted"]
    OBVIOUS
  <2>2. new \in Row /\ new.life = "deleted"
    BY <1>1, <2>1 DEF Row
  <2>3. row' = [row EXCEPT ![s.grp] = new]
    BY <1>4, <2>1
  <2>4. QED
    BY <1>1, <1>2, <1>4, <2>2, <2>3, WrittenKeeps
<1>5. QED
  BY <1>3, <1>4 DEF SoftDeleteGroup

(***************************************************************************)
(* The steps of a server's network interface.                              *)
(***************************************************************************)

LEMMA NeutronCreatePortStep ==
  ASSUME Tables, Requests, NEW r \in Request, NeutronCreatePort(r)
  PROVE  Tables' /\ Requests'
<1> DEFINE s == request[r]
           P == [life |-> "EXISTS", grps |-> s.grps]
<1>1. /\ s \in RequestState /\ s.at = "create_port" /\ s.nic \in Nic /\ s.doomed = {}
      /\ \A g \in s.grps : row[g].life # "absent"
  BY DEF NeutronCreatePort, Requests, RequestInv
<1>2. UNCHANGED <<row, link, nic, neutron>>
  BY DEF NeutronCreatePort, PortCall
<1>3. CASE Raise(r) /\ UNCHANGED port
  BY <1>2, <1>3, RaiseKeeps DEF Untouched
<1>4. ASSUME \A g \in s.grps : neutron[g].life = "EXISTS",
             port' = [port EXCEPT ![s.nic] = P],
             Answered(r, [s EXCEPT !.at = "link",
                                   !.tasks = AddTask(@, [undo |-> "delete_port"])])
      PROVE  Tables' /\ Requests'
  <2>1. P \in Port
    BY <1>1 DEF Port, RequestState
  <2>2. Tables' /\ TablesMove(r)
    BY <1>1, <1>2, <1>4, <2>1, PortKeeps
  <2>3. PICK tasks : tasks = AddTask(s.tasks, [undo |-> "delete_port"])
    OBVIOUS
  <2>4. tasks \in Seq(Task)
    <3>1. [undo |-> "delete_port"] \in Task /\ s.tasks \in Seq(Task)
      BY <1>1 DEF Task, RequestState
    <3>2. QED
      BY <2>3, <3>1, TasksType
  <2>5. PICK t : t = [s EXCEPT !.at = "link", !.tasks = tasks]
    OBVIOUS
  <2>6. t \in RequestState
    BY <1>1, <2>4, <2>5 DEF RequestState, Location
  <2>7. t.at = "link" /\ t.grp = s.grp /\ t.nic = s.nic /\ t.grps = s.grps /\ t.doomed = {}
    BY <1>1, <2>5 DEF RequestState
  <2>8. port'[s.nic] = P
    BY <1>1, <1>4 DEF Tables
  <2>9. RequestInv(t)'
    BY <1>1, <1>2, <2>7, <2>8 DEF RequestInv
  <2>10. GoesOn(s, t)
    BY <2>6, <2>7 DEF GoesOn
  <2>11. Answered(r, t)
    BY <1>4, <2>3, <2>5
  <2>12. QED
    BY <2>2, <2>7, <2>9, <2>10, <2>11, AnsweredKeeps
<1>5. QED
  BY <1>3, <1>4 DEF NeutronCreatePort, PortCall

LEMMA LinkGroupsStep ==
  ASSUME Tables, Requests, NEW r \in Request, LinkGroups(r)
  PROVE  Tables' /\ Requests'
<1> DEFINE s == request[r]
<1>1. /\ s \in RequestState /\ s.at = "link" /\ s.nic \in Nic
      /\ \A g \in s.grps : row[g].life # "absent"
      /\ port[s.nic].life = "EXISTS" => s.grps \subseteq port[s.nic].grps
  BY DEF LinkGroups, Requests, RequestInv
<1>2. UNCHANGED <<row, neutron, port>>
  BY DEF LinkGroups
<1>3. CASE Raise(r) /\ UNCHANGED <<link, nic>>
  BY <1>2, <1>3, RaiseKeeps DEF Untouched
<1>4. ASSUME link' = [link EXCEPT ![s.nic] = s.grps], nic' = [nic EXCEPT ![s.nic] = "live"],
             Finish(r)
      PROVE  Tables' /\ Requests'
  <2>1. s.grps \in SUBSET Group
    BY <1>1 DEF RequestState
  <2>2. /\ link' \in [Nic -> SUBSET Group] /\ nic' \in [Nic -> {"absent", "live", "deleted"}]
        /\ \A n \in Nic : link'[n] = IF n = s.nic THEN s.grps ELSE link[n]
        /\ \A n \in Nic : nic'[n] = IF n = s.nic THEN "live" ELSE nic[n]
    BY <1>1, <1>4, <2>1 DEF Tables
  <2>3. LinksFollowPorts'
    BY <1>1, <1>2, <2>2 DEF Tables, LinksFollowPorts
  <2>4. Tables'
    BY <1>2, <2>2, <2>3 DEF Tables, PortsHaveGroups, DeletedGroupIsGone
  <2>5. TablesMove(r)
    BY <1>2, <2>2 DEF TablesMove
  <2>6. QED
    BY <1>4, <2>4, <2>5, FinishKeeps
<1>5. QED
  BY <1>3, <1>4 DEF LinkGroups

LEMMA NeutronDeletePortStep ==
  ASSUME Tables, Requests, NEW r \in Request, NeutronDeletePort(r)
  PROVE  Tables' /\ Requests'
<1> DEFINE s == request[r]
<1>1. s \in RequestState /\ s.at = "delete_port" /\ s.nic \in Nic /\ s.doomed = {}
  BY DEF NeutronDeletePort, Requests, RequestInv
<1>2. UNCHANGED <<row, link, nic, neutron>>
  BY DEF NeutronDeletePort, PortCall
<1>3. CASE Raise(r) /\ UNCHANGED port
  BY <1>2, <1>3, RaiseKeeps DEF Untouched
<1>4. ASSUME port' = [port EXCEPT ![s.nic] = GonePort], Answered(r, [s EXCEPT !.at = "unlink"])
      PROVE  Tables' /\ Requests'
  <2>1. GonePort \in Port /\ GonePort.life = "GONE"
    BY DEF GonePort, Port
  <2>2. Tables' /\ TablesMove(r)
    BY <1>1, <1>2, <1>4, <2>1, PortKeeps
  <2>3. PICK t : t = [s EXCEPT !.at = "unlink"]
    OBVIOUS
  <2>4. /\ t \in RequestState
        /\ t.at = "unlink" /\ t.grp = s.grp /\ t.nic = s.nic /\ t.doomed = {}
    BY <1>1, <2>3, LabelType DEF Location
  <2>5. RequestInv(t)'
    BY <1>1, <2>4 DEF RequestInv
  <2>6. GoesOn(s, t)
    BY <2>4 DEF GoesOn
  <2>7. Answered(r, t)
    BY <1>4, <2>3
  <2>8. QED
    BY <2>2, <2>4, <2>5, <2>6, <2>7, AnsweredKeeps
<1>5. QED
  BY <1>3, <1>4 DEF NeutronDeletePort, PortCall

LEMMA UnlinkGroupsStep ==
  ASSUME Tables, Requests, NEW r \in Request, UnlinkGroups(r)
  PROVE  Tables' /\ Requests'
<1> DEFINE s == request[r]
<1>1. s.nic \in Nic
  BY DEF UnlinkGroups, Requests, RequestInv
<1>2. UNCHANGED <<row, neutron, port>>
  BY DEF UnlinkGroups
<1>3. CASE Raise(r) /\ UNCHANGED <<link, nic>>
  BY <1>2, <1>3, RaiseKeeps DEF Untouched
<1>4. ASSUME link' = [link EXCEPT ![s.nic] = {}], nic' = [nic EXCEPT ![s.nic] = "deleted"],
             Finish(r)
      PROVE  Tables' /\ Requests'
  <2>1. /\ link' \in [Nic -> SUBSET Group] /\ nic' \in [Nic -> {"absent", "live", "deleted"}]
        /\ \A n \in Nic : link'[n] = IF n = s.nic THEN {} ELSE link[n]
        /\ \A n \in Nic : nic'[n] = IF n = s.nic THEN "deleted" ELSE nic[n]
    BY <1>1, <1>4 DEF Tables
  <2>2. LinksFollowPorts'
    BY <1>2, <2>1 DEF Tables, LinksFollowPorts
  <2>3. Tables'
    BY <1>2, <2>1, <2>2 DEF Tables, PortsHaveGroups, DeletedGroupIsGone
  <2>4. TablesMove(r)
    BY <1>2, <2>1 DEF TablesMove
  <2>5. QED
    BY <1>4, <2>3, <2>4, FinishKeeps
<1>5. QED
  BY <1>3, <1>4 DEF UnlinkGroups

(***************************************************************************)
(* The rollback.                                                           *)
(***************************************************************************)

LEMMA StartRollbackStep ==
  ASSUME Tables, Requests, NEW r \in Request, StartRollback(r)
  PROVE  Tables' /\ Requests'
<1> DEFINE s == request[r]
<1>1. s \in RequestState /\ (s.doomed # {} => s.grp \in Group)
  BY DEF Requests, RequestInv
<1>2. Untouched
  BY DEF StartRollback, Untouched
<1>3. PICK t : t = [s EXCEPT !.at = "rollback"]
  OBVIOUS
<1>4. /\ t \in RequestState
      /\ t.at = "rollback" /\ t.grp = s.grp /\ t.nic = s.nic /\ t.doomed = s.doomed
  BY <1>1, <1>3, LabelType DEF Location
<1>5. RequestInv(t)'
  BY <1>1, <1>4 DEF RequestInv
<1>6. GoesOn(s, t) /\ Become(r, t)
  BY <1>3, <1>4 DEF GoesOn, StartRollback
<1>7. QED
  BY <1>2, <1>4, <1>5, <1>6, BecomeKeeps, UntouchedKeeps

\* An undo leaves the group where it was, or deletes it when no port uses it.
LEMMA UndoneType ==
  ASSUME Tables, NEW s, s.grp \in Group, NEW t \in Task, CanUndo(t, s), t.undo # "delete_port"
  PROVE  /\ Undone(neutron[s.grp], t) \in NeutronGroup
         /\ \/ Undone(neutron[s.grp], t).life = neutron[s.grp].life
            \/ Undone(neutron[s.grp], t).life = "GONE" /\ Deletable(s.grp)
<1> DEFINE G == neutron[s.grp]
<1>1. G \in NeutronGroup
  BY DEF Tables
<1> HIDE DEF G
<1>2. CASE t.undo = "rename"
  <2>1. t.name \in Name \cup {None}
    BY <1>2 DEF Task
  <2>2. Undone(G, t) = [G EXCEPT !.name = t.name]
    BY <1>2 DEF Undone
  <2>3. QED
    BY <1>1, <2>1, <2>2, NeutronType DEF G, NeutronGroup
<1>3. CASE t.undo = "create_rule"
  <2>1. t.content \in Content
    BY <1>3 DEF Task
  <2>2. Undone(G, t) = WithRules(G, {t.content})
    BY <1>3 DEF Undone
  <2>3. G.made < Quota
    BY <1>3 DEF CanUndo, TakesRules, G
  <2>4. WithRules(G, {t.content}).life = G.life
    BY <1>1 DEF WithRules, NeutronGroup
  <2>5. WithRules(G, {t.content}) \in NeutronGroup
    BY <1>1, <2>1, <2>3, NeutronType, GroupsAssumption
  <2>6. QED
    BY <2>2, <2>4, <2>5 DEF G
<1>4. CASE t.undo = "delete_rule"
  <2>1. Undone(G, t) = Without(G, t.rule)
    BY <1>4 DEF Undone
  <2>2. Without(G, t.rule) \in NeutronGroup
    BY <1>1, NeutronType, GroupsAssumption
  <2>3. Without(G, t.rule).life = G.life
    BY <1>1 DEF Without, NeutronGroup
  <2>4. QED
    BY <2>1, <2>2, <2>3 DEF G
<1>5. CASE t.undo = "delete_group"
  <2>1. Undone(G, t) = Deleted(G) /\ Deletable(s.grp)
    BY <1>5 DEF Undone, CanUndo
  <2>2. Deleted(G) \in NeutronGroup
    BY <1>1, NeutronType, GroupsAssumption
  <2>3. Deleted(G).life = "GONE"
    BY <1>1 DEF Deleted, NeutronGroup
  <2>4. QED
    BY <2>1, <2>2, <2>3 DEF G
<1>6. QED
  BY <1>2, <1>3, <1>4, <1>5 DEF Task

LEMMA UndoLatestStep ==
  ASSUME Tables, Requests, NEW r \in Request, UndoLatest(r)
  PROVE  Tables' /\ Requests'
<1> DEFINE s == request[r]
           task == LatestTask(s.tasks)
<1>1. /\ s \in RequestState /\ s.at = "rollback"
      /\ s.doomed # {} => s.grp \in Group
      /\ s.tasks \in Seq(Task) /\ s.tasks # <<>>
  BY DEF UndoLatest, Requests, RequestInv, RequestState
<1>2. task \in Task /\ WithoutLatest(s.tasks) \in Seq(Task)
  BY <1>1, TasksType
<1>3. UNCHANGED <<row, link, nic>>
  BY DEF UndoLatest
<1>4. Tables' /\ TablesMove(r)
  <2>1. CASE UNCHANGED <<neutron, port>>
    BY <1>3, <2>1, UntouchedKeeps DEF Untouched
  <2>2. ASSUME port' = [port EXCEPT ![s.nic] = GonePort], UNCHANGED neutron
        PROVE  Tables' /\ TablesMove(r)
    <3>1. CASE s.nic \in Nic
      <4>1. GonePort \in Port /\ GonePort.life = "GONE"
        BY DEF GonePort, Port
      <4>2. QED
        BY <1>3, <2>2, <3>1, <4>1, PortKeeps
    <3>2. CASE s.nic \notin Nic
      <4>1. port' = port
        BY <2>2, <3>2 DEF Tables
      <4>2. QED
        BY <1>3, <2>2, <4>1, UntouchedKeeps DEF Untouched
    <3>3. QED
      BY <3>1, <3>2
  <2>3. ASSUME CanUndo(task, s), task.undo # "delete_port", UNCHANGED port,
               neutron' = [neutron EXCEPT ![s.grp] = Undone(@, task)]
        PROVE  Tables' /\ TablesMove(r)
    <3>1. CASE s.grp \in Group
      <4>1. PICK G : G = Undone(neutron[s.grp], task)
        OBVIOUS
      <4>2. /\ G \in NeutronGroup
            /\ G.life = neutron[s.grp].life \/ (G.life = "GONE" /\ Deletable(s.grp))
        BY <1>2, <2>3, <3>1, <4>1, UndoneType
      <4>3. neutron' = [neutron EXCEPT ![s.grp] = G]
        BY <2>3, <4>1
      <4>4. QED
        BY <1>3, <2>3, <3>1, <4>2, <4>3, NeutronKeeps
    <3>2. CASE s.grp \notin Group
      <4>1. neutron' = neutron
        BY <2>3, <3>2 DEF Tables
      <4>2. QED
        BY <1>3, <2>3, <4>1, UntouchedKeeps DEF Untouched
    <3>3. QED
      BY <3>1, <3>2
  <2>4. QED
    BY <2>1, <2>2, <2>3 DEF UndoLatest
<1>5. PICK rest : rest = [s EXCEPT !.tasks = WithoutLatest(@)]
  OBVIOUS
<1>6. /\ rest \in RequestState
      /\ rest.at = "rollback" /\ rest.grp = s.grp /\ rest.nic = s.nic /\ rest.doomed = s.doomed
  BY <1>1, <1>2, <1>5 DEF RequestState
<1>7. PICK vain \in BOOLEAN : vain = (task.undo = "delete_rule" /\ ~CanUndo(task, s))
  OBVIOUS
<1>8. PICK t : Become(r, t) /\ (t = rest \/ t = [rest EXCEPT !.clean = @ /\ vain])
  <2>1. CASE Become(r, rest)
    BY <2>1
  <2>2. CASE Become(r, [rest EXCEPT !.clean = @ /\ task.undo = "delete_rule" /\ ~CanUndo(task, s)])
    <3>1. (rest.clean /\ task.undo = "delete_rule" /\ ~CanUndo(task, s)) = (rest.clean /\ vain)
      BY <1>7
    <3>2. QED
      BY <2>2, <3>1
  <2>3. QED
    BY <1>5, <2>1, <2>2 DEF UndoLatest
<1>9. /\ t \in RequestState
      /\ t.at = "rollback" /\ t.grp = s.grp /\ t.nic = s.nic /\ t.doomed = s.doomed
  <2>1. PICK clean \in BOOLEAN : clean = (rest.clean /\ vain)
    OBVIOUS
  <2>2. CASE t = [rest EXCEPT !.clean = clean]
    BY <1>6, <2>2 DEF RequestState
  <2>3. QED
    BY <1>6, <1>8, <2>1, <2>2
<1>10. RequestInv(t)'
  BY <1>1, <1>9 DEF RequestInv
<1>11. GoesOn(s, t)
  BY <1>9 DEF GoesOn
<1>12. QED
  BY <1>4, <1>8, <1>9, <1>10, <1>11, BecomeKeeps

LEMMA EndFailedStep ==
  ASSUME Tables, Requests, NEW r \in Request, EndFailed(r)
  PROVE  Tables' /\ Requests'
<1>1. Untouched /\ Finish(r)
  BY DEF EndFailed, Untouched
<1>2. QED
  BY <1>1, FinishKeeps, UntouchedKeeps

(***************************************************************************)
(* The theorems.                                                           *)
(***************************************************************************)

\* The first state satisfies the invariant.
LEMMA InitEstablishes == Init => IndInv
<1> SUFFICES ASSUME Init PROVE Tables /\ Requests
  BY IndInvParts
<1>1. Tables
  <2>1. 0 \in 0..Quota
    BY GroupsAssumption
  <2>2. neutron \in [Group -> NeutronGroup]
    BY <2>1 DEF Init, NeutronGroup
  <2>3. QED
    BY <2>2 DEF Init, Tables, Row, Port, PortsHaveGroups, LinksFollowPorts, DeletedGroupIsGone
<1>2. Requests
  BY IdleType DEF Init, Requests, RequestInv, CreatesAlone, Creates, MakesPortAlone, Idle
<1>3. QED
  BY <1>1, <1>2

\* So does every first step of a request, ...
LEMMA BeginKeeps ==
  ASSUME Tables, Requests, NEW r \in Request, Begin(r)
  PROVE  Tables' /\ Requests'
  BY CreateGroupStep, UpdateGroupStep, DeleteGroupStep, CreateServerStep, RemoveNicStep
  DEF Begin

\* ... every later one, ...
LEMMA ProgressKeeps ==
  ASSUME Tables, Requests, NEW r \in Request, Progress(r)
  PROVE  Tables' /\ Requests'
<1>1. CASE NeutronCreateGroup(r) \/ InsertGroup(r)
  BY <1>1, NeutronCreateGroupStep, InsertGroupStep
<1>2. CASE TryAgain(r) \/ RenameGroup(r) \/ ListRules(r)
  BY <1>2, TryAgainStep, RenameGroupStep, ListRulesStep
<1>3. CASE \E x \in request[r].doomed : DeleteRule(r, x)
  BY <1>3, DeleteRuleStep
<1>4. CASE AddRules(r) \/ SaveGroup(r)
  BY <1>4, AddRulesStep, SaveGroupStep
<1>5. CASE NeutronDeleteGroup(r) \/ SoftDeleteGroup(r)
  BY <1>5, NeutronDeleteGroupStep, SoftDeleteGroupStep
<1>6. CASE NeutronCreatePort(r) \/ LinkGroups(r)
  BY <1>6, NeutronCreatePortStep, LinkGroupsStep
<1>7. CASE NeutronDeletePort(r) \/ UnlinkGroups(r)
  BY <1>7, NeutronDeletePortStep, UnlinkGroupsStep
<1>8. CASE StartRollback(r) \/ UndoLatest(r) \/ EndFailed(r)
  BY <1>8, StartRollbackStep, UndoLatestStep, EndFailedStep
<1>9. QED
  BY <1>1, <1>2, <1>3, <1>4, <1>5, <1>6, <1>7, <1>8 DEF Progress

\* ... and every step there is.
LEMMA NextKeeps == IndInv /\ [Next]_vars => IndInv'
<1> SUFFICES ASSUME Tables, Requests, [Next]_vars PROVE Tables' /\ Requests'
  BY IndInvParts, IndInvPartsPrimed
<1>1. CASE Next
  BY <1>1, BeginKeeps, ProgressKeeps DEF Next
<1>2. CASE UNCHANGED vars
  <2>1. Tables'
    BY <1>2 DEF vars, Tables, PortsHaveGroups, LinksFollowPorts, DeletedGroupIsGone
  <2>2. Requests'
    BY <1>2 DEF vars, Requests, RequestInv, CreatesAlone, Creates, MakesPortAlone
  <2>3. QED
    BY <2>1, <2>2
<1>3. QED
  BY <1>1, <1>2

\* Every reachable state satisfies the inductive invariant.
THEOREM Invariance == Spec => []IndInv
  BY InitEstablishes, NextKeeps, PTL DEF Spec

\* Every variable keeps its type: a request is at one of the awaits of its
\* handler, has made at most MaxTries tries, and its undo calls are such calls.
THEOREM TypeCorrect == Spec => []TypeOK
<1>1. IndInv => TypeOK
  BY DEF IndInv
<1>2. QED
  BY <1>1, Invariance, PTL

\* delete_security_group marks a row deleted only when Neutron has deleted the
\* group, and no update, undo or creation that overlaps it brings the group
\* back.
THEOREM DeletedGroupSafe == Spec => []DeletedGroupIsGone
<1>1. IndInv => DeletedGroupIsGone
  BY DEF IndInv
<1>2. QED
  BY <1>1, Invariance, PTL

\* A group linked to a network interface that has its port is live and Neutron
\* has it, although delete_security_group and create_server read the links and
\* the groups before they call Neutron: Neutron's own check of the ports is what
\* decides.
THEOREM LinkedGroupSafe == Spec => []LinkedGroupIsLive
<1>1. ASSUME IndInv PROVE LinkedGroupIsLive
  <2> SUFFICES ASSUME NEW n \in Nic, port[n].life = "EXISTS", NEW g \in link[n]
               PROVE  row[g].life = "live" /\ neutron[g].life = "EXISTS"
    BY DEF LinkedGroupIsLive
  <2>1. g \in Group /\ row[g].life \in {"absent", "live", "deleted"}
    BY <1>1 DEF IndInv, TypeOK, Row
  <2>2. neutron[g].life = "EXISTS"
    BY <1>1 DEF IndInv, LinksFollowPorts, PortsHaveGroups
  <2>3. row[g].life # "absent" /\ row[g].life # "deleted"
    BY <1>1, <2>1, <2>2 DEF IndInv, LinksFollowPorts, DeletedGroupIsGone
  <2>4. QED
    BY <2>1, <2>2, <2>3
<1>2. QED
  BY <1>1, Invariance, PTL

(***************************************************************************)
(* An update that has its group to itself.  A step of a request changes    *)
(* its own group and the requests on that group; so only the steps of the  *)
(* update itself have something to show.                                   *)
(***************************************************************************)

LoneInv == CleanIsAlone /\ LoneUpdatesKnow

\* A step of r changes only the group that r works on.
TablesLocal(r) ==
  \A g \in Group \ {request[r].grp} : row'[g] = row[g] /\ neutron'[g] = neutron[g]

\* Nobody gets a group to itself by it, and of those that have one only r changes.
RequestsLocal(r) ==
  /\ request'[r].clean => request[r].clean /\ request'[r].grp = request[r].grp
  /\ request'[r].grp \in {request[r].grp, None}
  /\ \A p \in Request \ {r} :
       /\ request'[p].grp = request[p].grp /\ request'[p].at = request[p].at
       /\ request'[p].clean =>
            /\ request[p].clean
            /\ request'[p] = request[p] \/ request[p].grp = request[r].grp

LEMMA LoneKeeps ==
  ASSUME IndInv, LoneInv, NEW r \in Request, TablesLocal(r), RequestsLocal(r),
         request'[r].clean => LoneKnows(request[r])'
  PROVE  LoneInv'
<1>0. /\ CleanIsAlone /\ LoneUpdatesKnow /\ None \notin Group
      /\ \A p \in Request : request[p].clean => request[p].grp \in Group
  BY GroupsAssumption DEF LoneInv, LoneUpdatesKnow, LoneKnows
<1>1. CleanIsAlone'
  <2> SUFFICES ASSUME NEW p \in Request, NEW q \in Request, p # q, request'[p].clean
               PROVE  request'[q].grp # request'[p].grp
    BY DEF CleanIsAlone
  <2>1. CASE p = r
    BY <1>0, <2>1 DEF RequestsLocal, CleanIsAlone
  <2>2. CASE q = r
    BY <1>0, <2>2 DEF RequestsLocal, CleanIsAlone
  <2>3. CASE p # r /\ q # r
    BY <1>0, <2>3 DEF RequestsLocal, CleanIsAlone
  <2> QED
    BY <2>1, <2>2, <2>3
<1>2. ASSUME NEW p \in Request, request'[p].clean, p # r PROVE LoneKnows(request[p])'
  <2>1. PICK s : s = request[p]
    OBVIOUS
  <2>2. s.clean /\ s.grp \in Group /\ s.grp # request[r].grp /\ request'[p] = s
    BY <1>0, <1>2, <2>1 DEF RequestsLocal, CleanIsAlone
  <2>3. row'[s.grp] = row[s.grp] /\ neutron'[s.grp] = neutron[s.grp]
    BY <2>2 DEF TablesLocal
  <2>4. LoneKnows(s)
    BY <1>0, <2>1, <2>2 DEF LoneUpdatesKnow
  <2>5. LoneKnows(s)'
    BY <2>3, <2>4 DEF LoneKnows, OnItsWay, Restorable, Contents, Listed
  <2> QED
    BY <2>2, <2>5 DEF LoneKnows, OnItsWay, Restorable, Contents, Listed
<1>3. LoneUpdatesKnow'
  BY <1>2 DEF LoneUpdatesKnow
<1> QED
  BY <1>1, <1>3 DEF LoneInv

---------------------------------------------------------------------------
(* Every step is local.                                                    *)

\* A step that leaves the request in state u.
LEMMA BecomeLocal ==
  ASSUME IndInv, NEW r \in Request, NEW u, Become(r, u),
         u.clean => request[r].clean /\ u.grp = request[r].grp,
         u.grp \in {request[r].grp, None}
  PROVE  RequestsLocal(r) /\ request'[r] = u
BY DEF RequestsLocal, Become, IndInv, TypeOK

LEMMA FinishLocal ==
  ASSUME IndInv, NEW r \in Request, Finish(r)
  PROVE  RequestsLocal(r) /\ ~request'[r].clean
<1>1. Idle.clean = FALSE /\ Idle.grp = None
  BY DEF Idle
<1> QED
  BY <1>1, BecomeLocal DEF Finish

\* A step that changes no more than the group of r.
LEMMA GroupLocal ==
  ASSUME IndInv, NEW r \in Request, NEW G, NEW w,
         neutron' = neutron \/ neutron' = [neutron EXCEPT ![request[r].grp] = G],
         row' = row \/ row' = [row EXCEPT ![request[r].grp] = w]
  PROVE  TablesLocal(r)
BY DEF TablesLocal, IndInv, TypeOK

\* An exception keeps all but the place of the request.
LEMMA RaiseLocal ==
  ASSUME IndInv, NEW r \in Request, Raise(r)
  PROVE  /\ RequestsLocal(r)
         /\ request[r].doomed = {} => request'[r] = [request[r] EXCEPT !.at = "rollback"]
<1>1. PICK label : label = IF request[r].doomed = {} THEN "rollback" ELSE "raise"
  OBVIOUS
<1>2. PICK u : u = [request[r] EXCEPT !.at = label]
  OBVIOUS
<1>3. Become(r, u)
  BY <1>1, <1>2 DEF Raise
<1>4. u.grp = request[r].grp /\ (u.clean => request[r].clean)
  BY <1>2 DEF IndInv, TypeOK, RequestState
<1>5. RequestsLocal(r) /\ request'[r] = u
  BY <1>3, <1>4, BecomeLocal
<1> QED
  BY <1>1, <1>2, <1>5

\* A call that had its effect leaves its request in u, or takes from it that it
\* heard every answer.
LEMMA AnsweredLocal ==
  ASSUME IndInv, NEW r \in Request, NEW u, Answered(r, u),
         u.grp = request[r].grp, u.clean => request[r].clean
  PROVE  RequestsLocal(r) /\ (request'[r].clean => request'[r] = u)
<1>1. CASE Become(r, u)
  BY <1>1, BecomeLocal
<1>2. CASE Become(r, [request[r] EXCEPT !.at = "rollback", !.clean = FALSE])
  <2>1. PICK v : v = [request[r] EXCEPT !.at = "rollback", !.clean = FALSE]
    OBVIOUS
  <2>2. v.grp = request[r].grp /\ v.clean = FALSE
    BY <2>1 DEF IndInv, TypeOK, RequestState
  <2> QED
    BY <1>2, <2>1, <2>2, BecomeLocal
<1> QED
  BY <1>1, <1>2 DEF Answered

\* The commit of an UPDATE ends its request and tells the others on the row.
LEMMA WrittenLocal ==
  ASSUME IndInv, NEW r \in Request, Written(r, request[r].grp)
  PROVE  RequestsLocal(r) /\ ~request'[r].clean
<1>1. Idle.clean = FALSE /\ Idle.grp = None
  BY DEF Idle
<1>2. request'[r] = Idle
  BY DEF Written
<1>3. ASSUME NEW p \in Request \ {r}
      PROVE  /\ request'[p].grp = request[p].grp /\ request'[p].at = request[p].at
             /\ request'[p].clean =>
                  /\ request[p].clean
                  /\ request'[p] = request[p] \/ request[p].grp = request[r].grp
  <2>1. PICK s : s = request[p]
    OBVIOUS
  <2>2. s \in RequestState
    BY <2>1 DEF IndInv, TypeOK
  <2>3. PICK u : u = [s EXCEPT !.stale = TRUE]
    OBVIOUS
  <2>4. u.grp = s.grp /\ u.at = s.at /\ u.clean = s.clean
    BY <2>2, <2>3 DEF RequestState
  <2>5. request'[p] = IF s.grp = request[r].grp THEN u ELSE s
    BY <2>1, <2>3 DEF Written
  <2> QED
    BY <2>1, <2>4, <2>5
<1> QED
  BY <1>1, <1>2, <1>3 DEF RequestsLocal

---------------------------------------------------------------------------
(* The undo tasks.                                                         *)

\* What the lists of undo calls hold after one is added, or the latest is run.
LEMMA ListedTasks ==
  ASSUME NEW tasks \in Seq(Task), NEW task \in Task, NEW n \in Nat
  PROVE  /\ \A t : Listed(t, AddTask(tasks, task)) <=> Listed(t, tasks) \/ t = task
         /\ \A t : Listed(t, AddTasks(tasks, task, n)) => Listed(t, tasks) \/ t = task
         /\ \A t : Listed(t, tasks) => Listed(t, AddTasks(tasks, task, n))
         /\ tasks # <<>> =>
              \A t : Listed(t, tasks) <=>
                       Listed(t, WithoutLatest(tasks)) \/ t = LatestTask(tasks)
<1>1. ASSUME NEW t PROVE Listed(t, AddTask(tasks, task)) <=> Listed(t, tasks) \/ t = task
  <2>1. PICK more : more = AddTask(tasks, task)
    OBVIOUS
  <2>2. /\ DOMAIN more = 1..(Len(tasks) + 1) /\ DOMAIN tasks = 1..Len(tasks)
        /\ more[Len(tasks) + 1] = task
        /\ \A i \in 1..Len(tasks) : more[i] = tasks[i]
    BY <2>1 DEF AddTask
  <2>3. Len(tasks) \in Nat
    OBVIOUS
  <2>4. ASSUME Listed(t, more) PROVE Listed(t, tasks) \/ t = task
    <3>1. PICK i \in DOMAIN more : more[i] = t
      BY <2>4 DEF Listed
    <3>2. i \in 1..Len(tasks) \/ i = Len(tasks) + 1
      BY <2>2, <2>3, <3>1
    <3> QED
      BY <2>2, <3>1, <3>2 DEF Listed
  <2>5. ASSUME Listed(t, tasks) PROVE Listed(t, more)
    <3>1. PICK i \in 1..Len(tasks) : tasks[i] = t
      BY <2>2, <2>5 DEF Listed
    <3>2. i \in DOMAIN more /\ more[i] = t
      BY <2>2, <2>3, <3>1
    <3> QED
      BY <3>2 DEF Listed
  <2>6. ASSUME t = task PROVE Listed(t, more)
    <3>1. Len(tasks) + 1 \in DOMAIN more
      BY <2>2, <2>3
    <3> QED
      BY <2>2, <2>6, <3>1 DEF Listed
  <2> QED
    BY <2>1, <2>4, <2>5, <2>6
<1>2. ASSUME NEW t PROVE /\ Listed(t, AddTasks(tasks, task, n)) => Listed(t, tasks) \/ t = task
                         /\ Listed(t, tasks) => Listed(t, AddTasks(tasks, task, n))
  <2>1. PICK same : same = [i \in 1..n |-> task]
    OBVIOUS
  <2>2. same \in Seq(Task) /\ Len(same) = n /\ \A i \in 1..n : same[i] = task
    BY <2>1
  <2>3. PICK more : more = AddTasks(tasks, task, n)
    OBVIOUS
  <2>4. more = tasks \o same
    BY <2>1, <2>3 DEF AddTasks
  <2>5. /\ DOMAIN more = 1..(Len(tasks) + n) /\ DOMAIN tasks = 1..Len(tasks)
        /\ \A i \in 1..Len(tasks) : more[i] = tasks[i]
        /\ \A i \in 1..(Len(tasks) + n) : i > Len(tasks) => more[i] = same[i - Len(tasks)]
    <3>1. /\ more \in Seq(Task) /\ Len(more) = Len(tasks) + n
          /\ \A i \in 1..Len(more) :
               more[i] = IF i <= Len(tasks) THEN tasks[i] ELSE same[i - Len(tasks)]
      BY <2>2, <2>4, ConcatProperties
    <3>2. DOMAIN more = 1..Len(more) /\ DOMAIN tasks = 1..Len(tasks) /\ Len(tasks) \in Nat
      BY <3>1
    <3> HIDE DEF Task
    <3> QED
      BY <3>1, <3>2
  <2>6. Len(tasks) \in Nat
    OBVIOUS
  <2>7. ASSUME Listed(t, more) PROVE Listed(t, tasks) \/ t = task
    <3>1. PICK i \in 1..(Len(tasks) + n) : more[i] = t
      BY <2>5, <2>7 DEF Listed
    <3>2. CASE i \in 1..Len(tasks)
      BY <2>5, <3>1, <3>2 DEF Listed
    <3>3. CASE i \notin 1..Len(tasks)
      <4>1. i > Len(tasks) /\ i - Len(tasks) \in 1..n
        BY <2>6, <3>1, <3>3
      <4> QED
        BY <2>2, <2>5, <3>1, <4>1
    <3> QED
      BY <3>2, <3>3
  <2>8. ASSUME Listed(t, tasks) PROVE Listed(t, more)
    <3>1. PICK i \in 1..Len(tasks) : tasks[i] = t
      BY <2>5, <2>8 DEF Listed
    <3>2. i \in DOMAIN more /\ more[i] = t
      BY <2>5, <2>6, <3>1
    <3> QED
      BY <3>2 DEF Listed
  <2> QED
    BY <2>3, <2>7, <2>8
<1>3. ASSUME tasks # <<>>, NEW t
      PROVE  Listed(t, tasks) <=> Listed(t, WithoutLatest(tasks)) \/ t = LatestTask(tasks)
  <2>1. Len(tasks) \in Nat /\ Len(tasks) >= 1
    BY <1>3
  <2>2. PICK rest : rest = WithoutLatest(tasks)
    OBVIOUS
  <2>3. /\ DOMAIN rest = 1..(Len(tasks) - 1) /\ DOMAIN tasks = 1..Len(tasks)
        /\ \A i \in 1..(Len(tasks) - 1) : rest[i] = tasks[i]
    BY <2>1, <2>2 DEF WithoutLatest
  <2>4. ASSUME Listed(t, tasks) PROVE Listed(t, rest) \/ t = LatestTask(tasks)
    <3>1. PICK i \in 1..Len(tasks) : tasks[i] = t
      BY <2>3, <2>4 DEF Listed
    <3>2. i = Len(tasks) \/ i \in 1..(Len(tasks) - 1)
      BY <2>1, <3>1
    <3> QED
      BY <2>3, <3>1, <3>2 DEF Listed, LatestTask
  <2>5. ASSUME Listed(t, rest) PROVE Listed(t, tasks)
    <3>1. PICK i \in 1..(Len(tasks) - 1) : rest[i] = t
      BY <2>3, <2>5 DEF Listed
    <3>2. i \in DOMAIN tasks /\ tasks[i] = t
      BY <2>1, <2>3, <3>1
    <3> QED
      BY <3>2 DEF Listed
  <2>6. ASSUME t = LatestTask(tasks) PROVE Listed(t, tasks)
    <3>1. Len(tasks) \in DOMAIN tasks
      BY <2>1, <2>3
    <3> QED
      BY <2>6, <3>1 DEF Listed, LatestTask
  <2> QED
    BY <2>2, <2>4, <2>5, <2>6
<1> QED
  BY <1>1, <1>2, <1>3

\* The undo call puts nothing in the way of what the update of s found.
Restores(task, s) ==
  /\ task.undo \in {"rename", "create_rule", "delete_rule"}
  /\ task.undo = "rename" => task.name = s.before.name
  /\ task.undo = "delete_rule" => task.rule.content \notin s.before.rules

\* The undo calls bring back what the update of s found, from the group G.
RestorableFrom(s, G) ==
  /\ \A t : Listed(t, s.tasks) => Restores(t, s)
  /\ \/ G.name = s.before.name
     \/ Listed([undo |-> "rename", name |-> s.before.name], s.tasks)
  /\ \A c \in s.before.rules :
       c \in Contents(G) \/ Listed([undo |-> "create_rule", content |-> c], s.tasks)

LEMMA RestorableIs ==
  ASSUME NEW s
  PROVE  /\ Restorable(s) <=> RestorableFrom(s, neutron[s.grp])
         /\ Restorable(s)' <=> RestorableFrom(s, neutron'[s.grp])
BY DEF Restorable, RestorableFrom, Restores, Listed, Contents

\* What a call of Neutron does to the name and to what the rules say.
LEMMA ContentsOf ==
  ASSUME NEW G \in NeutronGroup, NEW name \in Name \cup {None}
  PROVE  /\ Contents([G EXCEPT !.name = name]) = Contents(G)
         /\ [G EXCEPT !.name = name].name = name
         /\ \A x \in Rule : Without(G, x).name = G.name
         /\ \A x \in Rule : Without(G, x).rules = G.rules \ {x}
         /\ \A c \in SUBSET Content : Contents(WithRules(G, c)) = Contents(G) \cup c
         /\ \A c \in SUBSET Content : WithRules(G, c).name = G.name
         /\ \A c \in SUBSET Content : \A x \in WithRules(G, c).rules \ G.rules : x.content \in c
<1>1. G.rules \subseteq Rule
  BY DEF NeutronGroup
<1>2. ASSUME NEW c \in SUBSET Content
      PROVE  /\ Contents(WithRules(G, c)) = Contents(G) \cup c
             /\ WithRules(G, c).name = G.name
             /\ \A x \in WithRules(G, c).rules \ G.rules : x.content \in c
  <2>1. PICK added : added = [content : c, id : {G.made + 1}]
    OBVIOUS
  <2>2. WithRules(G, c).rules = G.rules \cup added /\ WithRules(G, c).name = G.name
    BY <2>1 DEF WithRules, NeutronGroup
  <2>3. \A x \in added : x.content \in c
    BY <2>1
  <2>4. \A d \in c : \E x \in added : x.content = d
    <3> SUFFICES ASSUME NEW d \in c PROVE \E x \in added : x.content = d
      OBVIOUS
    <3>1. [content |-> d, id |-> G.made + 1] \in added
      BY <2>1
    <3> QED
      BY <3>1
  <2>5. Contents(WithRules(G, c)) = Contents(G) \cup c
    BY <2>2, <2>3, <2>4 DEF Contents
  <2> QED
    BY <2>2, <2>3, <2>5
<1>3. ASSUME NEW x \in Rule
      PROVE  Without(G, x).name = G.name /\ Without(G, x).rules = G.rules \ {x}
  BY DEF Without, NeutronGroup
<1>4. /\ Contents([G EXCEPT !.name = name]) = Contents(G)
      /\ [G EXCEPT !.name = name].name = name
  BY DEF Contents, NeutronGroup
<1> QED
  BY <1>2, <1>3, <1>4

---------------------------------------------------------------------------
(* The steps of a request that does not have its group to itself, or does  *)
(* not work on a group.                                                    *)

\* What has to be shown of a step of r.
LoneStep(r) ==
  /\ TablesLocal(r)
  /\ RequestsLocal(r)
  /\ request'[r].clean => LoneKnows(request[r])'

\* Nobody has a group to itself at these places.
LEMMA NeverLone ==
  ASSUME IndInv, LoneInv, NEW r \in Request, TablesLocal(r), RequestsLocal(r),
         request[r].at \notin {"rename", "list", "delete_rules", "add_rules", "save", "rollback"}
  PROVE  LoneStep(r)
BY DEF LoneStep, LoneInv, LoneUpdatesKnow, LoneKnows, RequestsLocal

LEMMA NeutronCreateGroupLone ==
  ASSUME IndInv, LoneInv, NEW r \in Request, NeutronCreateGroup(r)
  PROVE  LoneStep(r)
<1> DEFINE s == request[r]
<1>0. s \in RequestState /\ s.at = "create_group"
  BY DEF NeutronCreateGroup, IndInv, TypeOK
<1>1. PICK G : neutron' = neutron \/ neutron' = [neutron EXCEPT ![s.grp] = G]
  BY DEF NeutronCreateGroup, GroupCall
<1>2. TablesLocal(r)
  BY <1>1, GroupLocal DEF NeutronCreateGroup, GroupCall
<1>3. PICK label : label = IF s.adding = {} THEN "insert" ELSE "add_rules"
  OBVIOUS
<1>4. PICK tasks : tasks = AddTask(s.tasks, [undo |-> "delete_group"])
  OBVIOUS
<1>5. PICK u : u = [s EXCEPT !.at = label, !.tasks = tasks]
  OBVIOUS
<1>6. u.grp = s.grp /\ (u.clean => s.clean)
  BY <1>0, <1>5 DEF RequestState
<1>7. Answered(r, u) \/ Raise(r)
  BY <1>3, <1>4, <1>5 DEF NeutronCreateGroup, GroupCall
<1>8. RequestsLocal(r)
  BY <1>6, <1>7, AnsweredLocal, RaiseLocal
<1> QED
  BY <1>0, <1>2, <1>8, NeverLone

LEMMA InsertGroupLone ==
  ASSUME IndInv, LoneInv, NEW r \in Request, InsertGroup(r)
  PROVE  LoneStep(r)
<1>1. PICK w : row' = row \/ row' = [row EXCEPT ![request[r].grp] = w]
  BY DEF InsertGroup
<1>2. TablesLocal(r)
  BY <1>1, GroupLocal DEF InsertGroup
<1>3. RequestsLocal(r)
  BY FinishLocal, RaiseLocal DEF InsertGroup
<1> QED
  BY <1>2, <1>3, NeverLone DEF InsertGroup

LEMMA TryAgainLone ==
  ASSUME IndInv, LoneInv, NEW r \in Request, TryAgain(r)
  PROVE  LoneStep(r)
<1> DEFINE s == request[r]
<1>0. s \in RequestState /\ s.at = "retry"
  BY DEF TryAgain, IndInv, TypeOK
<1>1. TablesLocal(r)
  BY GroupLocal DEF TryAgain
<1>2. PICK label : label = IF s.name = row[s.grp].name THEN "list" ELSE "rename"
  OBVIOUS
<1>3. PICK u : u = [s EXCEPT !.at = label, !.loaded = row[s.grp].name, !.stale = FALSE]
  OBVIOUS
<1>4. u.grp = s.grp /\ (u.clean => s.clean)
  BY <1>0, <1>3 DEF RequestState
<1>5. Become(r, u) \/ Raise(r)
  BY <1>2, <1>3 DEF TryAgain, Loaded
<1>6. RequestsLocal(r)
  BY <1>4, <1>5, BecomeLocal, RaiseLocal
<1> QED
  BY <1>0, <1>1, <1>6, NeverLone

LEMMA NeutronDeleteGroupLone ==
  ASSUME IndInv, LoneInv, NEW r \in Request, NeutronDeleteGroup(r)
  PROVE  LoneStep(r)
<1> DEFINE s == request[r]
<1>0. s \in RequestState /\ s.at = "delete_group"
  BY DEF NeutronDeleteGroup, IndInv, TypeOK
<1>1. PICK G : neutron' = neutron \/ neutron' = [neutron EXCEPT ![s.grp] = G]
  BY DEF NeutronDeleteGroup, GroupCall
<1>2. TablesLocal(r)
  BY <1>1, GroupLocal DEF NeutronDeleteGroup, GroupCall
<1>3. PICK u : u = [s EXCEPT !.at = "soft_delete"]
  OBVIOUS
<1>4. u.grp = s.grp /\ (u.clean => s.clean)
  BY <1>0, <1>3 DEF RequestState
<1>5. Answered(r, u) \/ Raise(r)
  BY <1>3 DEF NeutronDeleteGroup, GroupCall
<1>6. RequestsLocal(r)
  BY <1>4, <1>5, AnsweredLocal, RaiseLocal
<1> QED
  BY <1>0, <1>2, <1>6, NeverLone

LEMMA SoftDeleteGroupLone ==
  ASSUME IndInv, LoneInv, NEW r \in Request, SoftDeleteGroup(r)
  PROVE  LoneStep(r)
<1>1. PICK w : row' = row \/ row' = [row EXCEPT ![request[r].grp] = w]
  BY DEF SoftDeleteGroup
<1>2. TablesLocal(r)
  BY <1>1, GroupLocal DEF SoftDeleteGroup
<1>3. RequestsLocal(r)
  BY WrittenLocal, RaiseLocal DEF SoftDeleteGroup
<1> QED
  BY <1>2, <1>3, NeverLone DEF SoftDeleteGroup

LEMMA NeutronCreatePortLone ==
  ASSUME IndInv, LoneInv, NEW r \in Request, NeutronCreatePort(r)
  PROVE  LoneStep(r)
<1> DEFINE s == request[r]
<1>0. s \in RequestState /\ s.at = "create_port"
  BY DEF NeutronCreatePort, IndInv, TypeOK
<1>1. TablesLocal(r)
  BY GroupLocal DEF NeutronCreatePort, PortCall
<1>2. PICK tasks : tasks = AddTask(s.tasks, [undo |-> "delete_port"])
  OBVIOUS
<1>3. PICK u : u = [s EXCEPT !.at = "link", !.tasks = tasks]
  OBVIOUS
<1>4. u.grp = s.grp /\ (u.clean => s.clean)
  BY <1>0, <1>3 DEF RequestState
<1>5. Answered(r, u) \/ Raise(r)
  BY <1>2, <1>3 DEF NeutronCreatePort, PortCall
<1>6. RequestsLocal(r)
  BY <1>4, <1>5, AnsweredLocal, RaiseLocal
<1> QED
  BY <1>0, <1>1, <1>6, NeverLone

LEMMA NeutronDeletePortLone ==
  ASSUME IndInv, LoneInv, NEW r \in Request, NeutronDeletePort(r)
  PROVE  LoneStep(r)
<1> DEFINE s == request[r]
<1>0. s \in RequestState /\ s.at = "delete_port"
  BY DEF NeutronDeletePort, IndInv, TypeOK
<1>1. TablesLocal(r)
  BY GroupLocal DEF NeutronDeletePort, PortCall
<1>2. PICK u : u = [s EXCEPT !.at = "unlink"]
  OBVIOUS
<1>3. u.grp = s.grp /\ (u.clean => s.clean)
  BY <1>0, <1>2 DEF RequestState
<1>4. Answered(r, u) \/ Raise(r)
  BY <1>2 DEF NeutronDeletePort, PortCall
<1>5. RequestsLocal(r)
  BY <1>3, <1>4, AnsweredLocal, RaiseLocal
<1> QED
  BY <1>0, <1>1, <1>5, NeverLone

\* The rows of the links, and the rollback that waited for deletions.
LEMMA OtherStepsLone ==
  ASSUME IndInv, LoneInv, NEW r \in Request,
         LinkGroups(r) \/ UnlinkGroups(r) \/ StartRollback(r)
  PROVE  LoneStep(r)
<1>1. row' = row /\ neutron' = neutron
  BY DEF LinkGroups, UnlinkGroups, StartRollback
<1>2. TablesLocal(r)
  BY <1>1, GroupLocal
<1>3. CASE LinkGroups(r) \/ UnlinkGroups(r)
  <2>1. RequestsLocal(r)
    BY <1>3, FinishLocal, RaiseLocal DEF LinkGroups, UnlinkGroups
  <2> QED
    BY <1>2, <1>3, <2>1, NeverLone DEF LinkGroups, UnlinkGroups
<1>4. CASE StartRollback(r)
  <2>1. PICK u : u = [request[r] EXCEPT !.at = "rollback"]
    OBVIOUS
  <2>2. u.grp = request[r].grp /\ (u.clean => request[r].clean)
    BY <2>1 DEF IndInv, TypeOK, RequestState
  <2>3. RequestsLocal(r)
    BY <1>4, <2>1, <2>2, BecomeLocal DEF StartRollback
  <2> QED
    BY <1>2, <1>4, <2>3, NeverLone DEF StartRollback
<1> QED
  BY <1>3, <1>4

\* The end of a rollback.
LEMMA EndFailedLone ==
  ASSUME IndInv, LoneInv, NEW r \in Request, EndFailed(r)
  PROVE  LoneStep(r)
<1>1. TablesLocal(r)
  BY GroupLocal DEF EndFailed
<1>2. RequestsLocal(r) /\ ~request'[r].clean
  BY FinishLocal DEF EndFailed
<1> QED
  BY <1>1, <1>2 DEF LoneStep

---------------------------------------------------------------------------
(* The steps of an update.                                                 *)

\* What is known of an update that has its group to itself.
LEMMA LoneFacts ==
  ASSUME IndInv, LoneInv, NEW r \in Request, NEW s, s = request[r], s.clean
  PROVE  /\ s \in RequestState /\ s.grp \in Group /\ neutron[s.grp] \in NeutronGroup
         /\ s.tasks \in Seq(Task) /\ s.rules \in SUBSET Content
         /\ LoneKnows(s) /\ RestorableFrom(s, neutron[s.grp])
<1>1. s \in RequestState /\ LoneKnows(s)
  BY DEF IndInv, TypeOK, LoneInv, LoneUpdatesKnow
<1>2. s.grp \in Group /\ Restorable(s)
  BY <1>1 DEF LoneKnows
<1>3. neutron[s.grp] \in NeutronGroup
  BY <1>2 DEF IndInv, TypeOK
<1> QED
  BY <1>1, <1>2, <1>3, RestorableIs DEF RequestState

\* What is to be known of its next state t, with the group G.
LEMMA LoneNext ==
  ASSUME NEW r \in Request, NEW t, t = request'[r], NEW G, G = neutron'[t.grp],
         t.grp \in Group, ~t.stale,
         t.at \in {"rename", "list", "delete_rules", "add_rules", "save", "rollback"},
         t.doomed # {} => t.at = "delete_rules",
         row' = row, row[t.grp].life # "absent",
         row[t.grp].name = t.loaded, t.before.name = t.loaded,
         t.at \in {"rename", "list"} => ~t.failed /\ Contents(G) = t.before.rules,
         t.at = "rename" => G.name = t.loaded,
         t.at \in {"list", "delete_rules", "add_rules", "save"} => G.name = t.name,
         t.at \in {"delete_rules", "add_rules"} =>
           t.adding = t.rules \ Contents(G) /\ t.adding \cap t.before.rules = {},
         t.at = "delete_rules" =>
           /\ \A x \in t.doomed : x.content \notin t.rules
           /\ t.failed \/ \A x \in G.rules : x.content \in t.rules \/ x \in t.doomed,
         t.at = "add_rules" => Contents(G) \subseteq t.rules,
         t.at = "save" => Contents(G) = t.rules,
         RestorableFrom(t, G)
  PROVE  LoneKnows(request[r])'
<1>1. Contents(neutron[t.grp])' = Contents(G)
  BY DEF Contents
<1>2. OnItsWay(t)'
  BY <1>1 DEF OnItsWay
<1>3. Restorable(t)'
  BY RestorableIs
<1>4. LoneKnows(t)'
  BY <1>2, <1>3 DEF LoneKnows
<1> QED
  BY <1>4, ZenonT(60) DEF LoneKnows, OnItsWay, Restorable, Listed, Contents

\* An exception, which keeps all that the undo calls bring back.
LEMMA RaiseLone ==
  ASSUME IndInv, LoneInv, NEW r \in Request, Raise(r), UNCHANGED <<row, neutron>>,
         request[r].at # "delete_rules"
  PROVE  LoneStep(r)
<1>1. TablesLocal(r)
  BY GroupLocal
<1>2. RequestsLocal(r)
  BY RaiseLocal
<1>3. ASSUME request'[r].clean PROVE LoneKnows(request[r])'
  <2>1. PICK s : s = request[r]
    OBVIOUS
  <2>2. s.clean
    BY <1>2, <1>3, <2>1 DEF RequestsLocal
  <2>3. /\ s \in RequestState /\ s.grp \in Group /\ LoneKnows(s)
        /\ RestorableFrom(s, neutron[s.grp])
    BY <2>1, <2>2, LoneFacts
  <2>4. s.doomed = {}
    BY <2>1, <2>3 DEF LoneKnows
  <2>5. PICK t : t = request'[r]
    OBVIOUS
  <2>6. t = [s EXCEPT !.at = "rollback"]
    BY <2>1, <2>4, <2>5, RaiseLocal
  <2>7. /\ t.at = "rollback" /\ t.grp = s.grp /\ t.stale = s.stale /\ t.doomed = {}
        /\ t.loaded = s.loaded /\ t.before = s.before /\ t.tasks = s.tasks
    BY <2>3, <2>4, <2>6 DEF RequestState
  <2>8. PICK G : G = neutron'[t.grp]
    OBVIOUS
  <2>9. RestorableFrom(t, G)
    BY <2>3, <2>7, <2>8 DEF RestorableFrom, Restores
  <2> QED
    BY <2>3, <2>5, <2>7, <2>8, <2>9, LoneNext DEF LoneKnows
<1> QED
  BY <1>1, <1>2, <1>3 DEF LoneStep

LEMMA RenameGroupLone ==
  ASSUME IndInv, LoneInv, NEW r \in Request, RenameGroup(r)
  PROVE  LoneStep(r)
<1>1. PICK s : s = request[r]
  OBVIOUS
<1>2. s \in RequestState /\ s.at = "rename" /\ row' = row
  BY <1>1 DEF RenameGroup, GroupCall, IndInv, TypeOK
<1>3. PICK G : G = [neutron[s.grp] EXCEPT !.name = s.name]
  OBVIOUS
<1>4. PICK tasks : tasks = AddTask(s.tasks, UndoRename(s))
  OBVIOUS
<1>5. PICK t : t = [s EXCEPT !.at = "list", !.tasks = tasks]
  OBVIOUS
<1>6. \/ Raise(r) /\ UNCHANGED neutron
      \/ neutron' = [neutron EXCEPT ![s.grp] = G] /\ Answered(r, t)
  BY <1>1, <1>3, <1>4, <1>5 DEF RenameGroup, GroupCall
<1>7. CASE Raise(r) /\ UNCHANGED neutron
  BY <1>1, <1>2, <1>7, RaiseLone
<1>8. CASE neutron' = [neutron EXCEPT ![s.grp] = G] /\ Answered(r, t)
  <2>1. TablesLocal(r)
    BY <1>1, <1>2, <1>8, GroupLocal
  <2>2. /\ t.at = "list" /\ t.grp = s.grp /\ t.stale = s.stale /\ t.doomed = s.doomed
        /\ t.loaded = s.loaded /\ t.before = s.before /\ t.tasks = tasks
        /\ t.failed = s.failed /\ t.name = s.name /\ t.clean = s.clean
    BY <1>2, <1>5 DEF RequestState
  <2>3. RequestsLocal(r) /\ (request'[r].clean => request'[r] = t)
    BY <1>1, <1>8, <2>2, AnsweredLocal
  <2>4. ASSUME request'[r].clean PROVE LoneKnows(request[r])'
    <3>1. t = request'[r] /\ s.clean
      BY <2>2, <2>3, <2>4
    <3>2. /\ s.grp \in Group /\ neutron[s.grp] \in NeutronGroup /\ s.tasks \in Seq(Task)
          /\ LoneKnows(s) /\ RestorableFrom(s, neutron[s.grp])
      BY <1>1, <3>1, LoneFacts
    <3>3. /\ ~s.stale /\ s.doomed = {} /\ row[s.grp].life # "absent"
          /\ row[s.grp].name = s.loaded /\ s.before.name = s.loaded
          /\ ~s.failed /\ Contents(neutron[s.grp]) = s.before.rules
      BY <1>2, <3>2 DEF LoneKnows, OnItsWay
    <3>4. s.name \in Name \cup {None} /\ s.loaded \in Name \cup {None}
      BY <1>2 DEF RequestState
    <3>5. Contents(G) = s.before.rules /\ G.name = s.name
      BY <1>3, <3>2, <3>3, <3>4, ContentsOf
    <3>6. PICK task : task = [undo |-> "rename", name |-> s.before.name]
      OBVIOUS
    <3>7. task = UndoRename(s) /\ task \in Task /\ Restores(task, t)
      BY <2>2, <3>3, <3>4, <3>6 DEF UndoRename, Task, Restores
    <3>8. \A u : Listed(u, t.tasks) <=> Listed(u, s.tasks) \/ u = task
      <4>1. 0 \in Nat
        OBVIOUS
      <4> HIDE DEF Task
      <4> QED
        BY <1>4, <2>2, <3>2, <3>7, <4>1, ListedTasks
    <3>9. RestorableFrom(t, G)
      BY <2>2, <3>2, <3>5, <3>6, <3>7, <3>8 DEF RestorableFrom, Restores
    <3>10. G = neutron'[t.grp]
      BY <1>8, <2>2, <3>2 DEF IndInv, TypeOK
    <3> QED
      BY <1>2, <2>2, <3>1, <3>2, <3>3, <3>5, <3>9, <3>10, LoneNext
  <2> QED
    BY <2>1, <2>3, <2>4 DEF LoneStep
<1> QED
  BY <1>6, <1>7, <1>8

LEMMA ListRulesLone ==
  ASSUME IndInv, LoneInv, NEW r \in Request, ListRules(r)
  PROVE  LoneStep(r)
<1>1. PICK s : s = request[r]
  OBVIOUS
<1>2. s \in RequestState /\ s.at = "list" /\ row' = row /\ neutron' = neutron
  BY <1>1 DEF ListRules, IndInv, TypeOK
<1>3. PICK G : G = neutron[s.grp]
  OBVIOUS
<1>4. PICK doomed : doomed = {x \in G.rules : x.content \notin s.rules}
  OBVIOUS
<1>5. PICK adding : adding = s.rules \ Contents(G)
  OBVIOUS
<1>6. PICK u : u = [s EXCEPT !.doomed = doomed, !.adding = adding]
  OBVIOUS
<1>7. PICK label : label = IF doomed # {} THEN "delete_rules" ELSE AfterDeletions(u)
  OBVIOUS
<1>8. PICK t : t = [u EXCEPT !.at = label]
  OBVIOUS
<1>9. Raise(r) \/ Become(r, t)
  BY <1>1, <1>3, <1>4, <1>5, <1>6, <1>7, <1>8 DEF ListRules
<1>10. CASE Raise(r)
  BY <1>1, <1>2, <1>10, RaiseLone
<1>11. CASE Become(r, t)
  <2>1. TablesLocal(r)
    BY <1>2, GroupLocal
  <2>2. u.adding = adding
    BY <1>2, <1>6 DEF RequestState
  <2>3. /\ t.at = label /\ t.grp = s.grp /\ t.stale = s.stale /\ t.doomed = doomed
        /\ t.adding = adding /\ t.rules = s.rules
        /\ t.loaded = s.loaded /\ t.before = s.before /\ t.tasks = s.tasks
        /\ t.failed = s.failed /\ t.name = s.name /\ t.clean = s.clean
    BY <1>2, <1>6, <1>8 DEF RequestState
  <2>4. RequestsLocal(r) /\ request'[r] = t
    BY <1>1, <1>11, <2>3, BecomeLocal
  <2>5. ASSUME request'[r].clean PROVE LoneKnows(request[r])'
    <3>1. t = request'[r] /\ s.clean
      BY <2>3, <2>4, <2>5
    <3>2. /\ s.grp \in Group /\ G \in NeutronGroup /\ LoneKnows(s) /\ RestorableFrom(s, G)
      BY <1>1, <1>3, <3>1, LoneFacts
    <3>3. /\ ~s.stale /\ row[s.grp].life # "absent"
          /\ row[s.grp].name = s.loaded /\ s.before.name = s.loaded
          /\ ~s.failed /\ Contents(G) = s.before.rules /\ G.name = s.name
      BY <1>2, <1>3, <3>2 DEF LoneKnows, OnItsWay
    <3>4. RestorableFrom(t, G)
      BY <2>3, <3>2 DEF RestorableFrom, Restores
    <3>5. \/ label = "delete_rules" /\ doomed # {}
          \/ label = "save" /\ doomed = {} /\ adding = {}
          \/ label = "add_rules" /\ doomed = {}
      BY <1>7, <2>2 DEF AfterDeletions
    <3>6. doomed = {} => Contents(G) \subseteq s.rules
      BY <1>4 DEF Contents
    <3>7. adding = {} /\ doomed = {} => Contents(G) = s.rules
      BY <1>5, <3>6
    <3>8. adding \cap s.before.rules = {}
      BY <1>5, <3>3
    <3>9. /\ \A x \in doomed : x.content \notin s.rules
          /\ \A x \in G.rules : x.content \in s.rules \/ x \in doomed
      BY <1>4
    <3>10. G = neutron'[t.grp]
      BY <1>2, <1>3, <2>3
    <3> QED
      BY <1>2, <1>5, <2>3, <3>1, <3>2, <3>3, <3>4, <3>5, <3>6, <3>7, <3>8, <3>9, <3>10, LoneNext
  <2> QED
    BY <2>1, <2>4, <2>5 DEF LoneStep
<1> QED
  BY <1>9, <1>10, <1>11

LEMMA AddRulesLone ==
  ASSUME IndInv, LoneInv, NEW r \in Request, AddRules(r)
  PROVE  LoneStep(r)
<1>1. PICK s : s = request[r]
  OBVIOUS
<1>2. s \in RequestState /\ s.at = "add_rules" /\ row' = row
  BY <1>1 DEF AddRules, GroupCall, IndInv, TypeOK
<1>3. PICK H : H = WithRules(neutron[s.grp], s.adding)
  OBVIOUS
<1>4. PICK last \in H.rules \ neutron[s.grp].rules :
        \/ Raise(r) /\ UNCHANGED neutron
        \/ /\ TakesRules(s.grp, s.adding)
           /\ neutron' = [neutron EXCEPT ![s.grp] = H]
           /\ Answered(r,
                IF row[s.grp].life = "absent" THEN [s EXCEPT !.at = "insert"]
                ELSE [s EXCEPT !.at = "save", !.tasks = UndoAdded(@, s.adding, last)])
  BY <1>1, <1>3 DEF AddRules, GroupCall
<1>5. CASE Raise(r) /\ UNCHANGED neutron
  BY <1>1, <1>2, <1>5, RaiseLone
<1>6. ASSUME neutron' = [neutron EXCEPT ![s.grp] = H],
             row[s.grp].life = "absent", Answered(r, [s EXCEPT !.at = "insert"])
      PROVE  LoneStep(r)
  <2>1. TablesLocal(r)
    BY <1>1, <1>2, <1>6, GroupLocal
  <2>2. PICK t : t = [s EXCEPT !.at = "insert"]
    OBVIOUS
  <2>3. t.grp = s.grp /\ (t.clean => s.clean)
    BY <1>2, <2>2 DEF RequestState
  <2>4. RequestsLocal(r)
    BY <1>1, <1>6, <2>2, <2>3, AnsweredLocal
  <2>5. ~s.clean
    BY <1>1, <1>6 DEF LoneInv, LoneUpdatesKnow, LoneKnows
  <2> QED
    BY <1>1, <2>1, <2>4, <2>5 DEF LoneStep, RequestsLocal
<1>7. ASSUME TakesRules(s.grp, s.adding), neutron' = [neutron EXCEPT ![s.grp] = H],
             Answered(r, [s EXCEPT !.at = "save", !.tasks = UndoAdded(@, s.adding, last)])
      PROVE  LoneStep(r)
  <2>1. TablesLocal(r)
    BY <1>1, <1>2, <1>7, GroupLocal
  <2>2. PICK tasks : tasks = UndoAdded(s.tasks, s.adding, last)
    OBVIOUS
  <2>3. PICK t : t = [s EXCEPT !.at = "save", !.tasks = tasks]
    OBVIOUS
  <2>4. /\ t.at = "save" /\ t.grp = s.grp /\ t.stale = s.stale /\ t.doomed = s.doomed
        /\ t.rules = s.rules /\ t.name = s.name /\ t.clean = s.clean
        /\ t.loaded = s.loaded /\ t.before = s.before /\ t.tasks = tasks
    BY <1>2, <2>3 DEF RequestState
  <2>5. RequestsLocal(r) /\ (request'[r].clean => request'[r] = t)
    <3>1. Answered(r, t)
      BY <1>7, <2>2, <2>3
    <3> QED
      BY <1>1, <2>4, <3>1, AnsweredLocal
  <2>6. ASSUME request'[r].clean PROVE LoneKnows(request[r])'
    <3>1. t = request'[r] /\ s.clean
      BY <2>4, <2>5, <2>6
    <3>2. /\ s.grp \in Group /\ neutron[s.grp] \in NeutronGroup /\ s.tasks \in Seq(Task)
          /\ LoneKnows(s) /\ RestorableFrom(s, neutron[s.grp])
      BY <1>1, <3>1, LoneFacts
    <3>3. /\ ~s.stale /\ s.doomed = {} /\ row[s.grp].life # "absent"
          /\ row[s.grp].name = s.loaded /\ s.before.name = s.loaded
          /\ neutron[s.grp].name = s.name
          /\ s.adding = s.rules \ Contents(neutron[s.grp]) /\ s.adding \cap s.before.rules = {}
          /\ Contents(neutron[s.grp]) \subseteq s.rules
      BY <1>2, <3>2 DEF LoneKnows, OnItsWay
    <3>4. s.adding \in SUBSET Content /\ None \in Name \cup {None}
      BY <1>2 DEF RequestState
    <3>5. /\ Contents(H) = Contents(neutron[s.grp]) \cup s.adding
          /\ H.name = s.name /\ last.content \in s.adding
      <4>1. PICK G : G = neutron[s.grp]
        OBVIOUS
      <4>2. PICK c : c = s.adding
        OBVIOUS
      <4>3. G \in NeutronGroup /\ c \in SUBSET Content /\ H = WithRules(G, c)
        BY <1>3, <3>2, <3>4, <4>1, <4>2
      <4>4. /\ Contents(H) = Contents(G) \cup c /\ H.name = G.name
            /\ \A x \in H.rules \ G.rules : x.content \in c
        BY <3>4, <4>3, ContentsOf
      <4> QED
        BY <1>4, <3>3, <4>1, <4>2, <4>4
    <3>6. Contents(H) = s.rules
      BY <3>3, <3>5
    <3>7. PICK task : task = [undo |-> "delete_rule", rule |-> last]
      OBVIOUS
    <3>8. Restores(task, t)
      BY <2>4, <3>3, <3>5, <3>7 DEF Restores
    <3>9. task \in Task
      <4>1. H \in NeutronGroup
        BY <1>3, <1>7, <3>2, <3>4, NeutronType DEF TakesRules
      <4> QED
        BY <1>4, <3>7, <4>1 DEF Task, NeutronGroup
    <3>10. Cardinality(s.adding) \in Nat
      BY <3>4, GroupsAssumption, FS_Subset, FS_CardinalityType
    <3>11. /\ \A u : Listed(u, t.tasks) => Listed(u, s.tasks) \/ u = task
           /\ \A u : Listed(u, s.tasks) => Listed(u, t.tasks)
      BY <2>2, <2>4, <3>2, <3>7, <3>9, <3>10, ListedTasks DEF UndoAdded
    <3>12. RestorableFrom(t, H)
      BY <2>4, <3>2, <3>3, <3>5, <3>8, <3>11 DEF RestorableFrom, Restores
    <3>13. H = neutron'[t.grp]
      BY <1>7, <2>4, <3>2 DEF IndInv, TypeOK
    <3> QED
      BY <1>2, <2>4, <3>1, <3>2, <3>3, <3>5, <3>6, <3>12, <3>13, LoneNext
  <2> QED
    BY <2>1, <2>5, <2>6 DEF LoneStep
<1> QED
  BY <1>4, <1>5, <1>6, <1>7

\* One of the deletions of an update that goes on: its rule is gone and its undo
\* is on the list, or it failed and nothing has changed.
LEMMA SettledLone ==
  ASSUME IndInv, LoneInv, NEW r \in Request, NEW s, s = request[r], NEW x \in s.doomed,
         NEW deleted \in BOOLEAN, Become(r, Settled(s, x, deleted)), row' = row,
         neutron' = IF deleted THEN [neutron EXCEPT ![s.grp] = Without(@, x)] ELSE neutron
  PROVE  RequestsLocal(r) /\ (request'[r].clean => LoneKnows(request[r])')
<1>1. s \in RequestState /\ x \in Rule
  BY DEF IndInv, TypeOK, RequestState
<1>2. PICK failed \in BOOLEAN : failed = (s.failed \/ ~deleted)
  OBVIOUS
<1>3. PICK task : task = [undo |-> "create_rule", content |-> x.content]
  OBVIOUS
<1>4. PICK tasks : tasks = IF deleted /\ s.at # "rollback" THEN AddTask(s.tasks, task) ELSE s.tasks
  OBVIOUS
<1>5. PICK u : u = [s EXCEPT !.doomed = s.doomed \ {x}, !.failed = failed, !.tasks = tasks]
  OBVIOUS
<1>6. /\ u.at = s.at /\ u.grp = s.grp /\ u.stale = s.stale /\ u.doomed = s.doomed \ {x}
      /\ u.rules = s.rules /\ u.name = s.name /\ u.clean = s.clean /\ u.adding = s.adding
      /\ u.loaded = s.loaded /\ u.before = s.before /\ u.tasks = tasks /\ u.failed = failed
  BY <1>1, <1>5 DEF RequestState
<1>7. PICK label :
        label = IF s.at # "delete_rules" \/ u.doomed # {} THEN u.at
                ELSE IF u.failed THEN "rollback" ELSE AfterDeletions(u)
  OBVIOUS
<1>8. PICK t : t = [u EXCEPT !.at = label]
  OBVIOUS
<1>9. /\ t.at = label /\ t.grp = s.grp /\ t.stale = s.stale /\ t.doomed = s.doomed \ {x}
      /\ t.rules = s.rules /\ t.name = s.name /\ t.clean = s.clean /\ t.adding = s.adding
      /\ t.loaded = s.loaded /\ t.before = s.before /\ t.tasks = tasks /\ t.failed = failed
  BY <1>1, <1>5, <1>8 DEF RequestState
<1>10. t = Settled(s, x, deleted)
  <2>1. u.at = label => t = u
    BY <1>1, <1>5, <1>8 DEF RequestState
  <2>2. Settled(s, x, deleted) =
          IF s.at # "delete_rules" \/ u.doomed # {} THEN u
          ELSE [u EXCEPT !.at = IF u.failed THEN "rollback" ELSE AfterDeletions(u)]
    BY <1>2, <1>3, <1>4, <1>5 DEF Settled
  <2> QED
    BY <1>7, <1>8, <2>1, <2>2
<1>11. RequestsLocal(r) /\ request'[r] = t
  BY <1>9, <1>10, BecomeLocal
<1>12. ASSUME request'[r].clean PROVE LoneKnows(request[r])'
  <2>1. t = request'[r] /\ s.clean
    BY <1>9, <1>11, <1>12
  <2>2. PICK G : G = neutron[s.grp]
    OBVIOUS
  <2>3. /\ s.grp \in Group /\ G \in NeutronGroup /\ s.tasks \in Seq(Task)
        /\ LoneKnows(s) /\ RestorableFrom(s, G)
    BY <2>1, <2>2, LoneFacts
  <2>4. s.at = "delete_rules"
    BY <2>3 DEF LoneKnows
  <2>5. /\ ~s.stale /\ row[s.grp].life # "absent"
        /\ row[s.grp].name = s.loaded /\ s.before.name = s.loaded /\ G.name = s.name
        /\ s.adding = s.rules \ Contents(G) /\ s.adding \cap s.before.rules = {}
        /\ \A y \in s.doomed : y.content \notin s.rules
        /\ s.failed \/ \A y \in G.rules : y.content \in s.rules \/ y \in s.doomed
    BY <2>2, <2>3, <2>4 DEF LoneKnows, OnItsWay
  <2>6. PICK H : H = IF deleted THEN Without(G, x) ELSE G
    OBVIOUS
  <2>7. H = neutron'[t.grp]
    BY <1>9, <2>2, <2>3, <2>6 DEF IndInv, TypeOK
  <2>8. H.name = G.name /\ H.rules = IF deleted THEN G.rules \ {x} ELSE G.rules
    BY <1>1, <2>3, <2>6, ContentsOf
  <2>9. /\ \A c \in Contents(G) : c \in Contents(H) \/ (deleted /\ c = x.content)
        /\ Contents(H) \subseteq Contents(G)
    BY <2>8 DEF Contents
  <2>10. t.adding = t.rules \ Contents(H)
    <3>1. x.content \notin s.rules
      BY <2>5
    <3> QED
      BY <1>9, <2>5, <2>9, <3>1
  <2>11. /\ \A y \in t.doomed : y.content \notin t.rules
         /\ t.failed \/ \A y \in H.rules : y.content \in t.rules \/ y \in t.doomed
    BY <1>2, <1>9, <2>5, <2>8
  <2>12. \/ label = "delete_rules" /\ t.doomed # {}
         \/ label = "rollback" /\ t.doomed = {}
         \/ label = "save" /\ t.doomed = {} /\ ~t.failed /\ t.adding = {}
         \/ label = "add_rules" /\ t.doomed = {} /\ ~t.failed
    BY <1>6, <1>7, <1>9, <2>4 DEF AfterDeletions
  <2>13. t.doomed = {} /\ ~t.failed => Contents(H) \subseteq t.rules
    BY <2>11 DEF Contents
  <2>14. t.doomed = {} /\ ~t.failed /\ t.adding = {} => Contents(H) = t.rules
    BY <2>10, <2>13
  <2>15. /\ \A v : Listed(v, s.tasks) => Listed(v, t.tasks)
         /\ \A v : Listed(v, t.tasks) => Listed(v, s.tasks) \/ (deleted /\ v = task)
         /\ deleted => Listed(task, t.tasks)
    <3>1. task \in Task
      BY <1>1, <1>3 DEF Task, Rule
    <3>2. 0 \in Nat
      OBVIOUS
    <3>3. \A v : Listed(v, AddTask(s.tasks, task)) <=> Listed(v, s.tasks) \/ v = task
      BY <2>3, <3>1, <3>2, ListedTasks
    <3> QED
      BY <1>4, <1>9, <2>4, <3>3
  <2>16. Restores(task, t)
    BY <1>3 DEF Restores
  <2>17. RestorableFrom(t, H)
    <3>1. \A v : Listed(v, t.tasks) => Restores(v, t)
      BY <1>9, <2>3, <2>15, <2>16 DEF RestorableFrom, Restores
    <3>2. \/ H.name = t.before.name
          \/ Listed([undo |-> "rename", name |-> t.before.name], t.tasks)
      BY <1>9, <2>3, <2>8, <2>15 DEF RestorableFrom
    <3>3. ASSUME NEW c \in t.before.rules
          PROVE  \/ c \in Contents(H)
                 \/ Listed([undo |-> "create_rule", content |-> c], t.tasks)
      BY <1>3, <1>9, <2>3, <2>9, <2>15, <3>3 DEF RestorableFrom
    <3> QED
      BY <3>1, <3>2, <3>3 DEF RestorableFrom
  <2>18. /\ t.grp \in Group /\ ~t.stale /\ row[t.grp].life # "absent"
         /\ row[t.grp].name = t.loaded /\ t.before.name = t.loaded
         /\ H.name = t.name /\ t.adding \cap t.before.rules = {}
         /\ t.doomed # {} => t.at = "delete_rules"
         /\ t.at \in {"delete_rules", "rollback", "save", "add_rules"}
         /\ t.at = "add_rules" => Contents(H) \subseteq t.rules
         /\ t.at = "save" => Contents(H) = t.rules
    BY <1>9, <2>3, <2>5, <2>8, <2>12, <2>13, <2>14
  <2> QED
    BY <2>1, <2>7, <2>10, <2>11, <2>17, <2>18, LoneNext
<1> QED
  BY <1>11, <1>12

LEMMA DeleteRuleLone ==
  ASSUME IndInv, LoneInv, NEW r \in Request, NEW x, DeleteRule(r, x)
  PROVE  LoneStep(r)
<1>1. PICK s : s = request[r]
  OBVIOUS
<1>2. /\ s \in RequestState /\ x \in s.doomed /\ row' = row
      /\ neutron' = neutron \/ neutron' = [neutron EXCEPT ![s.grp] = Without(@, x)]
  BY <1>1 DEF DeleteRule, IndInv, TypeOK
<1>3. TablesLocal(r)
  <2>1. PICK G : G = Without(neutron[s.grp], x)
    OBVIOUS
  <2> QED
    BY <1>1, <1>2, <2>1, GroupLocal
<1>4. CASE /\ neutron' = [neutron EXCEPT ![s.grp] = Without(@, x)]
           /\ Become(r, Settled(s, x, TRUE))
  BY <1>1, <1>2, <1>3, <1>4, SettledLone DEF LoneStep
<1>5. CASE neutron' = neutron /\ Become(r, Settled(s, x, FALSE))
  BY <1>1, <1>2, <1>3, <1>5, SettledLone DEF LoneStep
<1>6. CASE Become(r, Dropped(s, x))
  <2>1. PICK label : label = IF s.at # "delete_rules" THEN s.at
                             ELSE IF s.doomed = {x} THEN "rollback" ELSE "raise"
    OBVIOUS
  <2>2. PICK t : t = [s EXCEPT !.doomed = s.doomed \ {x}, !.at = label, !.clean = FALSE]
    OBVIOUS
  <2>3. t.grp = s.grp /\ t.clean = FALSE
    BY <1>2, <2>2 DEF RequestState
  <2>4. Become(r, t)
    BY <1>6, <2>1, <2>2 DEF Dropped
  <2>5. RequestsLocal(r) /\ request'[r] = t
    BY <1>1, <2>3, <2>4, BecomeLocal
  <2> QED
    BY <1>3, <2>3, <2>5 DEF LoneStep
<1> QED
  BY <1>1, <1>4, <1>5, <1>6 DEF DeleteRule

LEMMA SaveGroupLone ==
  ASSUME IndInv, LoneInv, NEW r \in Request, SaveGroup(r)
  PROVE  LoneStep(r)
<1>1. PICK s : s = request[r]
  OBVIOUS
<1>2. s \in RequestState /\ s.at = "save" /\ neutron' = neutron
  BY <1>1 DEF SaveGroup, IndInv, TypeOK
<1>3. PICK w : row' = row \/ row' = [row EXCEPT ![s.grp] = w]
  BY <1>1 DEF SaveGroup
<1>4. TablesLocal(r)
  BY <1>1, <1>2, <1>3, GroupLocal
<1>5. CASE Raise(r) /\ row' = row
  BY <1>1, <1>2, <1>5, RaiseLone
<1>6. CASE Finish(r)
  BY <1>4, <1>6, FinishLocal DEF LoneStep
<1>7. CASE Written(r, s.grp)
  BY <1>1, <1>4, <1>7, WrittenLocal DEF LoneStep
<1>8. CASE s.stale /\ Become(r, Retried(s))
  <2>1. PICK tries : tries = s.tries + 1
    OBVIOUS
  <2>2. PICK t : t = [s EXCEPT !.at = "retry", !.failed = FALSE, !.adding = {}, !.tries = tries]
    OBVIOUS
  <2>3. t.grp = s.grp /\ t.clean = s.clean
    BY <1>2, <2>2 DEF RequestState
  <2>4. Become(r, t)
    BY <1>8, <2>1, <2>2 DEF Retried
  <2>5. RequestsLocal(r)
    BY <1>1, <2>3, <2>4, BecomeLocal
  <2>6. ~s.clean
    BY <1>1, <1>8 DEF LoneInv, LoneUpdatesKnow, LoneKnows
  <2> QED
    BY <1>1, <1>4, <2>5, <2>6 DEF LoneStep, RequestsLocal
<1> QED
  BY <1>1, <1>5, <1>6, <1>7, <1>8 DEF SaveGroup

LEMMA UndoLatestLone ==
  ASSUME IndInv, LoneInv, NEW r \in Request, UndoLatest(r)
  PROVE  LoneStep(r)
<1>1. PICK s : s = request[r]
  OBVIOUS
<1>2. s \in RequestState /\ s.at = "rollback" /\ row' = row /\ s.tasks # <<>>
  BY <1>1 DEF UndoLatest, IndInv, TypeOK
<1>3. PICK task : task = LatestTask(s.tasks)
  OBVIOUS
<1>4. PICK tasks : tasks = WithoutLatest(s.tasks)
  OBVIOUS
<1>5. PICK rest : rest = [s EXCEPT !.tasks = tasks]
  OBVIOUS
<1>6. PICK vain \in BOOLEAN : vain = (task.undo = "delete_rule" /\ ~CanUndo(task, s))
  OBVIOUS
<1>7. PICK gone : gone = [rest EXCEPT !.clean = rest.clean /\ vain]
  OBVIOUS
<1>8. /\ rest.at = "rollback" /\ rest.grp = s.grp /\ rest.stale = s.stale
      /\ rest.doomed = s.doomed /\ rest.clean = s.clean
      /\ rest.loaded = s.loaded /\ rest.before = s.before /\ rest.tasks = tasks
  BY <1>2, <1>5 DEF RequestState
<1>9. gone.grp = s.grp /\ gone.clean = (s.clean /\ vain) /\ (gone.clean => gone = rest)
  BY <1>2, <1>5, <1>7 DEF RequestState
<1>10. PICK H : H = Undone(neutron[s.grp], task)
  OBVIOUS
<1>11. \/ /\ CanUndo(task, s) /\ Become(r, rest)
          /\ \/ task.undo = "delete_port" /\ UNCHANGED neutron
             \/ task.undo # "delete_port" /\ neutron' = [neutron EXCEPT ![s.grp] = H]
       \/ UNCHANGED neutron /\ Become(r, gone)
  BY <1>1, <1>3, <1>4, <1>5, <1>6, <1>7, <1>10 DEF UndoLatest
<1>12. TablesLocal(r)
  BY <1>1, <1>2, <1>11, GroupLocal
<1>13. PICK t : t = request'[r]
  OBVIOUS
<1>14. RequestsLocal(r) /\ (t.clean => t = rest /\ s.clean)
  <2>1. CASE Become(r, rest)
    BY <1>1, <1>8, <1>13, <2>1, BecomeLocal
  <2>2. CASE Become(r, gone)
    <3>1. RequestsLocal(r) /\ request'[r] = gone
      BY <1>1, <1>9, <2>2, BecomeLocal
    <3> QED
      BY <1>9, <1>13, <3>1
  <2> QED
    BY <1>11, <2>1, <2>2
<1>15. ASSUME request'[r].clean PROVE LoneKnows(request[r])'
  <2>1. PICK G : G = neutron[s.grp]
    OBVIOUS
  <2>2. t = rest /\ s.clean
    BY <1>13, <1>14, <1>15
  <2>3. /\ s.grp \in Group /\ G \in NeutronGroup /\ s.tasks \in Seq(Task)
        /\ LoneKnows(s) /\ RestorableFrom(s, G)
    BY <1>1, <2>1, <2>2, LoneFacts
  <2>4. /\ ~s.stale /\ row[s.grp].life # "absent" /\ s.doomed = {}
        /\ row[s.grp].name = s.loaded /\ s.before.name = s.loaded
    BY <1>2, <2>3 DEF LoneKnows
  <2>5. /\ \A v : Listed(v, s.tasks) <=> Listed(v, tasks) \/ v = task
        /\ task \in Task
    <3>1. task \in Task
      BY <1>2, <1>3, <2>3, TasksType
    <3>2. 0 \in Nat
      OBVIOUS
    <3> QED
      BY <1>2, <1>3, <1>4, <2>3, <3>1, <3>2, ListedTasks
  <2>6. Restores(task, s)
    BY <2>3, <2>5 DEF RestorableFrom
  <2>7. \A v : Listed(v, t.tasks) => Restores(v, t)
    BY <1>8, <2>2, <2>3, <2>5 DEF RestorableFrom, Restores
  <2>8. PICK K : K = neutron'[t.grp]
    OBVIOUS
  <2>9. RestorableFrom(t, K)
    <3>1. CASE UNCHANGED neutron /\ task.undo = "delete_rule"
      <4>1. K = G
        BY <1>8, <2>1, <2>2, <2>8, <3>1
      <4> QED
        BY <1>8, <2>2, <2>3, <2>5, <2>7, <3>1, <4>1 DEF RestorableFrom
    <3>2. CASE /\ CanUndo(task, s) /\ task.undo # "delete_port"
               /\ neutron' = [neutron EXCEPT ![s.grp] = H]
      <4>1. K = H
        BY <1>8, <2>2, <2>3, <2>8, <3>2 DEF IndInv, TypeOK
      <4>2. CASE task.undo = "rename"
        <5>1. H = [G EXCEPT !.name = s.before.name]
          BY <1>10, <2>1, <2>6, <4>2 DEF Undone, Restores
        <5>2. s.before.name \in Name \cup {None}
          BY <1>2 DEF RequestState
        <5>3. H.name = s.before.name /\ Contents(H) = Contents(G)
          BY <2>3, <5>1, <5>2, ContentsOf
        <5> QED
          BY <1>8, <2>2, <2>3, <2>5, <2>7, <4>1, <4>2, <5>3 DEF RestorableFrom
      <4>3. CASE task.undo = "create_rule"
        <5>1. task.content \in Content /\ task = [undo |-> "create_rule", content |-> task.content]
          BY <2>5, <4>3 DEF Task
        <5>2. H = WithRules(G, {task.content})
          BY <1>10, <2>1, <4>3 DEF Undone
        <5>3. {task.content} \in SUBSET Content /\ None \in Name \cup {None}
          BY <5>1
        <5>4. H.name = G.name /\ Contents(H) = Contents(G) \cup {task.content}
          BY <2>3, <5>2, <5>3, ContentsOf
        <5>5. ASSUME NEW c \in s.before.rules
              PROVE  \/ c \in Contents(H)
                     \/ Listed([undo |-> "create_rule", content |-> c], tasks)
          <6>1. \/ c \in Contents(G)
                \/ Listed([undo |-> "create_rule", content |-> c], s.tasks)
            BY <2>3 DEF RestorableFrom
          <6>2. CASE [undo |-> "create_rule", content |-> c] = task
            <7>1. c = task.content
              BY <6>2
            <7> QED
              BY <5>4, <7>1
          <6> QED
            BY <2>5, <5>4, <6>1, <6>2
        <5>6. \/ H.name = s.before.name
              \/ Listed([undo |-> "rename", name |-> s.before.name], tasks)
          <6>1. [undo |-> "rename", name |-> s.before.name] # task
            BY <4>3
          <6> QED
            BY <2>3, <2>5, <5>4, <6>1 DEF RestorableFrom
        <5> QED
          BY <1>8, <2>2, <2>7, <4>1, <5>5, <5>6 DEF RestorableFrom
      <4>4. CASE task.undo = "delete_rule"
        <5>1. H = Without(G, task.rule) /\ task.rule.content \notin s.before.rules
          BY <1>10, <2>1, <2>6, <4>4 DEF Undone, Restores
        <5>2. task.rule \in Rule /\ None \in Name \cup {None}
          BY <2>5, <4>4 DEF Task
        <5>3. H.name = G.name /\ H.rules = G.rules \ {task.rule}
          BY <2>3, <5>1, <5>2, ContentsOf
        <5>4. \A c \in s.before.rules : c \in Contents(G) => c \in Contents(H)
          BY <5>1, <5>3 DEF Contents
        <5> QED
          BY <1>8, <2>2, <2>3, <2>5, <2>7, <4>1, <4>4, <5>3, <5>4 DEF RestorableFrom
      <4> QED
        BY <2>6, <4>2, <4>3, <4>4 DEF Restores
    <3>3. \/ UNCHANGED neutron /\ task.undo = "delete_rule"
          \/ /\ CanUndo(task, s) /\ task.undo # "delete_port"
             /\ neutron' = [neutron EXCEPT ![s.grp] = H]
      <4>1. task.undo # "delete_port"
        BY <2>6 DEF Restores
      <4>2. ASSUME Become(r, gone) PROVE task.undo = "delete_rule"
        <5>1. request'[r] = gone
          BY <1>1, <1>9, <4>2, BecomeLocal
        <5> QED
          BY <1>6, <1>9, <1>15, <5>1
      <4> QED
        BY <1>11, <4>1, <4>2
    <3> QED
      BY <3>1, <3>2, <3>3
  <2> QED
    BY <1>2, <1>8, <1>13, <2>2, <2>3, <2>4, <2>8, <2>9, LoneNext
<1> QED
  BY <1>12, <1>14, <1>15 DEF LoneStep

---------------------------------------------------------------------------
(* The first step of a request, and every step.                            *)

\* A request takes its group from those that had it to themselves.
LEMMA StartKeepsLone ==
  ASSUME IndInv, LoneInv, NEW r \in Request, NEW t, Start(r, t), UNCHANGED <<row, neutron>>,
         t.clean => t.grp \in Group /\ ~Busy(t.grp) /\ LoneKnows(t)
  PROVE  LoneInv'
<1>1. request'[r] = t
  BY DEF Start
<1>2. ASSUME NEW p \in Request \ {r}
      PROVE  /\ request'[p].grp = request[p].grp
             /\ request'[p].clean =>
                  /\ request[p].clean /\ request'[p] = request[p]
                  /\ t.grp # None => request[p].grp # t.grp
  <2>1. PICK s : s = request[p]
    OBVIOUS
  <2>2. PICK u : u = [s EXCEPT !.clean = FALSE]
    OBVIOUS
  <2>3. u.grp = s.grp /\ u.clean = FALSE
    BY <2>1, <2>2 DEF IndInv, TypeOK, RequestState
  <2>4. request'[p] = IF t.grp # None /\ s.grp = t.grp THEN u ELSE s
    BY <2>1, <2>2 DEF Start
  <2> QED
    BY <2>1, <2>3, <2>4
<1>3. \A p \in Request : request[p].clean => LoneKnows(request[p]) /\ request[p].grp # None
  BY GroupsAssumption DEF LoneInv, LoneUpdatesKnow, LoneKnows
<1>4. CleanIsAlone'
  <2> SUFFICES ASSUME NEW p \in Request, NEW q \in Request, p # q, request'[p].clean
               PROVE  request'[q].grp # request'[p].grp
    BY DEF CleanIsAlone
  <2>1. CASE p = r
    BY <1>1, <1>2, <2>1 DEF Busy
  <2>2. CASE q = r
    BY <1>1, <1>2, <1>3, <2>2
  <2>3. CASE p # r /\ q # r
    BY <1>2, <2>3 DEF LoneInv, CleanIsAlone
  <2> QED
    BY <2>1, <2>2, <2>3
<1>5. ASSUME NEW p \in Request, request'[p].clean PROVE LoneKnows(request[p])'
  <2>1. PICK s : s = request'[p]
    OBVIOUS
  <2>2. LoneKnows(s)
    BY <1>1, <1>2, <1>3, <1>5, <2>1
  <2>3. LoneKnows(s)'
    BY <2>2 DEF LoneKnows, OnItsWay, Restorable, Contents, Listed
  <2> QED
    BY <2>1, <2>3 DEF LoneKnows, OnItsWay, Restorable, Contents, Listed
<1>6. LoneUpdatesKnow'
  BY <1>5 DEF LoneUpdatesKnow
<1> QED
  BY <1>4, <1>6 DEF LoneInv

\* An update that finds its group in order has it to itself, and all to do.
LEMMA UpdateGroupLone ==
  ASSUME IndInv, LoneInv, NEW r \in Request, NEW g \in Group, NEW name, NEW rules,
         UpdateGroup(r, g, name, rules)
  PROVE  LoneInv'
<1>1. PICK before : before = [name |-> row[g].name, rules |-> Contents(neutron[g])]
  OBVIOUS
<1>2. PICK clean \in BOOLEAN : clean = InOrder(g)
  BY DEF InOrder
<1>3. PICK s : s = [Idle EXCEPT !.grp = g, !.name = name, !.rules = rules,
                                !.clean = clean, !.before = before]
  OBVIOUS
<1>4. PICK label : label = IF name = row[g].name THEN "list" ELSE "rename"
  OBVIOUS
<1>5. PICK t : t = [s EXCEPT !.at = label, !.loaded = row[g].name, !.stale = FALSE]
  OBVIOUS
<1>6. /\ t.at = label /\ t.grp = g /\ t.name = name /\ t.rules = rules /\ t.clean = clean
      /\ t.loaded = row[g].name /\ t.stale = FALSE /\ t.doomed = {} /\ t.failed = FALSE
      /\ t.tasks = <<>> /\ t.before = before
  BY <1>3, <1>5 DEF Idle
<1>7. Start(r, t)
  <2>1. s.grp = g /\ s.name = name
    BY <1>3 DEF Idle
  <2>2. t = Loaded(s)
    BY <1>4, <1>5, <2>1 DEF Loaded
  <2> QED
    BY <1>1, <1>2, <1>3, <2>2 DEF UpdateGroup
<1>8. row[g].life # "absent"
  BY DEF UpdateGroup, MayUpdate
<1>9. ASSUME clean PROVE ~Busy(g) /\ LoneKnows(t)
  <2>1. ~Busy(g) /\ neutron[g].name = row[g].name
    BY <1>2, <1>9 DEF InOrder
  <2>2. OnItsWay(t)
    BY <1>1, <1>4, <1>6, <2>1 DEF OnItsWay
  <2>3. Restorable(t)
    BY <1>1, <1>6, <2>1 DEF Restorable
  <2> QED
    BY <1>1, <1>4, <1>6, <1>8, <2>1, <2>2, <2>3 DEF LoneKnows
<1> QED
  BY <1>6, <1>7, <1>9, StartKeepsLone DEF UpdateGroup

\* The other requests never claim to have their group to themselves.
LEMMA BeginKeepsLone ==
  ASSUME IndInv, LoneInv, NEW r \in Request, Begin(r)
  PROVE  LoneInv'
<1>1. ASSUME NEW g \in Group, NEW name \in Name, NEW rules \in SUBSET Content,
             CreateGroup(r, g, name, rules)
      PROVE  LoneInv'
  <2>1. PICK t : t = [Idle EXCEPT !.at = "create_group", !.grp = g, !.name = name,
                                  !.rules = rules, !.adding = rules \ DefaultRules]
    OBVIOUS
  <2>2. t.clean = FALSE
    BY <2>1 DEF Idle
  <2> QED
    BY <1>1, <2>1, <2>2, StartKeepsLone DEF CreateGroup
<1>2. ASSUME NEW g \in Group, DeleteGroup(r, g) PROVE LoneInv'
  <2>1. PICK t : t = [Idle EXCEPT !.at = "delete_group", !.grp = g]
    OBVIOUS
  <2>2. t.clean = FALSE
    BY <2>1 DEF Idle
  <2> QED
    BY <1>2, <2>1, <2>2, StartKeepsLone DEF DeleteGroup
<1>3. ASSUME NEW n \in Nic, NEW grps \in SUBSET Group, CreateServer(r, n, grps) PROVE LoneInv'
  <2>1. PICK t : t = [Idle EXCEPT !.at = "create_port", !.nic = n, !.grps = grps]
    OBVIOUS
  <2>2. t.clean = FALSE
    BY <2>1 DEF Idle
  <2> QED
    BY <1>3, <2>1, <2>2, StartKeepsLone DEF CreateServer
<1>4. ASSUME NEW n \in Nic, RemoveNic(r, n) PROVE LoneInv'
  <2>1. PICK t : t = [Idle EXCEPT !.at = "delete_port", !.nic = n]
    OBVIOUS
  <2>2. t.clean = FALSE
    BY <2>1 DEF Idle
  <2> QED
    BY <1>4, <2>1, <2>2, StartKeepsLone DEF RemoveNic
<1> QED
  BY <1>1, <1>2, <1>3, <1>4, UpdateGroupLone DEF Begin

LEMMA ProgressLone ==
  ASSUME IndInv, LoneInv, NEW r \in Request, Progress(r)
  PROVE  LoneStep(r)
<1>1. CASE NeutronCreateGroup(r) \/ InsertGroup(r)
  BY <1>1, NeutronCreateGroupLone, InsertGroupLone
<1>2. CASE TryAgain(r) \/ RenameGroup(r) \/ ListRules(r)
  BY <1>2, TryAgainLone, RenameGroupLone, ListRulesLone
<1>3. CASE \E x \in request[r].doomed : DeleteRule(r, x)
  BY <1>3, DeleteRuleLone
<1>4. CASE AddRules(r) \/ SaveGroup(r)
  BY <1>4, AddRulesLone, SaveGroupLone
<1>5. CASE NeutronDeleteGroup(r) \/ SoftDeleteGroup(r)
  BY <1>5, NeutronDeleteGroupLone, SoftDeleteGroupLone
<1>6. CASE NeutronCreatePort(r) \/ NeutronDeletePort(r)
  BY <1>6, NeutronCreatePortLone, NeutronDeletePortLone
<1>7. CASE LinkGroups(r) \/ UnlinkGroups(r) \/ StartRollback(r)
  BY <1>7, OtherStepsLone
<1>8. CASE UndoLatest(r) \/ EndFailed(r)
  BY <1>8, UndoLatestLone, EndFailedLone
<1> QED
  BY <1>1, <1>2, <1>3, <1>4, <1>5, <1>6, <1>7, <1>8 DEF Progress

\* The first state and every step keep what a lone update knows.
LEMMA LoneInit == Init => LoneInv
<1> SUFFICES ASSUME Init, NEW r \in Request PROVE request[r].clean = FALSE
  BY DEF LoneInv, CleanIsAlone, LoneUpdatesKnow
<1> QED
  BY DEF Init, Idle

LEMMA NextKeepsLone == IndInv /\ LoneInv /\ [Next]_vars => LoneInv'
<1> SUFFICES ASSUME IndInv, LoneInv, [Next]_vars PROVE LoneInv'
  OBVIOUS
<1>1. ASSUME NEW r \in Request, Progress(r) PROVE LoneInv'
  BY <1>1, ProgressLone, LoneKeeps DEF LoneStep
<1>2. CASE UNCHANGED vars
  BY <1>2 DEF vars, LoneInv, CleanIsAlone, LoneUpdatesKnow, LoneKnows, OnItsWay, Restorable,
              Contents, Listed
<1> QED
  BY <1>1, <1>2, BeginKeepsLone DEF Next

\* Every reachable state satisfies the inductive invariant about updates that
\* have their group to themselves: nobody else works on the group, the update is
\* on its way from the old name and rules to the new, and its undo calls bring
\* back what it has changed.
THEOREM GroupsInvariance == Spec => []GroupsInv
<1>1. Init => GroupsInv
  BY InitEstablishes, LoneInit DEF GroupsInv, LoneInv
<1>2. GroupsInv /\ [Next]_vars => GroupsInv'
  BY NextKeeps, NextKeepsLone DEF GroupsInv, LoneInv
<1> QED
  BY <1>1, <1>2, PTL DEF Spec

\* An update that has its group to itself ends in its own commit or at the end
\* of its own rollback.
LEMMA EndsHere ==
  ASSUME GroupsInv, Next, NEW r \in Request, request[r].clean, request'[r].at = "idle"
  PROVE  /\ request[r].at = "save" => SaveGroup(r)
         /\ request[r].at = "rollback" => EndFailed(r)
<1>1. IndInv /\ LoneInv
  BY DEF GroupsInv, LoneInv
<1>2. PICK s : s = request[r]
  OBVIOUS
<1>3. /\ s \in RequestState /\ s.at # "idle"
      /\ s.at \in {"save", "rollback"} => s.doomed = {}
  BY <1>1, <1>2, LoneFacts DEF LoneKnows
<1>4. ASSUME NEW p \in Request, Begin(p) PROVE FALSE
  <2>1. PICK t : Start(p, t)
    BY <1>4 DEF Begin, CreateGroup, UpdateGroup, DeleteGroup, CreateServer, RemoveNic
  <2>2. p # r
    BY <1>2, <1>3, <2>1 DEF Start
  <2>3. PICK u : u = [s EXCEPT !.clean = FALSE]
    OBVIOUS
  <2>4. request'[r] = s \/ request'[r] = u
    BY <1>2, <2>1, <2>2, <2>3 DEF Start
  <2>5. u.at = s.at
    BY <1>3, <2>3 DEF RequestState
  <2> QED
    BY <1>3, <2>4, <2>5
<1>5. ASSUME NEW p \in Request \ {r}, Progress(p) PROVE FALSE
  BY <1>1, <1>2, <1>3, <1>5, ProgressLone DEF LoneStep, RequestsLocal
<1>6. Progress(r)
  BY <1>4, <1>5 DEF Next
<1>7. CASE s.at = "save"
  BY <1>2, <1>3, <1>6, <1>7
  DEF Progress, NeutronCreateGroup, InsertGroup, TryAgain, RenameGroup, ListRules, DeleteRule,
      AddRules, NeutronDeleteGroup, SoftDeleteGroup, NeutronCreatePort, LinkGroups,
      NeutronDeletePort, UnlinkGroups, StartRollback, UndoLatest, EndFailed
<1>8. CASE s.at = "rollback"
  <2>1. UndoLatest(r) \/ EndFailed(r)
    BY <1>2, <1>3, <1>6, <1>8
    DEF Progress, NeutronCreateGroup, InsertGroup, TryAgain, RenameGroup, ListRules, DeleteRule,
        AddRules, SaveGroup, NeutronDeleteGroup, SoftDeleteGroup, NeutronCreatePort, LinkGroups,
        NeutronDeletePort, UnlinkGroups, StartRollback
  <2>2. ASSUME UndoLatest(r) PROVE FALSE
    <3>1. PICK tasks : tasks = WithoutLatest(s.tasks)
      OBVIOUS
    <3>2. PICK rest : rest = [s EXCEPT !.tasks = tasks]
      OBVIOUS
    <3>3. PICK t : Become(r, t) /\ (t = rest \/ \E c : t = [rest EXCEPT !.clean = c])
      BY <1>2, <2>2, <3>1, <3>2 DEF UndoLatest
    <3>4. t.at = s.at
      BY <1>3, <3>2, <3>3 DEF RequestState
    <3>5. request'[r] = t
      BY <1>1, <3>3 DEF Become, IndInv, TypeOK
    <3> QED
      BY <1>3, <3>4, <3>5
  <2> QED
    BY <1>2, <1>8, <2>1, <2>2
<1> QED
  BY <1>2, <1>7, <1>8

\* The commit that ends it writes the name, or had none to write.
LEMMA SaveEnds ==
  ASSUME GroupsInv, NEW r \in Request, NEW s, s = request[r], s.clean, SaveGroup(r),
         request'[r].at = "idle"
  PROVE  \/ s.name = s.loaded /\ row' = row
         \/ row' = [row EXCEPT ![s.grp].name = s.name]
<1>1. IndInv /\ LoneInv
  BY DEF GroupsInv, LoneInv
<1>2. s \in RequestState /\ s.at = "save" /\ s.doomed = {} /\ ~s.stale
  BY <1>1, LoneFacts DEF LoneKnows, SaveGroup
<1>3. ASSUME Raise(r) PROVE FALSE
  <2>1. request'[r] = [s EXCEPT !.at = "rollback"]
    BY <1>1, <1>2, <1>3, RaiseLocal
  <2>2. [s EXCEPT !.at = "rollback"].at = "rollback"
    BY <1>2 DEF RequestState
  <2> QED
    BY <2>1, <2>2
<1> QED
  BY <1>2, <1>3 DEF SaveGroup

\* An update that returns, and had its group to itself, leaves the row and
\* Neutron with the name, and Neutron with the rules, it was asked for: what the
\* comparison with Neutron's rules, the parallel deletions, the POST and the
\* commit make together.
THEOREM LoneUpdateSafe == Spec => LoneUpdateIsDone
<1> DEFINE Step == \A r \in Request :
                     LET s == request[r]
                     IN  LoneUpdateEnds(r, "save") =>
                           /\ row'[s.grp].name = s.name
                           /\ neutron'[s.grp].name = s.name
                           /\ Contents(neutron'[s.grp]) = s.rules
<1>1. ASSUME GroupsInv, [Next]_vars PROVE [Step]_vars
  <2> SUFFICES ASSUME Next, NEW r \in Request, LoneUpdateEnds(r, "save")
               PROVE  /\ row'[request[r].grp].name = request[r].name
                      /\ neutron'[request[r].grp].name = request[r].name
                      /\ Contents(neutron'[request[r].grp]) = request[r].rules
    BY <1>1
  <2>1. PICK s : s = request[r]
    OBVIOUS
  <2>2. s.clean /\ s.at = "save" /\ request'[r].at = "idle"
    BY <2>1 DEF LoneUpdateEnds
  <2>3. /\ s.grp \in Group /\ row[s.grp].name = s.loaded /\ neutron[s.grp].name = s.name
        /\ Contents(neutron[s.grp]) = s.rules
        /\ s \in RequestState /\ row[s.grp] \in Row
    BY <1>1, <2>1, <2>2 DEF GroupsInv, LoneUpdatesKnow, LoneKnows, OnItsWay, IndInv, TypeOK
  <2>4. SaveGroup(r)
    BY <1>1, <2>1, <2>2, EndsHere
  <2>5. neutron' = neutron
    BY <2>4 DEF SaveGroup
  <2>6. row'[s.grp].name = s.name
    <3>1. \/ s.name = s.loaded /\ row' = row
          \/ row' = [row EXCEPT ![s.grp].name = s.name]
      BY <1>1, <2>1, <2>2, <2>4, SaveEnds
    <3> QED
      BY <1>1, <2>3, <3>1 DEF GroupsInv, IndInv, TypeOK, Row
  <2> QED
    BY <2>1, <2>3, <2>5, <2>6
<1>2. GroupsInv /\ [Next]_vars => [Step]_vars
  BY <1>1
<1> QED
  BY <1>2, GroupsInvariance, PTL DEF Spec, LoneUpdateIsDone

\* An update that raises, had its group to itself, lost no answer and could undo
\* what it did leaves the row and Neutron with the old name and the old rules,
\* wherever it failed: the undo calls of the compensating transaction, run from
\* the latest to the first, bring back what its calls have changed.
THEOREM LoneFailureSafe == Spec => LoneFailureIsUndone
<1> DEFINE Step == \A r \in Request :
                     LET s == request[r]
                     IN  LoneUpdateEnds(r, "rollback") =>
                           /\ row'[s.grp].name = s.before.name
                           /\ neutron'[s.grp].name = s.before.name
                           /\ s.before.rules \subseteq Contents(neutron'[s.grp])
<1>1. ASSUME GroupsInv, [Next]_vars PROVE [Step]_vars
  <2> SUFFICES ASSUME Next, NEW r \in Request, LoneUpdateEnds(r, "rollback")
               PROVE  /\ row'[request[r].grp].name = request[r].before.name
                      /\ neutron'[request[r].grp].name = request[r].before.name
                      /\ request[r].before.rules \subseteq Contents(neutron'[request[r].grp])
    BY <1>1
  <2>1. PICK s : s = request[r]
    OBVIOUS
  <2>2. s.clean /\ s.at = "rollback" /\ request'[r].at = "idle"
    BY <2>1 DEF LoneUpdateEnds
  <2>3. row[s.grp].name = s.before.name /\ Restorable(s)
    BY <1>1, <2>1, <2>2 DEF GroupsInv, LoneUpdatesKnow, LoneKnows
  <2>4. EndFailed(r)
    BY <1>1, <2>1, <2>2, EndsHere
  <2>5. s.tasks = <<>> /\ row' = row /\ neutron' = neutron
    BY <2>1, <2>4 DEF EndFailed
  <2>6. \A task : ~Listed(task, s.tasks)
    BY <2>5 DEF Listed
  <2>7. /\ neutron[s.grp].name = s.before.name
        /\ \A c \in s.before.rules : c \in Contents(neutron[s.grp])
    BY <2>3, <2>6 DEF Restorable
  <2> QED
    BY <2>1, <2>3, <2>5, <2>7
<1>2. GroupsInv /\ [Next]_vars => [Step]_vars
  BY <1>1
<1> QED
  BY <1>2, GroupsInvariance, PTL DEF Spec, LoneFailureIsUndone
=============================================================================
