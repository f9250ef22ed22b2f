-------------------------- MODULE Accounts_proofs --------------------------
(***************************************************************************)
(* Proofs about Accounts, for any number of projects, users, memberships   *)
(* and concurrent requests, any number of tries and any faults.            *)
(***************************************************************************)
EXTENDS Accounts, TLAPS

(***************************************************************************)
(* The invariant, in the parts of a request, of two requests, of the       *)
(* tables and Keystone, and of both.                                       *)
(***************************************************************************)

\* What the tables must satisfy of a request in the state s.
RequestInv(s) ==
  /\ s.at = "rollback" => s.undo # None
  /\ s.at \in {"flush_name", "retry", "patch", "commit_name"} =>
       s.prj \in Project /\ s.name \in Name
  /\ s.at \in {"flush_name", "patch", "commit_name"} => s.loaded \in Name
  /\ s.at \in {"grant", "commit_assign", "delete_link", "revoke", "commit_unassign"} =>
       s.prj \in Project /\ s.usr \in User /\ s.link \in Link
  /\ s.at \in {"delete_user", "soft_delete"} => s.usr \in User /\ s.prj = None
  /\ s.at = "create_user" => s.account \in Account
  /\ s.at = "commit_name" => s.undo = "rename"
  /\ s.at = "commit_assign" => s.undo = "revoke"
  /\ s.at = "commit_unassign" => s.undo = "grant"
  /\ s.at = "insert_user" => s.undo = "delete_user" /\ s.account \in Account
  /\ s.undo = "rename" =>
       /\ s.at \in {"commit_name", "rollback"}
       /\ s.prj \in Project /\ s.name \in Name /\ s.loaded \in Name
  /\ s.undo = "revoke" =>
       /\ s.at \in {"commit_assign", "rollback"}
       /\ s.prj \in Project /\ s.usr \in User
  /\ s.undo = "grant" =>
       /\ s.at \in {"commit_unassign", "rollback"}
       /\ s.prj \in Project /\ s.usr \in User /\ s.link \in Link
  /\ s.undo = "delete_user" => s.at \in {"insert_user", "rollback"}

NameInv(s) ==
  /\ s.at \in {"patch", "commit_name"} => ~s.stale
  /\ s.at \in {"flush_name", "patch", "commit_name"} /\ ~s.stale => s.loaded = name[s.prj]
  /\ s.undo = "rename" /\ s.clean => s.loaded = name[s.prj]
  /\ s.at = "commit_name" /\ s.prj \notin blurred => keystone[s.prj].name = s.name

LinkInv(s) ==
  /\ s.at \in {"grant", "commit_assign"} => link[s.link].life = "absent"
  /\ s.at \in {"delete_link", "revoke"} \/ s.undo = "grant" =>
       /\ link[s.link].life # "absent"
       /\ link[s.link].life = "live" => link[s.link] = Membership(s.prj, s.usr)
       /\ s.clean /\ identity[s.usr] = "EXISTS" => link[s.link].life = "live"
  /\ s.at \in {"delete_user", "soft_delete"} => \A l \in s.links :
       /\ link[l].life # "absent"
       /\ link[l].life = "live" => link[l].usr = s.usr

UserInv(s) ==
  /\ s.at = "create_user" \/ s.undo = "delete_user" =>
       s.usr \in User /\ s.prj = None /\ user[s.usr].life = "absent"
  /\ s.at = "create_user" => identity[s.usr] = "UNCREATED"
  /\ s.at = "soft_delete" => identity[s.usr] = "GONE"

KeysAreOwn ==
  \A q, r \in Request : Assigns(r) /\ request[q].link = request[r].link => q = r

UsersAreOwn ==
  \A q, r \in Request : Creates(r) /\ request[q].usr = request[r].usr => q = r

Pairs == CleanIsAlone /\ OneHoldsName /\ KeysAreOwn /\ UsersAreOwn

LiveLinks ==
  \A l \in Link : link[l].life = "live" => link[l].prj \in Project /\ link[l].usr \in User

Tables ==
  /\ name \in [Project -> Name]
  /\ user \in [User -> UserRow]
  /\ link \in [Link -> LinkRow]
  /\ keystone \in [Project -> KeystoneProject]
  /\ identity \in [User -> {"UNCREATED", "EXISTS", "GONE"}]
  /\ blurred \subseteq Project \cup User
  /\ KeystoneNamesAreDistinct
  /\ LiveLinks
  /\ RolesHaveIdentities
  /\ DeletedUserIsGone

States == request \in [Request -> RequestState]

Each ==
  \A r \in Request :
    /\ RequestInv(request[r]) /\ NameInv(request[r])
    /\ LinkInv(request[r]) /\ UserInv(request[r])

Kept == RolesAreKept /\ NamesAgree /\ IdentitiesHaveRows

\* The parts make up the invariant, ...
LEMMA IndInvParts == IndInv <=> States /\ Each /\ Pairs /\ Tables /\ Kept
<1>1. WorksOnTarget <=> \A r \in Request : RequestInv(request[r])
  BY DEF WorksOnTarget, RequestInv
<1>2. LoadedIsStored <=> \A r \in Request : NameInv(request[r])
  BY DEF LoadedIsStored, NameInv
<1>3. LinksAreTheirs <=>
        LiveLinks /\ KeysAreOwn /\ \A r \in Request : LinkInv(request[r])
  BY DEF LinksAreTheirs, LiveLinks, KeysAreOwn, LinkInv, Assigns, Unassigns
<1>4. CreatesAlone /\ SoftDeletesGone <=>
        UsersAreOwn /\ \A r \in Request : UserInv(request[r])
  BY DEF CreatesAlone, SoftDeletesGone, UsersAreOwn, UserInv, Creates
<1>5. QED
  BY <1>1, <1>2, <1>3, <1>4 DEF IndInv, TypeOK, States, Each, Pairs, Tables, Kept

\* ... in the next state too.
LEMMA IndInvPartsPrimed == IndInv' <=> States' /\ Each' /\ Pairs' /\ Tables' /\ Kept'
<1>1. WorksOnTarget' <=> \A r \in Request : RequestInv(request[r])'
  BY DEF WorksOnTarget, RequestInv
<1>2. LoadedIsStored' <=> \A r \in Request : NameInv(request[r])'
  BY DEF LoadedIsStored, NameInv
<1>3. LinksAreTheirs' <=>
        LiveLinks' /\ KeysAreOwn' /\ \A r \in Request : LinkInv(request[r])'
  BY DEF LinksAreTheirs, LiveLinks, KeysAreOwn, LinkInv, Assigns, Unassigns
<1>4. CreatesAlone' /\ SoftDeletesGone' <=>
        UsersAreOwn' /\ \A r \in Request : UserInv(request[r])'
  BY DEF CreatesAlone, SoftDeletesGone, UsersAreOwn, UserInv, Creates
<1>5. QED
  BY <1>1, <1>2, <1>3, <1>4 DEF IndInv, TypeOK, States, Each, Pairs, Tables, Kept

(***************************************************************************)
(* Steps that only move a request.                                         *)
(***************************************************************************)

LEMMA IdleFacts ==
  /\ Idle \in RequestState
  /\ Idle.at = "idle" /\ Idle.prj = None /\ Idle.usr = None /\ Idle.link = None
  /\ Idle.links = {} /\ Idle.undo = None /\ Idle.stale = FALSE
  BY AccountsAssumption DEF Idle, RequestState, Location

LEMMA IdleInv ==
  /\ RequestInv(Idle) /\ NameInv(Idle) /\ LinkInv(Idle) /\ UserInv(Idle)
  /\ RequestInv(Idle)' /\ NameInv(Idle)' /\ LinkInv(Idle)' /\ UserInv(Idle)'
  BY IdleFacts, AccountsAssumption DEF RequestInv, NameInv, LinkInv, UserInv

\* A request that moves is the only one to change.
LEMMA Moved ==
  ASSUME States, NEW r \in Request, NEW t \in RequestState, Become(r, t)
  PROVE  /\ States'
         /\ request'[r] = t
         /\ \A q \in Request \ {r} : request'[q] = request[q]
  BY DEF States, Become

\* What holds of two requests is kept by one that stays with what it works on.
LEMMA PairsMove ==
  ASSUME States, Pairs, NEW r \in Request, NEW t \in RequestState, Become(r, t),
         t.prj = request[r].prj, t.usr = request[r].usr, t.link = request[r].link,
         t.clean = request[r].clean,
         t.at \in {"patch", "commit_name"} =>
           HoldsName(r, t.prj) \/ \A q \in Request : ~HoldsName(q, t.prj),
         t.at \in {"grant", "commit_assign"} => Assigns(r),
         t.at = "create_user" \/ t.undo = "delete_user" => Creates(r)
  PROVE  Pairs'
<1>1. /\ request'[r] = t
      /\ \A q \in Request \ {r} : request'[q] = request[q]
  BY Moved
<1>2. CleanIsAlone'
  BY <1>1 DEF Pairs, CleanIsAlone, OnSameProject
<1>3. OneHoldsName'
  BY <1>1 DEF Pairs, OneHoldsName, HoldsName
<1>4. KeysAreOwn'
  BY <1>1 DEF Pairs, KeysAreOwn, Assigns
<1>5. UsersAreOwn'
  BY <1>1 DEF Pairs, UsersAreOwn, Creates
<1>6. QED
  BY <1>2, <1>3, <1>4, <1>5 DEF Pairs

\* It is kept by one that ends.
LEMMA PairsEnd ==
  ASSUME States, Each, Pairs, NEW r \in Request, Finish(r)
  PROVE  Pairs'
<1>1. /\ request'[r] = Idle
      /\ \A q \in Request \ {r} : request'[q] = request[q]
  BY IdleFacts, Moved DEF Finish
<1>2. CleanIsAlone'
  BY <1>1, IdleFacts DEF Pairs, CleanIsAlone, OnSameProject
<1>3. OneHoldsName'
  BY <1>1, IdleFacts DEF Pairs, OneHoldsName, HoldsName
<1>4. KeysAreOwn'
  <2>1. \A o \in Request : Assigns(o) => request[o].link # None
    BY AccountsAssumption DEF Assigns, Each, RequestInv
  <2>2. QED
    BY <1>1, <2>1, IdleFacts DEF Pairs, KeysAreOwn, Assigns
<1>5. UsersAreOwn'
  <2>1. \A o \in Request : Creates(o) => request[o].usr # None
    BY AccountsAssumption DEF Creates, Each, UserInv
  <2>2. QED
    BY <1>1, <2>1, IdleFacts, AccountsAssumption DEF Pairs, UsersAreOwn, Creates
<1>6. QED
  BY <1>2, <1>3, <1>4, <1>5 DEF Pairs

\* A request moves on, as a coroutine that has waited does, and changes nothing.
LEMMA MoveKeeps ==
  ASSUME IndInv, NEW r \in Request, NEW t \in RequestState, Become(r, t),
         UNCHANGED <<tables, keystone, identity, blurred>>,
         t.prj = request[r].prj, t.usr = request[r].usr, t.link = request[r].link,
         t.clean = request[r].clean, t.undo = request[r].undo,
         t.at \notin {"commit_name", "commit_unassign", "grant", "commit_assign", "create_user"},
         t.at = "patch" => \A q \in Request : ~HoldsName(q, t.prj),
         RequestInv(t), NameInv(t), LinkInv(t), UserInv(t)
  PROVE  IndInv'
<1>0. States /\ Each /\ Pairs /\ Tables /\ Kept
  BY IndInvParts
<1>1. /\ request'[r] = t
      /\ \A q \in Request \ {r} : request'[q] = request[q]
      /\ States'
  BY <1>0, Moved
<1>2. Pairs'
  BY <1>0, PairsMove DEF Creates
<1>3. Tables'
  BY <1>0 DEF Tables, tables, KeystoneNamesAreDistinct, LiveLinks, RolesHaveIdentities,
              DeletedUserIsGone
<1>4. Each'
  <2>1. \A s : /\ RequestInv(s) <=> RequestInv(s)'
               /\ NameInv(s) <=> NameInv(s)'
               /\ LinkInv(s) <=> LinkInv(s)'
               /\ UserInv(s) <=> UserInv(s)'
    BY DEF tables, RequestInv, NameInv, LinkInv, UserInv
  <2>2. QED
    BY <1>0, <1>1, <2>1 DEF Each
<1>5. Kept'
  <2>1. RolesAreKept'
    BY <1>0, <1>1 DEF Kept, RolesAreKept, IsBeingDeleted, tables
  <2>2. NamesAgree'
    BY <1>0, <1>1 DEF Kept, NamesAgree, NameIsSettled, tables
  <2>3. IdentitiesHaveRows'
    BY <1>0, <1>1 DEF Kept, IdentitiesHaveRows, tables
  <2>4. QED
    BY <2>1, <2>2, <2>3 DEF Kept
<1>6. QED
  BY <1>1, <1>2, <1>3, <1>4, <1>5, IndInvPartsPrimed

\* A request ends and changes nothing; if it leaves something to undo, that is
\* known to be blurred.
LEMMA EndKeeps ==
  ASSUME IndInv, NEW r \in Request, Finish(r), UNCHANGED <<tables, keystone, identity>>,
         blurred \subseteq blurred', blurred' \subseteq Project \cup User,
         request[r].undo # None => Subject(r) \in blurred'
  PROVE  IndInv'
<1>0. States /\ Each /\ Pairs /\ Tables /\ Kept
  BY IndInvParts
<1>1. /\ request'[r] = Idle
      /\ \A q \in Request \ {r} : request'[q] = request[q]
      /\ States'
  BY <1>0, IdleFacts, Moved DEF Finish
<1>2. Pairs'
  BY <1>0, PairsEnd
<1>3. Tables'
  BY <1>0 DEF Tables, tables, KeystoneNamesAreDistinct, LiveLinks, RolesHaveIdentities,
              DeletedUserIsGone
<1>4. Each'
  <2>1. \A s : /\ RequestInv(s) => RequestInv(s)'
               /\ NameInv(s) => NameInv(s)'
               /\ LinkInv(s) => LinkInv(s)'
               /\ UserInv(s) => UserInv(s)'
    BY DEF tables, RequestInv, NameInv, LinkInv, UserInv
  <2>2. QED
    BY <1>0, <1>1, <2>1, IdleInv DEF Each
<1>5. Kept'
  <2>0. /\ request[r].undo \in {"rename", "revoke", "grant"} => Subject(r) = request[r].prj
        /\ request[r].undo = "delete_user" => Subject(r) = request[r].usr
    BY <1>0, AccountsAssumption DEF Each, RequestInv, UserInv, Subject
  <2>1. RolesAreKept'
    BY <1>0, <1>1, <2>0, IdleFacts, AccountsAssumption
    DEF Kept, RolesAreKept, IsBeingDeleted, tables
  <2>2. NamesAgree'
    BY <1>0, <1>1, <2>0, IdleFacts, AccountsAssumption
    DEF Kept, NamesAgree, NameIsSettled, tables
  <2>3. IdentitiesHaveRows'
    BY <1>0, <1>1, <2>0, IdleFacts, AccountsAssumption DEF Kept, IdentitiesHaveRows, tables
  <2>4. QED
    BY <2>1, <2>2, <2>3 DEF Kept
<1>6. QED
  BY <1>1, <1>2, <1>3, <1>4, <1>5, IndInvPartsPrimed

\* A request that goes elsewhere, or loses its flag.
LEMMA LabelType ==
  ASSUME NEW s \in RequestState, NEW label \in Location, NEW t, t = [s EXCEPT !.at = label]
  PROVE  /\ t \in RequestState /\ t.at = label
         /\ t.prj = s.prj /\ t.usr = s.usr /\ t.link = s.link /\ t.links = s.links
         /\ t.name = s.name /\ t.loaded = s.loaded /\ t.account = s.account
         /\ t.stale = s.stale /\ t.undo = s.undo /\ t.clean = s.clean
  BY DEF RequestState

LEMMA CleanType ==
  ASSUME NEW s \in RequestState, NEW flag \in BOOLEAN, NEW t, t = [s EXCEPT !.clean = flag]
  PROVE  /\ t \in RequestState /\ t.clean = flag
         /\ t.at = s.at /\ t.prj = s.prj /\ t.usr = s.usr /\ t.link = s.link
         /\ t.links = s.links /\ t.name = s.name /\ t.loaded = s.loaded
         /\ t.account = s.account /\ t.stale = s.stale /\ t.undo = s.undo
  BY DEF RequestState

\* What has no task to undo ends when it raises.
LEMMA RaiseKeeps ==
  ASSUME IndInv, NEW r \in Request, Raise(r), UNCHANGED <<tables, keystone, identity, blurred>>
  PROVE  IndInv'
<1>0. States /\ Each /\ Tables
  BY IndInvParts
<1>1. CASE request[r].undo = None
  BY <1>0, <1>1, EndKeeps DEF Raise, Tables
<1>2. CASE request[r].undo # None
  <2> DEFINE t == [request[r] EXCEPT !.at = "rollback"]
  <2>1. request[r] \in RequestState /\ "rollback" \in Location
    BY <1>0 DEF States, Location
  <2>2. /\ t \in RequestState /\ t.at = "rollback"
        /\ t.prj = request[r].prj /\ t.usr = request[r].usr /\ t.link = request[r].link
        /\ t.links = request[r].links /\ t.name = request[r].name
        /\ t.loaded = request[r].loaded /\ t.account = request[r].account
        /\ t.stale = request[r].stale /\ t.undo = request[r].undo
        /\ t.clean = request[r].clean
    BY <2>1, LabelType
  <2>3. Become(r, t)
    BY <1>2 DEF Raise
  <2> HIDE DEF t
  <2>4. RequestInv(t) /\ NameInv(t) /\ LinkInv(t) /\ UserInv(t)
    BY <1>0, <1>2, <2>2 DEF Each, RequestInv, NameInv, LinkInv, UserInv
  <2>5. QED
    BY <2>2, <2>3, <2>4, MoveKeeps
<1>3. QED
  BY <1>1, <1>2

LEMMA FailureKeeps ==
  ASSUME IndInv, NEW r \in Request, DatabaseFails(r), UNCHANGED <<keystone, identity, blurred>>
  PROVE  IndInv'
  BY RaiseKeeps DEF DatabaseFails

\* A call that is refused comes before there is anything to undo.
LEMMA RefusalKeeps ==
  ASSUME IndInv, NEW r \in Request, NEW takes, NEW state, Refused(r, takes, state),
         request[r].undo = None, UNCHANGED tables
  PROVE  IndInv'
  BY IndInvParts, EndKeeps DEF Refused, AfterRefusal, Finish, Tables

\* Before its call of Keystone a request has nothing to undo.
LEMMA NothingToUndo ==
  ASSUME States, Each, NEW r \in Request,
         request[r].at \notin {"commit_name", "commit_assign", "commit_unassign",
                               "insert_user", "rollback"}
  PROVE  request[r].undo = None
  BY DEF States, Each, RequestState, RequestInv

\* A request starts.  What it works on is nobody's, or was there before.
LEMMA StartKeeps ==
  ASSUME IndInv, NEW r \in Request, NEW t \in RequestState, Start(r, t),
         t.clean, t.undo = None,
         t.at \notin {"patch", "commit_name", "commit_assign", "commit_unassign", "insert_user"},
         RequestInv(t), NameInv(t), LinkInv(t), UserInv(t),
         t.at = "grant" => \A q \in Request : request[q].link # t.link,
         t.link \in Link /\ t.at # "grant" => link[t.link].life = "live",
         t.at = "create_user" => \A q \in Request : request[q].usr # t.usr,
         t.usr \in User /\ t.at # "create_user" => user[t.usr].life = "live"
  PROVE  IndInv'
<1>0. States /\ Each /\ Pairs /\ Tables /\ Kept
  BY IndInvParts
<1>1. /\ UNCHANGED <<tables, keystone, identity, blurred>>
      /\ request[r].at = "idle" /\ request[r].undo = None
  BY <1>0, NothingToUndo DEF Start
<1> DEFINE Moves(s, u) ==
      /\ u \in RequestState
      /\ u.at = s.at /\ u.prj = s.prj /\ u.usr = s.usr /\ u.link = s.link
      /\ u.links = s.links /\ u.name = s.name /\ u.loaded = s.loaded
      /\ u.account = s.account /\ u.stale = s.stale /\ u.undo = s.undo
      /\ u.clean => s.clean
<1>2. ASSUME NEW s \in RequestState
      PROVE  /\ Moves(s, s)
             /\ Moves(s, [s EXCEPT !.clean = FALSE])
             /\ ~[s EXCEPT !.clean = FALSE].clean
             /\ s.clean => Moves(s, [s EXCEPT !.clean = TRUE])
  <2>1. Moves(s, s)
    BY DEF RequestState
  <2> DEFINE u == [s EXCEPT !.clean = FALSE]
             v == [s EXCEPT !.clean = TRUE]
  <2>2. /\ u \in RequestState /\ u.clean = FALSE
        /\ u.at = s.at /\ u.prj = s.prj /\ u.usr = s.usr /\ u.link = s.link
        /\ u.links = s.links /\ u.name = s.name /\ u.loaded = s.loaded
        /\ u.account = s.account /\ u.stale = s.stale /\ u.undo = s.undo
    BY CleanType
  <2>3. /\ v \in RequestState /\ v.clean = TRUE
        /\ v.at = s.at /\ v.prj = s.prj /\ v.usr = s.usr /\ v.link = s.link
        /\ v.links = s.links /\ v.name = s.name /\ v.loaded = s.loaded
        /\ v.account = s.account /\ v.stale = s.stale /\ v.undo = s.undo
    BY CleanType
  <2> HIDE DEF u, v
  <2>4. ~u.clean
    BY <2>2
  <2>5. Moves(s, u)
    BY <2>2, <2>4
  <2>6. s.clean => Moves(s, v)
    BY <2>3
  <2>7. QED
    BY <2>1, <2>4, <2>5, <2>6 DEF u, v
<1>3. /\ Moves(t, request'[r])
      /\ request'[r].clean => \A o \in Request : ~OnSameProject(request[o], t)
      /\ DOMAIN request' = Request
  <2> DEFINE b == \A o \in Request : ~OnSameProject(request[o], t)
  <2>1. request'[r] = [t EXCEPT !.clean = b] /\ DOMAIN request' = Request
    BY DEF Start
  <2> HIDE DEF Moves
  <2>2. CASE b
    <3>1. b = TRUE
      BY <2>2, Zenon
    <3>2. Moves(t, request'[r])
      <4>1. request'[r] = [t EXCEPT !.clean = TRUE]
        BY <2>1, <3>1
      <4>2. QED
        BY <1>2, <4>1
    <3>3. QED
      BY <2>1, <2>2, <3>2 DEF b
  <2>3. CASE ~b
    <3>1. b = FALSE
      BY <2>3, Zenon
    <3>2. Moves(t, request'[r]) /\ ~request'[r].clean
      <4>1. request'[r] = [t EXCEPT !.clean = FALSE]
        BY <2>1, <3>1
      <4>2. QED
        BY <1>2, <4>1
    <3>3. QED
      BY <2>1, <3>2 DEF b
  <2>4. QED
    BY <2>2, <2>3
<1>4. \A q \in Request \ {r} :
        /\ Moves(request[q], request'[q])
        /\ OnSameProject(request[q], t) => ~request'[q].clean
  <2>1. ASSUME NEW q \in Request \ {r}
        PROVE  request'[q] = IF OnSameProject(request[q], t)
                               THEN [request[q] EXCEPT !.clean = FALSE] ELSE request[q]
    BY DEF Start
  <2>2. \A q \in Request : request[q] \in RequestState
    BY <1>0 DEF States
  <2> HIDE DEF Moves
  <2>3. QED
    BY <1>2, <2>1, <2>2
<1> HIDE DEF Moves
<1>5. States'
  <2>1. \A q \in Request : request'[q] \in RequestState
    BY <1>3, <1>4 DEF Moves
  <2>2. request' = [q \in Request |-> request'[q]]
    BY DEF Start
  <2>3. QED
    BY <2>1, <2>2 DEF States
<1>6. Each'
  <2>1. ASSUME NEW q \in Request, NEW s, NEW u, Moves(s, u),
               RequestInv(s), NameInv(s), LinkInv(s), UserInv(s)
        PROVE  (RequestInv(u) /\ NameInv(u) /\ LinkInv(u) /\ UserInv(u))'
    <3>1. RequestInv(u)'
      BY <2>1 DEF Moves, RequestInv
    <3>2. NameInv(u)'
      BY <1>1, <2>1 DEF Moves, NameInv, tables
    <3>3. LinkInv(u)'
      BY <1>1, <2>1 DEF Moves, LinkInv, tables
    <3>4. UserInv(u)'
      BY <1>1, <2>1 DEF Moves, UserInv, tables
    <3>5. QED
      BY <3>1, <3>2, <3>3, <3>4
  <2>2. QED
    BY <1>0, <1>3, <1>4, <2>1 DEF Each
<1>7. Pairs'
  <2>1. CleanIsAlone'
    BY <1>0, <1>3, <1>4 DEF Pairs, CleanIsAlone, OnSameProject, Moves
  <2>2. OneHoldsName'
    BY <1>0, <1>3, <1>4 DEF Pairs, OneHoldsName, HoldsName, Moves
  <2>3. KeysAreOwn'
    <3>1. \A q \in Request : Assigns(q) =>
            request[q].link \in Link /\ link[request[q].link].life = "absent"
      BY <1>0 DEF Each, RequestInv, LinkInv, Assigns
    <3>2. t.at \notin {"commit_assign"} /\ \A q \in Request : Assigns(q) => request[q].link # t.link
      BY <3>1
    <3>3. QED
      BY <1>0, <1>3, <1>4, <3>2 DEF Pairs, KeysAreOwn, Assigns, Moves
  <2>4. UsersAreOwn'
    <3>1. \A q \in Request : Creates(q) =>
            request[q].usr \in User /\ user[request[q].usr].life = "absent"
      BY <1>0 DEF Each, UserInv, Creates
    <3>2. \A q \in Request : Creates(q) => request[q].usr # t.usr
      BY <3>1
    <3>3. QED
      BY <1>0, <1>3, <1>4, <3>2, AccountsAssumption DEF Pairs, UsersAreOwn, Creates, Moves
  <2>5. QED
    BY <2>1, <2>2, <2>3, <2>4 DEF Pairs
<1>8. Tables'
  BY <1>0, <1>1 DEF Tables, tables, KeystoneNamesAreDistinct, LiveLinks, RolesHaveIdentities,
                    DeletedUserIsGone
<1>9. Kept'
  <2>1. RolesAreKept'
    BY <1>0, <1>1, <1>3, <1>4, AccountsAssumption
    DEF Kept, RolesAreKept, IsBeingDeleted, tables, Moves
  <2>2. NamesAgree'
    BY <1>0, <1>1, <1>3, <1>4, AccountsAssumption
    DEF Kept, NamesAgree, NameIsSettled, tables, Moves
  <2>3. IdentitiesHaveRows'
    BY <1>0, <1>1, <1>3, <1>4, AccountsAssumption
    DEF Kept, IdentitiesHaveRows, tables, Moves
  <2>4. QED
    BY <2>1, <2>2, <2>3 DEF Kept
<1>10. QED
  BY <1>5, <1>6, <1>7, <1>8, <1>9, IndInvPartsPrimed

(***************************************************************************)
(* The handlers start.                                                     *)
(***************************************************************************)

LEMMA RenameProjectStep ==
  ASSUME IndInv, NEW r \in Request, NEW p \in Project, NEW n \in Name, RenameProject(r, p, n)
  PROVE  IndInv'
<1> DEFINE t == Loaded([Idle EXCEPT !.prj = p, !.name = n])
<1>1. /\ t \in RequestState /\ t.at = "flush_name" /\ t.prj = p /\ t.name = n
      /\ t.loaded = name[p] /\ t.stale = FALSE /\ t.usr = None /\ t.link = None
      /\ t.undo = None /\ t.clean = TRUE
  BY IndInvParts, IdleFacts DEF Loaded, Idle, RequestState, Location, Tables
<1>2. Start(r, t)
  BY DEF RenameProject
<1> HIDE DEF t
<1>3. name[p] \in Name /\ t.clean
  BY <1>1, IndInvParts DEF Tables
<1>4. RequestInv(t) /\ NameInv(t) /\ LinkInv(t) /\ UserInv(t)
  BY <1>1, <1>3, AccountsAssumption DEF RequestInv, NameInv, LinkInv, UserInv
<1>5. QED
  BY <1>1, <1>2, <1>3, <1>4, StartKeeps, AccountsAssumption

LEMMA AssignUserStep ==
  ASSUME IndInv, NEW r \in Request, NEW p \in Project, NEW u \in User, NEW l \in Link,
         AssignUser(r, p, u, l)
  PROVE  IndInv'
<1> DEFINE t == [Idle EXCEPT !.at = "grant", !.prj = p, !.usr = u, !.link = l]
<1>1. /\ t \in RequestState /\ t.at = "grant" /\ t.prj = p /\ t.usr = u /\ t.link = l
      /\ t.undo = None /\ t.clean = TRUE
  BY IdleFacts DEF Idle, RequestState, Location
<1>2. /\ Start(r, t)
      /\ user[u].life = "live" /\ link[l].life = "absent"
      /\ \A q \in Request : request[q].link # l
  BY DEF AssignUser
<1> HIDE DEF t
<1>3. t.clean
  BY <1>1
<1>4. RequestInv(t) /\ NameInv(t) /\ LinkInv(t) /\ UserInv(t)
  BY <1>1, <1>2, AccountsAssumption DEF RequestInv, NameInv, LinkInv, UserInv
<1>5. QED
  BY <1>1, <1>2, <1>3, <1>4, StartKeeps

LEMMA UnassignUserStep ==
  ASSUME IndInv, NEW r \in Request, NEW l \in Link, UnassignUser(r, l)
  PROVE  IndInv'
<1> DEFINE p == link[l].prj
           u == link[l].usr
           t == [Idle EXCEPT !.at = "delete_link", !.prj = p, !.usr = u, !.link = l]
<1>1. /\ Start(r, t)
      /\ link[l].life = "live" /\ user[u].life = "live"
  BY DEF UnassignUser
<1>2. p \in Project /\ u \in User /\ link[l] = Membership(p, u)
  BY <1>1, IndInvParts DEF Tables, LiveLinks, LinkRow, Membership
<1> HIDE DEF p, u
<1>3. /\ t \in RequestState /\ t.at = "delete_link" /\ t.prj = p /\ t.usr = u /\ t.link = l
      /\ t.undo = None /\ t.clean = TRUE
  BY <1>2, IdleFacts DEF Idle, RequestState, Location
<1> HIDE DEF t
<1>4. t.clean
  BY <1>3
<1>5. RequestInv(t) /\ NameInv(t) /\ LinkInv(t) /\ UserInv(t)
  BY <1>1, <1>2, <1>3, AccountsAssumption DEF RequestInv, NameInv, LinkInv, UserInv
<1>6. QED
  BY <1>1, <1>3, <1>4, <1>5, StartKeeps

LEMMA CreateUserStep ==
  ASSUME IndInv, NEW r \in Request, NEW u \in User, NEW a \in Account, CreateUser(r, u, a)
  PROVE  IndInv'
<1> DEFINE t == [Idle EXCEPT !.at = "create_user", !.usr = u, !.account = a]
<1>1. /\ t \in RequestState /\ t.at = "create_user" /\ t.prj = None /\ t.usr = u
      /\ t.link = None /\ t.account = a /\ t.undo = None /\ t.clean = TRUE
  BY IdleFacts DEF Idle, RequestState, Location
<1>2. /\ Start(r, t)
      /\ user[u].life = "absent" /\ identity[u] = "UNCREATED"
      /\ \A q \in Request : request[q].usr # u
  BY DEF CreateUser
<1> HIDE DEF t
<1>3. t.clean
  BY <1>1
<1>4. RequestInv(t) /\ NameInv(t) /\ LinkInv(t) /\ UserInv(t)
  BY <1>1, <1>2, AccountsAssumption DEF RequestInv, NameInv, LinkInv, UserInv
<1>5. QED
  BY <1>1, <1>2, <1>3, <1>4, StartKeeps, AccountsAssumption

LEMMA DeleteUserStep ==
  ASSUME IndInv, NEW r \in Request, NEW u \in User, DeleteUser(r, u)
  PROVE  IndInv'
<1> DEFINE ls == {l \in Link : link[l].life = "live" /\ link[l].usr = u}
           t == [Idle EXCEPT !.at = "delete_user", !.usr = u, !.links = ls]
<1>1. /\ t \in RequestState /\ t.at = "delete_user" /\ t.prj = None /\ t.usr = u
      /\ t.link = None /\ t.links = ls /\ t.undo = None /\ t.clean = TRUE
  BY IdleFacts DEF Idle, RequestState, Location
<1>2. Start(r, t) /\ user[u].life = "live"
  BY DEF DeleteUser
<1> HIDE DEF t
<1>3. t.clean
  BY <1>1
<1>4. RequestInv(t) /\ NameInv(t) /\ LinkInv(t) /\ UserInv(t)
  BY <1>1, <1>2, AccountsAssumption DEF RequestInv, NameInv, LinkInv, UserInv
<1>5. QED
  BY <1>1, <1>2, <1>3, <1>4, StartKeeps, AccountsAssumption

(***************************************************************************)
(* The flushes.                                                            *)
(***************************************************************************)

LEMMA TryAgainStep ==
  ASSUME IndInv, NEW r \in Request, TryAgain(r)
  PROVE  IndInv'
<1> DEFINE s == request[r]
           t == Loaded(s)
<1>0. States /\ Each /\ Tables
  BY IndInvParts
<1>1. s.at = "retry" /\ s.undo = None /\ UNCHANGED <<tables, keystone, identity, blurred>>
  BY <1>0, NothingToUndo DEF TryAgain
<1>2. CASE Raise(r)
  BY <1>1, <1>2, RaiseKeeps
<1>3. CASE Become(r, t)
  <2>1. s \in RequestState /\ s.prj \in Project /\ s.name \in Name /\ name[s.prj] \in Name
    BY <1>0, <1>1 DEF States, Each, RequestInv, Tables
  <2>2. /\ t \in RequestState /\ t.at = "flush_name" /\ t.prj = s.prj /\ t.name = s.name
        /\ t.loaded = name[s.prj] /\ t.stale = FALSE /\ t.usr = s.usr /\ t.link = s.link
        /\ t.undo = s.undo /\ t.clean = s.clean
    BY <2>1 DEF Loaded, RequestState, Location
  <2> HIDE DEF s, t
  <2>3. RequestInv(t) /\ NameInv(t) /\ LinkInv(t) /\ UserInv(t)
    BY <1>1, <2>1, <2>2, AccountsAssumption DEF RequestInv, NameInv, LinkInv, UserInv
  <2>4. QED
    BY <1>1, <1>3, <2>2, <2>3, MoveKeeps DEF s
<1>4. QED
  BY <1>2, <1>3 DEF TryAgain

LEMMA FlushNameStep ==
  ASSUME IndInv, NEW r \in Request, FlushName(r)
  PROVE  IndInv'
<1> DEFINE s == request[r]
<1>0. States /\ Each /\ Tables
  BY IndInvParts
<1>1. s.at = "flush_name" /\ s.undo = None /\ UNCHANGED <<keystone, identity, blurred>>
  BY <1>0, NothingToUndo DEF FlushName
<1>2. s \in RequestState /\ RequestInv(s) /\ NameInv(s)
  BY <1>0 DEF States, Each
<1>3. CASE DatabaseFails(r)
  BY <1>1, <1>3, FailureKeeps
<1>4. ASSUME \A q \in Request : ~HoldsName(q, s.prj), Become(r, Flushed(s)), UNCHANGED tables
      PROVE  IndInv'
  <2>1. CASE ~s.stale
    <3> DEFINE t == [s EXCEPT !.at = "patch"]
    <3>1. /\ t \in RequestState /\ t.at = "patch"
          /\ t.prj = s.prj /\ t.usr = s.usr /\ t.link = s.link /\ t.links = s.links
          /\ t.name = s.name /\ t.loaded = s.loaded /\ t.account = s.account
          /\ t.stale = s.stale /\ t.undo = s.undo /\ t.clean = s.clean
      BY <1>2, LabelType DEF Location
    <3>2. Become(r, t)
      BY <1>4, <2>1 DEF Flushed
    <3> HIDE DEF t
    <3>3. RequestInv(t) /\ NameInv(t) /\ LinkInv(t) /\ UserInv(t)
      BY <1>1, <1>2, <2>1, <3>1, AccountsAssumption DEF RequestInv, NameInv, LinkInv, UserInv
    <3>4. QED
      BY <1>1, <1>4, <3>1, <3>2, <3>3, MoveKeeps
  <2>2. CASE s.stale /\ s.tries < MaxTries
    <3> DEFINE t == [s EXCEPT !.at = "retry", !.tries = @ + 1]
    <3>0. s.tries + 1 \in 1..MaxTries
      BY <1>2, <2>2, AccountsAssumption DEF RequestState
    <3>1. /\ t \in RequestState /\ t.at = "retry"
          /\ t.prj = s.prj /\ t.usr = s.usr /\ t.link = s.link
          /\ t.name = s.name /\ t.undo = s.undo /\ t.clean = s.clean
      BY <1>2, <3>0 DEF Location, RequestState
    <3>2. Become(r, t)
      BY <1>4, <2>2 DEF Flushed
    <3> HIDE DEF t
    <3>3. RequestInv(t) /\ NameInv(t) /\ LinkInv(t) /\ UserInv(t)
      BY <1>1, <1>2, <3>1, AccountsAssumption DEF RequestInv, NameInv, LinkInv, UserInv
    <3>4. QED
      BY <1>1, <1>4, <3>1, <3>2, <3>3, MoveKeeps
  <2>3. CASE s.stale /\ ~(s.tries < MaxTries)
    <3>1. Finish(r)
      BY <1>4, <2>3 DEF Flushed, Finish
    <3>2. QED
      BY <1>0, <1>1, <1>4, <3>1, EndKeeps DEF Tables
  <2>4. QED
    BY <2>1, <2>2, <2>3
<1>5. QED
  BY <1>3, <1>4 DEF FlushName

LEMMA DeleteLinkStep ==
  ASSUME IndInv, NEW r \in Request, DeleteLink(r)
  PROVE  IndInv'
<1> DEFINE s == request[r]
           t == [s EXCEPT !.at = "revoke"]
<1>0. States /\ Each
  BY IndInvParts
<1>1. s.at = "delete_link" /\ s.undo = None /\ UNCHANGED <<keystone, identity, blurred>>
  BY <1>0, NothingToUndo DEF DeleteLink
<1>2. CASE DatabaseFails(r)
  BY <1>1, <1>2, FailureKeeps
<1>3. CASE Become(r, t) /\ UNCHANGED tables
  <2>1. s \in RequestState /\ RequestInv(s) /\ LinkInv(s)
    BY <1>0 DEF States, Each
  <2>2. /\ t \in RequestState /\ t.at = "revoke"
        /\ t.prj = s.prj /\ t.usr = s.usr /\ t.link = s.link /\ t.links = s.links
        /\ t.name = s.name /\ t.loaded = s.loaded /\ t.account = s.account
        /\ t.stale = s.stale /\ t.undo = s.undo /\ t.clean = s.clean
    BY <2>1, LabelType DEF Location
  <2> HIDE DEF t
  <2>3. RequestInv(t) /\ NameInv(t) /\ LinkInv(t) /\ UserInv(t)
    BY <1>1, <2>1, <2>2, AccountsAssumption DEF RequestInv, NameInv, LinkInv, UserInv
  <2>4. QED
    BY <1>1, <1>3, <2>2, <2>3, MoveKeeps
<1>4. QED
  BY <1>2, <1>3 DEF DeleteLink

(***************************************************************************)
(* The calls of Keystone.                                                  *)
(***************************************************************************)

\* What a change of one project in Keystone leaves alone.
LEMMA RoleFacts ==
  ASSUME Tables, NEW p \in Project, NEW u \in User
  PROVE  /\ WithRole(p, u) \in [Project -> KeystoneProject]
         /\ WithoutRole(p, u) \in [Project -> KeystoneProject]
         /\ \A q \in Project : /\ WithRole(p, u)[q].name = keystone[q].name
                               /\ WithoutRole(p, u)[q].name = keystone[q].name
                               /\ q # p => WithRole(p, u)[q].roles = keystone[q].roles
                               /\ q # p => WithoutRole(p, u)[q].roles = keystone[q].roles
         /\ WithRole(p, u)[p].roles = keystone[p].roles \cup {u}
         /\ WithoutRole(p, u)[p].roles = keystone[p].roles \ {u}
  BY DEF Tables, WithRole, WithoutRole, KeystoneProject

\* A call that changes the roles of a project, and no name, keeps everything
\* but RolesAreKept.
LEMMA RolesKeep ==
  ASSUME IndInv, NEW r \in Request,
         States', Pairs', RolesAreKept',
         \A q \in Request \ {r} : request'[q] = request[q],
         (RequestInv(request[r]) /\ NameInv(request[r]) /\
          LinkInv(request[r]) /\ UserInv(request[r]))',
         request[r].undo \notin {"rename", "delete_user"},
         UNCHANGED <<tables, identity>>,
         blurred \subseteq blurred', blurred' \subseteq Project \cup User,
         keystone' \in [Project -> KeystoneProject],
         \A q \in Project : keystone'[q].name = keystone[q].name,
         \A q \in Project : \A u \in keystone'[q].roles : identity[u] = "EXISTS"
  PROVE  IndInv'
<1>0. States /\ Each /\ Pairs /\ Tables /\ Kept
  BY IndInvParts
<1>1. Tables'
  <2>1. KeystoneNamesAreDistinct' /\ LiveLinks' /\ RolesHaveIdentities'
    BY <1>0 DEF Tables, KeystoneNamesAreDistinct, LiveLinks, RolesHaveIdentities, tables
  <2>2. DeletedUserIsGone'
    BY <1>0 DEF Tables, DeletedUserIsGone, tables
  <2>3. QED
    BY <1>0, <2>1, <2>2 DEF Tables, tables
<1>2. Each'
  <2>1. ASSUME NEW q \in Request \ {r}, NEW s, s = request[q]
        PROVE  (RequestInv(s) /\ NameInv(s) /\ LinkInv(s) /\ UserInv(s))'
    <3>1. RequestInv(s) /\ NameInv(s) /\ LinkInv(s) /\ UserInv(s)
      BY <1>0, <2>1 DEF Each
    <3>2. RequestInv(s)'
      BY <2>1, <3>1 DEF RequestInv
    <3>3. NameInv(s)'
      <4>1. s' = s
        BY <2>1
      <4>2. s.at = "commit_name" => s.prj \in Project
        BY <3>1 DEF RequestInv
      <4>3. QED
        BY <3>1, <4>1, <4>2 DEF NameInv, tables
    <3>4. LinkInv(s)' /\ UserInv(s)'
      BY <2>1, <3>1 DEF LinkInv, UserInv, tables
    <3>5. QED
      BY <3>2, <3>3, <3>4
  <2>2. QED
    BY <2>1 DEF Each
<1>3. NamesAgree'
  BY <1>0 DEF Kept, NamesAgree, NameIsSettled, tables
<1>4. IdentitiesHaveRows'
  BY <1>0 DEF Kept, IdentitiesHaveRows, tables
<1>5. QED
  BY <1>1, <1>2, <1>3, <1>4, IndInvPartsPrimed DEF Kept

LEMMA GrantRoleStep ==
  ASSUME IndInv, NEW r \in Request, GrantRole(r)
  PROVE  IndInv'
<1> DEFINE s == request[r]
           t == [s EXCEPT !.at = "commit_assign", !.undo = "revoke"]
<1>0. States /\ Each /\ Pairs /\ Tables /\ Kept
  BY IndInvParts
<1>1. s.at = "grant" /\ s.undo = None /\ UNCHANGED tables
  BY <1>0, NothingToUndo DEF GrantRole
<1>2. CASE Refused(r, identity[s.usr] = "EXISTS", t)
  BY <1>1, <1>2, RefusalKeeps
<1>3. ASSUME identity[s.usr] = "EXISTS", keystone' = WithRole(s.prj, s.usr), Answered(r, t),
             UNCHANGED identity
      PROVE  IndInv'
  <2>1. s \in RequestState /\ RequestInv(s) /\ NameInv(s) /\ LinkInv(s) /\ UserInv(s)
    BY <1>0 DEF States, Each
  <2>2. s.prj \in Project /\ s.usr \in User /\ s.link \in Link /\ s.prj # None
    BY <1>1, <2>1, AccountsAssumption DEF RequestInv
  <2>3. /\ t \in RequestState /\ t.at = "commit_assign" /\ t.undo = "revoke"
        /\ t.prj = s.prj /\ t.usr = s.usr /\ t.link = s.link /\ t.links = s.links
        /\ t.name = s.name /\ t.loaded = s.loaded /\ t.account = s.account
        /\ t.stale = s.stale /\ t.clean = s.clean
    <3> HIDE DEF s
    <3>1. s \in RequestState
      BY <2>1
    <3>2. QED
      BY <3>1 DEF RequestState, Location
  <2> HIDE DEF t
  <2>4. /\ keystone' \in [Project -> KeystoneProject]
        /\ \A q \in Project : keystone'[q].name = keystone[q].name
        /\ \A q \in Project : q # s.prj => keystone'[q].roles = keystone[q].roles
        /\ keystone'[s.prj].roles = keystone[s.prj].roles \cup {s.usr}
    BY <1>0, <1>3, <2>2, RoleFacts
  <2>5. \A q \in Project : \A u \in keystone'[q].roles : identity[u] = "EXISTS"
    BY <1>0, <1>3, <2>4 DEF Tables, RolesHaveIdentities
  <2>6. CASE Become(r, t) /\ UNCHANGED blurred
    <3>1. /\ States' /\ request'[r] = t
          /\ \A q \in Request \ {r} : request'[q] = request[q]
      BY <1>0, <2>3, <2>6, Moved
    <3>2. Pairs'
      BY <1>0, <1>1, <2>3, <2>6, PairsMove DEF Assigns
    <3>3. (RequestInv(request[r]) /\ NameInv(request[r]) /\
           LinkInv(request[r]) /\ UserInv(request[r]))'
      BY <1>1, <2>1, <2>2, <2>3, <3>1, AccountsAssumption
      DEF RequestInv, NameInv, LinkInv, UserInv, tables
    <3>4. RolesAreKept'
      BY <1>0, <1>1, <2>3, <2>4, <2>6, <3>1, AccountsAssumption
      DEF Kept, RolesAreKept, IsBeingDeleted, tables
    <3>5. QED
      BY <1>0, <1>1, <1>3, <2>4, <2>5, <2>6, <3>1, <3>2, <3>3, <3>4, RolesKeep,
         AccountsAssumption DEF Tables
  <2>7. CASE Finish(r) /\ blurred' = blurred \cup {Subject(r)}
    <3>1. /\ States' /\ request'[r] = Idle
          /\ \A q \in Request \ {r} : request'[q] = request[q]
      BY <1>0, <2>7, IdleFacts, Moved DEF Finish
    <3>2. Pairs' /\ Subject(r) = s.prj
      BY <1>0, <2>2, <2>7, PairsEnd DEF Subject
    <3>3. RolesAreKept'
      BY <1>0, <1>1, <2>4, <2>7, <3>1, <3>2, IdleFacts, AccountsAssumption
      DEF Kept, RolesAreKept, IsBeingDeleted, tables
    <3>4. QED
      BY <1>0, <1>1, <1>3, <2>2, <2>4, <2>5, <2>7, <3>1, <3>2, <3>3, RolesKeep, IdleInv,
         AccountsAssumption DEF Tables
  <2>8. QED
    BY <1>3, <2>6, <2>7 DEF Answered
<1>4. QED
  BY <1>2, <1>3 DEF GrantRole

LEMMA RevokeRoleStep ==
  ASSUME IndInv, NEW r \in Request, RevokeRole(r)
  PROVE  IndInv'
<1> DEFINE s == request[r]
           t == [s EXCEPT !.at = "commit_unassign", !.undo = "grant"]
<1>0. States /\ Each /\ Pairs /\ Tables /\ Kept
  BY IndInvParts
<1>1. s.at = "revoke" /\ s.undo = None /\ UNCHANGED tables
  BY <1>0, NothingToUndo DEF RevokeRole
<1>2. CASE Refused(r, s.usr \in keystone[s.prj].roles, t)
  BY <1>1, <1>2, RefusalKeeps
<1>3. ASSUME keystone' = WithoutRole(s.prj, s.usr), Answered(r, t), UNCHANGED identity
      PROVE  IndInv'
  <2>1. s \in RequestState /\ RequestInv(s) /\ NameInv(s) /\ LinkInv(s) /\ UserInv(s)
    BY <1>0 DEF States, Each
  <2>2. s.prj \in Project /\ s.usr \in User /\ s.link \in Link /\ s.prj # None
    BY <1>1, <2>1, AccountsAssumption DEF RequestInv
  <2>3. /\ t \in RequestState /\ t.at = "commit_unassign" /\ t.undo = "grant"
        /\ t.prj = s.prj /\ t.usr = s.usr /\ t.link = s.link /\ t.links = s.links
        /\ t.name = s.name /\ t.loaded = s.loaded /\ t.account = s.account
        /\ t.stale = s.stale /\ t.clean = s.clean
    <3> HIDE DEF s
    <3>1. s \in RequestState
      BY <2>1
    <3>2. QED
      BY <3>1 DEF RequestState, Location
  <2> HIDE DEF t
  <2>4. /\ keystone' \in [Project -> KeystoneProject]
        /\ \A q \in Project : keystone'[q].name = keystone[q].name
        /\ \A q \in Project : q # s.prj => keystone'[q].roles = keystone[q].roles
        /\ keystone'[s.prj].roles = keystone[s.prj].roles \ {s.usr}
    BY <1>0, <1>3, <2>2, RoleFacts
  <2>5. \A q \in Project : \A u \in keystone'[q].roles : identity[u] = "EXISTS"
    BY <1>0, <1>3, <2>4 DEF Tables, RolesHaveIdentities
  <2>6. CASE Become(r, t) /\ UNCHANGED blurred
    <3>1. /\ States' /\ request'[r] = t
          /\ \A q \in Request \ {r} : request'[q] = request[q]
      BY <1>0, <2>3, <2>6, Moved
    <3>2. Pairs'
      BY <1>0, <1>1, <2>3, <2>6, PairsMove DEF Assigns
    <3>3. (RequestInv(request[r]) /\ NameInv(request[r]) /\
           LinkInv(request[r]) /\ UserInv(request[r]))'
      BY <1>1, <1>3, <2>1, <2>2, <2>3, <3>1, AccountsAssumption
      DEF RequestInv, NameInv, LinkInv, UserInv, tables
    <3>4. \A p \in Project, u \in User : link[s.link] = Membership(p, u) => p = s.prj /\ u = s.usr
      BY <1>1, <2>1 DEF LinkInv, Membership
    <3>5. \A l \in Link : IsBeingDeleted(l)' => IsBeingDeleted(l) \/ l = s.link
      BY <2>3, <3>1 DEF IsBeingDeleted
    <3>6. RolesAreKept'
      <4>1. SUFFICES ASSUME NEW p \in Project \ blurred, NEW u \in keystone'[p].roles
                     PROVE  \/ \E l \in Link : link[l] = Membership(p, u) /\ ~IsBeingDeleted(l)'
                            \/ \E q \in Request : /\ request'[q].prj = p /\ request'[q].usr = u
                                                  /\ request'[q].undo = "revoke"
        BY <1>1, <2>6 DEF RolesAreKept, tables
      <4>2. u \in keystone[p].roles /\ (p # s.prj \/ u # s.usr) /\ u \in User
        BY <2>4 DEF KeystoneProject
      <4>3. CASE \E l \in Link : link[l] = Membership(p, u) /\ ~IsBeingDeleted(l)
        BY <3>4, <3>5, <4>2, <4>3
      <4>4. CASE \E q \in Request : /\ request[q].prj = p /\ request[q].usr = u
                                    /\ request[q].undo = "revoke"
        BY <1>1, <3>1, <4>4, AccountsAssumption
      <4>5. QED
        BY <1>0, <4>2, <4>3, <4>4 DEF Kept, RolesAreKept
    <3>7. QED
      BY <1>0, <1>1, <1>3, <2>4, <2>5, <2>6, <3>1, <3>2, <3>3, <3>6, RolesKeep,
         AccountsAssumption DEF Tables
  <2>7. CASE Finish(r) /\ blurred' = blurred \cup {Subject(r)}
    <3>1. /\ States' /\ request'[r] = Idle
          /\ \A q \in Request \ {r} : request'[q] = request[q]
      BY <1>0, <2>7, IdleFacts, Moved DEF Finish
    <3>2. Pairs' /\ Subject(r) = s.prj
      BY <1>0, <2>2, <2>7, PairsEnd DEF Subject
    <3>3. RolesAreKept'
      BY <1>0, <1>1, <2>4, <2>7, <3>1, <3>2, IdleFacts, AccountsAssumption
      DEF Kept, RolesAreKept, IsBeingDeleted, tables
    <3>4. QED
      BY <1>0, <1>1, <1>3, <2>2, <2>4, <2>5, <2>7, <3>1, <3>2, <3>3, RolesKeep, IdleInv,
         AccountsAssumption DEF Tables
  <2>8. QED
    BY <1>3, <2>6, <2>7 DEF Answered
<1>4. QED
  BY <1>2, <1>3 DEF RevokeRole

\* A call that changes the name of one project, to one that no other has.
LEMMA NameKeeps ==
  ASSUME IndInv, NEW r \in Request, NEW p \in Project, NEW n \in Name,
         NameIsFree(p, n), keystone' = [keystone EXCEPT ![p].name = n],
         UNCHANGED <<tables, identity>>,
         blurred \subseteq blurred', blurred' \subseteq Project \cup User,
         request[r].prj = p, request[r].undo \in {"rename", None},
         States', Pairs',
         \A q \in Request \ {r} : request'[q] = request[q],
         (RequestInv(request[r]) /\ NameInv(request[r]) /\
          LinkInv(request[r]) /\ UserInv(request[r]))',
         request'[r].at # "commit_unassign",
         p \in blurred' \/ \A q \in Request \ {r} :
           ~(request[q].prj = p /\ request[q].at = "commit_name"),
         \/ p \in blurred' \/ n = name[p]
         \/ request'[r].prj = p /\ request'[r].undo = "rename"
  PROVE  IndInv'
<1>0. States /\ Each /\ Pairs /\ Tables /\ Kept
  BY IndInvParts
<1>1. /\ keystone' \in [Project -> KeystoneProject]
      /\ keystone'[p].name = n
      /\ \A q \in Project : q # p => keystone'[q].name = keystone[q].name
      /\ \A q \in Project : keystone'[q].roles = keystone[q].roles
  BY <1>0 DEF Tables, KeystoneProject
<1>2. Tables'
  <2>1. KeystoneNamesAreDistinct'
    BY <1>0, <1>1 DEF Tables, KeystoneNamesAreDistinct, NameIsFree
  <2>2. LiveLinks' /\ RolesHaveIdentities' /\ DeletedUserIsGone'
    BY <1>0, <1>1 DEF Tables, LiveLinks, RolesHaveIdentities, DeletedUserIsGone, tables
  <2>3. QED
    BY <1>0, <1>1, <2>1, <2>2 DEF Tables, tables
<1>3. Each'
  <2>1. ASSUME NEW q \in Request \ {r}, NEW s, s = request[q]
        PROVE  (RequestInv(s) /\ NameInv(s) /\ LinkInv(s) /\ UserInv(s))'
    <3>1. RequestInv(s) /\ NameInv(s) /\ LinkInv(s) /\ UserInv(s) /\ s' = s
      BY <1>0, <2>1 DEF Each
    <3>2. RequestInv(s)' /\ LinkInv(s)' /\ UserInv(s)'
      BY <3>1 DEF RequestInv, LinkInv, UserInv, tables
    <3>3. NameInv(s)'
      <4>1. s.at = "commit_name" => s.prj \in Project
        BY <3>1 DEF RequestInv
      <4>2. QED
        BY <1>1, <2>1, <3>1, <4>1 DEF NameInv, tables
    <3>4. QED
      BY <3>2, <3>3
  <2>2. QED
    BY <2>1 DEF Each
<1>4. RolesAreKept'
  BY <1>0, <1>1, AccountsAssumption DEF Kept, RolesAreKept, IsBeingDeleted, tables
<1>5. NamesAgree'
  <2>1. \A q \in Project : q # p /\ NameIsSettled(q)' => NameIsSettled(q)
    BY DEF NameIsSettled
  <2>2. QED
    BY <1>0, <1>1, <2>1 DEF Kept, NamesAgree, NameIsSettled, tables
<1>6. IdentitiesHaveRows'
  BY <1>0, AccountsAssumption DEF Kept, IdentitiesHaveRows, tables
<1>7. QED
  BY <1>2, <1>3, <1>4, <1>5, <1>6, IndInvPartsPrimed DEF Kept

LEMMA PatchProjectStep ==
  ASSUME IndInv, NEW r \in Request, PatchProject(r)
  PROVE  IndInv'
<1> DEFINE s == request[r]
           free == NameIsFree(s.prj, s.name)
           t == [s EXCEPT !.at = "commit_name", !.undo = "rename"]
<1>0. States /\ Each /\ Pairs /\ Tables /\ Kept
  BY IndInvParts
<1>1. s.at = "patch" /\ s.undo = None /\ UNCHANGED tables
  BY <1>0, NothingToUndo DEF PatchProject
<1>2. CASE Refused(r, free, t)
  BY <1>1, <1>2, RefusalKeeps
<1>3. ASSUME free, keystone' = [keystone EXCEPT ![s.prj].name = s.name], Answered(r, t),
             UNCHANGED identity
      PROVE  IndInv'
  <2>1. s \in RequestState /\ RequestInv(s) /\ NameInv(s) /\ LinkInv(s) /\ UserInv(s)
    BY <1>0 DEF States, Each
  <2>2. s.prj \in Project /\ s.name \in Name /\ s.loaded \in Name /\ s.prj # None
    BY <1>1, <2>1, AccountsAssumption DEF RequestInv
  <2>3. /\ t \in RequestState /\ t.at = "commit_name" /\ t.undo = "rename"
        /\ t.prj = s.prj /\ t.usr = s.usr /\ t.link = s.link /\ t.links = s.links
        /\ t.name = s.name /\ t.loaded = s.loaded /\ t.account = s.account
        /\ t.stale = s.stale /\ t.clean = s.clean
    <3> HIDE DEF s
    <3>1. s \in RequestState
      BY <2>1
    <3>2. QED
      BY <3>1 DEF RequestState, Location
  <2> HIDE DEF t
  <2>4. HoldsName(r, s.prj)
    BY <1>1 DEF HoldsName
  <2>5. \A q \in Request \ {r} : ~(request[q].prj = s.prj /\ request[q].at = "commit_name")
    BY <1>0, <2>2, <2>4 DEF Pairs, OneHoldsName, HoldsName
  <2>6. CASE Become(r, t) /\ UNCHANGED blurred
    <3>1. /\ States' /\ request'[r] = t
          /\ \A q \in Request \ {r} : request'[q] = request[q]
      BY <1>0, <2>3, <2>6, Moved
    <3>2. Pairs'
      BY <1>0, <1>1, <2>3, <2>4, <2>6, PairsMove
    <3>3. (RequestInv(request[r]) /\ NameInv(request[r]) /\
           LinkInv(request[r]) /\ UserInv(request[r]))'
      <4>1. keystone'[s.prj].name = s.name
        BY <1>0, <1>3, <2>2 DEF Tables, KeystoneProject
      <4>2. QED
        BY <1>1, <2>1, <2>2, <2>3, <3>1, <4>1, AccountsAssumption
        DEF RequestInv, NameInv, LinkInv, UserInv, tables
    <3>4. request'[r].prj = s.prj /\ request'[r].undo = "rename"
      BY <2>3, <3>1
    <3>5. blurred' \subseteq Project \cup User /\ blurred \subseteq blurred'
      BY <1>0, <2>6 DEF Tables
    <3>6. request'[r].at # "commit_unassign" /\ s.undo \in {"rename", None}
      BY <1>1, <2>3, <3>1
    <3>7. QED
      BY <1>1, <1>3, <2>2, <2>5, <3>1, <3>2, <3>3, <3>4, <3>5, <3>6, NameKeeps
  <2>7. CASE Finish(r) /\ blurred' = blurred \cup {Subject(r)}
    <3>1. /\ States' /\ request'[r] = Idle
          /\ \A q \in Request \ {r} : request'[q] = request[q]
      BY <1>0, <2>7, IdleFacts, Moved DEF Finish
    <3>2. Pairs' /\ Subject(r) = s.prj
      BY <1>0, <2>2, <2>7, PairsEnd DEF Subject
    <3>3. /\ s.prj \in blurred'
          /\ blurred' \subseteq Project \cup User /\ blurred \subseteq blurred'
      BY <1>0, <2>2, <2>7, <3>2 DEF Tables
    <3>4. request'[r].at # "commit_unassign" /\ s.undo \in {"rename", None}
      BY <1>1, <3>1, IdleFacts
    <3>5. (RequestInv(request[r]) /\ NameInv(request[r]) /\
           LinkInv(request[r]) /\ UserInv(request[r]))'
      BY <3>1, IdleInv
    <3>6. QED
      BY <1>1, <1>3, <2>2, <3>1, <3>2, <3>3, <3>4, <3>5, NameKeeps
  <2>8. QED
    BY <1>3, <2>6, <2>7 DEF Answered
<1>4. QED
  BY <1>2, <1>3 DEF PatchProject

\* A user goes, in Keystone, with its roles.
LEMMA IdentityGoes ==
  ASSUME IndInv, NEW r \in Request, NEW u \in User,
         identity[u] = "EXISTS", RemoveIdentity(u), UNCHANGED tables,
         blurred \subseteq blurred', blurred' \subseteq Project \cup User,
         request[r].usr = u, request[r].undo \in {"delete_user", None},
         States', Pairs',
         \A q \in Request \ {r} : request'[q] = request[q],
         (RequestInv(request[r]) /\ NameInv(request[r]) /\
          LinkInv(request[r]) /\ UserInv(request[r]))',
         request'[r].at # "commit_unassign"
  PROVE  IndInv'
<1>0. States /\ Each /\ Pairs /\ Tables /\ Kept
  BY IndInvParts
<1>1. /\ keystone' \in [Project -> KeystoneProject]
      /\ \A q \in Project : /\ keystone'[q].name = keystone[q].name
                            /\ keystone'[q].roles = keystone[q].roles \ {u}
      /\ identity' \in [User -> {"UNCREATED", "EXISTS", "GONE"}]
      /\ identity'[u] = "GONE" /\ \A v \in User : v # u => identity'[v] = identity[v]
  BY <1>0 DEF Tables, KeystoneProject, RemoveIdentity
<1>2. Tables'
  <2>1. KeystoneNamesAreDistinct'
    BY <1>0, <1>1 DEF Tables, KeystoneNamesAreDistinct
  <2>2. LiveLinks'
    BY <1>0 DEF Tables, LiveLinks, tables
  <2>3. RolesHaveIdentities'
    BY <1>0, <1>1 DEF Tables, RolesHaveIdentities, KeystoneProject
  <2>4. DeletedUserIsGone'
    BY <1>0, <1>1 DEF Tables, DeletedUserIsGone, tables
  <2>5. QED
    BY <1>0, <1>1, <2>1, <2>2, <2>3, <2>4 DEF Tables, tables
<1>3. Each'
  <2>1. ASSUME NEW q \in Request \ {r}, NEW s, s = request[q]
        PROVE  (RequestInv(s) /\ NameInv(s) /\ LinkInv(s) /\ UserInv(s))'
    <3>1. RequestInv(s) /\ NameInv(s) /\ LinkInv(s) /\ UserInv(s) /\ s' = s
      BY <1>0, <2>1 DEF Each
    <3>2. RequestInv(s)'
      BY <3>1 DEF RequestInv
    <3>3. NameInv(s)'
      <4>1. s.at = "commit_name" => s.prj \in Project
        BY <3>1 DEF RequestInv
      <4>2. QED
        BY <1>1, <3>1, <4>1 DEF NameInv, tables
    <3>4. LinkInv(s)'
      <4>1. s.at \in {"delete_link", "revoke"} \/ s.undo = "grant" => s.usr \in User
        BY <3>1 DEF RequestInv
      <4>2. QED
        BY <1>1, <3>1, <4>1 DEF LinkInv, tables
    <3>5. UserInv(s)'
      <4>1. s.at = "soft_delete" => s.usr \in User
        BY <3>1 DEF RequestInv
      <4>2. QED
        BY <1>1, <3>1, <4>1 DEF UserInv, tables
    <3>6. QED
      BY <3>2, <3>3, <3>4, <3>5
  <2>2. QED
    BY <2>1 DEF Each
<1>4. RolesAreKept'
  BY <1>0, <1>1, AccountsAssumption DEF Kept, RolesAreKept, IsBeingDeleted, tables
<1>5. NamesAgree'
  BY <1>0, <1>1, AccountsAssumption DEF Kept, NamesAgree, NameIsSettled, tables
<1>6. IdentitiesHaveRows'
  BY <1>0, <1>1 DEF Kept, IdentitiesHaveRows, tables
<1>7. QED
  BY <1>2, <1>3, <1>4, <1>5, <1>6, IndInvPartsPrimed DEF Kept

LEMMA KeystoneDeleteUserStep ==
  ASSUME IndInv, NEW r \in Request, KeystoneDeleteUser(r)
  PROVE  IndInv'
<1> DEFINE s == request[r]
           t == [s EXCEPT !.at = "soft_delete"]
<1>0. States /\ Each /\ Pairs /\ Tables /\ Kept
  BY IndInvParts
<1>1. s.at = "delete_user" /\ s.undo = None /\ UNCHANGED tables
  BY <1>0, NothingToUndo DEF KeystoneDeleteUser
<1>2. CASE Refused(r, identity[s.usr] = "EXISTS", t)
  BY <1>1, <1>2, RefusalKeeps
<1>3. ASSUME identity[s.usr] = "EXISTS", RemoveIdentity(s.usr), Answered(r, t)
      PROVE  IndInv'
  <2>1. s \in RequestState /\ RequestInv(s) /\ NameInv(s) /\ LinkInv(s) /\ UserInv(s)
    BY <1>0 DEF States, Each
  <2>2. s.usr \in User /\ s.prj = None
    BY <1>1, <2>1 DEF RequestInv
  <2>3. /\ t \in RequestState /\ t.at = "soft_delete"
        /\ t.prj = s.prj /\ t.usr = s.usr /\ t.link = s.link /\ t.links = s.links
        /\ t.name = s.name /\ t.loaded = s.loaded /\ t.account = s.account
        /\ t.stale = s.stale /\ t.undo = s.undo /\ t.clean = s.clean
    BY <2>1, LabelType DEF Location
  <2> HIDE DEF t
  <2>4. CASE Become(r, t) /\ UNCHANGED blurred
    <3>1. /\ States' /\ request'[r] = t
          /\ \A q \in Request \ {r} : request'[q] = request[q]
      BY <1>0, <2>3, <2>4, Moved
    <3>2. Pairs'
      BY <1>0, <1>1, <2>3, <2>4, PairsMove, AccountsAssumption
    <3>3. (RequestInv(request[r]) /\ NameInv(request[r]) /\
           LinkInv(request[r]) /\ UserInv(request[r]))'
      <4>1. identity'[s.usr] = "GONE"
        BY <1>0, <1>3, <2>2 DEF Tables, RemoveIdentity
      <4>2. QED
        BY <1>1, <2>1, <2>2, <2>3, <3>1, <4>1, AccountsAssumption
        DEF RequestInv, NameInv, LinkInv, UserInv, tables
    <3>4. blurred' \subseteq Project \cup User /\ blurred \subseteq blurred'
      BY <1>0, <2>4 DEF Tables
    <3>5. QED
      BY <1>1, <1>3, <2>2, <2>3, <3>1, <3>2, <3>3, <3>4, IdentityGoes
  <2>5. CASE Finish(r) /\ blurred' = blurred \cup {Subject(r)}
    <3>1. /\ States' /\ request'[r] = Idle
          /\ \A q \in Request \ {r} : request'[q] = request[q]
      BY <1>0, <2>5, IdleFacts, Moved DEF Finish
    <3>2. Pairs' /\ Subject(r) = s.usr
      BY <1>0, <2>2, <2>5, PairsEnd DEF Subject
    <3>3. blurred' \subseteq Project \cup User /\ blurred \subseteq blurred'
      BY <1>0, <2>2, <2>5, <3>2 DEF Tables
    <3>4. (RequestInv(request[r]) /\ NameInv(request[r]) /\
           LinkInv(request[r]) /\ UserInv(request[r]))'
      BY <3>1, IdleInv
    <3>5. QED
      BY <1>1, <1>3, <2>2, <3>1, <3>2, <3>3, <3>4, IdleFacts, IdentityGoes
  <2>6. QED
    BY <1>3, <2>4, <2>5 DEF Answered
<1>4. QED
  BY <1>2, <1>3 DEF KeystoneDeleteUser

LEMMA KeystoneCreateUserStep ==
  ASSUME IndInv, NEW r \in Request, KeystoneCreateUser(r)
  PROVE  IndInv'
<1> DEFINE s == request[r]
           t == [s EXCEPT !.at = "insert_user", !.undo = "delete_user"]
<1>0. States /\ Each /\ Pairs /\ Tables /\ Kept
  BY IndInvParts
<1>1. s.at = "create_user" /\ s.undo = None /\ UNCHANGED tables
  BY <1>0, NothingToUndo DEF KeystoneCreateUser
<1>2. CASE Refused(r, TRUE, t)
  BY <1>1, <1>2, RefusalKeeps
<1>3. ASSUME identity' = [identity EXCEPT ![s.usr] = "EXISTS"], Answered(r, t),
             UNCHANGED keystone
      PROVE  IndInv'
  <2>1. s \in RequestState /\ RequestInv(s) /\ NameInv(s) /\ LinkInv(s) /\ UserInv(s)
    BY <1>0 DEF States, Each
  <2>2. /\ s.usr \in User /\ s.prj = None /\ s.account \in Account
        /\ user[s.usr].life = "absent" /\ identity[s.usr] = "UNCREATED"
    BY <1>1, <2>1 DEF RequestInv, UserInv
  <2>3. /\ t \in RequestState /\ t.at = "insert_user" /\ t.undo = "delete_user"
        /\ t.prj = s.prj /\ t.usr = s.usr /\ t.link = s.link /\ t.links = s.links
        /\ t.name = s.name /\ t.loaded = s.loaded /\ t.account = s.account
        /\ t.stale = s.stale /\ t.clean = s.clean
    <3> HIDE DEF s
    <3>1. s \in RequestState
      BY <2>1
    <3>2. QED
      BY <3>1 DEF RequestState, Location
  <2> HIDE DEF t
  <2>4. /\ identity' \in [User -> {"UNCREATED", "EXISTS", "GONE"}]
        /\ identity'[s.usr] = "EXISTS"
        /\ \A v \in User : v # s.usr => identity'[v] = identity[v]
    BY <1>0, <1>3, <2>2 DEF Tables
  <2>5. Subject(r) = s.usr
    BY <2>2 DEF Subject
  <2>6. \/ Become(r, t) /\ UNCHANGED blurred
        \/ Finish(r) /\ blurred' = blurred \cup {s.usr}
    BY <1>3, <2>5 DEF Answered
  <2>7. /\ States' /\ request'[r] \in {t, Idle}
        /\ \A q \in Request \ {r} : request'[q] = request[q]
    BY <1>0, <2>3, <2>6, IdleFacts, Moved DEF Finish
  <2>8. Pairs'
    <3>1. Creates(r)
      BY <1>1 DEF Creates
    <3>2. QED
      BY <1>0, <1>1, <2>3, <2>6, <3>1, PairsMove, PairsEnd
  <2>9. \A q \in Request \ {r} : request[q].usr # s.usr
    BY <1>0, <1>1 DEF Pairs, UsersAreOwn, Creates
  <2>10. /\ blurred' \subseteq Project \cup User /\ blurred \subseteq blurred'
         /\ s.usr \in blurred' \/ request'[r] = t
    BY <1>0, <2>2, <2>3, <2>6, Moved DEF Tables
  <2>11. Tables'
    <3>1. RolesHaveIdentities'
      BY <1>0, <1>3, <2>4 DEF Tables, RolesHaveIdentities, KeystoneProject
    <3>2. KeystoneNamesAreDistinct' /\ LiveLinks' /\ DeletedUserIsGone'
      BY <1>0, <1>1, <1>3, <2>2, <2>4
      DEF Tables, KeystoneNamesAreDistinct, LiveLinks, DeletedUserIsGone, tables
    <3>3. QED
      BY <1>0, <1>1, <1>3, <2>4, <2>10, <3>1, <3>2 DEF Tables, tables
  <2>12. Each'
    <3>1. ASSUME NEW q \in Request \ {r}, NEW w, w = request[q]
          PROVE  (RequestInv(w) /\ NameInv(w) /\ LinkInv(w) /\ UserInv(w))'
      <4>1. /\ RequestInv(w) /\ NameInv(w) /\ LinkInv(w) /\ UserInv(w)
            /\ w' = w /\ w.usr # s.usr
        BY <1>0, <2>9, <3>1 DEF Each
      <4>2. RequestInv(w)'
        BY <4>1 DEF RequestInv
      <4>3. NameInv(w)'
        BY <1>1, <1>3, <2>10, <4>1 DEF NameInv, tables
      <4>4. LinkInv(w)'
        <5>1. w.at \in {"delete_link", "revoke"} \/ w.undo = "grant" => w.usr \in User
          BY <4>1 DEF RequestInv
        <5>2. QED
          BY <1>1, <2>4, <4>1, <5>1 DEF LinkInv, tables
      <4>5. UserInv(w)'
        <5>1. w.at = "soft_delete" => w.usr \in User
          BY <4>1 DEF RequestInv
        <5>2. QED
          BY <1>1, <2>4, <4>1, <5>1 DEF UserInv, tables
      <4>6. QED
        BY <4>2, <4>3, <4>4, <4>5
    <3>2. (RequestInv(request[r]) /\ NameInv(request[r]) /\
           LinkInv(request[r]) /\ UserInv(request[r]))'
      <4>1. CASE request'[r] = t
        BY <1>1, <2>1, <2>2, <2>3, <4>1, AccountsAssumption
        DEF RequestInv, NameInv, LinkInv, UserInv, tables
      <4>2. CASE request'[r] = Idle
        BY <4>2, IdleInv
      <4>3. QED
        BY <2>7, <4>1, <4>2
    <3>3. QED
      BY <2>7, <3>1, <3>2 DEF Each
  <2>13. request'[r].at # "commit_unassign"
    BY <2>3, <2>7, IdleFacts
  <2>14. RolesAreKept'
    BY <1>0, <1>1, <1>3, <2>7, <2>10, <2>13, AccountsAssumption
    DEF Kept, RolesAreKept, IsBeingDeleted, tables
  <2>15. NamesAgree'
    BY <1>0, <1>1, <1>3, <2>7, <2>10, AccountsAssumption
    DEF Kept, NamesAgree, NameIsSettled, tables
  <2>16. IdentitiesHaveRows'
    BY <1>0, <1>1, <2>3, <2>4, <2>7, <2>10, AccountsAssumption
    DEF Kept, IdentitiesHaveRows, tables
  <2>17. QED
    BY <2>7, <2>8, <2>11, <2>12, <2>14, <2>15, <2>16, IndInvPartsPrimed DEF Kept
<1>4. QED
  BY <1>2, <1>3 DEF KeystoneCreateUser

(***************************************************************************)
(* The commits.                                                            *)
(***************************************************************************)

LEMMA CommitNameStep ==
  ASSUME IndInv, NEW r \in Request, CommitName(r)
  PROVE  IndInv'
<1> DEFINE s == request[r]
           p == s.prj
<1>0. States /\ Each /\ Pairs /\ Tables /\ Kept
  BY IndInvParts
<1>1. s.at = "commit_name" /\ UNCHANGED <<keystone, identity, blurred>>
  BY DEF CommitName
<1>2. CASE DatabaseFails(r)
  BY <1>1, <1>2, FailureKeeps
<1>3. ASSUME name' = [name EXCEPT ![p] = s.name], UNCHANGED <<user, link>>,
             request' = [q \in Request |->
               IF q = r THEN Idle
               ELSE IF request[q].prj = p /\ request[q].at = "flush_name"
                 THEN [request[q] EXCEPT !.stale = TRUE]
               ELSE request[q]]
      PROVE  IndInv'
  <2>1. p \in Project /\ s.name \in Name /\ p # None /\ s.undo = "rename"
    BY <1>0, <1>1, AccountsAssumption DEF Each, RequestInv
  <2>2. name' \in [Project -> Name] /\ name'[p] = s.name
        /\ \A q \in Project : q # p => name'[q] = name[q]
    BY <1>0, <1>3, <2>1 DEF Tables
  <2> DEFINE Moves(w, u) ==
        /\ u \in RequestState
        /\ u.at = w.at /\ u.prj = w.prj /\ u.usr = w.usr /\ u.link = w.link
        /\ u.links = w.links /\ u.name = w.name /\ u.loaded = w.loaded
        /\ u.account = w.account /\ u.undo = w.undo /\ u.clean = w.clean
        /\ w.prj = p /\ w.at = "flush_name" => u.stale
        /\ ~(w.prj = p /\ w.at = "flush_name") => u.stale = w.stale
  <2>3. request'[r] = Idle
    BY <1>3
  <2>4. ASSUME NEW q \in Request \ {r}, NEW w, w = request[q], NEW u, u = request'[q]
        PROVE  Moves(w, u)
    <3>1. w \in RequestState
      BY <1>0, <2>4 DEF States
    <3>2. CASE w.prj = p /\ w.at = "flush_name"
      <4>1. u = [w EXCEPT !.stale = TRUE]
        BY <1>3, <2>4, <3>2
      <4>2. QED
        BY <3>1, <3>2, <4>1 DEF RequestState
    <3>3. CASE ~(w.prj = p /\ w.at = "flush_name")
      <4>1. u = w
        BY <1>3, <2>4, <3>3
      <4>2. QED
        BY <3>1, <3>3, <4>1 DEF RequestState
    <3>4. QED
      BY <3>2, <3>3
  <2>5. \A q \in Request \ {r} : Moves(request[q], request'[q])
    BY <2>4
  <2> HIDE DEF Moves
  <2>6. States'
    <3>1. \A q \in Request : request'[q] \in RequestState
      BY <2>3, <2>5, IdleFacts DEF Moves
    <3>2. request' = [q \in Request |-> request'[q]]
      BY <1>3
    <3>3. QED
      BY <3>1, <3>2 DEF States
  <2>7. Pairs'
    <3>1. CleanIsAlone'
      BY <1>0, <2>3, <2>5, IdleFacts DEF Pairs, CleanIsAlone, OnSameProject, Moves
    <3>2. OneHoldsName'
      BY <1>0, <2>3, <2>5, IdleFacts DEF Pairs, OneHoldsName, HoldsName, Moves
    <3>3. KeysAreOwn'
      <4>1. \A o \in Request : Assigns(o) => request[o].link # None
        BY <1>0, AccountsAssumption DEF Assigns, Each, RequestInv
      <4>2. QED
        BY <1>0, <2>3, <2>5, <4>1, IdleFacts DEF Pairs, KeysAreOwn, Assigns, Moves
    <3>4. UsersAreOwn'
      <4>1. \A o \in Request : Creates(o) => request[o].usr # None
        BY <1>0, AccountsAssumption DEF Creates, Each, UserInv
      <4>2. QED
        BY <1>0, <2>3, <2>5, <4>1, IdleFacts, AccountsAssumption
        DEF Pairs, UsersAreOwn, Creates, Moves
    <3>5. QED
      BY <3>1, <3>2, <3>3, <3>4 DEF Pairs
  <2>8. Tables'
    BY <1>0, <1>1, <1>3, <2>2
    DEF Tables, KeystoneNamesAreDistinct, LiveLinks, RolesHaveIdentities, DeletedUserIsGone
  <2>9. Each'
    <3>1. ASSUME NEW q \in Request \ {r}, NEW w, w = request[q], NEW u, u = request'[q]
          PROVE  (RequestInv(u) /\ NameInv(u) /\ LinkInv(u) /\ UserInv(u))'
      <4>1. /\ RequestInv(w) /\ NameInv(w) /\ LinkInv(w) /\ UserInv(w) /\ Moves(w, u)
        BY <1>0, <2>5, <3>1 DEF Each
      <4>2. RequestInv(u)'
        BY <4>1 DEF Moves, RequestInv
      <4>3. LinkInv(u)' /\ UserInv(u)'
        BY <1>1, <1>3, <4>1 DEF Moves, LinkInv, UserInv
      <4>4. NameInv(u)'
        <5>1. ~(w.prj = p /\ w.at \in {"patch", "commit_name"})
          BY <1>0, <1>1, <2>1, <3>1 DEF Pairs, OneHoldsName, HoldsName
        <5>2. ~(w.prj = p /\ w.clean)
          BY <1>0, <2>1, <3>1 DEF Pairs, CleanIsAlone, OnSameProject
        <5>3. /\ w.at \in {"flush_name", "patch", "commit_name"} => w.prj \in Project
              /\ w.undo = "rename" => w.prj \in Project
          BY <4>1 DEF RequestInv
        <5>4. u.at \in {"patch", "commit_name"} => ~u.stale
          BY <4>1, <5>1 DEF Moves, NameInv
        <5>5. u.at \in {"flush_name", "patch", "commit_name"} /\ ~u.stale => u.loaded = name'[u.prj]
          BY <2>2, <4>1, <5>1, <5>3 DEF Moves, NameInv
        <5>6. u.undo = "rename" /\ u.clean => u.loaded = name'[u.prj]
          BY <2>2, <4>1, <5>2, <5>3 DEF Moves, NameInv
        <5>7. u.at = "commit_name" /\ u.prj \notin blurred' => keystone'[u.prj].name = u.name
          BY <1>1, <4>1 DEF Moves, NameInv
        <5>8. QED
          BY <5>4, <5>5, <5>6, <5>7 DEF NameInv
      <4>5. QED
        BY <4>2, <4>3, <4>4
    <3>2. (RequestInv(request[r]) /\ NameInv(request[r]) /\
           LinkInv(request[r]) /\ UserInv(request[r]))'
      BY <2>3, IdleInv
    <3>3. QED
      BY <3>1, <3>2 DEF Each
  <2>10. RolesAreKept'
    <3>1. \A l \in Link : IsBeingDeleted(l)' => IsBeingDeleted(l)
      BY <2>3, <2>5, IdleFacts DEF IsBeingDeleted, Moves
    <3>2. \A q \in Request : request[q].undo = "revoke" =>
            /\ request'[q].undo = "revoke"
            /\ request'[q].prj = request[q].prj /\ request'[q].usr = request[q].usr
      BY <2>1, <2>5 DEF Moves
    <3>3. QED
      BY <1>0, <1>1, <1>3, <3>1, <3>2 DEF Kept, RolesAreKept
  <2>11. NamesAgree'
    <3>1. p \notin blurred => keystone[p].name = s.name
      BY <1>0, <1>1 DEF Each, NameInv
    <3>2. \A q \in Project : q # p /\ NameIsSettled(q)' => NameIsSettled(q)
      BY <2>1, <2>5 DEF NameIsSettled, Moves
    <3>3. QED
      BY <1>0, <1>1, <2>2, <3>1, <3>2 DEF Kept, NamesAgree
  <2>12. IdentitiesHaveRows'
    <3>1. \A q \in Request : request[q].undo = "delete_user" =>
            request'[q].undo = "delete_user" /\ request'[q].usr = request[q].usr
      BY <2>1, <2>5 DEF Moves
    <3>2. QED
      BY <1>0, <1>1, <1>3, <3>1 DEF Kept, IdentitiesHaveRows
  <2>13. QED
    BY <2>6, <2>7, <2>8, <2>9, <2>10, <2>11, <2>12, IndInvPartsPrimed DEF Kept
<1>4. QED
  BY <1>2, <1>3 DEF CommitName

\* A commit that ends a request and writes users or memberships.  What the other
\* requests and the roles say of the rows is left to be shown.
LEMMA CommitKeeps ==
  ASSUME IndInv, NEW r \in Request, Finish(r),
         UNCHANGED <<name, keystone, identity, blurred>>,
         user' \in [User -> UserRow], link' \in [Link -> LinkRow], LiveLinks',
         \A u \in User : user'[u].life = "deleted" =>
           user[u].life = "deleted" \/ identity[u] = "GONE",
         request[r].undo # "rename",
         \A q \in Request \ {r} :
           (RequestInv(request[q]) /\ NameInv(request[q]) =>
              LinkInv(request[q])' /\ UserInv(request[q])'),
         RolesAreKept', IdentitiesHaveRows'
  PROVE  IndInv'
<1>0. States /\ Each /\ Pairs /\ Tables /\ Kept
  BY IndInvParts
<1>1. /\ States' /\ request'[r] = Idle
      /\ \A q \in Request \ {r} : request'[q] = request[q]
  BY <1>0, IdleFacts, Moved DEF Finish
<1>2. Pairs'
  BY <1>0, PairsEnd
<1>3. Tables'
  <2>1. DeletedUserIsGone'
    BY <1>0 DEF Tables, DeletedUserIsGone, RolesHaveIdentities
  <2>2. KeystoneNamesAreDistinct' /\ RolesHaveIdentities'
    BY <1>0 DEF Tables, KeystoneNamesAreDistinct, RolesHaveIdentities
  <2>3. QED
    BY <1>0, <2>1, <2>2 DEF Tables
<1>4. Each'
  <2>1. ASSUME NEW q \in Request \ {r}, NEW w, w = request[q]
        PROVE  RequestInv(w)' /\ NameInv(w)'
    <3>1. RequestInv(w) /\ NameInv(w)
      BY <1>0, <2>1 DEF Each
    <3>2. QED
      BY <3>1 DEF RequestInv, NameInv
  <2>2. QED
    BY <1>0, <1>1, <2>1, IdleInv DEF Each
<1>5. NamesAgree'
  BY <1>0, <1>1 DEF Kept, NamesAgree, NameIsSettled
<1>6. QED
  BY <1>1, <1>2, <1>3, <1>4, <1>5, IndInvPartsPrimed DEF Kept

LEMMA CommitAssignStep ==
  ASSUME IndInv, NEW r \in Request, CommitAssign(r)
  PROVE  IndInv'
<1> DEFINE s == request[r]
<1>0. States /\ Each /\ Pairs /\ Tables /\ Kept
  BY IndInvParts
<1>1. s.at = "commit_assign" /\ UNCHANGED <<keystone, identity, blurred>>
  BY DEF CommitAssign
<1>2. CASE DatabaseFails(r)
  BY <1>1, <1>2, FailureKeeps
<1>3. ASSUME link' = [link EXCEPT ![s.link] = Membership(s.prj, s.usr)], Finish(r),
             UNCHANGED <<name, user>>
      PROVE  IndInv'
  <2>1. /\ s.prj \in Project /\ s.usr \in User /\ s.link \in Link /\ s.undo = "revoke"
        /\ link[s.link].life = "absent" /\ s.prj # None
    BY <1>0, <1>1, AccountsAssumption DEF Each, RequestInv, LinkInv
  <2>2. /\ link' \in [Link -> LinkRow] /\ link'[s.link] = Membership(s.prj, s.usr)
        /\ \A l \in Link : l # s.link => link'[l] = link[l]
    BY <1>0, <1>3, <2>1 DEF Tables, LinkRow, Membership
  <2>3. /\ request'[r] = Idle
        /\ \A q \in Request \ {r} : request'[q] = request[q]
    BY <1>0, <1>3, IdleFacts, Moved DEF Finish
  <2>4. \A q \in Request : request[q].link = s.link => q = r
    BY <1>0, <1>1 DEF Pairs, KeysAreOwn, Assigns
  <2>5. LiveLinks'
    BY <1>0, <2>1, <2>2 DEF Tables, LiveLinks, Membership
  <2>6. ASSUME NEW q \in Request \ {r}
        PROVE  LinkInv(request[q])' /\ UserInv(request[q])'
    <3>1. LinkInv(request[q]) /\ UserInv(request[q]) /\ RequestInv(request[q])
      BY <1>0 DEF Each
    <3>2. PICK w : w = request[q] /\ w = request'[q]
      BY <2>3
    <3>3. w.links \subseteq Link /\ (w.at \in {"grant", "commit_assign", "delete_link", "revoke"}
                                     \/ w.undo = "grant" => w.link \in Link)
      BY <1>0, <3>1, <3>2 DEF States, RequestState, RequestInv
    <3>4. LinkInv(w)' /\ UserInv(w)'
      <4>1. w.link # s.link /\ LinkInv(w) /\ UserInv(w)
        BY <2>4, <3>1, <3>2
      <4>2. \A l \in Link : link[l].life # "absent" => link'[l] = link[l]
        BY <2>1, <2>2
      <4>3. LinkInv(w)'
        BY <1>1, <2>2, <3>3, <4>1, <4>2 DEF LinkInv
      <4>4. UserInv(w)'
        BY <1>1, <1>3, <4>1 DEF UserInv
      <4>5. QED
        BY <4>3, <4>4
    <3>5. QED
      BY <3>2, <3>4
  <2>7. RolesAreKept'
    <3>1. \A l \in Link : IsBeingDeleted(l)' => IsBeingDeleted(l) /\ l # s.link
      BY <2>3, <2>4, IdleFacts DEF IsBeingDeleted
    <3>2. SUFFICES ASSUME NEW p \in Project \ blurred, NEW u \in keystone[p].roles
                   PROVE  \/ \E l \in Link : link'[l] = Membership(p, u) /\ ~IsBeingDeleted(l)'
                          \/ \E q \in Request : /\ request'[q].prj = p /\ request'[q].usr = u
                                                /\ request'[q].undo = "revoke"
      BY <1>1 DEF RolesAreKept
    <3>3. CASE \E l \in Link : link[l] = Membership(p, u) /\ ~IsBeingDeleted(l)
      BY <2>1, <2>2, <3>1, <3>3 DEF Membership
    <3>4. CASE \E q \in Request : /\ request[q].prj = p /\ request[q].usr = u
                                  /\ request[q].undo = "revoke"
      BY <2>1, <2>2, <2>3, <3>1, <3>4
    <3>5. QED
      BY <1>0, <3>3, <3>4 DEF Kept, RolesAreKept
  <2>8. IdentitiesHaveRows'
    BY <1>0, <1>1, <1>3, <2>1, <2>3, AccountsAssumption DEF Kept, IdentitiesHaveRows
  <2>9. QED
    BY <1>0, <1>1, <1>3, <2>1, <2>2, <2>5, <2>6, <2>7, <2>8, CommitKeeps DEF Tables
<1>4. QED
  BY <1>2, <1>3 DEF CommitAssign

LEMMA InsertUserStep ==
  ASSUME IndInv, NEW r \in Request, InsertUser(r)
  PROVE  IndInv'
<1> DEFINE s == request[r]
<1>0. States /\ Each /\ Pairs /\ Tables /\ Kept
  BY IndInvParts
<1>1. s.at = "insert_user" /\ UNCHANGED <<keystone, identity, blurred>>
  BY DEF InsertUser
<1>2. CASE DatabaseFails(r)
  BY <1>1, <1>2, FailureKeeps
<1>3. ASSUME user' = [user EXCEPT ![s.usr] = [life |-> "live", account |-> s.account]],
             Finish(r), UNCHANGED <<name, link>>
      PROVE  IndInv'
  <2>1. s.undo = "delete_user" /\ s.account \in Account /\ s.usr \in User
    BY <1>0, <1>1 DEF Each, RequestInv, UserInv
  <2>2. /\ user' \in [User -> UserRow] /\ user'[s.usr].life = "live"
        /\ \A u \in User : u # s.usr => user'[u] = user[u]
    BY <1>0, <1>3, <2>1 DEF Tables, UserRow
  <2>3. /\ request'[r] = Idle
        /\ \A q \in Request \ {r} : request'[q] = request[q]
    BY <1>0, <1>3, IdleFacts, Moved DEF Finish
  <2>4. \A q \in Request : request[q].usr = s.usr => q = r
    BY <1>0, <2>1 DEF Pairs, UsersAreOwn, Creates
  <2>5. LiveLinks'
    BY <1>0, <1>3 DEF Tables, LiveLinks
  <2>6. ASSUME NEW q \in Request \ {r}
        PROVE  LinkInv(request[q])' /\ UserInv(request[q])'
    <3>1. LinkInv(request[q]) /\ UserInv(request[q])
      BY <1>0 DEF Each
    <3>2. PICK w : w = request[q] /\ w = request'[q]
      BY <2>3
    <3>3. w.usr # s.usr /\ LinkInv(w) /\ UserInv(w)
      BY <2>4, <3>1, <3>2
    <3>4. LinkInv(w)'
      BY <1>1, <1>3, <3>3 DEF LinkInv
    <3>5. UserInv(w)'
      BY <1>1, <2>2, <3>3 DEF UserInv
    <3>6. QED
      BY <3>2, <3>4, <3>5
  <2>7. RolesAreKept'
    BY <1>0, <1>1, <1>3, <2>1, <2>3, IdleFacts DEF Kept, RolesAreKept, IsBeingDeleted
  <2>8. IdentitiesHaveRows'
    BY <1>0, <1>1, <2>2, <2>3 DEF Kept, IdentitiesHaveRows
  <2>9. QED
    BY <1>0, <1>1, <1>3, <2>1, <2>2, <2>5, <2>6, <2>7, <2>8, CommitKeeps DEF Tables
<1>4. QED
  BY <1>2, <1>3 DEF InsertUser

\* Memberships that are deleted are none of those that are being made, and what
\* is asked of a removal is still so, unless it is of one of them.
LEMMA LinksGo ==
  ASSUME Tables, NEW ls \in SUBSET Link, \A l \in ls : link[l].life # "absent",
         link' = WithoutLinks(ls), UNCHANGED identity
  PROVE  /\ link' \in [Link -> LinkRow] /\ LiveLinks'
         /\ \A l \in Link : l \notin ls => link'[l] = link[l]
         /\ \A l \in ls : link'[l].life = "deleted"
         /\ \A s \in RequestState :
              /\ RequestInv(s) /\ LinkInv(s)
              /\ s.link \in ls /\ (s.at \in {"delete_link", "revoke"} \/ s.undo = "grant") =>
                   ~(s.clean /\ identity[s.usr] = "EXISTS")
              => LinkInv(s)'
<1>1. GoneLink \in LinkRow /\ GoneLink.life = "deleted"
  BY DEF GoneLink, NoLink, LinkRow
<1>2. /\ link' \in [Link -> LinkRow]
      /\ \A l \in Link : l \notin ls => link'[l] = link[l]
      /\ \A l \in ls : link'[l].life = "deleted"
  BY <1>1 DEF Tables, WithoutLinks
<1>3. LiveLinks'
  BY <1>2 DEF Tables, LiveLinks
<1>4. ASSUME NEW s \in RequestState, RequestInv(s), LinkInv(s),
             s.link \in ls /\ (s.at \in {"delete_link", "revoke"} \/ s.undo = "grant") =>
               ~(s.clean /\ identity[s.usr] = "EXISTS")
      PROVE  LinkInv(s)'
  <2>1. s.at \in {"grant", "commit_assign"} => link'[s.link].life = "absent"
    BY <1>2, <1>4 DEF RequestInv, LinkInv
  <2>2. ASSUME s.at \in {"delete_link", "revoke"} \/ s.undo = "grant"
        PROVE  /\ link'[s.link].life # "absent"
               /\ link'[s.link].life = "live" => link'[s.link] = Membership(s.prj, s.usr)
               /\ s.clean /\ identity'[s.usr] = "EXISTS" => link'[s.link].life = "live"
    <3>1. s.link \in Link
      BY <1>4, <2>2 DEF RequestInv
    <3>2. CASE s.link \in ls
      BY <1>2, <1>4, <2>2, <3>2
    <3>3. CASE s.link \notin ls
      BY <1>2, <1>4, <2>2, <3>1, <3>3 DEF LinkInv
    <3>4. QED
      BY <3>2, <3>3
  <2>3. s.at \in {"delete_user", "soft_delete"} => \A l \in s.links :
          link'[l].life # "absent" /\ (link'[l].life = "live" => link'[l].usr = s.usr)
    <3>1. s.links \subseteq Link
      BY DEF RequestState
    <3>2. QED
      BY <1>2, <1>4, <3>1 DEF LinkInv
  <2>4. QED
    BY <2>1, <2>2, <2>3 DEF LinkInv, Membership
<1>5. QED
  BY <1>2, <1>3, <1>4

LEMMA CommitUnassignStep ==
  ASSUME IndInv, NEW r \in Request, CommitUnassign(r)
  PROVE  IndInv'
<1> DEFINE s == request[r]
<1>0. States /\ Each /\ Pairs /\ Tables /\ Kept
  BY IndInvParts
<1>1. s.at = "commit_unassign" /\ UNCHANGED <<keystone, identity, blurred>>
  BY DEF CommitUnassign
<1>2. CASE DatabaseFails(r)
  BY <1>1, <1>2, FailureKeeps
<1>3. ASSUME link' = WithoutLinks({s.link}), Finish(r), UNCHANGED <<name, user>>
      PROVE  IndInv'
  <2>1. /\ s.prj \in Project /\ s.usr \in User /\ s.link \in Link /\ s.undo = "grant"
        /\ link[s.link].life # "absent" /\ s.prj # None
        /\ link[s.link].life = "live" => link[s.link] = Membership(s.prj, s.usr)
    BY <1>0, <1>1, AccountsAssumption DEF Each, RequestInv, LinkInv
  <2>2. /\ link' \in [Link -> LinkRow] /\ LiveLinks'
        /\ \A l \in Link : l \notin {s.link} => link'[l] = link[l]
        /\ \A w \in RequestState :
             /\ RequestInv(w) /\ LinkInv(w)
             /\ w.link \in {s.link} /\ (w.at \in {"delete_link", "revoke"} \/ w.undo = "grant") =>
                  ~(w.clean /\ identity[w.usr] = "EXISTS")
             => LinkInv(w)'
    <3>1. PICK ls \in SUBSET Link : ls = {s.link}
      BY <2>1
    <3>2. link' = WithoutLinks(ls) /\ \A l \in ls : link[l].life # "absent"
      BY <1>3, <2>1, <3>1
    <3>3. /\ link' \in [Link -> LinkRow] /\ LiveLinks'
          /\ \A l \in Link : l \notin ls => link'[l] = link[l]
          /\ \A w \in RequestState :
               /\ RequestInv(w) /\ LinkInv(w)
               /\ w.link \in ls /\ (w.at \in {"delete_link", "revoke"} \/ w.undo = "grant") =>
                    ~(w.clean /\ identity[w.usr] = "EXISTS")
               => LinkInv(w)'
      BY <1>0, <1>1, <3>2, LinksGo
    <3>4. QED
      BY <3>1, <3>3
  <2>3. /\ request'[r] = Idle
        /\ \A q \in Request \ {r} : request'[q] = request[q]
    BY <1>0, <1>3, IdleFacts, Moved DEF Finish
  <2>4. ASSUME NEW q \in Request \ {r}
        PROVE  LinkInv(request[q])' /\ UserInv(request[q])'
    <3>1. PICK w : w = request[q] /\ w = request'[q]
      BY <2>3
    <3>2. w \in RequestState /\ RequestInv(w) /\ LinkInv(w) /\ UserInv(w)
      BY <1>0, <3>1 DEF Each, States
    <3>3. ASSUME w.link = s.link, w.at \in {"delete_link", "revoke"} \/ w.undo = "grant"
          PROVE  ~(w.clean /\ identity[w.usr] = "EXISTS")
      <4>1. SUFFICES ASSUME w.clean, link[s.link].life = "live"
                     PROVE  FALSE
        BY <3>2, <3>3 DEF LinkInv
      <4>2. w.prj = s.prj
        BY <2>1, <3>2, <3>3, <4>1 DEF LinkInv, Membership
      <4>3. QED
        BY <1>0, <2>1, <3>1, <4>1, <4>2 DEF Pairs, CleanIsAlone, OnSameProject
    <3>4. LinkInv(w)'
      BY <2>2, <3>2, <3>3
    <3>5. UserInv(w)'
      BY <1>1, <1>3, <3>2 DEF UserInv
    <3>6. QED
      BY <3>1, <3>4, <3>5
  <2>5. RolesAreKept'
    <3>1. \A l \in Link : IsBeingDeleted(l)' => IsBeingDeleted(l)
      BY <2>3, IdleFacts DEF IsBeingDeleted
    <3>2. IsBeingDeleted(s.link)
      BY <1>1 DEF IsBeingDeleted
    <3>3. SUFFICES ASSUME NEW p \in Project \ blurred, NEW u \in keystone[p].roles
                   PROVE  \/ \E l \in Link : link'[l] = Membership(p, u) /\ ~IsBeingDeleted(l)'
                          \/ \E q \in Request : /\ request'[q].prj = p /\ request'[q].usr = u
                                                /\ request'[q].undo = "revoke"
      BY <1>1 DEF RolesAreKept
    <3>4. CASE \E l \in Link : link[l] = Membership(p, u) /\ ~IsBeingDeleted(l)
      BY <2>2, <3>1, <3>2, <3>4
    <3>5. CASE \E q \in Request : /\ request[q].prj = p /\ request[q].usr = u
                                  /\ request[q].undo = "revoke"
      BY <2>1, <2>3, <3>5
    <3>6. QED
      BY <1>0, <3>4, <3>5 DEF Kept, RolesAreKept
  <2>6. IdentitiesHaveRows'
    BY <1>0, <1>1, <1>3, <2>1, <2>3 DEF Kept, IdentitiesHaveRows
  <2>7. QED
    BY <1>0, <1>1, <1>3, <2>1, <2>2, <2>4, <2>5, <2>6, CommitKeeps DEF Tables
<1>4. QED
  BY <1>2, <1>3 DEF CommitUnassign

LEMMA SoftDeleteUserStep ==
  ASSUME IndInv, NEW r \in Request, SoftDeleteUser(r)
  PROVE  IndInv'
<1> DEFINE s == request[r]
<1>0. States /\ Each /\ Pairs /\ Tables /\ Kept
  BY IndInvParts
<1>1. s.at = "soft_delete" /\ UNCHANGED <<keystone, identity, blurred>>
  BY DEF SoftDeleteUser
<1>2. CASE DatabaseFails(r)
  BY <1>1, <1>2, FailureKeeps
<1>3. ASSUME user' = [user EXCEPT ![s.usr] = GoneUser], link' = WithoutLinks(s.links),
             Finish(r), UNCHANGED name
      PROVE  IndInv'
  <2>1. /\ s.usr \in User /\ s.prj = None /\ identity[s.usr] = "GONE" /\ s.undo = None
        /\ s.links \in SUBSET Link
        /\ \A l \in s.links : link[l].life # "absent" /\ (link[l].life = "live" => link[l].usr = s.usr)
    BY <1>0, <1>1, NothingToUndo DEF Each, States, RequestState, RequestInv, LinkInv, UserInv
  <2>2. /\ link' \in [Link -> LinkRow] /\ LiveLinks'
        /\ \A l \in Link : l \notin s.links => link'[l] = link[l]
        /\ \A w \in RequestState :
             /\ RequestInv(w) /\ LinkInv(w)
             /\ w.link \in s.links /\ (w.at \in {"delete_link", "revoke"} \/ w.undo = "grant") =>
                  ~(w.clean /\ identity[w.usr] = "EXISTS")
             => LinkInv(w)'
    BY <1>0, <1>1, <1>3, <2>1, LinksGo
  <2>3. /\ user' \in [User -> UserRow] /\ user'[s.usr].life = "deleted"
        /\ \A u \in User : u # s.usr => user'[u] = user[u]
    BY <1>0, <1>3, <2>1 DEF Tables, UserRow, GoneUser
  <2>4. /\ request'[r] = Idle
        /\ \A q \in Request \ {r} : request'[q] = request[q]
    BY <1>0, <1>3, IdleFacts, Moved DEF Finish
  <2>5. \A q \in Request : Creates(q) => request[q].usr # s.usr
    <3>1. ~Creates(r)
      BY <1>1, <2>1, AccountsAssumption DEF Creates
    <3>2. QED
      BY <1>0, <3>1 DEF Pairs, UsersAreOwn
  <2>6. ASSUME NEW q \in Request \ {r}
        PROVE  LinkInv(request[q])' /\ UserInv(request[q])'
    <3>1. PICK w : w = request[q] /\ w = request'[q]
      BY <2>4
    <3>2. w \in RequestState /\ RequestInv(w) /\ LinkInv(w) /\ UserInv(w)
      BY <1>0, <3>1 DEF Each, States
    <3>3. ASSUME w.link \in s.links, w.at \in {"delete_link", "revoke"} \/ w.undo = "grant"
          PROVE  ~(w.clean /\ identity[w.usr] = "EXISTS")
      <4>1. SUFFICES ASSUME identity[w.usr] = "EXISTS", link[w.link].life = "live"
                     PROVE  FALSE
        BY <3>2, <3>3 DEF LinkInv
      <4>2. w.usr = s.usr
        BY <2>1, <3>2, <3>3, <4>1 DEF LinkInv, Membership
      <4>3. QED
        BY <2>1, <4>1, <4>2
    <3>4. LinkInv(w)'
      BY <2>2, <3>2, <3>3
    <3>5. UserInv(w)'
      <4>1. w.at = "create_user" \/ w.undo = "delete_user" => w.usr # s.usr
        BY <2>5, <3>1 DEF Creates
      <4>2. QED
        BY <1>1, <2>3, <3>2, <4>1 DEF UserInv
    <3>6. QED
      BY <3>1, <3>4, <3>5
  <2>7. RolesAreKept'
    <3>1. \A l \in Link : IsBeingDeleted(l)' => IsBeingDeleted(l)
      BY <2>4, IdleFacts DEF IsBeingDeleted
    <3>2. SUFFICES ASSUME NEW p \in Project \ blurred, NEW u \in keystone[p].roles
                   PROVE  \/ \E l \in Link : link'[l] = Membership(p, u) /\ ~IsBeingDeleted(l)'
                          \/ \E q \in Request : /\ request'[q].prj = p /\ request'[q].usr = u
                                                /\ request'[q].undo = "revoke"
      BY <1>1 DEF RolesAreKept
    <3>3. u # s.usr
      BY <1>0, <2>1 DEF Tables, RolesHaveIdentities
    <3>4. CASE \E l \in Link : link[l] = Membership(p, u) /\ ~IsBeingDeleted(l)
      BY <2>1, <2>2, <3>1, <3>3, <3>4 DEF Membership
    <3>5. CASE \E q \in Request : /\ request[q].prj = p /\ request[q].usr = u
                                  /\ request[q].undo = "revoke"
      BY <2>1, <2>4, <3>5, AccountsAssumption
    <3>6. QED
      BY <1>0, <3>4, <3>5 DEF Kept, RolesAreKept
  <2>8. IdentitiesHaveRows'
    BY <1>0, <1>1, <2>1, <2>3, <2>4, AccountsAssumption DEF Kept, IdentitiesHaveRows
  <2>9. QED
    BY <1>0, <1>1, <1>3, <2>1, <2>2, <2>3, <2>6, <2>7, <2>8, CommitKeeps, AccountsAssumption
    DEF Tables
<1>4. QED
  BY <1>2, <1>3 DEF SoftDeleteUser

(***************************************************************************)
(* The undo.                                                               *)
(***************************************************************************)

LEMMA UndoStep ==
  ASSUME IndInv, NEW r \in Request, Undo(r)
  PROVE  IndInv'
<1> DEFINE s == request[r]
<1>0. States /\ Each /\ Pairs /\ Tables /\ Kept
  BY IndInvParts
<1>1. s.at = "rollback" /\ s.undo # None /\ Finish(r) /\ UNCHANGED tables
  BY <1>0 DEF Undo, Each, RequestInv
<1>2. s \in RequestState /\ RequestInv(s) /\ NameInv(s) /\ LinkInv(s) /\ UserInv(s)
  BY <1>0 DEF States, Each
<1>3. /\ s.undo \in {"rename", "revoke", "grant"} => s.prj \in Project /\ Subject(r) = s.prj
      /\ s.undo = "delete_user" => s.usr \in User /\ Subject(r) = s.usr
      /\ s.undo \in {"rename", "revoke", "grant", "delete_user"}
  BY <1>1, <1>2, AccountsAssumption DEF RequestInv, UserInv, Subject, RequestState
<1>4. CASE blurred' = blurred \cup {Subject(r)} /\ UNCHANGED <<keystone, identity>>
  BY <1>0, <1>1, <1>3, <1>4, EndKeeps DEF Tables
<1>5. ASSUME CanUndo(s), Undone(s),
             blurred' = IF s.clean THEN blurred ELSE blurred \cup {Subject(r)}
      PROVE  IndInv'
  <2>1. /\ States' /\ Pairs' /\ request'[r] = Idle
        /\ \A q \in Request \ {r} : request'[q] = request[q]
    BY <1>0, <1>1, PairsEnd, IdleFacts, Moved DEF Finish
  <2>2. /\ blurred \subseteq blurred' /\ blurred' \subseteq Project \cup User
        /\ ~s.clean => Subject(r) \in blurred'
        /\ s.clean => blurred' = blurred
    BY <1>0, <1>3, <1>5 DEF Tables
  <2>3. (RequestInv(request[r]) /\ NameInv(request[r]) /\
         LinkInv(request[r]) /\ UserInv(request[r]))' /\ request'[r].at # "commit_unassign"
    BY <2>1, IdleInv, IdleFacts
  <2>4. s.clean /\ s.prj \in Project =>
          \A q \in Request \ {r} : request[q].prj # s.prj
    BY <1>0, AccountsAssumption DEF Pairs, CleanIsAlone, OnSameProject
  <2>5. CASE s.undo = "rename"
    <3>1. /\ NameIsFree(s.prj, s.loaded) /\ UNCHANGED identity
          /\ keystone' = [keystone EXCEPT ![s.prj].name = s.loaded]
          /\ s.prj \in Project /\ s.loaded \in Name /\ Subject(r) = s.prj
      BY <1>2, <1>3, <1>5, <2>5 DEF CanUndo, Undone, OldName, RequestInv
    <3>2. s.clean => s.loaded = name[s.prj]
      BY <1>2, <2>5 DEF NameInv
    <3>3. \/ s.prj \in blurred'
          \/ \A q \in Request \ {r} :
               ~(request[q].prj = s.prj /\ request[q].at = "commit_name")
      BY <2>2, <2>4, <3>1
    <3>4. s.prj \in blurred' \/ s.loaded = name[s.prj]
      BY <2>2, <3>1, <3>2
    <3>5. QED
      BY <1>1, <2>1, <2>2, <2>3, <2>5, <3>1, <3>3, <3>4, NameKeeps
  <2>6. CASE s.undo = "revoke"
    <3>1. /\ keystone' = WithoutRole(s.prj, s.usr) /\ UNCHANGED identity
          /\ s.prj \in Project /\ s.usr \in User
      BY <1>2, <1>5, <2>6 DEF Undone, RequestInv
    <3>2. /\ keystone' \in [Project -> KeystoneProject]
          /\ \A q \in Project : keystone'[q].name = keystone[q].name
          /\ \A q \in Project : q # s.prj => keystone'[q].roles = keystone[q].roles
          /\ keystone'[s.prj].roles = keystone[s.prj].roles \ {s.usr}
      BY <1>0, <3>1, RoleFacts
    <3>3. \A q \in Project : \A u \in keystone'[q].roles : identity[u] = "EXISTS"
      BY <1>0, <3>2 DEF Tables, RolesHaveIdentities
    <3>4. RolesAreKept'
      <4>1. \A l \in Link : IsBeingDeleted(l)' => IsBeingDeleted(l)
        BY <2>1, <2>3 DEF IsBeingDeleted
      <4>2. QED
        BY <1>0, <1>1, <2>1, <2>2, <2>6, <3>2, <4>1 DEF Kept, RolesAreKept, tables
    <3>5. s.undo \notin {"rename", "delete_user"}
      BY <2>6
    <3>6. QED
      BY <1>1, <2>1, <2>2, <2>3, <3>1, <3>2, <3>3, <3>4, <3>5, RolesKeep
  <2>7. CASE s.undo = "grant"
    <3>1. /\ keystone' = WithRole(s.prj, s.usr) /\ UNCHANGED identity
          /\ s.prj \in Project /\ s.usr \in User /\ s.link \in Link
          /\ identity[s.usr] = "EXISTS" /\ Subject(r) = s.prj
      BY <1>2, <1>3, <1>5, <2>7 DEF CanUndo, Undone, RequestInv
    <3>2. /\ keystone' \in [Project -> KeystoneProject]
          /\ \A q \in Project : keystone'[q].name = keystone[q].name
          /\ \A q \in Project : q # s.prj => keystone'[q].roles = keystone[q].roles
          /\ keystone'[s.prj].roles = keystone[s.prj].roles \cup {s.usr}
      BY <1>0, <3>1, RoleFacts
    <3>3. \A q \in Project : \A u \in keystone'[q].roles : identity[u] = "EXISTS"
      BY <1>0, <3>1, <3>2 DEF Tables, RolesHaveIdentities
    <3>4. RolesAreKept'
      <4>1. \A l \in Link : IsBeingDeleted(l)' => IsBeingDeleted(l)
        BY <2>1, <2>3 DEF IsBeingDeleted
      <4>2. ASSUME s.clean
            PROVE  \E l \in Link : link[l] = Membership(s.prj, s.usr) /\ ~IsBeingDeleted(l)'
        <5>1. PICK l \in Link : l = s.link
          BY <3>1
        <5>2. link[l].life = "live" /\ link[l] = Membership(s.prj, s.usr)
          BY <1>2, <2>7, <3>1, <4>2, <5>1 DEF LinkInv
        <5>3. ASSUME NEW q \in Request, request'[q].link = l, request'[q].at = "commit_unassign"
              PROVE  FALSE
          <6>1. q \in Request \ {r} /\ request'[q] = request[q]
            BY <2>1, <2>3, <5>3
          <6>2. link[l] = Membership(request[q].prj, request[q].usr)
            BY <1>0, <5>2, <5>3, <6>1 DEF Each, RequestInv, LinkInv
          <6>3. request[q].prj = s.prj
            BY <5>2, <6>2 DEF Membership
          <6>4. QED
            BY <2>4, <3>1, <4>2, <6>1, <6>3
        <5>4. QED
          BY <5>2, <5>3 DEF IsBeingDeleted
      <4>3. SUFFICES ASSUME NEW p \in Project \ blurred', NEW u \in keystone'[p].roles
                     PROVE  \/ \E l \in Link : link[l] = Membership(p, u) /\ ~IsBeingDeleted(l)'
                            \/ \E q \in Request : /\ request'[q].prj = p /\ request'[q].usr = u
                                                  /\ request'[q].undo = "revoke"
        BY <1>1 DEF RolesAreKept, tables
      <4>4. CASE p = s.prj /\ u = s.usr
        BY <2>2, <3>1, <4>2, <4>4
      <4>5. CASE ~(p = s.prj /\ u = s.usr)
        <5>1. p \in Project \ blurred /\ u \in keystone[p].roles
          BY <2>2, <3>2, <4>5
        <5>2. QED
          BY <1>0, <2>1, <2>7, <4>1, <5>1 DEF Kept, RolesAreKept
      <4>6. QED
        BY <4>4, <4>5
    <3>5. s.undo \notin {"rename", "delete_user"}
      BY <2>7
    <3>6. QED
      BY <1>1, <2>1, <2>2, <2>3, <3>1, <3>2, <3>3, <3>4, <3>5, RolesKeep
  <2>8. CASE s.undo = "delete_user"
    <3>1. identity[s.usr] = "EXISTS" /\ RemoveIdentity(s.usr) /\ s.usr \in User
      BY <1>3, <1>5, <2>8 DEF CanUndo, Undone
    <3>2. QED
      BY <1>1, <2>1, <2>2, <2>3, <2>8, <3>1, IdentityGoes
  <2>9. QED
    BY <1>3, <2>5, <2>6, <2>7, <2>8
<1>6. QED
  BY <1>4, <1>5 DEF Undo

(***************************************************************************)
(* The theorems.                                                           *)
(***************************************************************************)

LEMMA InitEstablishes == Init => IndInv
<1> SUFFICES ASSUME Init
             PROVE  IndInv
  OBVIOUS
<1>1. PICK u \in User, a \in Account, key \in [Project -> Link] :
        /\ \A p, q \in Project : key[p] = key[q] => p = q
        /\ user = [v \in User |-> IF v = u THEN [life |-> "live", account |-> a]
                                  ELSE [life |-> "absent", account |-> None]]
        /\ link = [l \in Link |-> IF \E p \in Project : key[p] = l
                                    THEN Membership(CHOOSE p \in Project : key[p] = l, u)
                                    ELSE NoLink]
        /\ keystone = [p \in Project |-> [name |-> name[p], roles |-> {u}]]
        /\ identity = [v \in User |-> IF v = u THEN "EXISTS" ELSE "UNCREATED"]
  BY DEF Init
<1>2. /\ name \in [Project -> Name] /\ blurred = {}
      /\ \A p, q \in Project : name[p] = name[q] => p = q
      /\ request = [r \in Request |-> Idle]
  BY DEF Init
<1>3. ASSUME NEW l \in Link, NEW p \in Project, key[p] = l
      PROVE  link[l] = Membership(p, u)
  <2>1. (CHOOSE q \in Project : key[q] = l) = p
    BY <1>1, <1>3
  <2>2. QED
    BY <1>1, <1>3, <2>1
<1>4. ASSUME NEW l \in Link, ~\E p \in Project : key[p] = l
      PROVE  link[l] = NoLink
  BY <1>1, <1>4
<1>5. link \in [Link -> LinkRow] /\ LiveLinks
  <2>1. \A l \in Link : /\ link[l] \in LinkRow
                        /\ link[l].life = "live" => link[l].prj \in Project /\ link[l].usr \in User
    <3>1. ASSUME NEW l \in Link
          PROVE  link[l] = NoLink \/ \E p \in Project : link[l] = Membership(p, u)
      BY <1>3, <1>4
    <3>2. \A p \in Project : /\ Membership(p, u) \in LinkRow
                            /\ Membership(p, u).prj = p /\ Membership(p, u).usr = u
      BY DEF LinkRow, Membership
    <3>3. NoLink \in LinkRow /\ NoLink.life = "absent"
      BY DEF LinkRow, NoLink
    <3>4. QED
      BY <3>1, <3>2, <3>3
  <2>2. QED
    BY <1>1, <2>1 DEF LiveLinks
<1>6. Tables
  <2>1. /\ keystone \in [Project -> KeystoneProject]
        /\ user \in [User -> UserRow]
        /\ identity \in [User -> {"UNCREATED", "EXISTS", "GONE"}]
    BY <1>1, <1>2 DEF KeystoneProject, UserRow
  <2>2. KeystoneNamesAreDistinct /\ RolesHaveIdentities /\ DeletedUserIsGone
    BY <1>1, <1>2 DEF KeystoneNamesAreDistinct, RolesHaveIdentities, DeletedUserIsGone
  <2>3. QED
    BY <1>2, <1>5, <2>1, <2>2 DEF Tables
<1>7. \A r \in Request : request[r] = Idle
  BY <1>2
<1>8. States /\ Each
  BY <1>2, <1>7, IdleFacts, IdleInv DEF States, Each
<1>9. Pairs
  BY <1>7, IdleFacts, AccountsAssumption
  DEF Pairs, CleanIsAlone, OnSameProject, OneHoldsName, HoldsName, KeysAreOwn, Assigns,
      UsersAreOwn, Creates
<1>10. Kept
  <2>1. RolesAreKept
    <3>1. \A l \in Link : ~IsBeingDeleted(l)
      BY <1>7, IdleFacts DEF IsBeingDeleted
    <3>2. \A p \in Project : key[p] \in Link /\ link[key[p]] = Membership(p, u)
      BY <1>3
    <3>3. QED
      BY <1>1, <3>1, <3>2 DEF RolesAreKept
  <2>2. NamesAgree
    BY <1>1 DEF NamesAgree
  <2>3. IdentitiesHaveRows
    BY <1>1 DEF IdentitiesHaveRows
  <2>4. QED
    BY <2>1, <2>2, <2>3 DEF Kept
<1>11. QED
  BY <1>6, <1>8, <1>9, <1>10, IndInvParts

LEMMA StutterKeeps ==
  ASSUME IndInv, UNCHANGED vars
  PROVE  IndInv'
  BY DEF vars, IndInv, TypeOK, WorksOnTarget, CleanIsAlone, OnSameProject, OneHoldsName,
         HoldsName, LoadedIsStored, KeystoneNamesAreDistinct, LinksAreTheirs, Assigns,
         Unassigns, RolesAreKept, IsBeingDeleted, CreatesAlone, Creates, RolesHaveIdentities,
         SoftDeletesGone, NamesAgree, NameIsSettled, IdentitiesHaveRows, DeletedUserIsGone

LEMMA NextKeeps ==
  ASSUME IndInv, Next
  PROVE  IndInv'
<1>1. PICK r \in Request : Begin(r) \/ Progress(r)
  BY DEF Next
<1>2. CASE Begin(r)
  BY <1>2, RenameProjectStep, AssignUserStep, UnassignUserStep, CreateUserStep,
     DeleteUserStep DEF Begin
<1>3. CASE Progress(r)
  BY <1>3, TryAgainStep, FlushNameStep, PatchProjectStep, CommitNameStep, GrantRoleStep,
     CommitAssignStep, DeleteLinkStep, RevokeRoleStep, CommitUnassignStep,
     KeystoneCreateUserStep, InsertUserStep, KeystoneDeleteUserStep, SoftDeleteUserStep,
     UndoStep DEF Progress
<1>4. QED
  BY <1>1, <1>2, <1>3

\* The inductive invariant of the project and user services holds in every
\* reachable state: every request has what its location needs, works alone where
\* it must, and has an undo task for what it has told Keystone.
THEOREM Invariance == Spec => []IndInv
<1>1. IndInv /\ [Next]_vars => IndInv'
  BY NextKeeps, StutterKeeps
<1>2. QED
  BY <1>1, InitEstablishes, PTL DEF Spec

\* Every row, Keystone record and suspended request keeps its type; the tries of
\* a rename stay within what the backoff decorator allows.
THEOREM TypeCorrect == Spec => []TypeOK
<1>1. IndInv => TypeOK
  BY DEF IndInv
<1>2. QED
  BY <1>1, Invariance, PTL

\* update_project leaves the row and Keystone with the same name, whatever
\* renames overlap or fail, as long as no answer is lost and no undo fails or
\* runs beside another request on the project.
THEOREM NamesSafe == Spec => []NamesAgree
<1>1. IndInv => NamesAgree
  BY DEF IndInv
<1>2. QED
  BY <1>1, Invariance, PTL

\* Two projects never have one name: exists_by_name reads a snapshot, and it is
\* Keystone, called before the commit, that keeps the names apart.
THEOREM NamesDistinctSafe == Spec => []NamesAreDistinct
<1>1. IndInv => NamesAreDistinct
  BY DEF IndInv, NamesAgree, KeystoneNamesAreDistinct, NamesAreDistinct
<1>2. QED
  BY <1>1, Invariance, PTL

\* Whoever has a role in Keystone has a project_user row, or an assignment on
\* its way, for all interleavings of assign_user_on_project,
\* unassign_user_from_project and delete_user.
THEOREM RolesSafe == Spec => []RolesHaveRows
<1>1. \A u : \A p \in Project, l \in Link : link[l] = Membership(p, u) => Linked(p, u)
  BY DEF Linked, Membership
<1>2. IndInv => RolesHaveRows
  BY <1>1 DEF IndInv, RolesAreKept, RolesHaveRows
<1>3. QED
  BY <1>2, Invariance, PTL

\* The compensating transaction of create_user leaves no user in Keystone that
\* has no row.
THEOREM IdentitiesSafe == Spec => []IdentitiesHaveRows
<1>1. IndInv => IdentitiesHaveRows
  BY DEF IndInv
<1>2. QED
  BY <1>1, Invariance, PTL

\* delete_user marks a row only when the user and its roles are gone in Keystone.
THEOREM DeletedUserSafe == Spec => []DeletedUserIsGone
<1>1. IndInv => DeletedUserIsGone
  BY DEF IndInv
<1>2. QED
  BY <1>1, Invariance, PTL
=============================================================================
