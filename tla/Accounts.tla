------------------------------ MODULE Accounts ------------------------------
(***************************************************************************)
(* Projects, their members and users: the project service (rename, assign, *)
(* unassign) and the user service (create, delete), the three tables they  *)
(* keep in MySQL, and the projects, roles and users of Keystone.           *)
(*                                                                         *)
(* As in SecurityGroups an action is what a request does from one await to *)
(* the next.  What is written before the call of Keystone (the UPDATE of a *)
(* name, the DELETE of a membership) is flushed, so that its row is locked *)
(* until the unit of work ends; the commit comes after the call.  A unit   *)
(* of work makes one such call, so a request has one undo task at most.    *)
(***************************************************************************)
EXTENDS FiniteSets, Naturals

CONSTANTS
  Project,    \* projects; they are made before the server runs and stay
  User,       \* primary keys of user, one Keystone user each
  Link,       \* primary keys of project_user
  Name,       \* names of projects
  Account,    \* login ids
  Request,    \* concurrent requests: each is a slot that serves many in turn
  MaxTries,   \* max_tries of the backoff decorator
  Fault,      \* what may go wrong besides the races
  None        \* no project, user, link, name, account or task

ASSUME AccountsAssumption ==
  /\ MaxTries \in Nat \ {0}
  /\ Fault \subseteq {"refusal", "lost_answer", "database"}
  /\ None \notin Project \cup User \cup Link \cup Name \cup Account
  /\ None \notin {"rename", "revoke", "grant", "delete_user"}

VARIABLES
  name,      \* the project table
  user,      \* the user table
  link,      \* the project_user table
  keystone,  \* external: name and role assignments of the projects in Keystone
  identity,  \* external: the users in Keystone
  request,   \* the suspended coroutines
  blurred    \* history: where an answer was lost, or an undo failed or was not alone

vars == <<name, user, link, keystone, identity, request, blurred>>

tables == <<name, user, link>>
---------------------------------------------------------------------------
(* Types and the initial states.                                           *)

Location ==
  {"idle", "flush_name", "retry", "patch", "commit_name",
   "grant", "commit_assign", "delete_link", "revoke", "commit_unassign",
   "create_user", "insert_user", "delete_user", "soft_delete", "rollback"}

\* `loaded` is the name a rename loaded, and stale says that the row was written
\* since; `links` are the memberships a deletion of a user loaded.  `clean` is
\* history: the request has been the only one on its project.
RequestState ==
  [at      : Location,
   prj     : Project \cup {None},
   usr     : User \cup {None},
   link    : Link \cup {None},
   links   : SUBSET Link,
   name    : Name \cup {None},
   loaded  : Name \cup {None},
   account : Account \cup {None},
   stale   : BOOLEAN,
   tries   : 1..MaxTries,
   undo    : {"rename", "revoke", "grant", "delete_user", None},
   clean   : BOOLEAN]

Idle ==
  [at |-> "idle", prj |-> None, usr |-> None, link |-> None, links |-> {},
   name |-> None, loaded |-> None, account |-> None, stale |-> FALSE, tries |-> 1,
   undo |-> None, clean |-> TRUE]

UserRow == [life : {"absent", "live", "deleted"}, account : Account \cup {None}]

LinkRow == [life : {"absent", "live", "deleted"},
            prj  : Project \cup {None},
            usr  : User \cup {None}]

KeystoneProject == [name : Name, roles : SUBSET User]

TypeOK ==
  /\ name \in [Project -> Name]
  /\ user \in [User -> UserRow]
  /\ link \in [Link -> LinkRow]
  /\ keystone \in [Project -> KeystoneProject]
  /\ identity \in [User -> {"UNCREATED", "EXISTS", "GONE"}]
  /\ request \in [Request -> RequestState]
  /\ blurred \subseteq Project \cup User

\* No query looks at the login id of a deleted user.
GoneUser == [life |-> "deleted", account |-> None]

Membership(p, u) == [life |-> "live", prj |-> p, usr |-> u]

NoLink == [life |-> "absent", prj |-> None, usr |-> None]

GoneLink == [NoLink EXCEPT !.life = "deleted"]

\* docs/sequence_diagram_account.md:8: projects are provided.  One user, who is
\* a member of every project, is there to create and admit the others.
Init ==
  /\ name \in [Project -> Name]
  /\ \A p, q \in Project : name[p] = name[q] => p = q
  /\ \E u \in User, a \in Account, key \in [Project -> Link] :
       /\ \A p, q \in Project : key[p] = key[q] => p = q
       /\ user = [v \in User |-> IF v = u THEN [life |-> "live", account |-> a]
                                 ELSE [life |-> "absent", account |-> None]]
       /\ link = [l \in Link |-> IF \E p \in Project : key[p] = l
                                   THEN Membership(CHOOSE p \in Project : key[p] = l, u)
                                   ELSE NoLink]
       /\ keystone = [p \in Project |-> [name |-> name[p], roles |-> {u}]]
       /\ identity = [v \in User |-> IF v = u THEN "EXISTS" ELSE "UNCREATED"]
  /\ request = [r \in Request |-> Idle]
  /\ blurred = {}
---------------------------------------------------------------------------
(* Control of a request.                                                   *)

May(fault) == fault \in Fault

Become(r, state) == request' = [request EXCEPT ![r] = state]

Finish(r) == Become(r, Idle)

\* MUTANT  the compensating transaction is left before the commit
RaiseUncompensated(r) == Finish(r)

\* An exception leaves the unit of work, which has rolled back and let go of its
\* locks; the compensating transaction has something to undo, or not.
Raise(r) ==
  IF request[r].undo = None THEN Finish(r)
  ELSE Become(r, [request[r] EXCEPT !.at = "rollback"])

\* The project that a request works on, or the user if it works on none.
Subject(r) == IF request[r].prj = None THEN request[r].usr ELSE request[r].prj

OnSameProject(s, t) == s.prj = t.prj /\ s.prj # None

\* A handler starts in an idle slot; whoever is on the same project is no
\* longer alone there.
Start(r, state) ==
  /\ request[r].at = "idle"
  /\ request' = [q \in Request |->
       IF q = r
         THEN [state EXCEPT !.clean =
                \A o \in Request : ~OnSameProject(request[o], state)]
       ELSE IF OnSameProject(request[q], state)
         THEN [request[q] EXCEPT !.clean = FALSE]
       ELSE request[q]]
  /\ UNCHANGED <<tables, keystone, identity, blurred>>

\* Keystone has done what it was asked: the answer arrives, or is lost and the
\* request raises before it adds the undo.
Answered(r, state) ==
  \/ Become(r, state) /\ UNCHANGED blurred
  \/ /\ May("lost_answer")
     /\ Finish(r)
     /\ blurred' = blurred \cup {Subject(r)}

\* MUTANT  the client logs an error status and returns the response
AfterRefusalIgnored(state) == state

\* OpenStackException, with nothing to undo yet.
AfterRefusal(state) == Idle

\* The call refused, or not made: the system token is unset or has expired.
Refused(r, takes, state) ==
  /\ ~takes \/ May("refusal")
  /\ Become(r, AfterRefusal(state))
  /\ UNCHANGED <<keystone, identity, blurred>>

\* A commit, or a flush that waited too long for a lock, fails.
DatabaseFails(r) ==
  /\ May("database")
  /\ Raise(r)
  /\ UNCHANGED tables

Linked(p, u) ==
  \E l \in Link : link[l].life = "live" /\ link[l].prj = p /\ link[l].usr = u

\* exists_by_project_and_user, of the client's own id.  Its token is not looked
\* up in the user table.
SomeMemberAsks(p) == \E x \in User : Linked(p, x)

---------------------------------------------------------------------------
(* PUT /projects/{id}                                                      *)

\* exists_by_name finds the project itself too.
MayRename(p, n) == SomeMemberAsks(p) /\ \A q \in Project : name[q] # n

\* find_by_id and the checks, of one snapshot, in each try.
Loaded(s) == [s EXCEPT !.at = "flush_name", !.loaded = name[s.prj], !.stale = FALSE]

RenameProject(r, p, n) ==
  /\ MayRename(p, n)
  /\ Start(r, Loaded([Idle EXCEPT !.prj = p, !.name = n]))

\* The next try, after backoff's sleep, with a new session.
TryAgain(r) ==
  LET s == request[r]
  IN  /\ s.at = "retry"
      /\ \/ MayRename(s.prj, s.name) /\ Become(r, Loaded(s))
         \/ ~MayRename(s.prj, s.name) /\ Raise(r)
      /\ UNCHANGED <<tables, keystone, identity, blurred>>

HoldsName(q, p) == request[q].prj = p /\ request[q].at \in {"patch", "commit_name"}

\* MUTANT  the version is not compared
FlushesAnyVersion(s) == [s EXCEPT !.at = "patch", !.stale = FALSE]

\* The UPDATE compares the version: StaleDataError, which backoff catches.
Flushed(s) ==
  IF ~s.stale THEN [s EXCEPT !.at = "patch"]
  ELSE IF s.tries < MaxTries THEN [s EXCEPT !.at = "retry", !.tries = @ + 1]
  ELSE Idle

\* update_with_optimistic_lock, which waits while another holds the row.
FlushName(r) ==
  LET s == request[r]
  IN  /\ s.at = "flush_name"
      /\ \/ (\A q \in Request : ~HoldsName(q, s.prj)) /\ Become(r, Flushed(s)) /\ UNCHANGED tables
         \/ DatabaseFails(r)
      /\ UNCHANGED <<keystone, identity, blurred>>

\* Keystone keeps the names of a domain distinct.
NameIsFree(p, n) == \A q \in Project \ {p} : keystone[q].name # n

\* MUTANT  the undo restores the name that was asked for
UndoRenameLate(s) == s.name

\* The name that the undo of a rename restores.
OldName(s) == s.loaded

\* update_project of the Keystone client.
PatchProject(r) ==
  LET s == request[r]
      free == NameIsFree(s.prj, s.name)
      patched == [s EXCEPT !.at = "commit_name", !.undo = "rename"]
  IN  /\ s.at = "patch"
      /\ \/ /\ free
            /\ keystone' = [keystone EXCEPT ![s.prj].name = s.name]
            /\ Answered(r, patched)
            /\ UNCHANGED identity
         \/ Refused(r, free, patched)
      /\ UNCHANGED tables

\* The version moves on for every request that has loaded the row and waits to
\* write it.
CommitName(r) ==
  LET s == request[r]
  IN  /\ s.at = "commit_name"
      /\ \/ /\ name' = [name EXCEPT ![s.prj] = s.name]
            /\ request' = [q \in Request |->
                 IF q = r THEN Idle
                 ELSE IF request[q].prj = s.prj /\ request[q].at = "flush_name"
                   THEN [request[q] EXCEPT !.stale = TRUE]
                 ELSE request[q]]
            /\ UNCHANGED <<user, link>>
         \/ DatabaseFails(r)
      /\ UNCHANGED <<keystone, identity, blurred>>
---------------------------------------------------------------------------
(* POST and DELETE /projects/{id}/users/{id}                               *)

\* The INSERT is flushed at once; nobody sees the row before the commit.
AssignUser(r, p, u, l) ==
  /\ SomeMemberAsks(p)
  /\ user[u].life = "live" /\ ~Linked(p, u)
  /\ link[l].life = "absent" /\ \A q \in Request : request[q].link # l
  /\ Start(r, [Idle EXCEPT !.at = "grant", !.prj = p, !.usr = u, !.link = l])

WithRole(p, u) == [keystone EXCEPT ![p].roles = @ \cup {u}]

WithoutRole(p, u) == [keystone EXCEPT ![p].roles = @ \ {u}]

GrantRole(r) ==
  LET s == request[r]
      exists == identity[s.usr] = "EXISTS"
      granted == [s EXCEPT !.at = "commit_assign", !.undo = "revoke"]
  IN  /\ s.at = "grant"
      /\ \/ /\ exists
            /\ keystone' = WithRole(s.prj, s.usr)
            /\ Answered(r, granted)
            /\ UNCHANGED identity
         \/ Refused(r, exists, granted)
      /\ UNCHANGED tables

CommitAssign(r) ==
  LET s == request[r]
  IN  /\ s.at = "commit_assign"
      /\ \/ /\ link' = [link EXCEPT ![s.link] = Membership(s.prj, s.usr)]
            /\ Finish(r)
            /\ UNCHANGED <<name, user>>
         \/ DatabaseFails(r)
      /\ UNCHANGED <<keystone, identity, blurred>>

\* find_by_project_and_user takes any row of the two.
UnassignUser(r, l) ==
  /\ link[l].life = "live" /\ user[link[l].usr].life = "live"
  /\ SomeMemberAsks(link[l].prj)
  /\ Start(r, [Idle EXCEPT !.at = "delete_link", !.prj = link[l].prj,
                           !.usr = link[l].usr, !.link = l])

HoldsLink(q, l) == request[q].link = l /\ request[q].at \in {"revoke", "commit_unassign"}

\* The DELETE waits while another holds the row.  When the row is gone by then
\* it matches nothing, which is a warning only.
DeleteLink(r) ==
  LET s == request[r]
  IN  /\ s.at = "delete_link"
      /\ \/ /\ \A q \in Request : ~HoldsLink(q, s.link)
            /\ Become(r, [s EXCEPT !.at = "revoke"]) /\ UNCHANGED tables
         \/ DatabaseFails(r)
      /\ UNCHANGED <<keystone, identity, blurred>>

RevokeRole(r) ==
  LET s == request[r]
      has == s.usr \in keystone[s.prj].roles
      revoked == [s EXCEPT !.at = "commit_unassign", !.undo = "grant"]
  IN  /\ s.at = "revoke"
      /\ \/ /\ has
            /\ keystone' = WithoutRole(s.prj, s.usr)
            /\ Answered(r, revoked)
            /\ UNCHANGED identity
         \/ Refused(r, has, revoked)
      /\ UNCHANGED tables

WithoutLinks(ls) ==
  [l \in Link |-> IF l \in ls THEN GoneLink ELSE link[l]]

CommitUnassign(r) ==
  /\ request[r].at = "commit_unassign"
  /\ \/ /\ link' = WithoutLinks({request[r].link})
        /\ Finish(r)
        /\ UNCHANGED <<name, user>>
     \/ DatabaseFails(r)
  /\ UNCHANGED <<keystone, identity, blurred>>
---------------------------------------------------------------------------
(* POST /users and DELETE /users/{id}                                      *)

LiveUsers == {u \in User : user[u].life = "live"}

\* exists_by_account_id is the only thing that keeps login ids apart.
CreateUser(r, u, a) ==
  /\ user[u].life = "absent" /\ identity[u] = "UNCREATED"
  /\ \A q \in Request : request[q].usr # u
  /\ \A v \in LiveUsers : user[v].account # a
  /\ Start(r, [Idle EXCEPT !.at = "create_user", !.usr = u, !.account = a])

\* Keystone users have names of their own, which are never taken.
KeystoneCreateUser(r) ==
  LET s == request[r]
      created == [s EXCEPT !.at = "insert_user", !.undo = "delete_user"]
  IN  /\ s.at = "create_user"
      /\ \/ /\ identity' = [identity EXCEPT ![s.usr] = "EXISTS"]
            /\ Answered(r, created)
            /\ UNCHANGED keystone
         \/ Refused(r, TRUE, created)
      /\ UNCHANGED tables

\* bcrypt, the INSERT and the commit.
InsertUser(r) ==
  LET s == request[r]
  IN  /\ s.at = "insert_user"
      /\ \/ /\ user' = [user EXCEPT ![s.usr] = [life |-> "live", account |-> s.account]]
            /\ Finish(r)
            /\ UNCHANGED <<name, link>>
         \/ DatabaseFails(r)
      /\ UNCHANGED <<keystone, identity, blurred>>

\* A user deletes itself.  What _linked_projects will hold is fixed by the
\* snapshot of find_by_id.
DeleteUser(r, u) ==
  /\ user[u].life = "live" /\ Cardinality(LiveUsers) > 1
  /\ Start(r, [Idle EXCEPT !.at = "delete_user", !.usr = u,
                 !.links = {l \in Link : link[l].life = "live" /\ link[l].usr = u}])

\* Keystone forgets a user's roles with it.
RemoveIdentity(u) ==
  /\ identity' = [identity EXCEPT ![u] = "GONE"]
  /\ keystone' = [p \in Project |-> [keystone[p] EXCEPT !.roles = @ \ {u}]]

KeystoneDeleteUser(r) ==
  LET s == request[r]
      exists == identity[s.usr] = "EXISTS"
      removed == [s EXCEPT !.at = "soft_delete"]
  IN  /\ s.at = "delete_user"
      /\ \/ exists /\ RemoveIdentity(s.usr) /\ Answered(r, removed)
         \/ Refused(r, exists, removed)
      /\ UNCHANGED tables

\* User.delete and the commit, which waits for the rows it deletes.  There is
\* no compensating transaction: a commit that fails leaves the row.
SoftDeleteUser(r) ==
  LET s == request[r]
  IN  /\ s.at = "soft_delete"
      /\ \/ /\ \A l \in s.links, q \in Request : ~HoldsLink(q, l)
            /\ user' = [user EXCEPT ![s.usr] = GoneUser]
            /\ link' = WithoutLinks(s.links)
            /\ Finish(r)
            /\ UNCHANGED name
         \/ DatabaseFails(r)
      /\ UNCHANGED <<keystone, identity, blurred>>
---------------------------------------------------------------------------
(* The compensating transaction.                                           *)

CanUndo(s) ==
  CASE s.undo = "rename"      -> NameIsFree(s.prj, OldName(s))
    [] s.undo = "revoke"      -> s.usr \in keystone[s.prj].roles
    [] s.undo = "grant"       -> identity[s.usr] = "EXISTS"
    [] s.undo = "delete_user" -> identity[s.usr] = "EXISTS"

Undone(s) ==
  CASE s.undo = "rename"      -> /\ keystone' = [keystone EXCEPT ![s.prj].name = OldName(s)]
                                 /\ UNCHANGED identity
    [] s.undo = "revoke"      -> keystone' = WithoutRole(s.prj, s.usr) /\ UNCHANGED identity
    [] s.undo = "grant"       -> keystone' = WithRole(s.prj, s.usr) /\ UNCHANGED identity
    [] s.undo = "delete_user" -> RemoveIdentity(s.usr)

\* The undo call; what it raises is swallowed, and the exception of the request
\* leaves the router.
Undo(r) ==
  LET s == request[r]
  IN  /\ s.at = "rollback"
      /\ \/ /\ CanUndo(s)
            /\ Undone(s)
            /\ blurred' = IF s.clean THEN blurred ELSE blurred \cup {Subject(r)}
         \/ /\ ~CanUndo(s) \/ May("refusal")
            /\ blurred' = blurred \cup {Subject(r)}
            /\ UNCHANGED <<keystone, identity>>
      /\ Finish(r)
      /\ UNCHANGED tables

Begin(r) ==
  \/ \E p \in Project, n \in Name : RenameProject(r, p, n)
  \/ \E p \in Project, u \in User, l \in Link : AssignUser(r, p, u, l)
  \/ \E l \in Link : UnassignUser(r, l)
  \/ \E u \in User, a \in Account : CreateUser(r, u, a)
  \/ \E u \in User : DeleteUser(r, u)

Progress(r) ==
  \/ TryAgain(r) \/ FlushName(r) \/ PatchProject(r) \/ CommitName(r)
  \/ GrantRole(r) \/ CommitAssign(r)
  \/ DeleteLink(r) \/ RevokeRole(r) \/ CommitUnassign(r)
  \/ KeystoneCreateUser(r) \/ InsertUser(r)
  \/ KeystoneDeleteUser(r) \/ SoftDeleteUser(r)
  \/ Undo(r)

Next == \E r \in Request : Begin(r) \/ Progress(r)

Spec == Init /\ [][Next]_vars

---------------------------------------------------------------------------
\* No request is between its call of Keystone about p and its end.
NameIsSettled(p) ==
  \A r \in Request : request[r].prj = p => request[r].undo # "rename"

\* The row and Keystone agree on the name of a project whenever no rename is in
\* between: of renames that overlap one is first, and the others see it or try
\* again; a rename that fails alone takes back what it told Keystone.
NamesAgree ==
  \A p \in Project \ blurred : NameIsSettled(p) => keystone[p].name = name[p]

\* Two projects never share a name, although each rename checks a snapshot that
\* does not see the other.
NamesAreDistinct ==
  \A p, q \in Project \ blurred :
    name[p] = name[q] /\ NameIsSettled(p) /\ NameIsSettled(q) => p = q

\* Whoever has a role on a project in Keystone has a row that says so, or an
\* assignment on its way that will write the row or take the role back: nobody
\* stays on a project unseen, whatever assignments and removals overlap.
RolesHaveRows ==
  \A p \in Project \ blurred : \A u \in keystone[p].roles :
    \/ Linked(p, u)
    \/ \E r \in Request :
         request[r].prj = p /\ request[r].usr = u /\ request[r].undo = "revoke"

\* A failed sign-up leaves no user behind in Keystone.
IdentitiesHaveRows ==
  \A u \in User \ blurred : identity[u] = "EXISTS" =>
    \/ user[u].life = "live"
    \/ \E r \in Request : request[r].usr = u /\ request[r].undo = "delete_user"

\* A user whose row is marked deleted is gone in Keystone and has no role there,
\* also when an assignment of it was on its way.
DeletedUserIsGone ==
  \A u \in User : user[u].life = "deleted" =>
    identity[u] = "GONE" /\ \A p \in Project : u \notin keystone[p].roles

\* The inductive invariant behind these: a request has what its location needs
\* and an undo task from its call of Keystone on,
WorksOnTarget ==
  \A r \in Request :
    LET s == request[r]
    IN  /\ s.at = "rollback" => s.undo # None
        /\ s.at \in {"flush_name", "retry", "patch", "commit_name"} =>
             s.prj \in Project /\ s.name \in Name
        /\ s.at \in {"flush_name", "patch", "commit_name"} => s.loaded \in Name
        /\ s.at \in {"grant", "commit_assign", "delete_link", "revoke", "commit_unassign"} =>
             s.prj \in Project /\ s.usr \in User /\ s.link \in Link
        /\ s.at \in {"delete_user", "soft_delete"} => s.usr \in User /\ s.prj = None
        /\ s.at = "create_user" => s.account \in Account
        /\ s.at = "commit_name" => s.undo = "rename"
        /\ s.at = "commit_assign" => s.undo = "revoke"
        /\ s.at = "commit_unassign" => s.undo = "grant"
        /\ s.at = "insert_user" => s.undo = "delete_user" /\ s.account \in Account
        /\ s.undo = "rename" =>
             /\ s.at \in {"commit_name", "rollback"}
             /\ s.prj \in Project /\ s.name \in Name /\ s.loaded \in Name
        /\ s.undo = "revoke" =>
             /\ s.at \in {"commit_assign", "rollback"}
             /\ s.prj \in Project /\ s.usr \in User
        /\ s.undo = "grant" =>
             /\ s.at \in {"commit_unassign", "rollback"}
             /\ s.prj \in Project /\ s.usr \in User /\ s.link \in Link
        /\ s.undo = "delete_user" => s.at \in {"insert_user", "rollback"}

\* nobody is on a project where another has been alone,
CleanIsAlone ==
  \A q, r \in Request :
    request[q].clean /\ OnSameProject(request[q], request[r]) => q = r

\* one request holds the row of a name, and has loaded what is there,
OneHoldsName ==
  \A p \in Project, q, r \in Request : HoldsName(q, p) /\ HoldsName(r, p) => q = r

LoadedIsStored ==
  \A r \in Request :
    LET s == request[r]
    IN  /\ s.at \in {"patch", "commit_name"} => ~s.stale
        /\ s.at \in {"flush_name", "patch", "commit_name"} /\ ~s.stale => s.loaded = name[s.prj]
        /\ s.undo = "rename" /\ s.clean => s.loaded = name[s.prj]
        /\ s.at = "commit_name" /\ s.prj \notin blurred => keystone[s.prj].name = s.name

KeystoneNamesAreDistinct ==
  \A p, q \in Project : keystone[p].name = keystone[q].name => p = q

\* a membership that is being made has a key of its own, and one that is being
\* removed is the one that was asked for, and there if nobody came in between,
Assigns(r) == request[r].at \in {"grant", "commit_assign"}

Unassigns(r) ==
  request[r].at \in {"delete_link", "revoke"} \/ request[r].undo = "grant"

LinksAreTheirs ==
  /\ \A l \in Link : link[l].life = "live" => link[l].prj \in Project /\ link[l].usr \in User
  /\ \A r \in Request :
       LET s == request[r]
       IN  /\ Assigns(r) => /\ link[s.link].life = "absent"
                            /\ \A q \in Request : request[q].link = s.link => q = r
           /\ Unassigns(r) =>
                /\ link[s.link].life # "absent"
                /\ link[s.link].life = "live" => link[s.link] = Membership(s.prj, s.usr)
                /\ s.clean /\ identity[s.usr] = "EXISTS" => link[s.link].life = "live"
           /\ s.at \in {"delete_user", "soft_delete"} => \A l \in s.links :
                /\ link[l].life # "absent"
                /\ link[l].life = "live" => link[l].usr = s.usr

\* a role has a row that nobody is about to delete,
IsBeingDeleted(l) == \E q \in Request : request[q].link = l /\ request[q].at = "commit_unassign"

RolesAreKept ==
  \A p \in Project \ blurred : \A u \in keystone[p].roles :
    \/ \E l \in Link : link[l] = Membership(p, u) /\ ~IsBeingDeleted(l)
    \/ \E r \in Request :
         request[r].prj = p /\ request[r].usr = u /\ request[r].undo = "revoke"

\* and a user is created once, by one request.
Creates(r) == request[r].at = "create_user" \/ request[r].undo = "delete_user"

CreatesAlone ==
  \A r \in Request : Creates(r) =>
    /\ request[r].usr \in User /\ request[r].prj = None
    /\ user[request[r].usr].life = "absent"
    /\ request[r].at = "create_user" => identity[request[r].usr] = "UNCREATED"
    /\ \A q \in Request : request[q].usr = request[r].usr => q = r

RolesHaveIdentities ==
  \A p \in Project : \A u \in keystone[p].roles : identity[u] = "EXISTS"

SoftDeletesGone ==
  \A r \in Request : request[r].at = "soft_delete" => identity[request[r].usr] = "GONE"

IndInv ==
  /\ TypeOK
  /\ WorksOnTarget
  /\ CleanIsAlone
  /\ OneHoldsName
  /\ LoadedIsStored
  /\ KeystoneNamesAreDistinct
  /\ LinksAreTheirs
  /\ RolesAreKept
  /\ CreatesAlone
  /\ RolesHaveIdentities
  /\ SoftDeletesGone
  /\ NamesAgree
  /\ IdentitiesHaveRows
  /\ DeletedUserIsGone
=============================================================================
