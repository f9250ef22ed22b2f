# Verification of Openstack-cloud-api

TLA+ models, TLC runs and TLAPS proofs about the cloud API server of this
repository: a FastAPI process (`api_server`) whose services (`common/application`)
keep rows in MySQL through SQLAlchemy and drive Nova, Cinder, Neutron and Keystone
over HTTP.  Paths below are relative to the root of the repository.

## 1. Inventory

The process is one asyncio event loop.  A request handler, and each background
task it queues, is a coroutine that gives way at every await: a database
statement, a commit, a call to OpenStack, a sleep of a poll loop.  Nothing is
locked while it waits (`autoflush` is off and there is no `SELECT ... FOR UPDATE`),
except for what a repository flushes before an await: the rows written there, the
name of a project and the memberships, are locked until the unit of work ends; all
other writes reach MySQL at its commit.  Most operations of
OpenStack are asynchronous: the call is accepted, and the result is found by
polling, for up to minutes, inside the unit of work that will write the outcome.

| component | state | operations | interacts with | what is hard | what makes it correct |
|---|---|---|---|---|---|
| Transaction scope (`common/infrastructure/database.py`) | ContextVar with the session, SQLAlchemy's connection pool | enter (join or open), return, raise, commit, rollback, close | every service and repository | nested decorated calls; the wrapper clears the variable for joined calls too; two sessions of one coroutine on a bounded pool | a call never joins a closed session; connections are conserved; an outermost call is all or nothing, unless a body under it makes a second decorated call |
| ORM session | entities as loaded and as changed | snapshot select, attribute writes, flush of changed columns | rows | entities stale by minutes, no version column on volumes and servers | a stale flush never revives a deleted row |
| Volume service and entity (`application/volume`, `domain/volume`) | status, server_id, size, deleted_at of a row | create + sync, resize, delete, finalize root volume, rename | Cinder, server service (same rows) | validate, then poll, then write; poll timeouts; lost answers; restart loses pollers | deleted rows are gone in Cinder, a resize is real, CREATING ends |
| Server service (`application/server`) | server rows, interfaces, volumes of the server | create + finalize, start, stop, attach, detach, delete + two background tasks | Nova, Cinder, Neutron, volume rows | attach, detach, delete overlap on one volume; two sessions in detach; parallel port deletions | server_id is a server Nova accepted; deleted servers are gone in Nova; volumes on a deleted server are released (the code releases every second one, section 6) |
| Compensating transaction (`util/compensating_transaction.py`) | list of undo tasks | add, roll back in reverse order | services that call OpenStack before the commit | undo that fails is swallowed; tasks survive a retry | a failed request leaves OpenStack as it found it |
| Security groups (`application/security_group`) | row with a version column, rules in Neutron | create, update, delete | Neutron, compensation, server creation | optimistic lock with up to 3 tries around calls with side effects; parallel rule deletions | row and Neutron agree; no interface refers to a deleted group |
| Projects (`application/project`) | row with a version column, members | rename, assign, unassign | Keystone, compensation | flush, call, commit, retry; concurrent assignment | row and Keystone agree on names; whoever has a role has a row |
| Users (`application/user`) | row, memberships | create, rename, delete | Keystone, compensation, project service (same memberships) | count then delete; Keystone first, commit second | Keystone has no user without an account, and none that is deleted |
| Floating IPs, interfaces (`application/floating_ip`, `application/network_interface`) | row with status and interface | create, delete, attach, detach | Neutron, compensation, delete of servers | check, call, commit against an attach or a server deletion | a deleted address is gone in Neutron, and row and Neutron agree on who has an address; an address attached after the check of its deletion is deleted all the same, its row naming the interface, which no property is about |
| Authentication and tokens (`application/auth`, `util/*_token_manager.py`) | system token of the process, JWT of the client | login, refresh | Keystone | unset or expired system token; expiry before issue | a token outlives its use |
| OpenStack clients (`infrastructure/*/client.py`) | none | one HTTP request per method | Nova, Cinder, Neutron, Keystone | refusal, failure, lost answer | errors are raised, 404 alone means absent |
| Routers, background tasks (`api_server/router`) | queue of background tasks of a request | call the service, queue the tasks | services | tasks run in order, a raising task ends the queue, a restart drops them | |
| Repositories, exceptions, schemas, `batch_server` | none | queries, data classes, an empty package | | | |

## 2. Plan

Modules, in the order they are written; those with a check mark exist.

1. ✔ `OrmSession`, `VolumeEntity`: rows, flushes, entity methods (operators).
2. ✔ `VolumeLifecycle`: volumes and servers under concurrent requests.  It extends 1.
3. ✔ `TransactionScope`, refining ✔ `AtomicCalls`: what `@transactional` does and promises.
4. ✔ `VolumeLifecycle_proofs`, ✔ `TransactionScope_proofs`, ✔ `SecurityGroups_proofs`,
   ✔ `Accounts_proofs`, ✔ `Tokens_proofs`, ✔ `FloatingIps_proofs`, ✔ `ServerLifecycle_proofs`,
   ✔ `ServerRows_proofs`.
5. ✔ `Compensation`, ✔ `SecurityGroups`: compensation, optimistic lock and retries of
   the security group service, with servers as the other users of a group.
6. ✔ `Accounts`: project membership, renaming and users against Keystone.
7. ✔ `ServerLifecycle`: create, finalize, start, stop, their pollers and
   compensation, against delete_server; it implements ✔ `ServerStatusMachine`, the status
   machine a client sees.
8. ✔ `FloatingIps`: create, delete, attach, detach against Neutron and server deletion.
9. ✔ `Tokens`: the system token and its refresh, login, expiry.
10. What is left: the composition of `ServerLifecycle` with the data volumes of
   `VolumeLifecycle` on one server (each has its own part of delete_server now), and the
   names of volumes and servers.

The abstract specifications worth stating are `AtomicCalls` and the status machine
of a server, both here; "a request is committed or undone", for the compensated
services, is stated as properties of 5, 6, 7 and 8, each with the failures it excepts.

## 3. Modules

### `OrmSession`, `VolumeEntity`

Operators only.  `Flush(stored, loaded, entity)` is the UPDATE of a commit: a
column whose in-memory value differs from the loaded one is written, every other
column keeps what is stored, whoever stored it.  `VolumeEntity` has one operator
per method of `common/domain/volume/entity.py` that guards or changes a modelled
column.  Folded: RESERVED into ATTACHING, DOWNLOADING into CREATING, the error
statuses into ERROR; statuses only Cinder's administrators reach are left out.

### `VolumeLifecycle`

| variable | code |
|---|---|
| `row` | the `volume` table: deleted_at, status, server_id, size |
| `serverRow` | deleted_at of the `server` table |
| `cinder`, `nova` | the external services, from what the clients of `common/infrastructure` ask and understand |
| `request` | the suspended coroutines: where each one is suspended, its arguments, poll counter, last status polled, and the entities its session loaded |
| `accepted` | history: attachments Nova ever accepted |

An action is what a coroutine does from one await to the next.  A request that
reads rows takes its snapshot in one action (the first select of an InnoDB
transaction fixes what it sees) and its guards are evaluated on that snapshot;
what it writes is flushed by the action that models its commit.  Poll loops count
their attempts against `MaxPolls`, which stands for all the `MAX_..._ATTEMPTS_...`
settings.  detach_volume_from_server commits twice (`SaveDetached`, then
`CommitDetachVolumeFromServer`): that is what `TransactionScope` says of a body
with two decorated calls.

External services: Cinder may end an operation well, badly or not at all
(`CinderCompletes`); Nova refuses an attach of a volume that is not AVAILABLE and
releases the volumes of a server it deletes.  With `Faulty`, a call may fail
without effect (`CallFails`), its answer may be lost (`Answered`), and the process
may restart at any time, which drops every coroutine and background task.

### `TransactionScope`, `AtomicCalls`

A coroutine is a stack of decorated calls.  `CallTransactional` is
`session_factory` up to its yield (join the session of the context variable, or
open one), `ReturnJoined`, `ReturnOwner`, `CommitFails` and `Unwind` are its exits
together with the `finally` of the wrapper.  A session takes a connection at its
first statement and gives it back at its close; an empty pool makes the statement
wait and, after the pool's timeout, raise.  Repositories enter `session_factory`
without the wrapper and always from inside a call: they join.  (One that ran
outside of any session would open its own; no body touches a repository after its
first nested call has returned, so this does not occur.)

`AtomicCalls` is what the docstring of `transactional` promises of an outermost
call: its writes become visible together when it returns, and never when it
raises.  That holds as long as no body under the call makes a second decorated call;
after it, the call is `split`: the second one has found the context variable empty and
has a session of its own, so parts of the writes may become visible while the call
runs, another part when it returns, and none once it raises.  Of the code's
bodies only that of `detach_volume_from_server` makes two decorated calls.  The
refinement maps a stack to `outside`, `running` or `raising`, and to split from the
second call of a body on (`IsSplit`) until the outermost call ends.

### `Compensation`, `SecurityGroups`

`Compensation` has the operators on the list of undo tasks.  The variables of
`SecurityGroups`:

| variable | code |
|---|---|
| `row` | the `security_group` table: deleted_at and name |
| `link`, `nic` | `network_interface_security_group`, and deleted_at of `network_interface` |
| `neutron` | the groups Neutron has: name and rules; `made` counts the POSTs of rules and gives rules their ids |
| `port` | the ports Neutron has, and the groups each one uses |
| `request` | the suspended coroutines with what each loaded, its tries, the rules it is deleting and adding, its undo tasks; `clean` and `before` are history |

An update goes `rename` (Neutron's PUT), `list`, `delete_rules` (one action per
parallel call), `add_rules`, `save` (the commit with its version check), back to
`retry` on StaleDataError or on to `rollback`, one undo task per step.  The version
is kept as a flag: a commit that writes the row marks it stale in every other
request that has loaded it.  A rule is known by what it says and by the POST that
made it, so that a stale id does not name a rule that was put back.  When gather
raises, the deletions it was waiting for go on in the slot of the request, and what
they add after the start of the rollback is never run.

What may go wrong is a set: `refusal` (OpenStackException without effect),
`lost_answer` (effect or not, an httpx exception either way), `database` (a commit
that fails).  Neutron is modelled where the code leans on it: it refuses the
deletion of a group that a port uses, a port with a group it does not have, and a
rule the group already has.  Descriptions only decide whether an UPDATE is
written; a request that names one rule twice is left out.

### `Accounts`

| variable | code |
|---|---|
| `name` | the `project` table: the name of each project |
| `user` | the `user` table: deleted_at and login id |
| `link` | the `project_user` table |
| `keystone`, `identity` | Keystone: name and role assignments of each project, and which users exist |
| `request` | the suspended coroutines, with the one undo task each may have |
| `blurred` | history: the projects and users where an answer was lost, or an undo failed or ran beside another request |

A rename goes `flush_name` (the UPDATE with its version check), `patch` (Keystone's
PATCH), `commit_name`; StaleDataError at the flush leads to `retry`.  An assignment
goes `grant`, `commit_assign` (its INSERT is flushed before, which nobody sees); a
removal `delete_link`, `revoke`, `commit_unassign`.  A user is made by `create_user`,
`insert_user`, and deleted by `delete_user`, `soft_delete`.  Any of them may end at
`rollback`.  A refused call and a lost answer end the request before its undo task
is added, which is where the code adds it.

Rows that are flushed are locked: `HoldsName` and `HoldsLink` make the others wait.
The shared locks that the foreign keys of an INSERT take are left out: a request
that has inserted waits for no other lock, so they delay and never block for good.
The version of a project is kept as the flag `stale` of the requests that have
loaded the row.  A client's token is not looked up in the user table, so a check of
the client's own membership asks for any row of that project (`SomeMemberAsks`).

Keystone is modelled where the code leans on it: it refuses a name that another
project has, a grant to a user it does not have, a revocation of a role that is not
there and the deletion of an unknown user, and it drops the roles of a user it
deletes.  The key of a user in MySQL and its id in Keystone are one value, given
when its creation starts and not used again.

### `ServerLifecycle`, `ServerStatusMachine`

| variable | code |
|---|---|
| `row`, `nic`, `root` | the `server` table (deleted_at, status), deleted_at of its `network_interface`, and the `volume` row of its root volume (deleted_at, server_id set or not) |
| `nova`, `port`, `disk` | the server as Nova has it (status, and the task it works on), its port in Neutron, its root volume in Cinder |
| `request` | the suspended coroutines, background tasks included: poll counter, last status polled, the status that was loaded, the undo tasks; `clean` is history |
| `blurred`, `unsure` | history: the servers that a failure has hit; those a poll loop has given up on, or on which two starts or stops have crossed |

A creation goes `create_port`, `create_nova`, `insert` (the commit), or on to
`rollback`, and its background task `build_poll`, `build_load`, `build_save`.  Start and
stop call Nova and go on the same way as tasks.  A deletion calls Nova and then runs
its two tasks, in order: `remove_load`, `remove_ports` (the gather), `remove_save`, then
`gone_load`, `gone_poll`, `gone_save` in a unit of work of its own, then `root_load`,
`root_poll`, `root_save` for the volume that the answer of delete_server names.  A step
that raises ends the queue.

Nova is modelled where the code leans on it: it takes a start of a stopped server and
a stop of a running or failed one when no other task runs, a deletion always; it
completes what it was asked, or, with the fault `nova`, drops it or ends in ERROR.  It
shows the old status while it works.  A server changes only when it was asked to.

`ServerStatusMachine` is what the methods of `common/domain/server/entity.py` allow the
status to do.  The code writes the status minutes after the check that allowed it and
without a version; that the machine is kept anyway is the refinement `StatusMoves`.

### `FloatingIps`

| variable | code |
|---|---|
| `row`, `nic` | the `floating_ip` table (deleted_at, network_interface_id), deleted_at of `network_interface` |
| `neutron`, `port` | the floating IPs of Neutron, each with the port it is bound to, and the ports |
| `request` | the suspended coroutines: what each is about, the interface its entity was loaded with, the undo task |
| `blurred`, `crossed` | history: floating IPs left half changed by a failure; those where two requests in flight met |

A creation goes `create_ip`, `insert`; a deletion `delete_ip`, `soft_delete`; an attachment
`bind`, `save_bound`; a detachment `unbind`, `save_unbound`; the removal of a network
interface with its server `delete_port`, `save_removed`.  Attachments, detachments and
creations may end at `rollback`.  Neutron moves a floating IP that is bound elsewhere,
refuses a port that has another one, and unbinds that of a port it deletes.  The status
column is always written with network_interface_id and is left out.  So is what
SQLAlchemy may do to a second row on an attachment, as the relationship is one-to-one:
set its network_interface_id to NULL when it names the same interface.  Two rows name one
interface only where a failure or a crossing has been, which the properties except.

### `Tokens`

Integer time.  `system` is the token in the global variable of
`system_keystone_token_manager.py`, `due` and `jobs` the scheduler's next run and the
runs that await Keystone (`max_instances` 1, a run that is due meanwhile is dropped),
`login` the access token of a client with the Keystone token in it, `request` the
requests in which a Keystone token is used.  `Tick` lets time pass as long as nothing
is due and no refresh has run into its timeout.  A token is known by its expiry.  The
access token ends `Buffer` before the Keystone token, or after `Duration`.

## 4. Runs

| run | instance | properties | what it shows |
|---|---|---|---|
| `volume_concurrent` | 1 volume, 2 servers, 2 requests at a time, 1 poll, faults | `IndInv`, `DeletedVolumeIsGone`, `DeletedServerIsGone`, `AttachmentWasAccepted`, `SoftDeleteIsFinal` | rows that say *deleted* are right about OpenStack, whatever overlaps or fails; a refused, failed or forgotten attach leaves no server_id; no stale commit revives a row |
| `volume_apart` | a data volume, a root volume, 2 servers, 2 requests at a time about different volumes and servers, 2 polls, sizes 1 and 2, faults | `InUseHasServer`, `DeletedServerKeepsAtMostHalf`, `LiveServerHasLiveVolumes`, `ResizeIsReal` | what attach, detach, resize and the deletions leave in the rows as long as nothing works on the same ones, along any sequence of requests |
| `volume_liveness` | 1 volume, 1 server, 2 requests at a time, 2 polls | `CreationResolves`, `RequestsReturn` | every request returns and no volume stays CREATING, even if Cinder and Nova never finish anything |
| `scope_calls` | 2 coroutines, depth 2, three nested calls per body, 2 writes, 2 connections | `CallsAreAtomic`, `ScopeInv`, `PoolConserved`, `CallsEnd` | bodies like detach and one call longer: the scope implements `AtomicCalls` (all or nothing up to the second call of a body, parts after it); two sessions, an exhausted pool, and still no leak and no endless wait |
| `group_races` | 1 group, 1 interface, 2 names, 1 rule, 2 requests at a time, 2 tries | `GroupsInv`, `LinkedGroupIsLive`, `DeletedGroupIsGone`, `LoneUpdateIsDone`, `RequestsEnd` | updates, deletions and server requests overlap on a group: a group that a port uses stays, an update that is alone knows how to go on and how to go back, retries and rollbacks end |
| `group_alone` | the same with 2 rules, 1 request at a time, every fault | `LoneFailureIsUndone` | an update that fails, alone on its group, leaves the old name and rules |
| `detach_status` | 1 request | `DetachEndsAvailable` violated | see 6 |
| `server_volumes` | a data and a root volume, 1 request | `DeletedServerHasNoVolumes` violated | see 6 |
| `account_members` | 1 project, 2 users, 3 memberships, 2 requests at a time, every fault | `IndInv`, `NamesAgree`, `RolesHaveRows`, `IdentitiesHaveRows`, `DeletedUserIsGone` | assignments, removals, sign-ups and deletions overlap and fail: no role without a row, no user in Keystone without an account, none that is marked deleted; renames keep row and Keystone together |
| `server_races` | 1 server, 2 requests at a time, 2 polls, every fault | `ServersInv`, `DeletedServerLeavesNoPort`, `NothingIsOrphaned`, `QuietRowsAgree`, `StatusMoves`, `LoneDeletionLeavesNothing`, `BuildResolves` | from creation to deletion with starts and stops: rows marked deleted are right about Nova and Neutron, a failed creation leaves nothing, the row of a server nobody works on is right about Nova because no change is forgotten, the status keeps to the status machine, a root disk has its row or the request that writes it, no server stays BUILD |
| `address_races` | 2 floating IPs, 2 interfaces, 2 requests at a time, every fault | `IndInv`, `DeletedIpIsGone`, `NoOrphanIp`, `QuietIpAgrees` | the rows of floating IPs and Neutron agree unless a failure or a crossing, which the history names, has been there |
| `tokens_expire` | 1 client, 1 request, `Interval` 1, `Latency` 2, `Lifetime` 5, `Buffer` 1, `Duration` 3, clock to 11 | `SystemTokenIsAlive`, `TokenOutlivesRequest`, `SystemTokenNeverGoesBack` | the poll loops have a token that is alive while refreshes succeed, an accepted request ends before its Keystone token does |

Bounds.  Requests are slots: each serves any number of requests in turn, so "two
at a time" bounds overlap, not length.  Rows interact only through the requests
that work on them; a request works on one volume and one server (delete_server on
all volumes of one server), so one contested volume with two servers, and
separately a data and a root volume, show every pair of conflicting steps.
`MaxPolls` 1 or 2 reaches the first, a middle (2) and the last attempt; more
attempts repeat the middle one.  Sizes up to 2 let a resize succeed, fail and be
refused.  The pool of 2 is exhausted by two coroutines with one session each, before either has
its second: the case a larger pool reaches with more coroutines.  Calls two deep
are the deepest of the code (a body and the decorated calls it makes), and three of
them in a body are one more than detach makes.  In
`volume_liveness` delete_server is not called: its two poll loops are the loop of
`PollUntilVolumeIsGone` and its twin, whose end the safety runs fire.  Deadlock
checking is off where primary keys and servers get used up.

Two rules are enough for a deletion and an addition in one update, and for the loop
variable to matter; two tries for a first, a last and a failing retry (the code has
three; the middle one is like the first).  `Quota` bounds the POSTs of rules and is met as
a refusal.  `group_races` has one group and no faults so that its two requests can
be followed through liveness; the faults are those of `group_alone`.

In `account_members` three memberships
give the user that is there its row, and two requests a row each; both users can
be removed, assigned again and deleted.  `Accounts` states safety only.

Servers share nothing, so `server_races` has one; with two requests any two of creation,
finalization, start, stop and deletion overlap, a third only waits like the second.
Two floating IPs are needed for a port that already has one, two interfaces for one
that moves.  `tokens_expire` has the tightest clock that `RefreshInTime` allows
(1 + 2 * 2 = 5): a refresh may be so slow that two runs are dropped; the clock runs past
two lifetimes.

Fairness.  `FairSpec` of the other modules has weak fairness of a coroutine's own steps
only: the event loop resumes every coroutine whose await is over, and every await
ends (HTTP calls and pool waits have timeouts).  Nothing is assumed of clients,
Cinder or Nova.  `CreationResolves` is checked without faults: after a restart
nothing resumes the poller and a volume may stay CREATING.  `BuildResolves` is checked
with every fault, and excepts the servers in `blurred`: those are the ones whose task
has died.  `Tokens` and `FloatingIps` state safety only; in `Tokens` the clock does not
pass what is due, which is the fairness of its scheduler.

Three properties of `volume_apart` are false when requests meet on a row, which is why
`SpecApart` keeps them apart (`NextApart` admits a request only if `Apart` holds with
it: no volume and no server is in two requests at a time; volumes alone or servers alone
are not enough).  Under `Spec`, TLC shows that `DeletedServerKeepsAtMostHalf` fails (an
attach that Nova accepted before the deletion and that is finalized after
`_remove_server_resources` adds its server_id to those the deletion left), that
`LiveServerHasLiveVolumes` fails (an attach binds the volume between the checks of
delete_volume and its end), and that `InUseHasServer` fails:
`_remove_server_resources` loads the volume, the volume is
detached and attached to another server, and the commit then clears the server_id of
the new server and leaves the status IN_USE, which it has no reason to write.
`ResizeIsReal` needs no such hypothesis, and its theorem has none.  Replacing
`SpecApart` by `Spec` in the `.cfg` shows each trace (for the last one, with one volume
and without faults).

The deletion of a server releases its volumes in a loop that steps over every second
one, whichever comes first: the select has no order (`EverySecond`).  With two volumes
one is released and the other is left, and which of the two is the root volume is
open; the proof is about any number.  `DeletedServerKeepsAtMostHalf` says what the loop
does achieve, and `LiveServerHasLiveVolumes` that a root volume it steps over is
soft-deleted with the id of a deleted server, never of a live one.

`LinkedGroupIsLive` is about interfaces that have a port.  While a server is being
removed its port goes first and its links at the commit; a deletion of the group in
between succeeds, and if that commit fails the links to it stay.  `LoneUpdateIsDone`
and `LoneFailureIsUndone` are about updates that had the group to themselves, which
`clean` records: of two updates that overlap, one of them failing, the rollback can
write its old name over the new one of the other.

`NamesAgree` and `RolesHaveRows` leave out what is `blurred`: where an answer was
lost the request has no undo task, and an undo that runs while another request works
on the project may undo more than its own.  `RolesHaveRows` has no converse.  Two
assignments of one user can both write a row, and the first removal then takes the
role away while the second row stays (its removal is refused by Keystone); a removal
that read its row before another removal and a new assignment takes the role of that
assignment; and an assignment that overlaps a deletion of its user leaves a row of a
deleted user.  The code has nothing that would prevent these.

The history variables of `ServerLifecycle` and `FloatingIps` say where a property does
not hold, and a property is worth what they leave to it.  `blurred` has what a failure
hit that the code does not undo: a lost answer, an undo that failed, a commit that
failed after OpenStack was changed, a restart; not a refused call or a commit whose
compensation runs.  `unsure` has the servers whose task ran out of attempts or was
overtaken by another start or stop.  `crossed` has the floating IPs on which two
requests met in flight: nothing in the code orders their calls as their commits.
Everything else is claimed, so that `QuietRowsAgree` and `QuietIpAgrees` speak of all
requests that overlap without meeting, of every refusal and of every undo that ran.

## 5. Theorems

Proved by TLAPS for every value of the constants that satisfies the named
assumptions (`OrmAssumption`, `LifecycleAssumption`, `ScopeAssumption`,
`GroupsAssumption`, `AccountsAssumption`, `ServersAssumption`, `IpsAssumption`,
`TokensAssumption` with `RefreshInTime`), in particular for any number of volumes,
servers, groups, interfaces, projects, users, requests, coroutines, polls and tries.

- `VolumeLifecycle_proofs`: `Invariance` (`Spec => []IndInv`) and from it
  `TypeCorrect`, `DeletedVolumeSafe`, `DeletedServerSafe`, `AttachmentSafe`;
  `SoftDeleteFinal` (`Spec => SoftDeleteIsFinal`); `ResizeSafe`
  (`Spec => ResizeIsReal`); `ApartInvariance` (`SpecApart => []ApartInv`) and from it
  `InUseHasServerSafe`, `DeletedServerKeepsAtMostHalfSafe`, `LiveServerHasLiveVolumesSafe`.
- `TransactionScope_proofs`: `ScopeInvariance` and from it `ScopeTypeCorrect`,
  `NoStaleSession`, `NoConnectionLeak`; `OutermostCallsAreAtomic`
  (`Spec => CallsAreAtomic`, the refinement, for any number of calls in a body).
- `SecurityGroups_proofs`: `Invariance` and from it `TypeCorrect`,
  `DeletedGroupSafe`, `LinkedGroupSafe`; `GroupsInvariance` (`Spec => []GroupsInv`) and
  from it `LoneUpdateSafe`, `LoneFailureSafe`.
- `Accounts_proofs`: `Invariance` and from it `TypeCorrect`, `NamesSafe`,
  `NamesDistinctSafe`, `RolesSafe`, `IdentitiesSafe`, `DeletedUserSafe`.
- `ServerLifecycle_proofs`: `Invariance` and from it `DeletedServerSafe`,
  `NoOrphanSafe`; `StatusIsMachine` (`Spec => StatusMoves`, the refinement).
- `ServerRows_proofs`, on top of it: `RowsInvariance` (`ServersInv`, that is `IndInv`,
  `ChangesAreTold` and `DeletionInv`) and from it `QuietRowsSafe`, `LoneDeletionSafe`.
- `FloatingIps_proofs`: `Invariance` and from it `DeletedIpSafe`, `NoOrphanSafe`,
  `QuietIpSafe`.
- `Tokens_proofs`: `Invariance` and from it `SystemTokenLives`, `RequestsAreCovered`;
  `SystemTokenAdvances` (`Spec => SystemTokenNeverGoesBack`).

The argument for `IndInv`.  `DeletedVolumeIsGone` is not inductive: the commit of a
deletion writes what a poll saw some awaits earlier.  So the invariant says what a
suspended request knows (`TargetIsKnown`, `StatusIsObserved`, `DeletionIsObserved`,
`AttachmentInFlight`) and why it stays true while others run: a volume or server
that is GONE stays so and has no host, `accepted` only grows, and rows, once
inserted, stay (`InsertIsFirst`, which also says that one request at most inserts a
given key).  The proof follows that shape: the facts about the rows and the outside
world, what each request knows of them, and a lemma that knowledge survives any
step that only lets those facts grow (`KnownIsStable`).  A step of a request then
has to show its own new knowledge only (`RequestStep` and its special cases
`QuietStep`, `FinishStep`, `SaveStep`), with one lemma per action.

The argument for requests that are apart.  An entity is loaded at one await and
flushed at a later one, so what an operation promises of a row depends on the row
being, at the commit, what the checks saw.  `LoadedIsStored` says that it is: the
entities a request holds are the rows.  A deletion of a server holds its volumes as
well, which are not in `request[r].vol`; that another request cannot be at work on one
of them follows from `ServerOfItsVolume`, by which the volume of a request is free or on
the server of that request, and servers are apart.  A resize is the exception: it is about no
server, and may overlap the deletion of the server its volume is on; it writes nothing
(section 6), so it is left out of `LoadedIsStored`.  `VolumesOfItsServer` carries
`DeletedServerKeepsAtMostHalf` from the loop, which decides what the session will write,
over its commit and the polls to the soft delete: what the loop has not reached, and
later what is on the server, is at most half of the volumes.  `NextApart` lets a request arrive
only if `Apart` holds with it, and restricts nothing else: faults, restarts and the
interleaving of the rest stay, and no step of a request under way can bring two
together (`ResumeKeepsTargets`).

The argument for a resize.  Cinder's size never passes the size it was last asked
for, and only grows (`SizesGrow`), so that the size a poll has seen is still there, or
more, when the request returns, whoever else has resized the volume meanwhile.

The argument for the scope.  `ScopeInv` adds to the two properties that a call runs
in a session opened at or below it, that a waiting coroutine waits for the
session it would use next, and that no exception is outside of any call.
`OneSessionInv`, for calls that are not split, says that the first session of
the stack is the only one: the context variable is empty only when every call on
the stack has already made its one call.  The writes of such an outermost call are
the unflushed changes of session 1, so that its end commits all of them or none.
`DirtyIsMade`, for all calls, says that every session holds writes of its own
outermost call only, so that a split call commits parts of its own.  A call that is split
stays so until its end (`SplitStep`), and each action maps to an action of
`AtomicCalls` or a stutter (`StepKeepsPromise`).

The argument for the groups.  Nothing in the code keeps `LinkedGroupIsLive` by
itself: delete_security_group looks at the links, create_server at the groups, and
both call Neutron afterwards.  What keeps it is Neutron, which has every group of
its ports (`PortsHaveGroups`), with the order of the writes: links are written after
the port is made and cleared after it is deleted (`LinksFollowPorts`), and a row is
marked deleted after the group is (`SoftDeletesGone`).  A creation works on a key
that nobody else has (`CreatesAlone`, `MakesPortAlone`), so that a group that is gone
is never made again.  The proof has, as that of the volumes, a part on the tables
(`Tables`) and a part on the requests (`Requests`); `RequestsKept` says that what the
other requests rely on survives a step that only touches the group and the interface
of its own request, and one lemma per action shows that it does no more.

The argument for updates that have their group to themselves.  `LoneUpdateIsDone`
and `LoneFailureIsUndone` speak of the last step of an update, and what it leaves was
made by the steps before it.  `LoneUpdatesKnow` says at each await how far the update
is: the name in Neutron is the old one up to the rename and the new one after it; what is
left of the old rules is what was asked for, what is doomed and, after a refused
deletion, what that left; what is to be added is what is asked for and not there
(`OnItsWay`).  At every await the undo tasks can bring back the name and each old rule
that is no longer there, and none of them takes one away: the deletion of an added rule names a rule that was
not among the old ones (`Restorable`).  Running the latest task keeps that, whatever
the list is.  The old rules come back with new ids; the added ones need not go
(section 6).  None of this survives a second request on the group, so the proof shows first that
a step of a request touches its own group only (`TablesLocal`, `RequestsLocal`) and that
an update stays clean only while it is alone (`CleanIsAlone`), and then what the update's
own steps do, one lemma each.

The argument for the accounts.  `NamesAgree` needs that a rename that commits, or
undoes, knows what the others did: one request at a time holds a row from its flush
on (`OneHoldsName`), has loaded the name that is there (`LoadedIsStored`), and Keystone
has the name it asked for.  An undo comes after the locks are gone, so it is trusted
only if nobody else was on the project meanwhile (`CleanIsAlone`).  `NamesAreDistinct`
follows from `NamesAgree` and from Keystone, which keeps its names apart
(`KeystoneNamesAreDistinct`).  `RolesHaveRows` is not inductive: a removal that is
about to commit deletes a row that may be the one that vouches for a role.  The
invariant asks for a row that no removal has got that far with (`RolesAreKept`); a
removal has revoked the role by then, an assignment that grants it again has a row or
an undo task of its own, and the undo of a removal finds its row as it was, because it
was alone (`LinksAreTheirs`).  A deletion of a user removes rows only after Keystone has
dropped the user and its roles (`SoftDeletesGone`, `RolesHaveIdentities`).  The proof
splits the invariant into what holds of one request (`Each`), of two (`Pairs`), of the
tables (`Tables`) and of both (`Kept`); lemmas for the kinds of steps (`StartKeeps`,
`MoveKeeps`, `EndKeeps`, `RolesKeep`, `NameKeeps`, `IdentityGoes`, `CommitKeeps`) leave
each action its own part only.

The argument for the servers.  A background task writes minutes after the checks of
the request that queued it, and what it writes must still fit.  A request that makes
its server or undoes it has the server to itself (`MakersAreAlone`: no row that anybody
could find), so it knows exactly what is in Nova and Neutron (`MakerKnows`), up to an
undo that failed.  Any other request knows what only grows: a row that is there stays,
a NIC row stays deleted, a port and a server that are gone stay gone (`UserKnows`,
`Grows`).  Of the status it knows which values the row may have taken since it was
checked (`StatusAllows`): a start that passed its check sees ACTIVE or SHUTOFF whoever
else commits, because ERROR is written by the finalization only, the one task that
works on a BUILD row.  That is why a stale commit is a move of the status machine, and
why `StatusIsMachine` follows from the invariant alone.  `DeletedServerLeavesNoPort` and
`NothingIsOrphaned` are parts of it (`ServersFit`).  `StepKeeps` says what a step of one
request on one server has to show; `QuietKeeps`, `UserKeeps`, `MakerKeeps` and
`NovaKeeps` leave each action its own part.

The argument for the rows of servers.  `QuietRowsAgree` speaks of servers nobody works
on; `ChangesAreTold` says why they are right when the last request leaves.  At most one
request is about to bring the row of a server up to date: a task finalizes a creation
while the row says BUILD, which starts and stops refuse, and a start or stop that
meets another is what `unsure` leaves out.  What it waits for is what Nova is doing or
has done (`TellsRight`), a deletion aside; and when there is none, row and Nova agree
already.  So a start or stop that Nova takes finds the row right, although the row was
checked some awaits earlier.  A deletion is never the last to leave a server that
is still live: who finds the port already gone and raises leaves one that has the NIC
row to delete or is past it (`RemovalGoesOn`), and that one ends with the row deleted, or
with a failure or a timeout.  `QuietTold`, `StepTells` and `RemovalTold` say what a step
has to show.

The argument for a deletion alone on its server.  It ends in the task that waits for
the root volume, a second background task that got the id of the volume with the
answer to the client.  `DeletionKnows` says that it was not too early: the server was past its creation
when the answer was made, so a root disk had its row by then, and the answer
named it.  That needs `DisksFit`: Nova makes the disk when a server becomes ACTIVE, and
from then on its row is there or the request that finalizes the creation is on its way
to write it, which cannot be, as the deletion is alone (`CleanIsAlone`).

The argument for the floating IPs.  `QuietIpAgrees` is about floating IPs nobody works
on; the invariant says what a request in flight knows of the one it works on
(`FlightsAreKnown`: an attachment that is to be committed or undone has bound it, a
detachment has released it and can bind it again, a removal has found it as its row
says) as long as it is to be trusted, that is neither blurred nor crossed.  That
survives the steps of others because in-flight requests on trusted floating IPs are
apart, in the floating IP and in the interface (`FlightsAreApart`), and because a removal
knows the floating IP that Neutron will unbind with the port (`RemovalsKnow`).  The
proof has a part about the tables (`Base`) and one about what is known (`Trust`);
`BaseStep` and `TrustStep` say what a step on one floating IP has to show, `EndStep`,
`TakenCall` and `StartStep` specialise them, and each action has one lemma.

The argument for the tokens.  `SystemTokenIsAlive` is not inductive: it says nothing of
how long the token still lives.  `SystemLasts` does: until the refresh that is running
has run into its timeout or, when none runs, until the next one must have; and
`RefreshInTime` gives a fresh token that much time.  `Interval + 2 * Latency`: the
answer may come `Latency` after the token was issued, the next run starts up to
`Interval` later, and takes up to `Latency`.  One refresh at a time (`OneRefresh`)
is why the tokens come in order.

Only model-checked: liveness (`BuildResolves`, `CreationResolves`, `RequestsReturn`, `CallsEnd`,
`RequestsEnd`; fairness and ENABLED are out of the prover's reach).  Every other property
of the passing runs is a theorem; the run shows it on its instance and, with its
mutant, that a plausible slip of the code would break it there.

## 6. Disagreements with the documents

Two have a run, which TLC refutes with a trace of code steps.

- `detach_status`.  `docs/sequence_diagram_resource.md:479` says a successful detach
  makes the volume AVAILABLE.  The row ends DETACHING: `_initiate_volume_detachment`
  joins the session of `detach_volume_from_server`, its wrapper clears the context
  variable (`database.py:74`), `_wait_until_volume_detachment_and_finalize` opens and
  commits a session of its own, and the first session then commits the DETACHING of
  `prepare_for_detachment`.  server_id is NULL as it should be.
- `server_volumes`.  `docs/sequence_diagram_resource.md:213` says that the additional
  volumes of a deleted server are detached.  `_remove_server_resources` iterates
  `server.volumes`, the live collection of the relationship, and `detach_from_server`
  takes each volume out of it (`back_populates` on both sides): the loop steps over
  every second volume.  One deletion alone, without a fault, leaves a data volume IN_USE on
  the deleted server; it can neither be attached nor deleted.  When it is the
  root volume that is stepped over, it is marked deleted with its server_id.

Two more are stated in the modules; put in the place of the property of
`detach_status.cfg` and of `group_alone.cfg` they show the trace.

- `ResizeIsPersisted` of `VolumeLifecycle`.  `docs/sequence_diagram_resource.md:780` says
  the database gets the new size.  `_resize_and_persist_volume` changes an entity whose
  session is closed; its commit writes nothing.  The answer to the client, built from
  that entity, shows the new size.
- `LoneFailureLeavesNoRule` of `SecurityGroups`.  `docs/sequence_diagram_resource.md:1099`
  says compensating transactions are issued when an update of a security group fails.
  The undo of the created rules is one lambda per rule, all closing over the loop
  variable `rule` (`security_group/service.py:258`): each deletes the last one and the
  others stay.

Also seen, without a run of its own: the docstring of
`sync_creating_volume_until_available` announces a TimeoutError that is never raised
(the last poll marks the volume ERROR), and delete_server checks no status although
`docs/sequence_diagram_resource.md:210` and the route's 409 say it does.  A
StaleDataError at the end of delete_security_group, after Neutron deleted the group,
leaves a live row without a group.  When the answer of one parallel rule deletion is
lost, deletions that end after the rollback has started are not undone.
`docs/sequence_diagram_account.md:349` has the last user stay: two users that delete
themselves at once each count two, and both go.  Two sign-ups with one login id both
find it free, and afterwards neither can log in (find_by_account_id raises).  When the
commit of delete_user fails, or the answer of Keystone is lost, the row stays live
without a user in Keystone and can be deleted no more.  The same happens to a
floating IP whose commit fails after Neutron deleted it, and to a server whose port is
gone when the commit of `_remove_server_resources` fails: every later deletion meets a
404 and ends there.  A deletion that is asked for again after Nova has finished the first
one is refused.  A stop of a failed server is taken by Nova and leaves the row ERROR,
because the poll loop sees ERROR and gives up.  A stop that was checked on the row
before another request started the server again is taken too, and row and Nova may then
disagree.  When a server is deleted while its creation is finalized, the root volume's
row may be inserted after the deletion has looked for it: it stays live for ever.  Two
attachments of one floating IP both find it free, and the last call to Neutron need not
be the last commit; the undo of the one that fails unbinds that of the other.

## 7. Not modelled

Of the modelled services: listing and reading; the name and description of a resource,
with update_volume_info, update_server_info and the uniqueness of names of volumes and
servers, which two requests can both find free; permissions and projects of resources;
display names of users; the VNC console.  A server has one port and one root volume in
`ServerLifecycle`; its security groups are in `SecurityGroups`, its floating IP in
`FloatingIps` and its data volumes in `VolumeLifecycle`, each with the part of the
creation and the deletion of a server that touches them.  Schemas, exceptions and
request formats hold no state, and `batch_server` is an empty package.
