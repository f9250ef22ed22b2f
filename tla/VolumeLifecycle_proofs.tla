---------------------- MODULE VolumeLifecycle_proofs ----------------------
(***************************************************************************)
(* Proofs about VolumeLifecycle, for any number of volumes, servers and    *)
(* concurrent requests, any poll bound and any failures.                   *)
(***************************************************************************)
EXTENDS VolumeLifecycle, FiniteSetTheorems, TLAPS

(***************************************************************************)
(* Entities and rows.                                                      *)
(***************************************************************************)

\* A flush of a well-formed entity leaves a well-formed row.
LEMMA FlushType ==
  ASSUME NEW stored \in Row, NEW loaded \in Row, NEW entity \in Row
  PROVE  Flush(stored, loaded, entity) \in Row
  BY DEF Flush, Column, Row

\* The entity's methods keep it well-formed.
LEMMA EntityType ==
  ASSUME NEW e \in Row, NEW s \in Server \cup {NoServer},
         NEW status \in VolumeStatus
  PROVE  /\ UpdateStatus(e, status) \in Row
         /\ PrepareForAttachment(e) \in Row
         /\ PrepareForDetachment(e) \in Row
         /\ CompleteCreation(e) \in Row
         /\ FailCreation(e) \in Row
         /\ FailAttachment(e) \in Row
         /\ AttachToServer(e, s) \in Row
         /\ DetachFromServer(e) \in Row
         /\ SoftDelete(e) \in Row
  BY DEF Row, VolumeStatus, UpdateStatus, PrepareForAttachment,
         PrepareForDetachment, CompleteCreation, FailCreation, FailAttachment,
         AttachToServer, DetachFromServer, SoftDelete

\* The rows the code creates, and the placeholder for no row, are well-formed.
LEMMA NewType ==
  /\ AbsentRow \in Row
  /\ \A size \in 0..MaxSize : New(size) \in Row
  BY OrmAssumption DEF AbsentRow, New, Row, VolumeStatus

(***************************************************************************)
(* The control of a request.                                               *)
(***************************************************************************)

\* A slot whose request has ended is well-formed.
LEMMA IdleType == Idle \in RequestState
  BY NewType, OrmAssumption, LifecycleAssumption
  DEF Idle, RequestState, Location, NothingLoaded

\* The states a request moves on to.
Waiting(q, label) == [q EXCEPT !.at = label]

Renewed(q, label) ==
  [q EXCEPT !.at = label, !.polls = 0, !.seen = "NOTHING", !.loaded = NothingLoaded]

Told(q, status, label) == [q EXCEPT !.at = label, !.seen = status]

Holding(q, vs, label) == [q EXCEPT !.at = label, !.loaded = Snapshot(vs)]

Started(v, s, size, vs, label) ==
  [Idle EXCEPT !.at = label, !.vol = v, !.srv = s, !.size = size,
               !.loaded = Snapshot(vs)]

PolledAgain(q) == [q EXCEPT !.polls = q.polls + 1]

MovesTo(r, new) == new \in RequestState /\ request' = [request EXCEPT ![r] = new]

\* What a session holds after a select is well-formed.
LEMMA SnapshotType ==
  ASSUME TypeOK, NEW vs \in SUBSET Volume
  PROVE  Snapshot(vs) \in [Volume -> Row]
  BY NewType DEF TypeOK, Snapshot

\* Going on to the next await.
LEMMA AwaitMoves ==
  ASSUME TypeOK, NEW r \in Request, NEW label \in Location, Await(r, label)
  PROVE  MovesTo(r, Waiting(request[r], label))
<1>1. request[r] \in RequestState
  BY DEF TypeOK
<1>2. Waiting(request[r], label) \in RequestState
  BY <1>1 DEF RequestState, Waiting
<1>3. QED
  BY <1>2 DEF Await, Waiting, MovesTo

\* Going on after a commit.
LEMMA ContinueMoves ==
  ASSUME TypeOK, NEW r \in Request, NEW label \in Location, Continue(r, label)
  PROVE  MovesTo(r, Renewed(request[r], label))
<1>1. request[r] \in RequestState
  BY DEF TypeOK
<1>2. 0 \in 0..(MaxPolls - 1) /\ NothingLoaded \in [Volume -> Row]
  BY NewType, LifecycleAssumption DEF NothingLoaded
<1>3. Renewed(request[r], label) \in RequestState
  BY <1>1, <1>2 DEF RequestState, Renewed
<1>4. request' = [request EXCEPT ![r] = Renewed(request[r], label)]
  BY DEF Continue, Renewed, TypeOK, RequestState
<1>5. QED
  BY <1>3, <1>4 DEF MovesTo

\* Leaving a poll loop with a status.
LEMMA ObserveMoves ==
  ASSUME TypeOK, NEW r \in Request, NEW label \in Location,
         NEW status \in VolumeStatus \cup {"TIMEOUT"}, Observe(r, status, label)
  PROVE  MovesTo(r, Told(request[r], status, label))
<1>1. request[r] \in RequestState
  BY DEF TypeOK
<1>2. Told(request[r], status, label) \in RequestState
  BY <1>1 DEF RequestState, Told
<1>3. request' = [request EXCEPT ![r] = Told(request[r], status, label)]
  BY DEF Observe, Told, TypeOK, RequestState
<1>4. QED
  BY <1>2, <1>3 DEF MovesTo

\* Going on with the rows a select returned.
LEMMA LoadMoves ==
  ASSUME TypeOK, NEW r \in Request, NEW label \in Location, NEW vs \in SUBSET Volume,
         Load(r, vs, label)
  PROVE  MovesTo(r, Holding(request[r], vs, label))
<1>1. request[r] \in RequestState
  BY DEF TypeOK
<1>2. Holding(request[r], vs, label) \in RequestState
  BY <1>1, SnapshotType DEF RequestState, Holding
<1>3. request' = [request EXCEPT ![r] = Holding(request[r], vs, label)]
  BY DEF Load, Holding, TypeOK, RequestState
<1>4. QED
  BY <1>2, <1>3 DEF MovesTo

\* The first state of a request.
LEMMA StartMoves ==
  ASSUME TypeOK, NEW r \in Request, NEW label \in Location,
         NEW v \in Volume \cup {NoVolume}, NEW s \in Server \cup {NoServer},
         NEW size \in 0..MaxSize, NEW vs \in SUBSET Volume,
         Start(r, v, s, size, vs, label)
  PROVE  MovesTo(r, Started(v, s, size, vs, label))
<1>1. Started(v, s, size, vs, label) \in RequestState
  BY SnapshotType, IdleType DEF RequestState, Started
<1>2. QED
  BY <1>1 DEF Start, Started, MovesTo

\* One more turn of a poll loop; the counter stays below MaxPolls.
LEMMA PollAgainMoves ==
  ASSUME TypeOK, NEW r \in Request, PollAgain(r)
  PROVE  MovesTo(r, PolledAgain(request[r]))
<1>1. request[r] \in RequestState
  BY DEF TypeOK
<1>2. request[r].polls + 1 \in 0..(MaxPolls - 1)
  BY <1>1, LifecycleAssumption DEF PollAgain, LastPoll, RequestState
<1>3. PolledAgain(request[r]) \in RequestState
  BY <1>1, <1>2 DEF RequestState, PolledAgain
<1>4. QED
  BY <1>3 DEF PollAgain, PolledAgain, MovesTo

(***************************************************************************)
(* The inductive invariant, taken apart: what is true of the data, and     *)
(* what each request knows of them.                                        *)
(***************************************************************************)

Attaching == {"save_attaching", "attach_poll", "attach_load", "attach_save"}

Facts(rw, sr, ci, nv, ac) ==
  /\ \A v \in Volume :
       /\ ci[v].status = "GONE" => ci[v].host = NoServer
       /\ rw[v].life = "deleted" => ci[v].status = "GONE"
       /\ rw[v].life = "absent" => rw[v].server = NoServer
       /\ v \notin RootVolume /\ rw[v].server # NoServer => <<v, rw[v].server>> \in ac
  /\ \A s \in Server : sr[s] = "deleted" => nv[s] = "GONE"

Known(q, rw, ci, nv, ac) ==
  /\ q.at \notin ServerDeletion \cup {"idle"} => q.vol \in Volume
  /\ q.at \in ServerDeletion \cup {"nova_attach"} => q.srv \in Server
  /\ q.at \in {"attach_load", "attach_save"} => q.seen # "NOTHING"
  /\ q.at \in {"detach_load", "detach_save"} => q.seen \in VolumeStatus
  /\ q.at \in {"delete_save", "root_save"} => ci[q.vol].status = "GONE"
  /\ q.at = "gone_save" => nv[q.srv] = "GONE"
  /\ q.at \in Attaching => <<q.vol, q.srv>> \in ac
  /\ q.at = "insert" => rw[q.vol].life = "absent" /\ ci[q.vol].status # "UNCREATED"
  /\ q.at \notin {"idle", "insert"} /\ q.vol \in Volume => rw[q.vol].life # "absent"
  /\ \A w \in Volume : q.loaded[w] # AbsentRow => rw[w].life # "absent"

OneInsert(rq) ==
  \A r, q \in Request :
    rq[r].at = "insert" /\ rq[q].at = "insert" /\ rq[r].vol = rq[q].vol => r = q

\* IndInv is Facts of the data and Known of every request, and no two inserts of
\* one row.
LEMMA IndInvParts ==
  IndInv <=> /\ TypeOK
             /\ Facts(row, serverRow, cinder, nova, accepted)
             /\ \A r \in Request : Known(request[r], row, cinder, nova, accepted)
             /\ OneInsert(request)
  BY DEF IndInv, TypeOK, TargetIsKnown, StatusIsObserved, DeletionIsObserved,
         DeletedVolumeIsGone, DeletedServerIsGone, AttachmentInFlight,
         AttachmentWasAccepted, InsertIsFirst, Facts, Known, OneInsert, Attaching

\* The same of the next state.
LEMMA IndInvPartsPrimed ==
  IndInv' <=> /\ TypeOK'
              /\ Facts(row', serverRow', cinder', nova', accepted')
              /\ \A r \in Request : Known(request'[r], row', cinder', nova', accepted')
              /\ OneInsert(request')
  BY DEF IndInv, TypeOK, TargetIsKnown, StatusIsObserved, DeletionIsObserved,
         DeletedVolumeIsGone, DeletedServerIsGone, AttachmentInFlight,
         AttachmentWasAccepted, InsertIsFirst, Facts, Known, OneInsert, Attaching

(***************************************************************************)
(* What every step leaves true for the requests that do not take it.       *)
(***************************************************************************)

Rely ==
  /\ \A v \in Volume :
       /\ cinder[v].status = "GONE" => cinder'[v].status = "GONE"
       /\ cinder[v].status # "UNCREATED" => cinder'[v].status # "UNCREATED"
       /\ row[v].life # "absent" => row'[v].life # "absent"
  /\ \A s \in Server : nova[s] = "GONE" => nova'[s] = "GONE"
  /\ accepted \subseteq accepted'

DataTyped ==
  /\ row' \in [Volume -> Row]
  /\ serverRow' \in [Server -> {"live", "deleted"}]
  /\ cinder' \in [Volume -> CinderVolume]
  /\ nova' \in [Server -> {"EXISTS", "DELETING", "GONE"}]
  /\ accepted' \subseteq Volume \X Server

\* What a request knows stays true while Rely holds of the steps of others.
LEMMA KnownIsStable ==
  ASSUME NEW q \in RequestState, Rely,
         Known(q, row, cinder, nova, accepted),
         q.at = "insert" => row'[q.vol].life = "absent"
  PROVE  Known(q, row', cinder', nova', accepted')
<1>1. q.at \in ServerDeletion => q.srv \in Server
  BY DEF Known
<1>2. q.at \notin ServerDeletion \cup {"idle"} => q.vol \in Volume
  BY DEF Known
<1>3. q.at \in {"delete_save", "root_save"} => cinder'[q.vol].status = "GONE"
  BY <1>2 DEF Known, Rely, ServerDeletion
<1>4. q.at = "gone_save" => nova'[q.srv] = "GONE"
  BY <1>1 DEF Known, Rely, ServerDeletion
<1>5. q.at = "insert" => cinder'[q.vol].status # "UNCREATED"
  BY <1>2 DEF Known, Rely, ServerDeletion
<1>6. QED
  BY <1>1, <1>2, <1>3, <1>4, <1>5 DEF Known, Rely

\* A step of request r that leaves it in the state `new`.
LEMMA RequestStep ==
  ASSUME IndInv, NEW r \in Request, NEW new, MovesTo(r, new),
         DataTyped, Rely,
         Facts(row', serverRow', cinder', nova', accepted'),
         Known(new, row', cinder', nova', accepted'),
         \A q \in Request \ {r} :
           request[q].at = "insert" =>
             /\ row'[request[q].vol].life = "absent"
             /\ new.at = "insert" => new.vol # request[q].vol
  PROVE  IndInv'
<1> USE DEF MovesTo
<1>1. TypeOK'
  BY IndInvParts DEF TypeOK, DataTyped
<1>2. ASSUME NEW q \in Request
      PROVE  Known(request'[q], row', cinder', nova', accepted')
  <2>1. CASE q = r
    BY <2>1, IndInvParts DEF TypeOK
  <2>2. CASE q # r
    <3>1. request'[q] = request[q] /\ request[q] \in RequestState
      BY <2>2, IndInvParts DEF TypeOK
    <3>2. Known(request[q], row, cinder, nova, accepted)
      BY IndInvParts
    <3>3. QED
      BY <2>2, <3>1, <3>2, KnownIsStable
  <2>3. QED
    BY <2>1, <2>2
<1>3. OneInsert(request')
  BY IndInvParts DEF TypeOK, OneInsert
<1>4. QED
  BY <1>1, <1>2, <1>3, IndInvPartsPrimed

\* A step that only moves request r on: it writes and calls nothing.
LEMMA QuietStep ==
  ASSUME IndInv, NEW r \in Request, NEW new, MovesTo(r, new),
         UNCHANGED <<row, serverRow, cinder, nova, accepted>>,
         Known(new, row, cinder, nova, accepted),
         new.at # "insert"
  PROVE  IndInv'
<1>1. DataTyped /\ Rely
  BY IndInvParts DEF TypeOK, DataTyped, Rely
<1>2. Facts(row', serverRow', cinder', nova', accepted')
  BY IndInvParts
<1>3. \A q \in Request \ {r} :
        request[q].at = "insert" => row'[request[q].vol].life = "absent"
  BY IndInvParts DEF Known
<1>4. QED
  BY <1>1, <1>2, <1>3, RequestStep

\* The request ends with a step that may have changed the data.
LEMMA FinishStep ==
  ASSUME IndInv, NEW r \in Request, Finish(r), DataTyped, Rely,
         Facts(row', serverRow', cinder', nova', accepted'),
         \A q \in Request \ {r} :
           request[q].at = "insert" => row'[request[q].vol].life = "absent"
  PROVE  IndInv'
<1>1. MovesTo(r, Idle)
  BY IdleType DEF Finish, MovesTo
<1>2. Known(Idle, row', cinder', nova', accepted') /\ Idle.at # "insert"
  BY DEF Known, Idle, Attaching, ServerDeletion, NothingLoaded
<1>3. QED
  BY <1>1, <1>2, RequestStep

\* The request ends and nothing else happens.
LEMMA QuietFinish ==
  ASSUME IndInv, NEW r \in Request, Finish(r),
         UNCHANGED <<row, serverRow, cinder, nova, accepted>>
  PROVE  IndInv'
<1>1. Known(Idle, row, cinder, nova, accepted)
  BY DEF Known, Idle, Attaching, ServerDeletion, NothingLoaded
<1>2. Idle.at # "insert"
  BY DEF Idle
<1>3. QED
  BY <1>1, <1>2, IdleType, QuietStep DEF Finish, MovesTo

\* The request polls again and nothing else happens.
LEMMA QuietPollAgain ==
  ASSUME IndInv, NEW r \in Request, PollAgain(r), request[r].at # "insert",
         UNCHANGED <<row, serverRow, cinder, nova, accepted>>
  PROVE  IndInv'
<1>1. MovesTo(r, PolledAgain(request[r]))
  BY IndInvParts, PollAgainMoves
<1>2. request[r] \in RequestState /\ Known(request[r], row, cinder, nova, accepted)
  BY IndInvParts DEF TypeOK
<1>3. Known(PolledAgain(request[r]), row, cinder, nova, accepted)
  BY <1>2 DEF Known, PolledAgain, RequestState
<1>4. PolledAgain(request[r]).at # "insert"
  BY <1>2 DEF PolledAgain, RequestState
<1>5. QED
  BY <1>1, <1>3, <1>4, QuietStep

\* One turn of a poll loop that leaves for `label` with any status.
LEMMA QuietPoll ==
  ASSUME IndInv, NEW r \in Request, NEW pending, NEW label \in Location,
         Poll(r, pending, label), request[r].at # "insert", label # "insert",
         \A status \in VolumeStatus \cup {"TIMEOUT"} :
           Known(Told(request[r], status, label), row, cinder, nova, accepted)
  PROVE  IndInv'
<1>1. ASSUME NEW status \in VolumeStatus \cup {"TIMEOUT"}, Observe(r, status, label),
             UNCHANGED <<row, serverRow, cinder, nova, accepted>>
      PROVE  IndInv'
  <2>1. MovesTo(r, Told(request[r], status, label))
    BY <1>1, IndInvParts, ObserveMoves
  <2>2. Told(request[r], status, label).at # "insert"
    BY IndInvParts DEF Told, RequestState, TypeOK
  <2>3. QED
    BY <1>1, <2>1, <2>2, QuietStep
<1>2. CinderKnows(r) => CinderStatusOf(r) \in VolumeStatus
  BY DEF CinderKnows
<1>3. QED
  BY <1>1, <1>2, QuietPollAgain, QuietFinish DEF Poll

(***************************************************************************)
(* POST /volumes and its background task.                                  *)
(***************************************************************************)

\* CreateVolume keeps the inductive invariant.
\* A fresh primary key: no other request is inserting it.
LEMMA CreateVolumeStep ==
  ASSUME IndInv, NEW r \in Request, NEW v \in Volume, NEW size \in 1..MaxSize,
         CreateVolume(r, v, size)
  PROVE  IndInv'
<1> DEFINE new == Started(v, NoServer, size, {}, "insert")
<1>1. MovesTo(r, new)
  BY IndInvParts, StartMoves DEF CreateVolume, Location
<1>2. DataTyped
  BY IndInvParts, OrmAssumption
  DEF CreateVolume, TypeOK, DataTyped, CinderVolume, CinderStatus, VolumeStatus
<1>3. Rely
  BY IndInvParts DEF CreateVolume, TypeOK, Rely
<1>4. Facts(row', serverRow', cinder', nova', accepted')
  BY IndInvParts DEF CreateVolume, TypeOK, Facts
<1>5. Known(new, row', cinder', nova', accepted')
  BY IndInvParts
  DEF CreateVolume, TypeOK, Known, Started, Idle, Snapshot, Attaching, ServerDeletion
<1>6. \A q \in Request \ {r} :
        request[q].at = "insert" =>
          /\ row'[request[q].vol].life = "absent"
          /\ new.vol # request[q].vol
  BY IndInvParts DEF CreateVolume, Known, Started, Idle
<1>7. QED
  BY <1>1, <1>2, <1>3, <1>4, <1>5, <1>6, RequestStep

\* InsertVolume keeps the inductive invariant.
\* The row appears; no other request is inserting the same one.
LEMMA InsertVolumeStep ==
  ASSUME IndInv, NEW r \in Request, InsertVolume(r)
  PROVE  IndInv'
<1> DEFINE v == request[r].vol
           new == Renewed(request[r], "sync")
<1>1. MovesTo(r, new)
  BY IndInvParts, ContinueMoves DEF InsertVolume, Location
<1>2. /\ request[r] \in RequestState
      /\ v \in Volume /\ row[v].life = "absent" /\ cinder[v].status # "UNCREATED"
  BY IndInvParts DEF InsertVolume, Known, ServerDeletion, TypeOK
<1>3. New(request[r].size) \in Row
  BY <1>2, NewType DEF RequestState
<1>4. DataTyped
  BY <1>2, <1>3, IndInvParts DEF InsertVolume, TypeOK, DataTyped
<1>5. Rely
  BY <1>2, <1>3, IndInvParts DEF InsertVolume, TypeOK, Rely, New
<1>6. Facts(row', serverRow', cinder', nova', accepted')
  BY <1>2, <1>3, IndInvParts DEF InsertVolume, TypeOK, Facts, New
<1>7. Known(new, row', cinder', nova', accepted')
  BY <1>2, <1>3, IndInvParts
  DEF InsertVolume, TypeOK, Known, Renewed, RequestState, NothingLoaded, New,
      Attaching, ServerDeletion
<1>8. \A q \in Request \ {r} :
        request[q].at = "insert" =>
          row'[request[q].vol].life = "absent" /\ new.at # "insert"
  <2> SUFFICES ASSUME NEW q \in Request \ {r}, request[q].at = "insert"
               PROVE  row'[request[q].vol].life = "absent" /\ new.at # "insert"
    OBVIOUS
  <2>1. request[q].vol # v
    BY IndInvParts DEF InsertVolume, OneInsert
  <2>2. row[request[q].vol].life = "absent"
    BY IndInvParts DEF Known
  <2>3. new.at = "sync"
    BY <1>2 DEF Renewed, RequestState
  <2>4. QED
    BY <2>1, <2>2, <2>3 DEF InsertVolume
<1>9. QED
  BY <1>1, <1>4, <1>5, <1>6, <1>7, <1>8, RequestStep

\* PollCreation keeps the inductive invariant.
LEMMA PollCreationStep ==
  ASSUME IndInv, NEW r \in Request, PollCreation(r)
  PROVE  IndInv'
<1>1. request[r] \in RequestState /\ Known(request[r], row, cinder, nova, accepted)
  BY IndInvParts DEF TypeOK
<1>2. \A status \in VolumeStatus \cup {"TIMEOUT"} :
        Known(Told(request[r], status, "sync_load"), row, cinder, nova, accepted)
  BY <1>1 DEF PollCreation, Known, Told, RequestState, Attaching, ServerDeletion
<1>3. QED
  BY <1>2, QuietPoll DEF PollCreation, Location

\* A select that finds one live row, and what the session then holds.
LEMMA QuietLoadOne ==
  ASSUME IndInv, NEW r \in Request, NEW label \in Location,
         request[r].vol \in Volume, Live(row[request[r].vol]),
         Load(r, {request[r].vol}, label), label # "insert",
         UNCHANGED <<row, serverRow, cinder, nova, accepted>>,
         Known(Waiting(request[r], label), row, cinder, nova, accepted)
  PROVE  IndInv'
<1> DEFINE new == Holding(request[r], {request[r].vol}, label)
<1>1. MovesTo(r, new)
  BY IndInvParts, LoadMoves
<1>2. request[r] \in RequestState
  BY IndInvParts DEF TypeOK
<1>3. Known(new, row, cinder, nova, accepted) /\ new.at # "insert"
  BY <1>2 DEF Known, Holding, Waiting, RequestState, Snapshot, Live
<1>4. QED
  BY <1>1, <1>3, QuietStep

\* LoadCreated keeps the inductive invariant.
LEMMA LoadCreatedStep ==
  ASSUME IndInv, NEW r \in Request, LoadCreated(r)
  PROVE  IndInv'
<1>1. request[r] \in RequestState /\ Known(request[r], row, cinder, nova, accepted)
  BY IndInvParts DEF TypeOK
<1>2. request[r].vol \in Volume
  BY <1>1 DEF LoadCreated, Known, ServerDeletion
<1>3. Known(Waiting(request[r], "sync_save"), row, cinder, nova, accepted)
  BY <1>1 DEF LoadCreated, Known, Waiting, RequestState, Attaching, ServerDeletion
<1>4. QED
  BY <1>2, <1>3, QuietLoadOne, QuietFinish DEF LoadCreated, Location

(***************************************************************************)
(* Commits.                                                                *)
(***************************************************************************)

\* The commit of a request that is not inserting.  As far as the invariant is
\* concerned it never undeletes, never loses the row, and never names a server
\* that Nova has not accepted.
LEMMA SaveKeeps ==
  ASSUME IndInv, NEW r \in Request, NEW entity \in Row, Save(r, entity),
         request[r].vol \in Volume, request[r].at # "insert", request[r].at # "idle",
         entity.life = Entity(r).life
           \/ (entity.life = "deleted" /\ cinder[request[r].vol].status = "GONE"),
         entity.server \in {Entity(r).server, NoServer}
           \/ <<request[r].vol, entity.server>> \in accepted,
         UNCHANGED <<serverRow, cinder, nova, accepted>>
  PROVE  /\ DataTyped
         /\ Rely
         /\ Facts(row', serverRow', cinder', nova', accepted')
         /\ \A v \in Volume : row[v].life = "absent" => row'[v] = row[v]
<1> DEFINE v == request[r].vol
           written == Flush(row[v], Entity(r), entity)
<1>1. /\ TypeOK /\ request[r] \in RequestState /\ row[v] \in Row /\ Entity(r) \in Row
      /\ Known(request[r], row, cinder, nova, accepted)
      /\ Facts(row, serverRow, cinder, nova, accepted)
  BY IndInvParts DEF TypeOK, RequestState, Entity
<1>2. written \in Row
  BY <1>1, FlushType
<1>3. row' = [row EXCEPT ![v] = written]
  BY DEF Save
<1>4. row[v].life # "absent"
  BY <1>1 DEF Known
<1>5. /\ written.life \in {row[v].life, entity.life}
      /\ entity.life = Entity(r).life => written.life = row[v].life
      /\ written.server \in {row[v].server, entity.server}
      /\ entity.server = Entity(r).server => written.server = row[v].server
  BY DEF Flush, Column
<1>6. DataTyped
  BY <1>1, <1>2, <1>3 DEF TypeOK, DataTyped
<1>7. written.life # "absent" /\ (written.life = "deleted" => cinder[v].status = "GONE")
  BY <1>1, <1>4, <1>5 DEF Facts
<1>8. Rely
  BY <1>1, <1>3, <1>7 DEF TypeOK, Rely
<1>9. v \notin RootVolume /\ written.server # NoServer => <<v, written.server>> \in accepted
  BY <1>1, <1>5 DEF Facts
<1>10. Facts(row', serverRow', cinder', nova', accepted')
  BY <1>1, <1>3, <1>7, <1>9 DEF Facts, TypeOK
<1>11. \A w \in Volume : row[w].life = "absent" => row'[w] = row[w]
  BY <1>1, <1>3, <1>4 DEF TypeOK
<1>12. QED
  BY <1>6, <1>8, <1>10, <1>11

\* ... after which the request is in the state `new`.
LEMMA SaveStep ==
  ASSUME IndInv, NEW r \in Request, NEW entity \in Row, Save(r, entity),
         request[r].vol \in Volume, request[r].at # "insert", request[r].at # "idle",
         entity.life = Entity(r).life
           \/ (entity.life = "deleted" /\ cinder[request[r].vol].status = "GONE"),
         entity.server \in {Entity(r).server, NoServer}
           \/ <<request[r].vol, entity.server>> \in accepted,
         UNCHANGED <<serverRow, cinder, nova, accepted>>,
         NEW new, MovesTo(r, new), new.at # "insert",
         Known(new, row, cinder, nova, accepted)
  PROVE  IndInv'
<1>1. /\ DataTyped /\ Rely
      /\ Facts(row', serverRow', cinder', nova', accepted')
      /\ \A v \in Volume : row[v].life = "absent" => row'[v] = row[v]
  BY SaveKeeps
<1>2. Known(new, row', cinder', nova', accepted')
  BY <1>1, KnownIsStable DEF MovesTo
<1>3. \A q \in Request \ {r} :
        request[q].at = "insert" => row'[request[q].vol].life = "absent"
  BY <1>1, IndInvParts DEF Known, ServerDeletion
<1>4. QED
  BY <1>1, <1>2, <1>3, RequestStep

\* ... or ends with that commit.
LEMMA SaveFinish ==
  ASSUME IndInv, NEW r \in Request, NEW entity \in Row, Save(r, entity), Finish(r),
         request[r].vol \in Volume, request[r].at # "insert", request[r].at # "idle",
         entity.life = Entity(r).life
           \/ (entity.life = "deleted" /\ cinder[request[r].vol].status = "GONE"),
         entity.server \in {Entity(r).server, NoServer}
           \/ <<request[r].vol, entity.server>> \in accepted,
         UNCHANGED <<serverRow, cinder, nova, accepted>>
  PROVE  IndInv'
<1>1. MovesTo(r, Idle)
  BY IdleType DEF Finish, MovesTo
<1>2. Known(Idle, row, cinder, nova, accepted) /\ Idle.at # "insert"
  BY DEF Known, Idle, Attaching, ServerDeletion, NothingLoaded
<1>3. QED
  BY <1>1, <1>2, SaveStep

\* What is known of a request that is about to commit.
LEMMA Committing ==
  ASSUME IndInv, NEW r \in Request,
         request[r].at \notin ServerDeletion \cup {"idle", "insert"}
  PROVE  /\ request[r] \in RequestState
         /\ Known(request[r], row, cinder, nova, accepted)
         /\ request[r].vol \in Volume
         /\ Entity(r) \in Row
         /\ request[r].srv \in Server \cup {NoServer}
<1>1. request[r] \in RequestState /\ Known(request[r], row, cinder, nova, accepted)
  BY IndInvParts DEF TypeOK
<1>2. request[r].vol \in Volume
  BY <1>1 DEF Known
<1>3. QED
  BY <1>1, <1>2 DEF RequestState, Entity

\* SaveCreated keeps the inductive invariant.
LEMMA SaveCreatedStep ==
  ASSUME IndInv, NEW r \in Request, SaveCreated(r)
  PROVE  IndInv'
<1> DEFINE entity == Created(Entity(r), request[r].seen)
<1>1. /\ request[r].at \notin ServerDeletion \cup {"idle", "insert"}
      /\ Entity(r) \in Row /\ request[r].vol \in Volume
  BY Committing DEF SaveCreated, ServerDeletion
<1>2. /\ entity \in Row
      /\ entity.life = Entity(r).life /\ entity.server = Entity(r).server
  BY <1>1 DEF Created, CompleteCreation, FailCreation, Row, VolumeStatus
<1>3. Save(r, entity) /\ Finish(r) /\ UNCHANGED <<serverRow, cinder, nova, accepted>>
  BY DEF SaveCreated
<1>4. request[r].at # "insert" /\ request[r].at # "idle"
  BY <1>1
<1> HIDE DEF entity
<1>5. QED
  BY <1>1, <1>2, <1>3, <1>4, SaveFinish DEF Save

(***************************************************************************)
(* POST /servers/{id}/volumes/{id}.                                        *)
(***************************************************************************)

\* AttachVolume keeps the inductive invariant.
LEMMA AttachVolumeStep ==
  ASSUME IndInv, NEW r \in Request, NEW v \in Volume, NEW s \in Server,
         AttachVolume(r, v, s)
  PROVE  IndInv'
<1> DEFINE new == Started(v, s, 0, {v}, "nova_attach")
<1>1. MovesTo(r, new)
  BY IndInvParts, StartMoves, OrmAssumption DEF AttachVolume, Location
<1>2. Known(new, row, cinder, nova, accepted) /\ new.at # "insert"
  BY DEF AttachVolume, Live, Known, Started, Idle, Snapshot, Attaching, ServerDeletion
<1>3. QED
  BY <1>1, <1>2, QuietStep DEF AttachVolume

\* NovaAttach keeps the inductive invariant.
\* The pair Nova takes enters `accepted` with the call.
LEMMA NovaAttachStep ==
  ASSUME IndInv, NEW r \in Request, NovaAttach(r)
  PROVE  IndInv'
<1> DEFINE v == request[r].vol
           s == request[r].srv
           new == Waiting(request[r], "save_attaching")
<1>1. CASE ~(cinder[v].status = "AVAILABLE" /\ nova[s] = "EXISTS")
  BY <1>1, QuietFinish DEF NovaAttach
<1>2. CASE cinder[v].status = "AVAILABLE" /\ nova[s] = "EXISTS"
  <2>1. /\ request[r] \in RequestState /\ v \in Volume
        /\ Known(request[r], row, cinder, nova, accepted)
    BY Committing DEF NovaAttach, ServerDeletion
  <2>2. /\ cinder' = [cinder EXCEPT ![v].status = "ATTACHING", ![v].host = s]
        /\ accepted' = accepted \cup {<<v, s>>}
        /\ UNCHANGED <<row, serverRow, nova>>
        /\ Answered(r, "save_attaching")
    BY <1>2 DEF NovaAttach
  <2>3. s \in Server
    BY <2>1 DEF NovaAttach, Known
  <2>4. DataTyped
    BY <2>1, <2>2, <2>3, IndInvParts
    DEF TypeOK, DataTyped, CinderVolume, CinderStatus, VolumeStatus
  <2>5. Rely
    BY <1>2, <2>1, <2>2, IndInvParts DEF TypeOK, Rely
  <2>6. Facts(row', serverRow', cinder', nova', accepted')
    BY <1>2, <2>1, <2>2, IndInvParts DEF TypeOK, Facts, CinderVolume
  <2>7. \A q \in Request \ {r} :
          request[q].at = "insert" => row'[request[q].vol].life = "absent"
    BY <2>2, IndInvParts DEF Known
  <2>8. CASE Await(r, "save_attaching")
    <3>1. MovesTo(r, new)
      BY <2>8, IndInvParts, AwaitMoves DEF Location
    <3>2. Known(new, row', cinder', nova', accepted') /\ new.at # "insert"
      <4>1. Known(request[r], row', cinder', nova', accepted')
        BY <2>1, <2>5, KnownIsStable DEF NovaAttach
      <4>2. QED
        BY <2>1, <2>2, <4>1
        DEF NovaAttach, Known, Waiting, RequestState, Attaching, ServerDeletion
    <3>3. QED
      BY <2>4, <2>5, <2>6, <2>7, <3>1, <3>2, RequestStep
  <2>9. CASE Finish(r)
    BY <2>4, <2>5, <2>6, <2>7, <2>9, FinishStep
  <2>10. QED
    BY <2>2, <2>8, <2>9 DEF Answered
<1>3. QED
  BY <1>1, <1>2

\* SaveAttaching keeps the inductive invariant.
LEMMA SaveAttachingStep ==
  ASSUME IndInv, NEW r \in Request, SaveAttaching(r)
  PROVE  IndInv'
<1> DEFINE entity == PrepareForAttachment(Entity(r))
           new == Renewed(request[r], "attach_poll")
<1>1. /\ request[r].at # "insert" /\ request[r].at # "idle"
      /\ request[r] \in RequestState
      /\ Known(request[r], row, cinder, nova, accepted)
      /\ Entity(r) \in Row /\ request[r].vol \in Volume
  BY Committing DEF SaveAttaching, ServerDeletion
<1>2. /\ entity \in Row
      /\ entity.life = Entity(r).life /\ entity.server = Entity(r).server
  BY <1>1 DEF PrepareForAttachment, Row, VolumeStatus
<1>3. Save(r, entity) /\ UNCHANGED <<serverRow, cinder, nova, accepted>>
  BY DEF SaveAttaching
<1>4. MovesTo(r, new)
  BY IndInvParts, ContinueMoves DEF SaveAttaching, Location
<1>5. Known(new, row, cinder, nova, accepted) /\ new.at # "insert"
  BY <1>1
  DEF SaveAttaching, Known, Renewed, RequestState, NothingLoaded, Attaching, ServerDeletion
<1> HIDE DEF entity, new
<1>6. QED
  BY <1>1, <1>2, <1>3, <1>4, <1>5, SaveStep DEF Save

\* PollAttachment keeps the inductive invariant.
LEMMA PollAttachmentStep ==
  ASSUME IndInv, NEW r \in Request, PollAttachment(r)
  PROVE  IndInv'
<1>1. request[r] \in RequestState /\ Known(request[r], row, cinder, nova, accepted)
  BY IndInvParts DEF TypeOK
<1>2. \A status \in VolumeStatus \cup {"TIMEOUT"} :
        Known(Told(request[r], status, "attach_load"), row, cinder, nova, accepted)
  BY <1>1
  DEF PollAttachment, Known, Told, RequestState, Attaching, ServerDeletion, VolumeStatus
<1>3. QED
  BY <1>2, QuietPoll DEF PollAttachment, Location

\* LoadAttached keeps the inductive invariant.
LEMMA LoadAttachedStep ==
  ASSUME IndInv, NEW r \in Request, LoadAttached(r)
  PROVE  IndInv'
<1>1. request[r] \in RequestState /\ Known(request[r], row, cinder, nova, accepted)
  BY IndInvParts DEF TypeOK
<1>2. request[r].vol \in Volume
  BY <1>1 DEF LoadAttached, Known, ServerDeletion
<1>3. Known(Waiting(request[r], "attach_save"), row, cinder, nova, accepted)
  BY <1>1 DEF LoadAttached, Known, Waiting, RequestState, Attaching, ServerDeletion
<1>4. QED
  BY <1>2, <1>3, QuietLoadOne, QuietFinish
  DEF LoadAttached, CanFinalizeAttachment, Location

\* SaveAttached keeps the inductive invariant.
\* The server written is one Nova accepted.
LEMMA SaveAttachedStep ==
  ASSUME IndInv, NEW r \in Request, SaveAttached(r)
  PROVE  IndInv'
<1> DEFINE entity == Attached(Entity(r), request[r].seen, request[r].srv)
<1>1. /\ request[r].at # "insert" /\ request[r].at # "idle"
      /\ request[r] \in RequestState
      /\ Known(request[r], row, cinder, nova, accepted)
      /\ Entity(r) \in Row /\ request[r].vol \in Volume
      /\ request[r].srv \in Server \cup {NoServer}
  BY Committing DEF SaveAttached, ServerDeletion
<1>2. request[r].seen \in VolumeStatus \cup {"TIMEOUT"}
  BY <1>1 DEF SaveAttached, Known, RequestState
<1>3. <<request[r].vol, request[r].srv>> \in accepted
  BY <1>1 DEF SaveAttached, Known, Attaching
<1>4. /\ entity \in Row
      /\ entity.life = Entity(r).life
      /\ entity.server \in {Entity(r).server, request[r].srv}
  BY <1>1, <1>2
  DEF Attached, AttachToServer, FailAttachment, UpdateStatus, Row, VolumeStatus
<1>5. Save(r, entity) /\ Finish(r) /\ UNCHANGED <<serverRow, cinder, nova, accepted>>
  BY DEF SaveAttached
<1> HIDE DEF entity
<1>6. QED
  BY <1>1, <1>3, <1>4, <1>5, SaveFinish DEF Save

(***************************************************************************)
(* DELETE /servers/{id}/volumes/{id}.                                      *)
(***************************************************************************)

\* DetachVolume keeps the inductive invariant.
LEMMA DetachVolumeStep ==
  ASSUME IndInv, NEW r \in Request, NEW v \in Volume, NEW s \in Server,
         DetachVolume(r, v, s)
  PROVE  IndInv'
<1> DEFINE new == Started(v, s, 0, {v}, "nova_detach")
<1>1. MovesTo(r, new)
  BY IndInvParts, StartMoves, OrmAssumption DEF DetachVolume, Location
<1>2. Known(new, row, cinder, nova, accepted) /\ new.at # "insert"
  BY DEF DetachVolume, Live, Known, Started, Idle, Snapshot, Attaching, ServerDeletion
<1>3. QED
  BY <1>1, <1>2, QuietStep DEF DetachVolume

\* A call that sets the Cinder volume of the request to a status other than
\* GONE and UNCREATED, from one of these.
LEMMA CinderCall ==
  ASSUME IndInv, NEW r \in Request, NEW label \in Location, NEW c \in CinderVolume,
         request[r].vol \in Volume, request[r].at # "insert", label # "insert",
         cinder[request[r].vol].status \notin {"GONE", "UNCREATED"},
         c.status \notin {"GONE", "UNCREATED"},
         cinder' = [cinder EXCEPT ![request[r].vol] = c],
         Answered(r, label),
         UNCHANGED <<row, serverRow, nova, accepted>>,
         Known(Waiting(request[r], label), row, cinder, nova, accepted)
  PROVE  IndInv'
<1> DEFINE new == Waiting(request[r], label)
<1>1. DataTyped
  BY IndInvParts DEF TypeOK, DataTyped
<1>2. Rely
  BY IndInvParts DEF TypeOK, Rely
<1>3. Facts(row', serverRow', cinder', nova', accepted')
  BY IndInvParts DEF TypeOK, Facts
<1>4. \A q \in Request \ {r} :
        request[q].at = "insert" => row'[request[q].vol].life = "absent"
  BY IndInvParts DEF Known
<1>5. CASE Await(r, label)
  <2>1. MovesTo(r, new)
    BY <1>5, IndInvParts, AwaitMoves
  <2>2. new.at # "insert"
    BY IndInvParts DEF Waiting, TypeOK, RequestState
  <2>3. Known(new, row', cinder', nova', accepted')
    BY <1>2, <2>1, <2>2, KnownIsStable DEF MovesTo
  <2>4. QED
    BY <1>1, <1>2, <1>3, <1>4, <2>1, <2>2, <2>3, RequestStep
<1>6. CASE Finish(r)
  BY <1>1, <1>2, <1>3, <1>4, <1>6, FinishStep
<1>7. QED
  BY <1>5, <1>6 DEF Answered

\* NovaDetach keeps the inductive invariant.
LEMMA NovaDetachStep ==
  ASSUME IndInv, NEW r \in Request, NovaDetach(r)
  PROVE  IndInv'
<1> DEFINE v == request[r].vol
           takes == cinder[v].status = "IN_USE" /\ cinder[v].host = request[r].srv
           c == [cinder[v] EXCEPT !.status = "DETACHING"]
<1>1. /\ request[r] \in RequestState /\ v \in Volume
      /\ Known(request[r], row, cinder, nova, accepted)
      /\ cinder \in [Volume -> CinderVolume]
  BY Committing, IndInvParts DEF NovaDetach, ServerDeletion, TypeOK
<1>2. c \in CinderVolume /\ c.status = "DETACHING"
  BY <1>1 DEF CinderVolume, CinderStatus, VolumeStatus
<1>3. Known(Waiting(request[r], "detach_poll"), row, cinder, nova, accepted)
  BY <1>1 DEF NovaDetach, Known, Waiting, RequestState, Attaching, ServerDeletion
<1>4. CASE takes
  <2>1. /\ cinder' = [cinder EXCEPT ![v] = c]
        /\ Answered(r, "detach_poll")
        /\ UNCHANGED <<row, serverRow, nova, accepted>>
    BY <1>4 DEF NovaDetach
  <2> HIDE DEF c
  <2>2. QED
    BY <1>1, <1>2, <1>3, <1>4, <2>1, CinderCall DEF NovaDetach, Location
<1>5. CASE ~takes
  BY <1>5, QuietFinish DEF NovaDetach
<1>6. QED
  BY <1>4, <1>5

\* A poll loop that is left when a predicate holds, with nothing but the label
\* changed.
LEMMA QuietAwait ==
  ASSUME IndInv, NEW r \in Request, NEW label \in Location, Await(r, label),
         label # "insert",
         UNCHANGED <<row, serverRow, cinder, nova, accepted>>,
         Known(Waiting(request[r], label), row, cinder, nova, accepted)
  PROVE  IndInv'
<1>1. MovesTo(r, Waiting(request[r], label))
  BY IndInvParts, AwaitMoves
<1>2. Waiting(request[r], label).at # "insert"
  BY IndInvParts DEF Waiting, TypeOK, RequestState
<1>3. QED
  BY <1>1, <1>2, QuietStep

\* PollDetachment keeps the inductive invariant.
LEMMA PollDetachmentStep ==
  ASSUME IndInv, NEW r \in Request, PollDetachment(r)
  PROVE  IndInv'
<1> DEFINE status == CinderStatusOf(r)
           new == Told(request[r], status, "detach_load")
<1>1. request[r] \in RequestState /\ Known(request[r], row, cinder, nova, accepted)
  BY IndInvParts DEF TypeOK
<1>2. UNCHANGED <<row, serverRow, cinder, nova, accepted>> /\ request[r].at # "insert"
  BY DEF PollDetachment
<1>3. CASE CinderKnows(r) /\ Observe(r, status, "detach_load")
  <2>1. status \in VolumeStatus
    BY <1>3 DEF CinderKnows
  <2>2. MovesTo(r, new)
    BY <1>3, <2>1, IndInvParts, ObserveMoves DEF Location
  <2>3. Known(new, row, cinder, nova, accepted) /\ new.at # "insert"
    BY <1>1, <2>1
    DEF PollDetachment, Known, Told, RequestState, Attaching, ServerDeletion
  <2>4. QED
    BY <1>2, <2>2, <2>3, QuietStep
<1>4. CASE PollAgain(r)
  BY <1>2, <1>4, QuietPollAgain
<1>5. CASE Finish(r)
  BY <1>2, <1>5, QuietFinish
<1>6. QED
  BY <1>3, <1>4, <1>5 DEF PollDetachment

\* LoadDetached keeps the inductive invariant.
LEMMA LoadDetachedStep ==
  ASSUME IndInv, NEW r \in Request, LoadDetached(r)
  PROVE  IndInv'
<1>1. request[r] \in RequestState /\ Known(request[r], row, cinder, nova, accepted)
  BY IndInvParts DEF TypeOK
<1>2. request[r].vol \in Volume
  BY <1>1 DEF LoadDetached, Known, ServerDeletion
<1>3. Known(Waiting(request[r], "detach_save"), row, cinder, nova, accepted)
  BY <1>1 DEF LoadDetached, Known, Waiting, RequestState, Attaching, ServerDeletion
<1>4. QED
  BY <1>2, <1>3, QuietLoadOne, QuietFinish DEF LoadDetached, Location

\* SaveDetached keeps the inductive invariant.
\* The server is removed, or only the status changes.
LEMMA SaveDetachedStep ==
  ASSUME IndInv, NEW r \in Request, SaveDetached(r)
  PROVE  IndInv'
<1>1. /\ request[r].at # "insert" /\ request[r].at # "idle"
      /\ request[r] \in RequestState
      /\ Known(request[r], row, cinder, nova, accepted)
      /\ Entity(r) \in Row /\ request[r].vol \in Volume
      /\ UNCHANGED <<serverRow, cinder, nova, accepted>>
  BY Committing DEF SaveDetached, ServerDeletion
<1>2. CASE Save(r, DetachFromServer(Entity(r))) /\ Continue(r, "detach_outer")
  <2> DEFINE entity == DetachFromServer(Entity(r))
             new == Renewed(request[r], "detach_outer")
  <2>1. entity \in Row /\ entity.life = Entity(r).life /\ entity.server = NoServer
    BY <1>1 DEF DetachFromServer, Row, VolumeStatus
  <2>2. MovesTo(r, new)
    BY <1>2, IndInvParts, ContinueMoves DEF Location
  <2>3. Known(new, row, cinder, nova, accepted) /\ new.at # "insert"
    BY <1>1
    DEF SaveDetached, Known, Renewed, RequestState, NothingLoaded, Attaching, ServerDeletion
  <2>4. Save(r, entity)
    BY <1>2
  <2> HIDE DEF entity, new
  <2>5. QED
    BY <1>1, <2>1, <2>2, <2>3, <2>4, SaveStep DEF Save
<1>3. CASE Save(r, UpdateStatus(Entity(r), request[r].seen)) /\ Finish(r)
  <2> DEFINE entity == UpdateStatus(Entity(r), request[r].seen)
  <2>1. /\ entity \in Row
        /\ entity.life = Entity(r).life /\ entity.server = Entity(r).server
    BY <1>1 DEF SaveDetached, Known, UpdateStatus, Row
  <2>2. Save(r, entity)
    BY <1>3
  <2> HIDE DEF entity
  <2>3. QED
    BY <1>1, <1>3, <2>1, <2>2, SaveFinish DEF Save
<1>4. QED
  BY <1>2, <1>3 DEF SaveDetached

\* CommitDetachVolumeFromServer keeps the inductive invariant.
\* Only the status changes.
LEMMA CommitDetachVolumeFromServerStep ==
  ASSUME IndInv, NEW r \in Request, CommitDetachVolumeFromServer(r)
  PROVE  IndInv'
<1> DEFINE v == request[r].vol
           written == PrepareForDetachment(row[v])
<1>1. /\ v \in Volume /\ row[v] \in Row /\ row[v].life # "absent" /\ TypeOK
      /\ Facts(row, serverRow, cinder, nova, accepted)
  BY Committing, IndInvParts
  DEF CommitDetachVolumeFromServer, ServerDeletion, TypeOK, Known
<1>2. /\ written \in Row
      /\ written.life = row[v].life /\ written.server = row[v].server
  BY <1>1 DEF PrepareForDetachment, Row, VolumeStatus
<1>3. /\ row' = [row EXCEPT ![v] = written]
      /\ Finish(r) /\ UNCHANGED <<serverRow, cinder, nova, accepted>>
  BY DEF CommitDetachVolumeFromServer
<1> HIDE DEF written
<1>4. DataTyped
  BY <1>1, <1>2, <1>3 DEF TypeOK, DataTyped
<1>5. Rely
  BY <1>1, <1>2, <1>3 DEF TypeOK, Rely
<1>6. Facts(row', serverRow', cinder', nova', accepted')
  BY <1>1, <1>2, <1>3 DEF TypeOK, Facts
<1>7. \A q \in Request \ {r} :
        request[q].at = "insert" => row'[request[q].vol].life = "absent"
  BY <1>1, <1>3, IndInvParts DEF Known, TypeOK, ServerDeletion
<1>8. QED
  BY <1>3, <1>4, <1>5, <1>6, <1>7, FinishStep

(***************************************************************************)
(* PUT /volumes/{id}/size.                                                 *)
(***************************************************************************)

\* ResizeVolume keeps the inductive invariant.
LEMMA ResizeVolumeStep ==
  ASSUME IndInv, NEW r \in Request, NEW v \in Volume, NEW size \in 1..MaxSize,
         ResizeVolume(r, v, size)
  PROVE  IndInv'
<1> DEFINE new == Started(v, NoServer, size, {v}, "extend")
<1>1. MovesTo(r, new)
  BY IndInvParts, StartMoves, OrmAssumption DEF ResizeVolume, Location
<1>2. Known(new, row, cinder, nova, accepted) /\ new.at # "insert"
  BY DEF ResizeVolume, Live, Known, Started, Idle, Snapshot, Attaching, ServerDeletion
<1>3. QED
  BY <1>1, <1>2, QuietStep DEF ResizeVolume

\* A status and a host of the right types keep the record of a volume.
LEMMA BecomesType ==
  ASSUME NEW o \in CinderVolume, NEW st \in CinderStatus, NEW h \in Server \cup {NoServer}
  PROVE  /\ Becomes(o, st, h) \in CinderVolume
         /\ Becomes(o, st, h).status = st
         /\ Becomes(o, st, h).host = h
  BY DEF CinderVolume, Becomes

\* The statuses the actions name are statuses of Cinder, all different.
LEMMA StatusType ==
  /\ "AVAILABLE" \in CinderStatus /\ "ERROR" \in CinderStatus /\ "IN_USE" \in CinderStatus
  /\ "EXTENDING" \in CinderStatus /\ "DELETING" \in CinderStatus /\ "GONE" \in CinderStatus
  /\ "GONE" \notin {"AVAILABLE", "ERROR", "IN_USE", "EXTENDING", "DELETING", "UNCREATED"}
  /\ "UNCREATED" \notin {"AVAILABLE", "ERROR", "IN_USE", "EXTENDING", "DELETING"}
  BY DEF CinderStatus, VolumeStatus

\* CinderExtend keeps the inductive invariant.
LEMMA CinderExtendStep ==
  ASSUME IndInv, NEW r \in Request, CinderExtend(r)
  PROVE  IndInv'
<1> DEFINE v == request[r].vol
           takes == cinder[v].status = "AVAILABLE" /\ request[r].size > cinder[v].size
           c == [cinder[v] EXCEPT !.status = "EXTENDING", !.target = request[r].size]
<1>1. /\ request[r] \in RequestState /\ v \in Volume
      /\ Known(request[r], row, cinder, nova, accepted)
      /\ cinder \in [Volume -> CinderVolume]
  BY Committing, IndInvParts DEF CinderExtend, ServerDeletion, TypeOK
<1>2. c \in CinderVolume /\ c.status = "EXTENDING"
  <2>1. request[r].size \in 0..MaxSize /\ cinder[v] \in CinderVolume
    BY <1>1 DEF RequestState
  <2>2. QED
    BY <2>1, StatusType DEF CinderVolume
<1>3. Known(Waiting(request[r], "extend_poll"), row, cinder, nova, accepted)
  BY <1>1 DEF CinderExtend, Known, Waiting, RequestState, Attaching, ServerDeletion
<1>4. CASE takes
  <2>1. /\ cinder' = [cinder EXCEPT ![v] = c]
        /\ Answered(r, "extend_poll")
        /\ UNCHANGED <<row, serverRow, nova, accepted>>
    BY <1>1, <1>4 DEF CinderExtend, CinderVolume
  <2> HIDE DEF c
  <2>2. QED
    BY <1>1, <1>2, <1>3, <1>4, <2>1, CinderCall DEF CinderExtend, Location
<1>5. CASE ~takes
  BY <1>5, QuietFinish DEF CinderExtend
<1>6. QED
  BY <1>4, <1>5

\* PollResize keeps the inductive invariant.
LEMMA PollResizeStep ==
  ASSUME IndInv, NEW r \in Request, PollResize(r)
  PROVE  IndInv'
<1>1. request[r] \in RequestState /\ Known(request[r], row, cinder, nova, accepted)
  BY IndInvParts DEF TypeOK
<1>2. Known(Waiting(request[r], "resize_save"), row, cinder, nova, accepted)
  BY <1>1 DEF PollResize, Known, Waiting, RequestState, Attaching, ServerDeletion
<1>3. QED
  BY <1>2, QuietAwait, QuietPollAgain, QuietFinish DEF PollResize, Location

\* SaveResize keeps the inductive invariant.
LEMMA SaveResizeStep ==
  ASSUME IndInv, NEW r \in Request, SaveResize(r)
  PROVE  IndInv'
  BY QuietFinish DEF SaveResize

(***************************************************************************)
(* DELETE /volumes/{id}.                                                   *)
(***************************************************************************)

\* DeleteVolume keeps the inductive invariant.
LEMMA DeleteVolumeStep ==
  ASSUME IndInv, NEW r \in Request, NEW v \in Volume, DeleteVolume(r, v)
  PROVE  IndInv'
<1> DEFINE new == Started(v, NoServer, 0, {v}, "cinder_delete")
<1>1. MovesTo(r, new)
  BY IndInvParts, StartMoves, OrmAssumption DEF DeleteVolume, Location
<1>2. Known(new, row, cinder, nova, accepted) /\ new.at # "insert"
  BY DEF DeleteVolume, Live, Known, Started, Idle, Snapshot, Attaching, ServerDeletion
<1>3. QED
  BY <1>1, <1>2, QuietStep DEF DeleteVolume

\* CinderDelete keeps the inductive invariant.
LEMMA CinderDeleteStep ==
  ASSUME IndInv, NEW r \in Request, CinderDelete(r)
  PROVE  IndInv'
<1> DEFINE v == request[r].vol
           takes == cinder[v].status \in {"AVAILABLE", "ERROR"}
           c == [cinder[v] EXCEPT !.status = "DELETING"]
<1>1. /\ request[r] \in RequestState /\ v \in Volume
      /\ Known(request[r], row, cinder, nova, accepted)
      /\ cinder \in [Volume -> CinderVolume]
  BY Committing, IndInvParts DEF CinderDelete, ServerDeletion, TypeOK
<1>2. c \in CinderVolume /\ c.status = "DELETING"
  BY <1>1 DEF CinderVolume, CinderStatus, VolumeStatus
<1>3. Known(Waiting(request[r], "delete_poll"), row, cinder, nova, accepted)
  BY <1>1 DEF CinderDelete, Known, Waiting, RequestState, Attaching, ServerDeletion
<1>4. CASE takes
  <2>1. /\ cinder' = [cinder EXCEPT ![v] = c]
        /\ Answered(r, "delete_poll")
        /\ UNCHANGED <<row, serverRow, nova, accepted>>
    BY <1>4 DEF CinderDelete
  <2>2. cinder[v].status \notin {"GONE", "UNCREATED"}
    BY <1>4
  <2>3. request[r].at # "insert" /\ "delete_poll" \in Location
    BY DEF CinderDelete, Location
  <2> HIDE DEF c
  <2>4. QED
    BY <1>1, <1>2, <1>3, <2>1, <2>2, <2>3, CinderCall
<1>5. CASE ~takes
  BY <1>5, QuietFinish DEF CinderDelete
<1>6. QED
  BY <1>4, <1>5

\* Both loops that wait for a volume to vanish see it gone before they go on.
LEMMA PollUntilVolumeIsGoneStep ==
  ASSUME IndInv, NEW r \in Request, NEW from, NEW label,
         <<from, label>> \in {<<"delete_poll", "delete_save">>, <<"root_poll", "root_save">>},
         request[r].at = from, PollUntilVolumeIsGone(r, label)
  PROVE  IndInv'
<1>1. /\ request[r] \in RequestState /\ Known(request[r], row, cinder, nova, accepted)
      /\ request[r].at \in {"delete_poll", "root_poll"}
      /\ label \in {"delete_save", "root_save"}
  BY IndInvParts DEF TypeOK
<1>2. VolumeIsGone(r) => Known(Waiting(request[r], label), row, cinder, nova, accepted)
  BY <1>1
  DEF VolumeIsGone, CinderStatusOf, Known, Waiting, RequestState, Attaching, ServerDeletion
<1>3. label \in Location
  BY <1>1 DEF Location
<1>4. QED
  BY <1>1, <1>2, <1>3, QuietAwait, QuietPollAgain, QuietFinish DEF PollUntilVolumeIsGone

\* The two commits of Volume.delete().
LEMMA SoftDeleteStep ==
  ASSUME IndInv, NEW r \in Request, request[r].at \in {"delete_save", "root_save"},
         Save(r, SoftDelete(Entity(r))), Finish(r),
         UNCHANGED <<serverRow, cinder, nova, accepted>>
  PROVE  IndInv'
<1> DEFINE entity == SoftDelete(Entity(r))
<1>1. /\ Known(request[r], row, cinder, nova, accepted)
      /\ Entity(r) \in Row /\ request[r].vol \in Volume
  BY Committing DEF ServerDeletion
<1>2. cinder[request[r].vol].status = "GONE"
  BY <1>1 DEF Known
<1>3. /\ entity \in Row
      /\ entity.life = "deleted" /\ entity.server = Entity(r).server
  BY <1>1 DEF SoftDelete, Row
<1>4. Save(r, entity)
  OBVIOUS
<1> HIDE DEF entity
<1>5. QED
  BY <1>1, <1>2, <1>3, <1>4, SaveFinish DEF Save

(***************************************************************************)
(* DELETE /servers/{id} and its background tasks.                          *)
(***************************************************************************)

\* DeleteServer keeps the inductive invariant.
\* The root volume that is remembered has a row.
LEMMA DeleteServerStep ==
  ASSUME IndInv, NEW r \in Request, NEW s \in Server, DeleteServer(r, s)
  PROVE  IndInv'
<1>1. PICK v \in Volume \cup {NoVolume} :
        /\ v \in Volume => row[v].server = s
        /\ Start(r, v, s, 0, {}, "nova_delete")
  BY LifecycleAssumption DEF DeleteServer
<1> DEFINE new == Started(v, s, 0, {}, "nova_delete")
<1>2. MovesTo(r, new)
  BY <1>1, IndInvParts, StartMoves, OrmAssumption DEF Location
<1>3. v \in Volume => row[v].life # "absent"
  BY <1>1, IndInvParts, OrmAssumption DEF Facts
<1>4. Known(new, row, cinder, nova, accepted) /\ new.at # "insert"
  BY <1>3 DEF Known, Started, Idle, Snapshot, Attaching, ServerDeletion
<1>5. QED
  BY <1>2, <1>4, QuietStep DEF DeleteServer

\* NovaDelete keeps the inductive invariant.
LEMMA NovaDeleteStep ==
  ASSUME IndInv, NEW r \in Request, NovaDelete(r)
  PROVE  IndInv'
<1> DEFINE s == request[r].srv
           new == Waiting(request[r], "remove_load")
<1>1. /\ request[r] \in RequestState /\ TypeOK
      /\ Known(request[r], row, cinder, nova, accepted)
      /\ Facts(row, serverRow, cinder, nova, accepted)
  BY IndInvParts DEF TypeOK
<1>2. CASE nova[s] = "GONE"
  BY <1>2, QuietFinish DEF NovaDelete
<1>3. CASE nova[s] # "GONE"
  <2>1. /\ nova' = [nova EXCEPT ![s] = "DELETING"]
        /\ Answered(r, "remove_load")
        /\ UNCHANGED <<row, serverRow, cinder, accepted>>
    BY <1>3 DEF NovaDelete
  <2>2. DataTyped /\ Rely /\ Facts(row', serverRow', cinder', nova', accepted')
    BY <1>1, <1>3, <2>1 DEF TypeOK, DataTyped, Rely, Facts
  <2>3. \A q \in Request \ {r} :
          request[q].at = "insert" => row'[request[q].vol].life = "absent"
    BY <2>1, IndInvParts DEF Known
  <2>4. CASE Await(r, "remove_load")
    <3>1. MovesTo(r, new)
      BY <2>4, IndInvParts, AwaitMoves DEF Location
    <3>2. Known(new, row, cinder, nova, accepted) /\ new.at # "insert"
      BY <1>1 DEF NovaDelete, Known, Waiting, RequestState, Attaching, ServerDeletion
    <3>3. Known(new, row', cinder', nova', accepted')
      BY <2>2, <3>1, <3>2, KnownIsStable DEF MovesTo
    <3>4. QED
      BY <2>2, <2>3, <3>1, <3>2, <3>3, RequestStep
  <2>5. CASE Finish(r)
    BY <2>2, <2>3, <2>5, FinishStep
  <2>6. QED
    BY <2>1, <2>4, <2>5 DEF Answered
<1>4. QED
  BY <1>2, <1>3

\* LoadServerResources keeps the inductive invariant.
LEMMA LoadServerResourcesStep ==
  ASSUME IndInv, NEW r \in Request, LoadServerResources(r)
  PROVE  IndInv'
<1> DEFINE s == request[r].srv
<1>1. /\ request[r] \in RequestState
      /\ Known(request[r], row, cinder, nova, accepted)
      /\ s \in Server
  BY IndInvParts DEF TypeOK, LoadServerResources, Known, ServerDeletion
<1>2. ASSUME NEW reached \in EverySecond(VolumesOf(s)), Load(r, reached, "remove_ports")
      PROVE  IndInv'
  <2> DEFINE new == Holding(request[r], reached, "remove_ports")
  <2>0. reached \in SUBSET Volume /\ reached \subseteq VolumesOf(s)
    BY <1>2 DEF EverySecond, VolumesOf
  <2>1. MovesTo(r, new)
    BY <1>2, <2>0, IndInvParts, LoadMoves DEF Location
  <2>2. \A v \in reached : row[v].life # "absent"
    BY <1>1, <2>0, IndInvParts, OrmAssumption DEF Facts, VolumesOf
  <2>3. Known(new, row, cinder, nova, accepted) /\ new.at # "insert"
    BY <1>1, <2>2
    DEF LoadServerResources, Known, Holding, RequestState, Snapshot, Attaching, ServerDeletion
  <2>4. QED
    BY <2>1, <2>3, QuietStep DEF LoadServerResources
<1>3. CASE Finish(r)
  BY <1>3, QuietFinish DEF LoadServerResources
<1>4. QED
  BY <1>2, <1>3 DEF LoadServerResources

\* RemovePorts keeps the inductive invariant.
LEMMA RemovePortsStep ==
  ASSUME IndInv, NEW r \in Request, RemovePorts(r)
  PROVE  IndInv'
<1>1. request[r] \in RequestState /\ Known(request[r], row, cinder, nova, accepted)
  BY IndInvParts DEF TypeOK
<1>2. Known(Waiting(request[r], "remove_save"), row, cinder, nova, accepted)
  BY <1>1 DEF RemovePorts, Known, Waiting, RequestState, Attaching, ServerDeletion
<1>3. QED
  BY <1>2, QuietAwait DEF RemovePorts, Location

\* Every loaded volume loses its server and nothing else the invariant is about.
LEMMA SaveServerResourcesStep ==
  ASSUME IndInv, NEW r \in Request, SaveServerResources(r)
  PROVE  IndInv'
<1> DEFINE loaded == request[r].loaded
           new == Renewed(request[r], "gone_load")
<1>1. /\ request[r] \in RequestState /\ TypeOK
      /\ Known(request[r], row, cinder, nova, accepted)
      /\ Facts(row, serverRow, cinder, nova, accepted)
  BY IndInvParts DEF TypeOK
<1>2. ASSUME NEW v \in Volume
      PROVE  /\ row'[v] \in Row
             /\ row'[v].life = row[v].life
             /\ row'[v].server \in {row[v].server, NoServer}
  <2>1. loaded[v] \in Row /\ row[v] \in Row
    BY <1>1 DEF RequestState, TypeOK
  <2>2. CASE loaded[v] = AbsentRow
    BY <2>1, <2>2 DEF SaveServerResources
  <2>3. CASE loaded[v] # AbsentRow
    <3> DEFINE entity == DetachFromServer(loaded[v])
    <3>1. row'[v] = Flush(row[v], loaded[v], entity)
      BY <2>3 DEF SaveServerResources
    <3>2. entity \in Row /\ entity.life = loaded[v].life /\ entity.server = NoServer
      BY <2>1 DEF DetachFromServer, Row, VolumeStatus
    <3>3. row'[v] \in Row
      BY <2>1, <3>1, <3>2, FlushType
    <3> HIDE DEF entity
    <3>4. QED
      BY <3>1, <3>2, <3>3 DEF Flush, Column
  <2>4. QED
    BY <2>2, <2>3
<1>3. /\ UNCHANGED <<serverRow, cinder, nova, accepted>>
      /\ row' \in [Volume -> Row]
  BY <1>2 DEF SaveServerResources
<1>4. DataTyped /\ Rely
  BY <1>1, <1>2, <1>3 DEF TypeOK, DataTyped, Rely
<1>5. Facts(row', serverRow', cinder', nova', accepted')
  BY <1>1, <1>2, <1>3 DEF Facts
<1>6. \A q \in Request \ {r} :
        request[q].at = "insert" => row'[request[q].vol].life = "absent"
  BY <1>2, IndInvParts DEF Known, ServerDeletion
<1>7. MovesTo(r, new)
  BY IndInvParts, ContinueMoves DEF SaveServerResources, Location
<1>8. Known(new, row, cinder, nova, accepted) /\ new.at # "insert"
  BY <1>1
  DEF SaveServerResources, Known, Renewed, RequestState, NothingLoaded, Attaching,
      ServerDeletion
<1>9. Known(new, row', cinder', nova', accepted')
  BY <1>4, <1>7, <1>8, KnownIsStable DEF MovesTo
<1>10. QED
  BY <1>4, <1>5, <1>6, <1>7, <1>8, <1>9, RequestStep

\* LoadServerForDeletion keeps the inductive invariant.
LEMMA LoadServerForDeletionStep ==
  ASSUME IndInv, NEW r \in Request, LoadServerForDeletion(r)
  PROVE  IndInv'
<1>1. request[r] \in RequestState /\ Known(request[r], row, cinder, nova, accepted)
  BY IndInvParts DEF TypeOK
<1>2. Known(Waiting(request[r], "gone_poll"), row, cinder, nova, accepted)
  BY <1>1 DEF LoadServerForDeletion, Known, Waiting, RequestState, Attaching, ServerDeletion
<1>3. QED
  BY <1>2, QuietAwait, QuietFinish DEF LoadServerForDeletion, Location

\* PollServerDeletion keeps the inductive invariant.
LEMMA PollServerDeletionStep ==
  ASSUME IndInv, NEW r \in Request, PollServerDeletion(r)
  PROVE  IndInv'
<1>1. request[r] \in RequestState /\ Known(request[r], row, cinder, nova, accepted)
  BY IndInvParts DEF TypeOK
<1>2. ServerIsGone(request[r].srv)
        => Known(Waiting(request[r], "gone_save"), row, cinder, nova, accepted)
  BY <1>1
  DEF PollServerDeletion, ServerIsGone, Known, Waiting, RequestState, Attaching,
      ServerDeletion
<1>3. QED
  BY <1>2, QuietAwait, QuietPollAgain, QuietFinish DEF PollServerDeletion, Location

\* SaveServerDeletion keeps the inductive invariant.
\* The server is marked deleted after it was seen gone.
LEMMA SaveServerDeletionStep ==
  ASSUME IndInv, NEW r \in Request, SaveServerDeletion(r)
  PROVE  IndInv'
<1> DEFINE s == request[r].srv
           new == Renewed(request[r], "root_load")
<1>1. /\ request[r] \in RequestState /\ TypeOK
      /\ Known(request[r], row, cinder, nova, accepted)
      /\ Facts(row, serverRow, cinder, nova, accepted)
  BY IndInvParts DEF TypeOK
<1>2. nova[s] = "GONE" /\ s \in Server
  BY <1>1 DEF SaveServerDeletion, Known, ServerDeletion
<1>3. /\ serverRow' = [serverRow EXCEPT ![s] = "deleted"]
      /\ UNCHANGED <<row, cinder, nova, accepted>>
  BY DEF SaveServerDeletion
<1>4. DataTyped /\ Rely /\ Facts(row', serverRow', cinder', nova', accepted')
  BY <1>1, <1>2, <1>3 DEF TypeOK, DataTyped, Rely, Facts
<1>5. \A q \in Request \ {r} :
        request[q].at = "insert" => row'[request[q].vol].life = "absent"
  BY <1>3, IndInvParts DEF Known
<1>6. MovesTo(r, new)
  BY IndInvParts, ContinueMoves DEF SaveServerDeletion, Location
<1>7. Known(new, row, cinder, nova, accepted) /\ new.at # "insert"
  BY <1>1
  DEF SaveServerDeletion, Known, Renewed, RequestState, NothingLoaded, Attaching,
      ServerDeletion
<1>8. Known(new, row', cinder', nova', accepted')
  BY <1>4, <1>6, <1>7, KnownIsStable DEF MovesTo
<1>9. QED
  BY <1>4, <1>5, <1>6, <1>7, <1>8, RequestStep

\* LoadRootVolume keeps the inductive invariant.
LEMMA LoadRootVolumeStep ==
  ASSUME IndInv, NEW r \in Request, LoadRootVolume(r)
  PROVE  IndInv'
<1> DEFINE v == request[r].vol
<1>1. request[r] \in RequestState /\ Known(request[r], row, cinder, nova, accepted)
  BY IndInvParts DEF TypeOK
<1>2. CASE v # NoVolume /\ Live(row[v]) /\ Load(r, {v}, "root_poll")
  <2>1. v \in Volume
    BY <1>1, <1>2 DEF RequestState
  <2>2. Known(Waiting(request[r], "root_poll"), row, cinder, nova, accepted)
    BY <1>1, <2>1 DEF LoadRootVolume, Known, Waiting, RequestState, Attaching, ServerDeletion
  <2>3. QED
    BY <1>2, <2>1, <2>2, QuietLoadOne DEF LoadRootVolume, Location
<1>3. CASE Finish(r)
  BY <1>3, QuietFinish DEF LoadRootVolume
<1>4. QED
  BY <1>2, <1>3 DEF LoadRootVolume

(***************************************************************************)
(* Failures and OpenStack.                                                 *)
(***************************************************************************)

\* A step that leaves the requests alone.
LEMMA DataStep ==
  ASSUME IndInv, DataTyped, Rely, UNCHANGED <<row, request>>,
         Facts(row', serverRow', cinder', nova', accepted')
  PROVE  IndInv'
<1>1. TypeOK'
  BY IndInvParts DEF TypeOK, DataTyped
<1>2. ASSUME NEW q \in Request
      PROVE  Known(request'[q], row', cinder', nova', accepted')
  BY IndInvParts, KnownIsStable DEF TypeOK, Known
<1>3. QED
  BY <1>1, <1>2, IndInvParts, IndInvPartsPrimed DEF OneInsert

\* A restart forgets the requests and keeps the data.
LEMMA RestartStep ==
  ASSUME IndInv, Restart
  PROVE  IndInv'
<1>1. request' = [r \in Request |-> Idle]
      /\ UNCHANGED <<row, serverRow, cinder, nova, accepted>>
  BY DEF Restart
<1>2. TypeOK' /\ Facts(row', serverRow', cinder', nova', accepted')
  BY <1>1, IndInvParts, IdleType DEF TypeOK
<1>3. Known(Idle, row, cinder, nova, accepted) /\ Idle.at # "insert"
  BY DEF Known, Idle, Attaching, ServerDeletion, NothingLoaded
<1>4. QED
  BY <1>1, <1>2, <1>3, IndInvPartsPrimed DEF OneInsert

\* What Cinder may do to a volume on its own.
LEMMA OutcomesType ==
  ASSUME NEW o \in CinderVolume, NEW c \in Outcomes(o)
  PROVE  /\ c \in CinderVolume
         /\ o.status \notin {"GONE", "UNCREATED"}
         /\ c.status # "UNCREATED"
         /\ c.status = "GONE" => c.host = NoServer
<1>1. /\ o.host \in Server \cup {NoServer} /\ NoServer \in Server \cup {NoServer}
      /\ o.size \in 0..MaxSize /\ o.target \in 0..MaxSize
  BY DEF CinderVolume
<1>2. CASE o.status = "CREATING"
  <2>1. PICK s \in {"AVAILABLE", "ERROR"} : c = Becomes(o, s, NoServer)
    BY <1>2 DEF Outcomes
  <2>2. QED
    BY <1>1, <1>2, <2>1, StatusType, BecomesType
<1>3. CASE o.status = "ATTACHING"
  <2>1. CASE c = Becomes(o, "IN_USE", o.host)
    BY <1>1, <1>3, <2>1, StatusType, BecomesType
  <2>2. ASSUME NEW s \in {"AVAILABLE", "ERROR"}, c = Becomes(o, s, NoServer)
        PROVE  c \in CinderVolume /\ c.status = s
    <3>1. s \in CinderStatus
      BY StatusType
    <3>2. QED
      BY <1>1, <2>2, <3>1, BecomesType
  <2>3. QED
    BY <1>3, <2>1, <2>2, StatusType DEF Outcomes
<1>4. CASE o.status = "DETACHING"
  <2>1. CASE c = Becomes(o, "IN_USE", o.host)
    BY <1>1, <1>4, <2>1, StatusType, BecomesType
  <2>2. ASSUME NEW s \in {"AVAILABLE", "ERROR"}, c = Becomes(o, s, NoServer)
        PROVE  c \in CinderVolume /\ c.status = s
    <3>1. s \in CinderStatus
      BY StatusType
    <3>2. QED
      BY <1>1, <2>2, <3>1, BecomesType
  <2>3. QED
    BY <1>4, <2>1, <2>2, StatusType DEF Outcomes
<1>5. CASE o.status = "EXTENDING"
  <2>1. c \in {[o EXCEPT !.status = "AVAILABLE", !.size = o.target],
               [o EXCEPT !.status = "AVAILABLE", !.target = o.size],
               [o EXCEPT !.status = "ERROR", !.target = o.size]}
    BY <1>5 DEF Outcomes
  <2>2. c \in CinderVolume /\ c.status \in {"AVAILABLE", "ERROR"}
    BY <1>1, <2>1, StatusType DEF CinderVolume
  <2>3. QED
    BY <1>5, <2>2, StatusType
<1>6. CASE o.status = "DELETING"
  <2>1. PICK s \in {"GONE", "ERROR"} : c = Becomes(o, s, NoServer)
    BY <1>6 DEF Outcomes
  <2>2. s \in CinderStatus
    BY StatusType
  <2>3. c \in CinderVolume /\ c.status = s /\ c.host = NoServer
    BY <1>1, <2>1, <2>2, BecomesType
  <2>4. QED
    BY <1>6, <2>1, <2>3, StatusType
<1>7. CASE o.status \notin {"CREATING", "ATTACHING", "DETACHING", "EXTENDING", "DELETING"}
  BY <1>7 DEF Outcomes
<1>8. QED
  BY <1>2, <1>3, <1>4, <1>5, <1>6, <1>7

\* Cinder ends an operation: a volume that is gone stays gone.
LEMMA CinderCompletesStep ==
  ASSUME IndInv, NEW v \in Volume, CinderCompletes(v)
  PROVE  IndInv'
<1>1. TypeOK /\ Facts(row, serverRow, cinder, nova, accepted) /\ cinder[v] \in CinderVolume
  BY IndInvParts DEF TypeOK
<1>2. PICK c \in Outcomes(cinder[v]) : cinder' = [cinder EXCEPT ![v] = c]
  BY DEF CinderCompletes
<1>3. /\ c \in CinderVolume
      /\ cinder[v].status \notin {"GONE", "UNCREATED"}
      /\ c.status # "UNCREATED"
      /\ c.status = "GONE" => c.host = NoServer
  BY <1>1, <1>2, OutcomesType
<1>4. UNCHANGED <<row, serverRow, nova, request, accepted>>
  BY DEF CinderCompletes
<1>5. DataTyped /\ Rely /\ Facts(row', serverRow', cinder', nova', accepted')
  BY <1>1, <1>2, <1>3, <1>4 DEF TypeOK, DataTyped, Rely, Facts
<1>6. QED
  BY <1>4, <1>5, DataStep

\* Nova ends the deletion of a server; volumes that are gone have no host.
LEMMA NovaCompletesDeletionStep ==
  ASSUME IndInv, NEW s \in Server, NovaCompletesDeletion(s)
  PROVE  IndInv'
<1>1. TypeOK /\ Facts(row, serverRow, cinder, nova, accepted)
  BY IndInvParts
<1>2. UNCHANGED <<row, serverRow, request, accepted>>
  BY DEF NovaCompletesDeletion
<1>3. ASSUME NEW v \in Volume
      PROVE  /\ cinder'[v] \in CinderVolume
             /\ cinder[v].status = "GONE" => cinder'[v] = cinder[v]
             /\ cinder'[v] = cinder[v]
                  \/ cinder'[v].status \in {"DELETING", "AVAILABLE"}
  <2> DEFINE st == IF v \in RootVolume THEN "DELETING" ELSE "AVAILABLE"
  <2>1. /\ cinder[v] \in CinderVolume /\ cinder[v].size \in 0..MaxSize
        /\ cinder[v].status = "GONE" => cinder[v].host = NoServer
    BY <1>1 DEF TypeOK, Facts, CinderVolume
  <2>2. cinder'[v] = IF cinder[v].host # s THEN cinder[v] ELSE Becomes(cinder[v], st, NoServer)
    BY DEF NovaCompletesDeletion
  <2>3. st \in {"DELETING", "AVAILABLE"}
    OBVIOUS
  <2> HIDE DEF st
  <2>4. NoServer \in Server \cup {NoServer} /\ st \in CinderStatus
    BY <2>3, StatusType
  <2>5. Becomes(cinder[v], st, NoServer) \in CinderVolume /\ Becomes(cinder[v], st, NoServer).status = st
    BY <2>1, <2>4, BecomesType
  <2>6. QED
    BY <2>1, <2>2, <2>3, <2>5, OrmAssumption
<1>4. DataTyped
  BY <1>1, <1>2, <1>3 DEF TypeOK, DataTyped, NovaCompletesDeletion
<1>5. Rely /\ Facts(row', serverRow', cinder', nova', accepted')
  BY <1>1, <1>2, <1>3 DEF TypeOK, Rely, Facts, NovaCompletesDeletion
<1>6. QED
  BY <1>2, <1>4, <1>5, DataStep

(***************************************************************************)
(* The theorems.                                                           *)
(***************************************************************************)

\* The initial states satisfy the inductive invariant.
LEMMA InitEstablishes == Init => IndInv
<1> SUFFICES ASSUME Init PROVE IndInv
  OBVIOUS
<1>1. /\ request = [r \in Request |-> Idle] /\ serverRow = [s \in Server |-> "live"]
      /\ nova = [s \in Server |-> "EXISTS"] /\ accepted = {}
  BY DEF Init
<1>2. PICK existing \in SUBSET (Volume \ RootVolume), home \in [RootVolume -> Server] :
        /\ row = [v \in Volume |->
             IF v \in RootVolume
               THEN [life |-> "live", status |-> "AVAILABLE", server |-> home[v], size |-> 1]
             ELSE IF v \in existing THEN CompleteCreation(New(1))
             ELSE AbsentRow]
        /\ cinder = [v \in Volume |->
             IF v \in RootVolume
               THEN [status |-> "IN_USE", host |-> home[v], size |-> 1, target |-> 1]
             ELSE IF v \in existing
               THEN [status |-> "AVAILABLE", host |-> NoServer, size |-> 1, target |-> 1]
             ELSE Uncreated]
  BY DEF Init
<1>3. 0 \in 0..MaxSize /\ 1 \in 0..MaxSize
  BY OrmAssumption
<1>4. ASSUME NEW v \in Volume
      PROVE  /\ row[v] \in Row /\ cinder[v] \in CinderVolume
             /\ row[v].life # "deleted" /\ cinder[v].status # "GONE"
             /\ row[v].life = "absent" => row[v].server = NoServer
             /\ v \notin RootVolume => row[v].server = NoServer
  BY <1>2, <1>3
  DEF Row, CinderVolume, CinderStatus, VolumeStatus, CompleteCreation, New, AbsentRow,
      Uncreated
<1>5. row \in [Volume -> Row] /\ cinder \in [Volume -> CinderVolume]
  BY <1>2, <1>4
<1>6. TypeOK
  BY <1>1, <1>5, IdleType DEF TypeOK
<1>7. Facts(row, serverRow, cinder, nova, accepted)
  BY <1>1, <1>4 DEF Facts
<1>8. Known(Idle, row, cinder, nova, accepted) /\ Idle.at = "idle"
  BY DEF Known, Idle, Attaching, ServerDeletion, NothingLoaded
<1>9. QED
  BY <1>1, <1>6, <1>7, <1>8, IndInvParts DEF OneInsert

\* So does every first step of a request, ...
LEMMA BeginKeeps ==
  ASSUME IndInv, NEW r \in Request, Begin(r)
  PROVE  IndInv'
  BY CreateVolumeStep, ResizeVolumeStep, AttachVolumeStep, DetachVolumeStep,
     DeleteVolumeStep, DeleteServerStep
  DEF Begin, VolumeRequest, ServerRequest

\* ... every later one, ...
LEMMA ResumeKeeps ==
  ASSUME IndInv, NEW r \in Request, Resume(r)
  PROVE  IndInv'
<1>1. CASE InsertVolume(r) \/ PollCreation(r) \/ LoadCreated(r) \/ SaveCreated(r)
  BY <1>1, InsertVolumeStep, PollCreationStep, LoadCreatedStep, SaveCreatedStep
<1>2. CASE NovaAttach(r) \/ SaveAttaching(r) \/ PollAttachment(r)
           \/ LoadAttached(r) \/ SaveAttached(r)
  BY <1>2, NovaAttachStep, SaveAttachingStep, PollAttachmentStep, LoadAttachedStep,
     SaveAttachedStep
<1>3. CASE NovaDetach(r) \/ PollDetachment(r) \/ LoadDetached(r)
           \/ SaveDetached(r) \/ CommitDetachVolumeFromServer(r)
  BY <1>3, NovaDetachStep, PollDetachmentStep, LoadDetachedStep, SaveDetachedStep,
     CommitDetachVolumeFromServerStep
<1>4. CASE CinderExtend(r) \/ PollResize(r) \/ SaveResize(r)
  BY <1>4, CinderExtendStep, PollResizeStep, SaveResizeStep
<1>5. CASE CinderDelete(r)
  BY <1>5, CinderDeleteStep
<1>6. CASE PollDeletion(r)
  BY <1>6, PollUntilVolumeIsGoneStep DEF PollDeletion
<1>7. CASE PollRootDeletion(r)
  BY <1>7, PollUntilVolumeIsGoneStep DEF PollRootDeletion
<1>8. CASE SaveDeletion(r)
  BY <1>8, SoftDeleteStep DEF SaveDeletion
<1>9. CASE SaveRootDeletion(r)
  BY <1>9, SoftDeleteStep DEF SaveRootDeletion
<1>10. CASE NovaDelete(r) \/ LoadServerResources(r) \/ RemovePorts(r)
            \/ SaveServerResources(r)
  BY <1>10, NovaDeleteStep, LoadServerResourcesStep, RemovePortsStep,
     SaveServerResourcesStep
<1>11. CASE LoadServerForDeletion(r) \/ PollServerDeletion(r) \/ SaveServerDeletion(r)
            \/ LoadRootVolume(r)
  BY <1>11, LoadServerForDeletionStep, PollServerDeletionStep, SaveServerDeletionStep,
     LoadRootVolumeStep
<1>12. QED
  BY <1>1, <1>2, <1>3, <1>4, <1>5, <1>6, <1>7, <1>8, <1>9, <1>10, <1>11 DEF Resume

\* ... and every step there is.
LEMMA NextKeeps == IndInv /\ [Next]_vars => IndInv'
<1> SUFFICES ASSUME IndInv, [Next]_vars PROVE IndInv'
  OBVIOUS
<1>1. CASE \E r \in Request : Begin(r) \/ Resume(r)
  BY <1>1, BeginKeeps, ResumeKeeps
<1>2. CASE \E r \in Request : CallFails(r)
  BY <1>2, QuietFinish DEF CallFails
<1>3. CASE Restart
  BY <1>3, RestartStep
<1>4. CASE OpenStack
  BY <1>4, CinderCompletesStep, NovaCompletesDeletionStep DEF OpenStack
<1>5. CASE UNCHANGED vars
  BY <1>5, IndInvParts, IndInvPartsPrimed DEF vars, TypeOK
<1>6. QED
  BY <1>1, <1>2, <1>3, <1>4, <1>5 DEF Next

\* Every reachable state satisfies the inductive invariant.
THEOREM Invariance == Spec => []IndInv
  BY InitEstablishes, NextKeeps, PTL DEF Spec

\* Every variable keeps its type: rows stay within the columns' domains, every
\* suspended request is at one of the awaits of its handler, and no poll loop
\* makes more than MaxPolls attempts.
THEOREM TypeCorrect == Spec => []TypeOK
<1>1. IndInv => TypeOK
  BY DEF IndInv
<1>2. QED
  BY <1>1, Invariance, PTL

\* delete_volume and wait_volume_until_deleted_and_finalize mark a volume
\* deleted only when Cinder has none under its id: for any number of volumes and
\* concurrent requests, with lost answers and restarts.
THEOREM DeletedVolumeSafe == Spec => []DeletedVolumeIsGone
<1>1. IndInv => DeletedVolumeIsGone
  BY DEF IndInv
<1>2. QED
  BY <1>1, Invariance, PTL

\* check_server_until_deleted_and_remove_resources marks a server deleted only
\* when Nova has none under its id.
THEOREM DeletedServerSafe == Spec => []DeletedServerIsGone
<1>1. IndInv => DeletedServerIsGone
  BY DEF IndInv
<1>2. QED
  BY <1>1, Invariance, PTL

\* The server_id of a data volume is always a server Nova once accepted an
\* attachment to.
THEOREM AttachmentSafe == Spec => []AttachmentWasAccepted
<1>1. IndInv => AttachmentWasAccepted
  BY DEF IndInv
<1>2. QED
  BY <1>1, Invariance, PTL

(***************************************************************************)
(* The action property.                                                    *)
(***************************************************************************)

\* Every row that is marked deleted stays marked.
NoneUndeleted == \A v \in Volume : row[v].life = "deleted" => row'[v].life = "deleted"

\* A commit never undeletes: an entity whose life was not touched leaves the
\* stored column alone, however stale it is, and the only other value the
\* services write is "deleted".
LEMMA SaveUndeletesNothing ==
  ASSUME IndInv, NEW r \in Request, NEW entity \in Row, Save(r, entity),
         request[r].at \notin ServerDeletion \cup {"idle", "insert"},
         entity.life \in {Entity(r).life, "deleted"}
  PROVE  NoneUndeleted
<1>1. request[r].vol \in Volume /\ TypeOK
  BY Committing, IndInvParts
<1>2. row[request[r].vol].life = "deleted" =>
        Flush(row[request[r].vol], Entity(r), entity).life = "deleted"
  BY DEF Flush, Column
<1>3. QED
  BY <1>1, <1>2 DEF Save, TypeOK, NoneUndeleted

\* The commits that go through Save.
LEMMA CommitsUndeleteNothing ==
  ASSUME IndInv, NEW r \in Request,
         \/ SaveCreated(r) \/ SaveAttaching(r) \/ SaveAttached(r)
         \/ SaveDetached(r) \/ SaveDeletion(r) \/ SaveRootDeletion(r)
  PROVE  NoneUndeleted
<1>1. /\ request[r].at \notin ServerDeletion \cup {"idle", "insert"}
      /\ request[r].at = "attach_save" => request[r].seen # "NOTHING"
      /\ request[r].at = "detach_save" => request[r].seen \in VolumeStatus
  BY IndInvParts
  DEF Known, SaveCreated, SaveAttaching, SaveAttached, SaveDetached, SaveDeletion,
      SaveRootDeletion, ServerDeletion
<1>2. Entity(r) \in Row /\ request[r].srv \in Server \cup {NoServer}
      /\ request[r].seen \in VolumeStatus \cup {"NOTHING", "TIMEOUT"}
  BY <1>1, Committing DEF RequestState
<1>3. PICK entity \in Row :
        Save(r, entity) /\ entity.life \in {Entity(r).life, "deleted"}
  <2>1. CASE SaveCreated(r)
    BY <1>2, <2>1 DEF SaveCreated, Created, CompleteCreation, FailCreation, Row, VolumeStatus
  <2>2. CASE SaveAttaching(r)
    BY <1>2, <2>2 DEF SaveAttaching, PrepareForAttachment, Row, VolumeStatus
  <2>3. CASE SaveAttached(r)
    <3> DEFINE entity == Attached(Entity(r), request[r].seen, request[r].srv)
    <3>1. entity \in Row /\ entity.life = Entity(r).life
      BY <1>1, <1>2, <2>3
      DEF SaveAttached, Attached, AttachToServer, FailAttachment, UpdateStatus, Row,
          VolumeStatus
    <3>2. Save(r, entity)
      BY <2>3 DEF SaveAttached
    <3> HIDE DEF entity
    <3>3. QED
      BY <3>1, <3>2
  <2>4. CASE SaveDetached(r)
    <3>1. /\ DetachFromServer(Entity(r)) \in Row
          /\ DetachFromServer(Entity(r)).life = Entity(r).life
      BY <1>2 DEF DetachFromServer, Row, VolumeStatus
    <3>2. /\ UpdateStatus(Entity(r), request[r].seen) \in Row
          /\ UpdateStatus(Entity(r), request[r].seen).life = Entity(r).life
      BY <1>1, <1>2, <2>4 DEF SaveDetached, UpdateStatus, Row
    <3>3. \/ Save(r, DetachFromServer(Entity(r)))
          \/ Save(r, UpdateStatus(Entity(r), request[r].seen))
      BY <2>4 DEF SaveDetached
    <3>4. QED
      BY <3>1, <3>2, <3>3
  <2>5. CASE SaveDeletion(r) \/ SaveRootDeletion(r)
    BY <1>2, <2>5 DEF SaveDeletion, SaveRootDeletion, SoftDelete, Row
  <2>6. QED
    BY <2>1, <2>2, <2>3, <2>4, <2>5
<1>4. QED
  BY <1>1, <1>3, SaveUndeletesNothing

\* The writes that do not: an INSERT finds no row, and the other two leave the
\* column alone.
LEMMA OtherWritesUndeleteNothing ==
  ASSUME IndInv, NEW r \in Request,
         \/ InsertVolume(r)
         \/ CommitDetachVolumeFromServer(r)
         \/ SaveServerResources(r)
  PROVE  NoneUndeleted
<1>1. TypeOK /\ Known(request[r], row, cinder, nova, accepted)
  BY IndInvParts
<1>2. CASE InsertVolume(r)
  BY <1>1, <1>2 DEF InsertVolume, Known, TypeOK, NoneUndeleted, ServerDeletion
<1>3. CASE CommitDetachVolumeFromServer(r)
  <2>1. \A e \in Row : PrepareForDetachment(e).life = e.life
    BY DEF PrepareForDetachment, Row
  <2>2. QED
    BY <1>1, <1>3, <2>1 DEF CommitDetachVolumeFromServer, TypeOK, NoneUndeleted
<1>4. CASE SaveServerResources(r)
  <2>1. ASSUME NEW v \in Volume
        PROVE  row'[v].life = row[v].life
    <3>1. request[r].loaded[v] \in Row
      BY <1>1 DEF TypeOK, RequestState
    <3>2. DetachFromServer(request[r].loaded[v]).life = request[r].loaded[v].life
      BY <3>1 DEF DetachFromServer, Row
    <3>3. QED
      BY <1>4, <3>2 DEF SaveServerResources, Flush, Column
  <2>2. QED
    BY <2>1 DEF NoneUndeleted
<1>5. QED
  BY <1>2, <1>3, <1>4

\* Every other step leaves the volume table alone.
LEMMA NextUndeletesNothing == IndInv /\ [Next]_vars => NoneUndeleted
<1> SUFFICES ASSUME IndInv, [Next]_vars, row' # row
             PROVE  NoneUndeleted
  BY DEF NoneUndeleted
<1>1. PICK r \in Request :
        \/ SaveCreated(r) \/ SaveAttaching(r) \/ SaveAttached(r)
        \/ SaveDetached(r) \/ SaveDeletion(r) \/ SaveRootDeletion(r)
        \/ InsertVolume(r) \/ CommitDetachVolumeFromServer(r)
        \/ SaveServerResources(r)
  <2>1. ~OpenStack /\ ~Restart /\ ~UNCHANGED vars
    BY DEF OpenStack, CinderCompletes, NovaCompletesDeletion, Restart, vars
  <2>2. \A r \in Request : ~Begin(r) /\ ~CallFails(r)
    BY DEF Begin, VolumeRequest, ServerRequest,
           CreateVolume, ResizeVolume, AttachVolume, DetachVolume,
           DeleteVolume, DeleteServer, CallFails
  <2>3. PICK r \in Request : Resume(r)
    BY <2>1, <2>2 DEF Next
  <2>4. /\ ~PollCreation(r) /\ ~PollAttachment(r) /\ ~PollDetachment(r) /\ ~PollResize(r)
        /\ ~PollDeletion(r) /\ ~PollServerDeletion(r) /\ ~PollRootDeletion(r)
    BY DEF PollCreation, PollAttachment, PollDetachment, PollResize, PollDeletion,
           PollServerDeletion, PollRootDeletion, Poll, PollUntilVolumeIsGone
  <2>5. /\ ~LoadCreated(r) /\ ~LoadAttached(r) /\ ~LoadDetached(r)
        /\ ~LoadServerResources(r) /\ ~LoadServerForDeletion(r) /\ ~LoadRootVolume(r)
    BY DEF LoadCreated, LoadAttached, LoadDetached, LoadServerResources,
           LoadServerForDeletion, LoadRootVolume
  <2>6. /\ ~NovaAttach(r) /\ ~NovaDetach(r) /\ ~CinderExtend(r) /\ ~CinderDelete(r)
        /\ ~NovaDelete(r) /\ ~RemovePorts(r) /\ ~SaveServerDeletion(r) /\ ~SaveResize(r)
    BY DEF NovaAttach, NovaDetach, CinderExtend, CinderDelete, NovaDelete,
           RemovePorts, SaveServerDeletion, SaveResize
  <2>7. QED
    BY <2>3, <2>4, <2>5, <2>6 DEF Resume
<1>2. QED
  BY <1>1, CommitsUndeleteNothing, OtherWritesUndeleteNothing

\* No commit, from however stale an entity, brings a deleted row back: deletions
\* are final among any number of concurrent units of work.
THEOREM SoftDeleteFinal == Spec => SoftDeleteIsFinal
<1>1. IndInv /\ [Next]_vars =>
        [\A v \in Volume : row[v].life = "deleted" => row'[v].life = "deleted"]_row
  BY NextUndeletesNothing DEF NoneUndeleted
<1>2. QED
  BY <1>1, Invariance, PTL DEF Spec, SoftDeleteIsFinal

(***************************************************************************)
(* Requests about different volumes and servers.  ApartInv, taken apart    *)
(* like IndInv: what is true of the tables, and what a request knows of    *)
(* the rows it works on.                                                   *)
(***************************************************************************)

On(rw, s) == {v \in Volume : rw[v].server = s}

Skipped(rw, s, loaded) == {v \in On(rw, s) : loaded[v] = AbsentRow}

Sound(rw, sr) ==
  /\ \A v \in Volume :
       /\ rw[v].status = "IN_USE" => rw[v].server # NoServer
       /\ rw[v].server # NoServer /\ rw[v].life = "deleted" => sr[rw[v].server] = "deleted"
  /\ \A s \in Server : sr[s] = "deleted" => AtMostHalf(On(rw, s))

Owned(q, rw, sr) ==
  /\ q.at \in HoldsItsRow => q.loaded[q.vol] = rw[q.vol]
  /\ \A v \in Volume :
       q.at \notin Resizing \cup {"idle"} /\ q.loaded[v] # AbsentRow
         => /\ q.loaded[v] = rw[v]
            /\ v # q.vol => q.srv # NoServer /\ rw[v].server = q.srv
  /\ q.vol \in Volume =>
       /\ q.at \notin Resizing \cup {"idle"} => rw[q.vol].server \in {NoServer, q.srv}
       /\ q.at \in {"cinder_delete", "delete_poll", "delete_save"}
            => rw[q.vol].server = NoServer
       /\ q.at \in {"root_load", "root_poll", "root_save"}
            => q.srv \in Server /\ sr[q.srv] = "deleted"
       /\ q.at \in {"nova_delete", "remove_load", "remove_ports", "remove_save"}
            => rw[q.vol].server = q.srv
  /\ q.at \in {"remove_ports", "remove_save"} => AtMostHalf(Skipped(rw, q.srv, q.loaded))
  /\ q.at \in {"gone_load", "gone_poll", "gone_save"} => AtMostHalf(On(rw, q.srv))
  /\ q.at = "attach_save" /\ q.seen = "IN_USE" =>
       sr[q.srv] = "live" /\ rw[q.vol].life = "live"
  /\ q.at \in {"detach_load", "detach_save"} => q.seen # "IN_USE"

\* ApartInv is Sound of the tables and Owned of every request.
LEMMA ApartInvParts ==
  ApartInv <=> /\ Sound(row, serverRow)
               /\ \A r \in Request : Owned(request[r], row, serverRow)
  BY DEF ApartInv, InUseHasServer, DeletedServerKeepsAtMostHalf, LiveServerHasLiveVolumes,
         LoadedIsStored, ServerOfItsVolume, VolumesOfItsServer, Sound, Owned, On, Skipped

\* The same of the next state.
LEMMA ApartInvPartsPrimed ==
  ApartInv' <=> /\ Sound(row', serverRow')
                /\ \A r \in Request : Owned(request'[r], row', serverRow')
  BY DEF ApartInv, InUseHasServer, DeletedServerKeepsAtMostHalf, LiveServerHasLiveVolumes,
         LoadedIsStored, ServerOfItsVolume, VolumesOfItsServer, Sound, Owned, On, Skipped

\* Part of what is at most half is at most half.
LEMMA FewerIsAtMostHalf ==
  ASSUME NEW vs \in SUBSET Volume, NEW ws \in SUBSET vs, AtMostHalf(vs)
  PROVE  AtMostHalf(ws)
<1>1. IsFiniteSet(vs)
  BY LifecycleAssumption, FS_Subset
<1>2. IsFiniteSet(ws) /\ Cardinality(ws) <= Cardinality(vs)
  BY <1>1, FS_Subset
<1>3. Cardinality(vs) \in Nat /\ Cardinality(ws) \in Nat /\ Cardinality(Volume) \in Nat
  BY <1>1, <1>2, LifecycleAssumption, FS_CardinalityType
<1>4. QED
  BY <1>2, <1>3 DEF AtMostHalf

\* As long as no volume is added to a server, no more than half of all stay on it.
LEMMA NoVolumeIsAdded ==
  ASSUME NEW rw, NEW new, NEW s,
         \A v \in Volume : new[v].server = s => rw[v].server = s
  PROVE  /\ AtMostHalf(On(rw, s)) => AtMostHalf(On(new, s))
         /\ \A loaded : AtMostHalf(Skipped(rw, s, loaded)) => AtMostHalf(Skipped(new, s, loaded))
<1>1. On(rw, s) \in SUBSET Volume /\ On(new, s) \in SUBSET On(rw, s)
  BY DEF On
<1>2. \A loaded : /\ Skipped(rw, s, loaded) \in SUBSET Volume
                  /\ Skipped(new, s, loaded) \in SUBSET Skipped(rw, s, loaded)
  BY <1>1 DEF Skipped
<1>3. QED
  BY <1>1, <1>2, FewerIsAtMostHalf

\* The loop of _remove_server_resources steps over no more than it reaches.
LEMMA ReachesHalf ==
  ASSUME NEW vs \in SUBSET Volume, NEW reached \in EverySecond(vs)
  PROVE  AtMostHalf(vs \ reached)
<1>1. IsFiniteSet(vs) /\ Cardinality(vs) <= Cardinality(Volume)
  BY LifecycleAssumption, FS_Subset
<1>2. reached \in SUBSET vs
      /\ 2 * Cardinality(reached) \in {Cardinality(vs), Cardinality(vs) + 1}
  BY DEF EverySecond
<1>3. IsFiniteSet(reached) /\ vs \cap reached = reached
  BY <1>1, <1>2, FS_Subset
<1>4. Cardinality(vs \ reached) = Cardinality(vs) - Cardinality(reached)
  BY <1>1, <1>3, FS_Difference
<1>5. Cardinality(vs) \in Nat /\ Cardinality(reached) \in Nat /\ Cardinality(Volume) \in Nat
  BY <1>1, <1>3, LifecycleAssumption, FS_CardinalityType
<1>6. QED
  BY <1>1, <1>2, <1>4, <1>5 DEF AtMostHalf

\* A step of r writes only rows that are r's: its volume and those on its server.
Confined(r) ==
  /\ \A v \in Volume : row'[v] # row[v] =>
       /\ v = request[r].vol \/ (row[v].server = request[r].srv /\ request[r].srv # NoServer)
       /\ row[v].server \in {NoServer, request[r].srv}
       /\ row'[v].server \in {NoServer, request[r].srv}
  /\ \A s \in Server : serverRow'[s] # serverRow[s] => s = request[r].srv

\* What a request knows of its rows survives the steps of the others.
LEMMA OwnedIsStable ==
  ASSUME IndInv, Apart, NEW r \in Request, NEW q \in Request, q # r, Confined(r),
         Owned(request[q], row, serverRow)
  PROVE  Owned(request[q], row', serverRow')
<1> DEFINE k == request[q]
<1>1. /\ k \in RequestState
      /\ k.vol \in Volume => request[r].vol # k.vol
      /\ k.srv # NoServer => request[r].srv # k.srv
  BY IndInvParts, LifecycleAssumption DEF TypeOK, Apart
<1>2. /\ k.at \in ServerDeletion => k.srv \in Server
      /\ k.at \in Attaching => k.vol \in Volume /\ k.srv \in Server
      /\ k.at \notin ServerDeletion \cup {"idle"} => k.vol \in Volume
  BY IndInvParts DEF Known, TypeOK
<1>3. ASSUME k.vol \in Volume, k.at \notin Resizing \cup {"idle"}
      PROVE  row'[k.vol] = row[k.vol]
  BY <1>1, <1>3 DEF Confined, Owned
<1>4. ASSUME NEW v \in Volume, k.at \notin Resizing \cup {"idle"}, k.loaded[v] # AbsentRow
      PROVE  row'[v] = row[v]
  BY <1>1, <1>3, <1>4 DEF Confined, Owned
<1>5. ASSUME NEW v \in Volume, k.srv \in Server, row'[v].server = k.srv
      PROVE  row'[v] = row[v]
  BY <1>1, <1>5, OrmAssumption DEF Confined
<1>6. k.srv \in Server => serverRow'[k.srv] = serverRow[k.srv]
  BY <1>1, OrmAssumption DEF Confined
<1>7. k.at \in HoldsItsRow => k.loaded[k.vol] = row'[k.vol]
  BY <1>2, <1>3 DEF Owned, HoldsItsRow, Resizing, ServerDeletion
<1>8. ASSUME NEW v \in Volume, k.at \notin Resizing \cup {"idle"}, k.loaded[v] # AbsentRow
      PROVE  k.loaded[v] = row'[v] /\ (v # k.vol => k.srv # NoServer /\ row'[v].server = k.srv)
  BY <1>4, <1>8 DEF Owned
<1>9. ASSUME k.vol \in Volume
      PROVE  /\ k.at \notin Resizing \cup {"idle"} => row'[k.vol].server \in {NoServer, k.srv}
             /\ k.at \in {"cinder_delete", "delete_poll", "delete_save"}
                  => row'[k.vol].server = NoServer
             /\ k.at \in {"root_load", "root_poll", "root_save"}
                  => k.srv \in Server /\ serverRow'[k.srv] = "deleted"
             /\ k.at \in {"nova_delete", "remove_load", "remove_ports", "remove_save"}
                  => row'[k.vol].server = k.srv
  BY <1>3, <1>6, <1>9 DEF Owned, Resizing
<1>10. ASSUME k.srv \in Server
       PROVE  /\ On(row', k.srv) \in SUBSET On(row, k.srv)
              /\ On(row, k.srv) \in SUBSET Volume
              /\ Skipped(row', k.srv, k.loaded) \in SUBSET Skipped(row, k.srv, k.loaded)
              /\ Skipped(row, k.srv, k.loaded) \in SUBSET Volume
  BY <1>5, <1>10 DEF On, Skipped
<1>11. /\ k.at \in {"remove_ports", "remove_save"}
            => AtMostHalf(Skipped(row', k.srv, k.loaded))
       /\ k.at \in {"gone_load", "gone_poll", "gone_save"} => AtMostHalf(On(row', k.srv))
  <2>1. /\ k.at \in {"remove_ports", "remove_save"}
             => AtMostHalf(Skipped(row, k.srv, k.loaded))
        /\ k.at \in {"gone_load", "gone_poll", "gone_save"} => AtMostHalf(On(row, k.srv))
    BY DEF Owned
  <2>2. k.at \in {"remove_ports", "remove_save", "gone_load", "gone_poll", "gone_save"}
          => k.srv \in Server
    BY <1>2 DEF ServerDeletion
  <2>3. QED
    BY <1>10, <2>1, <2>2, FewerIsAtMostHalf
<1>12. ASSUME k.at = "attach_save", k.seen = "IN_USE"
       PROVE  serverRow'[k.srv] = "live" /\ row'[k.vol].life = "live"
  BY <1>2, <1>3, <1>6, <1>12 DEF Owned, Attaching, Resizing
<1>13. k.at \in {"detach_load", "detach_save"} => k.seen # "IN_USE"
  BY DEF Owned
<1> HIDE DEF k
<1>14. Owned(k, row', serverRow')
  BY <1>7, <1>8, <1>9, <1>11, <1>12, <1>13 DEF Owned
<1>15. QED
  BY <1>14 DEF k

\* A step of request r that leaves it in the state `new`.
LEMMA ApartStep ==
  ASSUME IndInv, Apart, ApartInv, NEW r \in Request, NEW new, MovesTo(r, new), Confined(r),
         Sound(row', serverRow'), Owned(new, row', serverRow')
  PROVE  ApartInv'
<1>1. ASSUME NEW q \in Request
      PROVE  Owned(request'[q], row', serverRow')
  <2>1. CASE q = r
    BY <2>1, IndInvParts DEF TypeOK, MovesTo
  <2>2. CASE q # r
    <3>1. request'[q] = request[q]
      BY <2>2, IndInvParts DEF TypeOK, MovesTo
    <3>2. QED
      BY <2>2, <3>1, ApartInvParts, OwnedIsStable
  <2>3. QED
    BY <2>1, <2>2
<1>2. QED
  BY <1>1, ApartInvPartsPrimed

\* A step that writes no row.
LEMMA ApartQuiet ==
  ASSUME IndInv, Apart, ApartInv, NEW r \in Request, NEW new, MovesTo(r, new),
         UNCHANGED <<row, serverRow>>, Owned(new, row, serverRow)
  PROVE  ApartInv'
<1>1. Confined(r)
  BY DEF Confined
<1>2. Sound(row', serverRow')
  BY ApartInvParts
<1>3. QED
  BY <1>1, <1>2, ApartStep

\* A request that has ended owns nothing.
LEMMA IdleOwns ==
  ASSUME NEW rw, NEW sr
  PROVE  Owned(Idle, rw, sr) /\ Idle \in RequestState
  BY IdleType, LifecycleAssumption
  DEF Owned, Idle, NothingLoaded, HoldsItsRow, Resizing

\* The request ends and no row is written.
LEMMA ApartFinish ==
  ASSUME IndInv, Apart, ApartInv, NEW r \in Request, Finish(r),
         UNCHANGED <<row, serverRow>>
  PROVE  ApartInv'
  BY IdleOwns, ApartQuiet DEF Finish, MovesTo

\* The request polls again.
LEMMA ApartPollAgain ==
  ASSUME IndInv, Apart, ApartInv, NEW r \in Request, PollAgain(r),
         UNCHANGED <<row, serverRow>>
  PROVE  ApartInv'
<1>1. MovesTo(r, PolledAgain(request[r])) /\ request[r] \in RequestState
  BY IndInvParts, PollAgainMoves DEF TypeOK
<1>2. Owned(request[r], row, serverRow)
  BY ApartInvParts
<1>3. /\ PolledAgain(request[r]).at = request[r].at
      /\ PolledAgain(request[r]).vol = request[r].vol
      /\ PolledAgain(request[r]).srv = request[r].srv
      /\ PolledAgain(request[r]).seen = request[r].seen
      /\ PolledAgain(request[r]).loaded = request[r].loaded
  BY <1>1 DEF PolledAgain, RequestState
<1>4. Owned(PolledAgain(request[r]), row, serverRow)
  BY <1>2, <1>3 DEF Owned
<1>5. QED
  BY <1>1, <1>4, ApartQuiet

\* The request goes on to `label` with what it holds.
LEMMA ApartAwait ==
  ASSUME IndInv, Apart, ApartInv, NEW r \in Request, NEW label \in Location,
         Await(r, label), UNCHANGED <<row, serverRow>>,
         Owned(Waiting(request[r], label), row, serverRow)
  PROVE  ApartInv'
  BY IndInvParts, AwaitMoves, ApartQuiet

\* The fields of a request that goes on.
LEMMA MovedFields ==
  ASSUME NEW q \in RequestState, NEW label \in Location,
         NEW status \in VolumeStatus \cup {"TIMEOUT"}, NEW vs \in SUBSET Volume
  PROVE  /\ Waiting(q, label).at = label /\ Waiting(q, label).vol = q.vol
         /\ Waiting(q, label).srv = q.srv /\ Waiting(q, label).seen = q.seen
         /\ Waiting(q, label).loaded = q.loaded
         /\ Told(q, status, label).at = label /\ Told(q, status, label).vol = q.vol
         /\ Told(q, status, label).srv = q.srv /\ Told(q, status, label).seen = status
         /\ Told(q, status, label).loaded = q.loaded
         /\ Holding(q, vs, label).at = label /\ Holding(q, vs, label).vol = q.vol
         /\ Holding(q, vs, label).srv = q.srv /\ Holding(q, vs, label).seen = q.seen
         /\ \A v \in Volume :
              Holding(q, vs, label).loaded[v] = IF v \in vs THEN row[v] ELSE AbsentRow
         /\ Renewed(q, label).at = label /\ Renewed(q, label).vol = q.vol
         /\ Renewed(q, label).srv = q.srv /\ Renewed(q, label).seen = "NOTHING"
         /\ \A v \in Volume : Renewed(q, label).loaded[v] = AbsentRow
  BY DEF Waiting, Told, Holding, Renewed, RequestState, Snapshot, NothingLoaded

\* The fields of a request that starts.
LEMMA StartedFields ==
  ASSUME NEW v, NEW s, NEW size, NEW vs \in SUBSET Volume, NEW label
  PROVE  /\ Started(v, s, size, vs, label).at = label
         /\ Started(v, s, size, vs, label).vol = v
         /\ Started(v, s, size, vs, label).srv = s
         /\ \A w \in Volume :
              Started(v, s, size, vs, label).loaded[w] = IF w \in vs THEN row[w] ELSE AbsentRow
  BY DEF Started, Idle, Snapshot

\* One turn of a poll loop whose status the next step writes.
LEMMA ApartPoll ==
  ASSUME IndInv, Apart, ApartInv, NEW r \in Request, NEW pending, NEW label \in Location,
         Poll(r, pending, label),
         \A status \in VolumeStatus \cup {"TIMEOUT"} :
           Owned(Told(request[r], status, label), row, serverRow)
  PROVE  ApartInv'
<1>1. ASSUME NEW status \in VolumeStatus \cup {"TIMEOUT"}, Observe(r, status, label),
             UNCHANGED <<row, serverRow>>
      PROVE  ApartInv'
  BY <1>1, IndInvParts, ObserveMoves, ApartQuiet
<1>2. CinderKnows(r) => CinderStatusOf(r) \in VolumeStatus
  BY DEF CinderKnows
<1>3. QED
  BY <1>1, <1>2, ApartPollAgain, ApartFinish DEF Poll

\* A request about one volume begins with that row loaded, or with none.
LEMMA ApartStart ==
  ASSUME IndInv, Apart, ApartInv, NEW r \in Request, NEW v \in Volume,
         NEW s \in Server \cup {NoServer}, NEW size \in 0..MaxSize, NEW vs \in SUBSET {v},
         NEW label \in {"insert", "nova_attach", "nova_detach", "extend", "cinder_delete"},
         Start(r, v, s, size, vs, label), UNCHANGED <<row, serverRow>>,
         label \in HoldsItsRow => vs = {v},
         label = "cinder_delete" => row[v].server = NoServer,
         label # "extend" => row[v].server \in {NoServer, s}
  PROVE  ApartInv'
<1>1. label \in Location /\ vs \in SUBSET Volume
  BY DEF Location
<1>2. MovesTo(r, Started(v, s, size, vs, label))
  BY <1>1, IndInvParts, StartMoves
<1> DEFINE new == Started(v, s, size, vs, label)
<1>3. /\ new.at = label /\ new.vol = v /\ new.srv = s
      /\ \A w \in Volume : new.loaded[w] = IF w \in vs THEN row[w] ELSE AbsentRow
  BY <1>1, StartedFields
<1> HIDE DEF new
<1>4. \A w \in Volume : new.loaded[w] # AbsentRow => new.loaded[w] = row[w] /\ w = v
  BY <1>3
<1>5. new.at \in HoldsItsRow => new.loaded[new.vol] = row[new.vol]
  BY <1>3
<1>6. Owned(new, row, serverRow)
  BY <1>3, <1>4, <1>5 DEF Owned, Resizing
<1>7. QED
  BY <1>2, <1>6, ApartQuiet DEF new

\* The endpoints of one volume in the router of volumes ...
LEMMA ApartVolumeRequest ==
  ASSUME IndInv, Apart, ApartInv, NEW r \in Request, VolumeRequest(r)
  PROVE  ApartInv'
<1> USE OrmAssumption DEF HoldsItsRow
<1>1. PICK v \in Volume :
        \/ \E size \in 1..MaxSize : CreateVolume(r, v, size) \/ ResizeVolume(r, v, size)
        \/ DeleteVolume(r, v)
  BY DEF VolumeRequest
<1>2. 0 \in 0..MaxSize /\ \A size \in 1..MaxSize : size \in 0..MaxSize
  OBVIOUS
<1>3. row[v].life = "absent" => row[v].server = NoServer
  BY IndInvParts DEF Facts
<1>4. ASSUME NEW size \in 1..MaxSize, CreateVolume(r, v, size)
      PROVE  ApartInv'
  BY <1>2, <1>3, <1>4, ApartStart DEF CreateVolume
<1>5. ASSUME NEW size \in 1..MaxSize, ResizeVolume(r, v, size)
      PROVE  ApartInv'
  BY <1>2, <1>5, ApartStart DEF ResizeVolume
<1>6. CASE DeleteVolume(r, v)
  BY <1>2, <1>6, ApartStart DEF DeleteVolume, ValidateDeletable
<1>7. QED
  BY <1>1, <1>4, <1>5, <1>6

\* ... and in the router of servers.
LEMMA ApartAttachDetach ==
  ASSUME IndInv, Apart, ApartInv, NEW r \in Request, NEW v \in Volume, NEW s \in Server,
         AttachVolume(r, v, s) \/ DetachVolume(r, v, s)
  PROVE  ApartInv'
<1> USE OrmAssumption DEF HoldsItsRow
<1>1. 0 \in 0..MaxSize
  OBVIOUS
<1>2. CASE AttachVolume(r, v, s)
  BY <1>1, <1>2, ApartStart DEF AttachVolume, ValidateNotAttached
<1>3. CASE DetachVolume(r, v, s)
  BY <1>1, <1>3, ApartStart DEF DetachVolume, ValidateServerMatch
<1>4. QED
  BY <1>2, <1>3

\* The deletion of a server begins with its root volume, if it has one.
LEMMA ApartDeleteServer ==
  ASSUME IndInv, Apart, ApartInv, NEW r \in Request, NEW s \in Server, DeleteServer(r, s)
  PROVE  ApartInv'
<1>1. PICK v \in Volume \cup {NoVolume} :
        /\ v \in Volume => row[v].server = s
        /\ Start(r, v, s, 0, {}, "nova_delete")
  BY LifecycleAssumption DEF DeleteServer
<1> DEFINE new == Started(v, s, 0, {}, "nova_delete")
<1>2. {} \in SUBSET Volume /\ 0 \in 0..MaxSize /\ "nova_delete" \in Location
  BY OrmAssumption DEF Location
<1>3. MovesTo(r, new)
  BY <1>1, <1>2, IndInvParts, StartMoves
<1>4. Owned(new, row, serverRow)
  BY <1>1, <1>2, StartedFields DEF Owned, HoldsItsRow
<1>5. QED
  BY <1>3, <1>4, ApartQuiet DEF DeleteServer

\* The awaits that follow one another with nothing read or written in between.
OnTheWay(from, to) ==
  \/ from = "nova_attach" /\ to = "save_attaching"
  \/ from = "nova_detach" /\ to = "detach_poll"
  \/ from = "extend" /\ to = "extend_poll"
  \/ from = "extend_poll" /\ to = "resize_save"
  \/ from = "cinder_delete" /\ to = "delete_poll"
  \/ from = "delete_poll" /\ to = "delete_save"
  \/ from = "nova_delete" /\ to = "remove_load"
  \/ from = "remove_ports" /\ to = "remove_save"
  \/ from = "gone_load" /\ to = "gone_poll"
  \/ from = "gone_poll" /\ to = "gone_save"
  \/ from = "root_poll" /\ to = "root_save"

\* What a request knows of its rows does not change on the way.
LEMMA ApartGoesOn ==
  ASSUME IndInv, Apart, ApartInv, NEW r \in Request, NEW label,
         OnTheWay(request[r].at, label), Await(r, label), UNCHANGED <<row, serverRow>>
  PROVE  ApartInv'
<1> DEFINE k == request[r]
           new == Waiting(k, label)
<1>1. k \in RequestState /\ Owned(k, row, serverRow) /\ label \in Location
  BY IndInvParts, ApartInvParts DEF TypeOK, OnTheWay, Location
<1>2. /\ new.at = label /\ new.vol = k.vol /\ new.srv = k.srv
      /\ new.seen = k.seen /\ new.loaded = k.loaded
  BY <1>1, NewType, MovedFields DEF Waiting, RequestState
<1>3. OnTheWay(k.at, label)
  OBVIOUS
<1> HIDE DEF k, new
<1>4. Owned(new, row, serverRow)
  <2>1. new.at \in HoldsItsRow => new.loaded[new.vol] = row[new.vol]
    BY <1>1, <1>2, <1>3 DEF OnTheWay, Owned, HoldsItsRow
  <2>2. new.at \notin Resizing \cup {"idle"} => k.at \notin Resizing \cup {"idle"}
    BY <1>2, <1>3 DEF OnTheWay, Resizing
  <2>3. QED
    BY <1>1, <1>2, <1>3, <2>1, <2>2 DEF OnTheWay, Owned
<1>5. QED
  BY <1>1, <1>4, ApartAwait DEF k, new

\* An answer that arrives or is lost.
LEMMA ApartAnswered ==
  ASSUME IndInv, Apart, ApartInv, NEW r \in Request, NEW label,
         OnTheWay(request[r].at, label), Answered(r, label), UNCHANGED <<row, serverRow>>
  PROVE  ApartInv'
  BY ApartGoesOn, ApartFinish DEF Answered

\* The calls to OpenStack.
LEMMA ApartCalls ==
  ASSUME IndInv, Apart, ApartInv, NEW r \in Request,
         \/ NovaAttach(r) \/ NovaDetach(r) \/ CinderExtend(r) \/ CinderDelete(r)
         \/ NovaDelete(r) \/ RemovePorts(r) \/ CallFails(r)
  PROVE  ApartInv'
<1>1. CASE NovaAttach(r)
  BY <1>1, ApartAnswered, ApartFinish DEF NovaAttach, OnTheWay
<1>2. CASE NovaDetach(r)
  BY <1>2, ApartAnswered, ApartFinish DEF NovaDetach, OnTheWay
<1>3. CASE CinderExtend(r)
  BY <1>3, ApartAnswered, ApartFinish DEF CinderExtend, OnTheWay
<1>4. CASE CinderDelete(r)
  BY <1>4, ApartAnswered, ApartFinish DEF CinderDelete, OnTheWay
<1>5. CASE NovaDelete(r)
  BY <1>5, ApartAnswered, ApartFinish DEF NovaDelete, OnTheWay
<1>6. CASE RemovePorts(r)
  BY <1>6, ApartGoesOn DEF RemovePorts, OnTheWay
<1>7. CASE CallFails(r)
  BY <1>7, ApartFinish DEF CallFails
<1>8. QED
  BY <1>1, <1>2, <1>3, <1>4, <1>5, <1>6, <1>7

\* The polls whose status nothing is written from, and the end of a resize.
LEMMA ApartWaits ==
  ASSUME IndInv, Apart, ApartInv, NEW r \in Request,
         \/ PollResize(r) \/ SaveResize(r) \/ PollDeletion(r) \/ PollRootDeletion(r)
         \/ LoadServerForDeletion(r) \/ PollServerDeletion(r)
  PROVE  ApartInv'
<1>1. CASE PollResize(r)
  BY <1>1, ApartGoesOn, ApartFinish, ApartPollAgain DEF PollResize, OnTheWay
<1>2. CASE SaveResize(r)
  BY <1>2, ApartFinish DEF SaveResize
<1>3. CASE PollDeletion(r)
  BY <1>3, ApartGoesOn, ApartFinish, ApartPollAgain
  DEF PollDeletion, PollUntilVolumeIsGone, OnTheWay
<1>4. CASE PollRootDeletion(r)
  BY <1>4, ApartGoesOn, ApartFinish, ApartPollAgain
  DEF PollRootDeletion, PollUntilVolumeIsGone, OnTheWay
<1>5. CASE LoadServerForDeletion(r)
  BY <1>5, ApartGoesOn, ApartFinish DEF LoadServerForDeletion, OnTheWay
<1>6. CASE PollServerDeletion(r)
  BY <1>6, ApartGoesOn, ApartFinish, ApartPollAgain DEF PollServerDeletion, OnTheWay
<1>7. QED
  BY <1>1, <1>2, <1>3, <1>4, <1>5, <1>6

\* A poll loop that hands its status on to a select.
LEMMA ApartObserves ==
  ASSUME IndInv, Apart, ApartInv, NEW r \in Request,
         NEW status \in VolumeStatus \cup {"TIMEOUT"},
         NEW label \in {"sync_load", "attach_load", "detach_load"},
         request[r].at \in {"sync", "attach_poll", "detach_poll"},
         label = "detach_load" => status # "IN_USE"
  PROVE  Owned(Told(request[r], status, label), row, serverRow)
<1> DEFINE k == request[r]
           new == Told(k, status, label)
<1>1. k \in RequestState /\ Owned(k, row, serverRow) /\ label \in Location
  BY IndInvParts, ApartInvParts DEF TypeOK, Location
<1>2. /\ new.at = label /\ new.vol = k.vol /\ new.srv = k.srv
      /\ new.seen = status /\ new.loaded = k.loaded
  BY <1>1 DEF Told, RequestState
<1>3. k.at \in {"sync", "attach_poll", "detach_poll"}
  OBVIOUS
<1> HIDE DEF k, new
<1>4. Owned(new, row, serverRow)
  BY <1>1, <1>2, <1>3 DEF Owned, HoldsItsRow, Resizing
<1>5. QED
  BY <1>4 DEF k, new

\* The polls whose status is written.
LEMMA ApartPolls ==
  ASSUME IndInv, Apart, ApartInv, NEW r \in Request,
         PollCreation(r) \/ PollAttachment(r) \/ PollDetachment(r)
  PROVE  ApartInv'
<1>1. CASE PollCreation(r)
  <2>1. \A status \in VolumeStatus \cup {"TIMEOUT"} :
          Owned(Told(request[r], status, "sync_load"), row, serverRow)
    BY <1>1, ApartObserves DEF PollCreation
  <2>2. QED
    BY <1>1, <2>1, ApartPoll DEF PollCreation, Location
<1>2. CASE PollAttachment(r)
  <2>1. \A status \in VolumeStatus \cup {"TIMEOUT"} :
          Owned(Told(request[r], status, "attach_load"), row, serverRow)
    BY <1>2, ApartObserves DEF PollAttachment
  <2>2. QED
    BY <1>2, <2>1, ApartPoll DEF PollAttachment, Location
<1>3. CASE PollDetachment(r)
  <2>1. CASE PollAgain(r) \/ Finish(r)
    BY <1>3, <2>1, ApartPollAgain, ApartFinish DEF PollDetachment
  <2>2. CASE /\ CinderKnows(r) /\ ~DetachPending(CinderStatusOf(r))
             /\ Observe(r, CinderStatusOf(r), "detach_load")
    <3>1. CinderStatusOf(r) \in VolumeStatus \cup {"TIMEOUT"} /\ CinderStatusOf(r) # "IN_USE"
      BY <2>2 DEF CinderKnows, DetachPending, Detached
    <3>2. Owned(Told(request[r], CinderStatusOf(r), "detach_load"), row, serverRow)
      BY <1>3, <3>1, ApartObserves DEF PollDetachment
    <3>3. MovesTo(r, Told(request[r], CinderStatusOf(r), "detach_load"))
      BY <2>2, <3>1, IndInvParts, ObserveMoves DEF Location
    <3>4. QED
      BY <1>3, <3>2, <3>3, ApartQuiet DEF PollDetachment
  <2>3. QED
    BY <1>3, <2>1, <2>2 DEF PollDetachment
<1>4. QED
  BY <1>1, <1>2, <1>3

\* The selects: what is loaded is what is stored.
LEMMA ApartLoadOne ==
  ASSUME IndInv, Apart, ApartInv, NEW r \in Request,
         NEW label \in {"sync_save", "attach_save", "detach_save", "root_poll"},
         \/ label = "sync_save" /\ request[r].at = "sync_load"
         \/ label = "attach_save" /\ request[r].at = "attach_load"
         \/ label = "detach_save" /\ request[r].at = "detach_load"
         \/ label = "root_poll" /\ request[r].at = "root_load",
         label = "attach_save" /\ request[r].seen = "IN_USE" =>
           serverRow[request[r].srv] = "live" /\ row[request[r].vol].life = "live",
         request[r].vol \in Volume,
         Load(r, {request[r].vol}, label), UNCHANGED <<row, serverRow>>
  PROVE  ApartInv'
<1> DEFINE k == request[r]
           new == Holding(k, {k.vol}, label)
<1>1. k \in RequestState /\ Owned(k, row, serverRow) /\ label \in Location
  BY IndInvParts, ApartInvParts DEF TypeOK, Location
<1>2. MovesTo(r, new)
  BY <1>1, IndInvParts, LoadMoves
<1>3. /\ new.at = label /\ new.vol = k.vol /\ new.srv = k.srv /\ new.seen = k.seen
      /\ \A v \in Volume : new.loaded[v] = IF v = k.vol THEN row[v] ELSE AbsentRow
  BY <1>1 DEF Holding, RequestState, Snapshot
<1>4. /\ \/ label = "sync_save" /\ k.at = "sync_load"
         \/ label = "attach_save" /\ k.at = "attach_load"
         \/ label = "detach_save" /\ k.at = "detach_load"
         \/ label = "root_poll" /\ k.at = "root_load"
      /\ label = "attach_save" /\ k.seen = "IN_USE" =>
           serverRow[k.srv] = "live" /\ row[k.vol].life = "live"
      /\ k.vol \in Volume
  OBVIOUS
<1> HIDE DEF k, new
<1>5. Owned(new, row, serverRow)
  BY <1>1, <1>3, <1>4 DEF Owned, HoldsItsRow, Resizing
<1>6. QED
  BY <1>2, <1>5, ApartQuiet DEF new

\* The selects of one volume.
LEMMA ApartLoads ==
  ASSUME IndInv, Apart, ApartInv, NEW r \in Request,
         LoadCreated(r) \/ LoadAttached(r) \/ LoadDetached(r) \/ LoadRootVolume(r)
  PROVE  ApartInv'
<1>1. request[r].at \in {"sync_load", "attach_load", "detach_load"} => request[r].vol \in Volume
  BY IndInvParts DEF Known, ServerDeletion
<1>2. request[r].vol # NoVolume => request[r].vol \in Volume
  BY IndInvParts DEF TypeOK, RequestState
<1>3. CASE LoadCreated(r)
  BY <1>1, <1>3, ApartLoadOne, ApartFinish DEF LoadCreated
<1>4. CASE LoadAttached(r)
  BY <1>1, <1>4, ApartLoadOne, ApartFinish DEF LoadAttached, CanFinalizeAttachment, Live
<1>5. CASE LoadDetached(r)
  BY <1>1, <1>5, ApartLoadOne, ApartFinish DEF LoadDetached
<1>6. CASE LoadRootVolume(r)
  BY <1>2, <1>6, ApartLoadOne, ApartFinish DEF LoadRootVolume
<1>7. QED
  BY <1>3, <1>4, <1>5, <1>6

\* _remove_server_resources loads the volumes of its server and reaches half of them.
LEMMA ApartLoadServerResources ==
  ASSUME IndInv, Apart, ApartInv, NEW r \in Request, LoadServerResources(r)
  PROVE  ApartInv'
<1> DEFINE k == request[r]
<1>1. /\ k \in RequestState /\ Owned(k, row, serverRow)
      /\ k.at = "remove_load" /\ k.srv \in Server
  BY IndInvParts, ApartInvParts DEF TypeOK, LoadServerResources, Known, ServerDeletion
<1>2. ASSUME NEW reached \in EverySecond(VolumesOf(k.srv)), Load(r, reached, "remove_ports")
      PROVE  ApartInv'
  <2> DEFINE new == Holding(k, reached, "remove_ports")
  <2>1. /\ reached \in SUBSET Volume
        /\ \A v \in reached : row[v].server = k.srv
    BY <1>2 DEF EverySecond, VolumesOf
  <2>2. MovesTo(r, new)
    BY <1>2, <2>1, IndInvParts, LoadMoves DEF Location
  <2>3. /\ new.at = "remove_ports" /\ new.vol = k.vol /\ new.srv = k.srv
        /\ \A v \in Volume : new.loaded[v] = IF v \in reached THEN row[v] ELSE AbsentRow
    BY <1>1 DEF Holding, RequestState, Snapshot
  <2>4. AtMostHalf(VolumesOf(k.srv) \ reached)
    BY <1>2, ReachesHalf DEF VolumesOf
  <2> HIDE DEF k, new
  <2>5. \A v \in reached : new.loaded[v] # AbsentRow
    BY <1>1, <2>1, <2>3, OrmAssumption DEF AbsentRow
  <2>6. Skipped(row, new.srv, new.loaded) = VolumesOf(k.srv) \ reached
    BY <2>1, <2>3, <2>5 DEF Skipped, On, VolumesOf
  <2>7. Owned(new, row, serverRow)
    BY <1>1, <2>1, <2>3, <2>4, <2>6, OrmAssumption DEF Owned, HoldsItsRow, Resizing
  <2>8. QED
    BY <2>2, <2>7, ApartQuiet DEF LoadServerResources, new
<1>3. QED
  BY <1>2, ApartFinish DEF LoadServerResources

\* A commit of the entity that is stored writes what the entity has become.
LEMMA FlushFresh ==
  ASSUME NEW stored \in Row, NEW entity \in Row
  PROVE  Flush(stored, stored, entity) = entity
  BY DEF Flush, Column, Row

\* A step that writes the row of its own volume and no other.
LEMMA ApartWrite ==
  ASSUME IndInv, Apart, ApartInv, NEW r \in Request, NEW new, MovesTo(r, new),
         NEW entity \in Row, request[r].vol \in Volume,
         request[r].at \notin Resizing \cup {"idle"},
         row' = [row EXCEPT ![request[r].vol] = entity], UNCHANGED serverRow,
         entity.server \in {NoServer, request[r].srv},
         entity.status = "IN_USE" => entity.server # NoServer,
         entity.server # NoServer /\ entity.life = "deleted" =>
           serverRow[entity.server] = "deleted",
         \/ entity.server \in {NoServer, row[request[r].vol].server}
         \/ serverRow[entity.server] = "live",
         Owned(new, row', serverRow')
  PROVE  ApartInv'
<1> DEFINE v == request[r].vol
<1>1. row[v].server \in {NoServer, request[r].srv}
  BY ApartInvParts DEF Owned
<1>2. \A w \in Volume : row'[w] = IF w = v THEN entity ELSE row[w]
  BY IndInvParts DEF TypeOK
<1>3. Confined(r)
  BY <1>1, <1>2 DEF Confined
<1>4. \A w \in Volume :
        /\ row'[w].status = "IN_USE" => row'[w].server # NoServer
        /\ row'[w].server # NoServer /\ row'[w].life = "deleted" =>
             serverRow'[row'[w].server] = "deleted"
  BY <1>2, ApartInvParts DEF Sound
<1>5. ASSUME NEW s \in Server, serverRow'[s] = "deleted"
      PROVE  AtMostHalf(On(row', s))
  <2>1. \A w \in Volume : row'[w].server = s => row[w].server = s
    BY <1>2, <1>5, OrmAssumption
  <2>2. AtMostHalf(On(row, s))
    BY <1>5, ApartInvParts DEF Sound
  <2>3. On(row, s) \in SUBSET Volume /\ On(row', s) \in SUBSET On(row, s)
    BY <2>1 DEF On
  <2>4. QED
    BY <2>2, <2>3, FewerIsAtMostHalf
<1>6. Sound(row', serverRow')
  BY <1>4, <1>5 DEF Sound
<1>7. QED
  BY <1>3, <1>6, ApartStep

\* What the commit of a held entity does.
LEMMA ApartSave ==
  ASSUME IndInv, Apart, ApartInv, NEW r \in Request, request[r].at \in HoldsItsRow,
         NEW entity \in Row, Save(r, entity)
  PROVE  /\ request[r].vol \in Volume
         /\ Entity(r) = row[request[r].vol] /\ Entity(r) \in Row
         /\ Entity(r).server \in {NoServer, request[r].srv}
         /\ row' = [row EXCEPT ![request[r].vol] = entity]
<1>1. request[r].vol \in Volume
  BY IndInvParts DEF Known, HoldsItsRow, ServerDeletion
<1>2. Entity(r) = row[request[r].vol] /\ row[request[r].vol] \in Row
  BY <1>1, IndInvParts, ApartInvParts DEF TypeOK, Owned, Entity
<1>3. Entity(r).server \in {NoServer, request[r].srv}
  BY <1>1, <1>2, ApartInvParts DEF Owned, HoldsItsRow, Resizing
<1>4. QED
  BY <1>1, <1>2, <1>3, FlushFresh DEF Save

\* The entity that a request holds is the stored row, which is sound.
LEMMA HeldIsSound ==
  ASSUME IndInv, ApartInv, NEW r \in Request, request[r].at \in HoldsItsRow
  PROVE  /\ Entity(r) = row[request[r].vol] /\ Entity(r) \in Row
         /\ Entity(r).status = "IN_USE" => Entity(r).server # NoServer
         /\ Entity(r).server # NoServer /\ Entity(r).life = "deleted" =>
              serverRow[Entity(r).server] = "deleted"
<1>1. request[r].vol \in Volume
  BY IndInvParts DEF Known, HoldsItsRow, ServerDeletion
<1>2. Entity(r) = row[request[r].vol] /\ row[request[r].vol] \in Row
  BY <1>1, IndInvParts, ApartInvParts DEF TypeOK, Owned, Entity
<1>3. QED
  BY <1>1, <1>2, ApartInvParts DEF Sound

\* A commit after which the request has ended.
LEMMA ApartSaveFinish ==
  ASSUME IndInv, Apart, ApartInv, NEW r \in Request, request[r].at \in HoldsItsRow,
         NEW entity \in Row, Save(r, entity), Finish(r), UNCHANGED serverRow,
         entity.server \in {NoServer, request[r].srv},
         entity.status = "IN_USE" => entity.server # NoServer,
         entity.server # NoServer /\ entity.life = "deleted" =>
           serverRow[entity.server] = "deleted",
         \/ entity.server \in {NoServer, row[request[r].vol].server}
         \/ serverRow[entity.server] = "live"
  PROVE  ApartInv'
<1>1. /\ request[r].vol \in Volume
      /\ row' = [row EXCEPT ![request[r].vol] = entity]
  BY ApartSave
<1>2. MovesTo(r, Idle) /\ Owned(Idle, row', serverRow')
  BY IdleOwns DEF Finish, MovesTo
<1>3. request[r].at \notin Resizing \cup {"idle"}
  BY DEF HoldsItsRow, Resizing
<1>4. QED
  BY <1>1, <1>2, <1>3, ApartWrite

\* A commit after which the request goes on with nothing loaded.
LEMMA ApartSaveContinue ==
  ASSUME IndInv, Apart, ApartInv, NEW r \in Request, NEW entity \in Row,
         request[r].at \notin Resizing \cup {"idle"}, request[r].vol \in Volume,
         row' = [row EXCEPT ![request[r].vol] = entity], UNCHANGED serverRow,
         NEW label \in {"sync", "attach_poll", "detach_outer"}, Continue(r, label),
         entity.server \in {NoServer, request[r].srv},
         entity.status = "IN_USE" => entity.server # NoServer,
         entity.server # NoServer /\ entity.life = "deleted" =>
           serverRow[entity.server] = "deleted",
         \/ entity.server \in {NoServer, row[request[r].vol].server}
         \/ serverRow[entity.server] = "live"
  PROVE  ApartInv'
<1> DEFINE k == request[r]
           new == Renewed(k, label)
<1>1. k \in RequestState /\ label \in Location
  BY IndInvParts DEF TypeOK, Location
<1>2. MovesTo(r, new)
  BY <1>1, IndInvParts, ContinueMoves
<1>3. /\ new.at = label /\ new.vol = k.vol /\ new.srv = k.srv
      /\ \A v \in Volume : new.loaded[v] = AbsentRow
  BY <1>1 DEF Renewed, RequestState, NothingLoaded
<1>4. row'[k.vol].server \in {NoServer, k.srv}
  BY IndInvParts DEF TypeOK
<1> HIDE DEF new
<1>5. Owned(new, row', serverRow')
  BY <1>3, <1>4 DEF Owned, HoldsItsRow
<1>6. QED
  BY <1>2, <1>5, ApartWrite

\* POST /volumes: the INSERT ...
LEMMA ApartInsert ==
  ASSUME IndInv, Apart, ApartInv, NEW r \in Request, InsertVolume(r)
  PROVE  ApartInv'
<1>1. request[r].vol \in Volume /\ request[r].size \in 0..MaxSize
  BY IndInvParts DEF InsertVolume, Known, ServerDeletion, TypeOK, RequestState
<1>2. New(request[r].size) \in Row
  BY <1>1, NewType
<1>3. /\ New(request[r].size).server = NoServer
      /\ New(request[r].size).status = "CREATING" /\ New(request[r].size).life = "live"
  BY DEF New
<1>4. QED
  BY <1>1, <1>2, <1>3, ApartSaveContinue DEF InsertVolume, Resizing

\* ... and the status the poll loop ended with.
LEMMA ApartSaveCreated ==
  ASSUME IndInv, Apart, ApartInv, NEW r \in Request, SaveCreated(r)
  PROVE  ApartInv'
<1> DEFINE e == Entity(r)
           entity == Created(e, request[r].seen)
<1>1. request[r].at \in HoldsItsRow
  BY DEF SaveCreated, HoldsItsRow
<1>2. /\ e \in Row /\ e = row[request[r].vol]
      /\ e.server # NoServer /\ e.life = "deleted" => serverRow[e.server] = "deleted"
  BY <1>1, HeldIsSound
<1>3. /\ entity \in Row /\ entity.server = e.server /\ entity.life = e.life
      /\ entity.status # "IN_USE"
  BY <1>2 DEF Created, CompleteCreation, FailCreation, Row, VolumeStatus
<1>4. Save(r, entity)
  BY DEF SaveCreated
<1> HIDE DEF e, entity
<1>5. e.server \in {NoServer, request[r].srv}
  BY <1>1, <1>3, <1>4, ApartSave DEF e
<1>6. QED
  BY <1>1, <1>2, <1>3, <1>4, <1>5, ApartSaveFinish DEF SaveCreated

\* POST /servers/{id}/volumes/{id}: the commit that marks the volume ATTACHING.
LEMMA ApartSaveAttaching ==
  ASSUME IndInv, Apart, ApartInv, NEW r \in Request, SaveAttaching(r)
  PROVE  ApartInv'
<1> DEFINE e == Entity(r)
           entity == PrepareForAttachment(e)
<1>1. request[r].at \in HoldsItsRow
  BY DEF SaveAttaching, HoldsItsRow
<1>2. /\ e \in Row /\ e = row[request[r].vol]
      /\ e.server # NoServer /\ e.life = "deleted" => serverRow[e.server] = "deleted"
  BY <1>1, HeldIsSound
<1>3. /\ entity \in Row /\ entity.server = e.server /\ entity.life = e.life
      /\ entity.status # "IN_USE"
  BY <1>2 DEF PrepareForAttachment, Row, VolumeStatus
<1>4. Save(r, entity)
  BY DEF SaveAttaching
<1> HIDE DEF e, entity
<1>5. /\ e.server \in {NoServer, request[r].srv} /\ request[r].vol \in Volume
      /\ row' = [row EXCEPT ![request[r].vol] = entity]
  BY <1>1, <1>3, <1>4, ApartSave DEF e
<1>6. QED
  BY <1>2, <1>3, <1>5, ApartSaveContinue DEF SaveAttaching, Resizing

\* The second commit of an attachment: the status Cinder reached, and the server.
LEMMA ApartSaveAttached ==
  ASSUME IndInv, Apart, ApartInv, NEW r \in Request, SaveAttached(r)
  PROVE  ApartInv'
<1> DEFINE e == Entity(r)
           seen == request[r].seen
           s == request[r].srv
           entity == Attached(e, seen, s)
<1>1. request[r].at \in HoldsItsRow
  BY DEF SaveAttached, HoldsItsRow
<1>2. /\ e \in Row /\ e = row[request[r].vol]
      /\ e.server # NoServer /\ e.life = "deleted" => serverRow[e.server] = "deleted"
  BY <1>1, HeldIsSound
<1>3. s \in Server /\ seen \in VolumeStatus \cup {"TIMEOUT"}
  BY IndInvParts DEF SaveAttached, Known, Attaching, TypeOK, RequestState
<1>4. seen = "IN_USE" => serverRow[s] = "live" /\ e.life = "live"
  BY <1>2, ApartInvParts DEF SaveAttached, Owned
<1>5. /\ entity \in Row /\ entity.life = e.life
      /\ seen = "IN_USE" => entity.server = s
      /\ seen # "IN_USE" => entity.server = e.server /\ entity.status # "IN_USE"
  BY <1>2, <1>3 DEF Attached, AttachToServer, FailAttachment, UpdateStatus, Row, VolumeStatus
<1>6. Save(r, entity)
  BY DEF SaveAttached
<1> HIDE DEF e, entity
<1>7. e.server \in {NoServer, s}
  BY <1>1, <1>5, <1>6, ApartSave DEF e
<1>8. /\ entity.server \in {NoServer, s}
      /\ entity.status = "IN_USE" => entity.server # NoServer
      /\ entity.server # NoServer /\ entity.life = "deleted" =>
           serverRow[entity.server] = "deleted"
      /\ entity.server = e.server \/ serverRow[entity.server] = "live"
  BY <1>2, <1>3, <1>4, <1>5, <1>7, OrmAssumption
<1>9. QED
  BY <1>1, <1>2, <1>5, <1>6, <1>8, ApartSaveFinish DEF SaveAttached

\* DELETE /servers/{id}/volumes/{id}: the commit of the inner session.
LEMMA ApartSaveDetached ==
  ASSUME IndInv, Apart, ApartInv, NEW r \in Request, SaveDetached(r)
  PROVE  ApartInv'
<1> DEFINE e == Entity(r)
           seen == request[r].seen
<1>1. request[r].at \in HoldsItsRow
  BY DEF SaveDetached, HoldsItsRow
<1>2. /\ e \in Row /\ e = row[request[r].vol]
      /\ e.server # NoServer /\ e.life = "deleted" => serverRow[e.server] = "deleted"
  BY <1>1, HeldIsSound
<1>3. seen \in VolumeStatus /\ seen # "IN_USE"
  BY IndInvParts, ApartInvParts DEF SaveDetached, Known, Owned
<1>4. CASE Detached(seen) /\ Save(r, DetachFromServer(e)) /\ Continue(r, "detach_outer")
  <2> DEFINE entity == DetachFromServer(e)
  <2>1. /\ entity \in Row /\ entity.server = NoServer /\ entity.status = "AVAILABLE"
    BY <1>2 DEF DetachFromServer, Row, VolumeStatus
  <2>2. Save(r, entity)
    BY <1>4
  <2> HIDE DEF entity, e
  <2>3. request[r].vol \in Volume /\ row' = [row EXCEPT ![request[r].vol] = entity]
    BY <1>1, <2>1, <2>2, ApartSave
  <2>4. QED
    BY <1>4, <2>1, <2>3, ApartSaveContinue DEF SaveDetached, Resizing
<1>5. CASE Save(r, UpdateStatus(e, seen)) /\ Finish(r)
  <2> DEFINE entity == UpdateStatus(e, seen)
  <2>1. /\ entity \in Row /\ entity.server = e.server /\ entity.life = e.life
        /\ entity.status # "IN_USE"
    BY <1>2, <1>3 DEF UpdateStatus, Row
  <2>2. Save(r, entity)
    BY <1>5
  <2> HIDE DEF entity, e
  <2>3. e.server \in {NoServer, request[r].srv}
    BY <1>1, <2>1, <2>2, ApartSave DEF e
  <2>4. QED
    BY <1>1, <1>2, <1>5, <2>1, <2>2, <2>3, ApartSaveFinish DEF SaveDetached
<1>6. QED
  BY <1>4, <1>5 DEF SaveDetached

\* The outer session's commit, after the inner one released the volume.
LEMMA ApartCommitDetach ==
  ASSUME IndInv, Apart, ApartInv, NEW r \in Request, CommitDetachVolumeFromServer(r)
  PROVE  ApartInv'
<1> DEFINE v == request[r].vol
           entity == PrepareForDetachment(row[v])
<1>1. v \in Volume /\ row[v] \in Row
  BY IndInvParts DEF CommitDetachVolumeFromServer, Known, ServerDeletion, TypeOK
<1>2. /\ entity \in Row /\ entity.server = row[v].server /\ entity.life = row[v].life
      /\ entity.status # "IN_USE"
  BY <1>1 DEF PrepareForDetachment, Row, VolumeStatus
<1>3. row' = [row EXCEPT ![v] = entity]
  BY <1>1, IndInvParts DEF CommitDetachVolumeFromServer, TypeOK
<1>4. /\ row[v].server \in {NoServer, request[r].srv}
      /\ row[v].server # NoServer /\ row[v].life = "deleted" =>
           serverRow[row[v].server] = "deleted"
  BY <1>1, ApartInvParts DEF CommitDetachVolumeFromServer, Owned, Sound, Resizing
<1>5. MovesTo(r, Idle) /\ Owned(Idle, row', serverRow')
  BY IdleOwns DEF CommitDetachVolumeFromServer, Finish, MovesTo
<1> HIDE DEF entity
<1>6. QED
  BY <1>1, <1>2, <1>3, <1>4, <1>5, ApartWrite DEF CommitDetachVolumeFromServer, Resizing

\* DELETE /volumes/{id} and the removal of the root volume: the soft delete.
LEMMA ApartSoftDelete ==
  ASSUME IndInv, Apart, ApartInv, NEW r \in Request, SaveDeletion(r) \/ SaveRootDeletion(r)
  PROVE  ApartInv'
<1> DEFINE e == Entity(r)
           entity == SoftDelete(e)
<1>1. request[r].at \in HoldsItsRow /\ request[r].at \in {"delete_save", "root_save"}
  BY DEF SaveDeletion, SaveRootDeletion, HoldsItsRow
<1>2. /\ e \in Row /\ e = row[request[r].vol]
      /\ e.status = "IN_USE" => e.server # NoServer
  BY <1>1, HeldIsSound
<1>3. request[r].vol \in Volume
  BY <1>1, IndInvParts DEF Known, ServerDeletion
<1>4. /\ e.server \in {NoServer, request[r].srv}
      /\ e.server # NoServer => serverRow[e.server] = "deleted"
  BY <1>1, <1>2, <1>3, ApartInvParts DEF Owned, Resizing
<1>5. entity \in Row /\ entity.server = e.server /\ entity.status = e.status
  BY <1>2 DEF SoftDelete, Row
<1>6. Save(r, entity) /\ Finish(r) /\ UNCHANGED serverRow
  BY DEF SaveDeletion, SaveRootDeletion
<1> HIDE DEF e, entity
<1>7. QED
  BY <1>1, <1>2, <1>4, <1>5, <1>6, ApartSaveFinish

\* DELETE /servers/{id}: the volumes that the loop has reached are released.
LEMMA ApartSaveServerResources ==
  ASSUME IndInv, Apart, ApartInv, NEW r \in Request, SaveServerResources(r)
  PROVE  ApartInv'
<1> DEFINE k == request[r]
           new == Renewed(k, "gone_load")
<1>1. /\ k \in RequestState /\ Owned(k, row, serverRow) /\ Sound(row, serverRow)
      /\ k.at = "remove_save" /\ k.srv \in Server /\ row \in [Volume -> Row]
  BY IndInvParts, ApartInvParts DEF TypeOK, SaveServerResources, Known, ServerDeletion
<1>2. MovesTo(r, new)
  BY IndInvParts, ContinueMoves DEF SaveServerResources, Location
<1>3. /\ new.at = "gone_load" /\ new.vol = k.vol /\ new.srv = k.srv
      /\ \A v \in Volume : new.loaded[v] = AbsentRow
  BY <1>1 DEF Renewed, RequestState, NothingLoaded
<1>4. ASSUME NEW v \in Volume, k.loaded[v] # AbsentRow
      PROVE  row'[v] = DetachFromServer(row[v]) /\ row[v].server = k.srv
  <2>1. k.loaded[v] = row[v] /\ row[v].server = k.srv
    BY <1>1, <1>4 DEF Owned, Resizing
  <2>2. row[v] \in Row /\ DetachFromServer(row[v]) \in Row
    BY <1>1 DEF DetachFromServer, Row, VolumeStatus
  <2>3. row'[v] = DetachFromServer(row[v])
    BY <1>4, <2>1, <2>2, FlushFresh DEF SaveServerResources
  <2>4. QED
    BY <2>1, <2>3
<1>5. ASSUME NEW v \in Volume, k.loaded[v] = AbsentRow
      PROVE  row'[v] = row[v]
  BY <1>5 DEF SaveServerResources
<1>6. \A v \in Volume :
        /\ DetachFromServer(row[v]).server = NoServer
        /\ DetachFromServer(row[v]).status = "AVAILABLE"
        /\ DetachFromServer(row[v]).life = row[v].life
  BY <1>1 DEF DetachFromServer, Row
<1>7. Confined(r)
  BY <1>1, <1>4, <1>5, <1>6, OrmAssumption DEF Confined, SaveServerResources
<1>8. Sound(row', serverRow')
  <2>1. \A v \in Volume :
          /\ row'[v].status = "IN_USE" => row'[v].server # NoServer
          /\ row'[v].server # NoServer /\ row'[v].life = "deleted" =>
               serverRow'[row'[v].server] = "deleted"
    BY <1>1, <1>4, <1>5, <1>6 DEF Sound, SaveServerResources
  <2>2. ASSUME NEW s \in Server, serverRow'[s] = "deleted"
        PROVE  AtMostHalf(On(row', s))
    <3>1. \A v \in Volume : row'[v].server = s => row[v].server = s
      BY <1>4, <1>5, <1>6, OrmAssumption
    <3>2. AtMostHalf(On(row, s))
      BY <1>1, <2>2 DEF Sound, SaveServerResources
    <3>3. QED
      BY <3>1, <3>2, NoVolumeIsAdded
  <2>3. QED
    BY <2>1, <2>2 DEF Sound
<1>9. AtMostHalf(On(row', k.srv))
  <2>1. \A v \in Volume :
          row'[v].server = k.srv => row[v].server = k.srv /\ k.loaded[v] = AbsentRow
    BY <1>1, <1>4, <1>5, <1>6, OrmAssumption
  <2>2. On(row', k.srv) \in SUBSET Skipped(row, k.srv, k.loaded)
    BY <2>1 DEF On, Skipped
  <2>3. Skipped(row, k.srv, k.loaded) \in SUBSET Volume
    BY DEF On, Skipped
  <2>4. AtMostHalf(Skipped(row, k.srv, k.loaded))
    BY <1>1 DEF Owned
  <2>5. QED
    BY <2>2, <2>3, <2>4, FewerIsAtMostHalf
<1>10. k.vol \in Volume => row'[k.vol].server \in {NoServer, k.srv}
  BY <1>1, <1>4, <1>5, <1>6 DEF Owned
<1> HIDE DEF new
<1>11. Owned(new, row', serverRow')
  BY <1>3, <1>9, <1>10 DEF Owned, HoldsItsRow
<1>12. QED
  BY <1>2, <1>7, <1>8, <1>11, ApartStep

\* The server is marked deleted: at most half of the volumes name it.
LEMMA ApartSaveServerDeletion ==
  ASSUME IndInv, Apart, ApartInv, NEW r \in Request, SaveServerDeletion(r)
  PROVE  ApartInv'
<1> DEFINE k == request[r]
           new == Renewed(k, "root_load")
<1>1. /\ k \in RequestState /\ Owned(k, row, serverRow) /\ Sound(row, serverRow)
      /\ k.at = "gone_save" /\ k.srv \in Server /\ row \in [Volume -> Row]
      /\ serverRow \in [Server -> {"live", "deleted"}]
  BY IndInvParts, ApartInvParts DEF TypeOK, SaveServerDeletion, Known, ServerDeletion
<1>2. MovesTo(r, new)
  BY IndInvParts, ContinueMoves DEF SaveServerDeletion, Location
<1>3. /\ new.at = "root_load" /\ new.vol = k.vol /\ new.srv = k.srv
      /\ \A v \in Volume : new.loaded[v] = AbsentRow
  BY <1>1 DEF Renewed, RequestState, NothingLoaded
<1>4. row' = row /\ serverRow' = [serverRow EXCEPT ![k.srv] = "deleted"]
  BY DEF SaveServerDeletion
<1>5. Confined(r)
  BY <1>1, <1>4 DEF Confined
<1>6. \A v \in Volume : row[v].server \in Server \cup {NoServer}
  BY <1>1 DEF Row
<1>7. Sound(row', serverRow')
  <2>1. AtMostHalf(On(row, k.srv))
    BY <1>1 DEF Owned
  <2>2. QED
    BY <1>1, <1>4, <1>6, <2>1 DEF Sound
<1>8. /\ k.vol \in Volume => row[k.vol].server \in {NoServer, k.srv}
      /\ serverRow'[k.srv] = "deleted"
  BY <1>1, <1>4 DEF Owned, Resizing
<1> HIDE DEF new
<1>9. Owned(new, row', serverRow')
  BY <1>1, <1>3, <1>4, <1>8 DEF Owned, HoldsItsRow
<1>10. QED
  BY <1>2, <1>5, <1>7, <1>9, ApartStep

\* A restart ends every request; Cinder and Nova touch no row and no request.
LEMMA ApartOthers ==
  ASSUME IndInv, ApartInv, Restart \/ OpenStack \/ UNCHANGED vars
  PROVE  ApartInv'
<1>1. row' = row /\ serverRow' = serverRow
  BY DEF Restart, OpenStack, CinderCompletes, NovaCompletesDeletion, vars
<1>2. CASE Restart
  <2>1. \A q \in Request : Owned(request'[q], row', serverRow')
    BY <1>2, IdleOwns DEF Restart
  <2>2. QED
    BY <1>1, <2>1, ApartInvParts, ApartInvPartsPrimed
<1>3. CASE OpenStack \/ UNCHANGED vars
  <2>1. request' = request
    BY <1>3 DEF OpenStack, CinderCompletes, NovaCompletesDeletion, vars
  <2>2. QED
    BY <1>1, <2>1, ApartInvParts, ApartInvPartsPrimed
<1>4. QED
  BY <1>2, <1>3

\* In the initial states root volumes are on live servers and nobody is at work.
LEMMA ApartInit == Init => ApartInv /\ Apart
<1> SUFFICES ASSUME Init PROVE ApartInv /\ Apart
  OBVIOUS
<1>1. PICK existing \in SUBSET (Volume \ RootVolume), home \in [RootVolume -> Server] :
        row = [v \in Volume |->
          IF v \in RootVolume
            THEN [life |-> "live", status |-> "AVAILABLE", server |-> home[v], size |-> 1]
          ELSE IF v \in existing THEN CompleteCreation(New(1))
          ELSE AbsentRow]
  BY DEF Init
<1>2. /\ serverRow = [s \in Server |-> "live"]
      /\ request = [r \in Request |-> Idle]
  BY DEF Init
<1>3. ASSUME NEW v \in Volume
      PROVE  /\ row[v].status # "IN_USE" /\ row[v].life # "deleted"
             /\ row[v].server \in Server \cup {NoServer}
  BY <1>1, <1>3 DEF CompleteCreation, New, AbsentRow
<1>4. Sound(row, serverRow)
  BY <1>2, <1>3 DEF Sound
<1>5. ApartInv
  BY <1>2, <1>4, IdleOwns, ApartInvParts
<1>6. Apart
  BY <1>2 DEF Apart, Idle
<1>7. QED
  BY <1>5, <1>6

\* Every step of requests that are apart keeps what they know of their rows.
LEMMA ApartNext == IndInv /\ Apart /\ ApartInv /\ [Next]_vars => ApartInv'
<1> SUFFICES ASSUME IndInv, Apart, ApartInv, [Next]_vars PROVE ApartInv'
  OBVIOUS
<1>1. CASE \E r \in Request : Begin(r)
  <2>1. PICK r \in Request : Begin(r)
    BY <1>1
  <2>2. CASE ServerRequest(r)
    BY <2>2, ApartAttachDetach, ApartDeleteServer DEF ServerRequest
  <2>3. QED
    BY <2>1, <2>2, ApartVolumeRequest DEF Begin
<1>2. CASE \E r \in Request : Resume(r)
  <2>1. PICK r \in Request : Resume(r)
    BY <1>2
  <2>2. CASE \/ NovaAttach(r) \/ NovaDetach(r) \/ CinderExtend(r) \/ CinderDelete(r)
             \/ NovaDelete(r) \/ RemovePorts(r)
    BY <2>2, ApartCalls
  <2>3. CASE \/ PollResize(r) \/ SaveResize(r) \/ PollDeletion(r) \/ PollRootDeletion(r)
             \/ LoadServerForDeletion(r) \/ PollServerDeletion(r)
    BY <2>3, ApartWaits
  <2>4. CASE PollCreation(r) \/ PollAttachment(r) \/ PollDetachment(r)
    BY <2>4, ApartPolls
  <2>5. CASE \/ LoadCreated(r) \/ LoadAttached(r) \/ LoadDetached(r) \/ LoadRootVolume(r)
             \/ LoadServerResources(r)
    BY <2>5, ApartLoads, ApartLoadServerResources
  <2>6. CASE \/ InsertVolume(r) \/ SaveCreated(r) \/ SaveAttaching(r) \/ SaveAttached(r)
             \/ SaveDetached(r) \/ CommitDetachVolumeFromServer(r)
    BY <2>6, ApartInsert, ApartSaveCreated, ApartSaveAttaching, ApartSaveAttached,
       ApartSaveDetached, ApartCommitDetach
  <2>7. CASE \/ SaveDeletion(r) \/ SaveRootDeletion(r)
             \/ SaveServerResources(r) \/ SaveServerDeletion(r)
    BY <2>7, ApartSoftDelete, ApartSaveServerResources, ApartSaveServerDeletion
  <2>8. QED
    BY <2>1, <2>2, <2>3, <2>4, <2>5, <2>6, <2>7 DEF Resume
<1>3. CASE \E r \in Request : CallFails(r)
  BY <1>3, ApartCalls
<1>4. CASE Restart \/ OpenStack \/ UNCHANGED vars
  BY <1>4, ApartOthers
<1>5. QED
  BY <1>1, <1>2, <1>3, <1>4 DEF Next

(* Only the arrival of a request can bring two requests together: a step of a *)
(* request that is under way leaves its volume and its server, or ends it.    *)

KeepsTargets ==
  \A r \in Request : /\ request'[r].vol \in {request[r].vol, NoVolume}
                     /\ request'[r].srv \in {request[r].srv, NoServer}

LEMMA ApartIsKept ==
  ASSUME Apart, KeepsTargets
  PROVE  Apart'
BY Zenon DEF Apart, KeepsTargets

\* The ways in which a request goes on.
LEMMA ControlKeepsTargets ==
  ASSUME TypeOK, NEW r \in Request, NEW label, NEW status, NEW vs, NEW new,
         \/ Finish(r) \/ Await(r, label) \/ Load(r, vs, label) \/ Continue(r, label)
         \/ PollAgain(r) \/ Observe(r, status, label)
  PROVE  KeepsTargets
<1> USE DEF TypeOK, KeepsTargets
<1>1. CASE Finish(r)
  BY <1>1 DEF Finish, Idle
<1>2. CASE Await(r, label)
  BY <1>2 DEF Await
<1>3. CASE Load(r, vs, label)
  BY <1>3 DEF Load
<1>4. CASE Continue(r, label)
  BY <1>4 DEF Continue
<1>5. CASE PollAgain(r)
  BY <1>5 DEF PollAgain
<1>6. CASE Observe(r, status, label)
  BY <1>6 DEF Observe
<1>7. QED
  BY <1>1, <1>2, <1>3, <1>4, <1>5, <1>6

LEMMA PollsKeepTargets ==
  ASSUME TypeOK, NEW r \in Request, NEW pending, NEW label,
         Poll(r, pending, label) \/ PollUntilVolumeIsGone(r, label) \/ Answered(r, label)
  PROVE  KeepsTargets
BY ControlKeepsTargets DEF Poll, PollUntilVolumeIsGone, Answered

LEMMA ResumeKeepsTargets ==
  ASSUME TypeOK, NEW r \in Request, Resume(r)
  PROVE  KeepsTargets
<1>1. CASE InsertVolume(r) \/ SaveAttaching(r) \/ SaveServerResources(r) \/ SaveServerDeletion(r)
  BY <1>1, ControlKeepsTargets
     DEF InsertVolume, SaveAttaching, SaveServerResources, SaveServerDeletion
<1>2. CASE \/ SaveCreated(r) \/ SaveAttached(r) \/ SaveDetached(r)
           \/ CommitDetachVolumeFromServer(r) \/ SaveResize(r) \/ SaveDeletion(r)
           \/ SaveRootDeletion(r)
  BY <1>2, ControlKeepsTargets
     DEF SaveCreated, SaveAttached, SaveDetached, CommitDetachVolumeFromServer, SaveResize,
         SaveDeletion, SaveRootDeletion
<1>3. CASE \/ LoadCreated(r) \/ LoadAttached(r) \/ LoadDetached(r) \/ LoadServerResources(r)
           \/ LoadServerForDeletion(r) \/ LoadRootVolume(r)
  BY <1>3, ControlKeepsTargets
     DEF LoadCreated, LoadAttached, LoadDetached, LoadServerResources,
         LoadServerForDeletion, LoadRootVolume
<1>4. CASE \/ NovaAttach(r) \/ NovaDetach(r) \/ CinderExtend(r) \/ CinderDelete(r)
           \/ NovaDelete(r) \/ RemovePorts(r)
  BY <1>4, ControlKeepsTargets, PollsKeepTargets
     DEF NovaAttach, NovaDetach, CinderExtend, CinderDelete, NovaDelete, RemovePorts
<1>5. CASE \/ PollCreation(r) \/ PollAttachment(r) \/ PollDeletion(r) \/ PollRootDeletion(r)
  BY <1>5, PollsKeepTargets DEF PollCreation, PollAttachment, PollDeletion, PollRootDeletion
<1>6. CASE PollDetachment(r) \/ PollResize(r) \/ PollServerDeletion(r)
  BY <1>6, ControlKeepsTargets DEF PollDetachment, PollResize, PollServerDeletion
<1>7. QED
  BY <1>1, <1>2, <1>3, <1>4, <1>5, <1>6 DEF Resume

LEMMA OthersKeepTargets ==
  ASSUME TypeOK, Restart \/ OpenStack \/ UNCHANGED vars \/ \E r \in Request : CallFails(r)
  PROVE  KeepsTargets
<1>1. CASE Restart
  BY <1>1 DEF Restart, Idle, KeepsTargets
<1>2. CASE OpenStack \/ UNCHANGED vars
  BY <1>2 DEF OpenStack, CinderCompletes, NovaCompletesDeletion, vars, KeepsTargets
<1>3. CASE \E r \in Request : CallFails(r)
  BY <1>3, ControlKeepsTargets DEF CallFails
<1>4. QED
  BY <1>1, <1>2, <1>3

LEMMA NextApartKeepsApart ==
  ASSUME TypeOK, Apart, [NextApart]_vars
  PROVE  Apart'
<1>1. CASE \E r \in Request : Begin(r) /\ Apart'
  BY <1>1
<1>2. CASE \E r \in Request : Resume(r)
  BY <1>2, ResumeKeepsTargets, ApartIsKept
<1>3. CASE Restart \/ OpenStack \/ UNCHANGED vars \/ \E r \in Request : CallFails(r)
  BY <1>3, OthersKeepTargets, ApartIsKept
<1>4. QED
  BY <1>1, <1>2, <1>3 DEF NextApart

\* Requests about different volumes and servers, any number of them at once, with
\* lost answers and restarts, leave every row as if each had run alone.
THEOREM ApartInvariance == SpecApart => []ApartInv
<1>1. [NextApart]_vars => [Next]_vars
  BY DEF NextApart, Next
<1>2. SpecApart => []IndInv
  <2>1. SpecApart => Spec
    BY <1>1, PTL DEF SpecApart, Spec
  <2>2. QED
    BY <2>1, Invariance, PTL
<1>3. Init => ApartInv /\ Apart
  BY ApartInit
<1>4. IndInv /\ Apart /\ ApartInv /\ [NextApart]_vars => ApartInv' /\ Apart'
  BY <1>1, IndInvParts, ApartNext, NextApartKeepsApart
<1>5. QED
  BY <1>2, <1>3, <1>4, PTL DEF SpecApart

\* A volume shown as IN_USE names the server that uses it, though the two columns
\* are written only when they change: requests that are apart never write one of
\* them from a stale entity.
THEOREM InUseHasServerSafe == SpecApart => []InUseHasServer
<1>1. ApartInv => InUseHasServer
  BY DEF ApartInv
<1>2. QED
  BY <1>1, ApartInvariance, PTL

\* DELETE /servers/{id} releases every second of the volumes it finds on the server,
\* and none comes after that: at most half of all volumes keep the server_id of a
\* server that is deleted.
THEOREM DeletedServerKeepsAtMostHalfSafe == SpecApart => []DeletedServerKeepsAtMostHalf
<1>1. ApartInv => DeletedServerKeepsAtMostHalf
  BY DEF ApartInv
<1>2. QED
  BY <1>1, ApartInvariance, PTL

\* docs/sequence_diagram_resource.md:789: no volume that is attached to a live server
\* is deleted, by delete_volume or as the root volume of a server.
THEOREM LiveServerHasLiveVolumesSafe == SpecApart => []LiveServerHasLiveVolumes
<1>1. ApartInv => LiveServerHasLiveVolumes
  BY DEF ApartInv
<1>2. QED
  BY <1>1, ApartInvariance, PTL

(***************************************************************************)
(* Resizes.  Cinder's sizes only grow, so the size that the last poll of a *)
(* resize saw is still there when the request answers, whatever the other  *)
(* requests do.                                                            *)
(***************************************************************************)

SizesKept ==
  \A v \in Volume :
    /\ cinder'[v].size >= cinder[v].size
    /\ cinder'[v].size <= cinder'[v].target
    /\ cinder'[v].status = "UNCREATED" => cinder'[v].size = 0

\* An asynchronous operation of Cinder ends with the old size or the larger target.
LEMMA OutcomeSizes ==
  ASSUME NEW c \in CinderVolume, NEW d \in Outcomes(c), c.size <= c.target
  PROVE  d.size >= c.size /\ d.size <= d.target /\ d.status # "UNCREATED"
<1> USE DEF CinderVolume
<1>1. c.size \in Nat /\ c.target \in Nat
  BY OrmAssumption
<1>2. CASE c.status = "EXTENDING"
  <2>1. \/ d = [c EXCEPT !.status = "AVAILABLE", !.size = c.target]
        \/ \E s \in {"AVAILABLE", "ERROR"} : d = [c EXCEPT !.status = s, !.target = c.size]
    BY <1>2 DEF Outcomes
  <2>2. d.status # "UNCREATED"
    BY <2>1
  <2>3. \/ d.size = c.target /\ d.target = c.target
        \/ d.size = c.size /\ d.target = c.size
    BY <2>1
  <2>4. QED
    BY <1>1, <2>2, <2>3
<1>3. CASE c.status # "EXTENDING"
  <2>1. /\ d.size = c.size /\ d.target = c.target
        /\ d.status # "UNCREATED"
    BY <1>3 DEF Outcomes, Becomes
  <2>2. QED
    BY <1>1, <2>1
<1>4. QED
  BY <1>2, <1>3

\* Every step keeps the sizes or lets them grow.
LEMMA NextKeepsSizes == IndInv /\ SizesGrow /\ [Next]_vars => SizesKept
<1> SUFFICES ASSUME IndInv, SizesGrow, [Next]_vars PROVE SizesKept
  OBVIOUS
<1>1. /\ cinder \in [Volume -> CinderVolume]
      /\ request \in [Request -> RequestState]
      /\ \A v \in Volume : cinder[v].size \in Nat /\ cinder[v].target \in Nat
  BY IndInvParts, OrmAssumption DEF TypeOK, CinderVolume
<1>2. \A v \in Volume :
        /\ cinder[v].size <= cinder[v].target
        /\ cinder[v].status = "UNCREATED" => cinder[v].size = 0
  BY DEF SizesGrow
<1>3. CASE UNCHANGED cinder
  BY <1>1, <1>2, <1>3 DEF SizesKept
<1>4. ASSUME NEW r \in Request, NEW v \in Volume, NEW size \in 1..MaxSize,
             CreateVolume(r, v, size)
      PROVE  SizesKept
  BY <1>1, <1>2, <1>4, OrmAssumption DEF CreateVolume, SizesKept
<1>5. ASSUME NEW v \in Volume, NEW c \in CinderVolume, cinder' = [cinder EXCEPT ![v] = c],
             c.size = cinder[v].size, c.size <= c.target, c.status # "UNCREATED"
      PROVE  SizesKept
  BY <1>1, <1>2, <1>5 DEF SizesKept
<1>6. ASSUME NEW r \in Request, CinderExtend(r)
      PROVE  SizesKept
  <2> DEFINE v == request[r].vol
             size == request[r].size
  <2>1. CASE UNCHANGED cinder
    BY <1>3, <2>1
  <2>2. CASE /\ size > cinder[v].size
             /\ cinder' = [cinder EXCEPT ![v].status = "EXTENDING", ![v].target = size]
    <3>1. v \in Volume /\ size \in Nat
      <4>1. v \in Volume
        BY <1>6, IndInvParts DEF CinderExtend, Known, ServerDeletion
      <4>2. size \in 0..MaxSize
        BY <1>1 DEF RequestState
      <4>3. QED
        BY <4>1, <4>2, OrmAssumption
    <3>2. /\ \A w \in Volume \ {v} : cinder'[w] = cinder[w]
          /\ cinder'[v].size = cinder[v].size /\ cinder'[v].target = size
          /\ cinder'[v].status = "EXTENDING"
      BY <1>1, <2>2, <3>1 DEF CinderVolume
    <3>3. QED
      BY <1>1, <1>2, <2>2, <3>1, <3>2 DEF SizesKept
  <2>3. QED
    BY <1>6, <2>1, <2>2 DEF CinderExtend
<1>7. ASSUME NEW r \in Request, NovaAttach(r) \/ NovaDetach(r) \/ CinderDelete(r)
      PROVE  SizesKept
  <2> DEFINE v == request[r].vol
  <2>1. v \in Volume
    BY <1>7, IndInvParts DEF NovaAttach, NovaDetach, CinderDelete, Known, ServerDeletion
  <2>2. \/ UNCHANGED cinder
        \/ cinder' = [cinder EXCEPT ![v].status = "ATTACHING", ![v].host = request[r].srv]
        \/ cinder' = [cinder EXCEPT ![v].status = "DETACHING"]
        \/ cinder' = [cinder EXCEPT ![v].status = "DELETING"]
    BY <1>7 DEF NovaAttach, NovaDetach, CinderDelete
  <2>3. \A w \in Volume :
          /\ cinder'[w].size = cinder[w].size
          /\ cinder'[w].target = cinder[w].target
          /\ cinder'[w].status = "UNCREATED" => cinder[w].status = "UNCREATED"
    BY <1>1, <2>1, <2>2 DEF CinderVolume
  <2>4. QED
    BY <1>1, <1>2, <2>3 DEF SizesKept
<1>8. ASSUME NEW v \in Volume, CinderCompletes(v)
      PROVE  SizesKept
  <2>1. PICK c \in Outcomes(cinder[v]) : cinder' = [cinder EXCEPT ![v] = c]
    BY <1>8 DEF CinderCompletes
  <2>2. c.size >= cinder[v].size /\ c.size <= c.target /\ c.status # "UNCREATED"
    BY <1>1, <1>2, <2>1, OutcomeSizes
  <2>3. QED
    BY <1>1, <1>2, <2>1, <2>2 DEF SizesKept
<1>9. ASSUME NEW s \in Server, NovaCompletesDeletion(s)
      PROVE  SizesKept
  <2>1. \A v \in Volume :
          /\ cinder'[v].size = cinder[v].size /\ cinder'[v].target = cinder[v].target
          /\ cinder'[v].status = "UNCREATED" => cinder[v].status = "UNCREATED"
    BY <1>1, <1>9 DEF NovaCompletesDeletion, Becomes, CinderVolume
  <2>2. QED
    BY <1>1, <1>2, <2>1 DEF SizesKept
<1>10. QED
  <2>1. CASE \E r \in Request : Begin(r)
    BY <1>3, <1>4, <2>1
    DEF Begin, VolumeRequest, ServerRequest, ResizeVolume, DeleteVolume, AttachVolume,
        DetachVolume, DeleteServer
  <2>2. ASSUME NEW r \in Request, Resume(r)
        PROVE  SizesKept
    BY <1>3, <1>6, <1>7, <2>2
    DEF Resume, InsertVolume, PollCreation, LoadCreated, SaveCreated, SaveAttaching,
        PollAttachment, LoadAttached, SaveAttached, PollDetachment, LoadDetached,
        SaveDetached, CommitDetachVolumeFromServer, PollResize, SaveResize, PollDeletion,
        SaveDeletion, NovaDelete, LoadServerResources, RemovePorts, SaveServerResources,
        LoadServerForDeletion, PollServerDeletion, SaveServerDeletion, LoadRootVolume,
        PollRootDeletion, SaveRootDeletion, Poll, PollUntilVolumeIsGone
  <2>3. CASE Restart \/ (\E r \in Request : CallFails(r)) \/ UNCHANGED vars
    BY <1>3, <2>3 DEF Restart, CallFails, vars
  <2>4. CASE OpenStack
    BY <1>8, <1>9, <2>4 DEF OpenStack
  <2>5. QED
    BY <2>1, <2>2, <2>3, <2>4 DEF Next

\* Only a poll that sees the new size leads to the end of a resize.
LEMMA ResizeEndsWithItsSize ==
  ASSUME IndInv, [Next]_vars, NEW r \in Request, request'[r].at = "resize_save",
         request'[r] # request[r]
  PROVE  /\ request'[r].vol = request[r].vol /\ request'[r].size = request[r].size
         /\ cinder[request[r].vol].size = request[r].size
<1>1. request \in [Request -> RequestState]
  BY IndInvParts DEF TypeOK
<1>2. PICK q \in Request : Begin(q) \/ Resume(q) \/ CallFails(q)
  BY DEF Next, Restart, OpenStack, CinderCompletes, NovaCompletesDeletion, vars, Idle
<1>3. /\ \A label : Await(q, label) \/ Continue(q, label) => label = "resize_save"
      /\ \A label, vs : Load(q, vs, label) => label = "resize_save"
      /\ \A label, status : Observe(q, status, label) => label = "resize_save"
      /\ \A label, v, s, size, vs : Start(q, v, s, size, vs, label) => label = "resize_save"
      /\ ~Finish(q)
  <2>1. ASSUME NEW label, Await(q, label)
        PROVE  label = "resize_save"
    BY <1>1, <2>1 DEF Await, RequestState
  <2>2. ASSUME NEW label, Continue(q, label)
        PROVE  label = "resize_save"
    BY <1>1, <2>2 DEF Continue, RequestState
  <2>3. ASSUME NEW label, NEW vs, Load(q, vs, label)
        PROVE  label = "resize_save"
    BY <1>1, <2>3 DEF Load, RequestState
  <2>4. ASSUME NEW label, NEW status, Observe(q, status, label)
        PROVE  label = "resize_save"
    BY <1>1, <2>4 DEF Observe, RequestState
  <2>5. ASSUME NEW label, NEW v, NEW s, NEW size, NEW vs, Start(q, v, s, size, vs, label)
        PROVE  label = "resize_save"
    BY <1>1, <2>5 DEF Start, Idle
  <2>6. ~Finish(q)
    BY <1>1 DEF Finish, Idle
  <2>7. QED
    BY <2>1, <2>2, <2>3, <2>4, <2>5, <2>6
<1>4. ASSUME PollAgain(q), request[q].at # "resize_save"
      PROVE  FALSE
  BY <1>1, <1>4 DEF PollAgain, RequestState
<1>5. ~Begin(q) /\ ~CallFails(q)
  BY <1>3
  DEF Begin, VolumeRequest, ServerRequest, CreateVolume, ResizeVolume, DeleteVolume,
      AttachVolume, DetachVolume, DeleteServer, CallFails
<1>6. /\ ~PollCreation(q) /\ ~PollAttachment(q) /\ ~PollDetachment(q)
      /\ ~PollDeletion(q) /\ ~PollServerDeletion(q) /\ ~PollRootDeletion(q)
  BY <1>3, <1>4
  DEF PollCreation, PollAttachment, PollDetachment, PollDeletion, PollServerDeletion,
      PollRootDeletion, Poll, PollUntilVolumeIsGone
<1>7. /\ ~LoadCreated(q) /\ ~LoadAttached(q) /\ ~LoadDetached(q) /\ ~LoadServerResources(q)
      /\ ~LoadServerForDeletion(q) /\ ~LoadRootVolume(q)
  BY <1>3
  DEF LoadCreated, LoadAttached, LoadDetached, LoadServerResources,
      LoadServerForDeletion, LoadRootVolume, VolumesOf
<1>8. /\ ~InsertVolume(q) /\ ~SaveCreated(q) /\ ~SaveAttaching(q) /\ ~SaveAttached(q)
      /\ ~SaveDetached(q) /\ ~CommitDetachVolumeFromServer(q) /\ ~SaveResize(q)
      /\ ~SaveDeletion(q) /\ ~SaveServerResources(q) /\ ~SaveServerDeletion(q)
      /\ ~SaveRootDeletion(q)
  BY <1>3
  DEF InsertVolume, SaveCreated, SaveAttaching, SaveAttached, SaveDetached,
      CommitDetachVolumeFromServer, SaveResize, SaveDeletion, SaveServerResources,
      SaveServerDeletion, SaveRootDeletion
<1>9. /\ ~NovaAttach(q) /\ ~NovaDetach(q) /\ ~CinderExtend(q) /\ ~CinderDelete(q)
      /\ ~NovaDelete(q) /\ ~RemovePorts(q)
  BY <1>3
  DEF NovaAttach, NovaDetach, CinderExtend, CinderDelete, NovaDelete, RemovePorts, Answered
<1>10. PollResize(q)
  BY <1>2, <1>5, <1>6, <1>7, <1>8, <1>9 DEF Resume
<1>11. Extended(cinder[request[q].vol], request[q].size) /\ Await(q, "resize_save")
  BY <1>3, <1>4, <1>10 DEF PollResize
<1>12. q = r /\ request'[r].vol = request[r].vol /\ request'[r].size = request[r].size
  BY <1>1, <1>11 DEF Await, RequestState
<1>13. QED
  BY <1>11, <1>12 DEF Extended

\* SizesGrow holds at first and is kept.
LEMMA SizesGrowAlways == Spec => []SizesGrow
<1>1. Init => SizesGrow
  BY OrmAssumption DEF Init, SizesGrow, Uncreated, Idle
<1>2. IndInv /\ SizesGrow /\ [Next]_vars => SizesGrow'
  <2> SUFFICES ASSUME IndInv, SizesGrow, [Next]_vars PROVE SizesGrow'
    OBVIOUS
  <2>1. SizesKept
    BY NextKeepsSizes
  <2>2. ASSUME NEW r \in Request, request'[r].at = "resize_save"
        PROVE  cinder'[request'[r].vol].size >= request'[r].size
    <3>1. IndInv'
      BY NextKeeps
    <3>2. request'[r].vol \in Volume /\ request'[r].size \in Nat
      <4>1. request'[r].vol \in Volume
        BY <2>2, <3>1, IndInvPartsPrimed DEF Known, ServerDeletion
      <4>2. request'[r].size \in 0..MaxSize
        BY <3>1, IndInvPartsPrimed DEF TypeOK, RequestState
      <4>3. QED
        BY <4>1, <4>2, OrmAssumption
    <3>3. /\ cinder[request'[r].vol].size \in Nat
          /\ cinder'[request'[r].vol].size \in Nat
      BY <3>1, <3>2, IndInvParts, IndInvPartsPrimed, OrmAssumption DEF TypeOK, CinderVolume
    <3>4. cinder[request'[r].vol].size >= request'[r].size
      <4>1. CASE request'[r] = request[r]
        BY <2>2, <4>1 DEF SizesGrow
      <4>2. CASE request'[r] # request[r]
        BY <2>2, <3>2, <4>2, ResizeEndsWithItsSize
      <4>3. QED
        BY <4>1, <4>2
    <3>5. QED
      BY <2>1, <3>2, <3>3, <3>4 DEF SizesKept
  <2>3. QED
    BY <2>1, <2>2 DEF SizesGrow, SizesKept
<1>3. QED
  BY <1>1, <1>2, Invariance, PTL DEF Spec

\* PUT /volumes/{id}/size answers only when Cinder has the volume at the new size
\* or, after a later resize by somebody else, at a larger one: for any number of
\* concurrent requests, although the database never learns of the size.
THEOREM ResizeSafe == Spec => ResizeIsReal
<1>1. SizesGrow => \A r \in Request :
        request[r].at = "resize_save" /\ request'[r].at = "idle"
          => cinder[request[r].vol].size >= request[r].size
  BY DEF SizesGrow
<1>2. QED
  BY <1>1, SizesGrowAlways, PTL DEF Spec, ResizeIsReal
===========================================================================
