----------------------- MODULE ServerLifecycle_proofs -----------------------
(***************************************************************************)
(* Proofs about ServerLifecycle, for any number of servers and concurrent  *)
(* requests, any bound of the poll loops and any faults.  StepKeeps says   *)
(* what a step of one request on one server has to show for the inductive  *)
(* invariant, QuietKeeps what is left of that when the step writes neither *)
(* the server's rows nor anything in Nova or Neutron; then each action     *)
(* shows it.                                                               *)
(***************************************************************************)
EXTENDS ServerLifecycle, TLAPS

\* Lists of one and of two tasks.
LEMMA ShortLists ==
  ASSUME NEW a, NEW b, a # b
  PROVE  /\ AddTask(<<>>, a) = <<a>> /\ AddTask(<<a>>, b) = <<a, b>>
         /\ LatestTask(<<a>>) = a /\ WithoutLatest(<<a>>) = <<>>
         /\ LatestTask(<<a, b>>) = b /\ WithoutLatest(<<a, b>>) = <<a>>
         /\ <<a>> # <<>> /\ <<a, b>> # <<>> /\ <<a>> # <<a, b>>
<1>1. /\ Len(<<>>) = 0 /\ Len(<<a>>) = 1 /\ <<a>>[1] = a
      /\ Len(<<a, b>>) = 2 /\ <<a, b>>[1] = a /\ <<a, b>>[2] = b
  OBVIOUS
<1>2. AddTask(<<>>, a) = <<a>>
  BY DEF AddTask
<1>0. <<a>> \in Seq({a, b}) /\ <<a, b>> \in Seq({a, b})
  OBVIOUS
<1>3. AddTask(<<a>>, b) = <<a, b>>
  <2>1. Append(<<a>>, b) \in Seq({a, b}) /\ Len(Append(<<a>>, b)) = 2
    BY <1>0, <1>1
  <2>2. Append(<<a>>, b)[1] = a /\ Append(<<a>>, b)[2] = b
    BY <1>0, <1>1
  <2>3. \A s, t \in Seq({a, b}) :
          Len(s) = 2 /\ Len(t) = 2 /\ s[1] = t[1] /\ s[2] = t[2] => s = t
    OBVIOUS
  <2> QED
    BY <1>0, <1>1, <2>1, <2>2, <2>3 DEF AddTask
<1>4. SubSeq(<<a>>, 1, 0) = <<>>
  OBVIOUS
<1>5. SubSeq(<<a, b>>, 1, 1) = <<a>>
  <2>1. /\ SubSeq(<<a, b>>, 1, 1) \in Seq({a, b})
        /\ Len(SubSeq(<<a, b>>, 1, 1)) = 1 /\ SubSeq(<<a, b>>, 1, 1)[1] = a
    BY <1>0, <1>1
  <2>2. \A s, t \in Seq({a, b}) : Len(s) = 1 /\ Len(t) = 1 /\ s[1] = t[1] => s = t
    OBVIOUS
  <2> QED
    BY <1>0, <1>1, <2>1, <2>2
<1> QED
  BY <1>1, <1>2, <1>3, <1>4, <1>5 DEF LatestTask, WithoutLatest

\* The undo tasks of a creation.
LEMMA TaskLists ==
  /\ AddTask(<<>>, "delete_port") = OnePort
  /\ AddTask(OnePort, "delete_server") = PortAndServer
  /\ LatestTask(OnePort) = "delete_port" /\ WithoutLatest(OnePort) = <<>>
  /\ LatestTask(PortAndServer) = "delete_server" /\ WithoutLatest(PortAndServer) = OnePort
  /\ OnePort # <<>> /\ PortAndServer # <<>> /\ OnePort # PortAndServer
  /\ {<<>>, OnePort, PortAndServer} \subseteq Seq({"delete_port", "delete_server"})
<1>1. "delete_port" # "delete_server"
  OBVIOUS
<1>2. {<<>>, OnePort, PortAndServer} \subseteq Seq({"delete_port", "delete_server"})
  BY DEF OnePort, PortAndServer
<1> QED
  BY <1>1, <1>2, ShortLists DEF OnePort, PortAndServer

LEMMA Idles ==
  /\ Idle \in RequestState /\ WellFormed(Idle)
  /\ Idle.at = "idle" /\ Idle.srv = NoServer /\ Idle.tasks = <<>>
  /\ ~Making(Idle) /\ ~Building(Idle)
<1>1. Idle \in RequestState
  BY ServersAssumption DEF Idle, RequestState, Location
<1> QED
  BY <1>1 DEF Idle, WellFormed, Making, Building

\* A request that moves on to another await.
LEMMA Moved ==
  ASSUME NEW q \in RequestState, NEW l \in Location, NEW u, u = [q EXCEPT !.at = l]
  PROVE  /\ u \in RequestState
         /\ u.at = l /\ u.srv = q.srv /\ u.polls = q.polls /\ u.tasks = q.tasks
         /\ u.loaded = q.loaded /\ u.nics = q.nics /\ u.root = q.root
BY DEF RequestState

\* What the other requests keep when one of them has lost the server to itself.
Same(q, u) ==
  /\ u.at = q.at /\ u.srv = q.srv /\ u.tasks = q.tasks
  /\ u.loaded = q.loaded /\ u.nics = q.nics /\ u.seen = q.seen
  /\ q = Idle => u = Idle

\* A step of request r that leaves it in `state`.
RequestMoves(r, state) ==
  /\ request' \in [Request -> RequestState]
  /\ request'[r] = state
  /\ \A p \in Request \ {r} : Same(request[p], request'[p])

LEMMA BecomeMoves ==
  ASSUME TypeOK, NEW r \in Request, NEW state \in RequestState, Become(r, state)
  PROVE  RequestMoves(r, state)
BY DEF TypeOK, Become, RequestMoves, Same

LEMMA StartMoves ==
  ASSUME TypeOK, NEW r \in Request, NEW state \in RequestState, Start(r, state)
  PROVE  \E u \in RequestState :
           /\ RequestMoves(r, u) /\ u.at = state.at /\ u.srv = state.srv
           /\ u.tasks = state.tasks /\ u.loaded = state.loaded /\ u.nics = state.nics
<1> DEFINE u == [state EXCEPT !.clean = ~Busy(state.srv)]
<1>1. /\ u \in RequestState /\ u.at = state.at /\ u.srv = state.srv
      /\ u.tasks = state.tasks /\ u.loaded = state.loaded /\ u.nics = state.nics
  <2>1. u = [state EXCEPT !.clean = TRUE] \/ u = [state EXCEPT !.clean = FALSE]
    <3>1. CASE Busy(state.srv)
      BY <3>1
    <3>2. CASE ~Busy(state.srv)
      BY <3>2
    <3> QED
      BY <3>1, <3>2
  <2> HIDE DEF u
  <2> QED
    BY <2>1 DEF RequestState
<1>2. ASSUME NEW q \in RequestState, NEW v, v = [q EXCEPT !.clean = FALSE]
      PROVE  v \in RequestState /\ Same(q, v)
  <2>1. v \in RequestState
    BY <1>2 DEF RequestState
  <2>2. /\ v.at = q.at /\ v.srv = q.srv /\ v.tasks = q.tasks
        /\ v.loaded = q.loaded /\ v.nics = q.nics /\ v.seen = q.seen
    BY <1>2 DEF RequestState
  <2>3. q.clean = FALSE => v = q
    BY <1>2 DEF RequestState
  <2>4. Idle.clean = FALSE
    BY DEF Idle
  <2> QED
    BY <2>1, <2>2, <2>3, <2>4 DEF Same
<1>3. request'[r] = u
  BY DEF Start
<1>4. ASSUME NEW p \in Request \ {r}
      PROVE  request'[p] \in RequestState /\ Same(request[p], request'[p])
  <2>1. request'[p] = request[p] \/ request'[p] = [request[p] EXCEPT !.clean = FALSE]
    BY DEF Start
  <2>2. request[p] \in RequestState
    BY DEF TypeOK
  <2> QED
    BY <2>1, <2>2, <1>2 DEF Same
<1>5. request' \in [Request -> RequestState]
  BY <1>1, <1>3, <1>4 DEF Start
<1> QED
  BY <1>1, <1>3, <1>4, <1>5 DEF RequestMoves

LEMMA Initially == Init => IndInv
<1> SUFFICES ASSUME Init PROVE IndInv
  OBVIOUS
<1> USE ServersAssumption
<1>1. TypeOK
  BY Idles DEF Init, TypeOK, Row, RootRow, NovaServer, ServerStatus
<1>2. \A r \in Request : request[r] = Idle
  BY DEF Init
<1>3. RequestsWellFormed /\ MakersAreAlone /\ RequestsKnow
  BY <1>2, Idles DEF RequestsWellFormed, MakersAreAlone, RequestsKnow
<1>4. ServersFit /\ NothingIsOrphaned
  BY DEF Init, ServersFit, ServerFits, NothingIsOrphaned
<1> QED
  BY <1>1, <1>3, <1>4 DEF IndInv

---------------------------------------------------------------------------
(* What a step of one request has to show.                                 *)

LEMMA SameFits ==
  ASSUME NEW q, NEW u, Same(q, u)
  PROVE  /\ WellFormed(q) => WellFormed(u)
         /\ Making(u) <=> Making(q)
         /\ Building(u) <=> Building(q)
         /\ MakerKnows(q)' => MakerKnows(u)'
         /\ UserKnows(q)' => UserKnows(u)'
<1>1. Making(u) <=> Making(q)
  BY DEF Same, Making
<1>2. Building(u) <=> Building(q)
  BY DEF Same, Building
<1>3. WellFormed(q) => WellFormed(u)
  BY <1>1 DEF Same, WellFormed
<1>4. MakerKnows(q)' => MakerKnows(u)'
  BY DEF Same, MakerKnows
<1>5. UserKnows(q)' => UserKnows(u)'
  BY <1>2 DEF Same, UserKnows, StatusAllows, Building, Starting, Stopping
<1> QED
  BY <1>1, <1>2, <1>3, <1>4, <1>5

\* Nothing of server t that the invariant speaks of has changed.
Untouched(t) ==
  row'[t] = row[t] /\ nic'[t] = nic[t] /\ nova'[t] = nova[t] /\ port'[t] = port[t]

\* What was true of server s for good is still true.
Grows(s) ==
  /\ row'[s].life = "absent" => row[s].life = "absent"
  /\ row'[s].life = "live" => row[s].life # "deleted"
  /\ nic[s] = "deleted" => nic'[s] = "deleted"
  /\ row[s].life # "absent" /\ port[s] = "GONE" => port'[s] = "GONE"
  /\ row[s].life # "absent" /\ nova[s].status = "GONE" => nova'[s].status = "GONE"

Knows(q) == IF Making(q) THEN MakerKnows(q) ELSE UserKnows(q)

\* The other requests that work on server s.
Others(r, s) == {p \in Request \ {r} : request[p].srv = s}

\* A step of request r on server s that leaves the request in `state`.
StepFits(r, s, state) ==
  /\ RequestMoves(r, state)
  /\ request[r].srv \in {s, NoServer}
  /\ state = Idle \/ state.srv = s
  /\ WellFormed(state)
  /\ TypeOK'
  /\ blurred \subseteq blurred'
  /\ \A t \in Server \ {s} : Untouched(t)
  /\ Grows(s)
  /\ \A p \in Others(r, s) :
       /\ ~Making(request[p]) /\ ~Making(state)
       /\ ~(Building(request[p]) /\ Building(state))
       /\ row'[s].life = "live" => StatusAllows(request[p], row'[s].status)
  /\ state # Idle => Knows(state)'
  /\ ServerFits(s)'
  /\ row'[s].life = "absent" /\ state = Idle /\ s \notin blurred'
       => port'[s] # "EXISTS" /\ Unclaimed(nova'[s])

LEMMA StepKeeps ==
  ASSUME IndInv, NEW r \in Request, NEW s \in Server, NEW state \in RequestState,
         StepFits(r, s, state)
  PROVE  IndInv'
<1> USE ServersAssumption
<1>0. /\ TypeOK /\ RequestsWellFormed /\ MakersAreAlone /\ RequestsKnow
      /\ ServersFit /\ NothingIsOrphaned /\ TypeOK'
  BY DEF IndInv, StepFits
<1>1. /\ request'[r] = state
      /\ \A p \in Request \ {r} : Same(request[p], request'[p])
      /\ \A p \in Request \ {r} : request'[p].srv = request[p].srv
  BY DEF StepFits, RequestMoves, Same
<1>2. RequestsWellFormed'
  <2> SUFFICES ASSUME NEW p \in Request PROVE WellFormed(request'[p])
    BY DEF RequestsWellFormed, WellFormed, Making
  <2>1. CASE p = r
    BY <2>1, <1>1 DEF StepFits
  <2>2. CASE p # r
    BY <2>2, <1>0, <1>1, SameFits DEF RequestsWellFormed
  <2> QED
    BY <2>1, <2>2
<1>3. \A p \in Request : request[p].srv \in Server \cup {NoServer}
  BY <1>0 DEF TypeOK, RequestState
<1>4. state.srv \in {s, NoServer}
  BY Idles DEF StepFits
<1>5. MakersAreAlone'
  <2> SUFFICES ASSUME NEW p \in Request, NEW q \in Request, p # q,
                      request'[p].srv # NoServer, request'[p].srv = request'[q].srv
               PROVE  /\ ~Making(request'[p])
                      /\ ~(Building(request'[p]) /\ Building(request'[q]))
    BY DEF MakersAreAlone, Making, Building
  <2>1. CASE p = r
    <3>1. q \in Others(r, s)
      BY <2>1, <1>1, <1>4 DEF Others
    <3>2. Building(request'[q]) <=> Building(request[q])
      BY <2>1, <1>1, SameFits
    <3> QED
      BY <2>1, <3>1, <3>2, <1>1 DEF StepFits
  <2>2. CASE q = r
    <3>1. p \in Others(r, s)
      BY <2>2, <1>1, <1>4 DEF Others
    <3>2. /\ Building(request'[p]) <=> Building(request[p])
          /\ Making(request'[p]) <=> Making(request[p])
      BY <2>2, <1>1, SameFits
    <3> QED
      BY <2>2, <3>1, <3>2, <1>1 DEF StepFits
  <2>3. CASE p # r /\ q # r
    <3>1. /\ Building(request'[p]) <=> Building(request[p])
          /\ Making(request'[p]) <=> Making(request[p])
          /\ Building(request'[q]) <=> Building(request[q])
      BY <2>3, <1>1, SameFits
    <3> QED
      BY <2>3, <3>1, <1>0, <1>1 DEF MakersAreAlone
  <2> QED
    BY <2>1, <2>2, <2>3
<1>6. RequestsKnow'
  <2> SUFFICES ASSUME NEW p \in Request, NEW u \in RequestState, u = request'[p],
                      u.srv # NoServer
               PROVE  Knows(u)'
    BY <1>0 DEF TypeOK, RequestsKnow, Knows, Making, MakerKnows, UserKnows, StatusAllows,
       Building, Starting, Stopping
  <2>1. CASE p = r
    <3>1. state # Idle
      BY <2>1, <1>1, Idles
    <3>2. u = state
      BY <2>1, <1>1
    <3> QED
      BY <3>1, <3>2 DEF StepFits
  <2>2. CASE p # r
    <3>1. PICK q \in RequestState : q = request[p]
      BY <1>0 DEF TypeOK
    <3>2. q.srv \in Server /\ WellFormed(q) /\ Knows(q)
      BY <2>2, <3>1, <1>0, <1>1, <1>3 DEF RequestsKnow, RequestsWellFormed, Knows
    <3>3. Knows(q)'
      <4>1. CASE q.srv = s
        <5>1. p \in Others(r, s)
          BY <4>1, <3>1, <2>2 DEF Others
        <5>2. ~Making(q) /\ (row'[s].life = "live" => StatusAllows(q, row'[s].status))
          BY <5>1, <3>1 DEF StepFits
        <5>3. UserKnows(q)
          BY <5>2, <3>2 DEF Knows
        <5>4. UserKnows(q)'
          BY <5>2, <5>3, <4>1 DEF StepFits, Grows, UserKnows
        <5> QED
          BY <5>2, <5>4 DEF Knows, Making
      <4>2. CASE q.srv # s
        <5>1. Untouched(q.srv) /\ blurred \subseteq blurred'
          BY <4>2, <3>2 DEF StepFits
        <5>2. MakerKnows(q) => MakerKnows(q)'
          BY <5>1 DEF Untouched, MakerKnows
        <5>3. UserKnows(q) => UserKnows(q)'
          BY <5>1 DEF Untouched, UserKnows
        <5> QED
          BY <5>2, <5>3, <3>2 DEF Knows, Making
      <4> QED
        BY <4>1, <4>2
    <3>4. Same(q, u)
      BY <2>2, <3>1, <1>1
    <3> QED
      BY <3>3, <3>4, SameFits DEF Knows, Making
  <2> QED
    BY <2>1, <2>2
<1>7. ServersFit'
  <2> SUFFICES ASSUME NEW t \in Server PROVE ServerFits(t)'
    BY DEF ServersFit
  <2>1. CASE t = s
    BY <2>1 DEF StepFits
  <2>2. CASE t # s
    <3>1. Untouched(t) /\ ServerFits(t)
      BY <2>2, <1>0 DEF StepFits, ServersFit
    <3> QED
      BY <3>1 DEF Untouched, ServerFits
  <2> QED
    BY <2>1, <2>2
<1>8. NothingIsOrphaned'
  <2> SUFFICES ASSUME NEW t \in Server,
                      row'[t].life = "absent", ~Busy(t)', t \notin blurred'
               PROVE  port'[t] # "EXISTS" /\ Unclaimed(nova'[t])
    BY DEF NothingIsOrphaned, Unclaimed
  <2>1. CASE t = s
    <3>1. state = Idle
      BY <2>1, <1>1 DEF StepFits, Busy
    <3> QED
      BY <2>1, <3>1 DEF StepFits
  <2>2. CASE t # s
    <3>1. request[r].srv # t
      BY <2>2, <1>3 DEF StepFits
    <3>2. \A p \in Request \ {r} : request[p].srv # t
      BY <1>1 DEF Busy
    <3>3. ~Busy(t) /\ Untouched(t) /\ t \notin blurred
      BY <2>2, <3>1, <3>2 DEF Busy, StepFits
    <3> QED
      BY <3>3, <1>0 DEF NothingIsOrphaned, Untouched, Unclaimed
  <2> QED
    BY <2>1, <2>2
<1> QED
  BY <1>0, <1>2, <1>5, <1>6, <1>7, <1>8 DEF IndInv

\* What the invariant says of a request that is at work.
LEMMA AtWork ==
  ASSUME IndInv, NEW r \in Request, request[r].at # "idle"
  PROVE  /\ TypeOK /\ request[r] \in RequestState /\ request[r].srv \in Server
         /\ request[r] # Idle /\ WellFormed(request[r]) /\ Knows(request[r])
         /\ ServerFits(request[r].srv)
<1> USE ServersAssumption
<1>1. TypeOK /\ request[r] \in RequestState /\ WellFormed(request[r])
  BY DEF IndInv, TypeOK, RequestsWellFormed
<1>2. request[r].srv \in Server
  BY <1>1 DEF WellFormed, RequestState
<1>3. Knows(request[r]) /\ ServerFits(request[r].srv)
  BY <1>2 DEF IndInv, RequestsKnow, Knows, ServersFit
<1> QED
  BY <1>1, <1>2, <1>3, Idles

\* Nobody makes a server that another request works on.
LEMMA OthersKnow ==
  ASSUME IndInv, NEW r \in Request, NEW s \in Server, NEW p \in Others(r, s),
         request[r].srv = s \/ row[s].life # "absent"
  PROVE  /\ ~Making(request[p]) /\ UserKnows(request[p])
         /\ request[r].srv = s =>
              ~Making(request[r]) /\ ~(Building(request[r]) /\ Building(request[p]))
<1> USE ServersAssumption
<1>1. p \in Request /\ p # r /\ request[p].srv = s
  BY DEF Others
<1>2. request[r].srv = s =>
        /\ ~Making(request[p]) /\ ~Making(request[r])
        /\ ~(Building(request[r]) /\ Building(request[p]))
  BY <1>1 DEF IndInv, MakersAreAlone
<1>3. IF Making(request[p]) THEN MakerKnows(request[p]) ELSE UserKnows(request[p])
  BY <1>1 DEF IndInv, RequestsKnow
<1>4. ~Making(request[p])
  BY <1>1, <1>2, <1>3 DEF MakerKnows
<1> QED
  BY <1>2, <1>3, <1>4

History ==
  blurred \subseteq blurred' /\ blurred' \subseteq Server /\ unsure' \subseteq Server

LEMMA Histories ==
  ASSUME IndInv, NEW r \in Request, request[r].at # "idle" \/ Calm,
         Calm \/ Blurs(r) \/ LeavesUnsure(r)
  PROVE  History
<1>1. blurred \subseteq Server /\ unsure \subseteq Server
  BY DEF IndInv, TypeOK
<1>2. CASE Calm
  BY <1>1, <1>2 DEF Calm, History
<1>3. CASE request[r].at # "idle"
  BY <1>1, <1>3, AtWork DEF Calm, Blurs, LeavesUnsure, History
<1> QED
  BY <1>2, <1>3

\* A step that changes nothing the invariant speaks of but the request.
Quiet ==
  /\ row' = row /\ nic' = nic /\ nova' = nova /\ port' = port
  /\ root' \in [Server -> RootRow]
  /\ disk' \in [Server -> {"UNCREATED", "EXISTS", "GONE"}]
  /\ History

QuietFits(r, s, state) ==
  /\ Quiet
  /\ RequestMoves(r, state)
  /\ request[r].srv = s \/ request[r].srv = NoServer
  /\ row[s].life # "absent" /\ ~Making(state)
  /\ state = Idle \/ state.srv = s
  /\ WellFormed(state)
  /\ state # Idle => UserKnows(state)
  /\ Building(state) => request[r].srv = s /\ Building(request[r])

LEMMA QuietKeeps ==
  ASSUME IndInv, NEW r \in Request, NEW s \in Server, NEW state \in RequestState,
         QuietFits(r, s, state)
  PROVE  IndInv'
<1>1. TypeOK'
  BY DEF IndInv, TypeOK, QuietFits, Quiet, History, RequestMoves
<1>2. \A t \in Server : Untouched(t)
  BY DEF QuietFits, Quiet, Untouched
<1>3. Grows(s)
  BY DEF QuietFits, Quiet, Grows
<1>4. ASSUME NEW p \in Others(r, s)
      PROVE  /\ ~Making(request[p]) /\ ~Making(state)
             /\ ~(Building(request[p]) /\ Building(state))
             /\ row'[s].life = "live" => StatusAllows(request[p], row'[s].status)
  <2>1. request[p].srv = s
    BY DEF Others
  <2>2. ~Making(request[p]) /\ UserKnows(request[p])
    BY OthersKnow DEF QuietFits
  <2>3. row'[s].life = "live" => StatusAllows(request[p], row'[s].status)
    BY <2>1, <2>2 DEF UserKnows, QuietFits, Quiet
  <2>4. ~(Building(request[p]) /\ Building(state))
    BY OthersKnow DEF QuietFits
  <2> QED
    BY <2>2, <2>3, <2>4 DEF QuietFits
<1>5. state # Idle => Knows(state)'
  BY DEF QuietFits, Quiet, Knows, UserKnows, Making
<1>6. ServerFits(s)'
  BY DEF IndInv, ServersFit, ServerFits, QuietFits, Quiet
<1>7. StepFits(r, s, state)
  BY <1>1, <1>2, <1>3, <1>4, <1>5, <1>6 DEF StepFits, QuietFits, Quiet, History
<1> QED
  BY <1>7, StepKeeps

\* The three ways a quiet step can go.
LEMMA QuietFinish ==
  ASSUME IndInv, NEW r \in Request, request[r].at # "idle", ~Making(request[r]),
         Quiet, Finish(r)
  PROVE  IndInv'
<1>1. RequestMoves(r, Idle)
  BY BecomeMoves, Idles DEF Finish, IndInv
<1>2. request[r].srv \in Server /\ row[request[r].srv].life # "absent"
  BY AtWork DEF Knows, UserKnows
<1>3. QuietFits(r, request[r].srv, Idle)
  BY <1>1, <1>2, Idles DEF QuietFits
<1> QED
  BY <1>2, <1>3, Idles, QuietKeeps

LEMMA QuietMove ==
  ASSUME IndInv, NEW r \in Request, NEW state \in RequestState,
         request[r].at # "idle", ~Making(request[r]),
         Quiet, Become(r, state), state.srv = request[r].srv,
         ~Making(state), WellFormed(state), UserKnows(state),
         Building(state) => Building(request[r])
  PROVE  IndInv'
<1>1. RequestMoves(r, state)
  BY BecomeMoves DEF IndInv
<1>2. request[r].srv \in Server /\ row[request[r].srv].life # "absent"
  BY AtWork DEF Knows, UserKnows
<1>3. QuietFits(r, request[r].srv, state)
  BY <1>1, <1>2 DEF QuietFits
<1> QED
  BY <1>2, <1>3, QuietKeeps

LEMMA QuietStart ==
  ASSUME IndInv, NEW r \in Request, NEW s \in Server, NEW state \in RequestState,
         Quiet, Start(r, state), state.srv = s, state.tasks = <<>>, Live(s),
         state.at \in {"nova_start", "nova_stop", "nova_delete"},
         StatusAllows(state, row[s].status)
  PROVE  IndInv'
<1> USE ServersAssumption
<1>1. PICK u \in RequestState :
        /\ RequestMoves(r, u) /\ u.at = state.at /\ u.srv = state.srv
        /\ u.tasks = state.tasks /\ u.loaded = state.loaded /\ u.nics = state.nics
  BY StartMoves DEF IndInv
<1>2. request[r] = Idle
  BY DEF IndInv, RequestsWellFormed, WellFormed, Start
<1>3. ~Making(u) /\ ~Building(u)
  BY <1>1 DEF Making, Building
<1>4. WellFormed(u)
  BY <1>1, <1>3 DEF WellFormed
<1>5. StatusAllows(u, row[s].status)
  BY <1>1 DEF StatusAllows, Building, Starting, Stopping
<1>6. UserKnows(u)
  BY <1>1, <1>5 DEF UserKnows, Live
<1>7. QuietFits(r, s, u)
  BY <1>1, <1>2, <1>3, <1>4, <1>6, Idles DEF QuietFits, Live
<1> QED
  BY <1>7, QuietKeeps

---------------------------------------------------------------------------
(* The actions that write neither the server's rows nor Nova nor Neutron.  *)

\* The external tables and the database as a quiet action leaves them.
LEMMA Quiets ==
  ASSUME IndInv, History, UNCHANGED <<row, nic, root, nova, port, disk>>
  PROVE  Quiet
BY DEF IndInv, TypeOK, Quiet

LEMMA PollAgainKeeps ==
  ASSUME IndInv, NEW r \in Request, request[r].at # "idle", ~Making(request[r]),
         PollAgain(r), UNCHANGED <<tables, openstack>>
  PROVE  IndInv'
<1> USE ServersAssumption
<1>1. PICK q \in RequestState : q = request[r]
  BY AtWork
<1>2. PICK state : state = [q EXCEPT !.polls = @ + 1]
  OBVIOUS
<1>3. q.polls \in 0..(MaxPolls - 1) /\ q.polls + 1 # MaxPolls
  BY <1>1 DEF PollAgain, LastPoll, RequestState
<1>4. q.polls + 1 \in 0..(MaxPolls - 1)
  BY <1>3
<1>5. /\ state \in RequestState
      /\ state.at = q.at /\ state.srv = q.srv /\ state.tasks = q.tasks
      /\ state.loaded = q.loaded /\ state.nics = q.nics /\ state.seen = q.seen
  BY <1>2, <1>4 DEF RequestState
<1>6. Same(q, state)
  BY <1>1, <1>5, Idles DEF Same
<1>7. Making(state) <=> Making(q)
  BY <1>6, SameFits
<1>8. Building(state) <=> Building(q)
  BY <1>6, SameFits
<1>9. WellFormed(q) /\ UserKnows(q)
  BY <1>1, AtWork DEF Knows
<1>10. WellFormed(state)
  BY <1>6, <1>9, SameFits
<1>11. UserKnows(state)
  BY <1>5, <1>9 DEF UserKnows, StatusAllows, Building, Starting, Stopping
<1>12. Become(r, state)
  BY <1>1, <1>2 DEF PollAgain
<1>13. Calm
  BY DEF PollAgain
<1>14. Quiet
  BY <1>13, Histories, Quiets DEF tables, openstack
<1> QED
  BY <1>1, <1>5, <1>7, <1>8, <1>10, <1>11, <1>12, <1>14, QuietMove

\* A request moves on to the location l, or ends.
LEMMA AwaitKeeps ==
  ASSUME IndInv, NEW r \in Request, request[r].at # "idle", ~Making(request[r]),
         NEW l \in Location,
         Await(r, l), Quiet,
         l \notin {"idle", "create_port", "create_nova", "insert", "rollback", "build_save"},
         \A u \in RequestState :
           /\ u.at = l /\ u.srv = request[r].srv /\ u.nics = request[r].nics
           /\ UserKnows(request[r])
           => UserKnows(u) /\ (Building(u) => Building(request[r]))
  PROVE  IndInv'
<1>1. PICK q \in RequestState : q = request[r]
  BY AtWork
<1>2. PICK state : state = [q EXCEPT !.at = l]
  OBVIOUS
<1>3. /\ state \in RequestState
      /\ state.at = l /\ state.srv = q.srv /\ state.tasks = q.tasks
      /\ state.loaded = q.loaded /\ state.nics = q.nics
  BY <1>2, Moved
<1>4. WellFormed(q) /\ UserKnows(q)
  BY <1>1, AtWork DEF Knows
<1>5. ~Making(state)
  BY <1>3 DEF Making
<1>6. WellFormed(state)
  BY <1>1, <1>3, <1>4, <1>5 DEF WellFormed
<1>7. UserKnows(state) /\ (Building(state) => Building(q))
  BY <1>1, <1>3, <1>4
<1>8. Become(r, state)
  BY <1>1, <1>2 DEF Await
<1> QED
  BY <1>1, <1>3, <1>5, <1>6, <1>7, <1>8, QuietMove

LEMMA LoadLiveKeeps ==
  ASSUME IndInv, NEW r \in Request, NEW from, NEW to, LoadLive(r, from, to),
         <<from, to>> \in {<<"build_load", "build_save">>, <<"start_load", "start_save">>,
                           <<"stop_load", "stop_save">>, <<"gone_load", "gone_poll">>}
  PROVE  IndInv'
<1>1. request[r].at = from /\ from # "idle" /\ ~Making(request[r])
  BY DEF LoadLive, Making
<1>2. PICK q \in RequestState : q = request[r]
  BY <1>1, AtWork
<1>3. /\ q.srv \in Server /\ TypeOK /\ WellFormed(q) /\ UserKnows(q)
  BY <1>1, <1>2, AtWork DEF Knows
<1>4. Calm /\ Quiet
  BY Histories, Quiets DEF LoadLive, tables, openstack
<1>5. CASE Live(q.srv) /\ Become(r, [q EXCEPT !.at = to, !.loaded = row[q.srv].status])
  <2>1. PICK state : state = [q EXCEPT !.at = to, !.loaded = row[q.srv].status]
    OBVIOUS
  <2>2. row[q.srv].status \in ServerStatus
    BY <1>3 DEF TypeOK, Row
  <2>3. /\ state \in RequestState
        /\ state.at = to /\ state.srv = q.srv /\ state.tasks = q.tasks
        /\ state.loaded = row[q.srv].status /\ state.nics = q.nics
    BY <2>1, <2>2 DEF RequestState, Location
  <2>4. ~Making(state)
    BY <2>3 DEF Making
  <2>5. WellFormed(state)
    BY <2>3, <2>4, <1>1, <1>2, <1>3 DEF WellFormed
  <2>6. Building(state) => Building(q)
    BY <2>3, <1>1, <1>2 DEF Building
  <2>7. StatusAllows(state, row[q.srv].status)
    BY <1>1, <1>2, <1>3, <1>5, <2>3
    DEF StatusAllows, UserKnows, Live, Building, Starting, Stopping
  <2>8. UserKnows(state)
    BY <1>1, <1>2, <1>3, <1>5, <2>3, <2>7 DEF UserKnows, Live, StatusAllows, Building
  <2> QED
    BY <1>1, <1>2, <1>4, <1>5, <2>1, <2>3, <2>4, <2>5, <2>6, <2>8, QuietMove
<1>6. CASE Finish(r)
  BY <1>1, <1>4, <1>6, QuietFinish
<1> QED
  BY <1>2, <1>5, <1>6 DEF LoadLive

LEMMA PollBuildKeeps ==
  ASSUME IndInv, NEW r \in Request, PollBuild(r)
  PROVE  IndInv'
<1>1. request[r].at = "build_poll" /\ request[r].at # "idle" /\ ~Making(request[r])
  BY DEF PollBuild, Making
<1>2. PICK q \in RequestState : q = request[r]
  BY <1>1, AtWork
<1>3. /\ q.srv \in Server /\ TypeOK /\ WellFormed(q) /\ UserKnows(q) /\ ServerFits(q.srv)
  BY <1>1, <1>2, AtWork DEF Knows
<1>4. Calm \/ LeavesUnsure(r)
  BY DEF PollBuild, PollAgain
<1>5. Quiet
  BY <1>1, <1>4, Histories, Quiets DEF PollBuild, tables, openstack
<1>6. CASE PollAgain(r)
  BY <1>1, <1>6, PollAgainKeeps DEF PollBuild
<1>7. CASE Finish(r)
  BY <1>1, <1>5, <1>7, QuietFinish
<1>8. ASSUME NEW x \in {"TIMEOUT", "ACTIVE", "SHUTOFF", "ERROR"},
             Become(r, [q EXCEPT !.at = "build_load", !.seen = x])
      PROVE  IndInv'
  <2>1. PICK state : state = [q EXCEPT !.at = "build_load", !.seen = x]
    OBVIOUS
  <2>2. /\ state \in RequestState
        /\ state.at = "build_load" /\ state.srv = q.srv /\ state.tasks = q.tasks
        /\ state.nics = q.nics
    BY <2>1 DEF RequestState, Location
  <2>3. ~Making(state) /\ Building(state) /\ Building(q)
    BY <2>2, <1>1, <1>2 DEF Making, Building
  <2>4. WellFormed(state)
    BY <2>2, <2>3, <1>1, <1>2, <1>3 DEF WellFormed
  <2>5. UserKnows(state)
    BY <1>1, <1>2, <1>3, <2>2, <2>3 DEF UserKnows, StatusAllows, Starting, Stopping
  <2> QED
    BY <1>1, <1>2, <1>5, <1>8, <2>1, <2>2, <2>3, <2>4, <2>5, QuietMove
<1>9. nova[q.srv].status \notin {"BUILD", "GONE"}
        => nova[q.srv].status \in {"ACTIVE", "SHUTOFF", "ERROR"}
  BY <1>3 DEF TypeOK, NovaServer, ServerFits, UserKnows
<1> QED
  BY <1>2, <1>6, <1>7, <1>8, <1>9 DEF PollBuild, FromBuildTimeout

LEMMA PollPowerKeeps ==
  ASSUME IndInv, NEW r \in Request, NEW from, NEW pending, NEW wanted, NEW to,
         PollPower(r, from, pending, wanted, to),
         <<from, to>> \in {<<"start_poll", "start_load">>, <<"stop_poll", "stop_load">>}
  PROVE  IndInv'
<1>1. request[r].at = from /\ request[r].at # "idle" /\ ~Making(request[r])
  BY DEF PollPower, Making
<1>2. Calm \/ LeavesUnsure(r)
  BY DEF PollPower, PollAgain
<1>3. Quiet
  BY <1>1, <1>2, Histories, Quiets DEF PollPower, tables, openstack
<1>4. CASE PollAgain(r)
  BY <1>1, <1>4, PollAgainKeeps DEF PollPower
<1>5. CASE Finish(r)
  BY <1>1, <1>3, <1>5, QuietFinish
<1>6. CASE Await(r, to)
  <2>1. to \in Location
    BY DEF Location
  <2>2. ASSUME NEW u \in RequestState,
               u.at = to, u.srv = request[r].srv, UserKnows(request[r])
        PROVE  UserKnows(u) /\ ~Building(u)
    BY <1>1, <2>2 DEF UserKnows, StatusAllows, Building, Starting, Stopping
  <2> QED
    BY <1>1, <1>3, <1>6, <2>1, <2>2, AwaitKeeps
<1> QED
  BY <1>4, <1>5, <1>6 DEF PollPower

LEMMA StartServerKeeps ==
  ASSUME IndInv, NEW r \in Request, NEW s \in Server, StartServer(r, s)
  PROVE  IndInv'
<1>1. PICK state : state = [Idle EXCEPT !.at = "nova_start", !.srv = s]
  OBVIOUS
<1>2. /\ state \in RequestState /\ state.at = "nova_start" /\ state.srv = s
      /\ state.tasks = <<>>
  BY <1>1, Idles DEF RequestState, Location, Idle
<1>3. StatusAllows(state, row[s].status)
  BY <1>2 DEF StatusAllows, Building, Starting, Stopping, StartServer, ValidateStartable
<1>4. Quiet
  BY Histories, Quiets DEF StartServer, tables, openstack
<1> QED
  BY <1>1, <1>2, <1>3, <1>4, QuietStart DEF StartServer

LEMMA StopServerKeeps ==
  ASSUME IndInv, NEW r \in Request, NEW s \in Server, StopServer(r, s)
  PROVE  IndInv'
<1>1. PICK state : state = [Idle EXCEPT !.at = "nova_stop", !.srv = s]
  OBVIOUS
<1>2. /\ state \in RequestState /\ state.at = "nova_stop" /\ state.srv = s
      /\ state.tasks = <<>>
  BY <1>1, Idles DEF RequestState, Location, Idle
<1>3. StatusAllows(state, row[s].status)
  BY <1>2 DEF StatusAllows, Building, Starting, Stopping, StopServer, ValidateStoppable
<1>4. Quiet
  BY Histories, Quiets DEF StopServer, tables, openstack
<1> QED
  BY <1>1, <1>2, <1>3, <1>4, QuietStart DEF StopServer

LEMMA DeleteServerKeeps ==
  ASSUME IndInv, NEW r \in Request, NEW s \in Server, DeleteServer(r, s)
  PROVE  IndInv'
<1>1. PICK state :
        state = [Idle EXCEPT !.at = "nova_delete", !.srv = s, !.answer = RootInAnswer(s)]
  OBVIOUS
<1>2. RootInAnswer(s) \in BOOLEAN
  BY DEF IndInv, TypeOK, RootRow, RootInAnswer
<1>3. /\ state \in RequestState /\ state.at = "nova_delete" /\ state.srv = s
      /\ state.tasks = <<>>
  BY <1>1, <1>2, Idles DEF RequestState, Location, Idle
<1>4. StatusAllows(state, row[s].status)
  BY <1>3 DEF StatusAllows, Building, Starting, Stopping
<1>5. Quiet
  BY Histories, Quiets DEF DeleteServer, tables, openstack
<1> QED
  BY <1>1, <1>3, <1>4, <1>5, QuietStart DEF DeleteServer

LEMMA LoadResourcesKeeps ==
  ASSUME IndInv, NEW r \in Request, LoadResources(r)
  PROVE  IndInv'
<1>1. request[r].at = "remove_load" /\ request[r].at # "idle" /\ ~Making(request[r])
  BY DEF LoadResources, Making
<1>2. PICK q \in RequestState : q = request[r]
  BY <1>1, AtWork
<1>3. /\ q.srv \in Server /\ TypeOK /\ WellFormed(q) /\ UserKnows(q) /\ ServerFits(q.srv)
  BY <1>1, <1>2, AtWork DEF Knows
<1>4. Calm /\ Quiet
  BY Histories, Quiets DEF LoadResources, tables, openstack
<1>5. CASE Become(r, [q EXCEPT !.at = "remove_ports",
                               !.nics = nic[q.srv] = "live",
                               !.root = root[q.srv].linked])
  <2>1. PICK state : state = [q EXCEPT !.at = "remove_ports",
                                       !.nics = nic[q.srv] = "live",
                                       !.root = root[q.srv].linked]
    OBVIOUS
  <2>2. root[q.srv].linked \in BOOLEAN /\ (nic[q.srv] = "live") \in BOOLEAN
    BY <1>3 DEF TypeOK, RootRow
  <2>3. /\ state \in RequestState
        /\ state.at = "remove_ports" /\ state.srv = q.srv /\ state.tasks = q.tasks
        /\ state.nics = (nic[q.srv] = "live")
    BY <2>1, <2>2 DEF RequestState, Location
  <2>4. ~Making(state) /\ ~Building(state)
    BY <2>3 DEF Making, Building
  <2>5. WellFormed(state)
    BY <2>3, <2>4, <1>1, <1>2, <1>3 DEF WellFormed
  <2>6. ~state.nics => nic[q.srv] = "deleted"
    BY <2>3, <1>3 DEF TypeOK, ServerFits, UserKnows
  <2>7. UserKnows(state)
    BY <1>3, <2>3, <2>4, <2>6 DEF UserKnows, StatusAllows, Starting, Stopping
  <2> QED
    BY <1>1, <1>2, <1>4, <1>5, <2>1, <2>3, <2>4, <2>5, <2>7, QuietMove
<1>6. CASE Finish(r)
  BY <1>1, <1>4, <1>6, QuietFinish
<1> QED
  BY <1>2, <1>5, <1>6 DEF LoadResources

LEMMA PollServerGoneKeeps ==
  ASSUME IndInv, NEW r \in Request, PollServerGone(r)
  PROVE  IndInv'
<1> USE ServersAssumption
<1>1. request[r].at = "gone_poll" /\ request[r].at # "idle" /\ ~Making(request[r])
  BY DEF PollServerGone, Making
<1>2. PICK q \in RequestState : q = request[r]
  BY <1>1, AtWork
<1>3. q.srv \in Server /\ WellFormed(q) /\ UserKnows(q)
  BY <1>1, <1>2, AtWork DEF Knows
<1>4. Calm \/ LeavesUnsure(r)
  BY DEF PollServerGone, PollAgain
<1>5. Quiet
  BY <1>1, <1>4, Histories, Quiets DEF PollServerGone, tables, openstack
<1>6. CASE nova[q.srv].status = "GONE" /\ Become(r, [q EXCEPT !.at = "gone_save", !.polls = 0])
  <2>1. PICK state : state = [q EXCEPT !.at = "gone_save", !.polls = 0]
    OBVIOUS
  <2>0. 0 \in 0..(MaxPolls - 1)
    OBVIOUS
  <2>2. /\ state \in RequestState
        /\ state.at = "gone_save" /\ state.srv = q.srv /\ state.tasks = q.tasks
    BY <2>0, <2>1 DEF RequestState, Location
  <2>3. ~Making(state) /\ ~Building(state)
    BY <2>2 DEF Making, Building
  <2>4. WellFormed(state)
    BY <2>2, <2>3, <1>1, <1>2, <1>3 DEF WellFormed
  <2>5. UserKnows(state)
    BY <1>1, <1>2, <1>3, <1>6, <2>2, <2>3 DEF UserKnows, StatusAllows, Starting, Stopping
  <2> QED
    BY <1>1, <1>2, <1>5, <1>6, <2>1, <2>2, <2>3, <2>4, <2>5, QuietMove
<1>7. CASE PollAgain(r)
  BY <1>1, <1>7, PollAgainKeeps DEF PollServerGone
<1>8. CASE Finish(r)
  BY <1>1, <1>5, <1>8, QuietFinish
<1> QED
  BY <1>2, <1>6, <1>7, <1>8 DEF PollServerGone

LEMMA LoadRootKeeps ==
  ASSUME IndInv, NEW r \in Request, LoadRoot(r)
  PROVE  IndInv'
<1>1. request[r].at = "root_load" /\ request[r].at # "idle" /\ ~Making(request[r])
  BY DEF LoadRoot, Making
<1>2. Calm /\ Quiet
  BY Histories, Quiets DEF LoadRoot, tables, openstack
<1>3. CASE Await(r, "root_poll")
  <2>1. "root_poll" \in Location
    BY DEF Location
  <2>2. ASSUME NEW u \in RequestState,
               u.at = "root_poll", u.srv = request[r].srv, UserKnows(request[r])
        PROVE  UserKnows(u) /\ ~Building(u)
    BY <2>2 DEF UserKnows, StatusAllows, Building, Starting, Stopping
  <2> QED
    BY <1>1, <1>2, <1>3, <2>1, <2>2, AwaitKeeps
<1>4. CASE Finish(r)
  BY <1>1, <1>2, <1>4, QuietFinish
<1> QED
  BY <1>3, <1>4 DEF LoadRoot

LEMMA PollRootGoneKeeps ==
  ASSUME IndInv, NEW r \in Request, PollRootGone(r)
  PROVE  IndInv'
<1>1. request[r].at = "root_poll" /\ request[r].at # "idle" /\ ~Making(request[r])
  BY DEF PollRootGone, Making
<1>2. Calm \/ LeavesUnsure(r)
  BY DEF PollRootGone, PollAgain
<1>3. Quiet
  BY <1>1, <1>2, Histories, Quiets DEF PollRootGone, tables, openstack
<1>4. CASE Await(r, "root_save")
  <2>1. "root_save" \in Location
    BY DEF Location
  <2>2. ASSUME NEW u \in RequestState,
               u.at = "root_save", u.srv = request[r].srv, UserKnows(request[r])
        PROVE  UserKnows(u) /\ ~Building(u)
    BY <2>2 DEF UserKnows, StatusAllows, Building, Starting, Stopping
  <2> QED
    BY <1>1, <1>3, <1>4, <2>1, <2>2, AwaitKeeps
<1>5. CASE PollAgain(r)
  BY <1>1, <1>5, PollAgainKeeps DEF PollRootGone
<1>6. CASE Finish(r)
  BY <1>1, <1>3, <1>6, QuietFinish
<1> QED
  BY <1>4, <1>5, <1>6 DEF PollRootGone

LEMMA SaveRootGoneKeeps ==
  ASSUME IndInv, NEW r \in Request, SaveRootGone(r)
  PROVE  IndInv'
<1>1. request[r].at = "root_save" /\ request[r].at # "idle" /\ ~Making(request[r])
  BY DEF SaveRootGone, Making
<1>2. /\ root' = [root EXCEPT ![request[r].srv].life = "deleted"] \/ root' = root
      /\ UNCHANGED <<row, nic, nova, port, disk>> /\ Finish(r)
      /\ Calm \/ Blurs(r)
  BY DEF SaveRootGone, Dies, openstack
<1>3. root' \in [Server -> RootRow]
  <2>1. root \in [Server -> RootRow]
    BY DEF IndInv, TypeOK
  <2>2. [root[request[r].srv] EXCEPT !.life = "deleted"] \in RootRow
    BY <1>1, <2>1, AtWork DEF RootRow
  <2> QED
    BY <1>1, <1>2, <2>1, <2>2, AtWork
<1>4. Quiet
  BY <1>1, <1>2, <1>3, Histories DEF Quiet, IndInv, TypeOK
<1> QED
  BY <1>1, <1>2, <1>4, QuietFinish

LEMMA PollFailsKeeps ==
  ASSUME IndInv, NEW r \in Request, PollFails(r)
  PROVE  IndInv'
<1>1. request[r].at # "idle" /\ ~Making(request[r])
  BY DEF PollFails, Making
<1>2. Finish(r) /\ Blurs(r)
  BY DEF PollFails, Dies
<1>3. Quiet
  BY <1>1, <1>2, Histories, Quiets DEF PollFails, tables, openstack
<1> QED
  BY <1>1, <1>2, <1>3, QuietFinish

---------------------------------------------------------------------------
(* The actions of a request that uses its server.                          *)

\* A step of request r on its server s writes the row R and the NIC N, leaves
\* V in Nova and P in Neutron and the request in `state`.
UserFits(r, s, state, R, N, V, P) ==
  /\ s = request[r].srv
  /\ Become(r, state)
  /\ row' = [row EXCEPT ![s] = R] /\ nic' = [nic EXCEPT ![s] = N]
  /\ nova' = [nova EXCEPT ![s] = V] /\ port' = [port EXCEPT ![s] = P]
  /\ root' \in [Server -> RootRow]
  /\ disk' \in [Server -> {"UNCREATED", "EXISTS", "GONE"}]
  /\ History
  /\ R.life # "absent"
  /\ row[s].life = "deleted" => R.life = "deleted"
  /\ nic[s] = "deleted" => N = "deleted"
  /\ port[s] = "GONE" => P = "GONE"
  /\ nova[s].status = "GONE" => V.status = "GONE"
  /\ R.life = "live" => \A p \in Others(r, s) : StatusAllows(request[p], R.status)
  /\ state = Idle \/ (state.srv = s /\ UserKnows(state)')
  /\ ~Making(state) /\ WellFormed(state)
  /\ Building(state) => Building(request[r])
  /\ ServerFits(s)'

LEMMA UserKeeps ==
  ASSUME IndInv, NEW r \in Request, NEW s \in Server, NEW state \in RequestState,
         request[r].at # "idle", ~Making(request[r]),
         NEW R \in Row, NEW N \in {"absent", "live", "deleted"}, NEW V \in NovaServer,
         NEW P \in {"UNCREATED", "EXISTS", "GONE"},
         UserFits(r, s, state, R, N, V, P)
  PROVE  IndInv'
<1>0. TypeOK /\ row[s].life # "absent"
  BY AtWork DEF Knows, UserKnows, UserFits
<1>1. RequestMoves(r, state)
  BY <1>0, BecomeMoves DEF UserFits
<1>2. TypeOK'
  BY <1>0, <1>1 DEF TypeOK, UserFits, History, RequestMoves
<1>3. row'[s] = R /\ nic'[s] = N /\ nova'[s] = V /\ port'[s] = P
  BY <1>0 DEF TypeOK, UserFits
<1>4. \A t \in Server \ {s} : Untouched(t)
  BY <1>0 DEF TypeOK, UserFits, Untouched
<1>5. Grows(s)
  BY <1>0, <1>3 DEF Grows, UserFits
<1>6. ASSUME NEW p \in Others(r, s)
      PROVE  /\ ~Making(request[p]) /\ ~Making(state)
             /\ ~(Building(request[p]) /\ Building(state))
             /\ row'[s].life = "live" => StatusAllows(request[p], row'[s].status)
  BY <1>3, OthersKnow DEF UserFits
<1>7. state # Idle => Knows(state)'
  BY DEF UserFits, Knows, Making
<1>8. StepFits(r, s, state)
  BY <1>1, <1>2, <1>3, <1>4, <1>5, <1>6, <1>7 DEF StepFits, UserFits, History
<1> QED
  BY <1>8, StepKeeps

\* A commit writes the status `status`, and the other requests allow it.
LEMMA StatusKeeps ==
  ASSUME IndInv, NEW r \in Request, NEW s \in Server, NEW status \in ServerStatus,
         request[r].at # "idle", ~Making(request[r]), s = request[r].srv,
         row' = [row EXCEPT ![s].status = status], Finish(r), History,
         root' \in [Server -> RootRow], UNCHANGED <<nic, openstack>>,
         status # "DELETED",
         row[s].life = "live" => \A p \in Others(r, s) : StatusAllows(request[p], status)
  PROVE  IndInv'
<1>1. TypeOK /\ ServerFits(s) /\ row[s].life # "absent"
  BY AtWork DEF Knows, UserKnows
<1>2. PICK R : R = [row[s] EXCEPT !.status = status]
  OBVIOUS
<1>3. R \in Row /\ R.life = row[s].life /\ R.status = status
  BY <1>1, <1>2 DEF TypeOK, Row
<1>4. row' = [row EXCEPT ![s] = R]
  BY <1>1, <1>2 DEF TypeOK
<1>5. row'[s] = R /\ nic'[s] = nic[s] /\ nova'[s] = nova[s] /\ port'[s] = port[s]
  BY <1>1, <1>4 DEF TypeOK, openstack
<1>6. ServerFits(s)'
  BY <1>1, <1>3, <1>5 DEF ServerFits
<1>7. UserFits(r, s, Idle, R, nic[s], nova[s], port[s])
  BY <1>1, <1>3, <1>4, <1>6, Idles DEF UserFits, Finish, TypeOK, openstack
<1>8. /\ nic[s] \in {"absent", "live", "deleted"} /\ nova[s] \in NovaServer
      /\ port[s] \in {"UNCREATED", "EXISTS", "GONE"}
  BY <1>1 DEF TypeOK
<1> QED
  BY <1>3, <1>7, <1>8, Idles, UserKeeps

\* The status column after the commit of a request that has loaded the entity.
LEMMA CommitWrites ==
  ASSUME IndInv, NEW r \in Request, NEW status,
         request[r].at # "idle"
  PROVE  \/ WithStatus(r, status) = [row EXCEPT ![request[r].srv].status = status]
         \/ WithStatus(r, status) = row /\ status = request[r].loaded
<1>1. row \in [Server -> Row] /\ request[r].srv \in Server
  BY AtWork DEF TypeOK
<1>2. CASE status # request[r].loaded
  BY <1>1, <1>2 DEF WithStatus, Column
<1>3. CASE status = request[r].loaded
  <2>1. WithStatus(r, status) = [row EXCEPT ![request[r].srv].status = @]
    BY <1>3 DEF WithStatus, Column
  <2> QED
    BY <1>1, <1>3, <2>1 DEF Row
<1> QED
  BY <1>2, <1>3

LEMMA SaveBuiltKeeps ==
  ASSUME IndInv, NEW r \in Request, SaveBuilt(r)
  PROVE  IndInv'
<1>1. request[r].at = "build_save" /\ request[r].at # "idle" /\ ~Making(request[r])
  BY DEF SaveBuilt, Making
<1>2. PICK s \in Server : s = request[r].srv
  BY <1>1, AtWork
<1>3. TypeOK /\ row[s].life # "absent" /\ request[r].loaded = "BUILD" /\ root \in [Server -> RootRow]
  BY <1>1, <1>2, AtWork DEF Knows, UserKnows, TypeOK
<1>4. PICK status \in {"ACTIVE", "ERROR"} :
        status = IF request[r].seen = "ACTIVE" THEN "ACTIVE" ELSE "ERROR"
  OBVIOUS
<1>5. CASE /\ row' = WithStatus(r, status)
           /\ root' = root \/ root' = [root EXCEPT ![s] = [life |-> "live", linked |-> TRUE]]
           /\ Finish(r) /\ Calm /\ UNCHANGED <<nic, openstack>>
  <2>1. row' = [row EXCEPT ![s].status = status]
    BY <1>1, <1>2, <1>3, <1>4, <1>5, CommitWrites
  <2>0. [life |-> "live", linked |-> TRUE] \in RootRow
    BY DEF RootRow
  <2>2. root' \in [Server -> RootRow]
    BY <1>3, <1>5, <2>0
  <2>3. History
    BY <1>5, Histories
  <2>4. ASSUME row[s].life = "live", NEW p \in Others(r, s)
        PROVE  StatusAllows(request[p], status)
    <3>1. /\ ~Building(request[p]) /\ UserKnows(request[p]) /\ request[p].srv = s
      BY <1>1, <1>2, OthersKnow DEF Others, Building
    <3>2. row[s].status = "BUILD"
      BY <1>1, <1>2, <2>4, AtWork DEF Knows, UserKnows, StatusAllows, Building
    <3> QED
      BY <2>4, <3>1, <3>2 DEF UserKnows, StatusAllows, Building, Starting, Stopping
  <2>5. status \in ServerStatus /\ status # "DELETED"
    BY DEF ServerStatus
  <2> QED
    BY <1>1, <1>2, <1>5, <2>1, <2>2, <2>3, <2>4, <2>5, StatusKeeps
<1>6. CASE Dies(r, "database") /\ UNCHANGED <<tables, openstack>>
  <2>1. Quiet
    BY <1>1, <1>6, Histories, Quiets DEF Dies, tables, openstack
  <2> QED
    BY <1>1, <1>6, <2>1, QuietFinish DEF Dies
<1> QED
  BY <1>2, <1>4, <1>5, <1>6 DEF SaveBuilt, tables

LEMMA SavePowerKeeps ==
  ASSUME IndInv, NEW r \in Request, NEW from, NEW status, SavePower(r, from, status),
         from \in {"start_save", "stop_save"}, status \in {"ACTIVE", "SHUTOFF"}
  PROVE  IndInv'
<1>1. request[r].at = from /\ request[r].at # "idle" /\ ~Making(request[r])
  BY DEF SavePower, Making
<1>2. PICK s \in Server : s = request[r].srv
  BY <1>1, AtWork
<1>3. root \in [Server -> RootRow]
  BY DEF IndInv, TypeOK
<1>4. CASE row' = WithStatus(r, status) /\ Finish(r) /\ Calm /\ UNCHANGED <<nic, root, openstack>>
  <2>1. CASE row' = [row EXCEPT ![s].status = status]
    <3>1. History
      BY <1>4, Histories
    <3>2. ASSUME row[s].life = "live", NEW p \in Others(r, s)
          PROVE  StatusAllows(request[p], status)
      <4>1. UserKnows(request[p]) /\ request[p].srv = s
        BY <1>2, OthersKnow DEF Others
      <4>2. row[s].status # "BUILD"
        BY <1>1, <1>2, <3>2, AtWork DEF Knows, UserKnows, StatusAllows, Starting, Stopping
      <4> QED
        BY <3>2, <4>1, <4>2 DEF UserKnows, StatusAllows
    <3>3. status \in ServerStatus /\ status # "DELETED"
      BY DEF ServerStatus
    <3> QED
      BY <1>1, <1>2, <1>3, <1>4, <2>1, <3>1, <3>2, <3>3, StatusKeeps
  <2>2. CASE row' = row
    <3>1. Quiet
      BY <1>4, <2>2, Histories, Quiets DEF tables, openstack
    <3> QED
      BY <1>1, <1>4, <3>1, QuietFinish
  <2> QED
    BY <1>1, <1>2, <1>4, <2>1, <2>2, CommitWrites
<1>5. CASE Dies(r, "database") /\ UNCHANGED <<tables, openstack>>
  <2>1. Quiet
    BY <1>1, <1>5, Histories, Quiets DEF Dies, tables, openstack
  <2> QED
    BY <1>1, <1>5, <2>1, QuietFinish DEF Dies
<1> QED
  BY <1>4, <1>5 DEF SavePower, tables

\* Nova takes a request for a server it has; the server keeps its status.
LEMMA TaskKeeps ==
  ASSUME IndInv, NEW r \in Request, NEW s \in Server, NEW state \in RequestState,
         NEW task \in {"starting", "stopping", "deleting"},
         request[r].at # "idle", ~Making(request[r]), s = request[r].srv,
         nova[s].status # "GONE", nova' = [nova EXCEPT ![s].task = task],
         UNCHANGED <<tables, port, disk>>, Become(r, state), History,
         state = Idle \/ (state.srv = s /\ UserKnows(state)),
         state.at # "gone_save", ~Making(state), ~Building(state), WellFormed(state)
  PROVE  IndInv'
<1>1. TypeOK /\ ServerFits(s) /\ row[s].life # "absent"
  BY AtWork DEF Knows, UserKnows
<1>2. PICK V : V = [nova[s] EXCEPT !.task = task]
  OBVIOUS
<1>3. V \in NovaServer /\ V.status = nova[s].status
  BY <1>1, <1>2 DEF TypeOK, NovaServer
<1>4. nova' = [nova EXCEPT ![s] = V]
  BY <1>1, <1>2 DEF TypeOK
<1>5. nova'[s] = V /\ row' = row /\ nic' = nic /\ port' = port
  BY <1>1, <1>4 DEF TypeOK, tables
<1>6. ServerFits(s)'
  BY <1>1, <1>3, <1>5 DEF ServerFits
<1>7. state = Idle \/ (state.srv = s /\ UserKnows(state)')
  BY <1>5 DEF UserKnows
<1>8. row[s].life = "live" => \A p \in Others(r, s) : StatusAllows(request[p], row[s].status)
  <2> SUFFICES ASSUME row[s].life = "live", NEW p \in Others(r, s)
               PROVE  StatusAllows(request[p], row[s].status)
    OBVIOUS
  <2>1. UserKnows(request[p]) /\ request[p].srv = s
    BY OthersKnow DEF Others
  <2> QED
    BY <2>1 DEF UserKnows
<1>9. /\ row[s] \in Row /\ nic[s] \in {"absent", "live", "deleted"}
      /\ port[s] \in {"UNCREATED", "EXISTS", "GONE"}
      /\ root' \in [Server -> RootRow] /\ disk' \in [Server -> {"UNCREATED", "EXISTS", "GONE"}]
      /\ row' = [row EXCEPT ![s] = row[s]] /\ nic' = [nic EXCEPT ![s] = nic[s]]
      /\ port' = [port EXCEPT ![s] = port[s]]
  BY <1>1, <1>5 DEF TypeOK, tables
<1>10. UserFits(r, s, state, row[s], nic[s], V, port[s])
  BY <1>1, <1>3, <1>4, <1>6, <1>7, <1>8, <1>9 DEF UserFits
<1> QED
  BY <1>3, <1>9, <1>10, UserKeeps

LEMMA PowerCallKeeps ==
  ASSUME IndInv, NEW r \in Request, NEW from, NEW statuses, NEW task, NEW to,
         PowerCall(r, from, statuses, task, to),
         \/ /\ from = "nova_start" /\ statuses = {"SHUTOFF"}
            /\ task = "starting" /\ to = "start_poll"
         \/ /\ from = "nova_stop" /\ statuses = {"ACTIVE", "ERROR"}
            /\ task = "stopping" /\ to = "stop_poll"
  PROVE  IndInv'
<1>1. request[r].at = from /\ request[r].at # "idle" /\ ~Making(request[r])
  BY DEF PowerCall, Making
<1>2. PICK q \in RequestState : q = request[r]
  BY <1>1, AtWork
<1>3. PICK s \in Server : s = q.srv
  BY <1>1, <1>2, AtWork
<1>4. WellFormed(q) /\ UserKnows(q)
  BY <1>1, <1>2, AtWork DEF Knows
<1>5. Calm \/ LeavesUnsure(r) \/ Blurs(r)
  BY DEF PowerCall, Dies
<1>6. History
  BY <1>1, <1>5, Histories
<1>7. CASE /\ nova[s].status \in statuses /\ nova' = [nova EXCEPT ![s].task = task]
           /\ Become(r, Queued(q, to)) \/ Finish(r)
           /\ UNCHANGED <<tables, port, disk>>
  <2>1. PICK state : state = [q EXCEPT !.at = to]
    OBVIOUS
  <2>2. to \in Location
    BY DEF Location
  <2>3. /\ state \in RequestState /\ state.at = to /\ state.srv = q.srv
        /\ state.tasks = q.tasks
    BY <2>1, <2>2, Moved
  <2>4. ~Making(state) /\ ~Building(state)
    BY <2>3 DEF Making, Building
  <2>5. WellFormed(state)
    BY <1>1, <1>2, <1>4, <2>3, <2>4 DEF WellFormed
  <2>6. UserKnows(state)
    BY <1>1, <1>2, <1>4, <2>3, <2>4 DEF UserKnows, StatusAllows, Starting, Stopping
  <2>7. nova[s].status # "GONE" /\ task \in {"starting", "stopping", "deleting"}
    BY <1>7
  <2>8. CASE Become(r, state)
    BY <1>1, <1>2, <1>3, <1>6, <1>7, <2>3, <2>4, <2>5, <2>6, <2>7, <2>8, TaskKeeps
  <2>9. CASE Finish(r)
    BY <1>1, <1>2, <1>3, <1>6, <1>7, <2>7, <2>9, Idles, TaskKeeps DEF Finish
  <2> QED
    BY <1>7, <2>1, <2>8, <2>9 DEF Queued
<1>8. CASE Finish(r) /\ UNCHANGED <<tables, openstack>>
  <2>1. Quiet
    BY <1>6, <1>8, Quiets DEF tables, openstack
  <2> QED
    BY <1>1, <1>8, <2>1, QuietFinish
<1> QED
  BY <1>2, <1>3, <1>7, <1>8 DEF PowerCall, Dies, openstack

LEMMA NovaDeleteKeeps ==
  ASSUME IndInv, NEW r \in Request, NovaDelete(r)
  PROVE  IndInv'
<1>1. request[r].at = "nova_delete" /\ request[r].at # "idle" /\ ~Making(request[r])
  BY DEF NovaDelete, Making
<1>2. PICK q \in RequestState : q = request[r]
  BY <1>1, AtWork
<1>3. PICK s \in Server : s = q.srv
  BY <1>1, <1>2, AtWork
<1>4. WellFormed(q) /\ UserKnows(q) /\ q.tasks = <<>>
  BY <1>1, <1>2, AtWork DEF Knows, WellFormed
<1>5. Calm \/ Blurs(r)
  BY DEF NovaDelete, Answered
<1>6. History
  BY <1>1, <1>5, Histories
<1>7. CASE /\ nova[s].status # "GONE" /\ nova' = [nova EXCEPT ![s] = Leaving(@)]
           /\ Become(r, [q EXCEPT !.at = "remove_load"]) \/ Finish(r)
           /\ UNCHANGED <<tables, port, disk>>
  <2>1. PICK state : state = [q EXCEPT !.at = "remove_load"]
    OBVIOUS
  <2>2. "remove_load" \in Location
    BY DEF Location
  <2>3. /\ state \in RequestState /\ state.at = "remove_load" /\ state.srv = q.srv
        /\ state.tasks = q.tasks
    BY <2>1, <2>2, Moved
  <2>4. ~Making(state) /\ ~Building(state)
    BY <2>3 DEF Making, Building
  <2>5. WellFormed(state)
    BY <1>1, <1>2, <1>4, <2>3, <2>4 DEF WellFormed
  <2>6. UserKnows(state)
    BY <1>1, <1>2, <1>4, <2>3, <2>4 DEF UserKnows, StatusAllows, Starting, Stopping
  <2>7. nova' = [nova EXCEPT ![s].task = "deleting"]
    BY <1>7 DEF Leaving
  <2>8. CASE Become(r, state)
    BY <1>1, <1>2, <1>3, <1>6, <1>7, <2>3, <2>4, <2>5, <2>6, <2>7, <2>8, TaskKeeps
  <2>9. CASE Finish(r)
    BY <1>1, <1>2, <1>3, <1>6, <1>7, <2>7, <2>9, Idles, TaskKeeps DEF Finish
  <2> QED
    BY <1>7, <2>1, <2>8, <2>9
<1>8. CASE Finish(r) /\ UNCHANGED <<tables, openstack>>
  <2>1. Quiet
    BY <1>6, <1>8, Quiets DEF tables, openstack
  <2> QED
    BY <1>1, <1>8, <2>1, QuietFinish
<1>9. Raise(r) <=> Finish(r)
  BY <1>2, <1>4 DEF Raise
<1> QED
  BY <1>2, <1>3, <1>7, <1>8, <1>9 DEF NovaDelete, Answered, openstack

LEMMA RemovePortsKeeps ==
  ASSUME IndInv, NEW r \in Request, RemovePorts(r)
  PROVE  IndInv'
<1>1. request[r].at = "remove_ports" /\ request[r].at # "idle" /\ ~Making(request[r])
  BY DEF RemovePorts, Making
<1>2. PICK q \in RequestState : q = request[r]
  BY <1>1, AtWork
<1>3. PICK s \in Server : s = q.srv
  BY <1>1, <1>2, AtWork
<1>4. /\ TypeOK /\ WellFormed(q) /\ UserKnows(q) /\ ServerFits(s) /\ q.tasks = <<>>
  BY <1>1, <1>2, <1>3, AtWork DEF Knows, WellFormed
<1>5. Calm \/ Blurs(r)
  BY DEF RemovePorts, Answered, PortFailure
<1>6. History
  BY <1>1, <1>5, Histories
<1>7. PICK state : state = [q EXCEPT !.at = "remove_save"]
  OBVIOUS
<1>8. "remove_save" \in Location
  BY DEF Location
<1>9. /\ state \in RequestState /\ state.at = "remove_save" /\ state.srv = q.srv
      /\ state.tasks = q.tasks /\ state.nics = q.nics
  BY <1>7, <1>8, Moved
<1>10. ~Making(state) /\ ~Building(state)
  BY <1>9 DEF Making, Building
<1>11. WellFormed(state)
  BY <1>1, <1>2, <1>4, <1>9, <1>10 DEF WellFormed
<1>12. CASE ~q.nics /\ Become(r, state) /\ UNCHANGED <<tables, openstack>>
  <2>1. UserKnows(state)
    BY <1>1, <1>2, <1>4, <1>9, <1>10, <1>12 DEF UserKnows, StatusAllows, Starting, Stopping
  <2>2. Quiet
    BY <1>6, <1>12, Quiets DEF tables, openstack
  <2> QED
    BY <1>1, <1>2, <1>9, <1>10, <1>11, <1>12, <2>1, <2>2, QuietMove
<1>13. CASE /\ port' = [port EXCEPT ![s] = "GONE"]
            /\ Become(r, state) \/ Finish(r)
            /\ UNCHANGED <<tables, nova, disk>>
  <2>1. row' = row /\ nic' = nic /\ nova' = nova /\ port'[s] = "GONE"
    BY <1>4, <1>13 DEF TypeOK, tables
  <2>2. ServerFits(s)'
    BY <1>4, <2>1 DEF ServerFits
  <2>3. UserKnows(state)'
    BY <1>1, <1>2, <1>3, <1>4, <1>9, <1>10, <2>1
    DEF UserKnows, StatusAllows, Starting, Stopping
  <2>4. row[s].life = "live" => \A p \in Others(r, s) : StatusAllows(request[p], row[s].status)
    <3> SUFFICES ASSUME row[s].life = "live", NEW p \in Others(r, s)
                 PROVE  StatusAllows(request[p], row[s].status)
      OBVIOUS
    <3>1. UserKnows(request[p]) /\ request[p].srv = s
      BY <1>2, <1>3, OthersKnow DEF Others
    <3> QED
      BY <3>1 DEF UserKnows
  <2>5. /\ row[s] \in Row /\ nic[s] \in {"absent", "live", "deleted"} /\ nova[s] \in NovaServer
        /\ root' \in [Server -> RootRow] /\ disk' \in [Server -> {"UNCREATED", "EXISTS", "GONE"}]
        /\ row' = [row EXCEPT ![s] = row[s]] /\ nic' = [nic EXCEPT ![s] = nic[s]]
        /\ nova' = [nova EXCEPT ![s] = nova[s]]
    BY <1>4, <1>13, <2>1 DEF TypeOK, tables
  <2>6. CASE Become(r, state)
    <3>1. UserFits(r, s, state, row[s], nic[s], nova[s], "GONE")
      BY <1>2, <1>3, <1>4, <1>6, <1>9, <1>10, <1>11, <1>13, <2>2, <2>3, <2>4, <2>5, <2>6
      DEF UserFits, UserKnows
    <3> QED
      BY <1>1, <1>9, <2>5, <3>1, UserKeeps
  <2>7. CASE Finish(r)
    <3>1. UserFits(r, s, Idle, row[s], nic[s], nova[s], "GONE")
      BY <1>2, <1>3, <1>4, <1>6, <1>13, <2>2, <2>4, <2>5, <2>7, Idles
      DEF UserFits, UserKnows, Finish
    <3> QED
      BY <1>1, <2>5, <3>1, Idles, UserKeeps
  <2> QED
    BY <1>13, <2>6, <2>7
<1>14. CASE Finish(r) /\ UNCHANGED <<tables, openstack>>
  <2>1. Quiet
    BY <1>6, <1>14, Quiets DEF tables, openstack
  <2> QED
    BY <1>1, <1>14, <2>1, QuietFinish
<1>15. Raise(r) <=> Finish(r)
  BY <1>2, <1>4 DEF Raise
<1> QED
  BY <1>2, <1>3, <1>7, <1>12, <1>13, <1>14, <1>15
  DEF RemovePorts, Answered, Await, PortFailure, openstack

LEMMA SaveResourcesKeeps ==
  ASSUME IndInv, NEW r \in Request, SaveResources(r)
  PROVE  IndInv'
<1>1. request[r].at = "remove_save" /\ request[r].at # "idle" /\ ~Making(request[r])
  BY DEF SaveResources, Making
<1>2. PICK q \in RequestState : q = request[r]
  BY <1>1, AtWork
<1>3. PICK s \in Server : s = q.srv
  BY <1>1, <1>2, AtWork
<1>4. /\ TypeOK /\ WellFormed(q) /\ UserKnows(q) /\ ServerFits(s)
  BY <1>1, <1>2, <1>3, AtWork DEF Knows
<1>5. CASE /\ nic' = IF q.nics THEN [nic EXCEPT ![s] = "deleted"] ELSE nic
           /\ root' = IF q.root THEN [root EXCEPT ![s].linked = FALSE] ELSE root
           /\ Await(r, "gone_load") /\ Calm /\ UNCHANGED <<row, openstack>>
  <2>1. History
    BY <1>5, Histories
  <2>2. PICK state : state = [q EXCEPT !.at = "gone_load"]
    OBVIOUS
  <2>3. "gone_load" \in Location
    BY DEF Location
  <2>4. /\ state \in RequestState /\ state.at = "gone_load" /\ state.srv = q.srv
        /\ state.tasks = q.tasks
    BY <2>2, <2>3, Moved
  <2>5. ~Making(state) /\ ~Building(state)
    BY <2>4 DEF Making, Building
  <2>6. WellFormed(state)
    BY <1>1, <1>2, <1>4, <2>4, <2>5 DEF WellFormed
  <2>7. nic' = [nic EXCEPT ![s] = "deleted"] /\ port[s] = "GONE"
    BY <1>1, <1>2, <1>3, <1>4, <1>5 DEF TypeOK, UserKnows, ServerFits
  <2>8. row' = row /\ nova' = nova /\ port' = port /\ nic'[s] = "deleted"
    BY <1>4, <1>5, <2>7 DEF TypeOK, openstack
  <2>9. ServerFits(s)' /\ UserKnows(state)'
    BY <1>1, <1>2, <1>3, <1>4, <2>4, <2>5, <2>7, <2>8
    DEF ServerFits, UserKnows, StatusAllows, Starting, Stopping
  <2>10. row[s].life = "live" => \A p \in Others(r, s) : StatusAllows(request[p], row[s].status)
    <3> SUFFICES ASSUME row[s].life = "live", NEW p \in Others(r, s)
                 PROVE  StatusAllows(request[p], row[s].status)
      OBVIOUS
    <3>1. UserKnows(request[p]) /\ request[p].srv = s
      BY <1>2, <1>3, OthersKnow DEF Others
    <3> QED
      BY <3>1 DEF UserKnows
  <2>11. root' \in [Server -> RootRow]
    <3>1. [root[s] EXCEPT !.linked = FALSE] \in RootRow
      BY <1>4 DEF TypeOK, RootRow
    <3> QED
      BY <1>4, <1>5, <3>1 DEF TypeOK
  <2>12. /\ row[s] \in Row /\ nova[s] \in NovaServer
         /\ port[s] \in {"UNCREATED", "EXISTS", "GONE"}
         /\ disk' \in [Server -> {"UNCREATED", "EXISTS", "GONE"}]
         /\ row' = [row EXCEPT ![s] = row[s]] /\ nova' = [nova EXCEPT ![s] = nova[s]]
         /\ port' = [port EXCEPT ![s] = port[s]]
    BY <1>4, <1>5, <2>8 DEF TypeOK, openstack
  <2>13. Become(r, state)
    BY <1>2, <1>5, <2>2 DEF Await
  <2>14. UserFits(r, s, state, row[s], "deleted", nova[s], port[s])
    BY <1>2, <1>3, <1>4, <2>1, <2>4, <2>5, <2>6, <2>7, <2>9, <2>10, <2>11, <2>12, <2>13
    DEF UserFits, UserKnows
  <2> QED
    BY <1>1, <2>4, <2>12, <2>14, UserKeeps
<1>6. CASE Dies(r, "database") /\ UNCHANGED <<tables, openstack>>
  <2>1. Quiet
    BY <1>1, <1>6, Histories, Quiets DEF Dies, tables, openstack
  <2> QED
    BY <1>1, <1>6, <2>1, QuietFinish DEF Dies
<1> QED
  BY <1>2, <1>3, <1>5, <1>6 DEF SaveResources, tables

LEMMA SaveServerGoneKeeps ==
  ASSUME IndInv, NEW r \in Request, SaveServerGone(r)
  PROVE  IndInv'
<1>1. request[r].at = "gone_save" /\ request[r].at # "idle" /\ ~Making(request[r])
  BY DEF SaveServerGone, Making
<1>2. PICK q \in RequestState : q = request[r]
  BY <1>1, AtWork
<1>3. PICK s \in Server : s = q.srv
  BY <1>1, <1>2, AtWork
<1>4. /\ TypeOK /\ WellFormed(q) /\ UserKnows(q) /\ ServerFits(s)
  BY <1>1, <1>2, <1>3, AtWork DEF Knows
<1>5. CASE /\ row' = [row EXCEPT ![s] = [life |-> "deleted", status |-> "DELETED"]]
           /\ Await(r, "root_load") /\ Calm /\ UNCHANGED <<nic, root, openstack>>
  <2>1. History
    BY <1>5, Histories
  <2>2. PICK state : state = [q EXCEPT !.at = "root_load"]
    OBVIOUS
  <2>3. "root_load" \in Location
    BY DEF Location
  <2>4. /\ state \in RequestState /\ state.at = "root_load" /\ state.srv = q.srv
        /\ state.tasks = q.tasks
    BY <2>2, <2>3, Moved
  <2>5. ~Making(state) /\ ~Building(state)
    BY <2>4 DEF Making, Building
  <2>6. WellFormed(state)
    BY <1>1, <1>2, <1>4, <2>4, <2>5 DEF WellFormed
  <2>7. PICK R : R = [life |-> "deleted", status |-> "DELETED"]
    OBVIOUS
  <2>8. R \in Row /\ R.life = "deleted"
    BY <2>7 DEF Row, ServerStatus
  <2>9. row'[s] = R /\ nova' = nova /\ port' = port /\ nic' = nic
    BY <1>4, <1>5, <2>7 DEF TypeOK, openstack
  <2>10. ServerFits(s)'
    BY <1>1, <1>2, <1>3, <1>4, <2>8, <2>9 DEF ServerFits, UserKnows
  <2>11. UserKnows(state)'
    BY <1>3, <2>4, <2>8, <2>9 DEF UserKnows
  <2>12. /\ nic[s] \in {"absent", "live", "deleted"} /\ nova[s] \in NovaServer
         /\ port[s] \in {"UNCREATED", "EXISTS", "GONE"}
         /\ root' \in [Server -> RootRow] /\ disk' \in [Server -> {"UNCREATED", "EXISTS", "GONE"}]
         /\ nic' = [nic EXCEPT ![s] = nic[s]] /\ nova' = [nova EXCEPT ![s] = nova[s]]
         /\ port' = [port EXCEPT ![s] = port[s]]
    BY <1>4, <1>5, <2>9 DEF TypeOK, openstack
  <2>13. Become(r, state)
    BY <1>2, <1>5, <2>2 DEF Await
  <2>14. UserFits(r, s, state, R, nic[s], nova[s], port[s])
    BY <1>2, <1>3, <1>5, <2>1, <2>4, <2>5, <2>6, <2>7, <2>8, <2>10, <2>11, <2>12, <2>13
    DEF UserFits
  <2> QED
    BY <1>1, <2>4, <2>8, <2>12, <2>14, UserKeeps
<1>6. CASE Dies(r, "database") /\ UNCHANGED <<tables, openstack>>
  <2>1. Quiet
    BY <1>1, <1>6, Histories, Quiets DEF Dies, tables, openstack
  <2> QED
    BY <1>1, <1>6, <2>1, QuietFinish DEF Dies
<1> QED
  BY <1>2, <1>3, <1>5, <1>6 DEF SaveServerGone, tables

---------------------------------------------------------------------------
(* The actions of a request that makes its server or undoes it.            *)

\* Nobody else works on the server.
LEMMA NoOthers ==
  ASSUME IndInv, NEW r \in Request, NEW s \in Server,
         (request[r].srv = s /\ Making(request[r])) \/ ~Busy(s)
  PROVE  Others(r, s) = {}
<1> USE ServersAssumption
<1> SUFFICES ASSUME NEW p \in Others(r, s) PROVE FALSE
  OBVIOUS
<1>1. p \in Request /\ p # r /\ request[p].srv = s
  BY DEF Others
<1>2. request[r].srv = s => ~Making(request[r])
  BY <1>1 DEF IndInv, MakersAreAlone
<1> QED
  BY <1>1, <1>2 DEF Busy

\* A step of request r on server s, which has no row, leaves V in Nova and P in
\* Neutron and the request in `state`.
MakerFits(r, s, state, V, P) ==
  /\ RequestMoves(r, state)
  /\ request[r].srv \in {s, NoServer}
  /\ Others(r, s) = {}
  /\ row[s].life = "absent"
  /\ nova' = [nova EXCEPT ![s] = V] /\ port' = [port EXCEPT ![s] = P]
  /\ UNCHANGED <<tables, disk>>
  /\ History
  /\ state = Idle \/ (state.srv = s /\ Making(state) /\ MakerKnows(state)')
  /\ WellFormed(state)
  /\ P = "UNCREATED" => V.status = "UNCREATED"
  /\ V.status \in {"UNCREATED", "GONE"} => V.task = "none"
  /\ state = Idle /\ s \notin blurred' => P # "EXISTS" /\ Unclaimed(V)

LEMMA MakerKeeps ==
  ASSUME IndInv, NEW r \in Request, NEW s \in Server, NEW state \in RequestState,
         NEW V \in NovaServer, NEW P \in {"UNCREATED", "EXISTS", "GONE"},
         MakerFits(r, s, state, V, P)
  PROVE  IndInv'
<1>0. TypeOK /\ ServerFits(s)
  BY DEF IndInv, ServersFit
<1>1. TypeOK'
  BY <1>0 DEF TypeOK, MakerFits, History, RequestMoves, tables
<1>2. row' = row /\ nic' = nic /\ nova'[s] = V /\ port'[s] = P
  BY <1>0 DEF TypeOK, MakerFits, tables
<1>3. \A t \in Server \ {s} : Untouched(t)
  BY <1>0, <1>2 DEF TypeOK, MakerFits, Untouched
<1>4. nic[s] = "absent"
  BY <1>0 DEF ServerFits, MakerFits
<1>5. Grows(s)
  BY <1>2, <1>4 DEF Grows, MakerFits
<1>6. ServerFits(s)'
  BY <1>0, <1>2, <1>4 DEF ServerFits, MakerFits
<1>7. state # Idle => Knows(state)'
  BY DEF MakerFits, Knows, Making
<1>8. StepFits(r, s, state)
  BY <1>1, <1>2, <1>3, <1>5, <1>6, <1>7 DEF StepFits, MakerFits, History
<1> QED
  BY <1>8, StepKeeps

LEMMA CreateServerKeeps ==
  ASSUME IndInv, NEW r \in Request, NEW s \in Server, CreateServer(r, s)
  PROVE  IndInv'
<1> USE ServersAssumption
<1>1. TypeOK /\ ServerFits(s) /\ request[r] = Idle
  BY DEF IndInv, ServersFit, RequestsWellFormed, WellFormed, CreateServer, Start
<1>2. PICK state : state = [Idle EXCEPT !.at = "create_port", !.srv = s]
  OBVIOUS
<1>3. /\ state \in RequestState /\ state.at = "create_port" /\ state.srv = s
      /\ state.tasks = <<>>
  BY <1>2, Idles DEF RequestState, Location, Idle
<1>4. PICK u \in RequestState :
        /\ RequestMoves(r, u) /\ u.at = state.at /\ u.srv = state.srv
        /\ u.tasks = state.tasks /\ u.loaded = state.loaded /\ u.nics = state.nics
  <2>1. Start(r, state)
    BY <1>2 DEF CreateServer
  <2> QED
    BY <1>1, <1>3, <2>1, StartMoves
<1>5. Making(u) /\ WellFormed(u)
  BY <1>3, <1>4 DEF Making, WellFormed
<1>6. /\ row' = row /\ nova' = nova /\ port' = port
      /\ UNCHANGED <<tables, disk>> /\ History
      /\ row[s].life = "absent" /\ port[s] = "UNCREATED" /\ nova[s].status = "UNCREATED"
  BY <1>1, Histories DEF CreateServer, tables, openstack, ServerFits
<1>7. u.tasks # PortAndServer
  BY <1>3, <1>4, TaskLists
<1>8. MakerKnows(u)'
  BY <1>3, <1>4, <1>6, <1>7 DEF MakerKnows
<1>9. Others(r, s) = {}
  BY NoOthers DEF CreateServer
<1>10. nova' = [nova EXCEPT ![s] = nova[s]] /\ port' = [port EXCEPT ![s] = port[s]]
  BY <1>1, <1>6 DEF TypeOK
<1>11. nova[s] \in NovaServer /\ port[s] \in {"UNCREATED", "EXISTS", "GONE"}
  BY <1>1 DEF TypeOK
<1>12. MakerFits(r, s, u, nova[s], port[s])
  BY <1>1, <1>3, <1>4, <1>5, <1>6, <1>8, <1>9, <1>10, Idles DEF MakerFits, ServerFits
<1> QED
  BY <1>11, <1>12, MakerKeeps

LEMMA CreatePortKeeps ==
  ASSUME IndInv, NEW r \in Request, CreatePort(r)
  PROVE  IndInv'
<1>1. request[r].at = "create_port" /\ request[r].at # "idle" /\ Making(request[r])
  BY DEF CreatePort, Making
<1>2. PICK q \in RequestState : q = request[r]
  BY <1>1, AtWork
<1>3. PICK s \in Server : s = q.srv
  BY <1>1, <1>2, AtWork
<1>4. /\ TypeOK /\ WellFormed(q) /\ MakerKnows(q) /\ ServerFits(s) /\ q.tasks = <<>>
      /\ nova[s] \in NovaServer /\ nova[s].status = "UNCREATED"
      /\ row[s].life = "absent" /\ port[s] = "UNCREATED"
  BY <1>1, <1>2, <1>3, AtWork DEF Knows, WellFormed, MakerKnows, TypeOK
<1>5. Calm \/ Blurs(r)
  BY DEF CreatePort, Answered
<1>6. /\ History /\ UNCHANGED <<tables, disk>> /\ nova' = nova
      /\ nova' = [nova EXCEPT ![s] = nova[s]]
  BY <1>1, <1>4, <1>5, Histories DEF CreatePort, TypeOK
<1>7. Others(r, s) = {} /\ request[r].srv = s
  BY <1>1, <1>2, <1>3, NoOthers
<1>8. Raise(r) <=> Finish(r)
  BY <1>2, <1>4 DEF Raise
<1>9. CASE /\ port' = [port EXCEPT ![s] = "EXISTS"] /\ Calm
           /\ Become(r, [q EXCEPT !.at = "create_nova", !.tasks = AddTask(@, "delete_port")])
  <2>1. PICK state : state = [q EXCEPT !.at = "create_nova", !.tasks = AddTask(@, "delete_port")]
    OBVIOUS
  <2>2. AddTask(q.tasks, "delete_port") = OnePort
        /\ OnePort \in Seq({"delete_port", "delete_server"}) /\ OnePort # PortAndServer
    BY <1>4, TaskLists
  <2>3. /\ state \in RequestState /\ state.at = "create_nova" /\ state.srv = s
        /\ state.tasks = OnePort
    BY <1>3, <2>1, <2>2 DEF RequestState, Location
  <2>4. Making(state) /\ WellFormed(state)
    BY <1>3, <1>1, <1>2, <1>4, <2>3 DEF Making, WellFormed
  <2>5. row' = row /\ port'[s] = "EXISTS"
    BY <1>4, <1>6, <1>9 DEF TypeOK, tables
  <2>6. MakerKnows(state)'
    BY <1>4, <1>6, <2>2, <2>3, <2>5 DEF MakerKnows
  <2>7. RequestMoves(r, state)
    BY <1>4, <1>9, <2>1, <2>3, BecomeMoves
  <2>8. MakerFits(r, s, state, nova[s], "EXISTS")
    BY <1>4, <1>6, <1>7, <1>9, <2>3, <2>4, <2>6, <2>7, Idles DEF MakerFits, ServerFits
  <2> QED
    BY <1>4, <2>3, <2>8, MakerKeeps
<1>11. Finish(r) => RequestMoves(r, Idle)
  BY <1>4, Idles, BecomeMoves DEF Finish
<1>12. CASE port' = [port EXCEPT ![s] = "EXISTS"] /\ Finish(r) /\ Blurs(r)
  <2>1. s \in blurred'
    BY <1>2, <1>3, <1>12 DEF Blurs
  <2>2. MakerFits(r, s, Idle, nova[s], "EXISTS")
    BY <1>4, <1>6, <1>7, <1>11, <1>12, <2>1, Idles DEF MakerFits, ServerFits
  <2> QED
    BY <1>4, <2>2, Idles, MakerKeeps
<1>13. CASE port' = port /\ Finish(r)
  <2>1. port' = [port EXCEPT ![s] = "UNCREATED"]
    BY <1>4, <1>13 DEF TypeOK
  <2>2. MakerFits(r, s, Idle, nova[s], "UNCREATED")
    BY <1>4, <1>6, <1>7, <1>11, <1>13, <2>1, Idles DEF MakerFits, ServerFits, Unclaimed
  <2> QED
    BY <1>4, <2>2, Idles, MakerKeeps
<1> QED
  BY <1>2, <1>3, <1>8, <1>9, <1>12, <1>13 DEF CreatePort, Answered

LEMMA CreateInNovaKeeps ==
  ASSUME IndInv, NEW r \in Request, CreateInNova(r)
  PROVE  IndInv'
<1>1. request[r].at = "create_nova" /\ request[r].at # "idle" /\ Making(request[r])
  BY DEF CreateInNova, Making
<1>2. PICK q \in RequestState : q = request[r]
  BY <1>1, AtWork
<1>3. PICK s \in Server : s = q.srv
  BY <1>1, <1>2, AtWork
<1>4. /\ TypeOK /\ WellFormed(q) /\ MakerKnows(q) /\ ServerFits(s) /\ q.tasks = OnePort
      /\ nova[s] \in NovaServer /\ nova[s].status = "UNCREATED" /\ nova[s].task = "none"
      /\ row[s].life = "absent" /\ port[s] = "EXISTS"
  BY <1>1, <1>2, <1>3, AtWork
  DEF Knows, WellFormed, MakerKnows, TypeOK, ServerFits
<1>5. Calm \/ Blurs(r)
  BY DEF CreateInNova, Answered
<1>6. /\ History /\ UNCHANGED <<tables, disk>> /\ row' = row /\ port' = port
      /\ port' = [port EXCEPT ![s] = "EXISTS"]
  BY <1>1, <1>4, <1>5, Histories DEF CreateInNova, TypeOK, tables
<1>7. Others(r, s) = {} /\ request[r].srv = s
  BY <1>1, <1>2, <1>3, NoOthers
<1>8. OnePort # <<>> /\ OnePort # PortAndServer
  BY TaskLists
<1>9. PICK V : V = [nova[s] EXCEPT !.status = "BUILD"]
  OBVIOUS
<1>10. V \in NovaServer /\ V.status = "BUILD" /\ V.task = "none"
  BY <1>4, <1>9 DEF NovaServer
<1>11. PICK back : back = [q EXCEPT !.at = "rollback"]
  OBVIOUS
<1>12. "rollback" \in Location
  BY DEF Location
<1>13. /\ back \in RequestState /\ back.at = "rollback" /\ back.srv = s
       /\ back.tasks = OnePort
  BY <1>3, <1>4, <1>11, <1>12, Moved
<1>14. Making(back) /\ WellFormed(back)
  BY <1>1, <1>2, <1>3, <1>4, <1>13 DEF Making, WellFormed
<1>15. Raise(r) => RequestMoves(r, back)
  BY <1>2, <1>4, <1>8, <1>11, <1>13, BecomeMoves DEF Raise, Await
<1>16. CASE /\ nova' = [nova EXCEPT ![s].status = "BUILD"] /\ Calm
            /\ Become(r, [q EXCEPT !.at = "insert", !.tasks = WithServerUndo(@)])
  <2>1. PICK state : state = [q EXCEPT !.at = "insert", !.tasks = WithServerUndo(@)]
    OBVIOUS
  <2>2. /\ WithServerUndo(q.tasks) = PortAndServer
        /\ PortAndServer \in Seq({"delete_port", "delete_server"})
    BY <1>4, TaskLists DEF WithServerUndo
  <2>3. /\ state \in RequestState /\ state.at = "insert" /\ state.srv = s
        /\ state.tasks = PortAndServer
    BY <1>3, <2>1, <2>2 DEF RequestState, Location
  <2>4. Making(state) /\ WellFormed(state)
    BY <1>3, <1>1, <1>2, <1>4, <2>3 DEF Making, WellFormed
  <2>5. nova' = [nova EXCEPT ![s] = V] /\ nova'[s] = V
    BY <1>4, <1>9, <1>16 DEF TypeOK
  <2>6. MakerKnows(state)'
    BY <1>4, <1>6, <1>10, <2>3, <2>5 DEF MakerKnows
  <2>7. RequestMoves(r, state)
    BY <1>4, <1>16, <2>1, <2>3, BecomeMoves
  <2>8. MakerFits(r, s, state, V, "EXISTS")
    BY <1>4, <1>6, <1>7, <1>10, <2>3, <2>4, <2>5, <2>6, <2>7, Idles DEF MakerFits
  <2> QED
    BY <1>10, <2>3, <2>8, MakerKeeps
<1>17. CASE nova' = [nova EXCEPT ![s].status = "BUILD"] /\ Raise(r) /\ Blurs(r)
  <2>1. s \in blurred'
    BY <1>2, <1>3, <1>17 DEF Blurs
  <2>2. nova' = [nova EXCEPT ![s] = V]
    BY <1>4, <1>9, <1>17 DEF TypeOK
  <2>3. MakerKnows(back)'
    BY <1>4, <1>6, <1>8, <1>13, <2>1 DEF MakerKnows
  <2>4. MakerFits(r, s, back, V, "EXISTS")
    BY <1>4, <1>6, <1>7, <1>10, <1>13, <1>14, <1>15, <1>17, <2>2, <2>3, Idles
    DEF MakerFits
  <2> QED
    BY <1>10, <1>13, <2>4, MakerKeeps
<1>18. CASE nova' = nova /\ Raise(r)
  <2>1. nova' = [nova EXCEPT ![s] = nova[s]]
    BY <1>4, <1>18 DEF TypeOK
  <2>2. MakerKnows(back)'
    BY <1>4, <1>6, <1>8, <1>13, <1>18 DEF MakerKnows, Unclaimed
  <2>3. MakerFits(r, s, back, nova[s], "EXISTS")
    BY <1>4, <1>6, <1>7, <1>13, <1>14, <1>15, <1>18, <2>1, <2>2, Idles
    DEF MakerFits
  <2> QED
    BY <1>4, <1>13, <2>3, MakerKeeps
<1> QED
  BY <1>2, <1>3, <1>16, <1>17, <1>18 DEF CreateInNova, Answered

LEMMA InsertServerKeeps ==
  ASSUME IndInv, NEW r \in Request, InsertServer(r)
  PROVE  IndInv'
<1>1. request[r].at = "insert" /\ request[r].at # "idle" /\ Making(request[r])
  BY DEF InsertServer, Making
<1>2. PICK q \in RequestState : q = request[r]
  BY <1>1, AtWork
<1>3. PICK s \in Server : s = q.srv
  BY <1>1, <1>2, AtWork
<1>4. /\ TypeOK /\ WellFormed(q) /\ MakerKnows(q) /\ ServerFits(s) /\ q.tasks = PortAndServer
      /\ nova[s] \in NovaServer /\ port[s] \in {"UNCREATED", "EXISTS", "GONE"}
      /\ nova[s].status \in {"BUILD", "ACTIVE", "ERROR"} /\ nova[s].task = "none"
      /\ row[s].life = "absent"
  BY <1>1, <1>2, <1>3, AtWork DEF Knows, WellFormed, MakerKnows, TypeOK
<1>5. History /\ UNCHANGED <<root, openstack>>
  BY Histories DEF InsertServer
<1>6. Others(r, s) = {} /\ request[r].srv = s
  BY <1>1, <1>2, <1>3, NoOthers
<1>7. CASE /\ row' = [row EXCEPT ![s] = [life |-> "live", status |-> "BUILD"]]
           /\ nic' = [nic EXCEPT ![s] = "live"]
           /\ Become(r, [q EXCEPT !.at = "build_poll", !.tasks = <<>>])
  <2>1. PICK state : state = [q EXCEPT !.at = "build_poll", !.tasks = <<>>]
    OBVIOUS
  <2>2. <<>> \in Seq({"delete_port", "delete_server"})
    BY TaskLists
  <2>3. /\ state \in RequestState /\ state.at = "build_poll" /\ state.srv = s
        /\ state.tasks = <<>>
    BY <1>3, <2>1, <2>2 DEF RequestState, Location
  <2>4. ~Making(state) /\ WellFormed(state)
    BY <1>1, <1>2, <1>3, <1>4, <2>3 DEF Making, WellFormed
  <2>5. [life |-> "live", status |-> "BUILD"] \in Row
    BY DEF Row, ServerStatus
  <2>6. /\ row'[s].life = "live" /\ row'[s].status = "BUILD" /\ nic'[s] = "live"
        /\ row' \in [Server -> Row] /\ nic' \in [Server -> {"absent", "live", "deleted"}]
        /\ nova' = nova /\ port' = port
    BY <1>4, <1>5, <1>7, <2>5 DEF TypeOK, openstack
  <2>7. RequestMoves(r, state)
    BY <1>4, <1>7, <2>1, <2>3, BecomeMoves
  <2>8. TypeOK'
    BY <1>4, <1>5, <2>6, <2>7 DEF TypeOK, History, RequestMoves, openstack
  <2>9. UserKnows(state)'
    BY <2>3, <2>6 DEF UserKnows, StatusAllows, Starting, Stopping
  <2>10. Knows(state)'
    BY <2>4, <2>9 DEF Knows, Making
  <2>11. nic[s] = "absent" /\ port[s] # "UNCREATED"
    BY <1>4 DEF ServerFits
  <2>12. ServerFits(s)'
    BY <1>4, <2>6, <2>11 DEF ServerFits
  <2>13. Grows(s)
    BY <1>4, <2>6, <2>11 DEF Grows
  <2>14. \A t \in Server \ {s} : Untouched(t)
    BY <1>4, <1>7, <2>6 DEF TypeOK, Untouched
  <2>15. StepFits(r, s, state)
    BY <1>5, <1>6, <2>3, <2>4, <2>6, <2>7, <2>8, <2>10, <2>12, <2>13, <2>14
    DEF StepFits, History
  <2> QED
    BY <2>3, <2>15, StepKeeps
<1>8. CASE Raise(r) /\ UNCHANGED <<row, nic>>
  <2>1. PICK back : back = [q EXCEPT !.at = "rollback"]
    OBVIOUS
  <2>2. "rollback" \in Location
    BY DEF Location
  <2>3. /\ back \in RequestState /\ back.at = "rollback" /\ back.srv = s
        /\ back.tasks = PortAndServer
    BY <1>3, <1>4, <2>1, <2>2, Moved
  <2>4. Making(back) /\ WellFormed(back)
    BY <1>1, <1>2, <1>3, <1>4, <2>3 DEF Making, WellFormed
  <2>5. PortAndServer # <<>> /\ PortAndServer # OnePort
    BY TaskLists
  <2>6. RequestMoves(r, back)
    BY <1>2, <1>4, <1>8, <2>1, <2>3, <2>5, BecomeMoves DEF Raise, Await
  <2>7. /\ row' = row /\ nova' = nova /\ port' = port /\ UNCHANGED <<tables, disk>>
        /\ nova' = [nova EXCEPT ![s] = nova[s]] /\ port' = [port EXCEPT ![s] = port[s]]
    BY <1>4, <1>5, <1>8 DEF TypeOK, tables, openstack
  <2>8. MakerKnows(back)'
    BY <1>4, <2>3, <2>5, <2>7 DEF MakerKnows
  <2>9. MakerFits(r, s, back, nova[s], port[s])
    BY <1>4, <1>5, <1>6, <2>3, <2>4, <2>6, <2>7, <2>8, Idles DEF MakerFits, ServerFits
  <2> QED
    BY <1>4, <2>3, <2>9, MakerKeeps
<1> QED
  BY <1>2, <1>3, <1>7, <1>8 DEF InsertServer

LEMMA UndoKeeps ==
  ASSUME IndInv, NEW r \in Request, Undo(r)
  PROVE  IndInv'
<1>1. request[r].at = "rollback" /\ request[r].at # "idle" /\ Making(request[r])
  BY DEF Undo, Making
<1>2. PICK q \in RequestState : q = request[r]
  BY <1>1, AtWork
<1>3. PICK s \in Server : s = q.srv
  BY <1>1, <1>2, AtWork
<1>4. /\ TypeOK /\ WellFormed(q) /\ MakerKnows(q) /\ ServerFits(s)
      /\ nova[s] \in NovaServer /\ port[s] \in {"UNCREATED", "EXISTS", "GONE"}
      /\ row[s].life = "absent"
      /\ q.tasks \in {OnePort, PortAndServer}
  BY <1>1, <1>2, <1>3, AtWork DEF Knows, WellFormed, MakerKnows, TypeOK
<1>5. Calm \/ Blurs(r)
  BY DEF Undo
<1>6. History /\ UNCHANGED <<tables, disk>> /\ row' = row
  BY <1>1, <1>5, Histories DEF Undo, tables
<1>7. Others(r, s) = {} /\ request[r].srv = s
  BY <1>1, <1>2, <1>3, NoOthers
<1>8. /\ OnePort # PortAndServer /\ OnePort # <<>>
      /\ OnePort \in Seq({"delete_port", "delete_server"})
  BY TaskLists
<1>9. CASE q.tasks = OnePort
  <2>1. LatestTask(q.tasks) = "delete_port" /\ WithoutLatest(q.tasks) = <<>>
    BY <1>9, TaskLists
  <2>2. Become(r, Idle)
    BY <1>2, <2>1 DEF Undo
  <2>3. RequestMoves(r, Idle)
    BY <1>4, <2>2, Idles, BecomeMoves
  <2>4. \/ port' = [port EXCEPT ![s] = "GONE"] /\ nova' = nova /\ Calm
        \/ Blurs(r) /\ nova' = nova /\ port' = port
    BY <1>2, <1>3, <2>1 DEF Undo
  <2>5. nova' = [nova EXCEPT ![s] = nova[s]]
    BY <1>4, <2>4 DEF TypeOK
  <2>6. CASE port' = [port EXCEPT ![s] = "GONE"] /\ Calm
    <3>1. s \notin blurred' => Unclaimed(nova[s])
      BY <1>1, <1>2, <1>3, <1>4, <1>9, <2>6 DEF MakerKnows, Calm
    <3>2. MakerFits(r, s, Idle, nova[s], "GONE")
      BY <1>4, <1>6, <1>7, <2>3, <2>5, <2>6, <3>1, Idles DEF MakerFits, ServerFits
    <3> QED
      BY <1>4, <3>2, Idles, MakerKeeps
  <2>7. CASE Blurs(r) /\ port' = port
    <3>1. s \in blurred'
      BY <1>2, <1>3, <2>7 DEF Blurs
    <3>2. port' = [port EXCEPT ![s] = port[s]]
      BY <1>4, <2>7 DEF TypeOK
    <3>3. MakerFits(r, s, Idle, nova[s], port[s])
      BY <1>4, <1>6, <1>7, <2>3, <2>5, <3>1, <3>2, Idles DEF MakerFits, ServerFits
    <3> QED
      BY <1>4, <3>3, Idles, MakerKeeps
  <2> QED
    BY <2>4, <2>6, <2>7
<1>10. CASE q.tasks = PortAndServer
  <2>1. LatestTask(q.tasks) = "delete_server" /\ WithoutLatest(q.tasks) = OnePort
    BY <1>10, TaskLists
  <2>2. PICK state : state = [q EXCEPT !.tasks = OnePort]
    OBVIOUS
  <2>3. /\ state \in RequestState /\ state.at = "rollback" /\ state.srv = s
        /\ state.tasks = OnePort
    BY <1>1, <1>2, <1>3, <1>8, <2>2 DEF RequestState
  <2>4. Making(state) /\ WellFormed(state)
    BY <1>1, <1>2, <1>3, <1>4, <2>3 DEF Making, WellFormed
  <2>5. Become(r, state)
    BY <1>2, <1>8, <2>1, <2>2 DEF Undo
  <2>6. RequestMoves(r, state)
    BY <1>4, <2>3, <2>5, BecomeMoves
  <2>7. \/ nova' = [nova EXCEPT ![s] = Leaving(@)] /\ port' = port
        \/ Blurs(r) /\ nova' = nova /\ port' = port
    BY <1>2, <1>3, <2>1 DEF Undo
  <2>8. port' = [port EXCEPT ![s] = port[s]] /\ port[s] # "UNCREATED"
    BY <1>2, <1>3, <1>4, <1>10, <2>7 DEF TypeOK, MakerKnows, ServerFits
  <2>9. CASE nova' = [nova EXCEPT ![s] = Leaving(@)]
    <3>1. PICK V : V = Leaving(nova[s])
      OBVIOUS
    <3>2. V \in NovaServer /\ V.status = nova[s].status /\ V.task = "deleting"
      BY <1>4, <3>1 DEF Leaving, NovaServer
    <3>3. nova' = [nova EXCEPT ![s] = V] /\ nova'[s] = V
      BY <1>4, <2>9, <3>1 DEF TypeOK
    <3>4. V.status \in {"BUILD", "ACTIVE", "ERROR"}
      BY <1>3, <1>4, <1>10, <3>2 DEF MakerKnows
    <3>5. MakerKnows(state)'
      BY <1>4, <1>6, <1>8, <2>3, <3>2, <3>3 DEF MakerKnows, Unclaimed
    <3>6. MakerFits(r, s, state, V, port[s])
      BY <1>4, <1>6, <1>7, <2>3, <2>4, <2>6, <2>8, <3>3, <3>4, <3>5, Idles
      DEF MakerFits
    <3> QED
      BY <1>4, <2>3, <3>2, <3>6, MakerKeeps
  <2>10. CASE Blurs(r) /\ nova' = nova
    <3>1. s \in blurred'
      BY <1>2, <1>3, <2>10 DEF Blurs
    <3>2. nova' = [nova EXCEPT ![s] = nova[s]]
      BY <1>4, <2>10 DEF TypeOK
    <3>3. MakerKnows(state)'
      BY <1>4, <1>6, <1>8, <2>3, <3>1 DEF MakerKnows
    <3>4. MakerFits(r, s, state, nova[s], port[s])
      BY <1>4, <1>6, <1>7, <2>3, <2>4, <2>6, <2>8, <3>2, <3>3, Idles
      DEF MakerFits, ServerFits
    <3> QED
      BY <1>4, <2>3, <3>4, MakerKeeps
  <2> QED
    BY <2>7, <2>9, <2>10
<1> QED
  BY <1>4, <1>9, <1>10

---------------------------------------------------------------------------
(* Restarts, and what OpenStack does on its own.                           *)

LEMMA RestartKeeps ==
  ASSUME IndInv, Restart
  PROVE  IndInv'
<1> USE ServersAssumption
<1>1. TypeOK
  BY DEF IndInv
<1>2. /\ row' = row /\ nic' = nic /\ nova' = nova /\ port' = port /\ root' = root /\ disk' = disk
      /\ unsure' = unsure /\ blurred' = blurred \cup {s \in Server : Busy(s)}
      /\ request' = [r \in Request |-> Idle]
  BY DEF Restart, tables, openstack
<1>3. \A r \in Request : request'[r] = Idle
  BY <1>2
<1>4. TypeOK'
  BY <1>1, <1>2, Idles DEF TypeOK
<1>5. (RequestsWellFormed /\ MakersAreAlone /\ RequestsKnow)'
  BY <1>3, Idles DEF RequestsWellFormed, WellFormed, Making, MakersAreAlone, RequestsKnow
<1>6. ServersFit'
  BY <1>2 DEF IndInv, ServersFit, ServerFits
<1>7. NothingIsOrphaned'
  <2> SUFFICES ASSUME NEW s \in Server, row'[s].life = "absent", s \notin blurred'
               PROVE  port'[s] # "EXISTS" /\ Unclaimed(nova'[s])
    BY DEF NothingIsOrphaned, Unclaimed
  <2>1. ~Busy(s) /\ s \notin blurred
    BY <1>2
  <2> QED
    BY <1>2, <2>1 DEF IndInv, NothingIsOrphaned, Unclaimed
<1> QED
  BY <1>4, <1>5, <1>6, <1>7 DEF IndInv

\* OpenStack leaves V of server s in Nova: a server that is gone stays gone, one
\* that nobody asked anything of stays free.
NovaFits(s, V) ==
  /\ nova' = [nova EXCEPT ![s] = V]
  /\ UNCHANGED <<tables, port, request>>
  /\ disk' \in [Server -> {"UNCREATED", "EXISTS", "GONE"}]
  /\ History
  /\ nova[s].status = "UNCREATED" <=> V.status = "UNCREATED"
  /\ nova[s].status = "GONE" => V.status = "GONE"
  /\ V.status \in {"UNCREATED", "GONE"} => V.task = "none"
  /\ nova[s].task = "none" => V.task = "none" /\ (V.status = "GONE" => nova[s].status = "GONE")
  /\ Unclaimed(nova[s]) /\ s \notin blurred' => Unclaimed(V)

LEMMA NovaKeeps ==
  ASSUME IndInv, NEW s \in Server, NEW V \in NovaServer, NovaFits(s, V),
         V.status # "SHUTOFF" \/ nova[s].task # "none"
  PROVE  IndInv'
<1> USE ServersAssumption
<1>1. /\ TypeOK /\ RequestsWellFormed /\ MakersAreAlone /\ RequestsKnow /\ ServersFit
      /\ NothingIsOrphaned
  BY DEF IndInv
<1>2. /\ row' = row /\ nic' = nic /\ root' = root /\ port' = port /\ request' = request
      /\ nova'[s] = V /\ \A t \in Server \ {s} : nova'[t] = nova[t]
      /\ blurred \subseteq blurred'
  BY <1>1 DEF NovaFits, TypeOK, tables, History
<1>3. TypeOK'
  BY <1>1, <1>2 DEF TypeOK, NovaFits, History
<1>4. (RequestsWellFormed /\ MakersAreAlone)'
  BY <1>1, <1>2 DEF RequestsWellFormed, WellFormed, MakersAreAlone, Making, Building
<1>5. RequestsKnow'
  <2> SUFFICES ASSUME NEW r \in Request, NEW q \in RequestState, q = request[r],
                      q.srv # NoServer
               PROVE  Knows(q)'
    BY <1>1, <1>2 DEF TypeOK, RequestsKnow, Knows, Making, MakerKnows, UserKnows,
       StatusAllows, Building, Starting, Stopping
  <2>1. q.srv \in Server /\ Knows(q)
    BY <1>1 DEF RequestState, RequestsKnow, Knows
  <2>2. CASE Making(q)
    <3>1. MakerKnows(q)
      BY <2>1, <2>2 DEF Knows
    <3>2. CASE q.srv = s
      <4>1. nova'[q.srv] = V /\ row'[q.srv] = row[q.srv] /\ port'[q.srv] = port[q.srv]
        BY <1>2, <3>2
      <4>2. q.tasks = PortAndServer =>
              V.status \in {"BUILD", "ACTIVE", "ERROR"} /\ V.task = "none"
        BY <3>1, <3>2 DEF MakerKnows, NovaFits, NovaServer
      <4>3. q.at \in {"create_port", "create_nova"} => V.status = "UNCREATED"
        BY <3>1, <3>2 DEF MakerKnows, NovaFits
      <4>4. q.at = "rollback" /\ q.tasks = OnePort /\ q.srv \notin blurred' => Unclaimed(V)
        BY <1>2, <3>1, <3>2 DEF MakerKnows, NovaFits
      <4>5. MakerKnows(q)'
        BY <3>1, <4>1, <4>2, <4>3, <4>4 DEF MakerKnows
      <4> QED
        BY <2>2, <4>5 DEF Knows, Making
    <3>3. CASE q.srv # s
      <4>1. MakerKnows(q)'
        BY <1>2, <2>1, <3>1, <3>3 DEF MakerKnows
      <4> QED
        BY <2>2, <4>1 DEF Knows, Making
    <3> QED
      BY <3>2, <3>3
  <2>3. CASE ~Making(q)
    <3>1. UserKnows(q)
      BY <2>1, <2>3 DEF Knows
    <3>2. nova[q.srv].status = "GONE" => nova'[q.srv].status = "GONE"
      BY <1>2, <2>1 DEF NovaFits
    <3>3. UserKnows(q)'
      BY <1>2, <3>1, <3>2 DEF UserKnows
    <3> QED
      BY <2>3, <3>3 DEF Knows, Making
  <2> QED
    BY <2>2, <2>3
<1>6. ServersFit'
  <2> SUFFICES ASSUME NEW t \in Server PROVE ServerFits(t)'
    BY DEF ServersFit
  <2>1. ServerFits(t)
    BY <1>1 DEF ServersFit
  <2>2. CASE t = s
    BY <1>2, <2>1, <2>2 DEF ServerFits, NovaFits
  <2>3. CASE t # s
    BY <1>2, <2>1, <2>3 DEF ServerFits
  <2> QED
    BY <2>2, <2>3
<1>7. NothingIsOrphaned'
  <2> SUFFICES ASSUME NEW t \in Server, row'[t].life = "absent", ~Busy(t)', t \notin blurred'
               PROVE  port'[t] # "EXISTS" /\ Unclaimed(nova'[t])
    BY DEF NothingIsOrphaned, Unclaimed
  <2>1. row[t].life = "absent" /\ ~Busy(t) /\ t \notin blurred
    BY <1>2 DEF Busy
  <2>2. port[t] # "EXISTS" /\ Unclaimed(nova[t])
    BY <1>1, <2>1 DEF NothingIsOrphaned, Unclaimed
  <2>3. CASE t = s
    BY <1>2, <2>2, <2>3 DEF NovaFits
  <2>4. CASE t # s
    BY <1>2, <2>2, <2>4
  <2> QED
    BY <2>3, <2>4
<1> QED
  BY <1>3, <1>4, <1>5, <1>6, <1>7 DEF IndInv

LEMMA NovaCompletesKeeps ==
  ASSUME IndInv, NEW s \in Server, NovaCompletes(s)
  PROVE  IndInv'
<1>1. TypeOK /\ ServerFits(s)
  BY DEF IndInv, ServersFit
<1>2. PICK status \in Outcomes(nova[s]) :
        /\ nova' = [nova EXCEPT ![s] = [status |-> status, task |-> "none"]]
        /\ disk' = IF nova[s].status = "BUILD" /\ status = "ACTIVE"
                     THEN [disk EXCEPT ![s] = "EXISTS"] ELSE disk
        /\ Calm /\ UNCHANGED <<tables, port, request>>
  BY DEF NovaCompletes
<1>3. PICK V : V = [status |-> status, task |-> "none"]
  OBVIOUS
<1>4. nova[s] \in NovaServer
  BY <1>1 DEF TypeOK
<1>5. /\ status \in {"ACTIVE", "SHUTOFF", "GONE", "ERROR"}
      /\ nova[s].task = "deleting" => status = "GONE"
      /\ status = "GONE" => nova[s].task = "deleting"
      /\ status = "SHUTOFF" => nova[s].task # "none"
      /\ nova[s].task = "none" => nova[s].status = "BUILD"
  <2>1. nova[s].task = "starting" => Outcomes(nova[s]) = {"ACTIVE"}
    BY DEF Outcomes
  <2>2. nova[s].task = "stopping" => Outcomes(nova[s]) = {"SHUTOFF"}
    BY DEF Outcomes
  <2>3. nova[s].task = "deleting" => Outcomes(nova[s]) = {"GONE"}
    BY DEF Outcomes
  <2>4. nova[s].task = "none" =>
          Outcomes(nova[s]) = IF nova[s].status = "BUILD" THEN {"ACTIVE", "ERROR"} ELSE {}
    BY DEF Outcomes
  <2>5. nova[s].task \in {"none", "starting", "stopping", "deleting"}
    BY <1>4 DEF NovaServer
  <2> QED
    BY <1>2, <2>1, <2>2, <2>3, <2>4, <2>5
<1>6. V \in NovaServer /\ V.status = status /\ V.task = "none"
  BY <1>3, <1>5 DEF NovaServer
<1>7. nova[s].status \notin {"UNCREATED", "GONE"}
  BY <1>1, <1>5 DEF ServerFits
<1>8. disk' \in [Server -> {"UNCREATED", "EXISTS", "GONE"}]
  BY <1>1, <1>2 DEF TypeOK
<1>9. History
  BY <1>1, <1>2 DEF TypeOK, Calm, History
<1>10. NovaFits(s, V)
  BY <1>2, <1>3, <1>5, <1>6, <1>7, <1>8, <1>9 DEF NovaFits, Unclaimed
<1> QED
  BY <1>5, <1>6, <1>10, NovaKeeps

LEMMA NovaFailsKeeps ==
  ASSUME IndInv, NEW s \in Server, NovaFails(s)
  PROVE  IndInv'
<1>1. TypeOK /\ ServerFits(s)
  BY DEF IndInv, ServersFit
<1>2. PICK status \in {"ERROR", nova[s].status} :
        nova' = [nova EXCEPT ![s] = [status |-> status, task |-> "none"]]
  BY DEF NovaFails
<1>3. PICK V : V = [status |-> status, task |-> "none"]
  OBVIOUS
<1>4. nova[s] \in NovaServer /\ nova[s].task # "none"
  BY <1>1 DEF TypeOK, NovaFails
<1>5. V \in NovaServer /\ V.status = status /\ V.task = "none"
  BY <1>2, <1>3, <1>4 DEF NovaServer
<1>6. nova[s].status \notin {"UNCREATED", "GONE"}
  BY <1>1, <1>4 DEF ServerFits
<1>7. /\ UNCHANGED <<tables, port, request>> /\ disk' = disk
      /\ disk' \in [Server -> {"UNCREATED", "EXISTS", "GONE"}]
      /\ History /\ s \in blurred'
  BY <1>1 DEF TypeOK, NovaFails, History
<1>8. NovaFits(s, V)
  BY <1>2, <1>3, <1>4, <1>5, <1>6, <1>7 DEF NovaFits
<1> QED
  BY <1>4, <1>5, <1>8, NovaKeeps

LEMMA DiskIsDeletedKeeps ==
  ASSUME IndInv, NEW s \in Server, DiskIsDeleted(s)
  PROVE  IndInv'
<1>1. /\ TypeOK /\ RequestsWellFormed /\ MakersAreAlone /\ RequestsKnow /\ ServersFit
      /\ NothingIsOrphaned
  BY DEF IndInv
<1>2. /\ row' = row /\ nic' = nic /\ root' = root /\ port' = port /\ request' = request
      /\ nova' = nova /\ blurred' = blurred /\ unsure' = unsure
      /\ disk' = [disk EXCEPT ![s] = "GONE"]
  BY DEF DiskIsDeleted, Calm, tables
<1>3. TypeOK'
  BY <1>1, <1>2 DEF TypeOK
<1>4. (RequestsWellFormed /\ MakersAreAlone)'
  BY <1>1, <1>2 DEF RequestsWellFormed, WellFormed, MakersAreAlone, Making, Building
<1>5. RequestsKnow'
  BY <1>1, <1>2 DEF RequestsKnow, Making, MakerKnows, UserKnows, StatusAllows, Building,
     Starting, Stopping
<1>6. (ServersFit /\ NothingIsOrphaned)'
  BY <1>1, <1>2 DEF ServersFit, ServerFits, NothingIsOrphaned, Busy
<1> QED
  BY <1>3, <1>4, <1>5, <1>6 DEF IndInv

LEMMA StutterKeeps ==
  ASSUME IndInv, UNCHANGED vars
  PROVE  IndInv'
<1>1. /\ TypeOK /\ RequestsWellFormed /\ MakersAreAlone /\ RequestsKnow /\ ServersFit
      /\ NothingIsOrphaned
  BY DEF IndInv
<1>2. /\ row' = row /\ nic' = nic /\ root' = root /\ port' = port /\ request' = request
      /\ nova' = nova /\ blurred' = blurred /\ unsure' = unsure /\ disk' = disk
  BY DEF vars
<1>3. TypeOK'
  BY <1>1, <1>2 DEF TypeOK
<1>4. (RequestsWellFormed /\ MakersAreAlone)'
  BY <1>1, <1>2 DEF RequestsWellFormed, WellFormed, MakersAreAlone, Making, Building
<1>5. RequestsKnow'
  BY <1>1, <1>2 DEF RequestsKnow, Making, MakerKnows, UserKnows, StatusAllows, Building,
     Starting, Stopping
<1>6. (ServersFit /\ NothingIsOrphaned)'
  BY <1>1, <1>2 DEF ServersFit, ServerFits, NothingIsOrphaned, Busy
<1> QED
  BY <1>3, <1>4, <1>5, <1>6 DEF IndInv

---------------------------------------------------------------------------
(* The theorems.                                                           *)

LEMMA NextKeeps == IndInv /\ [Next]_vars => IndInv'
<1> SUFFICES ASSUME IndInv, [Next]_vars PROVE IndInv'
  OBVIOUS
<1>1. ASSUME NEW r \in Request, Begin(r) PROVE IndInv'
  BY <1>1, CreateServerKeeps, StartServerKeeps, StopServerKeeps, DeleteServerKeeps DEF Begin
<1>2. ASSUME NEW r \in Request, Resume(r) PROVE IndInv'
  <2>1. CASE CreatePort(r) \/ CreateInNova(r) \/ InsertServer(r) \/ Undo(r)
    BY <2>1, CreatePortKeeps, CreateInNovaKeeps, InsertServerKeeps, UndoKeeps
  <2>2. CASE PollBuild(r) \/ SaveBuilt(r)
    BY <2>2, PollBuildKeeps, SaveBuiltKeeps
  <2>3. CASE LoadBuilt(r) \/ LoadStarted(r) \/ LoadStopped(r) \/ LoadLeaving(r)
    BY <2>3, LoadLiveKeeps DEF LoadBuilt, LoadStarted, LoadStopped, LoadLeaving
  <2>4. CASE NovaStart(r) \/ NovaStop(r)
    BY <2>4, PowerCallKeeps DEF NovaStart, NovaStop
  <2>5. CASE PollStart(r) \/ PollStop(r)
    BY <2>5, PollPowerKeeps DEF PollStart, PollStop
  <2>6. CASE SaveStarted(r) \/ SaveStopped(r)
    BY <2>6, SavePowerKeeps DEF SaveStarted, SaveStopped
  <2>7. CASE NovaDelete(r) \/ LoadResources(r) \/ RemovePorts(r) \/ SaveResources(r)
    BY <2>7, NovaDeleteKeeps, LoadResourcesKeeps, RemovePortsKeeps, SaveResourcesKeeps
  <2>8. CASE PollServerGone(r) \/ SaveServerGone(r)
    BY <2>8, PollServerGoneKeeps, SaveServerGoneKeeps
  <2>9. CASE LoadRoot(r) \/ PollRootGone(r) \/ SaveRootGone(r)
    BY <2>9, LoadRootKeeps, PollRootGoneKeeps, SaveRootGoneKeeps
  <2> QED
    BY <1>2, <2>1, <2>2, <2>3, <2>4, <2>5, <2>6, <2>7, <2>8, <2>9 DEF Resume
<1>3. ASSUME NEW r \in Request, PollFails(r) PROVE IndInv'
  BY <1>3, PollFailsKeeps
<1>4. CASE Restart
  BY <1>4, RestartKeeps
<1>5. CASE OpenStack
  BY <1>5, NovaCompletesKeeps, NovaFailsKeeps, DiskIsDeletedKeeps DEF OpenStack
<1>6. CASE UNCHANGED vars
  BY <1>6, StutterKeeps
<1> QED
  BY <1>1, <1>2, <1>3, <1>4, <1>5, <1>6 DEF Next

\* What the requests know of their servers, and the rows, Nova and Neutron of
\* each other, holds in every state, whatever runs at once and whatever fails.
THEOREM Invariance == Spec => []IndInv
BY Initially, NextKeeps, PTL DEF Spec

\* A row marked deleted leaves neither a server in Nova nor a port in Neutron.
THEOREM DeletedServerSafe == Spec => []DeletedServerLeavesNoPort
<1>1. IndInv => DeletedServerLeavesNoPort
  BY DEF IndInv, ServersFit, ServerFits, DeletedServerLeavesNoPort
<1> QED
  BY <1>1, Invariance, PTL

\* The undo tasks of a failed creation leave no server and no port, unless an
\* answer was lost, an undo failed or the process stopped.
THEOREM NoOrphanSafe == Spec => []NothingIsOrphaned
<1>1. IndInv => NothingIsOrphaned
  BY DEF IndInv
<1> QED
  BY <1>1, Invariance, PTL

\* The status that a row shows.
ShowsAs(R) ==
  CASE R.life = "absent"  -> "NONE"
    [] R.life = "deleted" -> "DELETED"
    [] OTHER              -> R.status

\* The status of server s may move from what its row shows to what R shows.
MayShow(s, R) ==
  \/ ShowsAs(R) = ShowsAs(row[s])
  \/ ShowsAs(R) \in Machine!States /\ <<ShowsAs(row[s]), ShowsAs(R)>> \in Machine!Moves

RowMoves ==
  \/ row' = row
  \/ \E s \in Server, R \in Row : row' = [row EXCEPT ![s] = R] /\ MayShow(s, R)

LEMMA InsertMoves ==
  ASSUME IndInv, NEW r \in Request, InsertServer(r)
  PROVE  RowMoves
<1>1. request[r].at = "insert" /\ request[r].at # "idle" /\ Making(request[r])
  BY DEF InsertServer, Making
<1>2. PICK s \in Server : s = request[r].srv
  BY <1>1, AtWork
<1>3. row[s].life = "absent"
  BY <1>1, <1>2, AtWork DEF Knows, MakerKnows
<1>4. PICK R : R = [life |-> "live", status |-> "BUILD"]
  OBVIOUS
<1>5. R \in Row /\ ShowsAs(R) = "BUILD" /\ ShowsAs(row[s]) = "NONE"
  BY <1>3, <1>4 DEF Row, ServerStatus, ShowsAs
<1>6. MayShow(s, R)
  BY <1>5 DEF MayShow, Machine!Moves, Machine!States
<1> QED
  BY <1>2, <1>4, <1>5, <1>6 DEF RowMoves, InsertServer

\* A commit that writes the status moves it as its machine lets it.
LEMMA CommitMoves ==
  ASSUME IndInv, NEW r \in Request, NEW s \in Server, NEW status \in ServerStatus,
         request[r].at # "idle", s = request[r].srv, ~Making(request[r]),
         row' = WithStatus(r, status),
         row[s].life = "live" =>
           status = row[s].status \/ <<row[s].status, status>> \in Machine!Moves
  PROVE  RowMoves
<1>1. row \in [Server -> Row] /\ row[s] \in Row /\ row[s].life \in {"live", "deleted"}
  BY AtWork DEF TypeOK, Knows, UserKnows, Row
<1>2. CASE row' = [row EXCEPT ![s].status = status]
  <2>1. PICK R : R = [row[s] EXCEPT !.status = status]
    OBVIOUS
  <2>2. R \in Row /\ R.life = row[s].life /\ R.status = status
    BY <1>1, <2>1 DEF Row
  <2>3. row' = [row EXCEPT ![s] = R]
    BY <1>1, <1>2, <2>1
  <2>4. status \in Machine!States
    BY DEF Machine!States, ServerStatus
  <2>5. CASE row[s].life = "live"
    <3>1. ShowsAs(R) = status /\ ShowsAs(row[s]) = row[s].status
      BY <2>2, <2>5 DEF ShowsAs
    <3> QED
      BY ZenonT(40), <2>2, <2>3, <2>4, <2>5, <3>1 DEF RowMoves, MayShow
  <2>6. CASE row[s].life = "deleted"
    <3>1. ShowsAs(R) = ShowsAs(row[s])
      BY <2>2, <2>6 DEF ShowsAs
    <3> QED
      BY <2>2, <2>3, <3>1 DEF RowMoves, MayShow
  <2> QED
    BY <1>1, <2>5, <2>6
<1> QED
  BY <1>2, CommitWrites DEF RowMoves

LEMMA SaveBuiltMoves ==
  ASSUME IndInv, NEW r \in Request, SaveBuilt(r)
  PROVE  RowMoves
<1>1. request[r].at = "build_save" /\ request[r].at # "idle" /\ ~Making(request[r])
  BY DEF SaveBuilt, Making
<1>2. PICK s \in Server : s = request[r].srv
  BY <1>1, AtWork
<1>3. row[s].life = "live" => row[s].status = "BUILD"
  BY <1>1, <1>2, AtWork DEF Knows, UserKnows, StatusAllows, Building
<1>4. row' = row \/ row' = WithStatus(r, "ACTIVE") \/ row' = WithStatus(r, "ERROR")
  BY DEF SaveBuilt
<1>5. /\ <<"BUILD", "ACTIVE">> \in Machine!Moves /\ <<"BUILD", "ERROR">> \in Machine!Moves
      /\ {"ACTIVE", "ERROR"} \subseteq ServerStatus
  BY DEF Machine!Moves, ServerStatus
<1> QED
  BY <1>1, <1>2, <1>3, <1>4, <1>5, CommitMoves DEF RowMoves

LEMMA SavePowerMoves ==
  ASSUME IndInv, NEW r \in Request, SaveStarted(r) \/ SaveStopped(r)
  PROVE  RowMoves
<1>1. /\ request[r].at # "idle" /\ ~Making(request[r])
      /\ SaveStarted(r) => Starting(request[r])
      /\ SaveStopped(r) => Stopping(request[r])
  BY DEF SaveStarted, SaveStopped, SavePower, Making, Starting, Stopping
<1>2. PICK s \in Server : s = request[r].srv
  BY <1>1, AtWork
<1>3. row[s].life = "live" => StatusAllows(request[r], row[s].status)
  BY <1>1, <1>2, AtWork DEF Knows, UserKnows
<1>4. {"ACTIVE", "SHUTOFF"} \subseteq ServerStatus
  BY DEF ServerStatus
<1>5. CASE SaveStarted(r)
  <2>1. row' = row \/ row' = WithStatus(r, "ACTIVE")
    BY <1>5 DEF SaveStarted, SavePower
  <2>2. <<"SHUTOFF", "ACTIVE">> \in Machine!Moves
    BY DEF Machine!Moves
  <2>3. row[s].life = "live" =>
          "ACTIVE" = row[s].status \/ <<row[s].status, "ACTIVE">> \in Machine!Moves
    BY <1>1, <1>3, <1>5, <2>2 DEF StatusAllows
  <2> QED
    BY <1>1, <1>2, <1>4, <2>1, <2>3, CommitMoves DEF RowMoves
<1>6. CASE SaveStopped(r)
  <2>1. row' = row \/ row' = WithStatus(r, "SHUTOFF")
    BY <1>6 DEF SaveStopped, SavePower
  <2>2. <<"ACTIVE", "SHUTOFF">> \in Machine!Moves /\ <<"ERROR", "SHUTOFF">> \in Machine!Moves
    BY DEF Machine!Moves
  <2>3. row[s].life = "live" =>
          "SHUTOFF" = row[s].status \/ <<row[s].status, "SHUTOFF">> \in Machine!Moves
    BY <1>1, <1>3, <1>6, <2>2 DEF StatusAllows
  <2> QED
    BY <1>1, <1>2, <1>4, <2>1, <2>3, CommitMoves DEF RowMoves
<1> QED
  BY <1>5, <1>6

LEMMA SaveServerGoneMoves ==
  ASSUME IndInv, NEW r \in Request, SaveServerGone(r)
  PROVE  RowMoves
<1>1. request[r].at = "gone_save" /\ request[r].at # "idle" /\ ~Making(request[r])
  BY DEF SaveServerGone, Making
<1>2. PICK s \in Server : s = request[r].srv
  BY <1>1, AtWork
<1>3. row[s] \in Row /\ row[s].life # "absent" /\ ServerFits(s)
  BY <1>1, <1>2, AtWork DEF Knows, UserKnows, TypeOK
<1>4. PICK R : R = [life |-> "deleted", status |-> "DELETED"]
  OBVIOUS
<1>5. R \in Row /\ ShowsAs(R) = "DELETED"
  BY <1>4 DEF Row, ServerStatus, ShowsAs
<1>6. ShowsAs(row[s]) \in Machine!Existing \cup {"DELETED"}
  <2>1. CASE row[s].life = "live"
    <3>1. ShowsAs(row[s]) = row[s].status
      BY <2>1 DEF ShowsAs
    <3>2. row[s].status \in ServerStatus /\ row[s].status # "DELETED"
      BY <1>3, <2>1 DEF Row, ServerFits
    <3> QED
      BY <3>1, <3>2 DEF Machine!Existing, Machine!States, ServerStatus
  <2>2. CASE row[s].life = "deleted"
    BY <2>2 DEF ShowsAs
  <2> QED
    BY <1>3, <2>1, <2>2 DEF Row
<1>7. MayShow(s, R)
  BY <1>5, <1>6 DEF MayShow, Machine!Moves, Machine!States
<1> QED
  BY <1>2, <1>4, <1>5, <1>7 DEF RowMoves, SaveServerGone

LEMMA StepMoves == IndInv /\ [Next]_vars => RowMoves
<1> SUFFICES ASSUME IndInv, [Next]_vars PROVE RowMoves
  OBVIOUS
<1>1. ASSUME NEW r \in Request, Begin(r) \/ PollFails(r) PROVE row' = row
  BY <1>1 DEF Begin, CreateServer, StartServer, StopServer, DeleteServer, PollFails, tables
<1>2. ASSUME NEW r \in Request, Resume(r) PROVE RowMoves
  <2>1. CASE CreatePort(r) \/ CreateInNova(r) \/ Undo(r)
    BY <2>1 DEF CreatePort, CreateInNova, Undo, tables, RowMoves
  <2>2. CASE PollBuild(r) \/ PollStart(r) \/ PollStop(r) \/ PollServerGone(r) \/ PollRootGone(r)
    BY <2>2 DEF PollBuild, PollStart, PollStop, PollPower, PollServerGone, PollRootGone,
       tables, RowMoves
  <2>3. CASE LoadBuilt(r) \/ LoadStarted(r) \/ LoadStopped(r) \/ LoadLeaving(r)
    BY <2>3 DEF LoadBuilt, LoadStarted, LoadStopped, LoadLeaving, LoadLive, tables, RowMoves
  <2>4. CASE NovaStart(r) \/ NovaStop(r) \/ NovaDelete(r)
    BY <2>4 DEF NovaStart, NovaStop, PowerCall, NovaDelete, tables, RowMoves
  <2>5. CASE LoadResources(r) \/ RemovePorts(r) \/ LoadRoot(r)
    BY <2>5 DEF LoadResources, RemovePorts, LoadRoot, tables, RowMoves
  <2>6. CASE SaveResources(r) \/ SaveRootGone(r)
    BY <2>6 DEF SaveResources, SaveRootGone, RowMoves
  <2>7. CASE InsertServer(r)
    BY <2>7, InsertMoves
  <2>8. CASE SaveBuilt(r) \/ SaveStarted(r) \/ SaveStopped(r) \/ SaveServerGone(r)
    BY <2>8, SaveBuiltMoves, SavePowerMoves, SaveServerGoneMoves
  <2> QED
    BY <1>2, <2>1, <2>2, <2>3, <2>4, <2>5, <2>6, <2>7, <2>8 DEF Resume
<1>3. Restart \/ OpenStack \/ UNCHANGED vars => row' = row
  BY DEF Restart, OpenStack, NovaCompletes, NovaFails, DiskIsDeleted, tables, vars
<1> QED
  BY <1>1, <1>2, <1>3 DEF Next, RowMoves

\* The status that clients see moves only as the methods of entity.py let it,
\* however late and stale the commits of the background tasks are.
THEOREM StatusIsMachine == Spec => StatusMoves
<1> DEFINE statuses == [s \in Server |-> Shown(s)]
<1>1. Init => Machine!Init
  BY DEF Init, Machine!Init, Shown
<1>2. IndInv /\ [Next]_vars => [Machine!Next]_statuses
  <2> SUFFICES ASSUME IndInv, [Next]_vars PROVE [Machine!Next]_statuses
    OBVIOUS
  <2>1. \A t \in Server : Shown(t) = ShowsAs(row[t]) /\ Shown(t)' = ShowsAs(row'[t])
    BY DEF Shown, ShowsAs
  <2>2. CASE row' = row
    BY <2>1, <2>2
  <2>3. ASSUME NEW s \in Server, NEW R \in Row, row' = [row EXCEPT ![s] = R], MayShow(s, R)
        PROVE  [Machine!Next]_statuses
    <3>1. row'[s] = R /\ \A t \in Server \ {s} : row'[t] = row[t]
      BY <2>3 DEF IndInv, TypeOK
    <3>2. statuses' = [statuses EXCEPT ![s] = ShowsAs(R)]
      BY <2>1, <3>1
    <3>3. statuses[s] = ShowsAs(row[s])
      BY <2>1
    <3>4. CASE ShowsAs(R) = ShowsAs(row[s])
      <4>1. statuses' = statuses
        BY <3>2, <3>3, <3>4
      <4> QED
        BY <4>1
    <3>5. CASE ShowsAs(R) \in Machine!States /\ <<ShowsAs(row[s]), ShowsAs(R)>> \in Machine!Moves
      <4>1. Machine!Move(s)
        BY <3>2, <3>3, <3>5 DEF Machine!Move
      <4> QED
        BY <4>1 DEF Machine!Next
    <3> QED
      BY <2>3, <3>4, <3>5 DEF MayShow
  <2> QED
    BY <2>2, <2>3, StepMoves DEF RowMoves
<1> QED
  BY <1>1, <1>2, Invariance, PTL DEF Spec, StatusMoves, Machine!Spec
=============================================================================
