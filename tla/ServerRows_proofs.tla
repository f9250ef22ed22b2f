------------------------- MODULE ServerRows_proofs -------------------------
(***************************************************************************)
(* Proofs that the row of a server on which nobody works shows what Nova   *)
(* shows (QuietRowsAgree of ServerLifecycle) and that a deletion which has *)
(* its server to itself leaves nothing (LoneDeletionLeavesNothing), on top *)
(* of the invariant of ServerLifecycle_proofs.  ChangesAreTold makes the   *)
(* first inductive: for every change of a server that Nova has made or was *)
(* asked for there is a request on its way to tell the row of it.  Only    *)
(* the steps that end such a request or begin a change have something to   *)
(* show.  DeletionInv makes the second inductive: a disk comes only while  *)
(* the request that will write its row is on its way, so that a deletion   *)
(* that starts when nobody works on the server finds a row for it.         *)
(***************************************************************************)
EXTENDS ServerLifecycle_proofs

LEMMA RowsInitially == Init => ChangesAreTold
BY DEF Init, ChangesAreTold, Sure, Live

---------------------------------------------------------------------------
(* The requests on other servers.                                          *)

LEMMA SameTells ==
  ASSUME NEW q, NEW u, Same(q, u)
  PROVE  /\ Tells(u) <=> Tells(q)
         /\ TellsRight(q)' => TellsRight(u)'
<1>1. Tells(u) <=> Tells(q)
  BY DEF Same, Tells, Building, PowerTask
<1>2. TellsRight(q)' => TellsRight(u)'
  BY DEF Same, TellsRight
<1> QED
  BY <1>1, <1>2

LEMMA SilentTellsRight ==
  ASSUME NEW q, ~Tells(q)
  PROVE  TellsRight(q)
BY DEF Tells, Building, PowerTask, TellsRight

\* A step of request r on server s.
Moves(r, s) ==
  /\ request[r].srv \in {s, NoServer}
  /\ request'[r].srv \in {s, NoServer}
  /\ \A p \in Request \ {r} : Same(request[p], request'[p])
  /\ \A t \in Server \ {s} : Untouched(t)
  /\ blurred \subseteq blurred' /\ unsure \subseteq unsure'

LEMMA MovesKeep ==
  ASSUME IndInv, IndInv', ChangesAreTold, NEW r \in Request, NEW s \in Server,
         Moves(r, s), Sure(s)' => RemovalGoesOn(s)' /\ RowIsTold(s)'
  PROVE  ChangesAreTold'
<1> USE ServersAssumption
<1> SUFFICES ASSUME NEW t \in Server, Sure(t)', t # s
             PROVE  RemovalGoesOn(t)' /\ RowIsTold(t)'
  BY DEF ChangesAreTold
<1>1. Untouched(t) /\ Sure(t)
  BY DEF Moves, Sure, Live, Untouched
<1>2. RemovalGoesOn(t) /\ RowIsTold(t)
  BY <1>1 DEF ChangesAreTold
<1>3. \A p \in Request :
        /\ request[p].srv = t => p # r
        /\ request'[p].srv = t => p # r
  BY DEF Moves
<1>4. \A p \in Request \ {r} :
        /\ request'[p].srv = request[p].srv /\ request'[p].at = request[p].at
        /\ request'[p].nics = request[p].nics
  BY DEF Moves, Same
<1>5. RemovalGoesOn(t)'
  BY <1>1, <1>2, <1>3, <1>4 DEF RemovalGoesOn, Untouched, Removing
<1>6. ASSUME NEW p \in Request, request'[p].srv = t
      PROVE  (Tells(request[p])' <=> Tells(request[p])) /\ TellsRight(request[p])'
  <2>1. PICK q \in RequestState : q = request[p]
    BY DEF IndInv, TypeOK
  <2>2. PICK u \in RequestState : u = request'[p]
    BY DEF IndInv, TypeOK
  <2>3. Same(q, u) /\ q.srv = t /\ TellsRight(q)
    BY <1>2, <1>3, <1>4, <1>6, <2>1, <2>2 DEF Moves, RowIsTold
  <2>4. TellsRight(q)'
    BY <1>1, <2>3 DEF TellsRight, Untouched
  <2>5. TellsRight(u)' /\ (Tells(u) <=> Tells(q))
    BY <2>3, <2>4, SameTells
  <2> QED
    BY <2>1, <2>2, <2>5 DEF Tells, Building, PowerTask, TellsRight
<1>7. RowIsTold(t)'
  BY <1>1, <1>2, <1>3, <1>4, <1>6 DEF RowIsTold, Untouched
<1> QED
  BY <1>5, <1>7

---------------------------------------------------------------------------
(* The server that a step is about.                                        *)

\* Of what RemovalGoesOn asks a request for, the step creates no need that the
\* request does not meet, and ends only what nobody needs any more.
RemovalKept(s, q, u) ==
  /\ nova'[s].status = "GONE" \/ nova'[s].task = "deleting" =>
       /\ \/ nova[s].status = "GONE" \/ nova[s].task = "deleting"
          \/ u.srv = s /\ u.at \in Removing
       /\ q.srv = s /\ q.at \in Removing => u.srv = s /\ u.at \in Removing
  /\ port'[s] = "GONE" /\ nic'[s] = "live" =>
       /\ (port[s] = "GONE" /\ nic[s] = "live")
            \/ (u.srv = s /\ u.at = "remove_save" /\ u.nics)
       /\ q.srv = s /\ q.at = "remove_save" /\ q.nics
            => u.srv = s /\ u.at = "remove_save" /\ u.nics
  /\ nic'[s] = "deleted" =>
       /\ nic[s] = "deleted" \/ (u.srv = s /\ u.at \in {"gone_load", "gone_poll", "gone_save"})
       /\ q.srv = s /\ q.at \in {"gone_load", "gone_poll", "gone_save"}
            => u.srv = s /\ u.at \in {"gone_load", "gone_poll", "gone_save"}

LEMMA RemovalKeeps ==
  ASSUME NEW r \in Request, NEW s \in Server, NEW q, NEW u, q = request[r], u = request'[r],
         Moves(r, s), RemovalGoesOn(s), RemovalKept(s, q, u)
  PROVE  RemovalGoesOn(s)'
<1>1. \A p \in Request \ {r} :
        /\ request'[p].srv = request[p].srv /\ request'[p].at = request[p].at
        /\ request'[p].nics = request[p].nics
  BY DEF Moves, Same
<1>2. (nova'[s].status = "GONE" \/ nova'[s].task = "deleting")
        => \E p \in Request : request'[p].srv = s /\ request'[p].at \in Removing
  <2> SUFFICES ASSUME nova'[s].status = "GONE" \/ nova'[s].task = "deleting"
               PROVE  \E p \in Request : request'[p].srv = s /\ request'[p].at \in Removing
    OBVIOUS
  <2>1. CASE u.srv = s /\ u.at \in Removing
    BY <2>1
  <2>2. CASE ~(u.srv = s /\ u.at \in Removing)
    <3>1. PICK p \in Request : request[p].srv = s /\ request[p].at \in Removing
      BY <2>2 DEF RemovalKept, RemovalGoesOn
    <3>2. p # r
      BY <2>2, <3>1 DEF RemovalKept
    <3> QED
      BY <1>1, <3>1, <3>2
  <2> QED
    BY <2>1, <2>2
<1>3. port'[s] = "GONE" /\ nic'[s] = "live"
        => \E p \in Request :
             request'[p].srv = s /\ request'[p].at = "remove_save" /\ request'[p].nics
  <2> SUFFICES ASSUME port'[s] = "GONE", nic'[s] = "live"
               PROVE  \E p \in Request :
                        request'[p].srv = s /\ request'[p].at = "remove_save" /\ request'[p].nics
    OBVIOUS
  <2>1. CASE u.srv = s /\ u.at = "remove_save" /\ u.nics
    BY <2>1
  <2>2. CASE ~(u.srv = s /\ u.at = "remove_save" /\ u.nics)
    <3>1. PICK p \in Request :
            request[p].srv = s /\ request[p].at = "remove_save" /\ request[p].nics
      BY <2>2 DEF RemovalKept, RemovalGoesOn
    <3>2. p # r
      BY <2>2, <3>1 DEF RemovalKept
    <3> QED
      BY <1>1, <3>1, <3>2
  <2> QED
    BY <2>1, <2>2
<1>4. nic'[s] = "deleted"
        => \E p \in Request : request'[p].srv = s
                              /\ request'[p].at \in {"gone_load", "gone_poll", "gone_save"}
  <2> SUFFICES ASSUME nic'[s] = "deleted"
               PROVE  \E p \in Request :
                        request'[p].srv = s
                        /\ request'[p].at \in {"gone_load", "gone_poll", "gone_save"}
    OBVIOUS
  <2>1. CASE u.srv = s /\ u.at \in {"gone_load", "gone_poll", "gone_save"}
    BY <2>1
  <2>2. CASE ~(u.srv = s /\ u.at \in {"gone_load", "gone_poll", "gone_save"})
    <3>1. PICK p \in Request :
            request[p].srv = s /\ request[p].at \in {"gone_load", "gone_poll", "gone_save"}
      BY <2>2 DEF RemovalKept, RemovalGoesOn
    <3>2. p # r
      BY <2>2, <3>1 DEF RemovalKept
    <3> QED
      BY <1>1, <3>1, <3>2
  <2> QED
    BY <2>1, <2>2
<1> QED
  BY <1>2, <1>3, <1>4 DEF RemovalGoesOn, Removing

\* The row and Nova agree, or the server is gone.
Settled(s) ==
  \/ nova[s].status = "GONE"
  \/ /\ nova[s].status = row[s].status /\ row[s].status # "BUILD"
     /\ nova[s].task \in {"none", "deleting"}

\* The other requests tell nothing, or nothing they know of has changed.
LEMMA ToldKeeps ==
  ASSUME IndInv, IndInv', NEW r \in Request, NEW s \in Server,
         NEW q \in RequestState, NEW u \in RequestState, q = request[r], u = request'[r],
         Moves(r, s),
         \A p \in Others(r, s), v \in RequestState :
           v = request[p] => ~(Tells(v) /\ u.srv = s /\ Tells(u)) /\ TellsRight(v)',
         u.srv = s => TellsRight(u)',
         \/ u.srv = s /\ Tells(u)
         \/ Settled(s)'
         \/ \E p \in Others(r, s) : Tells(request[p]),
         \A p1, p2 \in Others(r, s) : p1 # p2 => ~(Tells(request[p1]) /\ Tells(request[p2]))
  PROVE  RowIsTold(s)'
<1>1. ASSUME NEW p \in Request \ {r}, request'[p].srv = s
      PROVE  /\ p \in Others(r, s)
             /\ Tells(request[p])' <=> Tells(request[p])
             /\ TellsRight(request[p])'
  <2>1. PICK v \in RequestState : v = request[p]
    BY DEF IndInv, TypeOK
  <2>2. PICK w \in RequestState : w = request'[p]
    BY DEF IndInv, TypeOK
  <2>3. Same(v, w) /\ v.srv = s
    BY <1>1, <2>1, <2>2 DEF Moves, Same
  <2>4. p \in Others(r, s)
    BY <2>1, <2>3 DEF Others
  <2>5. TellsRight(v)'
    BY <2>1, <2>4
  <2>6. TellsRight(w)' /\ (Tells(w) <=> Tells(v))
    BY <2>3, <2>5, SameTells
  <2> QED
    BY <2>1, <2>2, <2>4, <2>6 DEF Tells, Building, PowerTask, TellsRight
<1>2. ASSUME NEW p1 \in Request, NEW p2 \in Request, p1 # p2,
             request'[p1].srv = s, request'[p2].srv = s
      PROVE  ~(Tells(request[p1])' /\ Tells(request[p2])')
  <2>1. Tells(request[r])' <=> Tells(u)
    BY DEF Tells, Building, PowerTask
  <2>2. \A p \in Others(r, s) : request[p] \in RequestState
    BY DEF Others, IndInv, TypeOK
  <2>3. CASE p1 = r
    <3>1. p2 \in Others(r, s) /\ (Tells(request[p2])' <=> Tells(request[p2]))
      BY <1>1, <1>2, <2>3
    <3> QED
      BY <1>2, <2>1, <2>2, <2>3, <3>1
  <2>4. CASE p2 = r
    <3>1. p1 \in Others(r, s) /\ (Tells(request[p1])' <=> Tells(request[p1]))
      BY <1>1, <1>2, <2>4
    <3> QED
      BY <1>2, <2>1, <2>2, <2>4, <3>1
  <2>5. CASE p1 # r /\ p2 # r
    <3>1. /\ p1 \in Others(r, s) /\ p2 \in Others(r, s)
          /\ Tells(request[p1])' <=> Tells(request[p1])
          /\ Tells(request[p2])' <=> Tells(request[p2])
      BY <1>1, <1>2, <2>5
    <3> QED
      BY <1>2, <3>1
  <2> QED
    BY <2>3, <2>4, <2>5
<1>3. ASSUME NEW p \in Request, request'[p].srv = s PROVE TellsRight(request[p])'
  <2>1. CASE p = r
    BY <1>3, <2>1 DEF TellsRight
  <2>2. CASE p # r
    BY <1>1, <1>3, <2>2
  <2> QED
    BY <2>1, <2>2
<1>4. Settled(s)' \/ \E p \in Request : request'[p].srv = s /\ Tells(request[p])'
  <2>1. CASE u.srv = s /\ Tells(u)
    BY <2>1 DEF Tells, Building, PowerTask
  <2>2. ASSUME NEW p \in Others(r, s), Tells(request[p])
        PROVE  request'[p].srv = s /\ Tells(request[p])'
    <3>1. p \in Request \ {r} /\ request'[p].srv = s
      BY DEF Others, Moves, Same
    <3> QED
      BY <1>1, <2>2, <3>1
  <2> QED
    BY <2>1, <2>2 DEF Others
<1> QED
  BY <1>2, <1>3, <1>4 DEF RowIsTold, Settled

---------------------------------------------------------------------------
(* What a step has to show when it writes nothing of its server.           *)

\* What is to be shown of the server that a step is about.
Told(s) == Sure(s)' => RemovalGoesOn(s)' /\ RowIsTold(s)'

LEMMA DoubtTold ==
  ASSUME NEW s \in Server, ~Live(s)' \/ s \in blurred' \cup unsure'
  PROVE  Told(s)
BY DEF Told, Sure

\* The request goes on with what it was doing for a removal, begins to tell
\* nothing, and stops telling only what the row shows already.
GoesOn(s, q, u) ==
  /\ q.at \in Removing /\ (nova[s].status = "GONE" \/ nova[s].task = "deleting")
       => u.at \in Removing
  /\ q.at = "remove_save" /\ q.nics /\ port[s] = "GONE" /\ nic[s] = "live"
       => u.at = "remove_save" /\ u.nics
  /\ q.at \in {"gone_load", "gone_poll", "gone_save"} /\ nic[s] = "deleted"
       => u.at \in {"gone_load", "gone_poll", "gone_save"}
  /\ Tells(u) => Tells(q) /\ TellsRight(u)
  /\ Tells(q) => Tells(u) \/ Settled(s)

LEMMA QuietTold ==
  ASSUME IndInv, IndInv', ChangesAreTold, NEW r \in Request, NEW s \in Server,
         NEW q \in RequestState, NEW u \in RequestState, q = request[r], u = request'[r],
         Moves(r, s), Untouched(s), Sure(s) => GoesOn(s, q, u)
  PROVE  ChangesAreTold'
<1> USE ServersAssumption
<1> SUFFICES ASSUME Sure(s)' PROVE RemovalGoesOn(s)' /\ RowIsTold(s)'
  BY MovesKeep
<1>1. Sure(s) /\ GoesOn(s, q, u)
  BY DEF Moves, Untouched, Sure, Live
<1>2. RemovalGoesOn(s) /\ RowIsTold(s)
  BY <1>1 DEF ChangesAreTold
<1>3. WellFormed(q) /\ WellFormed(u)
  BY DEF IndInv, RequestsWellFormed, WellFormed, Making
<1>4. /\ q.srv # s => q.at = "idle"
      /\ u.srv # s => u.at = "idle"
  BY <1>3 DEF Moves, WellFormed
<1>5. RemovalKept(s, q, u)
  BY <1>1, <1>2, <1>4 DEF GoesOn, RemovalKept, Untouched, Removing
<1>6. RemovalGoesOn(s)'
  BY <1>2, <1>5, RemovalKeeps
<1>7. (Tells(q) => q.srv = s) /\ (Tells(u) => u.srv = s)
  BY <1>4 DEF Tells, Building, PowerTask
<1>8. ASSUME NEW p \in Others(r, s), NEW v \in RequestState, v = request[p]
      PROVE  ~(Tells(v) /\ u.srv = s /\ Tells(u)) /\ TellsRight(v)'
  <2>1. p \in Request /\ p # r /\ v.srv = s
    BY <1>8 DEF Others
  <2>2. TellsRight(v) /\ ~(Tells(v) /\ q.srv = s /\ Tells(q))
    BY <1>2, <1>8, <2>1 DEF RowIsTold
  <2>3. TellsRight(v)'
    BY <2>1, <2>2 DEF TellsRight, Untouched
  <2> QED
    BY <1>1, <1>7, <2>2, <2>3 DEF GoesOn
<1>9. ASSUME u.srv = s PROVE TellsRight(u)'
  <2>1. TellsRight(u)
    BY <1>1, SilentTellsRight DEF GoesOn
  <2> QED
    BY <1>9, <2>1 DEF TellsRight, Untouched
<1>10. \/ u.srv = s /\ Tells(u)
       \/ Settled(s)'
       \/ \E p \in Others(r, s) : Tells(request[p])
  <2>1. Settled(s) => Settled(s)'
    BY DEF Settled, Untouched
  <2>2. CASE Tells(q)
    BY <1>1, <1>7, <2>1, <2>2 DEF GoesOn
  <2>3. CASE ~Tells(q)
    <3>1. Settled(s) \/ \E p \in Request : request[p].srv = s /\ Tells(request[p])
      BY <1>2 DEF RowIsTold, Settled
    <3>2. \A p \in Request : request[p].srv = s /\ Tells(request[p]) => p \in Others(r, s)
      BY <2>3 DEF Others
    <3> QED
      BY <2>1, <3>1, <3>2
  <2> QED
    BY <2>2, <2>3
<1>11. \A p1, p2 \in Others(r, s) : p1 # p2 => ~(Tells(request[p1]) /\ Tells(request[p2]))
  BY <1>2 DEF RowIsTold, Others
<1>12. RowIsTold(s)'
  BY <1>8, <1>9, <1>10, <1>11, ToldKeeps
<1> QED
  BY <1>6, <1>12

\* A step that changes the request and nothing of any server.
LEMMA QuietMoves ==
  ASSUME IndInv, NEW r \in Request, request[r].at # "idle", NEW s \in Server, s = request[r].srv,
         NEW u \in RequestState, Become(r, u), u.srv = s \/ u = Idle,
         Calm \/ Blurs(r) \/ LeavesUnsure(r),
         \A t \in Server \ {s} : Untouched(t)
  PROVE  Moves(r, s) /\ u = request'[r]
<1>1. RequestMoves(r, u)
  BY BecomeMoves DEF IndInv
<1>2. Idle.srv = NoServer
  BY Idles
<1>3. blurred \subseteq blurred' /\ unsure \subseteq unsure'
  BY DEF Calm, Blurs, LeavesUnsure
<1> QED
  BY <1>1, <1>2, <1>3 DEF Moves, RequestMoves

\* A step that leaves the server in doubt, or whose server has no row.
LEMMA DoubtKeeps ==
  ASSUME IndInv, IndInv', ChangesAreTold, NEW r \in Request, NEW s \in Server,
         Moves(r, s), ~Live(s)' \/ s \in blurred' \cup unsure'
  PROVE  ChangesAreTold'
BY DoubtTold, MovesKeep DEF Told

\* What is known of a server that is sure and of a request on it.
LEMMA SureKnown ==
  ASSUME ChangesAreTold, NEW r \in Request, NEW s \in Server, Sure(s)
  PROVE  /\ RemovalGoesOn(s) /\ RowIsTold(s)
         /\ \A q \in RequestState : q = request[r] /\ q.srv = s => TellsRight(q)
<1>1. RemovalGoesOn(s) /\ RowIsTold(s)
  BY DEF ChangesAreTold
<1> QED
  BY <1>1 DEF RowIsTold

LEMMA StayTold ==
  ASSUME IndInv, IndInv', ChangesAreTold, NEW r \in Request, request[r].at # "idle",
         NEW s \in Server, s = request[r].srv,
         NEW u \in RequestState, Become(r, u), u.srv = s \/ u = Idle,
         Calm \/ Blurs(r) \/ LeavesUnsure(r), UNCHANGED <<row, nic, nova, port>>,
         \/ Blurs(r) \/ LeavesUnsure(r)
         \/ Sure(s) => GoesOn(s, request[r], u)
  PROVE  ChangesAreTold'
<1>1. \A t \in Server : Untouched(t)
  BY DEF Untouched
<1>2. Moves(r, s) /\ u = request'[r]
  BY <1>1, QuietMoves
<1>3. request[r] \in RequestState
  BY DEF IndInv, TypeOK
<1>4. CASE Blurs(r) \/ LeavesUnsure(r)
  BY <1>2, <1>4, DoubtKeeps DEF Blurs, LeavesUnsure
<1>5. CASE Sure(s) => GoesOn(s, request[r], u)
  BY <1>1, <1>2, <1>3, <1>5, QuietTold
<1> QED
  BY <1>4, <1>5

LEMMA FinishTold ==
  ASSUME IndInv, IndInv', ChangesAreTold, NEW r \in Request, request[r].at # "idle",
         NEW s \in Server, s = request[r].srv, Finish(r),
         Calm \/ Blurs(r) \/ LeavesUnsure(r), UNCHANGED <<row, nic, nova, port>>,
         \/ Blurs(r) \/ LeavesUnsure(r)
         \/ Sure(s) => \/ Tells(request[r]) /\ Settled(s)
                       \/ ~Tells(request[r]) /\ request[r].at \notin Removing
  PROVE  ChangesAreTold'
<1>1. Idle \in RequestState /\ ~Tells(Idle)
  BY Idles DEF Tells, PowerTask
<1>2. Tells(request[r]) => request[r].at \notin Removing
  BY DEF Tells, Building, PowerTask, Removing
<1>3. Sure(s) /\ request[r].at \notin Removing /\ (Tells(request[r]) => Settled(s))
        => GoesOn(s, request[r], Idle)
  BY <1>1 DEF GoesOn, Removing
<1>4. Become(r, Idle)
  BY DEF Finish
<1> QED
  BY <1>1, <1>2, <1>3, <1>4, StayTold

LEMMA StartTold ==
  ASSUME IndInv, IndInv', ChangesAreTold, NEW r \in Request, NEW s \in Server,
         NEW state \in RequestState, Start(r, state), state.srv = s,
         state.at \in {"create_port", "nova_start", "nova_stop", "nova_delete"},
         Calm, UNCHANGED <<tables, openstack>>
  PROVE  ChangesAreTold'
<1>1. PICK u \in RequestState : RequestMoves(r, u) /\ u.at = state.at /\ u.srv = s
  BY StartMoves DEF IndInv
<1>2. request[r] \in RequestState /\ request[r] = Idle
  BY DEF IndInv, TypeOK, RequestsWellFormed, WellFormed, Start
<1>3. \A t \in Server : Untouched(t)
  BY DEF Untouched, tables, openstack
<1>4. Moves(r, s) /\ u = request'[r]
  BY <1>1, <1>2, <1>3, Idles DEF Moves, RequestMoves, Calm
<1>5. GoesOn(s, request[r], u)
  BY <1>1, <1>2, Idles DEF GoesOn, Removing, Tells, Building, PowerTask
<1> QED
  BY <1>2, <1>3, <1>4, <1>5, QuietTold

---------------------------------------------------------------------------
(* The actions that write nothing of their server.                         *)

LEMMA BeginTold ==
  ASSUME IndInv, IndInv', ChangesAreTold, NEW r \in Request, Begin(r)
  PROVE  ChangesAreTold'
<1> USE ServersAssumption
<1>1. PICK s \in Server :
        CreateServer(r, s) \/ StartServer(r, s) \/ StopServer(r, s) \/ DeleteServer(r, s)
  BY DEF Begin
<1>2. ASSUME NEW state,
             NEW l \in {"create_port", "nova_start", "nova_stop", "nova_delete"},
             NEW b \in BOOLEAN,
             \/ state = [Idle EXCEPT !.at = l, !.srv = s]
             \/ state = [Idle EXCEPT !.at = l, !.srv = s, !.answer = b]
      PROVE  state \in RequestState /\ state.at = l /\ state.srv = s
  <2>1. CASE state = [Idle EXCEPT !.at = l, !.srv = s]
    BY <2>1, Idles DEF RequestState, Location
  <2>2. CASE state = [Idle EXCEPT !.at = l, !.srv = s, !.answer = b]
    BY <2>2, Idles DEF RequestState, Location
  <2> QED
    BY <1>2, <2>1, <2>2
<1>3. CASE CreateServer(r, s)
  BY <1>2, <1>3, StartTold DEF CreateServer
<1>4. CASE StartServer(r, s)
  BY <1>2, <1>4, StartTold DEF StartServer
<1>5. CASE StopServer(r, s)
  BY <1>2, <1>5, StartTold DEF StopServer
<1>6. CASE DeleteServer(r, s)
  <2>1. PICK b \in BOOLEAN : b = RootInAnswer(s)
    BY DEF IndInv, TypeOK, RootRow, RootInAnswer
  <2>2. PICK state : state = [Idle EXCEPT !.at = "nova_delete", !.srv = s, !.answer = b]
    OBVIOUS
  <2>3. state \in RequestState /\ state.at = "nova_delete" /\ state.srv = s
    BY <1>2, <2>2
  <2> QED
    BY <1>6, <2>1, <2>2, <2>3, StartTold DEF DeleteServer
<1> QED
  BY <1>1, <1>3, <1>4, <1>5, <1>6

LEMMA PollAgainTold ==
  ASSUME IndInv, IndInv', ChangesAreTold, NEW r \in Request, request[r].at # "idle",
         PollAgain(r), UNCHANGED <<tables, openstack>>
  PROVE  ChangesAreTold'
<1> USE ServersAssumption
<1>1. PICK q \in RequestState : q = request[r] /\ q.srv \in Server
  BY AtWork
<1>2. PICK u : u = [q EXCEPT !.polls = @ + 1]
  OBVIOUS
<1>3. Become(r, u) /\ Calm
  BY <1>1, <1>2 DEF PollAgain
<1>4. u \in RequestState
  BY <1>1, <1>3 DEF IndInv, TypeOK, Become
<1>5. /\ u.at = q.at /\ u.srv = q.srv /\ u.seen = q.seen
      /\ u.loaded = q.loaded /\ u.nics = q.nics
  BY <1>2 DEF RequestState
<1>6. Sure(q.srv) => TellsRight(q)
  BY <1>1, SureKnown
<1>7. Sure(q.srv) => GoesOn(q.srv, q, u)
  <2>1. (Tells(u) <=> Tells(q)) /\ (TellsRight(q) => TellsRight(u))
    BY <1>5 DEF Tells, Building, PowerTask, TellsRight
  <2> QED
    BY <1>5, <1>6, <2>1 DEF GoesOn
<1> QED
  BY <1>1, <1>3, <1>4, <1>5, <1>7, StayTold DEF tables, openstack

LEMMA LoadLiveTold ==
  ASSUME IndInv, IndInv', ChangesAreTold, NEW r \in Request, NEW from, NEW to,
         LoadLive(r, from, to),
         <<from, to>> \in {<<"build_load", "build_save">>, <<"start_load", "start_save">>,
                           <<"stop_load", "stop_save">>, <<"gone_load", "gone_poll">>}
  PROVE  ChangesAreTold'
<1>1. request[r].at = from /\ request[r].at # "idle" /\ Calm /\ UNCHANGED <<tables, openstack>>
  BY DEF LoadLive
<1>2. PICK q \in RequestState : q = request[r] /\ q.srv \in Server
  BY <1>1, AtWork
<1>3. CASE Live(q.srv) /\ Become(r, [q EXCEPT !.at = to, !.loaded = row[q.srv].status])
  <2>1. PICK u : u = [q EXCEPT !.at = to, !.loaded = row[q.srv].status]
    OBVIOUS
  <2>2. u \in RequestState
    BY <1>2, <1>3, <2>1 DEF IndInv, TypeOK, Become
  <2>3. /\ u.at = to /\ u.srv = q.srv /\ u.seen = q.seen
        /\ u.loaded = row[q.srv].status /\ u.nics = q.nics
    BY <2>1 DEF RequestState
  <2>4. Sure(q.srv) => TellsRight(q)
    BY <1>2, SureKnown
  <2>5. Sure(q.srv) => GoesOn(q.srv, q, u)
    <3>1. (Tells(u) <=> Tells(q)) /\ (TellsRight(q) => TellsRight(u))
      BY <1>1, <1>2, <2>3 DEF Tells, Building, PowerTask, TellsRight
    <3> QED
      BY <1>1, <1>2, <2>3, <2>4, <3>1 DEF GoesOn, Removing
  <2> QED
    BY <1>1, <1>2, <1>3, <2>1, <2>2, <2>3, <2>5, StayTold DEF tables, openstack
<1>4. CASE ~Live(q.srv) /\ Finish(r)
  BY <1>1, <1>2, <1>4, FinishTold DEF Sure, tables, openstack
<1> QED
  BY <1>2, <1>3, <1>4 DEF LoadLive

LEMMA PollBuildTold ==
  ASSUME IndInv, IndInv', ChangesAreTold, NEW r \in Request, PollBuild(r)
  PROVE  ChangesAreTold'
<1>1. request[r].at = "build_poll" /\ request[r].at # "idle" /\ UNCHANGED <<tables, openstack>>
  BY DEF PollBuild
<1>2. PICK q \in RequestState : q = request[r] /\ q.srv \in Server
  BY <1>1, AtWork
<1>3. CASE PollAgain(r)
  BY <1>1, <1>3, PollAgainTold
<1>4. Sure(q.srv) => TellsRight(q)
  BY <1>2, SureKnown
<1>5. ASSUME NEW x, Become(r, [q EXCEPT !.at = "build_load", !.seen = x]),
             \/ LeavesUnsure(r)
             \/ Calm /\ x = nova[q.srv].status /\ x \notin {"BUILD", "GONE"}
      PROVE  ChangesAreTold'
  <2>1. PICK u : u = [q EXCEPT !.at = "build_load", !.seen = x]
    OBVIOUS
  <2>2. u \in RequestState
    BY <1>2, <1>5, <2>1 DEF IndInv, TypeOK, Become
  <2>3. u.at = "build_load" /\ u.srv = q.srv /\ u.seen = x
    BY <2>1 DEF RequestState
  <2>4. Calm /\ Sure(q.srv) => GoesOn(q.srv, q, u)
    <3> SUFFICES ASSUME Calm, Sure(q.srv) PROVE GoesOn(q.srv, q, u)
      OBVIOUS
    <3>1. LeavesUnsure(r) => q.srv \in unsure'
      BY <1>2 DEF LeavesUnsure
    <3>2. x = nova[q.srv].status /\ x \notin {"BUILD", "GONE"}
      BY <1>5, <3>1 DEF Calm, Sure
    <3>3. TellsRight(u)
      BY <1>1, <1>2, <1>4, <2>3, <3>2 DEF TellsRight, Turning
    <3> QED
      BY <1>1, <1>2, <2>3, <3>3 DEF GoesOn, Tells, Building, Removing
  <2> QED
    BY <1>1, <1>2, <1>5, <2>1, <2>2, <2>3, <2>4, StayTold DEF tables, openstack
<1>6. CASE nova[q.srv].status = "GONE" /\ Finish(r) /\ Calm
  BY <1>1, <1>2, <1>6, FinishTold DEF Settled, Tells, Building, tables, openstack
<1> QED
  BY <1>2, <1>3, <1>5, <1>6 DEF PollBuild, FromBuildTimeout

LEMMA PollPowerTold ==
  ASSUME IndInv, IndInv', ChangesAreTold, NEW r \in Request,
         NEW from, NEW pending, NEW wanted, NEW to, PollPower(r, from, pending, wanted, to),
         \/ from = "start_poll" /\ to = "start_load" /\ wanted = "ACTIVE"
         \/ from = "stop_poll" /\ to = "stop_load" /\ wanted = "SHUTOFF"
  PROVE  ChangesAreTold'
<1>1. request[r].at = from /\ request[r].at # "idle" /\ UNCHANGED <<tables, openstack>>
  BY DEF PollPower
<1>2. PICK q \in RequestState : q = request[r] /\ q.srv \in Server
  BY <1>1, AtWork
<1>3. CASE PollAgain(r)
  BY <1>1, <1>3, PollAgainTold
<1>4. CASE Finish(r) /\ (LeavesUnsure(r) \/ (nova[q.srv].status = "GONE" /\ Calm))
  BY <1>1, <1>2, <1>4, FinishTold DEF Settled, Tells, PowerTask, tables, openstack
<1>5. CASE nova[q.srv].status = wanted /\ Await(r, to) /\ Calm
  <2>1. PICK u : u = [q EXCEPT !.at = to]
    OBVIOUS
  <2>2. Become(r, u)
    BY <1>2, <1>5, <2>1 DEF Await
  <2>3. u \in RequestState
    BY <1>2, <2>2 DEF IndInv, TypeOK, Become
  <2>4. u.at = to /\ u.srv = q.srv
    BY <2>1 DEF RequestState
  <2>5. Sure(q.srv) => GoesOn(q.srv, q, u)
    <3> SUFFICES ASSUME Sure(q.srv) PROVE GoesOn(q.srv, q, u)
      OBVIOUS
    <3>1. TellsRight(q)
      BY <1>2, SureKnown
    <3>2. TellsRight(u)
      BY <1>1, <1>2, <1>5, <2>4, <3>1 DEF TellsRight, Turning
    <3> QED
      BY <1>1, <1>2, <2>4, <3>2 DEF GoesOn, Tells, PowerTask, Removing
  <2> QED
    BY <1>1, <1>2, <1>5, <2>2, <2>3, <2>4, <2>5, StayTold DEF tables, openstack
<1> QED
  BY <1>2, <1>3, <1>4, <1>5 DEF PollPower

LEMMA LoadResourcesTold ==
  ASSUME IndInv, IndInv', ChangesAreTold, NEW r \in Request, LoadResources(r)
  PROVE  ChangesAreTold'
<1>1. /\ request[r].at = "remove_load" /\ request[r].at # "idle"
      /\ Calm /\ UNCHANGED <<tables, openstack>>
  BY DEF LoadResources
<1>2. PICK q \in RequestState : q = request[r] /\ q.srv \in Server
  BY <1>1, AtWork
<1>3. PICK b \in BOOLEAN : b = (nic[q.srv] = "live")
  OBVIOUS
<1>4. CASE Become(r, [q EXCEPT !.at = "remove_ports", !.nics = b, !.root = root[q.srv].linked])
  <2>1. PICK u : u = [q EXCEPT !.at = "remove_ports", !.nics = b, !.root = root[q.srv].linked]
    OBVIOUS
  <2>2. u \in RequestState
    BY <1>2, <1>4, <2>1 DEF IndInv, TypeOK, Become
  <2>3. u.at = "remove_ports" /\ u.srv = q.srv
    BY <2>1 DEF RequestState
  <2>4. GoesOn(q.srv, q, u)
    BY <1>1, <1>2, <2>3 DEF GoesOn, Tells, Building, PowerTask, Removing
  <2> QED
    BY <1>1, <1>2, <1>4, <2>1, <2>2, <2>3, <2>4, StayTold DEF tables, openstack
<1>5. CASE ~Live(q.srv) /\ Finish(r)
  BY <1>1, <1>2, <1>5, FinishTold DEF Sure, tables, openstack
<1> QED
  BY <1>2, <1>3, <1>4, <1>5 DEF LoadResources

LEMMA PollServerGoneTold ==
  ASSUME IndInv, IndInv', ChangesAreTold, NEW r \in Request, PollServerGone(r)
  PROVE  ChangesAreTold'
<1>1. request[r].at = "gone_poll" /\ request[r].at # "idle" /\ UNCHANGED <<tables, openstack>>
  BY DEF PollServerGone
<1>2. PICK q \in RequestState : q = request[r] /\ q.srv \in Server
  BY <1>1, AtWork
<1>3. CASE PollAgain(r)
  BY <1>1, <1>3, PollAgainTold
<1>4. CASE Finish(r) /\ LeavesUnsure(r)
  BY <1>1, <1>2, <1>4, FinishTold DEF tables, openstack
<1>5. CASE Become(r, [q EXCEPT !.at = "gone_save", !.polls = 0]) /\ Calm
  <2>1. PICK u : u = [q EXCEPT !.at = "gone_save", !.polls = 0]
    OBVIOUS
  <2>2. u \in RequestState
    BY <1>2, <1>5, <2>1 DEF IndInv, TypeOK, Become
  <2>3. u.at = "gone_save" /\ u.srv = q.srv
    BY <2>1 DEF RequestState
  <2>4. GoesOn(q.srv, q, u)
    BY <1>1, <1>2, <2>3 DEF GoesOn, Tells, Building, PowerTask, Removing
  <2> QED
    BY <1>1, <1>2, <1>5, <2>1, <2>2, <2>3, <2>4, StayTold DEF tables, openstack
<1> QED
  BY <1>2, <1>3, <1>4, <1>5 DEF PollServerGone

\* The task that waits for the root volume tells nothing and removes nothing.
LEMMA RootTaskTold ==
  ASSUME IndInv, IndInv', ChangesAreTold, NEW r \in Request,
         LoadRoot(r) \/ PollRootGone(r) \/ SaveRootGone(r)
  PROVE  ChangesAreTold'
<1>1. /\ request[r].at \in {"root_load", "root_poll", "root_save"} /\ request[r].at # "idle"
      /\ UNCHANGED <<row, nic, nova, port>> /\ (Calm \/ Blurs(r) \/ LeavesUnsure(r))
  BY DEF LoadRoot, PollRootGone, SaveRootGone, PollAgain, Dies, tables, openstack
<1>2. PICK q \in RequestState : q = request[r] /\ q.srv \in Server
  BY <1>1, AtWork
<1>3. ~Tells(q) /\ q.at \notin Removing
  BY <1>1, <1>2 DEF Tells, Building, PowerTask, Removing
<1>4. CASE PollAgain(r) /\ UNCHANGED <<tables, openstack>>
  BY <1>1, <1>4, PollAgainTold
<1>5. CASE Finish(r)
  BY <1>1, <1>2, <1>3, <1>5, FinishTold
<1>6. ASSUME NEW l \in {"root_poll", "root_save"}, Await(r, l)
      PROVE  ChangesAreTold'
  <2>1. PICK u : u = [q EXCEPT !.at = l]
    OBVIOUS
  <2>2. Become(r, u)
    BY <1>2, <1>6, <2>1 DEF Await
  <2>3. u \in RequestState
    BY <1>2, <2>2 DEF IndInv, TypeOK, Become
  <2>4. u.at = l /\ u.srv = q.srv
    BY <2>1 DEF RequestState
  <2>5. GoesOn(q.srv, q, u)
    BY <1>3, <2>4 DEF GoesOn, Tells, Building, PowerTask, Removing
  <2> QED
    BY <1>1, <1>2, <2>2, <2>3, <2>4, <2>5, StayTold
<1> QED
  BY <1>4, <1>5, <1>6 DEF LoadRoot, PollRootGone, SaveRootGone, Dies

LEMMA PollFailsTold ==
  ASSUME IndInv, IndInv', ChangesAreTold, NEW r \in Request, PollFails(r)
  PROVE  ChangesAreTold'
<1>1. /\ request[r].at # "idle" /\ UNCHANGED <<row, nic, nova, port>> /\ Blurs(r) /\ Finish(r)
  BY DEF PollFails, Dies, tables, openstack
<1> QED
  BY <1>1, AtWork, FinishTold

---------------------------------------------------------------------------
(* The actions that write something of their server.                       *)

\* A step of a request at work that writes something of its server only.
LEMMA WriteMoves ==
  ASSUME IndInv, NEW r \in Request, request[r].at # "idle", NEW s \in Server, s = request[r].srv,
         NEW u \in RequestState, Become(r, u), u.srv = s \/ u = Idle,
         Calm \/ Blurs(r) \/ LeavesUnsure(r),
         row' = row \/ (\E R : row' = [row EXCEPT ![s] = R]),
         nic' = nic \/ (\E N : nic' = [nic EXCEPT ![s] = N]),
         nova' = nova \/ (\E V : nova' = [nova EXCEPT ![s] = V]),
         port' = port \/ (\E P : port' = [port EXCEPT ![s] = P])
  PROVE  Moves(r, s) /\ u = request'[r]
<1>1. \A t \in Server \ {s} : Untouched(t)
  BY DEF IndInv, TypeOK, Untouched
<1> QED
  BY <1>1, QuietMoves

\* What such a step has to show of the row.
LEMMA StepTells ==
  ASSUME IndInv, IndInv', ChangesAreTold, NEW r \in Request, NEW s \in Server, Sure(s),
         NEW q \in RequestState, NEW u \in RequestState, q = request[r], u = request'[r],
         Moves(r, s), u.srv = s => TellsRight(u)',
         Tells(u) \/ Settled(s)' \/ (~Tells(q) /\ ~Settled(s)),
         \A p \in Others(r, s), v \in RequestState :
           v = request[p] /\ v.srv = s /\ Tells(v) /\ TellsRight(v) /\ ~Tells(q)
             => ~Tells(u) /\ TellsRight(v)'
  PROVE  RowIsTold(s)'
<1> USE ServersAssumption
<1>1. RowIsTold(s)
  BY DEF ChangesAreTold
<1>2. WellFormed(q) /\ WellFormed(u)
  BY DEF IndInv, RequestsWellFormed, WellFormed, Making
<1>3. (Tells(q) => q.srv = s) /\ (Tells(u) => u.srv = s)
  BY <1>2 DEF Moves, WellFormed, Tells, Building, PowerTask
<1>4. ASSUME NEW p \in Others(r, s), NEW v \in RequestState, v = request[p]
      PROVE  ~(Tells(v) /\ u.srv = s /\ Tells(u)) /\ TellsRight(v)'
  <2>1. p \in Request /\ p # r /\ v.srv = s
    BY <1>4 DEF Others
  <2>2. TellsRight(v) /\ ~(Tells(v) /\ Tells(q))
    BY <1>1, <1>3, <1>4, <2>1 DEF RowIsTold
  <2>3. CASE Tells(v)
    BY <1>4, <2>1, <2>2, <2>3
  <2>4. CASE ~Tells(v)
    BY <2>4 DEF TellsRight, Tells, Building, PowerTask
  <2> QED
    BY <2>3, <2>4
<1>5. \/ u.srv = s /\ Tells(u)
      \/ Settled(s)'
      \/ \E p \in Others(r, s) : Tells(request[p])
  <2>1. CASE ~Tells(q) /\ ~Settled(s)
    <3>1. \E p \in Request : request[p].srv = s /\ Tells(request[p])
      BY <1>1, <2>1 DEF RowIsTold, Settled
    <3>2. \A p \in Request : request[p].srv = s /\ Tells(request[p]) => p \in Others(r, s)
      BY <2>1 DEF Others
    <3> QED
      BY <3>1, <3>2
  <2> QED
    BY <1>3, <2>1
<1>6. \A p1, p2 \in Others(r, s) : p1 # p2 => ~(Tells(request[p1]) /\ Tells(request[p2]))
  BY <1>1 DEF RowIsTold, Others
<1> QED
  BY <1>4, <1>5, <1>6, ToldKeeps

\* Until the row is there nothing has to be told.
LEMMA MakerTold ==
  ASSUME IndInv, IndInv', ChangesAreTold, NEW r \in Request,
         CreatePort(r) \/ CreateInNova(r) \/ Undo(r)
  PROVE  ChangesAreTold'
<1>1. /\ request[r].at \in {"create_port", "create_nova", "rollback"}
      /\ request[r].at # "idle" /\ Making(request[r]) /\ UNCHANGED tables
      /\ Calm \/ Blurs(r) \/ LeavesUnsure(r)
  BY DEF CreatePort, CreateInNova, Undo, Answered, Making
<1>2. PICK q \in RequestState : q = request[r] /\ q.srv \in Server
  BY <1>1, AtWork
<1>3. row[q.srv].life = "absent"
  BY <1>1, <1>2, AtWork DEF Knows, MakerKnows
<1>4. \E u : Become(r, u) /\ (u.srv = q.srv \/ u = Idle)
  <2>1. ASSUME NEW u, NEW l, NEW x,
               u = [q EXCEPT !.at = l] \/ u = [q EXCEPT !.tasks = x]
                 \/ u = [q EXCEPT !.at = l, !.tasks = x]
        PROVE  u.srv = q.srv
    BY <2>1 DEF RequestState
  <2>2. CASE CreatePort(r)
    BY <1>2, <2>1, <2>2 DEF CreatePort, Answered, Raise, Finish, Await
  <2>3. CASE CreateInNova(r)
    BY <1>2, <2>1, <2>3 DEF CreateInNova, Answered, Raise, Finish, Await
  <2>4. CASE Undo(r)
    <3>1. CASE WithoutLatest(q.tasks) = <<>>
      BY <1>2, <2>4, <3>1 DEF Undo
    <3>2. CASE WithoutLatest(q.tasks) # <<>>
      <4>1. PICK u : u = [q EXCEPT !.tasks = WithoutLatest(q.tasks)]
        OBVIOUS
      <4> QED
        BY <1>2, <2>1, <2>4, <3>2, <4>1 DEF Undo
    <3> QED
      BY <3>1, <3>2
  <2> QED
    BY <1>1, <2>2, <2>3, <2>4
<1>5. PICK u \in RequestState : Become(r, u) /\ (u.srv = q.srv \/ u = Idle)
  BY ZenonT(40), <1>4 DEF IndInv, TypeOK, Become
<1>6. /\ port' = port \/ \E P : port' = [port EXCEPT ![q.srv] = P]
      /\ nova' = nova \/ \E V : nova' = [nova EXCEPT ![q.srv] = V]
  <2>1. CASE CreatePort(r)
    BY <1>2, <2>1 DEF CreatePort
  <2>2. CASE CreateInNova(r)
    BY <1>2, <2>2 DEF CreateInNova
  <2>3. CASE Undo(r)
    <3>1. CASE LatestTask(q.tasks) = "delete_server"
      BY <1>2, <2>3, <3>1 DEF Undo
    <3>2. CASE LatestTask(q.tasks) # "delete_server"
      BY <1>2, <2>3, <3>2 DEF Undo
    <3> QED
      BY <3>1, <3>2
  <2> QED
    BY <1>1, <2>1, <2>2, <2>3
<1>7. Moves(r, q.srv)
  BY <1>1, <1>2, <1>5, <1>6, WriteMoves DEF tables
<1> QED
  BY <1>1, <1>2, <1>3, <1>7, DoubtKeeps DEF Live, tables

\* The row appears together with the task that finalizes it.
LEMMA InsertTold ==
  ASSUME IndInv, IndInv', ChangesAreTold, NEW r \in Request, InsertServer(r)
  PROVE  ChangesAreTold'
<1>1. request[r].at = "insert" /\ request[r].at # "idle" /\ Making(request[r]) /\ Calm
      /\ UNCHANGED openstack
  BY DEF InsertServer, Making
<1>2. PICK q \in RequestState : q = request[r] /\ q.srv \in Server
  BY <1>1, AtWork
<1>3. PICK s \in Server : s = q.srv
  BY <1>2
<1>4. /\ TypeOK /\ WellFormed(q) /\ MakerKnows(q) /\ q.tasks = PortAndServer
      /\ row[s].life = "absent" /\ port[s] = "EXISTS" /\ nic[s] = "absent"
      /\ nova[s].status \in {"BUILD", "ACTIVE", "ERROR"} /\ nova[s].task = "none"
      /\ ServerFits(s)
  BY <1>1, <1>2, <1>3, AtWork DEF Knows, WellFormed, MakerKnows, ServerFits
<1>5. CASE /\ row' = [row EXCEPT ![s] = [life |-> "live", status |-> "BUILD"]]
           /\ nic' = [nic EXCEPT ![s] = "live"]
           /\ Become(r, [q EXCEPT !.at = "build_poll", !.tasks = <<>>])
  <2>1. PICK u : u = [q EXCEPT !.at = "build_poll", !.tasks = <<>>]
    OBVIOUS
  <2>2. u \in RequestState
    BY <1>2, <1>5, <2>1 DEF IndInv, TypeOK, Become
  <2>3. u.at = "build_poll" /\ u.srv = s
    BY <1>3, <2>1 DEF RequestState
  <2>4. Moves(r, s) /\ u = request'[r]
    BY <1>1, <1>2, <1>3, <1>5, <2>1, <2>2, <2>3, WriteMoves DEF openstack
  <2>5. Others(r, s) = {}
    BY <1>1, <1>2, <1>3, NoOthers
  <2>6. nova'[s] = nova[s] /\ port'[s] = "EXISTS" /\ nic'[s] = "live"
    BY <1>1, <1>4, <1>5 DEF TypeOK, openstack
  <2>7. RemovalGoesOn(s)'
    BY <1>4, <2>6 DEF RemovalGoesOn
  <2>8. TellsRight(u)'
    BY <1>4, <2>3, <2>6 DEF TellsRight
  <2>9. Tells(u)
    BY <2>3 DEF Tells, Building
  <2>10. q \in RequestState /\ q = request[r]
    BY <1>2
  <2>11. \A p \in Others(r, s), v \in RequestState :
           v = request[p] => ~(Tells(v) /\ u.srv = s /\ Tells(u)) /\ TellsRight(v)'
    BY <2>5
  <2>12. \A p1, p2 \in Others(r, s) : p1 # p2 => ~(Tells(request[p1]) /\ Tells(request[p2]))
    BY <2>5
  <2>13. RowIsTold(s)'
    BY <2>2, <2>3, <2>4, <2>8, <2>9, <2>10, <2>11, <2>12, ToldKeeps
  <2> QED
    BY <2>4, <2>7, <2>13, MovesKeep
<1>6. CASE Raise(r) /\ UNCHANGED <<row, nic>>
  <2>1. PICK u : u = [q EXCEPT !.at = "rollback"]
    OBVIOUS
  <2>2. Become(r, u)
    BY <1>2, <1>4, <1>6, <2>1, TaskLists DEF Raise, Await
  <2>3. u \in RequestState
    BY <1>2, <2>2 DEF IndInv, TypeOK, Become
  <2>4. u.srv = s
    BY <1>3, <2>1 DEF RequestState
  <2>5. Moves(r, s)
    BY <1>1, <1>2, <1>3, <1>6, <2>2, <2>3, <2>4, WriteMoves DEF openstack
  <2> QED
    BY <1>4, <1>6, <2>5, DoubtKeeps DEF Live
<1> QED
  BY <1>2, <1>3, <1>5, <1>6 DEF InsertServer

\* The commit that ends the task of a request writes what Nova shows.
LEMMA CommitTold ==
  ASSUME IndInv, IndInv', ChangesAreTold, NEW r \in Request, request[r].at # "idle",
         NEW s \in Server, s = request[r].srv, Tells(request[r]), NEW status,
         Finish(r), Calm, row' = WithStatus(r, status), UNCHANGED <<nic, nova, port>>,
         Sure(s) =>
           /\ status # "BUILD" /\ request[r].loaded = row[s].status
           /\ \/ nova[s].status = "GONE"
              \/ nova[s].status = status /\ nova[s].task \in {"none", "deleting"}
  PROVE  ChangesAreTold'
<1>1. TypeOK /\ request[r] \in RequestState /\ Idle \in RequestState /\ Become(r, Idle)
  BY AtWork, Idles DEF Finish
<1>2. row' = row \/ row' = [row EXCEPT ![s].status = status]
  BY CommitWrites
<1>3. Moves(r, s) /\ request'[r] = Idle
  BY <1>1, <1>2, WriteMoves
<1>4. Sure(s)' => Sure(s)
  BY <1>1, <1>2 DEF Sure, Live, Calm, TypeOK, Row
<1> SUFFICES ASSUME Sure(s) PROVE RemovalGoesOn(s)' /\ RowIsTold(s)'
  BY <1>3, <1>4, MovesKeep
<1>5. row'[s].status = status
  <2>1. CASE row' = [row EXCEPT ![s].status = status]
    BY <1>1, <2>1 DEF TypeOK, Row
  <2>2. CASE row' = row /\ status = request[r].loaded
    BY <2>2
  <2> QED
    BY <2>1, <2>2, CommitWrites
<1>6. Settled(s)'
  BY <1>5 DEF Settled
<1>7. request[r].at \notin Removing
  BY DEF Tells, Building, PowerTask, Removing
<1>8. RemovalKept(s, request[r], Idle)
  BY <1>7 DEF RemovalKept, Removing
<1>9. RemovalGoesOn(s)
  BY SureKnown
<1>10. RemovalGoesOn(s)'
  BY <1>3, <1>8, <1>9, RemovalKeeps
<1>11. RowIsTold(s)'
  BY <1>1, <1>3, <1>6, Idles, StepTells, ServersAssumption
<1> QED
  BY <1>10, <1>11

LEMMA SaveBuiltTold ==
  ASSUME IndInv, IndInv', ChangesAreTold, NEW r \in Request, SaveBuilt(r)
  PROVE  ChangesAreTold'
<1>1. /\ request[r].at = "build_save" /\ request[r].at # "idle" /\ Tells(request[r])
      /\ UNCHANGED <<nic, nova, port>>
  BY DEF SaveBuilt, Tells, Building, openstack
<1>2. PICK q \in RequestState : q = request[r] /\ q.srv \in Server
  BY <1>1, AtWork
<1>3. PICK s \in Server : s = q.srv
  BY <1>2
<1>4. PICK status : status = IF q.seen = "ACTIVE" THEN "ACTIVE" ELSE "ERROR"
  OBVIOUS
<1>5. CASE row' = WithStatus(r, status) /\ Finish(r) /\ Calm
  <2>1. ASSUME Sure(s)
        PROVE  /\ status # "BUILD" /\ q.loaded = row[s].status
               /\ \/ nova[s].status = "GONE"
                  \/ nova[s].status = status /\ nova[s].task \in {"none", "deleting"}
    <3>1. TellsRight(q)
      BY <1>2, <1>3, <2>1, SureKnown
    <3>2. q.loaded = "BUILD" /\ row[s].status = "BUILD"
      BY <1>1, <1>2, <1>3, <2>1, AtWork
      DEF Knows, Making, UserKnows, StatusAllows, Building, Sure, Live
    <3> QED
      BY <1>1, <1>2, <1>3, <1>4, <3>1, <3>2 DEF TellsRight, Turning
  <2> QED
    BY <1>1, <1>2, <1>3, <1>5, <2>1, CommitTold
<1>6. CASE Dies(r, "database") /\ row' = row
  BY <1>1, <1>2, <1>6, FinishTold DEF Dies
<1> QED
  BY <1>2, <1>4, <1>5, <1>6 DEF SaveBuilt

LEMMA SavePowerTold ==
  ASSUME IndInv, IndInv', ChangesAreTold, NEW r \in Request,
         NEW from, NEW status, SavePower(r, from, status),
         \/ from = "start_save" /\ status = "ACTIVE"
         \/ from = "stop_save" /\ status = "SHUTOFF"
  PROVE  ChangesAreTold'
<1>1. /\ request[r].at = from /\ request[r].at # "idle" /\ Tells(request[r])
      /\ UNCHANGED <<nic, nova, port>>
  BY DEF SavePower, Tells, PowerTask, openstack
<1>2. PICK q \in RequestState : q = request[r] /\ q.srv \in Server
  BY <1>1, AtWork
<1>3. CASE row' = WithStatus(r, status) /\ Finish(r) /\ Calm
  <2>1. ASSUME Sure(q.srv)
        PROVE  /\ status # "BUILD" /\ q.loaded = row[q.srv].status
               /\ \/ nova[q.srv].status = "GONE"
                  \/ nova[q.srv].status = status /\ nova[q.srv].task \in {"none", "deleting"}
    <3>1. TellsRight(q)
      BY <1>2, <2>1, SureKnown
    <3> QED
      BY <1>1, <1>2, <3>1 DEF TellsRight, Turning
  <2> QED
    BY <1>1, <1>2, <1>3, <2>1, CommitTold
<1>4. CASE Dies(r, "database") /\ row' = row
  BY <1>1, <1>2, <1>4, FinishTold DEF Dies
<1> QED
  BY <1>3, <1>4 DEF SavePower

\* Nova takes a request for a server, which keeps its status.
LEMMA TaskTold ==
  ASSUME IndInv, IndInv', ChangesAreTold, NEW r \in Request, request[r].at # "idle",
         NEW s \in Server, s = request[r].srv,
         NEW task, nova' = [nova EXCEPT ![s].task = task], UNCHANGED <<tables, port>>,
         NEW u \in RequestState, Become(r, u), u.srv = s, Calm,
         request[r].at \notin Removing, ~Tells(request[r]),
         task = "deleting" => u.at \in Removing,
         Sure(s) =>
           /\ TellsRight(u)'
           /\ Settled(s) => Tells(u) \/ Settled(s)'
           /\ \A p \in Others(r, s), v \in RequestState :
                v = request[p] /\ v.srv = s /\ Tells(v) /\ TellsRight(v)
                  => ~Tells(u) /\ TellsRight(v)'
  PROVE  ChangesAreTold'
<1>1. TypeOK /\ request[r] \in RequestState
  BY AtWork
<1>2. \E V : nova' = [nova EXCEPT ![s] = V]
  OBVIOUS
<1>3. Moves(r, s) /\ request'[r] = u
  BY <1>2, WriteMoves DEF tables
<1>4. Sure(s)' => Sure(s)
  BY DEF Sure, Live, Calm, tables
<1> SUFFICES ASSUME Sure(s) PROVE RemovalGoesOn(s)' /\ RowIsTold(s)'
  BY <1>3, <1>4, MovesKeep
<1>5. nova'[s].status = nova[s].status /\ nova'[s].task = task
      /\ port'[s] = port[s] /\ nic'[s] = nic[s]
  BY <1>1 DEF TypeOK, NovaServer, tables
<1>6. RemovalKept(s, request[r], u)
  BY <1>5 DEF RemovalKept, Removing
<1>7. RemovalGoesOn(s)
  BY SureKnown
<1>8. RemovalGoesOn(s)'
  BY <1>1, <1>3, <1>6, <1>7, RemovalKeeps
<1>9. RowIsTold(s)'
  BY <1>1, <1>3, StepTells
<1> QED
  BY <1>8, <1>9

\* A start or stop that Nova takes, and no other is under way: the row shows
\* the status that Nova has, since nobody else is about to tell another.
LEMMA PowerCallTold ==
  ASSUME IndInv, IndInv', ChangesAreTold, NEW r \in Request,
         NEW from, NEW statuses, NEW task, NEW to, PowerCall(r, from, statuses, task, to),
         \/ /\ from = "nova_start" /\ statuses = {"SHUTOFF"}
            /\ task = "starting" /\ to = "start_poll"
         \/ /\ from = "nova_stop" /\ statuses = {"ACTIVE", "ERROR"}
            /\ task = "stopping" /\ to = "stop_poll"
  PROVE  ChangesAreTold'
<1>1. request[r].at = from /\ request[r].at # "idle" /\ UNCHANGED <<tables, port>>
  BY DEF PowerCall
<1>2. PICK q \in RequestState : q = request[r] /\ q.srv \in Server
  BY <1>1, AtWork
<1>3. PICK s \in Server : s = q.srv
  BY <1>2
<1>4. TypeOK /\ UserKnows(q)
  BY <1>1, <1>2, AtWork DEF Knows, Making
<1>5. ~Tells(q) /\ q.at \notin Removing
  BY <1>1, <1>2 DEF Tells, Building, PowerTask, Removing
<1>6. CASE /\ nova[s].status \in statuses /\ nova[s].task = "none"
           /\ nova' = [nova EXCEPT ![s].task = task]
           /\ Become(r, Queued(q, to))
           /\ IF Crosses(r) THEN LeavesUnsure(r) ELSE Calm
  <2>1. PICK u : u = [q EXCEPT !.at = to]
    OBVIOUS
  <2>2. Become(r, u)
    BY <1>6, <2>1 DEF Queued
  <2>3. u \in RequestState
    BY <1>2, <2>2 DEF IndInv, TypeOK, Become
  <2>4. u.at = to /\ u.srv = s
    BY <1>3, <2>1 DEF RequestState
  <2>5. CASE Crosses(r)
    <3>1. LeavesUnsure(r) /\ \E V : nova' = [nova EXCEPT ![s] = V]
      BY <1>6, <2>5
    <3>2. Moves(r, s)
      BY <1>1, <1>2, <1>3, <2>2, <2>3, <2>4, <3>1, WriteMoves DEF tables
    <3> QED
      BY <1>2, <1>3, <3>1, <3>2, DoubtKeeps DEF LeavesUnsure
  <2>6. CASE ~Crosses(r)
    <3>1. Calm
      BY <1>6, <2>6
    <3>2. Tells(u)
      BY <2>4 DEF Tells, PowerTask
    <3>3. ASSUME Sure(s)
          PROVE  /\ TellsRight(u)'
                 /\ \A p \in Others(r, s), v \in RequestState :
                      v = request[p] /\ v.srv = s /\ Tells(v) => FALSE
      <4>1. row[s].status # "BUILD"
        BY <1>1, <1>2, <1>3, <1>4, <3>3
        DEF UserKnows, StatusAllows, Starting, Stopping, Sure, Live
      <4>2. ASSUME NEW p \in Others(r, s), Tells(request[p])
            PROVE  FALSE
        <5>1. p \in Request /\ p # r /\ request[p].srv = s
          BY DEF Others
        <5>2. request[p].at \notin PowerTask
          BY <1>2, <1>3, <2>6, <5>1 DEF Crosses
        <5>3. UserKnows(request[p])
          BY <1>2, <1>3, OthersKnow
        <5> QED
          BY <3>3, <4>1, <4>2, <5>1, <5>2, <5>3
          DEF UserKnows, StatusAllows, Tells, Sure, Live
      <4>3. Settled(s)
        <5>1. RowIsTold(s)
          BY <3>3, SureKnown
        <5>2. \A p \in Request : request[p].srv = s => ~Tells(request[p])
          BY <1>2, <1>5, <4>2 DEF Others
        <5> QED
          BY <5>1, <5>2 DEF RowIsTold, Settled
      <4>4. row[s].status = nova[s].status
        BY <1>6, <4>3 DEF Settled
      <4>5. nova'[s].status = nova[s].status /\ nova'[s].task = task /\ row'[s] = row[s]
        BY <1>1, <1>4, <1>6 DEF TypeOK, NovaServer, tables
      <4>6. TellsRight(u)'
        BY <1>6, <2>4, <4>4, <4>5 DEF TellsRight, Turning
      <4> QED
        BY <4>2, <4>6
    <3> QED
      BY <1>1, <1>2, <1>3, <1>5, <1>6, <2>2, <2>3, <2>4, <3>1, <3>2, <3>3, TaskTold
  <2> QED
    BY <2>5, <2>6
<1>7. CASE /\ nova' = [nova EXCEPT ![s].task = task]
           /\ Dies(r, "lost_answer")
  <2>1. Finish(r) /\ Blurs(r) /\ Become(r, Idle) /\ Idle \in RequestState
    BY <1>7, Idles DEF Dies, Finish
  <2>2. \E V : nova' = [nova EXCEPT ![s] = V]
    BY <1>7
  <2>3. Moves(r, s)
    BY <1>1, <1>2, <1>3, <2>1, <2>2, WriteMoves DEF tables
  <2> QED
    BY <1>2, <1>3, <2>1, <2>3, DoubtKeeps DEF Blurs
<1>8. CASE Finish(r) /\ Calm /\ nova' = nova
  BY <1>1, <1>2, <1>5, <1>8, FinishTold DEF tables
<1> QED
  BY <1>2, <1>3, <1>6, <1>7, <1>8 DEF PowerCall

LEMMA NovaDeleteTold ==
  ASSUME IndInv, IndInv', ChangesAreTold, NEW r \in Request, NovaDelete(r)
  PROVE  ChangesAreTold'
<1>1. request[r].at = "nova_delete" /\ request[r].at # "idle" /\ UNCHANGED <<tables, port>>
  BY DEF NovaDelete
<1>2. PICK q \in RequestState : q = request[r] /\ q.srv \in Server
  BY <1>1, AtWork
<1>3. PICK s \in Server : s = q.srv
  BY <1>2
<1>4. TypeOK /\ q.tasks = <<>>
  BY <1>1, <1>2, AtWork DEF WellFormed, Making
<1>5. ~Tells(q) /\ q.at \notin Removing
  BY <1>1, <1>2 DEF Tells, Building, PowerTask, Removing
<1>6. PICK u : u = [q EXCEPT !.at = "remove_load"]
  OBVIOUS
<1>7. u \in RequestState /\ u.at = "remove_load" /\ u.srv = s
  BY <1>3, <1>6, Moved DEF Location
<1>8. CASE /\ nova[s].status # "GONE" /\ nova' = [nova EXCEPT ![s].task = "deleting"]
           /\ Become(r, u) /\ Calm
  <2>1. ~Tells(u) /\ u.at \in Removing /\ TellsRight(u)'
    BY <1>7 DEF Tells, Building, PowerTask, Removing, TellsRight
  <2>2. /\ nova'[s].status = nova[s].status /\ nova'[s].task = "deleting"
        /\ row'[s] = row[s]
    BY <1>1, <1>4, <1>8 DEF TypeOK, NovaServer, tables
  <2>3. Settled(s) => Settled(s)'
    BY <2>2 DEF Settled
  <2>4. ASSUME NEW v \in RequestState, v.srv = s, TellsRight(v)
        PROVE  TellsRight(v)'
    BY <2>2, <2>4 DEF TellsRight, Turning
  <2> QED
    BY <1>1, <1>2, <1>3, <1>5, <1>7, <1>8, <2>1, <2>3, <2>4, TaskTold
<1>9. CASE nova' = [nova EXCEPT ![s].task = "deleting"] /\ Finish(r) /\ Blurs(r)
  <2>1. Become(r, Idle) /\ Idle \in RequestState /\ \E V : nova' = [nova EXCEPT ![s] = V]
    BY <1>9, Idles DEF Finish
  <2>2. Moves(r, s)
    BY <1>1, <1>2, <1>3, <1>9, <2>1, WriteMoves DEF tables
  <2> QED
    BY <1>2, <1>3, <1>9, <2>2, DoubtKeeps DEF Blurs
<1>10. CASE Finish(r) /\ Calm /\ nova' = nova
  BY <1>1, <1>2, <1>5, <1>10, FinishTold DEF tables
<1>11. Raise(r) <=> Finish(r)
  BY <1>2, <1>4 DEF Raise
<1> QED
  BY <1>2, <1>3, <1>6, <1>8, <1>9, <1>10, <1>11 DEF NovaDelete, Answered, Leaving

\* A step of a removal tells nothing and leaves the status alone.
LEMMA SilentTold ==
  ASSUME IndInv, IndInv', ChangesAreTold, NEW r \in Request, NEW s \in Server, Sure(s),
         NEW u \in RequestState, u = request'[r], ~Tells(request[r]), ~Tells(u),
         Moves(r, s), row'[s] = row[s], nova'[s] = nova[s]
  PROVE  RowIsTold(s)'
<1>1. request[r] \in RequestState
  BY DEF IndInv, TypeOK
<1>2. TellsRight(u)'
  BY DEF TellsRight, Tells, Building, PowerTask
<1>3. Settled(s)' \/ ~Settled(s)
  BY DEF Settled
<1>4. ASSUME NEW v \in RequestState, v.srv = s, TellsRight(v)
      PROVE  TellsRight(v)'
  BY <1>4 DEF TellsRight
<1> QED
  BY <1>1, <1>2, <1>3, <1>4, StepTells

\* A removal whose step gives up nothing that is still needed.
LEMMA RemovalTold ==
  ASSUME IndInv, IndInv', ChangesAreTold, NEW r \in Request, request[r].at # "idle",
         NEW s \in Server, s = request[r].srv,
         NEW u \in RequestState, Become(r, u), u.srv = s, Calm,
         request[r].at \in Removing, u.at \in Removing, UNCHANGED <<row, nova>>,
         nic' = nic \/ (\E N : nic' = [nic EXCEPT ![s] = N]),
         port' = port \/ (\E P : port' = [port EXCEPT ![s] = P]),
         Sure(s) => RemovalKept(s, request[r], u)
  PROVE  ChangesAreTold'
<1>1. request[r] \in RequestState
  BY DEF IndInv, TypeOK
<1>2. Moves(r, s) /\ u = request'[r]
  BY WriteMoves
<1>3. Sure(s)' => Sure(s)
  BY DEF Sure, Live, Calm
<1> SUFFICES ASSUME Sure(s) PROVE RemovalGoesOn(s)' /\ RowIsTold(s)'
  BY <1>2, <1>3, MovesKeep
<1>4. RemovalGoesOn(s)
  BY SureKnown
<1>5. RemovalGoesOn(s)'
  BY <1>1, <1>2, <1>4, RemovalKeeps
<1>6. ~Tells(request[r]) /\ ~Tells(u)
  BY DEF Tells, Building, PowerTask, Removing
<1>7. RowIsTold(s)'
  BY <1>2, <1>6, SilentTold
<1> QED
  BY <1>5, <1>7

LEMMA RemovePortsTold ==
  ASSUME IndInv, IndInv', ChangesAreTold, NEW r \in Request, RemovePorts(r)
  PROVE  ChangesAreTold'
<1>1. request[r].at = "remove_ports" /\ request[r].at # "idle" /\ UNCHANGED <<tables, nova>>
  BY DEF RemovePorts
<1>2. PICK q \in RequestState : q = request[r] /\ q.srv \in Server
  BY <1>1, AtWork
<1>3. PICK s \in Server : s = q.srv
  BY <1>2
<1>4. TypeOK /\ ServerFits(s) /\ q.tasks = <<>>
  BY <1>1, <1>2, <1>3, AtWork DEF WellFormed, Making
<1>5. PICK u : u = [q EXCEPT !.at = "remove_save"]
  OBVIOUS
<1>6. u \in RequestState /\ u.at = "remove_save" /\ u.srv = s /\ u.nics = q.nics
  BY <1>3, <1>5, Moved DEF Location
<1>7. q.at \in Removing /\ u.at \in Removing /\ ~Tells(q)
  BY <1>1, <1>2, <1>6 DEF Removing, Tells, Building, PowerTask
<1>8. CASE Become(r, u) /\ Calm /\ port' = port
  <2>1. RemovalKept(s, q, u)
    BY <1>1, <1>2, <1>6, <1>7, <1>8 DEF RemovalKept, tables
  <2> QED
    BY <1>1, <1>2, <1>3, <1>6, <1>7, <1>8, <2>1, RemovalTold DEF tables
<1>9. CASE q.nics /\ port' = [port EXCEPT ![s] = "GONE"] /\ Become(r, u) /\ Calm
  <2>1. RemovalKept(s, q, u)
    BY <1>1, <1>2, <1>3, <1>6, <1>7, <1>9 DEF RemovalKept, tables
  <2> QED
    BY <1>1, <1>2, <1>3, <1>6, <1>7, <1>9, <2>1, RemovalTold DEF tables
<1>10. CASE Finish(r) /\ Blurs(r)
             /\ (port' = port \/ port' = [port EXCEPT ![s] = "GONE"])
  <2>1. Become(r, Idle) /\ Idle \in RequestState
    BY <1>10, Idles DEF Finish
  <2>2. Moves(r, s)
    BY <1>1, <1>2, <1>3, <1>10, <2>1, WriteMoves DEF tables
  <2> QED
    BY <1>2, <1>3, <1>10, <2>2, DoubtKeeps DEF Blurs
<1>11. CASE port[s] = "GONE" /\ port' = port /\ Finish(r) /\ Calm
  <2>1. Become(r, Idle) /\ Idle \in RequestState
    BY <1>11, Idles DEF Finish
  <2>2. Moves(r, s) /\ request'[r] = Idle
    BY <1>1, <1>2, <1>3, <1>11, <2>1, WriteMoves DEF tables
  <2>3. Sure(s)' => Sure(s)
    BY <1>1, <1>11 DEF Sure, Live, Calm, tables
  <2>4. ASSUME Sure(s) PROVE RemovalGoesOn(s)' /\ RowIsTold(s)'
    <3>1. RemovalGoesOn(s) /\ nic[s] \in {"live", "deleted"}
      BY <1>4, <2>4, SureKnown DEF ServerFits, TypeOK, Sure, Live
    <3>2. \E p \in Request :
            /\ request[p].srv = s
            /\ request[p].at \in {"remove_save", "gone_load", "gone_poll", "gone_save"}
            /\ nic[s] = "live" => request[p].at = "remove_save" /\ request[p].nics
            /\ nic[s] = "deleted" => request[p].at \in {"gone_load", "gone_poll", "gone_save"}
      BY <1>11, <3>1 DEF RemovalGoesOn
    <3>3. PICK p \in Request \ {r} :
            /\ request[p].srv = s
            /\ request[p].at \in {"remove_save", "gone_load", "gone_poll", "gone_save"}
            /\ nic[s] = "live" => request[p].at = "remove_save" /\ request[p].nics
            /\ nic[s] = "deleted" => request[p].at \in {"gone_load", "gone_poll", "gone_save"}
      BY <1>1, <3>2
    <3>4. /\ request'[p].srv = s /\ request'[p].at = request[p].at
          /\ request'[p].nics = request[p].nics
      BY <2>2, <3>3 DEF Moves, Same
    <3>5. nova' = nova /\ nic' = nic /\ port' = port
      BY <1>1, <1>11 DEF tables
    <3>6. RemovalGoesOn(s)'
      BY <3>3, <3>4, <3>5 DEF RemovalGoesOn, Removing
    <3>7. ~Tells(Idle) /\ row' = row
      BY <1>1, Idles DEF Tells, PowerTask, tables
    <3>8. RowIsTold(s)'
      BY <1>2, <1>7, <2>1, <2>2, <2>4, <3>5, <3>7, SilentTold
    <3> QED
      BY <3>6, <3>8
  <2> QED
    BY <2>2, <2>3, <2>4, MovesKeep
<1>12. Raise(r) <=> Finish(r)
  BY <1>2, <1>4 DEF Raise
<1> QED
  BY <1>2, <1>3, <1>5, <1>8, <1>9, <1>10, <1>11, <1>12
  DEF RemovePorts, Answered, Await, PortFailure

LEMMA SaveResourcesTold ==
  ASSUME IndInv, IndInv', ChangesAreTold, NEW r \in Request, SaveResources(r)
  PROVE  ChangesAreTold'
<1>1. request[r].at = "remove_save" /\ request[r].at # "idle" /\ UNCHANGED <<row, nova, port>>
  BY DEF SaveResources, openstack
<1>2. PICK q \in RequestState : q = request[r] /\ q.srv \in Server
  BY <1>1, AtWork
<1>3. PICK s \in Server : s = q.srv
  BY <1>2
<1>4. TypeOK /\ (~q.nics => nic[s] = "deleted")
  BY <1>1, <1>2, <1>3, AtWork DEF Knows, UserKnows, Making
<1>5. CASE /\ nic' = IF q.nics THEN [nic EXCEPT ![s] = "deleted"] ELSE nic
           /\ Await(r, "gone_load") /\ Calm
  <2>1. PICK u : u = [q EXCEPT !.at = "gone_load"]
    OBVIOUS
  <2>2. u \in RequestState /\ u.at = "gone_load" /\ u.srv = s
    BY <1>3, <2>1, Moved DEF Location
  <2>3. Become(r, u)
    BY <1>2, <1>5, <2>1 DEF Await
  <2>4. nic'[s] = "deleted" /\ (nic' = nic \/ nic' = [nic EXCEPT ![s] = "deleted"])
    BY <1>3, <1>4, <1>5 DEF TypeOK
  <2>5. q.at \in Removing /\ u.at \in Removing
    BY <1>1, <1>2, <2>2 DEF Removing
  <2>6. RemovalKept(s, q, u)
    BY <1>1, <2>2, <2>4, <2>5 DEF RemovalKept
  <2> QED
    BY <1>1, <1>2, <1>3, <1>5, <2>2, <2>3, <2>4, <2>5, <2>6, RemovalTold
<1>6. CASE Dies(r, "database") /\ nic' = nic
  BY <1>1, <1>2, <1>6, FinishTold DEF Dies
<1> QED
  BY <1>2, <1>3, <1>5, <1>6 DEF SaveResources

LEMMA SaveServerGoneTold ==
  ASSUME IndInv, IndInv', ChangesAreTold, NEW r \in Request, SaveServerGone(r)
  PROVE  ChangesAreTold'
<1>1. request[r].at = "gone_save" /\ request[r].at # "idle" /\ UNCHANGED <<nic, nova, port>>
  BY DEF SaveServerGone, openstack
<1>2. PICK q \in RequestState : q = request[r] /\ q.srv \in Server
  BY <1>1, AtWork
<1>3. CASE /\ row' = [row EXCEPT ![q.srv] = [life |-> "deleted", status |-> "DELETED"]]
           /\ Await(r, "root_load") /\ Calm
  <2>1. PICK u : u = [q EXCEPT !.at = "root_load"]
    OBVIOUS
  <2>2. u \in RequestState /\ u.srv = q.srv
    BY <2>1, Moved DEF Location
  <2>3. Become(r, u)
    BY <1>2, <1>3, <2>1 DEF Await
  <2>4. Moves(r, q.srv)
    BY <1>1, <1>2, <1>3, <2>2, <2>3, WriteMoves
  <2>5. ~Live(q.srv)'
    BY <1>2, <1>3 DEF IndInv, TypeOK, Live
  <2> QED
    BY <1>2, <2>4, <2>5, DoubtKeeps
<1>4. CASE Dies(r, "database") /\ row' = row
  BY <1>1, <1>2, <1>4, FinishTold DEF Dies
<1> QED
  BY <1>2, <1>3, <1>4 DEF SaveServerGone

---------------------------------------------------------------------------
(* Failures, and what OpenStack does on its own.                           *)

\* A step of no request on a server other than s.
LEMMA OthersTold ==
  ASSUME IndInv, ChangesAreTold, request' = request, NEW s \in Server,
         \A t \in Server \ {s} : Untouched(t),
         blurred \subseteq blurred', unsure \subseteq unsure',
         Sure(s)' => RemovalGoesOn(s)' /\ RowIsTold(s)'
  PROVE  ChangesAreTold'
<1> SUFFICES ASSUME NEW t \in Server, t # s, Sure(t)'
             PROVE  RemovalGoesOn(t)' /\ RowIsTold(t)'
  BY DEF ChangesAreTold
<1>1. Untouched(t) /\ Sure(t)
  BY DEF Untouched, Sure, Live
<1>2. RemovalGoesOn(t) /\ RowIsTold(t)
  BY <1>1 DEF ChangesAreTold
<1>3. RemovalGoesOn(t)'
  BY <1>1, <1>2 DEF RemovalGoesOn, Untouched
<1>4. ASSUME NEW p \in Request, request[p].srv = t PROVE TellsRight(request[p])'
  <2>1. TellsRight(request[p])
    BY <1>2, <1>4 DEF RowIsTold
  <2> QED
    BY <1>1, <1>4, <2>1 DEF TellsRight, Untouched
<1>5. \A p \in Request : Tells(request[p])' <=> Tells(request[p])
  BY DEF Tells, Building, PowerTask
<1>6. RowIsTold(t)'
  BY <1>1, <1>2, <1>4, <1>5 DEF RowIsTold, Untouched
<1> QED
  BY <1>3, <1>6

\* Nova does what it was asked, which is what the request that tells waits for.
LEMMA NovaCompletesTold ==
  ASSUME IndInv, IndInv', ChangesAreTold, NEW s \in Server, NovaCompletes(s)
  PROVE  ChangesAreTold'
<1>1. PICK status \in Outcomes(nova[s]) : nova' = [nova EXCEPT ![s] = [status |-> status, task |-> "none"]]
  BY DEF NovaCompletes
<1>2. /\ TypeOK /\ UNCHANGED <<row, nic, port, request>>
      /\ blurred' = blurred /\ unsure' = unsure
  BY DEF NovaCompletes, Calm, tables, IndInv
<1>3. \A t \in Server \ {s} : Untouched(t)
  BY <1>1, <1>2 DEF Untouched, TypeOK
<1>4. nova'[s].status = status /\ nova'[s].task = "none"
  BY <1>1, <1>2 DEF TypeOK
<1>5. /\ nova[s].task = "starting" => status = "ACTIVE"
      /\ nova[s].task = "stopping" => status = "SHUTOFF"
      /\ nova[s].task = "deleting" => status = "GONE"
      /\ nova[s].task = "none" => nova[s].status = "BUILD" /\ status \in {"ACTIVE", "ERROR"}
      /\ nova[s].task \in {"starting", "stopping", "deleting", "none"}
      /\ nova[s].status # "GONE"
  <2>1. nova[s].task \in {"starting", "stopping", "deleting", "none"}
    BY <1>2 DEF TypeOK, NovaServer
  <2>2. nova[s].status = "GONE" => nova[s].task = "none"
    BY DEF IndInv, ServersFit, ServerFits
  <2> QED
    BY <1>1, <2>1, <2>2 DEF Outcomes
<1>6. ASSUME Sure(s) PROVE RemovalGoesOn(s)' /\ RowIsTold(s)'
  <2>1. RemovalGoesOn(s) /\ RowIsTold(s)
    BY <1>6 DEF ChangesAreTold
  <2>2. RemovalGoesOn(s)'
    BY <1>2, <1>4, <1>5, <2>1 DEF RemovalGoesOn
  <2>3. ASSUME NEW p \in Request, request[p].srv = s PROVE TellsRight(request[p])'
    <3>1. PICK q \in RequestState : q = request[p]
      BY <1>2 DEF TypeOK
    <3>2. TellsRight(q) /\ q.srv = s
      BY <2>1, <2>3, <3>1 DEF RowIsTold
    <3>3. TellsRight(q)'
      BY <1>2, <1>4, <1>5, <3>2 DEF TellsRight, Turning
    <3> QED
      BY <1>2, <3>1, <3>3 DEF TellsRight
  <2>4. \A p \in Request : Tells(request[p])' <=> Tells(request[p])
    BY <1>2 DEF Tells, Building, PowerTask
  <2>5. Settled(s) => Settled(s)'
    BY <1>2, <1>4, <1>5 DEF Settled
  <2>6. RowIsTold(s)'
    BY <1>2, <2>1, <2>3, <2>4, <2>5 DEF RowIsTold, Settled
  <2> QED
    BY <2>2, <2>6
<1>7. Sure(s)' => Sure(s)
  BY <1>2 DEF Sure, Live
<1> QED
  BY <1>2, <1>3, <1>6, <1>7, OthersTold

LEMMA OpenStackTold ==
  ASSUME IndInv, IndInv', ChangesAreTold, OpenStack
  PROVE  ChangesAreTold'
<1>1. PICK s \in Server : NovaCompletes(s) \/ NovaFails(s) \/ DiskIsDeleted(s)
  BY DEF OpenStack
<1>2. CASE NovaCompletes(s)
  BY <1>2, NovaCompletesTold
<1>3. CASE NovaFails(s)
  <2>1. PICK V : nova' = [nova EXCEPT ![s] = V]
    BY <1>3 DEF NovaFails
  <2>2. \A t \in Server \ {s} : Untouched(t)
    BY <1>3, <2>1 DEF NovaFails, IndInv, TypeOK, Untouched, tables
  <2> QED
    BY <1>3, <2>2, OthersTold DEF NovaFails, Sure
<1>4. CASE DiskIsDeleted(s)
  <2>1. \A t \in Server : Untouched(t)
    BY <1>4 DEF DiskIsDeleted, Untouched, tables
  <2>2. UNCHANGED <<row, nic, nova, port, request, blurred, unsure>>
    BY <1>4 DEF DiskIsDeleted, Calm, tables
  <2>3. Sure(s)' => RemovalGoesOn(s)' /\ RowIsTold(s)'
    BY <2>2 DEF ChangesAreTold, Sure, Live, RemovalGoesOn, RowIsTold, Tells, Building, TellsRight
  <2> QED
    BY <2>1, <2>2, <2>3, OthersTold
<1> QED
  BY <1>1, <1>2, <1>3, <1>4

\* A restart leaves no doubt only about the servers nobody was busy with.
LEMMA RestartTold ==
  ASSUME IndInv, ChangesAreTold, Restart
  PROVE  ChangesAreTold'
<1> USE ServersAssumption
<1>1. /\ UNCHANGED <<row, nic, nova, port, unsure>> /\ request' = [r \in Request |-> Idle]
      /\ blurred' = blurred \cup {s \in Server : Busy(s)}
  BY DEF Restart, tables, openstack
<1>2. \A r \in Request : request'[r] = Idle /\ request'[r].srv = NoServer
  BY <1>1, Idles
<1> SUFFICES ASSUME NEW s \in Server, Sure(s)' PROVE RemovalGoesOn(s)' /\ RowIsTold(s)'
  BY DEF ChangesAreTold
<1>3. Sure(s) /\ \A r \in Request : request[r].srv # s
  BY <1>1 DEF Sure, Live, Busy
<1>4. RemovalGoesOn(s) /\ RowIsTold(s)
  BY <1>3 DEF ChangesAreTold
<1>5. RemovalGoesOn(s)'
  BY <1>1, <1>3, <1>4 DEF RemovalGoesOn
<1>6. Settled(s)
  BY <1>3, <1>4 DEF RowIsTold, Settled
<1>7. RowIsTold(s)'
  BY <1>1, <1>2, <1>6 DEF RowIsTold, Settled
<1> QED
  BY <1>5, <1>7

LEMMA RowsStutter ==
  ASSUME ChangesAreTold, UNCHANGED vars
  PROVE  ChangesAreTold'
BY DEF vars, ChangesAreTold, Sure, Live, RemovalGoesOn, RowIsTold, Tells, Building, TellsRight

LEMMA NextTold == IndInv /\ IndInv' /\ ChangesAreTold /\ [Next]_vars => ChangesAreTold'
<1> SUFFICES ASSUME IndInv, IndInv', ChangesAreTold, [Next]_vars PROVE ChangesAreTold'
  OBVIOUS
<1>1. ASSUME NEW r \in Request, Begin(r) PROVE ChangesAreTold'
  BY <1>1, BeginTold
<1>2. ASSUME NEW r \in Request, Resume(r) PROVE ChangesAreTold'
  <2>1. CASE CreatePort(r) \/ CreateInNova(r) \/ InsertServer(r) \/ Undo(r)
    BY <2>1, MakerTold, InsertTold
  <2>2. CASE PollBuild(r) \/ SaveBuilt(r)
    BY <2>2, PollBuildTold, SaveBuiltTold
  <2>3. CASE LoadBuilt(r) \/ LoadStarted(r) \/ LoadStopped(r) \/ LoadLeaving(r)
    BY <2>3, LoadLiveTold DEF LoadBuilt, LoadStarted, LoadStopped, LoadLeaving
  <2>4. CASE NovaStart(r) \/ NovaStop(r)
    BY <2>4, PowerCallTold DEF NovaStart, NovaStop
  <2>5. CASE PollStart(r) \/ PollStop(r)
    BY <2>5, PollPowerTold DEF PollStart, PollStop
  <2>6. CASE SaveStarted(r) \/ SaveStopped(r)
    BY <2>6, SavePowerTold DEF SaveStarted, SaveStopped
  <2>7. CASE NovaDelete(r) \/ LoadResources(r) \/ RemovePorts(r) \/ SaveResources(r)
    BY <2>7, NovaDeleteTold, LoadResourcesTold, RemovePortsTold, SaveResourcesTold
  <2>8. CASE PollServerGone(r) \/ SaveServerGone(r)
    BY <2>8, PollServerGoneTold, SaveServerGoneTold
  <2>9. CASE LoadRoot(r) \/ PollRootGone(r) \/ SaveRootGone(r)
    BY <2>9, RootTaskTold
  <2> QED
    BY <1>2, <2>1, <2>2, <2>3, <2>4, <2>5, <2>6, <2>7, <2>8, <2>9 DEF Resume
<1>3. ASSUME NEW r \in Request, PollFails(r) PROVE ChangesAreTold'
  BY <1>3, PollFailsTold
<1>4. CASE Restart
  BY <1>4, RestartTold
<1>5. CASE OpenStack
  BY <1>5, OpenStackTold
<1>6. CASE UNCHANGED vars
  BY <1>6, RowsStutter
<1> QED
  BY <1>1, <1>2, <1>3, <1>4, <1>5, <1>6 DEF Next

---------------------------------------------------------------------------
(* Deletions that have their server to themselves.  A step of a request    *)
(* either passes, and then leaves everything that DeletionInv speaks of as *)
(* it is, or is one of six that write it.                                  *)

Growing == blurred \subseteq blurred' /\ unsure \subseteq unsure'

\* A request at work goes on as u or ends.
Walks(r, u) ==
  /\ request[r].at # "idle" /\ request[r].srv \in Server
  /\ u \in RequestState /\ request' = [request EXCEPT ![r] = u]
  /\ \/ u = Idle
     \/ /\ u.srv = request[r].srv /\ u.clean = request[r].clean
        /\ u.answer = request[r].answer
  /\ Deleting(u) => Deleting(request[r])
  /\ Growing

Kept ==
  /\ \A t \in Server : row'[t].life = row[t].life /\ nova'[t].status = nova[t].status
  /\ UNCHANGED <<nic, root, disk>>

Passes(r, u) ==
  /\ Walks(r, u) /\ Kept
  /\ Building(request[r]) =>
       \/ Building(u)
       \/ nova[request[r].srv].status = "GONE" \/ row'[request[r].srv].life # "live"
       \/ request[r].srv \in blurred' \cup unsure'
  /\ u.at \in RootTask => request[r].at \in RootTask
  /\ u.at = "root_save" => disk[request[r].srv] = "GONE"

LEMMA UntouchedIsKept ==
  ASSUME UNCHANGED <<tables, openstack>>
  PROVE  Kept
BY DEF Kept, tables, openstack

LEMMA EndWalks ==
  ASSUME IndInv, NEW r \in Request, request[r].at # "idle", Finish(r),
         Calm \/ Blurs(r) \/ LeavesUnsure(r)
  PROVE  Walks(r, Idle)
<1>1. ~Deleting(Idle) /\ Idle \in RequestState
  BY Idles DEF Deleting, Removing, RootTask
<1>2. Growing
  BY DEF Growing, Calm, Blurs, LeavesUnsure
<1> QED
  BY <1>1, <1>2, AtWork DEF Walks, Finish, Become

LEMMA EndPasses ==
  ASSUME IndInv, NEW r \in Request, request[r].at # "idle", Finish(r), Kept,
         Calm \/ Blurs(r) \/ LeavesUnsure(r),
         Building(request[r]) =>
           \/ Blurs(r) \/ LeavesUnsure(r)
           \/ ~Live(request[r].srv) \/ nova[request[r].srv].status = "GONE"
  PROVE  \E u : Passes(r, u)
<1>1. Walks(r, Idle) /\ request[r].srv \in Server
  BY EndWalks, AtWork
<1>2. Idle.at \notin RootTask
  BY Idles DEF RootTask
<1>3. Blurs(r) \/ LeavesUnsure(r) \/ ~Live(request[r].srv) =>
        row'[request[r].srv].life # "live" \/ request[r].srv \in blurred' \cup unsure'
  BY <1>1 DEF Blurs, LeavesUnsure, Live, Kept
<1>4. Passes(r, Idle)
  BY <1>1, <1>2, <1>3 DEF Passes, RootTask
<1> QED
  BY <1>4

\* A request that goes on with its deletion, its creation or neither.
LEMMA MoveWalks ==
  ASSUME IndInv, IndInv', NEW r \in Request, request[r].at # "idle",
         NEW u, Become(r, u), u.srv = request[r].srv,
         u.clean = request[r].clean, u.answer = request[r].answer,
         Calm \/ Blurs(r) \/ LeavesUnsure(r), Deleting(u) => Deleting(request[r])
  PROVE  Walks(r, u) /\ u \in RequestState
<1>1. u \in RequestState
  BY DEF IndInv, TypeOK, Become
<1>2. Growing
  BY DEF Growing, Calm, Blurs, LeavesUnsure
<1> QED
  BY <1>1, <1>2, AtWork DEF Walks, Become

LEMMA MovePasses ==
  ASSUME IndInv, IndInv', NEW r \in Request, request[r].at # "idle", Kept,
         NEW u, Become(r, u), u.srv = request[r].srv,
         u.clean = request[r].clean, u.answer = request[r].answer,
         Calm \/ Blurs(r) \/ LeavesUnsure(r), Deleting(u) => Deleting(request[r]),
         Building(request[r]) => Building(u),
         u.at \in RootTask => request[r].at \in RootTask,
         u.at = "root_save" => disk[request[r].srv] = "GONE"
  PROVE  \E v : Passes(r, v)
<1>1. Passes(r, u)
  BY MoveWalks DEF Passes
<1> QED
  BY <1>1

\* A request that moves on to the await named l.
Onward(r, q, l) ==
  \E a, b, c :
    \/ Become(r, [q EXCEPT !.at = l]) \/ Become(r, [q EXCEPT !.at = l, !.polls = a])
    \/ Become(r, [q EXCEPT !.at = l, !.seen = a])
    \/ Become(r, [q EXCEPT !.at = l, !.loaded = a])
    \/ Become(r, [q EXCEPT !.at = l, !.tasks = a])
    \/ Become(r, [q EXCEPT !.at = l, !.nics = b, !.root = c])
    \/ l = q.at /\ Become(r, [q EXCEPT !.polls = a])
    \/ l = q.at /\ Become(r, [q EXCEPT !.tasks = a])

LEMMA OnwardMoves ==
  ASSUME NEW r \in Request, NEW q \in RequestState, NEW l, Onward(r, q, l)
  PROVE  \E u : /\ Become(r, u)
                /\ u.at = l /\ u.srv = q.srv /\ u.clean = q.clean /\ u.answer = q.answer
<1>1. PICK a, b, c :
        \/ Become(r, [q EXCEPT !.at = l]) \/ Become(r, [q EXCEPT !.at = l, !.polls = a])
        \/ Become(r, [q EXCEPT !.at = l, !.seen = a])
        \/ Become(r, [q EXCEPT !.at = l, !.loaded = a])
        \/ Become(r, [q EXCEPT !.at = l, !.tasks = a])
        \/ Become(r, [q EXCEPT !.at = l, !.nics = b, !.root = c])
        \/ l = q.at /\ Become(r, [q EXCEPT !.polls = a])
        \/ l = q.at /\ Become(r, [q EXCEPT !.tasks = a])
  BY DEF Onward
<1>2. PICK u :
        /\ Become(r, u)
        /\ \/ u = [q EXCEPT !.at = l] \/ u = [q EXCEPT !.at = l, !.polls = a]
           \/ u = [q EXCEPT !.at = l, !.seen = a] \/ u = [q EXCEPT !.at = l, !.loaded = a]
           \/ u = [q EXCEPT !.at = l, !.tasks = a]
           \/ u = [q EXCEPT !.at = l, !.nics = b, !.root = c]
           \/ l = q.at /\ u = [q EXCEPT !.polls = a]
           \/ l = q.at /\ u = [q EXCEPT !.tasks = a]
  BY <1>1, Zenon
<1>3. u.at = l /\ u.srv = q.srv /\ u.clean = q.clean /\ u.answer = q.answer
  BY <1>2 DEF RequestState
<1> QED
  BY <1>2, <1>3

LEMMA OnwardPasses ==
  ASSUME IndInv, IndInv', NEW r \in Request, NEW q, q = request[r], q.at # "idle", Kept,
         NEW l, Onward(r, q, l), Calm \/ Blurs(r) \/ LeavesUnsure(r),
         l \in {"nova_delete"} \cup Removing \cup RootTask => Deleting(q),
         Building(q) => l \in {"build_poll", "build_load", "build_save"},
         l \in RootTask => q.at \in RootTask,
         l = "root_save" => disk[q.srv] = "GONE"
  PROVE  \E v : Passes(r, v)
<1>1. q \in RequestState
  BY AtWork
<1>2. PICK u : /\ Become(r, u)
               /\ u.at = l /\ u.srv = q.srv /\ u.clean = q.clean /\ u.answer = q.answer
  BY <1>1, OnwardMoves
<1>3. (Deleting(u) => Deleting(q)) /\ (Building(q) => Building(u))
  BY <1>2 DEF Deleting, Building
<1> QED
  BY <1>2, <1>3, MovePasses

\* The ways to go on that the actions use.
LEMMA Onwards ==
  ASSUME NEW r \in Request, NEW q, q = request[r]
  PROVE  /\ \A l : Await(r, l) => Onward(r, q, l)
         /\ \A l : Become(r, [q EXCEPT !.at = l]) => Onward(r, q, l)
         /\ PollAgain(r) => Onward(r, q, q.at)
         /\ \A l, a : Become(r, [q EXCEPT !.at = l, !.polls = a]) => Onward(r, q, l)
         /\ \A l, a : Become(r, [q EXCEPT !.at = l, !.seen = a]) => Onward(r, q, l)
         /\ \A l, a : Become(r, [q EXCEPT !.at = l, !.loaded = a]) => Onward(r, q, l)
         /\ \A l, a : Become(r, [q EXCEPT !.at = l, !.tasks = a]) => Onward(r, q, l)
         /\ \A a : Become(r, [q EXCEPT !.tasks = a]) => Onward(r, q, q.at)
         /\ \A l, b, c :
              Become(r, [q EXCEPT !.at = l, !.nics = b, !.root = c]) => Onward(r, q, l)
<1>1. \A l : Await(r, l) => Onward(r, q, l)
  BY Zenon DEF Await, Onward
<1>2. PollAgain(r) => Onward(r, q, q.at)
  BY Zenon DEF PollAgain, Onward
<1> QED
  BY <1>1, <1>2, Zenon DEF Onward

LEMMA RaisePasses ==
  ASSUME IndInv, IndInv', NEW r \in Request, request[r].at # "idle", Kept, Raise(r),
         Making(request[r]), Calm \/ Blurs(r)
  PROVE  \E u : Passes(r, u)
<1>1. ~Building(request[r])
  BY DEF Making, Building
<1>2. CASE Finish(r)
  BY <1>1, <1>2, EndPasses
<1>3. CASE Await(r, "rollback")
  BY <1>1, <1>3, Onwards, OnwardPasses DEF Removing, RootTask
<1> QED
  BY <1>2, <1>3 DEF Raise

LEMMA CreatePortPasses ==
  ASSUME IndInv, IndInv', NEW r \in Request, CreatePort(r)
  PROVE  \E u : Passes(r, u)
<1>1. /\ request[r].at = "create_port" /\ request[r].at # "idle" /\ Making(request[r])
      /\ ~Building(request[r])
  BY DEF CreatePort, Making, Building
<1>2. Kept
  BY DEF CreatePort, Kept, tables
<1>3. CASE Raise(r) /\ (Calm \/ Blurs(r))
  BY <1>1, <1>2, <1>3, RaisePasses
<1>4. CASE /\ Become(r, [request[r] EXCEPT !.at = "create_nova",
                                           !.tasks = AddTask(@, "delete_port")])
           /\ Calm
  <2>1. Onward(r, request[r], "create_nova")
    BY <1>4, Onwards
  <2> QED
    BY <1>1, <1>2, <1>4, <2>1, OnwardPasses DEF Removing, RootTask
<1> QED
  BY <1>3, <1>4 DEF CreatePort, Answered

LEMMA UndoPasses ==
  ASSUME IndInv, IndInv', NEW r \in Request, Undo(r)
  PROVE  \E u : Passes(r, u)
<1>1. /\ request[r].at = "rollback" /\ request[r].at # "idle"
      /\ ~Building(request[r])
  BY DEF Undo, Building
<1>2. Kept
  BY DEF Undo, Kept, tables, Leaving, IndInv, TypeOK, NovaServer
<1>3. Calm \/ Blurs(r)
  BY DEF Undo
<1>4. CASE Become(r, Idle)
  BY <1>1, <1>2, <1>3, <1>4, EndPasses DEF Finish
<1>5. CASE Become(r, [request[r] EXCEPT !.tasks = WithoutLatest(request[r].tasks)])
  <2>1. PICK tasks : tasks = WithoutLatest(request[r].tasks)
    OBVIOUS
  <2>2. Become(r, [request[r] EXCEPT !.tasks = tasks])
    BY <1>5, <2>1
  <2>3. Onward(r, request[r], "rollback")
    BY <1>1, <2>2, Onwards
  <2> QED
    BY <1>1, <1>2, <1>3, <2>3, OnwardPasses DEF Removing, RootTask
<1> QED
  BY <1>4, <1>5 DEF Undo

LEMMA LoadLivePasses ==
  ASSUME IndInv, IndInv', NEW r \in Request,
         LoadBuilt(r) \/ LoadStarted(r) \/ LoadStopped(r) \/ LoadLeaving(r)
  PROVE  \E u : Passes(r, u)
<1>1. PICK from, to :
        /\ LoadLive(r, from, to)
        /\ <<from, to>> \in {<<"build_load", "build_save">>, <<"start_load", "start_save">>,
                             <<"stop_load", "stop_save">>, <<"gone_load", "gone_poll">>}
  BY DEF LoadBuilt, LoadStarted, LoadStopped, LoadLeaving
<1>2. request[r].at = from /\ request[r].at # "idle" /\ Kept /\ Calm
  BY <1>1, UntouchedIsKept DEF LoadLive
<1>3. CASE Finish(r) /\ ~Live(request[r].srv)
  BY <1>2, <1>3, EndPasses
<1>4. CASE Become(r, [request[r] EXCEPT !.at = to, !.loaded = row[request[r].srv].status])
  <2>1. Onward(r, request[r], to)
    BY <1>4, Onwards
  <2>2. /\ to \in {"nova_delete"} \cup Removing \cup RootTask => Deleting(request[r])
        /\ Building(request[r]) => to \in {"build_poll", "build_load", "build_save"}
        /\ to \notin RootTask
    BY <1>1, <1>2 DEF Removing, RootTask, Building, Deleting
  <2> QED
    BY <1>2, <2>1, <2>2, OnwardPasses DEF RootTask
<1> QED
  BY <1>1, <1>3, <1>4 DEF LoadLive

LEMMA PollBuildPasses ==
  ASSUME IndInv, IndInv', NEW r \in Request, PollBuild(r)
  PROVE  \E u : Passes(r, u)
<1>1. /\ request[r].at = "build_poll" /\ request[r].at # "idle" /\ Kept
      /\ Calm \/ LeavesUnsure(r)
  BY UntouchedIsKept DEF PollBuild, PollAgain
<1>2. CASE PollAgain(r)
  <2>1. Onward(r, request[r], "build_poll")
    BY <1>1, <1>2, Onwards
  <2> QED
    BY <1>1, <2>1, OnwardPasses DEF Removing, RootTask
<1>3. ASSUME NEW a, Become(r, [request[r] EXCEPT !.at = "build_load", !.seen = a])
      PROVE  \E u : Passes(r, u)
  BY <1>1, <1>3, Onwards, OnwardPasses DEF Removing, RootTask
<1>4. CASE Finish(r) /\ nova[request[r].srv].status = "GONE"
  BY <1>1, <1>4, EndPasses
<1> QED
  BY <1>2, <1>3, <1>4 DEF PollBuild, FromBuildTimeout

\* Starts and stops: the row keeps its life, Nova the status.
LEMMA PowerPasses ==
  ASSUME IndInv, IndInv', NEW r \in Request,
         \/ NovaStart(r) \/ PollStart(r) \/ SaveStarted(r)
         \/ NovaStop(r) \/ PollStop(r) \/ SaveStopped(r)
  PROVE  \E u : Passes(r, u)
<1>1. /\ request[r].at # "idle" /\ ~Building(request[r])
      /\ Calm \/ Blurs(r) \/ LeavesUnsure(r)
  BY DEF NovaStart, NovaStop, PowerCall, PollStart, PollStop, PollPower, PollAgain,
         SaveStarted, SaveStopped, SavePower, Dies, Building
<1>0. request[r].srv \in Server
  BY <1>1, AtWork
<1>2. Kept
  <2>1. CASE NovaStart(r) \/ NovaStop(r)
    <3>1. UNCHANGED <<tables, disk>>
      BY <2>1 DEF NovaStart, NovaStop, PowerCall
    <3>2. nova' = nova \/ \E task : nova' = [nova EXCEPT ![request[r].srv].task = task]
      BY <2>1 DEF NovaStart, NovaStop, PowerCall
    <3>3. /\ nova \in [Server -> NovaServer]
          /\ \A V \in NovaServer : \A task : [V EXCEPT !.task = task].status = V.status
      BY DEF IndInv, TypeOK, NovaServer
    <3>4. ASSUME NEW t \in Server PROVE nova'[t].status = nova[t].status
      <4>1. CASE nova' = nova
        BY <4>1
      <4>2. ASSUME NEW task, nova' = [nova EXCEPT ![request[r].srv].task = task]
            PROVE  nova'[t].status = nova[t].status
        <5>1. nova'[t] = nova[t] \/ nova'[t] = [nova[t] EXCEPT !.task = task]
          BY <1>0, <3>3, <4>2
        <5>2. nova[t] \in NovaServer
          BY <3>3
        <5> QED
          BY <3>3, <5>1, <5>2
      <4> QED
        BY <3>2, <4>1, <4>2
    <3> QED
      BY <3>1, <3>4 DEF Kept, tables
  <2>2. CASE PollStart(r) \/ PollStop(r)
    BY <2>2, UntouchedIsKept DEF PollStart, PollStop, PollPower
  <2>3. CASE SaveStarted(r) \/ SaveStopped(r)
    <3>1. UNCHANGED <<nic, root, openstack>>
      BY <2>3 DEF SaveStarted, SaveStopped, SavePower
    <3>2. row' = row \/ \E c : row' = [row EXCEPT ![request[r].srv].status = c]
      BY <2>3 DEF SaveStarted, SaveStopped, SavePower, WithStatus, Dies
    <3>3. /\ row \in [Server -> Row]
          /\ \A R \in Row : \A c : [R EXCEPT !.status = c].life = R.life
      BY DEF IndInv, TypeOK, Row
    <3>4. ASSUME NEW t \in Server PROVE row'[t].life = row[t].life
      <4>1. CASE row' = row
        BY <4>1
      <4>2. ASSUME NEW c, row' = [row EXCEPT ![request[r].srv].status = c]
            PROVE  row'[t].life = row[t].life
        <5>1. row'[t] = row[t] \/ row'[t] = [row[t] EXCEPT !.status = c]
          BY <1>0, <3>3, <4>2
        <5>2. row[t] \in Row
          BY <3>3
        <5> QED
          BY <3>3, <5>1, <5>2
      <4> QED
        BY <3>2, <4>1, <4>2
    <3> QED
      BY <3>1, <3>4 DEF Kept, openstack
  <2> QED
    BY <2>1, <2>2, <2>3
<1>3. \/ Finish(r)
      \/ \E l \in {"start_poll", "start_load", "stop_poll", "stop_load"} :
           Onward(r, request[r], l)
  <2>1. CASE NovaStart(r) \/ NovaStop(r)
    BY <2>1, Onwards DEF NovaStart, NovaStop, PowerCall, Queued, Dies, Await
  <2>2. CASE PollStart(r) \/ PollStop(r)
    BY <2>2, Onwards DEF PollStart, PollStop, PollPower
  <2>3. CASE SaveStarted(r) \/ SaveStopped(r)
    BY <2>3 DEF SaveStarted, SaveStopped, SavePower, Dies
  <2> QED
    BY <2>1, <2>2, <2>3
<1>4. CASE Finish(r)
  BY <1>1, <1>2, <1>4, EndPasses
<1>5. ASSUME NEW l \in {"start_poll", "start_load", "stop_poll", "stop_load"},
             Onward(r, request[r], l)
      PROVE  \E u : Passes(r, u)
  BY <1>1, <1>2, <1>5, OnwardPasses DEF Removing, RootTask
<1> QED
  BY <1>3, <1>4, <1>5

\* The steps of a deletion that write nothing but Nova's task and the port.
LEMMA DeletionPasses ==
  ASSUME IndInv, IndInv', NEW r \in Request,
         \/ NovaDelete(r) \/ LoadResources(r) \/ RemovePorts(r) \/ PollServerGone(r)
         \/ LoadRoot(r) \/ PollRootGone(r)
  PROVE  \E u : Passes(r, u)
<1>1. /\ request[r].at # "idle" /\ ~Building(request[r]) /\ Deleting(request[r])
      /\ Calm \/ Blurs(r) \/ LeavesUnsure(r)
      /\ ~Making(request[r]) /\ request[r].tasks = <<>>
  <2>1. /\ request[r].at \in {"nova_delete"} \cup Removing \cup {"root_load", "root_poll"}
        /\ Calm \/ Blurs(r) \/ LeavesUnsure(r)
    BY DEF NovaDelete, LoadResources, RemovePorts, PollServerGone, LoadRoot, PollRootGone,
           Answered, PortFailure, PollAgain, Removing
  <2>2. /\ request[r].at # "idle" /\ ~Building(request[r]) /\ Deleting(request[r])
        /\ ~Making(request[r])
    BY <2>1 DEF Building, Making, Deleting, Removing, RootTask
  <2> QED
    BY <2>1, <2>2, AtWork DEF WellFormed
<1>2. Kept
  <2>1. CASE NovaDelete(r)
    <3>1. UNCHANGED <<tables, disk>>
      BY <2>1 DEF NovaDelete
    <3>2. \A t \in Server : nova'[t].status = nova[t].status
      BY <2>1 DEF NovaDelete, Leaving, IndInv, TypeOK, NovaServer
    <3> QED
      BY <3>1, <3>2 DEF Kept, tables
  <2>2. CASE RemovePorts(r)
    BY <2>2 DEF RemovePorts, Kept, tables
  <2> QED
    BY <2>1, <2>2, UntouchedIsKept
       DEF LoadResources, PollServerGone, LoadRoot, PollRootGone
<1>3. CASE Finish(r)
  BY <1>1, <1>2, <1>3, EndPasses
<1>4. ASSUME NEW l \in {"remove_load", "remove_ports", "remove_save", "gone_poll", "gone_save"},
             Onward(r, request[r], l)
      PROVE  \E u : Passes(r, u)
  BY <1>1, <1>2, <1>4, OnwardPasses DEF RootTask
<1>5. CASE NovaDelete(r)
  BY <1>1, <1>3, <1>4, <1>5, Onwards DEF NovaDelete, Answered, Raise
<1>6. CASE LoadResources(r)
  BY <1>3, <1>4, <1>6, Onwards DEF LoadResources
<1>7. CASE RemovePorts(r)
  BY <1>1, <1>3, <1>4, <1>7, Onwards DEF RemovePorts, Answered, Raise, PortFailure
<1>8. CASE PollServerGone(r)
  BY <1>3, <1>4, <1>8, Onwards DEF PollServerGone
<1>9. CASE LoadRoot(r) \/ PollRootGone(r)
  <2>1. request[r].at \in RootTask
    BY <1>9 DEF LoadRoot, PollRootGone, RootTask
  <2>2. ASSUME NEW l \in {"root_poll", "root_save"}, Onward(r, request[r], l),
               l = "root_save" => disk[request[r].srv] = "GONE"
        PROVE  \E u : Passes(r, u)
    BY <1>1, <1>2, <2>1, <2>2, OnwardPasses
  <2> QED
    BY <1>3, <1>9, <2>2, Onwards DEF LoadRoot, PollRootGone
<1> QED
  BY <1>5, <1>6, <1>7, <1>8, <1>9

LEMMA PollFailsPasses ==
  ASSUME IndInv, NEW r \in Request, PollFails(r)
  PROVE  \E u : Passes(r, u)
<1>1. request[r].at # "idle" /\ Finish(r) /\ Blurs(r) /\ Kept
  BY UntouchedIsKept DEF PollFails, Dies
<1> QED
  BY <1>1, EndPasses

---------------------------------------------------------------------------
(* What a step of one request has to show for DeletionInv.                 *)

\* The server has a disk nobody has a row of, and will have no row of.
Strays(s) ==
  /\ row'[s].life = "live" /\ s \notin blurred' \cup unsure'
  /\ disk[s] = "EXISTS" /\ nova'[s].status # "GONE" /\ root'[s].life # "live"

DeletionFits(r, s, u) ==
  /\ Walks(r, u) /\ s = request[r].srv /\ disk' = disk
  /\ \A t \in Server \ {s} :
       /\ row'[t].life = row[t].life /\ nova'[t].status = nova[t].status
       /\ root'[t] = root[t] /\ nic'[t] = nic[t]
  /\ DiskFits(s)'
  /\ Strays(s) => Building(u) \/ \E p \in Others(r, s) : Building(request[p])
  /\ row[s].life = "deleted" => row'[s].life = "deleted"
  /\ u # Idle => DeletionKnows(u)'

LEMMA CleanStays ==
  ASSUME IndInv, CleanIsAlone, NEW r \in Request, NEW u, Walks(r, u)
  PROVE  CleanIsAlone'
<1> USE ServersAssumption
<1>1. request[r] \in RequestState /\ request[r].srv \in Server
  BY AtWork DEF Walks
<1>2. Idle.srv = NoServer /\ Idle.clean = FALSE
  BY DEF Idle
<1>3. \A p \in Request : request[p].clean => request[p].srv # NoServer
  BY <1>2 DEF IndInv, RequestsWellFormed, WellFormed
<1>4. \A p \in Request : request'[p] = IF p = r THEN u ELSE request[p]
  BY DEF Walks, IndInv, TypeOK
<1>5. u = Idle \/ (u.srv = request[r].srv /\ u.clean = request[r].clean)
  BY DEF Walks
<1> SUFFICES ASSUME NEW p1 \in Request, NEW p2 \in Request, p1 # p2, request'[p1].clean
             PROVE  request'[p2].srv # request'[p1].srv
  BY DEF CleanIsAlone
<1>6. CASE p1 = r
  BY <1>2, <1>4, <1>5, <1>6 DEF CleanIsAlone
<1>7. CASE p2 = r
  BY <1>2, <1>3, <1>4, <1>5, <1>7 DEF CleanIsAlone
<1>8. CASE p1 # r /\ p2 # r
  BY <1>4, <1>8 DEF CleanIsAlone
<1> QED
  BY <1>6, <1>7, <1>8

\* What is known of a deletion on a server that the step leaves as it is.
LEMMA KnowledgeStays ==
  ASSUME NEW q, NEW t \in Server, q.srv = t, DeletionKnows(q), Growing,
         row'[t].life = row[t].life, nova'[t].status = nova[t].status,
         root'[t] = root[t], disk'[t] = disk[t]
  PROVE  DeletionKnows(q)'
BY DEF DeletionKnows, Growing, Deleting, RootTask

LEMMA IdleKnows ==
  /\ Idle.at \notin RootTask /\ ~Deleting(Idle) /\ ~Building(Idle)
  /\ DeletionKnows(Idle) /\ DeletionKnows(Idle)'
BY Idles DEF DeletionKnows, Deleting, Removing, RootTask

LEMMA DeletionKeeps ==
  ASSUME IndInv, IndInv', DeletionInv, NEW r \in Request, NEW s \in Server, NEW u,
         DeletionFits(r, s, u)
  PROVE  DeletionInv'
<1> USE ServersAssumption
<1>1. /\ Walks(r, u) /\ s = request[r].srv /\ disk' = disk /\ Growing
      /\ CleanIsAlone /\ DisksFit /\ DeletionsKnow
  BY DEF DeletionFits, Walks, DeletionInv
<1>2. \A p \in Request : request'[p] = IF p = r THEN u ELSE request[p]
  BY <1>1 DEF Walks, IndInv, TypeOK
<1>3. CleanIsAlone'
  BY <1>1, CleanStays
<1>4. ASSUME NEW t \in Server PROVE DiskFits(t)' /\ DiskIsKnown(t)'
  <2>1. CASE t = s
    <3>1. Strays(s) => \E p \in Request : request'[p].srv = s /\ Building(request'[p])
      <4>1. Building(u) => u.srv = s
        BY <1>1, IdleKnows DEF Walks
      <4> QED
        BY <1>2, <4>1 DEF DeletionFits, Others
    <3>2. DiskIsKnown(s)'
      BY <1>1, <3>1 DEF DiskIsKnown, Strays, Sure, Live, Building
    <3> QED
      BY <2>1, <3>2 DEF DeletionFits
  <2>2. CASE t # s
    <3>1. /\ row'[t].life = row[t].life /\ nova'[t].status = nova[t].status
          /\ root'[t] = root[t] /\ nic'[t] = nic[t]
      BY <2>2 DEF DeletionFits
    <3>2. DiskFits(t)'
      BY <1>1, <3>1 DEF DisksFit, DiskFits, Growing
    <3>3. \A p \in Request : request[p].srv = t => request'[p] = request[p]
      BY <1>1, <1>2, <2>2
    <3>4. DiskIsKnown(t)'
      <4>1. DiskIsKnown(t) /\ (Sure(t)' => Sure(t))
        BY <1>1, <3>1 DEF DisksFit, Sure, Live, Growing
      <4>2. \A p \in Request :
              request[p].srv = t /\ Building(request[p])
                => request'[p].srv = t /\ Building(request[p])'
        BY <3>3 DEF Building
      <4> QED
        BY <1>1, <3>1, <4>1, <4>2 DEF DiskIsKnown
    <3> QED
      BY <3>2, <3>4
  <2> QED
    BY <2>1, <2>2
<1>5. ASSUME NEW p \in Request PROVE DeletionKnows(request[p])'
  <2>1. PICK q \in RequestState : q = request'[p]
    BY DEF IndInv, TypeOK
  <2>2. CASE p = r
    BY <1>2, <2>1, <2>2, IdleKnows DEF DeletionFits, DeletionKnows, Deleting
  <2>3. CASE p # r
    <3>1. q = request[p] /\ DeletionKnows(q)
      BY <1>1, <1>2, <2>1, <2>3 DEF DeletionsKnow
    <3>2. CASE q = Idle
      BY <2>1, <3>2, IdleKnows DEF DeletionKnows, Deleting
    <3>3. CASE q # Idle /\ q.srv # s
      <4>1. q.srv \in Server
        BY <3>1, <3>3 DEF IndInv, RequestsWellFormed, WellFormed, RequestState
      <4>2. DeletionKnows(q)'
        BY <1>1, <3>1, <3>3, <4>1, KnowledgeStays DEF DeletionFits
      <4> QED
        BY <2>1, <4>2 DEF DeletionKnows, Deleting
    <3>4. CASE q.srv = s
      <4>1. ~q.clean
        BY <1>1, <2>3, <3>1, <3>4 DEF CleanIsAlone
      <4>2. DeletionKnows(q)'
        BY <1>1, <3>1, <3>4, <4>1 DEF DeletionKnows, DeletionFits
      <4> QED
        BY <2>1, <4>2 DEF DeletionKnows, Deleting
    <3> QED
      BY <3>2, <3>3, <3>4
  <2> QED
    BY <2>2, <2>3
<1>6. DisksFit'
  BY <1>4 DEF DisksFit
<1>7. DeletionsKnow'
  BY <1>5 DEF DeletionsKnow
<1> QED
  BY <1>3, <1>6, <1>7 DEF DeletionInv

LEMMA PassingKeeps ==
  ASSUME IndInv, IndInv', DeletionInv, NEW r \in Request, NEW u, Passes(r, u)
  PROVE  DeletionInv'
<1>1. PICK s \in Server : s = request[r].srv
  BY DEF Passes, Walks
<1>2. PICK q \in RequestState : q = request[r]
  BY DEF IndInv, TypeOK
<1>3. Walks(r, u) /\ Growing /\ Kept /\ DisksFit /\ DeletionKnows(q)
  BY <1>2 DEF Passes, Walks, DeletionInv, DeletionsKnow
<1>4. DiskFits(s)'
  BY <1>3 DEF Kept, DisksFit, DiskFits, Growing
<1>5. ASSUME Strays(s) PROVE Building(u) \/ \E p \in Others(r, s) : Building(request[p])
  <2>1. PICK p \in Request : request[p].srv = s /\ Building(request[p])
    BY <1>3, <1>5 DEF DisksFit, DiskIsKnown, Sure, Live, Kept, Growing, Strays
  <2>2. p = r => Building(u)
    BY <1>1, <1>3, <1>5, <2>1 DEF Passes, Kept, Strays
  <2> QED
    BY <2>1, <2>2 DEF Others
<1>6. ASSUME u # Idle PROVE DeletionKnows(u)'
  <2>1. u.srv = s /\ u.clean = q.clean /\ u.answer = q.answer /\ q.srv = s
    BY <1>1, <1>2, <1>3, <1>6 DEF Walks
  <2>2. /\ Deleting(u) => Deleting(q)
        /\ u.at \in RootTask => q.at \in RootTask
        /\ u.at = "root_save" => disk[s] = "GONE"
    BY <1>1, <1>2 DEF Passes, Walks
  <2> QED
    BY <1>3, <2>1, <2>2 DEF DeletionKnows, Kept, Growing
<1>7. DeletionFits(r, s, u)
  BY <1>1, <1>3, <1>4, <1>5, <1>6 DEF DeletionFits, Kept
<1> QED
  BY <1>7, DeletionKeeps

---------------------------------------------------------------------------
(* The six actions that write what DeletionInv speaks of.                  *)

LEMMA CreateInNovaKeepsDisk ==
  ASSUME IndInv, IndInv', DeletionInv, NEW r \in Request, CreateInNova(r)
  PROVE  DeletionInv'
<1>1. /\ request[r].at = "create_nova" /\ request[r].at # "idle" /\ UNCHANGED <<tables, port, disk>>
  BY DEF CreateInNova
<1>2. PICK q \in RequestState, s \in Server : q = request[r] /\ s = q.srv
  BY <1>1, AtWork
<1>3. ~Building(q) /\ Making(q) /\ ~Deleting(q)
  BY <1>1, <1>2 DEF Building, Making, Deleting, Removing, RootTask
<1>4. CASE Raise(r) /\ (Calm \/ Blurs(r)) /\ UNCHANGED nova
  <2>1. Kept
    BY <1>1, <1>4 DEF Kept, tables
  <2> QED
    BY <1>1, <1>2, <1>3, <1>4, <2>1, RaisePasses, PassingKeeps
<1>5. CASE /\ nova' = [nova EXCEPT ![s].status = "BUILD"]
           /\ Answered(r, [q EXCEPT !.at = "insert", !.tasks = WithServerUndo(@)])
  <2>1. PICK u : Walks(r, u) /\ ~Deleting(u) /\ u.at \notin RootTask
    <3>1. CASE Finish(r) /\ Blurs(r)
      BY <1>1, <3>1, EndWalks, IdleKnows
    <3>2. CASE Await(r, "rollback") /\ Blurs(r)
      <4>1. PICK u : /\ Become(r, u) /\ u.at = "rollback" /\ u.srv = q.srv
                     /\ u.clean = q.clean /\ u.answer = q.answer
        <5>1. Onward(r, q, "rollback")
          BY <1>2, <3>2, Onwards
        <5> QED
          BY <5>1, OnwardMoves
      <4>2. ~Deleting(u) /\ u.at \notin RootTask
        BY <4>1 DEF Deleting, Removing, RootTask
      <4> QED
        BY <1>1, <1>2, <3>2, <4>1, <4>2, MoveWalks
    <3>3. CASE Become(r, [q EXCEPT !.at = "insert", !.tasks = WithServerUndo(q.tasks)]) /\ Calm
      <4>1. PICK u : /\ Become(r, u) /\ u.at = "insert" /\ u.srv = q.srv
                     /\ u.clean = q.clean /\ u.answer = q.answer
        <5>1. Onward(r, q, "insert")
          BY <1>2, <3>3, Onwards
        <5> QED
          BY <5>1, OnwardMoves
      <4>2. ~Deleting(u) /\ u.at \notin RootTask
        BY <4>1 DEF Deleting, Removing, RootTask
      <4> QED
        BY <1>1, <1>2, <3>3, <4>1, <4>2, MoveWalks
    <3> QED
      BY <1>5, <3>1, <3>2, <3>3 DEF Answered, Raise
  <2>2. nova[s].status = "UNCREATED" /\ disk[s] = "UNCREATED"
    BY <1>1, <1>2, <1>3, AtWork DEF Knows, MakerKnows, DeletionInv, DisksFit, DiskFits
  <2>3. /\ nova'[s].status = "BUILD"
        /\ \A t \in Server \ {s} : nova'[t].status = nova[t].status
    BY <1>5 DEF IndInv, TypeOK, NovaServer
  <2>4. DiskFits(s)'
    BY <1>1, <2>2, <2>3 DEF DeletionInv, DisksFit, DiskFits, tables
  <2>5. DeletionKnows(u)'
    BY <2>1 DEF DeletionKnows, Deleting, RootTask
  <2>6. DeletionFits(r, s, u)
    BY <1>1, <1>2, <2>1, <2>2, <2>3, <2>4, <2>5 DEF DeletionFits, Strays, tables
  <2> QED
    BY <2>6, DeletionKeeps
<1> QED
  BY <1>2, <1>4, <1>5 DEF CreateInNova

LEMMA InsertKeepsDisk ==
  ASSUME IndInv, IndInv', DeletionInv, NEW r \in Request, InsertServer(r)
  PROVE  DeletionInv'
<1>1. /\ request[r].at = "insert" /\ request[r].at # "idle" /\ Calm /\ UNCHANGED <<root, openstack>>
  BY DEF InsertServer
<1>2. PICK q \in RequestState, s \in Server : q = request[r] /\ s = q.srv
  BY <1>1, AtWork
<1>3. Making(q)
  BY <1>1, <1>2 DEF Making
<1>4. CASE Raise(r) /\ UNCHANGED <<row, nic>>
  <2>1. Kept
    BY <1>1, <1>4 DEF Kept, openstack
  <2> QED
    BY <1>1, <1>2, <1>3, <1>4, <2>1, RaisePasses, PassingKeeps
<1>5. CASE /\ row' = [row EXCEPT ![s] = [life |-> "live", status |-> "BUILD"]]
           /\ nic' = [nic EXCEPT ![s] = "live"]
           /\ Become(r, [q EXCEPT !.at = "build_poll", !.tasks = <<>>])
  <2>1. PICK u : /\ Become(r, u) /\ u.at = "build_poll" /\ u.srv = q.srv
                 /\ u.clean = q.clean /\ u.answer = q.answer
    <3>1. Onward(r, q, "build_poll")
      BY <1>2, <1>5, Onwards
    <3> QED
      BY <3>1, OnwardMoves
  <2>2. ~Deleting(u) /\ u.at \notin RootTask /\ Building(u)
    BY <2>1 DEF Deleting, Removing, RootTask, Building
  <2>3. Walks(r, u)
    BY <1>1, <1>2, <2>1, <2>2, MoveWalks
  <2>4. row[s].life = "absent" /\ nic[s] = "absent"
    BY <1>1, <1>2, <1>3, AtWork DEF Knows, MakerKnows, ServerFits
  <2>5. /\ \A t \in Server \ {s} : row'[t].life = row[t].life /\ nic'[t] = nic[t]
        /\ nic'[s] = "live"
    BY <1>5 DEF IndInv, TypeOK
  <2>6. DiskFits(s)'
    BY <1>1, <2>4 DEF DeletionInv, DisksFit, DiskFits, openstack, Calm
  <2>7. DeletionKnows(u)'
    BY <2>2 DEF DeletionKnows, Deleting, RootTask
  <2>8. DeletionFits(r, s, u)
    BY <1>1, <1>2, <2>2, <2>3, <2>4, <2>5, <2>6, <2>7 DEF DeletionFits, openstack
  <2> QED
    BY <2>8, DeletionKeeps
<1> QED
  BY <1>2, <1>4, <1>5 DEF InsertServer

\* A creation that failed has no disk, unless a failure of Nova brought the ERROR.
LEMMA SaveBuiltKeepsDisk ==
  ASSUME IndInv, IndInv', ChangesAreTold, DeletionInv, NEW r \in Request, SaveBuilt(r)
  PROVE  DeletionInv'
<1>1. /\ request[r].at = "build_save" /\ request[r].at # "idle" /\ Finish(r)
  BY DEF SaveBuilt, Dies
<1>2. PICK q \in RequestState, s \in Server : q = request[r] /\ s = q.srv
  BY <1>1, AtWork
<1>3. UNCHANGED <<nic, openstack>> /\ (Calm \/ Blurs(r))
  BY DEF SaveBuilt, Dies
<1>4. CASE Blurs(r) /\ UNCHANGED <<row, root>>
  <2>1. Kept
    BY <1>3, <1>4 DEF Kept, openstack
  <2> QED
    BY <1>1, <1>4, <2>1, EndPasses, PassingKeeps
<1>5. CASE /\ \E c : row' = [row EXCEPT ![s].status = c]
           /\ root' = IF q.seen = "ACTIVE"
                        THEN [root EXCEPT ![s] = [life |-> "live", linked |-> TRUE]] ELSE root
           /\ Calm
  <2>1. \A t \in Server : row'[t].life = row[t].life
    BY <1>5 DEF IndInv, TypeOK, Row
  <2>2. /\ \A t \in Server \ {s} : root'[t] = root[t]
        /\ root'[s] = root[s] \/ root'[s] = [life |-> "live", linked |-> TRUE]
        /\ q.seen = "ACTIVE" => root'[s].life = "live"
    BY <1>5 DEF IndInv, TypeOK
  <2>3. DiskFits(s)'
    BY <1>3, <1>5, <2>2 DEF DeletionInv, DisksFit, DiskFits, openstack, Calm
  <2>4. ~Strays(s)
    <3> SUFFICES ASSUME Strays(s) PROVE FALSE
      OBVIOUS
    <3>1. Sure(s) /\ disk[s] = "EXISTS" /\ nova[s].status # "GONE"
      BY <1>3, <1>5, <2>1 DEF Strays, Sure, Live, Calm, openstack
    <3>2. TellsRight(q)
      BY <1>2, <3>1 DEF ChangesAreTold, RowIsTold
    <3>3. q.seen = "ERROR"
      BY <1>1, <1>2, <2>2, <3>2 DEF TellsRight, Strays
    <3>4. nova[s].status = "ERROR" /\ s \notin blurred
      BY <1>1, <1>2, <3>1, <3>2, <3>3 DEF TellsRight, Turning, Sure
    <3> QED
      BY <3>1, <3>4 DEF DeletionInv, DisksFit, DiskFits
  <2>5. Walks(r, Idle)
    BY <1>1, <1>3, EndWalks
  <2>6. DeletionFits(r, s, Idle)
    BY <1>2, <1>3, <2>1, <2>2, <2>3, <2>4, <2>5 DEF DeletionFits, openstack
  <2> QED
    BY <2>6, DeletionKeeps
<1> QED
  BY <1>2, <1>4, <1>5 DEF SaveBuilt, WithStatus, Dies

LEMMA SaveResourcesKeepsDisk ==
  ASSUME IndInv, IndInv', DeletionInv, NEW r \in Request, SaveResources(r)
  PROVE  DeletionInv'
<1>1. /\ request[r].at = "remove_save" /\ request[r].at # "idle" /\ UNCHANGED <<row, openstack>>
  BY DEF SaveResources
<1>2. PICK q \in RequestState, s \in Server : q = request[r] /\ s = q.srv
  BY <1>1, AtWork
<1>3. ~Building(q) /\ Deleting(q) /\ ~Making(q)
  BY <1>1, <1>2 DEF Building, Deleting, Removing, Making
<1>4. CASE Finish(r) /\ Blurs(r) /\ UNCHANGED <<nic, root>>
  <2>1. Kept
    BY <1>1, <1>4 DEF Kept, openstack
  <2> QED
    BY <1>1, <1>2, <1>3, <1>4, <2>1, EndPasses, PassingKeeps
<1>5. CASE /\ nic' = IF q.nics THEN [nic EXCEPT ![s] = "deleted"] ELSE nic
           /\ root' = IF q.root THEN [root EXCEPT ![s].linked = FALSE] ELSE root
           /\ Await(r, "gone_load") /\ Calm
  <2>1. PICK u : /\ Become(r, u) /\ u.at = "gone_load" /\ u.srv = q.srv
                 /\ u.clean = q.clean /\ u.answer = q.answer
    <3>1. Onward(r, q, "gone_load")
      BY <1>2, <1>5, Onwards
    <3> QED
      BY <3>1, OnwardMoves
  <2>2. Walks(r, u) /\ u.at \notin RootTask
    BY <1>1, <1>2, <1>3, <1>5, <2>1, MoveWalks DEF RootTask
  <2>3. /\ nic'[s] = "deleted" /\ \A t \in Server \ {s} : nic'[t] = nic[t]
    <3>1. ~q.nics => nic[s] = "deleted"
      BY <1>1, <1>2, <1>3, AtWork DEF Knows, UserKnows
    <3> QED
      BY <1>5, <3>1 DEF IndInv, TypeOK
  <2>4. root'[s].life = root[s].life /\ \A t \in Server \ {s} : root'[t] = root[t]
    BY <1>5 DEF IndInv, TypeOK, RootRow
  <2>5. DiskFits(s)'
    BY <1>1, <1>5, <2>3 DEF DeletionInv, DisksFit, DiskFits, openstack, Calm
  <2>6. Strays(s) => \E p \in Others(r, s) : Building(request[p])
    <3> SUFFICES ASSUME Strays(s) PROVE \E p \in Others(r, s) : Building(request[p])
      OBVIOUS
    <3>1. Sure(s) /\ disk[s] = "EXISTS" /\ nova[s].status # "GONE" /\ root[s].life # "live"
      BY <1>1, <1>5, <2>4 DEF Strays, Sure, Live, Calm, openstack
    <3>2. PICK p \in Request : request[p].srv = s /\ Building(request[p])
      BY <3>1 DEF DeletionInv, DisksFit, DiskIsKnown
    <3> QED
      BY <1>2, <1>3, <3>2 DEF Others
  <2>7. DeletionKnows(u)'
    <3>1. DeletionKnows(q)
      BY <1>2 DEF DeletionInv, DeletionsKnow
    <3> QED
      BY <1>1, <1>2, <1>3, <1>5, <2>1, <2>2, <2>4, <3>1 DEF DeletionKnows, openstack, Calm
  <2>8. DeletionFits(r, s, u)
    BY <1>1, <1>2, <2>2, <2>3, <2>4, <2>5, <2>6, <2>7 DEF DeletionFits, openstack
  <2> QED
    BY <2>8, DeletionKeeps
<1> QED
  BY <1>2, <1>4, <1>5 DEF SaveResources, Dies

LEMMA SaveServerGoneKeepsDisk ==
  ASSUME IndInv, IndInv', DeletionInv, NEW r \in Request, SaveServerGone(r)
  PROVE  DeletionInv'
<1>1. /\ request[r].at = "gone_save" /\ request[r].at # "idle" /\ UNCHANGED <<nic, root, openstack>>
  BY DEF SaveServerGone
<1>2. PICK q \in RequestState, s \in Server : q = request[r] /\ s = q.srv
  BY <1>1, AtWork
<1>3. ~Building(q) /\ Deleting(q)
  BY <1>1, <1>2 DEF Building, Deleting, Removing
<1>4. CASE Finish(r) /\ Blurs(r) /\ UNCHANGED row
  <2>1. Kept
    BY <1>1, <1>4 DEF Kept, openstack
  <2> QED
    BY <1>1, <1>2, <1>3, <1>4, <2>1, EndPasses, PassingKeeps
<1>5. CASE /\ row' = [row EXCEPT ![s] = [life |-> "deleted", status |-> "DELETED"]]
           /\ Await(r, "root_load") /\ Calm
  <2>1. PICK u : /\ Become(r, u) /\ u.at = "root_load" /\ u.srv = q.srv
                 /\ u.clean = q.clean /\ u.answer = q.answer
    <3>1. Onward(r, q, "root_load")
      BY <1>2, <1>5, Onwards
    <3> QED
      BY <3>1, OnwardMoves
  <2>2. Walks(r, u)
    BY <1>1, <1>2, <1>3, <1>5, <2>1, MoveWalks
  <2>3. row'[s].life = "deleted" /\ \A t \in Server \ {s} : row'[t] = row[t]
    BY <1>5 DEF IndInv, TypeOK
  <2>4. DiskFits(s)'
    BY <1>1, <1>5 DEF DeletionInv, DisksFit, DiskFits, openstack, Calm
  <2>5. DeletionKnows(u)'
    <3>1. DeletionKnows(q)
      BY <1>2 DEF DeletionInv, DeletionsKnow
    <3> QED
      BY <1>1, <1>2, <1>3, <1>5, <2>1, <2>3, <3>1 DEF DeletionKnows, openstack, Calm
  <2>6. DeletionFits(r, s, u)
    BY <1>1, <1>2, <2>2, <2>3, <2>4, <2>5 DEF DeletionFits, Strays, openstack
  <2> QED
    BY <2>6, DeletionKeeps
<1> QED
  BY <1>2, <1>4, <1>5 DEF SaveServerGone, Dies

LEMMA SaveRootGoneKeepsDisk ==
  ASSUME IndInv, IndInv', DeletionInv, NEW r \in Request, SaveRootGone(r)
  PROVE  DeletionInv'
<1>1. /\ request[r].at = "root_save" /\ request[r].at # "idle" /\ UNCHANGED <<row, nic, openstack>>
      /\ Finish(r)
  BY DEF SaveRootGone, Dies
<1>2. PICK q \in RequestState, s \in Server : q = request[r] /\ s = q.srv
  BY <1>1, AtWork
<1>3. ~Building(q)
  BY <1>1, <1>2 DEF Building
<1>4. CASE Blurs(r) /\ UNCHANGED root
  <2>1. Kept
    BY <1>1, <1>4 DEF Kept, openstack
  <2> QED
    BY <1>1, <1>2, <1>3, <1>4, <2>1, EndPasses, PassingKeeps
<1>5. CASE root' = [root EXCEPT ![s].life = "deleted"] /\ Calm
  <2>1. root'[s].life = "deleted" /\ \A t \in Server \ {s} : root'[t] = root[t]
    BY <1>5 DEF IndInv, TypeOK, RootRow
  <2>2. row[s].life = "deleted"
    BY <1>1, <1>2 DEF DeletionInv, DeletionsKnow, DeletionKnows, RootTask
  <2>3. DiskFits(s)'
    BY <1>1, <1>5, <2>1 DEF DeletionInv, DisksFit, DiskFits, openstack, Calm
  <2>4. Walks(r, Idle)
    BY <1>1, <1>5, EndWalks
  <2>5. DeletionFits(r, s, Idle)
    BY <1>1, <1>2, <2>1, <2>2, <2>3, <2>4 DEF DeletionFits, Strays, openstack
  <2> QED
    BY <2>5, DeletionKeeps
<1> QED
  BY <1>2, <1>4, <1>5 DEF SaveRootGone, Dies

---------------------------------------------------------------------------
(* The steps that begin a request, the restart and OpenStack.              *)

\* What Start does to the requests.
LEMMA StartClean ==
  ASSUME IndInv, IndInv', NEW r \in Request, NEW s \in Server, NEW state \in RequestState,
         Start(r, state), state.srv = s
  PROVE  /\ request[r] = Idle
         /\ request'[r].at = state.at /\ request'[r].srv = s
         /\ request'[r].answer = state.answer /\ request'[r].clean = ~Busy(s)
         /\ \A p \in Request \ {r} :
              /\ request'[p].at = request[p].at /\ request'[p].srv = request[p].srv
              /\ request'[p].answer = request[p].answer
              /\ request'[p].clean => request[p].clean /\ request[p].srv # s
<1>1. request[r] = Idle
  BY DEF IndInv, RequestsWellFormed, WellFormed, Start
<1>2. request'[r] = [state EXCEPT !.clean = ~Busy(s)]
  BY DEF Start
<1>3. /\ request'[r].at = state.at /\ request'[r].srv = s
      /\ request'[r].answer = state.answer /\ request'[r].clean = ~Busy(s)
  BY <1>2 DEF RequestState
<1>4. ASSUME NEW p \in Request \ {r}
      PROVE  /\ request'[p].at = request[p].at /\ request'[p].srv = request[p].srv
             /\ request'[p].answer = request[p].answer
             /\ request'[p].clean => request[p].clean /\ request[p].srv # s
  <2>1. PICK q \in RequestState : q = request[p]
    BY DEF IndInv, TypeOK
  <2>2. request'[p] = IF q.srv = s THEN [q EXCEPT !.clean = FALSE] ELSE q
    BY <2>1 DEF Start
  <2> QED
    BY <2>1, <2>2 DEF RequestState
<1> QED
  BY <1>1, <1>3, <1>4

\* A deletion that begins while nobody works on the server.
LEMMA LoneStart ==
  ASSUME ChangesAreTold, DeletionInv, NEW s \in Server, Sure(s), ~Busy(s)
  PROVE  /\ nova[s].status # "BUILD"
         /\ root[s].life = "live" => root[s].linked
         /\ disk[s] = "EXISTS" => root[s].life = "live"
<1>1. RemovalGoesOn(s) /\ RowIsTold(s) /\ DiskFits(s) /\ DiskIsKnown(s)
  BY DEF ChangesAreTold, DeletionInv, DisksFit
<1>2. nova[s].status # "GONE" /\ nic[s] # "deleted"
  BY <1>1 DEF RemovalGoesOn, Busy
<1> QED
  BY <1>1, <1>2 DEF RowIsTold, DiskFits, DiskIsKnown, Busy

LEMMA StartKeepsDisk ==
  ASSUME IndInv, IndInv', ChangesAreTold, DeletionInv, NEW r \in Request, NEW s \in Server,
         NEW state \in RequestState, Start(r, state), state.srv = s,
         \/ state.at \in {"create_port", "nova_start", "nova_stop"}
         \/ state.at = "nova_delete" /\ Live(s) /\ state.answer = root[s].linked,
         Calm, UNCHANGED <<tables, openstack>>
  PROVE  DeletionInv'
<1>1. /\ CleanIsAlone /\ DisksFit /\ DeletionsKnow
      /\ UNCHANGED <<row, nic, root, nova, port, disk, blurred, unsure>>
  BY DEF DeletionInv, Calm, tables, openstack
<1>2. /\ request[r] = Idle
      /\ request'[r].at = state.at /\ request'[r].srv = s
      /\ request'[r].answer = state.answer /\ request'[r].clean = ~Busy(s)
      /\ \A p \in Request \ {r} :
           /\ request'[p].at = request[p].at /\ request'[p].srv = request[p].srv
           /\ request'[p].answer = request[p].answer
           /\ request'[p].clean => request[p].clean /\ request[p].srv # s
  BY StartClean
<1>3. CleanIsAlone'
  <2> SUFFICES ASSUME NEW p1 \in Request, NEW p2 \in Request, p1 # p2, request'[p1].clean
               PROVE  request'[p2].srv # request'[p1].srv
    BY DEF CleanIsAlone
  <2>1. CASE p1 = r
    BY <1>2, <2>1 DEF Busy
  <2>2. CASE p2 = r
    BY <1>2, <2>2
  <2>3. CASE p1 # r /\ p2 # r
    BY <1>1, <1>2, <2>3 DEF CleanIsAlone
  <2> QED
    BY <2>1, <2>2, <2>3
<1>4. ASSUME NEW t \in Server PROVE DiskFits(t)' /\ DiskIsKnown(t)'
  <2>1. DiskFits(t)'
    BY <1>1 DEF DisksFit, DiskFits
  <2>2. \A p \in Request :
          request[p].srv = t /\ Building(request[p])
            => request'[p].srv = t /\ Building(request[p])'
    BY <1>2, IdleKnows DEF Building
  <2>3. DiskIsKnown(t) /\ (Sure(t)' => Sure(t))
    BY <1>1 DEF DisksFit, Sure, Live
  <2>4. DiskIsKnown(t)'
    BY <1>1, <2>2, <2>3 DEF DiskIsKnown
  <2> QED
    BY <2>1, <2>4
<1>5. ASSUME NEW p \in Request PROVE DeletionKnows(request[p])'
  <2>1. CASE p = r
    <3>1. request'[r].at \notin RootTask
      BY <1>2 DEF RootTask
    <3>2. /\ Deleting(request'[r]) /\ request'[r].clean /\ s \notin blurred \cup unsure
          => Sure(s) /\ ~Busy(s) /\ request'[r].answer = root[s].linked
      BY <1>2 DEF Deleting, Removing, RootTask, Sure
    <3> QED
      BY <1>1, <1>2, <2>1, <3>1, <3>2, LoneStart DEF DeletionKnows, RootTask, Deleting
  <2>2. CASE p # r
    <3>1. /\ request'[p].at = request[p].at /\ request'[p].srv = request[p].srv
          /\ request'[p].answer = request[p].answer
          /\ request'[p].clean => request[p].clean
      BY <1>2, <2>2
    <3>2. DeletionKnows(request[p])
      BY <1>1 DEF DeletionsKnow
    <3> QED
      BY <1>1, <3>1, <3>2 DEF DeletionKnows, Deleting
  <2> QED
    BY <2>1, <2>2
<1> QED
  BY <1>3, <1>4, <1>5 DEF DeletionInv, DisksFit, DeletionsKnow

LEMMA BeginKeepsDisk ==
  ASSUME IndInv, IndInv', ChangesAreTold, DeletionInv, NEW r \in Request, Begin(r)
  PROVE  DeletionInv'
<1> USE ServersAssumption
<1>1. PICK s \in Server :
        CreateServer(r, s) \/ StartServer(r, s) \/ StopServer(r, s) \/ DeleteServer(r, s)
  BY DEF Begin
<1>2. ASSUME NEW l \in {"create_port", "nova_start", "nova_stop"}, NEW state,
             state = [Idle EXCEPT !.at = l, !.srv = s]
      PROVE  state \in RequestState /\ state.at = l /\ state.srv = s
  BY <1>2, Idles DEF RequestState, Location
<1>3. CASE CreateServer(r, s)
  BY <1>2, <1>3, StartKeepsDisk DEF CreateServer
<1>4. CASE StartServer(r, s)
  BY <1>2, <1>4, StartKeepsDisk DEF StartServer
<1>5. CASE StopServer(r, s)
  BY <1>2, <1>5, StartKeepsDisk DEF StopServer
<1>6. CASE DeleteServer(r, s)
  <2>1. PICK b \in BOOLEAN : b = root[s].linked
    BY DEF IndInv, TypeOK, RootRow
  <2>2. PICK state : state = [Idle EXCEPT !.at = "nova_delete", !.srv = s, !.answer = b]
    OBVIOUS
  <2>3. /\ state \in RequestState
        /\ state.at = "nova_delete" /\ state.srv = s /\ state.answer = b
    BY <2>2, Idles DEF RequestState, Location
  <2> QED
    BY <1>6, <2>1, <2>2, <2>3, StartKeepsDisk DEF DeleteServer, RootInAnswer
<1> QED
  BY <1>1, <1>3, <1>4, <1>5, <1>6

LEMMA RestartKeepsDisk ==
  ASSUME IndInv, DeletionInv, Restart
  PROVE  DeletionInv'
<1>1. /\ UNCHANGED <<row, nic, root, nova, port, disk, unsure>>
      /\ \A r \in Request : request'[r] = Idle
      /\ blurred' = blurred \cup {s \in Server : Busy(s)}
  BY DEF Restart, tables, openstack
<1>2. Idle.clean = FALSE
  BY DEF Idle
<1>3. CleanIsAlone'
  BY <1>1, <1>2 DEF CleanIsAlone
<1>4. ASSUME NEW t \in Server PROVE DiskFits(t)' /\ DiskIsKnown(t)'
  <2>1. DiskFits(t)'
    BY <1>1 DEF DeletionInv, DisksFit, DiskFits
  <2>2. Sure(t)' => Sure(t) /\ ~Busy(t)
    BY <1>1 DEF Sure, Live
  <2>3. DiskIsKnown(t)'
    BY <1>1, <2>2 DEF DeletionInv, DisksFit, DiskIsKnown, Busy
  <2> QED
    BY <2>1, <2>3
<1>5. DeletionsKnow'
  BY <1>1, IdleKnows DEF DeletionsKnow, DeletionKnows, Deleting, Removing, RootTask
<1> QED
  BY <1>3, <1>4, <1>5 DEF DeletionInv, DisksFit

\* What a step of OpenStack has to show: only server s changes.
LEMMA OpenStackFits ==
  ASSUME IndInv, DeletionInv, NEW s \in Server, UNCHANGED <<row, nic, root, request>>, Growing,
         \A t \in Server \ {s} : nova'[t] = nova[t] /\ disk'[t] = disk[t],
         DiskFits(s)', DiskIsKnown(s)',
         \/ s \in blurred' \cup unsure'
         \/ /\ nova[s].status # "BUILD" => nova'[s].status # "BUILD"
            /\ disk'[s] = "EXISTS" => disk[s] = "EXISTS" \/ nova[s].status = "BUILD",
         disk[s] = "GONE" => disk'[s] = "GONE"
  PROVE  DeletionInv'
<1>1. CleanIsAlone /\ DisksFit /\ DeletionsKnow
  BY DEF DeletionInv
<1>2. CleanIsAlone'
  BY <1>1 DEF CleanIsAlone
<1>3. ASSUME NEW t \in Server \ {s} PROVE DiskFits(t)' /\ DiskIsKnown(t)'
  <2>1. nova'[t] = nova[t] /\ disk'[t] = disk[t]
    OBVIOUS
  <2>2. DiskFits(t) /\ DiskIsKnown(t) /\ (Sure(t)' => Sure(t))
    BY <1>1 DEF DisksFit, Sure, Live, Growing
  <2>3. \A p \in Request : Building(request[p])' <=> Building(request[p])
    BY DEF Building
  <2> QED
    BY <2>1, <2>2, <2>3 DEF DiskFits, DiskIsKnown, Growing
<1>4. ASSUME NEW p \in Request PROVE DeletionKnows(request[p])'
  <2>1. PICK q \in RequestState : q = request[p]
    BY DEF IndInv, TypeOK
  <2>2. DeletionKnows(q) /\ WellFormed(q)
    BY <1>1, <2>1 DEF DeletionsKnow, IndInv, RequestsWellFormed
  <2>3. DeletionKnows(q)'
    <3>1. CASE q = Idle
      BY <3>1, IdleKnows
    <3>2. CASE q # Idle /\ q.srv # s
      <4>1. q.srv \in Server
        BY <2>2, <3>2 DEF WellFormed, RequestState
      <4> QED
        BY <2>2, <3>2, <4>1, KnowledgeStays
    <3>3. CASE q.srv = s
      BY <2>2, <3>3 DEF DeletionKnows, Growing
    <3> QED
      BY <3>1, <3>2, <3>3
  <2> QED
    BY <2>1, <2>3 DEF DeletionKnows, Deleting
<1> QED
  BY <1>2, <1>3, <1>4 DEF DeletionInv, DisksFit, DeletionsKnow

\* A disk comes while the request that will write its row is on its way.
LEMMA NovaCompletesKeepsDisk ==
  ASSUME IndInv, IndInv', ChangesAreTold, DeletionInv, NEW s \in Server, NovaCompletes(s)
  PROVE  DeletionInv'
<1>1. PICK status \in Outcomes(nova[s]) :
        /\ nova' = [nova EXCEPT ![s] = [status |-> status, task |-> "none"]]
        /\ disk' = IF nova[s].status = "BUILD" /\ status = "ACTIVE"
                     THEN [disk EXCEPT ![s] = "EXISTS"] ELSE disk
  BY DEF NovaCompletes
<1>2. /\ UNCHANGED <<row, nic, root, request, blurred, unsure>> /\ Growing
      /\ TypeOK /\ DiskFits(s) /\ DiskIsKnown(s)
  BY DEF NovaCompletes, Calm, tables, IndInv, Growing, DeletionInv, DisksFit
<1>3. /\ nova'[s].status = status
      /\ \A t \in Server \ {s} : nova'[t] = nova[t] /\ disk'[t] = disk[t]
  BY <1>1, <1>2 DEF TypeOK
<1>4. /\ status \in {"ACTIVE", "SHUTOFF", "GONE", "ERROR"}
      /\ status = "ERROR" => nova[s].status = "BUILD"
      /\ nova[s].status # "GONE" /\ nova[s].status # "UNCREATED"
  <2>1. nova[s].task \in {"starting", "stopping", "deleting", "none"}
    BY <1>2 DEF TypeOK, NovaServer
  <2>2. nova[s].status \in {"GONE", "UNCREATED"} => nova[s].task = "none"
    BY DEF IndInv, ServersFit, ServerFits
  <2> QED
    BY <1>1, <2>1, <2>2 DEF Outcomes
<1>5. /\ disk'[s] = IF nova[s].status = "BUILD" /\ status = "ACTIVE" THEN "EXISTS" ELSE disk[s]
      /\ disk[s] = "GONE" => disk'[s] = "GONE"
  BY <1>1, <1>2 DEF TypeOK, DiskFits
<1>6. DiskFits(s)'
  BY <1>2, <1>3, <1>4, <1>5 DEF DiskFits
<1>7. DiskIsKnown(s)'
  <2> SUFFICES ASSUME Sure(s), disk'[s] = "EXISTS", nova'[s].status # "GONE", root[s].life # "live"
               PROVE  \E p \in Request : request[p].srv = s /\ Building(request[p])
    BY <1>2 DEF DiskIsKnown, Sure, Live, Building
  <2>1. CASE disk[s] = "EXISTS"
    BY <1>2, <1>4, <2>1 DEF DiskIsKnown
  <2>2. CASE nova[s].status = "BUILD"
    <3>1. RowIsTold(s)
      BY DEF ChangesAreTold
    <3>2. PICK p \in Request : request[p].srv = s /\ Tells(request[p])
      BY <2>2, <3>1 DEF RowIsTold
    <3>3. TellsRight(request[p])
      BY <3>1, <3>2 DEF RowIsTold
    <3>4. request[p].at \notin PowerTask
      BY <2>2, <3>2, <3>3 DEF TellsRight, Turning, PowerTask
    <3> QED
      BY <3>2, <3>4 DEF Tells
  <2> QED
    BY <1>5, <2>1, <2>2
<1> QED
  BY <1>2, <1>3, <1>4, <1>5, <1>6, <1>7, OpenStackFits

LEMMA OpenStackKeepsDisk ==
  ASSUME IndInv, IndInv', ChangesAreTold, DeletionInv, OpenStack
  PROVE  DeletionInv'
<1>1. PICK s \in Server : NovaCompletes(s) \/ NovaFails(s) \/ DiskIsDeleted(s)
  BY DEF OpenStack
<1>2. CASE NovaCompletes(s)
  BY <1>2, NovaCompletesKeepsDisk
<1>3. CASE NovaFails(s)
  <2>1. PICK status \in {"ERROR", nova[s].status} :
          nova' = [nova EXCEPT ![s] = [status |-> status, task |-> "none"]]
    BY <1>3 DEF NovaFails
  <2>2. /\ UNCHANGED <<row, nic, root, disk, request, unsure>> /\ Growing /\ s \in blurred'
        /\ TypeOK /\ DiskFits(s)
    BY <1>3 DEF NovaFails, tables, IndInv, Growing, DeletionInv, DisksFit
  <2>3. nova'[s].status = status /\ \A t \in Server \ {s} : nova'[t] = nova[t]
    BY <2>1, <2>2 DEF TypeOK
  <2>4. DiskFits(s)' /\ DiskIsKnown(s)'
    BY <2>2, <2>3 DEF DiskFits, DiskIsKnown, Sure
  <2> QED
    BY <2>2, <2>3, <2>4, OpenStackFits
<1>4. CASE DiskIsDeleted(s)
  <2>1. /\ UNCHANGED <<row, nic, root, nova, request, blurred, unsure>> /\ Growing
        /\ nova[s].status = "GONE" /\ disk' = [disk EXCEPT ![s] = "GONE"]
        /\ TypeOK /\ DiskFits(s)
    BY <1>4 DEF DiskIsDeleted, Calm, tables, IndInv, Growing, DeletionInv, DisksFit
  <2>2. disk'[s] = "GONE" /\ \A t \in Server \ {s} : disk'[t] = disk[t]
    BY <2>1 DEF TypeOK
  <2>3. DiskFits(s)' /\ DiskIsKnown(s)'
    BY <2>1, <2>2 DEF DiskFits, DiskIsKnown
  <2> QED
    BY <2>1, <2>2, <2>3, OpenStackFits
<1> QED
  BY <1>1, <1>2, <1>3, <1>4

LEMMA StutterKeepsDisk ==
  ASSUME DeletionInv, UNCHANGED vars
  PROVE  DeletionInv'
BY DEF vars, DeletionInv, CleanIsAlone, DisksFit, DiskFits, DiskIsKnown, Sure, Live, Building,
       DeletionsKnow, DeletionKnows, Deleting

LEMMA DeletionInitially == Init => DeletionInv
<1> SUFFICES ASSUME Init PROVE DeletionInv
  OBVIOUS
<1>1. \A r \in Request : request[r] = Idle /\ ~request[r].clean
  BY DEF Init, Idle
<1>2. CleanIsAlone
  BY <1>1 DEF CleanIsAlone
<1>3. DisksFit
  BY DEF Init, DisksFit, DiskFits, DiskIsKnown
<1>4. DeletionsKnow
  BY <1>1, IdleKnows DEF DeletionsKnow
<1> QED
  BY <1>2, <1>3, <1>4 DEF DeletionInv

LEMMA NextKeepsDisk ==
  IndInv /\ IndInv' /\ ChangesAreTold /\ DeletionInv /\ [Next]_vars => DeletionInv'
<1> SUFFICES ASSUME IndInv, IndInv', ChangesAreTold, DeletionInv, [Next]_vars
             PROVE  DeletionInv'
  OBVIOUS
<1>1. ASSUME NEW r \in Request, Begin(r) PROVE DeletionInv'
  BY <1>1, BeginKeepsDisk
<1>2. ASSUME NEW r \in Request, Resume(r) PROVE DeletionInv'
  <2>1. CASE CreatePort(r) \/ Undo(r)
    BY <2>1, CreatePortPasses, UndoPasses, PassingKeeps
  <2>2. CASE CreateInNova(r) \/ InsertServer(r)
    BY <2>2, CreateInNovaKeepsDisk, InsertKeepsDisk
  <2>3. CASE LoadBuilt(r) \/ LoadStarted(r) \/ LoadStopped(r) \/ LoadLeaving(r)
    BY <2>3, LoadLivePasses, PassingKeeps
  <2>4. CASE PollBuild(r) \/ SaveBuilt(r)
    BY <2>4, PollBuildPasses, PassingKeeps, SaveBuiltKeepsDisk
  <2>5. CASE NovaStart(r) \/ PollStart(r) \/ SaveStarted(r) \/ NovaStop(r) \/ PollStop(r) \/ SaveStopped(r)
    BY <2>5, PowerPasses, PassingKeeps
  <2>6. CASE \/ NovaDelete(r) \/ LoadResources(r) \/ RemovePorts(r) \/ PollServerGone(r)
             \/ LoadRoot(r) \/ PollRootGone(r)
    BY <2>6, DeletionPasses, PassingKeeps
  <2>7. CASE SaveResources(r) \/ SaveServerGone(r) \/ SaveRootGone(r)
    BY <2>7, SaveResourcesKeepsDisk, SaveServerGoneKeepsDisk, SaveRootGoneKeepsDisk
  <2> QED
    BY <1>2, <2>1, <2>2, <2>3, <2>4, <2>5, <2>6, <2>7 DEF Resume
<1>3. ASSUME NEW r \in Request, PollFails(r) PROVE DeletionInv'
  BY <1>3, PollFailsPasses, PassingKeeps
<1>4. CASE Restart
  BY <1>4, RestartKeepsDisk
<1>5. CASE OpenStack
  BY <1>5, OpenStackKeepsDisk
<1>6. CASE UNCHANGED vars
  BY <1>6, StutterKeepsDisk
<1> QED
  BY <1>1, <1>2, <1>3, <1>4, <1>5, <1>6 DEF Next

\* A step of a request changes no other request.
LEMMA OneResumes ==
  ASSUME IndInv, NEW p \in Request, Resume(p) \/ PollFails(p)
  PROVE  \A r \in Request \ {p} : request'[r] = request[r]
<1>1. /\ \A state : Become(p, state) => \A r \in Request \ {p} : request'[r] = request[r]
      /\ Finish(p) \/ PollAgain(p) \/ Raise(p) \/ (\E l : Await(p, l))
           => \E state : Become(p, state)
  BY DEF Become, IndInv, TypeOK, Finish, PollAgain, Raise, Await
<1>2. CASE CreatePort(p) \/ CreateInNova(p) \/ InsertServer(p) \/ Undo(p)
  BY <1>1, <1>2 DEF CreatePort, CreateInNova, InsertServer, Undo, Answered
<1>3. CASE PollBuild(p) \/ LoadBuilt(p) \/ SaveBuilt(p)
  BY <1>1, <1>3 DEF PollBuild, FromBuildTimeout, LoadBuilt, LoadLive, SaveBuilt, Dies
<1>4. CASE \/ NovaStart(p) \/ PollStart(p) \/ LoadStarted(p) \/ SaveStarted(p)
           \/ NovaStop(p) \/ PollStop(p) \/ LoadStopped(p) \/ SaveStopped(p)
  BY <1>1, <1>4 DEF NovaStart, NovaStop, PowerCall, PollStart, PollStop, PollPower,
     LoadStarted, LoadStopped, LoadLive, SaveStarted, SaveStopped, SavePower, Dies
<1>5. CASE NovaDelete(p) \/ LoadResources(p) \/ RemovePorts(p) \/ SaveResources(p)
  BY <1>1, <1>5 DEF NovaDelete, LoadResources, RemovePorts, SaveResources, Answered,
     PortFailure, Dies
<1>6. CASE \/ LoadLeaving(p) \/ PollServerGone(p) \/ SaveServerGone(p)
           \/ LoadRoot(p) \/ PollRootGone(p) \/ SaveRootGone(p) \/ PollFails(p)
  BY <1>1, <1>6 DEF LoadLeaving, LoadLive, PollServerGone, SaveServerGone, LoadRoot,
     PollRootGone, SaveRootGone, PollFails, Dies
<1> QED
  BY <1>2, <1>3, <1>4, <1>5, <1>6 DEF Resume

\* The step in which a deletion that had its server to itself ends.
DeletionEnds(r) ==
  /\ request[r].at = "root_load" \/ request[r].at = "root_save"
  /\ request[r].clean /\ request'[r].at = "idle"
  /\ request[r].srv \notin blurred' \cup unsure'

LEMMA EndingSteps ==
  ASSUME IndInv, [Next]_vars, NEW r \in Request, DeletionEnds(r)
  PROVE  LoadRoot(r) \/ SaveRootGone(r)
<1>1. request[r].at # "idle" /\ request'[r].at = "idle" /\ request[r].srv \in Server
  BY AtWork DEF DeletionEnds
<1>2. ~Restart
  BY <1>1 DEF Restart, Busy, DeletionEnds
<1>3. ~OpenStack /\ ~UNCHANGED vars
  BY <1>1 DEF OpenStack, NovaCompletes, NovaFails, DiskIsDeleted, vars
<1>4. ASSUME NEW p \in Request, Begin(p) PROVE FALSE
  <2>1. PICK state : Start(p, state)
    BY <1>4 DEF Begin, CreateServer, StartServer, StopServer, DeleteServer
  <2>2. PICK q \in RequestState : q = request[r]
    BY DEF IndInv, TypeOK
  <2>3. p # r /\ (request'[r] = q \/ request'[r] = [q EXCEPT !.clean = FALSE])
    BY <1>1, <2>1, <2>2 DEF Start
  <2> QED
    BY <1>1, <2>2, <2>3 DEF RequestState
<1>5. Resume(r) \/ PollFails(r)
  BY <1>1, <1>2, <1>3, <1>4, OneResumes DEF Next
<1> QED
  BY <1>5 DEF DeletionEnds, Resume, PollFails, CreatePort, CreateInNova, InsertServer, Undo,
     PollBuild, LoadBuilt, SaveBuilt, NovaStart, NovaStop, PowerCall, PollStart, PollStop,
     PollPower, LoadStarted, LoadStopped, LoadLeaving, LoadLive, SaveStarted, SaveStopped,
     SavePower, NovaDelete, LoadResources, RemovePorts, SaveResources, PollServerGone,
     SaveServerGone, PollRootGone

LEMMA LoneEnd ==
  ASSUME IndInv, DeletionInv, [Next]_vars,
         NEW r \in Request, DeletionEnds(r), NEW s \in Server, s = request[r].srv
  PROVE  /\ row'[s].life = "deleted" /\ nic'[s] = "deleted"
         /\ root'[s].life # "live" /\ disk'[s] # "EXISTS"
<1>1. PICK q \in RequestState : q = request[r]
  BY DEF IndInv, TypeOK
<1>2. /\ q.at \in {"root_load", "root_save"} /\ q.at \in RootTask /\ Deleting(q)
      /\ q.clean /\ request'[r].at = "idle" /\ s \notin blurred' \cup unsure'
  BY <1>1 DEF DeletionEnds, RootTask, Deleting
<1>3. DeletionKnows(q)
  BY <1>1 DEF DeletionInv, DeletionsKnow
<1>4. row[s].life = "deleted" /\ nic[s] = "deleted"
  BY <1>1, <1>2, <1>3 DEF DeletionKnows, IndInv, ServersFit, ServerFits
<1>5. CASE LoadRoot(r)
  <2>1. Calm /\ UNCHANGED <<row, nic, root, disk>>
    BY <1>5 DEF LoadRoot, tables, openstack
  <2>2. ~(q.answer /\ root[s].life = "live")
    <3>1. Await(r, "root_poll") => request'[r].at = "root_poll"
      BY <1>1 DEF Await, Become, IndInv, TypeOK, RequestState
    <3> QED
      BY <1>1, <1>2, <1>5, <3>1 DEF LoadRoot
  <2> QED
    BY <1>1, <1>2, <1>3, <1>4, <2>1, <2>2 DEF DeletionKnows, Calm
<1>6. CASE SaveRootGone(r)
  <2>1. /\ q.at = "root_save" /\ UNCHANGED <<row, nic, disk>>
        /\ root' = [root EXCEPT ![s].life = "deleted"]
    BY <1>1, <1>2, <1>6 DEF SaveRootGone, Dies, Blurs, openstack
  <2>2. root'[s].life = "deleted"
    BY <2>1 DEF IndInv, TypeOK, RootRow
  <2> QED
    BY <1>1, <1>3, <1>4, <2>1, <2>2 DEF DeletionKnows
<1> QED
  BY <1>5, <1>6, EndingSteps

---------------------------------------------------------------------------
(* The theorems.                                                           *)

\* What the requests know of their servers holds in every state; for every change
\* of a server that Nova has made or was asked for a request is on its way to tell
\* the row of it, however many requests race; and every disk has a row or the
\* request that will write it.
THEOREM RowsInvariance == Spec => []ServersInv
<1>1. Spec => []ChangesAreTold
  BY RowsInitially, NextTold, Invariance, PTL DEF Spec
<1>2. Spec => []DeletionInv
  BY DeletionInitially, NextKeepsDisk, <1>1, Invariance, PTL DEF Spec
<1>3. IndInv /\ ChangesAreTold /\ DeletionInv => ServersInv
  BY DEF ServersInv
<1> QED
  BY <1>1, <1>2, <1>3, Invariance, PTL

\* When no request works on a server its row shows the status Nova shows, unless
\* a failure hit a request on it or a poll loop gave up.
THEOREM QuietRowsSafe == Spec => []QuietRowsAgree
<1>1. ChangesAreTold => QuietRowsAgree
  <2> SUFFICES ASSUME ChangesAreTold, NEW s \in Server,
                      Live(s), ~Busy(s), s \notin blurred \cup unsure
               PROVE  row[s].status = nova[s].status
    BY DEF QuietRowsAgree
  <2>1. RemovalGoesOn(s) /\ RowIsTold(s)
    BY DEF ChangesAreTold, Sure
  <2>2. nova[s].status # "GONE"
    BY <2>1 DEF RemovalGoesOn, Busy
  <2> QED
    BY <2>1, <2>2 DEF RowIsTold, Busy
<1>2. ServersInv => ChangesAreTold
  BY DEF ServersInv
<1> QED
  BY <1>1, <1>2, RowsInvariance, PTL

\* DELETE /servers/{id} that has the server to itself until its last background
\* task ends, no failure and no timeout included, leaves the server, its NIC and
\* its root volume deleted, in the database and in OpenStack.
THEOREM LoneDeletionSafe == Spec => LoneDeletionLeavesNothing
<1>1. IndInv /\ DeletionInv /\ [Next]_vars =>
        [\A r \in Request :
           LET s == request[r].srv
           IN  /\ request[r].at = "root_load" \/ request[r].at = "root_save"
               /\ request[r].clean /\ request'[r].at = "idle"
               /\ s \notin blurred' \cup unsure'
               => /\ row'[s].life = "deleted" /\ nic'[s] = "deleted"
                  /\ root'[s].life # "live" /\ disk'[s] # "EXISTS"]_vars
  <2> SUFFICES ASSUME IndInv, DeletionInv, [Next]_vars,
                      NEW r \in Request, DeletionEnds(r)
               PROVE  /\ row'[request[r].srv].life = "deleted" /\ nic'[request[r].srv] = "deleted"
                      /\ root'[request[r].srv].life # "live" /\ disk'[request[r].srv] # "EXISTS"
    BY DEF DeletionEnds
  <2>1. request[r].srv \in Server
    BY AtWork DEF DeletionEnds
  <2> QED
    BY <2>1, LoneEnd
<1>2. ServersInv => IndInv /\ DeletionInv
  BY DEF ServersInv
<1> QED
  BY <1>1, <1>2, RowsInvariance, PTL DEF Spec, LoneDeletionLeavesNothing
=============================================================================
