------------------------- MODULE FloatingIps_proofs -------------------------
(***************************************************************************)
(* Proofs about FloatingIps, for any number of floating IPs, network       *)
(* interfaces and concurrent requests and any faults.  The invariant has   *)
(* two parts: what holds of the tables and of Neutron whatever happens     *)
(* (Base), and what the requests know of the floating IPs that no failure  *)
(* and no crossing has touched (Trust).  BaseStep and TrustStep say what a *)
(* step of one request has to show; then each action shows that.           *)
(***************************************************************************)
EXTENDS FloatingIps, TLAPS

Base ==
  /\ TypeOK
  /\ RequestsWellFormed
  /\ CreatesAlone
  /\ OthersHaveRows
  /\ AbsentIsUnlinked
  /\ PortsHaveOne
  /\ DeletedNicHasNoPort
  /\ DeletionsAreDone
  /\ DeletedIpIsGone
  /\ NoOrphanIp

Trust ==
  /\ FlightsAreApart
  /\ RemovalsKnow
  /\ FlightsAreKnown
  /\ OthersAreSettled

LEMMA Parts == IndInv <=> Base /\ Trust
BY DEF IndInv, Base, Trust

\* Lists of one undo task.
LEMMA OneTask ==
  ASSUME NEW t
  PROVE  /\ AddTask(<<>>, t) = <<t>>
         /\ LatestTask(<<t>>) = t
         /\ WithoutLatest(<<t>>) = <<>>
         /\ <<t>> # <<>>
<1>1. Len(<<t>>) = 1 /\ <<t>>[1] = t
  OBVIOUS
<1>2. AddTask(<<>>, t) = <<t>>
  BY DEF AddTask
<1>3. SubSeq(<<t>>, 1, 0) = <<>>
  OBVIOUS
<1> QED
  BY <1>1, <1>2, <1>3 DEF LatestTask, WithoutLatest

LEMMA TasksTyped ==
  ASSUME NEW q, WellFormed(q)
  PROVE  /\ q.tasks \in Seq({"delete_ip", "unbind", "rebind"})
         /\ q.tasks # <<>> <=> q.at \in {"insert", "save_bound", "save_unbound", "rollback"}
<1>1. Undoing(q) \in {"delete_ip", "unbind", "rebind"}
  BY DEF Undoing
<1>2. <<Undoing(q)>> \in Seq({"delete_ip", "unbind", "rebind"}) /\ <<Undoing(q)>> # <<>>
  BY <1>1
<1>3. CASE q.at \in {"insert", "save_bound", "save_unbound", "rollback"}
  <2>1. q.tasks = <<Undoing(q)>>
    BY <1>3 DEF WellFormed
  <2> QED
    BY <1>2, <1>3, <2>1
<1>4. CASE q.at \notin {"insert", "save_bound", "save_unbound", "rollback"}
  <2>1. q.tasks = <<>>
    BY <1>4 DEF WellFormed
  <2> QED
    BY <1>4, <2>1
<1> QED
  BY <1>3, <1>4

\* A floating IP of Neutron that is bound to another port, or to none.
LEMMA Rebound ==
  ASSUME TypeOK, NEW i \in Ip, NEW n \in Nic \cup {None}
  PROVE  \E N \in NeutronIp : N = [neutron[i] EXCEPT !.port = n]
<1>1. PICK S \in NeutronIp : S = neutron[i]
  BY DEF TypeOK
<1>2. [S EXCEPT !.port = n] \in NeutronIp
  BY DEF NeutronIp
<1> QED
  BY <1>1, <1>2

LEMMA Initially == Init => IndInv
<1> SUFFICES ASSUME Init PROVE IndInv
  OBVIOUS
<1> USE IpsAssumption
<1>1. TypeOK
  BY DEF Init, TypeOK, Row, NeutronIp, RequestState, Location, Idle
<1>2. \A r \in Request :
        request[r].at = "idle" /\ request[r].ip = None /\ request[r].tasks = <<>>
  BY DEF Init, Idle
<1>3. RequestsWellFormed /\ CreatesAlone /\ OthersHaveRows /\ DeletionsAreDone
  BY <1>2 DEF RequestsWellFormed, WellFormed, CreatesAlone, OthersHaveRows, Creating,
     DeletionsAreDone
<1>4. /\ AbsentIsUnlinked /\ PortsHaveOne /\ DeletedNicHasNoPort
      /\ DeletedIpIsGone /\ NoOrphanIp
  BY DEF Init, AbsentIsUnlinked, PortsHaveOne, DeletedNicHasNoPort, DeletedIpIsGone,
     NoOrphanIp
<1>5. Trust
  BY <1>2 DEF Init, Trust, Trusted, FlightsAreApart, RemovalsKnow, FlightsAreKnown,
     OthersAreSettled
<1> QED
  BY <1>1, <1>3, <1>4, <1>5, Parts DEF Base

---------------------------------------------------------------------------
(* The tables and Neutron.                                                 *)

\* A step of request r on floating IP i writes row R and leaves N in Neutron
\* and the request in `state`, and these fit together.
BaseFits(r, i, state, R, N) ==
  /\ request' = [request EXCEPT ![r] = state]
  /\ row' = [row EXCEPT ![i] = R]
  /\ neutron' = [neutron EXCEPT ![i] = N]
  /\ nic' = nic /\ port' = port
  /\ blurred \subseteq blurred' /\ blurred' \subseteq Ip /\ crossed' \subseteq Ip
  /\ WellFormed(state)
  /\ state.at = "idle" => state = Idle
  /\ state.at # "save_removed"
  /\ state.ip = i \/ state = Idle
  /\ request[r].ip \in {i, None}
  /\ \A p \in Request \ {r} : Creating(request[p]) => request[p].ip # i
  /\ Creating(state) =>
       /\ R.life = "absent"
       /\ \A p \in Request \ {r} : request[p].ip # i
       /\ state.at = "create_ip" => N.life = "UNCREATED"
       /\ state.at = "insert" => N.life = "EXISTS" /\ N.port = None
  /\ state.ip = i /\ ~Creating(state) => R.life # "absent"
  /\ R.life = "absent" => row[i].life = "absent" /\ R.nic = None
  /\ N.port # None =>
       /\ N.life = "EXISTS" /\ port[N.port] = "EXISTS"
       /\ \A j \in Ip : neutron[j].port = N.port => j = i
  /\ neutron[i].life = "GONE" \/ state.at = "soft_delete" \/ R.life = "deleted"
       => N.life = "GONE"
  /\ R.life = "absent" /\ N.life = "EXISTS" /\ state = Idle => i \in blurred'

LEMMA BaseStep ==
  ASSUME Base, NEW r \in Request, NEW i \in Ip, NEW state \in RequestState,
         NEW R \in Row, NEW N \in NeutronIp,
         BaseFits(r, i, state, R, N)
  PROVE  Base'
<1> USE IpsAssumption
<1>0. /\ TypeOK /\ RequestsWellFormed /\ CreatesAlone /\ OthersHaveRows /\ AbsentIsUnlinked
      /\ PortsHaveOne /\ DeletedNicHasNoPort /\ DeletionsAreDone /\ DeletedIpIsGone
      /\ NoOrphanIp
  BY DEF Base
<1>1. /\ request'[r] = state
      /\ \A p \in Request \ {r} : request'[p] = request[p]
      /\ row'[i] = R /\ \A j \in Ip \ {i} : row'[j] = row[j]
      /\ neutron'[i] = N /\ \A j \in Ip \ {i} : neutron'[j] = neutron[j]
      /\ state.ip = i \/ (state.ip = None /\ state.at = "idle" /\ state = Idle)
  BY <1>0 DEF TypeOK, Idle, BaseFits
<1> USE DEF BaseFits
<1>2. TypeOK'
  BY <1>0, <1>1 DEF TypeOK
<1>3. RequestsWellFormed'
  BY <1>0, <1>1 DEF RequestsWellFormed, WellFormed, Undoing
<1>4. CreatesAlone'
  <2> SUFFICES ASSUME NEW p \in Request, Creating(request'[p])
               PROVE  /\ row'[request'[p].ip].life = "absent"
                      /\ \A q \in Request \ {p} : request'[q].ip # request'[p].ip
                      /\ request'[p].at = "create_ip"
                           => neutron'[request'[p].ip].life = "UNCREATED"
                      /\ request'[p].at = "insert"
                           => /\ neutron'[request'[p].ip].life = "EXISTS"
                              /\ neutron'[request'[p].ip].port = None
    BY DEF CreatesAlone, Creating
  <2>0. request'[p].ip \in Ip
    <3>1. WellFormed(request'[p]) /\ request'[p] \in RequestState
      BY <1>2, <1>3 DEF RequestsWellFormed, WellFormed, Undoing, TypeOK
    <3>2. request'[p].ip # None
      BY <3>1 DEF WellFormed, Creating
    <3> QED
      BY <3>1, <3>2 DEF RequestState
  <2>1. CASE p = r
    <3>1. request'[p].ip = i
      BY <2>0, <2>1, <1>1
    <3> QED
      BY <2>1, <3>1, <1>1
  <2>2. CASE p # r
    <3>1. /\ row[request[p].ip].life = "absent"
          /\ \A q \in Request \ {p} : request[q].ip # request[p].ip
          /\ request[p].at = "create_ip" => neutron[request[p].ip].life = "UNCREATED"
          /\ request[p].at = "insert" => /\ neutron[request[p].ip].life = "EXISTS"
                                         /\ neutron[request[p].ip].port = None
      BY <2>2, <1>0, <1>1 DEF CreatesAlone
    <3>2. request[p].ip # i
      BY <2>2, <1>1
    <3>3. request'[r].ip # request[p].ip
      <4>1. request'[p] = request[p] /\ request'[r] = state
        BY <2>2, <1>1
      <4> QED
        BY <3>2, <2>0, <4>1, <1>1
    <3> QED
      BY <3>1, <3>2, <3>3, <2>0, <2>2, <1>1
  <2> QED
    BY <2>1, <2>2
<1>5. OthersHaveRows'
  <2> SUFFICES ASSUME NEW p \in Request, request'[p].ip # None, ~Creating(request'[p])
               PROVE  row'[request'[p].ip].life # "absent"
    BY DEF OthersHaveRows, Creating
  <2>0. request'[p].ip \in Ip
    BY <1>2 DEF TypeOK, RequestState
  <2>1. CASE p = r
    <3>1. state.ip = i /\ ~Creating(state)
      BY <2>0, <2>1, <1>1
    <3> QED
      BY <2>1, <3>1, <1>1
  <2>2. CASE p # r
    BY <2>0, <2>2, <1>0, <1>1 DEF OthersHaveRows
  <2> QED
    BY <2>1, <2>2
<1>6. AbsentIsUnlinked'
  BY <1>0, <1>1 DEF AbsentIsUnlinked
<1>7. PortsHaveOne'
  <2> SUFFICES ASSUME NEW j \in Ip, neutron'[j].port # None
               PROVE  /\ neutron'[j].life = "EXISTS"
                      /\ port'[neutron'[j].port] = "EXISTS"
                      /\ \A k \in Ip : neutron'[k].port = neutron'[j].port => k = j
    BY DEF PortsHaveOne
  <2>1. CASE j = i
    BY <2>1, <1>1
  <2>2. CASE j # i
    BY <2>2, <1>0, <1>1 DEF PortsHaveOne
  <2> QED
    BY <2>1, <2>2
<1>8. DeletedNicHasNoPort'
  BY <1>0 DEF DeletedNicHasNoPort
<1>9. DeletionsAreDone'
  <2> SUFFICES ASSUME NEW p \in Request
               PROVE  /\ request'[p].at = "soft_delete"
                           => neutron'[request'[p].ip].life = "GONE"
                      /\ request'[p].at = "save_removed" => port'[request'[p].nic] = "GONE"
    BY DEF DeletionsAreDone
  <2>1. CASE p = r
    <3>1. state.at = "soft_delete" => state.ip = i
      BY <1>1
    <3> QED
      BY <2>1, <3>1, <1>1
  <2>2. CASE p # r
    <3>1. request[p].at = "soft_delete" => request[p].ip \in Ip
      BY ZenonT(40), <1>0 DEF RequestsWellFormed, WellFormed, TypeOK, RequestState
    <3> QED
      BY <2>2, <3>1, <1>0, <1>1 DEF DeletionsAreDone
  <2> QED
    BY <2>1, <2>2
<1>10. DeletedIpIsGone'
  BY <1>0, <1>1 DEF DeletedIpIsGone
<1>11. NoOrphanIp'
  <2> SUFFICES ASSUME NEW j \in Ip, row'[j].life = "absent", ~Busy(j)', j \notin blurred'
               PROVE  neutron'[j].life # "EXISTS"
    BY DEF NoOrphanIp
  <2>1. CASE j = i
    <3>1. state.ip # i
      BY <2>1, <1>1 DEF Busy
    <3> QED
      BY <3>1, <2>1, <1>1
  <2>2. CASE j # i
    <3>1. ~Busy(j)
      BY <2>2, <1>1 DEF Busy
    <3> QED
      BY <2>2, <3>1, <1>0, <1>1 DEF NoOrphanIp
  <2> QED
    BY <2>1, <2>2
<1> QED
  BY <1>2, <1>3, <1>4, <1>5, <1>6, <1>7, <1>8, <1>9, <1>10, <1>11 DEF Base

---------------------------------------------------------------------------
(* The floating IPs that can be trusted.                                   *)

Flying ==
  {"save_bound", "save_unbound", "soft_delete", "rollback", "delete_port", "save_removed"}

Removing == {"delete_port", "save_removed"}

\* Two requests in flight that may both be about trusted floating IPs.
Apart(s, q) ==
  /\ s.ip # None /\ Trusted(s.ip) => q.ip # s.ip /\ (s.nic # None => q.nic # s.nic)
  /\ q.ip # None /\ Trusted(q.ip) => s.ip # q.ip /\ (q.nic # None => s.nic # q.nic)

\* A step leaves floating IP j, its row and the network interface in it alone.
Untouched(j) ==
  /\ Trusted(j)
  /\ row'[j] = row[j] /\ neutron'[j] = neutron[j]
  /\ row[j].nic # None => nic'[row[j].nic] = nic[row[j].nic]

\* A step leaves network interface n alone and binds nothing to it.
NicUntouched(n) ==
  /\ nic'[n] = nic[n] /\ port'[n] = port[n]
  /\ \A k \in Ip : neutron'[k].port = n => neutron[k].port = n

\* A step of request r on floating IP i (or on none) that leaves the request in
\* `state` leaves the other floating IPs alone, and its own state is right.
TrustFits(r, i, state) ==
  /\ request' = [request EXCEPT ![r] = state]
  /\ request[r].ip \in {i, None}
  /\ state.ip = i \/ (state.ip = None /\ state.at \notin Flying)
  /\ \A j \in Ip \ {i} : Trusted(j)' => Untouched(j)
  /\ \A p \in Request \ {r}, q \in RequestState :
       q = request[p] /\ q.at \in Flying /\ q.ip # None /\ Trusted(q.ip)'
         => Untouched(q.ip) /\ (q.nic # None => NicUntouched(q.nic))
  /\ /\ i # None /\ Trusted(i)' /\ state.at \notin Flying
     /\ \A p \in Request \ {r} : request[p].ip = i => request[p].at \notin Flying
     => Settled(i)'
  /\ state.ip # None /\ Trusted(state.ip)' => Known(state)'
  /\ state.at \in Flying =>
       \A p \in Request \ {r}, q \in RequestState :
         q = request[p] /\ q.at \in Flying => Apart(state, q)'
  /\ i # None /\ Trusted(i)' =>
       \A p \in Request \ {r} :
         request[p].at \in Removing /\ row'[i].nic = request[p].nic => request[p].ip = i
  /\ state.at \in Removing =>
       \A j \in Ip : Trusted(j)' /\ row'[j].nic = state.nic => state.ip = j

LEMMA TrustStep ==
  ASSUME Base, Base', Trust, NEW r \in Request, NEW i \in Ip \cup {None},
         NEW state \in RequestState,
         TrustFits(r, i, state)
  PROVE  Trust'
<1> USE IpsAssumption
<1>0. /\ FlightsAreApart /\ RemovalsKnow /\ FlightsAreKnown /\ OthersAreSettled
      /\ TypeOK /\ TypeOK'
  BY DEF Trust, Base
<1>1. /\ request'[r] = state
      /\ \A p \in Request \ {r} : request'[p] = request[p] /\ request[p] \in RequestState
      /\ \A p \in Request : request[p].ip \in Ip \cup {None}
  BY <1>0 DEF TypeOK, RequestState, TrustFits
<1> USE DEF TrustFits
<1>2. /\ \A p \in Request : InFlight(p) <=> request[p].at \in Flying
      /\ \A p \in Request : InFlight(p)' <=> request'[p].at \in Flying
  BY DEF InFlight, Flying
<1>3. FlightsAreApart'
  <2> SUFFICES ASSUME NEW p \in Request, NEW q \in Request, p # q,
                      NEW s \in RequestState, NEW u \in RequestState,
                      s = request'[p], u = request'[q],
                      s.at \in Flying, u.at \in Flying, s.ip # None, Trusted(s.ip)'
               PROVE  u.ip # s.ip /\ (s.nic # None => u.nic # s.nic)
    BY <1>0, <1>2 DEF FlightsAreApart, TypeOK, Trusted
  <2>1. CASE p = r
    <3>1. s = state /\ u = request[q] /\ q \in Request \ {r}
      BY <2>1, <1>1
    <3>2. Apart(state, u)'
      BY <3>1
    <3> QED
      BY <3>1, <3>2 DEF Apart
  <2>2. CASE q = r
    <3>1. u = state /\ s = request[p] /\ p \in Request \ {r}
      BY <2>2, <1>1
    <3>2. Apart(state, s)'
      BY <3>1
    <3> QED
      BY <3>1, <3>2 DEF Apart
  <2>3. CASE p # r /\ q # r
    <3>1. s = request[p] /\ u = request[q] /\ p \in Request \ {r}
      BY <2>3, <1>1
    <3>2. Trusted(s.ip)
      BY <3>1 DEF Untouched
    <3> QED
      BY <3>1, <3>2, <1>0, <1>2 DEF FlightsAreApart
  <2> QED
    BY <2>1, <2>2, <2>3
<1>4. RemovalsKnow'
  <2> SUFFICES ASSUME NEW p \in Request, NEW j \in Ip, request'[p].at \in Removing,
                      Trusted(j)', row'[j].nic = request'[p].nic
               PROVE  request'[p].ip = j
    BY DEF RemovalsKnow, Removing
  <2>1. CASE p = r
    BY <2>1, <1>1
  <2>2. CASE p # r /\ j = i
    BY <2>2, <1>1
  <2>3. CASE p # r /\ j # i
    <3>1. request'[p] = request[p] /\ Untouched(j)
      BY <2>3, <1>1
    <3> QED
      BY <3>1, <1>0 DEF RemovalsKnow, Untouched, Removing
  <2> QED
    BY <2>1, <2>2, <2>3
<1>5. FlightsAreKnown'
  <2> SUFFICES ASSUME NEW p \in Request, NEW q \in RequestState, q = request'[p],
                      q.ip # None, Trusted(q.ip)'
               PROVE  Known(q)'
    <3>1. \A p \in Request : request'[p] \in RequestState
      BY <1>0 DEF TypeOK
    <3> QED
      BY <3>1 DEF FlightsAreKnown, Known, Trusted, Bound, Released, Settled, Bindable
  <2>1. CASE p = r
    <3>1. q = state
      BY <2>1, <1>1
    <3> QED
      BY <3>1
  <2>2. CASE q.at \notin Flying
    BY <2>2 DEF Known, Flying
  <2>3. CASE p # r /\ q.at \in Flying
    <3>1. q = request[p] /\ p \in Request \ {r} /\ q.ip \in Ip
      BY <2>3, <1>1 DEF RequestState
    <3>2. Untouched(q.ip) /\ (q.nic # None => NicUntouched(q.nic))
      BY <2>3, <3>1
    <3>3. Known(q)
      BY <3>1, <3>2, <1>0 DEF FlightsAreKnown, Untouched
    <3>4. WellFormed(q)
      BY <3>1 DEF Base, RequestsWellFormed
    <3>5. Bound(q.ip, q.nic) /\ q.nic # None => Bound(q.ip, q.nic)'
      BY <3>2 DEF Untouched, NicUntouched, Bound
    <3>6. Released(q.ip, q.nic) /\ q.nic # None => Released(q.ip, q.nic)'
      BY <3>1, <3>2 DEF Untouched, NicUntouched, Released, Bindable
    <3>7. Settled(q.ip) /\ row[q.ip].nic = q.nic => (Settled(q.ip) /\ row[q.ip].nic = q.nic)'
      BY <3>1, <3>2 DEF Untouched, Settled
    <3>8. q.at \in {"save_bound", "save_unbound"} => q.nic # None
      BY <3>4 DEF WellFormed
    <3>9. Creating(q) => row[q.ip].life = "absent"
      BY <3>1 DEF Base, CreatesAlone
    <3>10. q.at = "rollback" => q.nic # None
      BY <3>2, <3>9 DEF Creating, Untouched, Trusted
    <3> QED
      BY <3>2, <3>3, <3>5, <3>6, <3>7, <3>8, <3>10 DEF Known, Untouched
  <2> QED
    BY <2>1, <2>2, <2>3
<1>6. OthersAreSettled'
  <2> SUFFICES ASSUME NEW j \in Ip, Trusted(j)',
                      \A q \in Request : request'[q].ip = j => request'[q].at \notin Flying
               PROVE  Settled(j)'
    BY <1>2 DEF OthersAreSettled
  <2>1. CASE j = i
    <3>1. i # None
      BY <2>1
    <3>2. \A p \in Request \ {r} : request[p].ip = i => request[p].at \notin Flying
      BY <2>1, <1>1
    <3>3. CASE state.ip = i
      BY <2>1, <3>1, <3>2, <3>3, <1>1
    <3>4. CASE state.at \notin Flying
      BY <2>1, <3>1, <3>2, <3>4
    <3> QED
      BY <3>3, <3>4
  <2>2. CASE j # i
    <3>1. Untouched(j)
      BY <2>2
    <3>2. \A q \in Request : request[q].ip = j => ~InFlight(q)
      BY <2>2, <1>1, <1>2
    <3>3. Settled(j)
      BY <3>1, <3>2, <1>0 DEF OthersAreSettled, Untouched
    <3> QED
      BY <3>1, <3>3 DEF Untouched, Settled
  <2> QED
    BY <2>1, <2>2
<1> QED
  BY <1>3, <1>4, <1>5, <1>6 DEF Trust

---------------------------------------------------------------------------
(* Steps that change neither a table nor Neutron.                          *)

\* The state of a request, typed.
LEMMA Typed ==
  ASSUME Base, NEW r \in Request
  PROVE  /\ request[r] \in RequestState /\ WellFormed(request[r])
         /\ request[r].at = "idle" => request[r] = Idle
         /\ request[r].ip \in Ip \cup {None}
         /\ request[r].nic \in Nic \cup {None}
         /\ request[r].loaded \in Nic \cup {None}
BY DEF Base, TypeOK, RequestsWellFormed, RequestState

LEMMA IdleFits ==
  /\ Idle \in RequestState /\ WellFormed(Idle) /\ ~Creating(Idle)
  /\ Idle.at = "idle" /\ Idle.ip = None /\ Idle.nic = None /\ Idle.at \notin Flying
BY DEF Idle, RequestState, Location, WellFormed, Creating, Flying

LEMMA OneStep ==
  ASSUME IndInv, NEW r \in Request, NEW i \in Ip, NEW state \in RequestState,
         NEW R \in Row, NEW N \in NeutronIp,
         BaseFits(r, i, state, R, N), TrustFits(r, i, state)
  PROVE  IndInv'
<1>1. Base /\ Trust
  BY Parts
<1>2. Base'
  BY <1>1, BaseStep
<1>3. Trust'
  BY <1>1, <1>2, TrustStep
<1> QED
  BY <1>2, <1>3 DEF IndInv, Base, Trust

\* A request starts, or ends, with nothing of its own in flight.
Quiet(r, i, state) ==
  /\ request' = [request EXCEPT ![r] = state]
  /\ UNCHANGED <<row, nic, neutron, port, blurred, crossed>>
  /\ request[r].ip \in {i, None}
  /\ request[r].at \notin Flying
  /\ WellFormed(state)
  /\ state.at \notin Flying
  /\ state.at = "idle" => state = Idle
  /\ state.ip = i \/ state = Idle
  /\ \A p \in Request \ {r} : Creating(request[p]) => request[p].ip # i
  /\ Creating(state) =>
       /\ row[i].life = "absent"
       /\ \A p \in Request \ {r} : request[p].ip # i
       /\ state.at = "create_ip" /\ neutron[i].life = "UNCREATED"
  /\ state.ip = i /\ ~Creating(state) => row[i].life # "absent"
  /\ row[i].life = "absent" /\ state = Idle => neutron[i].life # "EXISTS"

LEMMA QuietStep ==
  ASSUME IndInv, NEW r \in Request, NEW i \in Ip, NEW state \in RequestState,
         Quiet(r, i, state)
  PROVE  IndInv'
<1> USE IpsAssumption
<1> USE DEF Quiet
<1>0. Base /\ Trust
  BY Parts
<1>1. /\ row[i] \in Row /\ neutron[i] \in NeutronIp
      /\ row' = [row EXCEPT ![i] = row[i]]
      /\ neutron' = [neutron EXCEPT ![i] = neutron[i]]
      /\ blurred' \subseteq Ip /\ crossed' \subseteq Ip
  BY <1>0 DEF Base, TypeOK
<1>2. \A R \in Row, N \in NeutronIp :
        R = row[i] /\ N = neutron[i] => BaseFits(r, i, state, R, N)
  <2>1. neutron[i].port # None =>
           /\ neutron[i].life = "EXISTS" /\ port[neutron[i].port] = "EXISTS"
           /\ \A j \in Ip : neutron[j].port = neutron[i].port => j = i
    BY <1>0 DEF Base, PortsHaveOne
  <2>2. row[i].life = "absent" => row[i].nic = None
    BY <1>0 DEF Base, AbsentIsUnlinked
  <2>3. row[i].life = "deleted" => neutron[i].life = "GONE"
    BY <1>0 DEF Base, DeletedIpIsGone
  <2>4. state.at \notin {"soft_delete", "save_removed"}
    BY DEF Flying
  <2> TAKE R \in Row, N \in NeutronIp
  <2> HAVE R = row[i] /\ N = neutron[i]
  <2> QED
    BY <1>1, <2>1, <2>2, <2>3, <2>4 DEF BaseFits
<1>3. TrustFits(r, i, state)
  <2>1. \A j \in Ip : Trusted(j)' => Untouched(j)
    BY DEF Trusted, Untouched
  <2>2. \A n : NicUntouched(n)
    BY DEF NicUntouched
  <2>3. /\ Trusted(i)' /\ \A p \in Request \ {r} : request[p].ip = i => request[p].at \notin Flying
        => Settled(i)'
    <3>1. Trusted(i)' => Trusted(i)
      BY DEF Trusted
    <3>2. Settled(i) => Settled(i)'
      BY DEF Settled
    <3> QED
      BY <1>0, <3>1, <3>2 DEF Trust, OthersAreSettled, InFlight, Flying
  <2>4. Known(state)'
    BY DEF Known, Flying
  <2>5. state.at \notin Removing
    BY DEF Flying, Removing
  <2>6. Trusted(i)' => \A p \in Request \ {r} :
          request[p].at \in Removing /\ row'[i].nic = request[p].nic => request[p].ip = i
    BY <1>0 DEF Trust, RemovalsKnow, Trusted, Removing
  <2>7. state.ip = i \/ (state.ip = None /\ state.at \notin Flying)
    BY IdleFits
  <2>8. \A q \in RequestState : q.ip # None /\ Trusted(q.ip)' => Untouched(q.ip)
    BY <2>1 DEF RequestState
  <2> QED
    BY <2>1, <2>2, <2>3, <2>4, <2>5, <2>6, <2>7, <2>8 DEF TrustFits
<1> QED
  BY <1>1, <1>2, <1>3, OneStep

---------------------------------------------------------------------------
(* Calls of Neutron.                                                       *)

\* A creation has its floating IP to itself.
LEMMA Alone ==
  ASSUME IndInv, NEW r \in Request, NEW i \in Ip, request[r].ip = i
  PROVE  /\ \A p \in Request \ {r} : Creating(request[p]) => request[p].ip # i
         /\ Creating(request[r]) =>
              row[i].life = "absent" /\ \A p \in Request \ {r} : request[p].ip # i
         /\ ~Creating(request[r]) => row[i].life # "absent"
<1> USE IpsAssumption
<1>1. CreatesAlone /\ OthersHaveRows
  BY DEF IndInv
<1>2. i # None
  OBVIOUS
<1> QED
  BY <1>1, <1>2 DEF CreatesAlone, OthersHaveRows

LEMMA Blurring ==
  ASSUME TypeOK, NEW r \in Request, Blurs(r)
  PROVE  /\ blurred \subseteq blurred' /\ blurred' \subseteq Ip
         /\ request[r].ip # None => request[r].ip \in blurred'
         /\ \A j \in Ip : neutron[j].port = request[r].nic => j \in blurred'
<1> USE IpsAssumption
<1>1. request[r].ip \in Ip \cup {None}
  BY DEF TypeOK, RequestState
<1>2. Touched(r) \subseteq Ip
  BY <1>1 DEF Touched
<1>3. request[r].ip # None => request[r].ip \in Touched(r)
  BY DEF Touched
<1>4. \A j \in Ip : neutron[j].port = request[r].nic => j \in Touched(r)
  BY DEF Touched
<1> QED
  BY <1>2, <1>3, <1>4 DEF Blurs, TypeOK

LEMMA Crossing ==
  ASSUME TypeOK, NEW r \in Request, NEW state \in RequestState
  PROVE  /\ Crossings(r, state) \subseteq Ip
         /\ \A p \in Request \ {r} :
              Meets(p, state) =>
                /\ state.ip # None => state.ip \in Crossings(r, state)
                /\ request[p].ip # None => request[p].ip \in Crossings(r, state)
<1> USE IpsAssumption
<1>1. state.ip \in Ip \cup {None} /\ \A p \in Request : request[p].ip \in Ip \cup {None}
  BY DEF TypeOK, RequestState
<1> QED
  BY <1>1 DEF Crossings

\* A call that is refused ends a request that has done nothing yet.
LEMMA RefusedCall ==
  ASSUME IndInv, NEW r \in Request,
         request[r].at \in {"create_ip", "delete_ip", "bind", "unbind"},
         Raise(r), Calm, UNCHANGED <<row, nic, neutron, port>>
  PROVE  IndInv'
<1> USE IpsAssumption
<1>0. Base /\ Trust
  BY Parts
<1>1. /\ WellFormed(request[r]) /\ request[r].ip \in Ip
      /\ request[r].at \notin Flying
  BY <1>0, Typed DEF WellFormed, Flying
<1>2. PICK i \in Ip : request[r].ip = i
  BY <1>1
<1>3. request[r].tasks = <<>>
  BY <1>1 DEF WellFormed
<1>4. request' = [request EXCEPT ![r] = Idle]
  BY <1>3 DEF Raise, Become
<1>5. row[i].life = "absent" => neutron[i].life # "EXISTS"
  <2>1. Creating(request[r]) => request[r].at = "create_ip"
    BY DEF Creating
  <2>2. Creating(request[r]) => neutron[i].life = "UNCREATED"
    BY <1>0, <1>2, <2>1 DEF Base, CreatesAlone
  <2> QED
    BY <1>2, <2>2, Alone
<1>6. UNCHANGED <<row, nic, neutron, port, blurred, crossed>>
  BY DEF Calm
<1>7. request[r].ip \in {i, None} /\ Idle.ip # i
  BY <1>2, IdleFits
<1>8. \A p \in Request \ {r} : Creating(request[p]) => request[p].ip # i
  BY <1>2, Alone
<1>9. Idle \in RequestState /\ WellFormed(Idle) /\ ~Creating(Idle) /\ Idle.at \notin Flying
  BY IdleFits
<1> QED
  BY <1>1, <1>4, <1>5, <1>6, <1>7, <1>8, <1>9, QuietStep DEF Quiet

\* A call of request r that Neutron takes makes floating IP i, which the
\* request is about, N; `state` is what the answer makes of the request.
Taken(r, i, state, N) ==
  /\ request[r].ip = i
  /\ request[r].at \in {"create_ip", "delete_ip", "bind", "unbind"}
  /\ WellFormed(state)
  /\ state.ip = i
  /\ state.at \in {"insert", "soft_delete", "save_bound", "save_unbound"}
  /\ state.at = "insert" <=> request[r].at = "create_ip"
  /\ neutron' = [neutron EXCEPT ![i] = N]
  /\ crossed' = crossed \cup Crossings(r, state)
  /\ \/ Become(r, state) /\ UNCHANGED blurred
     \/ Finish(r) /\ Blurs(r)
  /\ UNCHANGED <<row, nic, port>>
  /\ N.port \in {None, state.nic}
  /\ N.port # None =>
       /\ N.life = "EXISTS" /\ port[N.port] = "EXISTS"
       /\ \A j \in Ip : neutron[j].port = N.port => j = i
  /\ neutron[i].life = "GONE" \/ state.at = "soft_delete" => N.life = "GONE"
  /\ state.at = "insert" => N.life = "EXISTS" /\ N.port = None

LEMMA TakenCall ==
  ASSUME IndInv, NEW r \in Request, NEW i \in Ip, NEW state \in RequestState,
         NEW N \in NeutronIp,
         Taken(r, i, state, N),
         Trusted(i)' => Known(state)'
  PROVE  IndInv'
<1> USE IpsAssumption
<1> USE DEF Taken
<1>0. Base /\ Trust /\ TypeOK
  BY Parts DEF Base
<1>1. PICK next \in RequestState :
        /\ next = state \/ next = Idle
        /\ request' = [request EXCEPT ![r] = next]
        /\ next = Idle => i \in blurred'
  <2>1. i # None /\ state # Idle
    BY IdleFits
  <2>2. CASE Become(r, state)
    BY <2>1, <2>2 DEF Become
  <2>3. CASE Finish(r) /\ Blurs(r)
    BY <2>1, <2>3, <1>0, Blurring, IdleFits DEF Finish, Become
  <2> QED
    BY <2>2, <2>3
<1>2. /\ blurred \subseteq blurred' /\ blurred' \subseteq Ip
      /\ crossed \subseteq crossed' /\ crossed' \subseteq Ip
  BY <1>0, Blurring, Crossing DEF TypeOK
<1>3. Creating(state) <=> Creating(request[r])
  BY DEF Creating
<1>4. \A R \in Row : R = row[i] => BaseFits(r, i, next, R, N)
  <2> TAKE R \in Row
  <2> HAVE R = row[i]
  <2>1. /\ row' = [row EXCEPT ![i] = R]
        /\ nic' = nic /\ port' = port
    BY <1>0 DEF TypeOK
  <2>2. /\ WellFormed(next)
        /\ next.at = "idle" => next = Idle
        /\ next.at # "save_removed"
        /\ next.ip = i \/ next = Idle
        /\ request[r].ip \in {i, None}
    BY <1>1, IdleFits
  <2>3. /\ \A p \in Request \ {r} : Creating(request[p]) => request[p].ip # i
        /\ Creating(next) =>
             R.life = "absent" /\ \A p \in Request \ {r} : request[p].ip # i
        /\ next.ip = i /\ ~Creating(next) => R.life # "absent"
    BY <1>1, <1>3, Alone, IdleFits
  <2>4. /\ next.at # "create_ip"
        /\ next.at = "insert" => N.life = "EXISTS" /\ N.port = None
    BY <1>1, IdleFits
  <2>5. /\ R.life = "absent" => row[i].life = "absent" /\ R.nic = None
        /\ R.life = "deleted" => neutron[i].life = "GONE"
    BY <1>0 DEF Base, AbsentIsUnlinked, DeletedIpIsGone
  <2>6. neutron[i].life = "GONE" \/ next.at = "soft_delete" \/ R.life = "deleted"
          => N.life = "GONE"
    BY <2>5, <1>1, IdleFits
  <2> QED
    BY <1>1, <1>2, <2>1, <2>2, <2>3, <2>4, <2>5, <2>6 DEF BaseFits
<1>5. TrustFits(r, i, next)
  <2>1. \A j \in Ip : Trusted(j)' => Trusted(j)
    BY <1>2 DEF Trusted
  <2>2. \A j \in Ip \ {i} : Trusted(j)' => Untouched(j)
    BY <2>1, <1>0 DEF Untouched, TypeOK
  <2>3. \A p \in Request \ {r}, q \in RequestState :
          q = request[p] /\ q.at \in Flying /\ Meets(p, state) =>
            ~Trusted(i)' /\ (q.ip # None => ~Trusted(q.ip)')
    BY <1>0, <1>2, Crossing DEF Trusted
  <2>4. \A p \in Request \ {r}, q \in RequestState :
          q = request[p] /\ q.at \in Flying =>
            /\ q.ip = i => Meets(p, state)
            /\ q.nic # None /\ q.nic = state.nic => Meets(p, state)
    BY DEF Meets, InFlight, Flying
  <2>5. ASSUME NEW p \in Request \ {r}, NEW q \in RequestState,
               q = request[p], q.at \in Flying, q.ip # None, Trusted(q.ip)'
        PROVE  Untouched(q.ip) /\ (q.nic # None => NicUntouched(q.nic))
    <3>1. q.ip # i /\ (q.nic # None => q.nic # state.nic)
      BY <2>3, <2>4, <2>5
    <3>2. Untouched(q.ip)
      BY <3>1, <2>2, <2>5 DEF RequestState
    <3>3. q.nic # None => \A k \in Ip : neutron'[k].port = q.nic => neutron[k].port = q.nic
      BY <3>1, <1>0 DEF TypeOK
    <3> QED
      BY <3>2, <3>3 DEF NicUntouched
  <2>6. next.at \notin Flying /\ Trusted(i)' => Settled(i)'
    <3>1. state.at \notin Flying => row[i].life = "absent"
      BY <1>3, Alone DEF Flying, Creating
    <3> QED
      BY <3>1, <1>1 DEF Trusted
  <2>7. next.ip # None /\ Trusted(next.ip)' => Known(next)'
    <3>1. CASE next = state
      BY <3>1
    <3>2. CASE next = Idle
      BY <3>2, IdleFits
    <3> QED
      BY <3>1, <3>2, <1>1
  <2>8. ASSUME NEW p \in Request \ {r}, NEW q \in RequestState,
               q = request[p], q.at \in Flying, next.at \in Flying
        PROVE  Apart(next, q)'
    <3>1. next = state
      BY <2>8, <1>1, IdleFits
    <3>2. Apart(state, q)'
      BY <2>3, <2>4, <2>8 DEF Apart
    <3> QED
      BY <3>1, <3>2
  <2>9. Trusted(i)' => \A p \in Request \ {r} :
          request[p].at \in Removing /\ row'[i].nic = request[p].nic => request[p].ip = i
    BY <2>1, <1>0 DEF Trust, RemovalsKnow, Removing
  <2>10. next.at \notin Removing
    BY <1>1, IdleFits DEF Removing, Flying
  <2>11. request[r].ip \in {i, None} /\ (next.ip = i \/ (next.ip = None /\ next.at \notin Flying))
    BY <1>1, IdleFits
  <2> QED
    BY <1>1, <2>2, <2>5, <2>6, <2>7, <2>8, <2>9, <2>10, <2>11 DEF TrustFits
<1>6. row[i] \in Row
  BY <1>0 DEF TypeOK
<1> QED
  BY <1>4, <1>5, <1>6, OneStep

\* A call of Neutron is taken, or is refused.
LEMMA CallStep ==
  ASSUME IndInv, NEW r \in Request, NEW i \in Ip, NEW state \in RequestState,
         NEW N \in NeutronIp, NEW takes \in BOOLEAN,
         request[r].at \in {"create_ip", "delete_ip", "bind", "unbind"},
         request[r].ip = i,
         IpCall(r, takes, N, state),
         takes /\ crossed' = crossed \cup Crossings(r, state)
         /\ neutron' = [neutron EXCEPT ![i] = N] /\ UNCHANGED <<row, nic, port>>
         /\ blurred \subseteq blurred' =>
           /\ WellFormed(state)
           /\ state.ip = i
           /\ state.at \in {"insert", "soft_delete", "save_bound", "save_unbound"}
           /\ state.at = "insert" <=> request[r].at = "create_ip"
           /\ N.port \in {None, state.nic}
           /\ N.port # None =>
                /\ N.life = "EXISTS" /\ port[N.port] = "EXISTS"
                /\ \A j \in Ip : neutron[j].port = N.port => j = i
           /\ neutron[i].life = "GONE" \/ state.at = "soft_delete" => N.life = "GONE"
           /\ state.at = "insert" => N.life = "EXISTS" /\ N.port = None
           /\ Trusted(i)' => Known(state)'
  PROVE  IndInv'
<1>1. UNCHANGED <<row, nic, port>>
  BY DEF IpCall, tables
<1>2. CASE /\ takes
           /\ neutron' = [neutron EXCEPT ![request[r].ip] = N]
           /\ crossed' = crossed \cup Crossings(r, state)
           /\ \/ Become(r, state) /\ UNCHANGED blurred
              \/ Dies(r, "lost_answer")
  <2>1. \/ Become(r, state) /\ UNCHANGED blurred
        \/ Finish(r) /\ Blurs(r)
    BY <1>2 DEF Dies
  <2>2. blurred \subseteq blurred'
    BY <2>1 DEF Blurs
  <2>3. Taken(r, i, state, N) /\ (Trusted(i)' => Known(state)')
    BY <1>1, <1>2, <2>1, <2>2 DEF Taken
  <2> QED
    BY <2>3, TakenCall
<1>3. CASE Refusal(r, state) /\ Calm /\ UNCHANGED neutron
  BY <1>1, <1>3, RefusedCall DEF Refusal
<1> QED
  BY <1>2, <1>3 DEF IpCall

LEMMA CreateInNeutronStep ==
  ASSUME IndInv, NEW r \in Request, CreateInNeutron(r)
  PROVE  IndInv'
<1> USE IpsAssumption
<1>0. Base /\ TypeOK
  BY Parts DEF Base
<1>1. PICK q \in RequestState : q = request[r] /\ WellFormed(q) /\ q.at = "create_ip"
  BY <1>0, Typed DEF CreateInNeutron
<1>2. PICK i \in Ip : q.ip = i /\ q.nic = None /\ q.loaded = None /\ q.tasks = <<>>
  BY <1>1 DEF WellFormed, RequestState
<1>3. PICK state \in RequestState :
        state = [q EXCEPT !.at = "insert", !.tasks = <<"delete_ip">>]
  <2>1. <<"delete_ip">> \in Seq({"delete_ip", "unbind", "rebind"})
    OBVIOUS
  <2> QED
    BY <1>1, <2>1 DEF RequestState, Location
<1>4. PICK N \in NeutronIp : N = [life |-> "EXISTS", port |-> None]
  BY DEF NeutronIp
<1>5. IpCall(r, TRUE, N, state)
  BY <1>1, <1>2, <1>3, <1>4, OneTask DEF CreateInNeutron, WithIpUndo
<1>6. /\ state.at = "insert" /\ state.ip = i /\ state.nic = None /\ state.loaded = None
      /\ state.tasks = <<"delete_ip">>
  BY <1>2, <1>3 DEF RequestState
<1>7. WellFormed(state)
  BY <1>6 DEF WellFormed, Undoing
<1>8. Known(state)'
  BY <1>6 DEF Known
<1>9. neutron[i].life = "UNCREATED"
  BY <1>0, <1>1, <1>2 DEF Base, CreatesAlone, Creating
<1> QED
  BY <1>1, <1>2, <1>4, <1>5, <1>6, <1>7, <1>8, <1>9, CallStep

LEMMA DeleteInNeutronStep ==
  ASSUME IndInv, NEW r \in Request, DeleteInNeutron(r)
  PROVE  IndInv'
<1> USE IpsAssumption
<1>0. Base /\ TypeOK
  BY Parts DEF Base
<1>1. PICK q \in RequestState : q = request[r] /\ WellFormed(q) /\ q.at = "delete_ip"
  BY <1>0, Typed DEF DeleteInNeutron
<1>2. PICK i \in Ip : q.ip = i /\ q.nic = None /\ q.loaded = None /\ q.tasks = <<>>
  BY <1>1 DEF WellFormed, RequestState
<1>3. PICK state \in RequestState : state = [q EXCEPT !.at = "soft_delete"]
  BY <1>1 DEF RequestState, Location
<1>4. PICK N \in NeutronIp : N = Gone
  BY DEF NeutronIp, Gone
<1>5. PICK takes \in BOOLEAN : takes = (neutron[i].life = "EXISTS")
  OBVIOUS
<1>6. IpCall(r, takes, N, state)
  BY <1>1, <1>2, <1>3, <1>4, <1>5 DEF DeleteInNeutron
<1>7. /\ state.at = "soft_delete" /\ state.ip = i /\ state.nic = None
      /\ state.loaded = None /\ state.tasks = <<>>
  BY <1>2, <1>3 DEF RequestState
<1>8. WellFormed(state)
  BY <1>7 DEF WellFormed
<1>9. Known(state)'
  BY <1>7 DEF Known
<1>10. N.life = "GONE" /\ N.port = None
  BY <1>4 DEF Gone
<1> QED
  BY <1>1, <1>2, <1>6, <1>7, <1>8, <1>9, <1>10, CallStep

LEMMA BindIpStep ==
  ASSUME IndInv, NEW r \in Request, BindIp(r)
  PROVE  IndInv'
<1> USE IpsAssumption
<1>0. Base /\ TypeOK
  BY Parts DEF Base
<1>1. PICK q \in RequestState : q = request[r] /\ WellFormed(q) /\ q.at = "bind"
  BY <1>0, Typed DEF BindIp
<1>2. PICK i \in Ip, n \in Nic : q.ip = i /\ q.nic = n /\ q.loaded = None /\ q.tasks = <<>>
  BY <1>1 DEF WellFormed, RequestState
<1>3. PICK state \in RequestState :
        state = [q EXCEPT !.at = "save_bound", !.tasks = <<"unbind">>]
  <2>1. <<"unbind">> \in Seq({"delete_ip", "unbind", "rebind"})
    OBVIOUS
  <2> QED
    BY <1>1, <2>1 DEF RequestState, Location
<1>4. PICK N \in NeutronIp : N = [neutron[i] EXCEPT !.port = n]
  BY <1>0, Rebound
<1>5. PICK takes \in BOOLEAN : takes = Bindable(i, n)
  BY DEF Bindable
<1>6. IpCall(r, takes, N, state)
  BY <1>1, <1>2, <1>3, <1>4, <1>5, OneTask DEF BindIp
<1>7. /\ state.at = "save_bound" /\ state.ip = i /\ state.nic = n /\ state.loaded = None
      /\ state.tasks = <<"unbind">>
  BY <1>2, <1>3 DEF RequestState
<1>8. WellFormed(state)
  BY <1>7 DEF WellFormed, Undoing
<1>9. N.port = n /\ N.life = neutron[i].life
  BY <1>0, <1>4 DEF TypeOK, NeutronIp
<1>10. takes => /\ N.life = "EXISTS" /\ port[n] = "EXISTS" /\ nic[n] = "live"
                /\ \A j \in Ip : neutron[j].port = n => j = i
  BY <1>0, <1>5, <1>9 DEF Bindable, Base, DeletedNicHasNoPort, TypeOK
<1>11. /\ takes /\ neutron' = [neutron EXCEPT ![i] = N] /\ UNCHANGED <<row, nic, port>>
       => Known(state)'
  <2> SUFFICES ASSUME takes, neutron' = [neutron EXCEPT ![i] = N],
                      UNCHANGED <<row, nic, port>>
               PROVE  Known(state)'
    OBVIOUS
  <2>1. Bound(i, n)'
    BY <1>0, <1>9, <1>10 DEF Bound, TypeOK
  <2> QED
    BY <1>7, <2>1 DEF Known
<1> QED
  BY <1>1, <1>2, <1>6, <1>7, <1>8, <1>9, <1>10, <1>11, CallStep

LEMMA UnbindIpStep ==
  ASSUME IndInv, NEW r \in Request, UnbindIp(r)
  PROVE  IndInv'
<1> USE IpsAssumption
<1>0. Base /\ TypeOK /\ Trust
  BY Parts DEF Base
<1>1. PICK q \in RequestState : q = request[r] /\ WellFormed(q) /\ q.at = "unbind"
  BY <1>0, Typed DEF UnbindIp
<1>2. PICK i \in Ip, n \in Nic : q.ip = i /\ q.nic = n /\ q.loaded = n /\ q.tasks = <<>>
  BY <1>1 DEF WellFormed, RequestState
<1>3. PICK state \in RequestState :
        state = [q EXCEPT !.at = "save_unbound", !.tasks = <<"rebind">>]
  <2>1. <<"rebind">> \in Seq({"delete_ip", "unbind", "rebind"})
    OBVIOUS
  <2> QED
    BY <1>1, <2>1 DEF RequestState, Location
<1>4. PICK N \in NeutronIp : N = [neutron[i] EXCEPT !.port = None]
  BY <1>0, Rebound
<1>5. PICK takes \in BOOLEAN : takes = (neutron[i].life = "EXISTS")
  OBVIOUS
<1>6. IpCall(r, takes, N, state)
  BY <1>1, <1>2, <1>3, <1>4, <1>5, OneTask DEF UnbindIp, WithRebind
<1>7. /\ state.at = "save_unbound" /\ state.ip = i /\ state.nic = n /\ state.loaded = n
      /\ state.tasks = <<"rebind">>
  BY <1>2, <1>3 DEF RequestState
<1>8. WellFormed(state)
  BY <1>7 DEF WellFormed, Undoing
<1>9. N.port = None /\ N.life = neutron[i].life
  BY <1>0, <1>4 DEF TypeOK, NeutronIp
<1>10. /\ takes /\ neutron' = [neutron EXCEPT ![i] = N] /\ UNCHANGED <<row, nic, port>>
       /\ crossed' = crossed \cup Crossings(r, state) /\ blurred \subseteq blurred'
       /\ Trusted(i)'
       => Known(state)'
  <2> SUFFICES ASSUME takes, neutron' = [neutron EXCEPT ![i] = N],
                      UNCHANGED <<row, nic, port>>, blurred \subseteq blurred',
                      crossed' = crossed \cup Crossings(r, state), Trusted(i)'
               PROVE  Known(state)'
    OBVIOUS
  <2>1. Trusted(i) /\ i \notin Crossings(r, state)
    BY DEF Trusted
  <2>2. \A p \in Request : request[p].ip = i => ~InFlight(p)
    <3>1. \A p \in Request \ {r} : request[p].ip = i => ~InFlight(p)
      BY <1>0, <1>7, <2>1, Crossing DEF Meets
    <3> QED
      BY <3>1, <1>1 DEF InFlight
  <2>3. Settled(i)
    BY <1>0, <2>1, <2>2 DEF Trust, OthersAreSettled
  <2>4. row[i].nic = n => nic[n] = "live" /\ Bindable(i, n)
    BY <1>0, <2>3 DEF Settled, Base, PortsHaveOne, Bindable
  <2>5. Released(i, n)'
    BY <1>0, <1>5, <1>9, <2>4 DEF Released, Bindable, TypeOK
  <2> QED
    BY <1>7, <2>5 DEF Known
<1> QED
  BY <1>1, <1>2, <1>6, <1>7, <1>8, <1>9, <1>10, CallStep

---------------------------------------------------------------------------
(* A request starts.                                                       *)

LEMMA StartStep ==
  ASSUME IndInv, NEW r \in Request, NEW i \in Ip, NEW state \in RequestState,
         Start(r, state), WellFormed(state), state.ip = i,
         state.at \in {"create_ip", "delete_ip", "bind", "unbind"},
         state.at = "create_ip" =>
           row[i].life = "absent" /\ neutron[i].life = "UNCREATED" /\ ~Busy(i),
         state.at # "create_ip" => row[i].life = "live",
         Calm, UNCHANGED <<row, nic, neutron, port>>
  PROVE  IndInv'
<1> USE IpsAssumption
<1>0. Base /\ Trust
  BY Parts
<1>1. request[r].at = "idle" /\ request' = [request EXCEPT ![r] = state]
  BY DEF Start, Become
<1>2. request[r].ip \in {i, None} /\ request[r].at \notin Flying
  BY <1>0, <1>1, Typed, IdleFits
<1>3. state.at \notin Flying /\ state # Idle /\ state.at # "idle"
  BY IdleFits DEF Flying
<1>4. Creating(state) <=> state.at = "create_ip"
  BY DEF Creating
<1>5. \A p \in Request \ {r} : Creating(request[p]) => request[p].ip # i
  BY <1>0 DEF Base, CreatesAlone, Busy
<1>6. Creating(state) =>
        /\ row[i].life = "absent"
        /\ \A p \in Request \ {r} : request[p].ip # i
        /\ state.at = "create_ip" /\ neutron[i].life = "UNCREATED"
  BY <1>4 DEF Busy
<1>7. UNCHANGED <<row, nic, neutron, port, blurred, crossed>>
  BY DEF Calm
<1>8. state.ip = i /\ ~Creating(state) => row[i].life # "absent"
  BY <1>4
<1>9. /\ state.at = "idle" => state = Idle
      /\ state.ip = i \/ state = Idle
      /\ row[i].life = "absent" /\ state = Idle => neutron[i].life # "EXISTS"
  BY <1>3
<1>10. Quiet(r, i, state)
  BY <1>1, <1>2, <1>3, <1>5, <1>6, <1>7, <1>8, <1>9 DEF Quiet
<1> QED
  BY <1>10, QuietStep

LEMMA CreateIpStep ==
  ASSUME IndInv, NEW r \in Request, NEW i \in Ip, CreateIp(r, i)
  PROVE  IndInv'
<1> USE IpsAssumption
<1>1. PICK state \in RequestState : state = [Idle EXCEPT !.at = "create_ip", !.ip = i]
  BY IdleFits DEF RequestState, Location
<1>2. /\ state.at = "create_ip" /\ state.ip = i /\ state.nic = None /\ state.loaded = None
      /\ state.tasks = <<>>
  BY <1>1 DEF Idle
<1>3. WellFormed(state)
  BY <1>2 DEF WellFormed
<1>4. Start(r, state)
  BY <1>1 DEF CreateIp
<1>5. /\ row[i].life = "absent" /\ neutron[i].life = "UNCREATED" /\ ~Busy(i)
      /\ Calm /\ UNCHANGED <<row, nic, neutron, port>>
  BY DEF CreateIp, tables
<1> QED
  BY <1>2, <1>3, <1>4, <1>5, StartStep

LEMMA DeleteIpStep ==
  ASSUME IndInv, NEW r \in Request, NEW i \in Ip, DeleteIp(r, i)
  PROVE  IndInv'
<1> USE IpsAssumption
<1>1. PICK state \in RequestState : state = [Idle EXCEPT !.at = "delete_ip", !.ip = i]
  BY IdleFits DEF RequestState, Location
<1>2. /\ state.at = "delete_ip" /\ state.ip = i /\ state.nic = None /\ state.loaded = None
      /\ state.tasks = <<>>
  BY <1>1 DEF Idle
<1>3. WellFormed(state)
  BY <1>2 DEF WellFormed
<1>4. Start(r, state)
  BY <1>1 DEF DeleteIp
<1>5. row[i].life = "live" /\ Calm /\ UNCHANGED <<row, nic, neutron, port>>
  BY DEF DeleteIp, tables
<1> QED
  BY <1>2, <1>3, <1>4, <1>5, StartStep

LEMMA AttachIpStep ==
  ASSUME IndInv, NEW r \in Request, NEW i \in Ip, NEW n \in Nic, AttachIp(r, i, n)
  PROVE  IndInv'
<1> USE IpsAssumption
<1>1. PICK state \in RequestState : state = [Idle EXCEPT !.at = "bind", !.ip = i, !.nic = n]
  BY IdleFits DEF RequestState, Location
<1>2. /\ state.at = "bind" /\ state.ip = i /\ state.nic = n /\ state.loaded = None
      /\ state.tasks = <<>>
  BY <1>1 DEF Idle
<1>3. WellFormed(state)
  BY <1>2 DEF WellFormed
<1>4. Start(r, state)
  BY <1>1 DEF AttachIp
<1>5. row[i].life = "live" /\ Calm /\ UNCHANGED <<row, nic, neutron, port>>
  BY DEF AttachIp, tables
<1> QED
  BY <1>2, <1>3, <1>4, <1>5, StartStep

LEMMA DetachIpStep ==
  ASSUME IndInv, NEW r \in Request, NEW i \in Ip, NEW n \in Nic, DetachIp(r, i, n)
  PROVE  IndInv'
<1> USE IpsAssumption
<1>1. PICK state \in RequestState :
        state = [Idle EXCEPT !.at = "unbind", !.ip = i, !.nic = n, !.loaded = n]
  BY IdleFits DEF RequestState, Location
<1>2. /\ state.at = "unbind" /\ state.ip = i /\ state.nic = n /\ state.loaded = n
      /\ state.tasks = <<>>
  BY <1>1 DEF Idle
<1>3. WellFormed(state)
  BY <1>2 DEF WellFormed
<1>4. Start(r, state)
  BY <1>1 DEF DetachIp
<1>5. row[i].life = "live" /\ Calm /\ UNCHANGED <<row, nic, neutron, port>>
  BY DEF DetachIp, tables
<1> QED
  BY <1>2, <1>3, <1>4, <1>5, StartStep

---------------------------------------------------------------------------
(* Commits and undos.                                                      *)

\* Two requests in flight are apart.
LEMMA Flights ==
  ASSUME Base, FlightsAreApart, NEW r \in Request, NEW p \in Request \ {r},
         request[r].at \in Flying, request[p].at \in Flying
  PROVE  Apart(request[r], request[p])
<1>1. InFlight(r) /\ InFlight(p)
  BY DEF InFlight, Flying
<1> QED
  BY <1>1 DEF FlightsAreApart, Apart

\* The commit of a request fails; what it has done in Neutron is to be undone.
LEMMA FailedCommit ==
  ASSUME IndInv, NEW r \in Request,
         request[r].at \in {"insert", "save_bound", "save_unbound"},
         Raise(r), Calm, UNCHANGED <<row, nic, neutron, port>>
  PROVE  IndInv'
<1> USE IpsAssumption
<1>0. Base /\ Trust /\ TypeOK
  BY Parts DEF Base
<1>1. PICK q \in RequestState : q = request[r] /\ WellFormed(q)
  BY <1>0, Typed
<1>2. PICK i \in Ip : q.ip = i
  BY <1>1 DEF WellFormed, RequestState
<1>3. PICK state \in RequestState : state = [q EXCEPT !.at = "rollback"]
  BY <1>1 DEF RequestState, Location
<1>4. request' = [request EXCEPT ![r] = state]
  <2>1. q.tasks # <<>>
    BY <1>1, TasksTyped
  <2> QED
    BY <2>1, <1>1, <1>3 DEF Raise, Become
<1>5. /\ state.at = "rollback" /\ state.ip = i /\ state.nic = q.nic
      /\ state.loaded = q.loaded /\ state.tasks = q.tasks
  BY <1>2, <1>3 DEF RequestState
<1>6. /\ q.at = "insert" => q.nic = None
      /\ q.at # "insert" => q.nic # None /\ q.loaded \in {None, q.nic}
      /\ q.at = "save_bound" <=> q.at # "insert" /\ q.loaded = None
      /\ q.tasks = <<Undoing(q)>>
      /\ q.loaded \in {None, q.nic}
  BY <1>1 DEF WellFormed
<1>7. WellFormed(state)
  BY <1>2, <1>5, <1>6 DEF WellFormed, Undoing
<1>8. Creating(state) <=> Creating(q)
  BY <1>1, <1>5, <1>6 DEF Creating
<1>9. Creating(q) <=> q.at = "insert"
  BY <1>1 DEF Creating
<1>10. UNCHANGED <<row, nic, neutron, port, blurred, crossed>>
  BY DEF Calm
<1>11. \A R \in Row, N \in NeutronIp :
         R = row[i] /\ N = neutron[i] => BaseFits(r, i, state, R, N)
  <2> TAKE R \in Row, N \in NeutronIp
  <2> HAVE R = row[i] /\ N = neutron[i]
  <2>1. /\ row' = [row EXCEPT ![i] = R] /\ neutron' = [neutron EXCEPT ![i] = N]
        /\ nic' = nic /\ port' = port /\ blurred \subseteq blurred'
        /\ blurred' \subseteq Ip /\ crossed' \subseteq Ip
    BY <1>0, <1>10 DEF TypeOK
  <2>2. /\ R.life = "absent" => R.nic = None
        /\ R.life = "deleted" => N.life = "GONE"
        /\ N.port # None =>
             /\ N.life = "EXISTS" /\ port[N.port] = "EXISTS"
             /\ \A j \in Ip : neutron[j].port = N.port => j = i
    BY <1>0 DEF Base, AbsentIsUnlinked, DeletedIpIsGone, PortsHaveOne
  <2>3. state # Idle
    BY <1>5, IdleFits
  <2> QED
    BY ZenonT(40), <1>1, <1>2, <1>4, <1>5, <1>7, <1>8, <2>1, <2>2, <2>3, Alone DEF BaseFits
<1>12. TrustFits(r, i, state)
  <2>1. \A j \in Ip : Trusted(j)' => Trusted(j) /\ Untouched(j)
    BY <1>10 DEF Trusted, Untouched
  <2>2. \A n : NicUntouched(n)
    BY <1>10 DEF NicUntouched
  <2>3. \A u \in RequestState : u.ip # None /\ Trusted(u.ip)' => Untouched(u.ip)
    BY <2>1 DEF RequestState
  <2>4. Trusted(i)' => Known(state)'
    <3>1. CASE q.at = "insert"
      BY <3>1, <1>1, <1>2, <1>9, <2>1, Alone DEF Trusted
    <3>2. CASE q.at # "insert"
      <4>1. Trusted(i)' => Known(q)
        BY <1>0, <1>1, <1>2, <2>1 DEF Trust, FlightsAreKnown
      <4>2. Bound(q.ip, q.nic) => Bound(q.ip, q.nic)'
        BY <1>10 DEF Bound
      <4>3. Released(q.ip, q.nic) => Released(q.ip, q.nic)'
        BY <1>10 DEF Released, Bindable
      <4> QED
        BY <3>2, <4>1, <4>2, <4>3, <1>1, <1>2, <1>5, <1>6 DEF Known
    <3> QED
      BY <3>1, <3>2
  <2>5. ASSUME NEW p \in Request \ {r}, NEW u \in RequestState,
               u = request[p], u.at \in Flying
        PROVE  Apart(state, u)'
    <3>1. CASE q.at = "insert"
      <4>1. ~Trusted(i)'
        BY <3>1, <1>1, <1>2, <1>9, <2>1, Alone DEF Trusted
      <4> QED
        BY <3>1, <4>1, <2>5, <1>5, <1>6 DEF Apart
    <3>2. CASE q.at # "insert"
      <4>1. Apart(q, u)
        BY <3>2, <2>5, <1>0, <1>1, Flights DEF Flying, Trust
      <4> QED
        BY <4>1, <1>2, <1>5, <1>10 DEF Apart, Trusted
    <3> QED
      BY <3>1, <3>2
  <2>6. Trusted(i)' => \A p \in Request \ {r} :
          request[p].at \in Removing /\ row'[i].nic = request[p].nic => request[p].ip = i
    BY <1>0, <1>10, <2>1 DEF Trust, RemovalsKnow, Removing
  <2>7. state.at \in Flying /\ state.at \notin Removing
    BY <1>5 DEF Flying, Removing
  <2> QED
    BY <1>1, <1>2, <1>4, <1>5, <2>1, <2>2, <2>3, <2>4, <2>5, <2>6, <2>7 DEF TrustFits
<1>13. row[i] \in Row /\ neutron[i] \in NeutronIp
  BY <1>0 DEF TypeOK
<1> QED
  BY <1>11, <1>12, <1>13, OneStep

\* Request r ends and leaves row R and, in Neutron, N of the floating IP i that
\* it was about.
Ends(r, i, R, N) ==
  /\ request[r].ip = i
  /\ request' = [request EXCEPT ![r] = Idle]
  /\ row' = [row EXCEPT ![i] = R]
  /\ neutron' = [neutron EXCEPT ![i] = N]
  /\ nic' = nic /\ port' = port
  /\ blurred \subseteq blurred' /\ blurred' \subseteq Ip
  /\ crossed \subseteq crossed' /\ crossed' \subseteq Ip
  /\ R.life = "absent" => row[i].life = "absent" /\ R.nic = None
  /\ N.port # None =>
       /\ N.life = "EXISTS" /\ port[N.port] = "EXISTS"
       /\ \A j \in Ip : neutron[j].port = N.port => j = i
  /\ neutron[i].life = "GONE" \/ R.life = "deleted" => N.life = "GONE"
  /\ R.life = "absent" /\ N.life = "EXISTS" => i \in blurred'
  /\ N.port \in {None, neutron[i].port} \/ (N.port = request[r].nic /\ request[r].at \in Flying)
  /\ Trusted(i)' => Settled(i)'
  /\ Trusted(i)' => request[r].at = "insert" \/ (Trusted(i) /\ request[r].at \in Flying)
  /\ Trusted(i)' => \A p \in Request \ {r} :
       request[p].at \in Removing /\ R.nic = request[p].nic => request[p].ip = i

LEMMA EndStep ==
  ASSUME IndInv, NEW r \in Request, NEW i \in Ip, NEW R \in Row, NEW N \in NeutronIp,
         Ends(r, i, R, N)
  PROVE  IndInv'
<1> USE IpsAssumption
<1> USE DEF Ends
<1>0. Base /\ Trust /\ TypeOK
  BY Parts DEF Base
<1>1. BaseFits(r, i, Idle, R, N)
  BY IdleFits, Alone DEF BaseFits
<1>2. TrustFits(r, i, Idle)
  <2>1. \A j \in Ip \ {i} : Trusted(j)' => Untouched(j) /\ Trusted(j)
    BY <1>0 DEF Trusted, Untouched, TypeOK
  <2>2. ASSUME NEW p \in Request \ {r}, NEW q \in RequestState,
               q = request[p], q.at \in Flying, q.ip # None, Trusted(q.ip)'
        PROVE  Untouched(q.ip) /\ (q.nic # None => NicUntouched(q.nic))
    <3>1. q.ip # i
      <4>1. CASE ~Trusted(i)'
        BY <4>1, <2>2
      <4>2. CASE request[r].at = "insert"
        BY <4>2, <2>2, Alone DEF Creating
      <4>3. CASE Trusted(i) /\ request[r].at \in Flying
        BY <4>3, <2>2, <1>0, Flights DEF Apart, Trust
      <4> QED
        BY <4>1, <4>2, <4>3
    <3>2. Untouched(q.ip) /\ Trusted(q.ip)
      BY <2>1, <2>2, <3>1 DEF RequestState
    <3>3. q.nic # None /\ N.port = q.nic => neutron[i].port = q.nic
      <4>1. request[r].at \in Flying => Apart(request[r], q)
        BY <1>0, <2>2, Flights DEF Trust
      <4>2. q.nic # None /\ request[r].at \in Flying => request[r].nic # q.nic
        BY <2>2, <3>2, <4>1 DEF Apart
      <4> QED
        BY <4>2
    <3>4. \A k \in Ip : q.nic # None /\ neutron'[k].port = q.nic => neutron[k].port = q.nic
      BY <3>3, <1>0 DEF TypeOK
    <3> QED
      BY <3>2, <3>4 DEF NicUntouched
  <2>3. row'[i] = R
    BY <1>0 DEF TypeOK
  <2>4. Idle.at \notin Removing
    BY IdleFits DEF Flying, Removing
  <2> QED
    BY <2>1, <2>2, <2>3, <2>4, IdleFits DEF TrustFits
<1> QED
  BY <1>1, <1>2, IdleFits, OneStep

LEMMA InsertIpStep ==
  ASSUME IndInv, NEW r \in Request, InsertIp(r)
  PROVE  IndInv'
<1> USE IpsAssumption
<1>0. Base /\ Trust /\ TypeOK
  BY Parts DEF Base
<1>1. PICK i \in Ip : request[r].ip = i
  BY <1>0, Typed DEF InsertIp, WellFormed
<1>2. request[r].at = "insert" /\ Creating(request[r])
  BY DEF InsertIp, Creating
<1>3. UNCHANGED <<nic, neutron, port, blurred, crossed>>
  BY DEF InsertIp, Commit, Calm
<1>4. CASE Raise(r) /\ UNCHANGED row
  BY <1>2, <1>3, <1>4, FailedCommit DEF Calm
<1>5. CASE row' = [row EXCEPT ![i].life = "live"] /\ Finish(r)
  <2>1. /\ neutron[i].life = "EXISTS" /\ neutron[i].port = None
        /\ row[i].life = "absent" /\ row[i].nic = None
    BY <1>0, <1>1, <1>2 DEF Base, CreatesAlone, AbsentIsUnlinked
  <2>2. PICK R \in Row : R = [row[i] EXCEPT !.life = "live"]
    <3>1. row[i] \in Row
      BY <1>0 DEF TypeOK
    <3> QED
      BY <3>1 DEF Row
  <2>3. PICK N \in NeutronIp : N = neutron[i]
    BY <1>0 DEF TypeOK
  <2>4. R.life = "live" /\ R.nic = None
    BY <1>0, <2>1, <2>2 DEF TypeOK, Row
  <2>5. row' = [row EXCEPT ![i] = R] /\ neutron' = [neutron EXCEPT ![i] = N]
    BY <1>0, <1>3, <1>5, <2>2, <2>3 DEF TypeOK
  <2>6. Settled(i)'
    BY <1>0, <1>3, <2>1, <2>4, <2>5 DEF Settled, TypeOK
  <2>7. \A p \in Request \ {r} : request[p].at \in Removing => request[p].nic # None
    BY <1>0 DEF Base, RequestsWellFormed, WellFormed, Removing
  <2>8. Ends(r, i, R, N)
    BY <1>0, <1>1, <1>2, <1>3, <1>5, <2>1, <2>3, <2>4, <2>5, <2>6, <2>7
       DEF Ends, Finish, Become, TypeOK
  <2> QED
    BY <2>8, EndStep
<1> QED
  BY <1>1, <1>4, <1>5 DEF InsertIp, Commit

\* What a session writes of a row that nobody else has changed.
LEMMA Columns ==
  ASSUME NEW stored, NEW loaded, NEW current, current # loaded
  PROVE  Column(stored, loaded, current) = current
BY DEF Column

\* An attachment or a detachment that is committed.
LEMMA SaveLinkStep ==
  ASSUME IndInv, NEW r \in Request, NEW n \in Nic \cup {None},
         \/ request[r].at = "save_bound" /\ n = request[r].nic
         \/ request[r].at = "save_unbound" /\ n = None,
         Commit(r, LinkSaved(r, n))
  PROVE  IndInv'
<1> USE IpsAssumption
<1>0. Base /\ Trust /\ TypeOK
  BY Parts DEF Base
<1>1. PICK q \in RequestState : q = request[r] /\ WellFormed(q)
  BY <1>0, Typed
<1>2. PICK i \in Ip : q.ip = i
  BY <1>1 DEF WellFormed, RequestState
<1>3. q.nic # None /\ q.at \in Flying /\ n # q.loaded /\ ~Creating(q)
  BY <1>1 DEF WellFormed, Flying, Creating
<1>4. UNCHANGED <<nic, neutron, port, blurred, crossed>>
  BY DEF Commit, Calm
<1>5. CASE Raise(r) /\ UNCHANGED row
  BY <1>4, <1>5, FailedCommit DEF Calm
<1>6. CASE row' = LinkSaved(r, n) /\ Finish(r)
  <2>1. PICK R \in Row : R = [row[i] EXCEPT !.nic = n]
    <3>1. row[i] \in Row
      BY <1>0 DEF TypeOK
    <3> QED
      BY <3>1 DEF Row
  <2>2. PICK N \in NeutronIp : N = neutron[i]
    BY <1>0 DEF TypeOK
  <2>3. R.life = row[i].life /\ R.nic = n /\ R.life # "absent"
    BY <1>0, <1>1, <1>2, <1>3, <2>1, Alone DEF TypeOK, Row
  <2>4. Column(row[i].nic, q.loaded, n) = n
    BY <1>3, Columns
  <2>5. row' = [row EXCEPT ![i] = R]
    BY <1>0, <1>1, <1>2, <1>6, <2>1, <2>4 DEF LinkSaved, TypeOK, Row
  <2>6. neutron' = [neutron EXCEPT ![i] = N]
    BY <1>0, <1>4, <2>2 DEF TypeOK
  <2>7. Trusted(i)' => Trusted(i)
    BY <1>0, <1>4, <2>3, <2>5 DEF Trusted, TypeOK
  <2>8. Trusted(i)' => Settled(i)'
    <3>1. Trusted(i)' => Known(q)
      BY <1>0, <1>1, <1>2, <2>7 DEF Trust, FlightsAreKnown
    <3>2. Trusted(i)' =>
            /\ neutron[i].life = "EXISTS" /\ neutron[i].port = n
            /\ n # None => nic[n] = "live"
      BY <1>1, <1>2, <3>1 DEF Known, Bound, Released
    <3> QED
      BY <1>0, <1>4, <2>3, <2>5, <3>2 DEF Settled, TypeOK
  <2>9. Trusted(i)' => \A p \in Request \ {r} :
          request[p].at \in Removing /\ n = request[p].nic => request[p].ip = i
    <3>1. SUFFICES ASSUME Trusted(i)', NEW p \in Request \ {r},
                          request[p].at \in Removing, n = request[p].nic
                   PROVE  FALSE
      OBVIOUS
    <3>2. request[p].nic # None /\ request[p].at \in Flying
      BY <1>0, <3>1 DEF Base, RequestsWellFormed, WellFormed, Removing, Flying
    <3>3. Apart(q, request[p])
      BY <1>0, <1>1, <1>3, <3>2, Flights DEF Trust
    <3>4. request[p].nic # q.nic
      BY <1>2, <1>3, <2>7, <3>1, <3>3 DEF Apart
    <3> QED
      BY <1>1, <3>1, <3>2, <3>4
  <2>10. /\ N.port # None =>
              /\ N.life = "EXISTS" /\ port[N.port] = "EXISTS"
              /\ \A j \in Ip : neutron[j].port = N.port => j = i
         /\ R.life = "deleted" => N.life = "GONE"
    BY <1>0, <2>2, <2>3 DEF Base, PortsHaveOne, DeletedIpIsGone
  <2>11. Ends(r, i, R, N)
    BY <1>0, <1>1, <1>2, <1>3, <1>4, <1>6, <2>2, <2>3, <2>5, <2>6, <2>7, <2>8, <2>9, <2>10
       DEF Ends, Finish, Become, TypeOK
  <2> QED
    BY <2>11, EndStep
<1> QED
  BY <1>5, <1>6 DEF Commit

LEMMA SaveDeletionStep ==
  ASSUME IndInv, NEW r \in Request, SaveDeletion(r)
  PROVE  IndInv'
<1> USE IpsAssumption
<1>0. Base /\ Trust /\ TypeOK
  BY Parts DEF Base
<1>1. PICK i \in Ip : request[r].ip = i
  BY <1>0, Typed DEF SaveDeletion, WellFormed
<1>2. request[r].at = "soft_delete" /\ neutron[i].life = "GONE" /\ row[i].life # "absent"
  BY <1>0, <1>1, Alone DEF SaveDeletion, Creating, Base, DeletionsAreDone
<1>3. PICK N \in NeutronIp : N = neutron[i]
  BY <1>0 DEF TypeOK
<1>4. /\ UNCHANGED <<nic, neutron, port, crossed>>
      /\ neutron' = [neutron EXCEPT ![i] = N]
      /\ request' = [request EXCEPT ![r] = Idle]
  BY <1>0, <1>3 DEF SaveDeletion, Calm, Dies, Finish, Become, TypeOK
<1>5. N.port # None => FALSE
  BY <1>0, <1>2, <1>3 DEF Base, PortsHaveOne
<1>6. CASE row' = [row EXCEPT ![i].life = "deleted"] /\ Calm
  <2>1. PICK R \in Row : R = [row[i] EXCEPT !.life = "deleted"]
    <3>1. row[i] \in Row
      BY <1>0 DEF TypeOK
    <3> QED
      BY <3>1 DEF Row
  <2>2. R.life = "deleted" /\ row' = [row EXCEPT ![i] = R]
    BY <1>0, <1>6, <2>1 DEF TypeOK, Row
  <2>3. ~Trusted(i)'
    BY <1>0, <2>2 DEF Trusted, TypeOK
  <2>4. blurred \subseteq blurred' /\ blurred' \subseteq Ip /\ crossed' \subseteq Ip
    BY <1>0, <1>4, <1>6 DEF Calm, TypeOK
  <2>5. Ends(r, i, R, N)
    BY <1>1, <1>2, <1>3, <1>4, <1>5, <2>2, <2>3, <2>4 DEF Ends
  <2> QED
    BY <2>5, EndStep
<1>7. CASE Dies(r, "database") /\ UNCHANGED row
  <2>1. PICK R \in Row : R = row[i]
    BY <1>0 DEF TypeOK
  <2>2. row' = [row EXCEPT ![i] = R]
    BY <1>0, <1>7, <2>1 DEF TypeOK
  <2>3. i \in blurred' /\ blurred \subseteq blurred' /\ blurred' \subseteq Ip
    BY <1>0, <1>1, <1>7, Blurring DEF Dies
  <2>4. ~Trusted(i)'
    BY <2>3 DEF Trusted
  <2>5. crossed' \subseteq Ip /\ R.life # "absent"
    BY <1>0, <1>2, <1>4, <2>1 DEF TypeOK
  <2>6. Ends(r, i, R, N)
    BY <1>1, <1>2, <1>3, <1>4, <1>5, <2>2, <2>3, <2>4, <2>5 DEF Ends
  <2> QED
    BY <2>6, EndStep
<1> QED
  BY <1>1, <1>6, <1>7 DEF SaveDeletion

LEMMA UndoStep ==
  ASSUME IndInv, NEW r \in Request, Undo(r)
  PROVE  IndInv'
<1> USE IpsAssumption
<1>0. Base /\ Trust /\ TypeOK
  BY Parts DEF Base
<1>1. PICK q \in RequestState : q = request[r] /\ WellFormed(q) /\ q.at = "rollback"
  BY <1>0, Typed DEF Undo
<1>2. PICK i \in Ip : q.ip = i
  BY <1>1 DEF WellFormed, RequestState
<1>3. PICK t : t = Undoing(q)
  OBVIOUS
<1>4. q.tasks = <<t>> /\ q.loaded \in {None, q.nic}
  BY <1>1, <1>3 DEF WellFormed
<1>5. LatestTask(q.tasks) = t /\ WithoutLatest(q.tasks) = <<>>
  BY <1>4, OneTask
<1>6. request' = [request EXCEPT ![r] = Idle] /\ UNCHANGED <<row, nic, port>>
  BY <1>1, <1>5 DEF Undo, Become, tables
<1>7. Creating(q) <=> q.nic = None
  BY <1>1 DEF Creating
<1>8. PICK R \in Row : R = row[i]
  BY <1>0 DEF TypeOK
<1>9. /\ row' = [row EXCEPT ![i] = R]
      /\ R.life = "absent" => R.nic = None
      /\ R.life = "deleted" => neutron[i].life = "GONE"
      /\ R.life = "absent" <=> q.nic = None
      /\ neutron[i].port # None =>
           /\ neutron[i].life = "EXISTS" /\ port[neutron[i].port] = "EXISTS"
           /\ \A j \in Ip : neutron[j].port = neutron[i].port => j = i
  BY <1>0, <1>1, <1>2, <1>6, <1>7, <1>8, Alone
     DEF TypeOK, Base, AbsentIsUnlinked, DeletedIpIsGone, PortsHaveOne
<1>10. /\ Trusted(i)' /\ Trusted(i) => \A p \in Request \ {r} :
             request[p].at \in Removing /\ R.nic = request[p].nic => request[p].ip = i
       /\ q.at \in Flying
  BY <1>0, <1>1, <1>8 DEF Trust, RemovalsKnow, Removing, Flying
<1>11. CASE Blurs(r) /\ UNCHANGED <<neutron, crossed>>
  <2>1. i \in blurred' /\ blurred \subseteq blurred' /\ blurred' \subseteq Ip
    BY <1>0, <1>1, <1>2, <1>11, Blurring
  <2>2. ~Trusted(i)'
    BY <2>1 DEF Trusted
  <2>3. PICK N \in NeutronIp : N = neutron[i]
    BY <1>0 DEF TypeOK
  <2>4. neutron' = [neutron EXCEPT ![i] = N] /\ crossed \subseteq crossed' /\ crossed' \subseteq Ip
    BY <1>0, <1>11, <2>3 DEF TypeOK
  <2>5. Ends(r, i, R, N)
    BY <1>1, <1>2, <1>6, <1>8, <1>9, <2>1, <2>2, <2>3, <2>4 DEF Ends
  <2> QED
    BY <2>5, EndStep
<1>12. CASE /\ neutron' = [neutron EXCEPT ![i] = Undone(t, i, q.nic)]
            /\ crossed' = IF row[i].nic # q.loaded THEN crossed \cup {i} ELSE crossed
            /\ UNCHANGED blurred
  <2>1. /\ blurred \subseteq blurred' /\ blurred' \subseteq Ip
        /\ crossed \subseteq crossed' /\ crossed' \subseteq Ip
    BY <1>0, <1>12 DEF TypeOK
  <2>2. Trusted(i)' => Trusted(i) /\ R.nic = q.loaded /\ Known(q)
    <3>1. Trusted(i)' => Trusted(i) /\ R.nic = q.loaded
      BY <1>6, <1>8, <1>12, <2>1 DEF Trusted
    <3> QED
      BY <3>1, <1>0, <1>1, <1>2 DEF Trust, FlightsAreKnown
  <2>3. PICK N \in NeutronIp :
          /\ neutron' = [neutron EXCEPT ![i] = N]
          /\ N.port # None =>
               /\ N.life = "EXISTS" /\ port[N.port] = "EXISTS"
               /\ \A j \in Ip : neutron[j].port = N.port => j = i
          /\ neutron[i].life = "GONE" => N.life = "GONE"
          /\ N.port \in {None, neutron[i].port, q.nic}
          /\ q.nic = None => N.life # "EXISTS"
          /\ Trusted(i)' =>
               /\ N.life = "EXISTS" /\ N.port = R.nic
               /\ R.nic # None => nic[R.nic] = "live"
    <3>1. CASE q.nic = None
      <4>1. t = "delete_ip" /\ ~Trusted(i)'
        BY <3>1, <1>3, <1>8, <1>9, <2>2 DEF Undoing, Trusted
      <4>2. CASE neutron[i].life = "EXISTS"
        <5>1. Undone(t, i, q.nic) = Gone
          BY <4>1, <4>2 DEF Undone
        <5>2. Gone \in NeutronIp /\ Gone.life = "GONE" /\ Gone.port = None
          BY DEF Gone, NeutronIp
        <5> QED
          BY <5>1, <5>2, <4>1, <1>12
      <4>3. CASE neutron[i].life # "EXISTS"
        <5>1. Undone(t, i, q.nic) = neutron[i]
          BY <4>1, <4>3 DEF Undone
        <5> QED
          BY <5>1, <4>1, <4>3, <1>0, <1>9, <1>12 DEF TypeOK
      <4> QED
        BY <4>2, <4>3
    <3>2. CASE q.nic # None /\ q.loaded = None
      <4>1. t = "unbind" /\ (Trusted(i)' => Bound(i, q.nic) /\ R.nic = None)
        BY <3>2, <1>1, <1>2, <1>3, <2>2 DEF Undoing, Known
      <4>2. CASE neutron[i].life = "EXISTS"
        <5>1. PICK N \in NeutronIp : N = [neutron[i] EXCEPT !.port = None]
          <6>1. neutron[i] \in NeutronIp
            BY <1>0 DEF TypeOK
          <6>2. q.nic \in Nic \cup {None}
            BY <1>1 DEF RequestState
          <6> QED
            BY <6>1, <6>2 DEF NeutronIp
        <5>2. Undone(t, i, q.nic) = N
          BY <4>1, <4>2, <5>1 DEF Undone
        <5>3. N.life = "EXISTS" /\ N.port = None
          BY <4>2, <5>1, <1>0 DEF TypeOK, NeutronIp
        <5> QED
          BY <5>2, <5>3, <4>1, <4>2, <3>2, <1>12
      <4>3. CASE neutron[i].life # "EXISTS"
        <5>1. Undone(t, i, q.nic) = neutron[i]
          BY <4>1, <4>3 DEF Undone
        <5>2. ~Trusted(i)'
          BY <4>1, <4>3 DEF Bound
        <5> QED
          BY <5>1, <5>2, <3>2, <1>0, <1>9, <1>12 DEF TypeOK
      <4> QED
        BY <4>2, <4>3
    <3>3. CASE q.nic # None /\ q.loaded = q.nic
      <4>1. t = "rebind" /\ (Trusted(i)' => Released(i, q.nic) /\ R.nic = q.nic)
        BY <3>3, <1>1, <1>2, <1>3, <2>2 DEF Undoing, Known
      <4>2. Trusted(i)' => Bindable(i, q.nic) /\ nic[q.nic] = "live"
        BY <4>1, <1>8 DEF Released
      <4>3. CASE Bindable(i, q.nic)
        <5>1. PICK N \in NeutronIp : N = [neutron[i] EXCEPT !.port = q.nic]
          <6>1. neutron[i] \in NeutronIp
            BY <1>0 DEF TypeOK
          <6>2. q.nic \in Nic \cup {None}
            BY <1>1 DEF RequestState
          <6> QED
            BY <6>1, <6>2 DEF NeutronIp
        <5>2. Undone(t, i, q.nic) = N
          BY <4>1, <4>3, <5>1 DEF Undone
        <5>3. /\ N.life = "EXISTS" /\ N.port = q.nic /\ neutron[i].life = "EXISTS"
              /\ port[q.nic] = "EXISTS"
              /\ \A j \in Ip : neutron[j].port = q.nic => j = i
          BY <4>3, <5>1, <1>0 DEF TypeOK, NeutronIp, Bindable
        <5> QED
          BY <5>2, <5>3, <4>1, <4>2, <3>3, <1>12
      <4>4. CASE ~Bindable(i, q.nic)
        <5>1. Undone(t, i, q.nic) = neutron[i]
          BY <4>1, <4>4 DEF Undone
        <5> QED
          BY <5>1, <4>2, <4>4, <3>3, <1>0, <1>9, <1>12 DEF TypeOK
      <4> QED
        BY <4>3, <4>4
    <3> QED
      BY <3>1, <3>2, <3>3, <1>4
  <2>4. Trusted(i)' => Settled(i)'
    BY <2>3, <1>0, <1>6, <1>8 DEF Settled, TypeOK
  <2>5. Ends(r, i, R, N)
    BY <1>1, <1>2, <1>6, <1>8, <1>9, <1>10, <2>1, <2>2, <2>3, <2>4 DEF Ends
  <2> QED
    BY <2>5, EndStep
<1> QED
  BY <1>1, <1>2, <1>5, <1>11, <1>12 DEF Undo

---------------------------------------------------------------------------
(* The removal of a network interface.                                     *)

\* A step of a removal unbinds at most, and deletes a port before its network
\* interface.
RemovalFits(r, state) ==
  /\ request' = [request EXCEPT ![r] = state]
  /\ TypeOK'
  /\ WellFormed(state)
  /\ state.at \in {"idle", "delete_port", "save_removed"}
  /\ ~Creating(request[r])
  /\ state.ip # None => row[state.ip].life # "absent"
  /\ \A j \in Ip : row'[j].life = row[j].life /\ row'[j].nic \in {None, row[j].nic}
  /\ \A j \in Ip : neutron'[j].life = neutron[j].life
                  /\ neutron'[j].port \in {None, neutron[j].port}
                  /\ (neutron'[j].port # None => port'[neutron'[j].port] = port[neutron'[j].port])
  /\ \A n \in Nic : /\ port[n] = "GONE" => port'[n] = "GONE"
                    /\ nic'[n] = "deleted" => port'[n] = "GONE"
  /\ state.at = "save_removed" => port'[state.nic] = "GONE"
  /\ blurred \subseteq blurred'

LEMMA RemovalStep ==
  ASSUME Base, NEW r \in Request, NEW state \in RequestState, RemovalFits(r, state)
  PROVE  Base'
<1> USE IpsAssumption
<1> USE DEF RemovalFits
<1>0. /\ TypeOK /\ RequestsWellFormed /\ CreatesAlone /\ OthersHaveRows /\ AbsentIsUnlinked
      /\ PortsHaveOne /\ DeletedNicHasNoPort /\ DeletionsAreDone /\ DeletedIpIsGone
      /\ NoOrphanIp
  BY DEF Base
<1>1. /\ request'[r] = state
      /\ \A p \in Request \ {r} : request'[p] = request[p]
      /\ \A p \in Request : request[p].ip \in Ip \cup {None}
      /\ state.ip \in Ip \cup {None}
  BY <1>0 DEF TypeOK, RequestState
<1>2. ~Creating(state)
  BY DEF Creating
<1>3. RequestsWellFormed'
  BY <1>0, <1>1 DEF RequestsWellFormed, WellFormed, Undoing
<1>4. CreatesAlone'
  <2> SUFFICES ASSUME NEW p \in Request, Creating(request'[p])
               PROVE  /\ row'[request'[p].ip].life = "absent"
                      /\ \A q \in Request \ {p} : request'[q].ip # request'[p].ip
                      /\ request'[p].at = "create_ip"
                           => neutron'[request'[p].ip].life = "UNCREATED"
                      /\ request'[p].at = "insert"
                           => /\ neutron'[request'[p].ip].life = "EXISTS"
                              /\ neutron'[request'[p].ip].port = None
    BY DEF CreatesAlone, Creating
  <2>1. p # r /\ request'[p] = request[p] /\ Creating(request[p])
    BY <1>1, <1>2
  <2>2. request[p].ip \in Ip
    BY <1>0, <1>1, <2>1 DEF RequestsWellFormed, WellFormed, Creating
  <2>3. /\ row[request[p].ip].life = "absent"
        /\ \A q \in Request \ {p} : request[q].ip # request[p].ip
        /\ request[p].at = "create_ip" => neutron[request[p].ip].life = "UNCREATED"
        /\ request[p].at = "insert" => /\ neutron[request[p].ip].life = "EXISTS"
                                       /\ neutron[request[p].ip].port = None
    BY <2>1, <1>0 DEF CreatesAlone
  <2>4. \A q \in Request \ {p} : request'[q].ip # request'[p].ip
    <3> TAKE q \in Request \ {p}
    <3>1. CASE q = r
      BY <3>1, <1>1, <2>1, <2>2, <2>3
    <3>2. CASE q # r
      BY <3>2, <1>1, <2>1, <2>3
    <3> QED
      BY <3>1, <3>2
  <2> QED
    BY <2>1, <2>2, <2>3, <2>4
<1>5. OthersHaveRows'
  <2> SUFFICES ASSUME NEW p \in Request, request'[p].ip # None, ~Creating(request'[p])
               PROVE  row'[request'[p].ip].life # "absent"
    BY DEF OthersHaveRows, Creating
  <2>1. CASE p = r
    BY <2>1, <1>1
  <2>2. CASE p # r
    BY <2>2, <1>0, <1>1 DEF OthersHaveRows
  <2> QED
    BY <2>1, <2>2
<1>6. AbsentIsUnlinked'
  BY <1>0 DEF AbsentIsUnlinked
<1>7. PortsHaveOne'
  <2> SUFFICES ASSUME NEW j \in Ip, neutron'[j].port # None
               PROVE  /\ neutron'[j].life = "EXISTS"
                      /\ port'[neutron'[j].port] = "EXISTS"
                      /\ \A k \in Ip : neutron'[k].port = neutron'[j].port => k = j
    BY DEF PortsHaveOne
  <2>1. neutron'[j].port = neutron[j].port
    OBVIOUS
  <2>2. \A k \in Ip : neutron'[k].port = neutron'[j].port => neutron[k].port = neutron[j].port
    BY <2>1
  <2> QED
    BY <1>0, <2>1, <2>2 DEF PortsHaveOne
<1>8. DeletedNicHasNoPort'
  BY DEF DeletedNicHasNoPort
<1>9. DeletionsAreDone'
  <2> SUFFICES ASSUME NEW p \in Request
               PROVE  /\ request'[p].at = "soft_delete"
                           => neutron'[request'[p].ip].life = "GONE"
                      /\ request'[p].at = "save_removed" => port'[request'[p].nic] = "GONE"
    BY DEF DeletionsAreDone
  <2>1. CASE p = r
    BY <2>1, <1>1
  <2>2. CASE p # r
    <3>1. /\ request[p].at = "soft_delete" => request[p].ip \in Ip
          /\ request[p].at = "save_removed" => request[p].nic \in Nic
      <4>1. WellFormed(request[p]) /\ request[p] \in RequestState
        BY <1>0 DEF RequestsWellFormed, TypeOK
      <4> QED
        BY <4>1 DEF WellFormed, RequestState
    <3> QED
      BY <2>2, <3>1, <1>0, <1>1 DEF DeletionsAreDone
  <2> QED
    BY <2>1, <2>2
<1>10. DeletedIpIsGone'
  BY <1>0 DEF DeletedIpIsGone
<1>11. NoOrphanIp'
  <2> SUFFICES ASSUME NEW j \in Ip, row'[j].life = "absent", ~Busy(j)', j \notin blurred'
               PROVE  neutron'[j].life # "EXISTS"
    BY DEF NoOrphanIp
  <2>1. row[j].life = "absent" /\ j \notin blurred /\ neutron'[j].life = neutron[j].life
    OBVIOUS
  <2>2. request[r].ip # j
    BY <2>1, <1>0 DEF OthersHaveRows
  <2>3. ~Busy(j)
    BY <2>2, <1>1 DEF Busy
  <2> QED
    BY <2>1, <2>3, <1>0 DEF NoOrphanIp
<1> QED
  BY <1>3, <1>4, <1>5, <1>6, <1>7, <1>8, <1>9, <1>10, <1>11 DEF Base

\* The floating IP on the port that a request deletes is the one it knows, or
\* is not to be trusted.
LEMMA PortOf ==
  ASSUME IndInv, NEW r \in Request, request[r].at = "delete_port",
         NEW j \in Ip, Trusted(j), neutron[j].port = request[r].nic
  PROVE  request[r].ip = j
<1> USE IpsAssumption
<1>0. Base /\ Trust /\ TypeOK
  BY Parts DEF Base
<1> SUFFICES ASSUME request[r].ip # j PROVE FALSE
  OBVIOUS
<1>1. request[r].at \in Flying /\ request[r].nic # None
  BY <1>0 DEF Base, RequestsWellFormed, WellFormed, Flying
<1>2. row[j].nic # request[r].nic
  BY <1>0 DEF Trust, RemovalsKnow
<1>3. ~Settled(j)
  BY <1>2 DEF Settled
<1>4. PICK p \in Request : request[p].ip = j /\ InFlight(p)
  BY <1>0, <1>3 DEF Trust, OthersAreSettled
<1>5. PICK q \in RequestState : q = request[p] /\ WellFormed(q) /\ q.ip = j /\ q.at \in Flying
  BY <1>0, <1>4, Typed DEF InFlight, Flying
<1>6. p # r
  BY <1>4
<1>7. q.nic # None => q.nic # request[r].nic
  BY <1>0, <1>1, <1>5, <1>6, Flights DEF Trust, Apart
<1>8. Known(q)
  BY <1>0, <1>5 DEF Trust, FlightsAreKnown
<1>9. q.at \notin {"delete_port", "save_removed"}
  BY <1>1, <1>3, <1>5, <1>8 DEF Known
<1>10. q.at # "soft_delete"
  BY <1>0, <1>1, <1>5 DEF Base, DeletionsAreDone, PortsHaveOne
<1>11. ~Creating(q)
  BY <1>0, <1>5 DEF Base, CreatesAlone, Trusted
<1>12. q.at \in {"save_bound", "save_unbound", "rollback"} /\ q.nic # None
  BY <1>5, <1>9, <1>10, <1>11 DEF Flying, WellFormed, Creating
<1>13. Bound(j, q.nic) \/ Released(j, q.nic)
  BY <1>5, <1>8, <1>12 DEF Known
<1> QED
  BY <1>1, <1>7, <1>12, <1>13 DEF Bound, Released

LEMMA RemoveNicStep ==
  ASSUME IndInv, NEW r \in Request, NEW n \in Nic, RemoveNic(r, n)
  PROVE  IndInv'
<1> USE IpsAssumption
<1>0. Base /\ Trust /\ TypeOK
  BY Parts DEF Base
<1>1. PICK i \in IF OnNic(n) = {} THEN {None} ELSE OnNic(n) :
        LET state == [Idle EXCEPT !.at = "delete_port", !.nic = n, !.ip = i,
                                  !.loaded = IF i = None THEN None ELSE n]
        IN  /\ Start(r, state)
            /\ crossed' = crossed \cup Crossings(r, state) \cup (OnNic(n) \ {i})
  BY DEF RemoveNic
<1>2. /\ OnNic(n) \subseteq Ip /\ (i \in OnNic(n) \/ (i = None /\ OnNic(n) = {}))
      /\ i \in Ip \cup {None}
  BY <1>1 DEF OnNic
<1>3. PICK state \in RequestState :
        state = [Idle EXCEPT !.at = "delete_port", !.nic = n, !.ip = i,
                             !.loaded = IF i = None THEN None ELSE n]
  BY <1>2, IdleFits DEF RequestState, Location
<1>4. /\ state.at = "delete_port" /\ state.nic = n /\ state.ip = i
      /\ state.loaded = (IF i = None THEN None ELSE n) /\ state.tasks = <<>>
  BY <1>3 DEF Idle
<1>5. WellFormed(state)
  BY <1>4 DEF WellFormed
<1>6. /\ request[r].at = "idle" /\ request' = [request EXCEPT ![r] = state]
      /\ crossed' = crossed \cup Crossings(r, state) \cup (OnNic(n) \ {i})
  BY <1>1, <1>3 DEF Start, Become
<1>7. UNCHANGED <<row, nic, neutron, port, blurred>>
  BY DEF RemoveNic, tables
<1>8. request[r] = Idle
  BY <1>0, <1>6, Typed
<1>9. crossed \subseteq crossed' /\ crossed' \subseteq Ip
  BY <1>0, <1>2, <1>6, Crossing DEF TypeOK
<1>10. Base'
  <2>1. TypeOK'
    BY <1>0, <1>4, <1>6, <1>7, <1>9 DEF TypeOK
  <2>2. i # None => row[i].life # "absent"
    BY <1>0, <1>2 DEF Base, AbsentIsUnlinked, OnNic
  <2>3. \A m \in Nic : nic[m] = "deleted" => port[m] = "GONE"
    BY <1>0 DEF Base, DeletedNicHasNoPort
  <2>4. RemovalFits(r, state)
    BY <2>1, <2>2, <2>3, <1>4, <1>5, <1>6, <1>7, <1>8, IdleFits DEF RemovalFits
  <2> QED
    BY <1>0, <2>4, RemovalStep
<1>11. TrustFits(r, i, state)
  <2>1. \A j \in Ip : Trusted(j)' => Trusted(j) /\ Untouched(j) /\ j \notin Crossings(r, state)
                                   /\ j \notin OnNic(n) \ {i}
    BY <1>6, <1>7, <1>9 DEF Trusted, Untouched
  <2>2. \A m : NicUntouched(m)
    BY <1>7 DEF NicUntouched
  <2>3. \A q \in RequestState : q.ip # None /\ Trusted(q.ip)' => Untouched(q.ip)
    BY <2>1 DEF RequestState
  <2>4. \A p \in Request \ {r}, q \in RequestState :
          q = request[p] /\ q.at \in Flying /\ Meets(p, state) =>
            /\ i # None => ~Trusted(i)'
            /\ q.ip # None => ~Trusted(q.ip)'
    BY <1>0, <1>2, <1>4, <2>1, Crossing DEF RequestState
  <2>5. \A p \in Request \ {r}, q \in RequestState :
          q = request[p] /\ q.at \in Flying =>
            /\ i # None /\ q.ip = i => Meets(p, state)
            /\ q.nic = n => Meets(p, state)
    BY <1>4 DEF Meets, InFlight, Flying
  <2>6. i # None /\ Trusted(i)' => Known(state)'
    <3> SUFFICES ASSUME i # None, Trusted(i)' PROVE Known(state)'
      OBVIOUS
    <3>1. i \in Ip /\ row[i].nic = n
      BY <1>2 DEF OnNic
    <3>2. \A p \in Request : request[p].ip = i => ~InFlight(p)
      <4>1. \A p \in Request \ {r} : request[p].ip = i => ~InFlight(p)
        BY <1>0, <2>4, <2>5 DEF TypeOK, InFlight, Flying
      <4> QED
        BY <4>1, <1>6 DEF InFlight
    <3>3. Settled(i)
      BY <1>0, <2>1, <3>1, <3>2 DEF Trust, OthersAreSettled
    <3>4. Settled(i)' /\ row'[i].nic = n
      BY <1>7, <3>1, <3>3 DEF Settled
    <3> QED
      BY <1>4, <3>4 DEF Known
  <2>7. ASSUME NEW p \in Request \ {r}, NEW q \in RequestState,
               q = request[p], q.at \in Flying
        PROVE  Apart(state, q)'
    <3>1. i # None /\ Trusted(i)' => q.ip # i /\ q.nic # n
      BY <2>4, <2>5, <2>7
    <3>2. q.ip # None /\ Trusted(q.ip)' => i # q.ip /\ q.nic # n
      BY <2>4, <2>5, <2>7
    <3> QED
      BY <3>1, <3>2, <1>4 DEF Apart
  <2>8. i # None /\ Trusted(i)' => \A p \in Request \ {r} :
          request[p].at \in Removing /\ row'[i].nic = request[p].nic => request[p].ip = i
    BY <1>0, <1>2, <1>7, <2>1 DEF Trust, RemovalsKnow, Removing
  <2>9. \A j \in Ip : Trusted(j)' /\ row'[j].nic = n => i = j
    BY <1>7, <2>1 DEF OnNic
  <2>10. state.at \in Flying /\ request[r].ip = None
    BY <1>4, <1>8, IdleFits DEF Flying
  <2> QED
    BY <1>4, <1>6, <2>1, <2>2, <2>3, <2>6, <2>7, <2>8, <2>9, <2>10 DEF TrustFits
<1> QED
  BY <1>0, <1>2, <1>10, <1>11, Parts, TrustStep DEF IndInv, Base, Trust

LEMMA DeletePortStep ==
  ASSUME IndInv, NEW r \in Request, DeletePort(r)
  PROVE  IndInv'
<1> USE IpsAssumption
<1>0. Base /\ Trust /\ TypeOK
  BY Parts DEF Base
<1>1. PICK q \in RequestState : q = request[r] /\ WellFormed(q) /\ q.at = "delete_port"
  BY <1>0, Typed DEF DeletePort
<1>2. PICK i \in Ip \cup {None}, n \in Nic :
        q.ip = i /\ q.nic = n /\ q.loaded = (IF i = None THEN None ELSE n) /\ q.tasks = <<>>
  BY <1>1 DEF WellFormed, RequestState
<1>3. /\ q.at \in Flying /\ q.at \in Removing /\ ~Creating(q)
      /\ i # None => row[i].life # "absent"
  BY <1>0, <1>1, <1>2 DEF Flying, Removing, Creating, Base, OthersHaveRows
<1>4. UNCHANGED <<row, nic, crossed>>
  BY DEF DeletePort, tables, Calm
<1>5. \A j \in Ip : Trusted(j) /\ neutron[j].port = n => i = j
  BY <1>1, <1>2, PortOf
<1>6. i # None /\ Trusted(i) => Settled(i) /\ row[i].nic = n
  <2>1. i # None /\ Trusted(i) => Known(q)
    BY <1>0, <1>1, <1>2 DEF Trust, FlightsAreKnown
  <2> QED
    BY <1>1, <1>2, <2>1 DEF Known
<1>7. \A p \in Request \ {r} : request[p].at \in Flying => Apart(q, request[p])
  BY <1>0, <1>1, <1>3, Flights DEF Trust
<1>8. \A m \in Nic : nic[m] = "deleted" => port[m] = "GONE"
  BY <1>0 DEF Base, DeletedNicHasNoPort
<1>9. CASE /\ port[n] = "EXISTS"
           /\ port' = [port EXCEPT ![n] = "GONE"]
           /\ neutron' = [j \in Ip |->
                IF neutron[j].port = n THEN [neutron[j] EXCEPT !.port = None] ELSE neutron[j]]
           /\ \/ Become(r, [q EXCEPT !.at = "save_removed"]) /\ UNCHANGED blurred
              \/ Dies(r, "lost_answer")
  <2>1. PICK state \in RequestState :
          /\ request' = [request EXCEPT ![r] = state]
          /\ blurred \subseteq blurred' /\ blurred' \subseteq Ip
          /\ WellFormed(state)
          /\ \/ state.at = "save_removed" /\ state.ip = i /\ state.nic = n
             \/ state = Idle /\ (i # None => i \in blurred')
    <3>1. CASE Become(r, [q EXCEPT !.at = "save_removed"]) /\ UNCHANGED blurred
      <4>1. PICK state \in RequestState : state = [q EXCEPT !.at = "save_removed"]
        BY DEF RequestState, Location
      <4>2. /\ state.at = "save_removed" /\ state.ip = i /\ state.nic = n
            /\ state.loaded = (IF i = None THEN None ELSE n) /\ state.tasks = <<>>
        BY <1>2, <4>1 DEF RequestState
      <4>3. WellFormed(state)
        BY <4>2 DEF WellFormed
      <4> QED
        BY <3>1, <4>1, <4>2, <4>3, <1>0 DEF Become, TypeOK
    <3>2. CASE Dies(r, "lost_answer")
      BY <3>2, <1>0, <1>1, <1>2, Blurring, IdleFits DEF Dies, Finish, Become
    <3> QED
      BY <1>9, <3>1, <3>2
  <2>2. \A j \in Ip : /\ neutron'[j] \in NeutronIp
                      /\ neutron'[j].life = neutron[j].life
                      /\ neutron[j].port = n => neutron'[j].port = None
                      /\ neutron[j].port # n => neutron'[j] = neutron[j]
    <3> TAKE j \in Ip
    <3>1. neutron[j] \in NeutronIp
      BY <1>0 DEF TypeOK
    <3> QED
      BY <3>1, <1>9 DEF NeutronIp
  <2>3. \A m \in Nic : /\ port'[m] \in {"EXISTS", "GONE"}
                       /\ m # n => port'[m] = port[m]
                       /\ port'[n] = "GONE"
    BY <1>0, <1>9 DEF TypeOK
  <2>4. TypeOK'
    <3>1. neutron' \in [Ip -> NeutronIp]
      BY <1>9, <2>2
    <3>2. port' \in [Nic -> {"EXISTS", "GONE"}]
      BY <1>0, <1>9 DEF TypeOK
    <3>3. request' \in [Request -> RequestState]
          /\ \A p \in Request : request'[p].at = "idle" => request'[p] = Idle
      BY <1>0, <2>1 DEF TypeOK
    <3> QED
      BY <1>0, <1>4, <2>1, <3>1, <3>2, <3>3 DEF TypeOK
  <2>5. \A j \in Ip : neutron'[j].port # None => neutron'[j].port \in Nic /\ neutron'[j].port # n
    BY <2>2 DEF NeutronIp
  <2>6. Base'
    <3>1. state.at \in {"idle", "save_removed"} /\ state.ip \in {i, None}
          /\ (state.at = "save_removed" => state.nic = n)
      BY <2>1, IdleFits
    <3>2. RemovalFits(r, state)
      BY <1>1, <1>3, <1>4, <1>8, <2>1, <2>2, <2>3, <2>4, <2>5, <3>1 DEF RemovalFits
    <3> QED
      BY <1>0, <3>2, RemovalStep
  <2>7. \A j \in Ip : Trusted(j)' => Trusted(j)
    BY <1>4, <2>1 DEF Trusted
  <2>8. \A j \in Ip \ {i} : Trusted(j)' => Untouched(j)
    BY <1>4, <1>5, <2>2, <2>7 DEF Untouched
  <2>9. ASSUME NEW p \in Request \ {r}, NEW u \in RequestState,
               u = request[p], u.at \in Flying, u.ip # None, Trusted(u.ip)'
        PROVE  Untouched(u.ip) /\ (u.nic # None => NicUntouched(u.nic))
    <3>1. Trusted(u.ip)
      BY <2>7, <2>9 DEF RequestState
    <3>2. u.ip # i /\ (u.nic # None => u.nic # n)
      BY <1>2, <1>7, <2>9, <3>1 DEF Apart
    <3>3. Untouched(u.ip)
      BY <2>8, <2>9, <3>2 DEF RequestState
    <3>4. u.nic # None => NicUntouched(u.nic)
      BY <1>4, <2>2, <2>3, <3>2 DEF NicUntouched, RequestState
    <3> QED
      BY <3>3, <3>4
  <2>10. i # None /\ Trusted(i)' => state.at = "save_removed" /\ state.ip = i /\ state.nic = n
    BY <2>1 DEF Trusted
  <2>11. state.ip # None /\ Trusted(state.ip)' => Known(state)'
    <3> SUFFICES ASSUME state.ip # None, Trusted(state.ip)' PROVE Known(state)'
      OBVIOUS
    <3>1. state.at = "save_removed" /\ state.ip = i /\ i \in Ip
      BY <2>1, IdleFits
    <3>2. Settled(i) /\ row[i].nic = n
      BY <1>6, <2>7, <3>1
    <3>3. neutron'[i].life = "EXISTS" /\ neutron'[i].port = None
      BY <2>2, <3>1, <3>2 DEF Settled
    <3> QED
      BY <3>1, <3>3 DEF Known
  <2>12. ASSUME state.at \in Flying, NEW p \in Request \ {r}, NEW u \in RequestState,
                u = request[p], u.at \in Flying
         PROVE  Apart(state, u)'
    <3>1. state.ip = i /\ state.nic = n
      BY <2>1, <2>12, IdleFits
    <3>2. Apart(q, u)
      BY <1>7, <2>12
    <3>3. /\ i # None /\ Trusted(i)' => Trusted(i)
          /\ u.ip # None /\ Trusted(u.ip)' => Trusted(u.ip)
      BY <2>7 DEF RequestState
    <3> QED
      BY <1>2, <3>1, <3>2, <3>3 DEF Apart
  <2>13. i # None /\ Trusted(i)' => \A p \in Request \ {r} :
           request[p].at \in Removing /\ row'[i].nic = request[p].nic => request[p].ip = i
    BY <1>0, <1>4, <2>7 DEF Trust, RemovalsKnow, Removing
  <2>14. state.at \in Removing =>
           \A j \in Ip : Trusted(j)' /\ row'[j].nic = state.nic => state.ip = j
    <3>1. state.at \in Removing => state.ip = i /\ state.nic = n
      BY <2>1, IdleFits DEF Removing, Flying
    <3>2. \A j \in Ip : Trusted(j) /\ row[j].nic = n => i = j
      BY <1>0, <1>1, <1>2 DEF Trust, RemovalsKnow
    <3> QED
      BY <1>4, <2>7, <3>1, <3>2
  <2>15. /\ i # None /\ Trusted(i)' /\ state.at \notin Flying => Settled(i)'
         /\ request[r].ip \in {i, None}
         /\ state.ip = i \/ (state.ip = None /\ state.at \notin Flying)
    BY <1>1, <1>2, <2>1, <2>10, IdleFits DEF Flying
  <2>16. TrustFits(r, i, state)
    BY <2>1, <2>8, <2>9, <2>11, <2>12, <2>13, <2>14, <2>15 DEF TrustFits
  <2> QED
    BY <1>0, <2>6, <2>16, Parts, TrustStep DEF IndInv, Base, Trust
<1>10. CASE Finish(r) /\ Calm /\ UNCHANGED <<neutron, port>>
  <2>1. /\ request' = [request EXCEPT ![r] = Idle]
        /\ UNCHANGED <<row, nic, neutron, port, blurred, crossed>>
    BY <1>4, <1>10 DEF Finish, Become, Calm
  <2>2. TypeOK'
    BY <1>0, <2>1, IdleFits DEF TypeOK
  <2>3. Base'
    <3>1. RemovalFits(r, Idle)
      BY <1>1, <1>3, <1>8, <2>1, <2>2, IdleFits DEF RemovalFits
    <3> QED
      BY <1>0, <3>1, IdleFits, RemovalStep
  <2>4. \A j \in Ip : Trusted(j)' => Trusted(j) /\ Untouched(j)
    BY <2>1 DEF Trusted, Untouched
  <2>5. \A u \in RequestState : u.ip # None /\ Trusted(u.ip)' => Untouched(u.ip)
    BY <2>4 DEF RequestState
  <2>6. \A m : NicUntouched(m)
    BY <2>1 DEF NicUntouched
  <2>7. i # None /\ Trusted(i)' => Settled(i)'
    <3>1. i # None /\ Trusted(i)' => Settled(i)
      BY <1>6, <2>4
    <3> QED
      BY <2>1, <3>1 DEF Settled
  <2>8. i # None /\ Trusted(i)' => \A p \in Request \ {r} :
          request[p].at \in Removing /\ row'[i].nic = request[p].nic => request[p].ip = i
    BY <1>0, <2>1, <2>4 DEF Trust, RemovalsKnow, Removing
  <2>9. request[r].ip \in {i, None} /\ Idle.at \notin Removing
    BY <1>1, <1>2, IdleFits DEF Removing, Flying
  <2>10. TrustFits(r, i, Idle)
    BY <2>1, <2>4, <2>5, <2>6, <2>7, <2>8, <2>9, IdleFits DEF TrustFits
  <2> QED
    BY <1>0, <2>3, <2>10, IdleFits, Parts, TrustStep DEF IndInv, Base, Trust
<1> QED
  BY <1>1, <1>2, <1>9, <1>10 DEF DeletePort

LEMMA SaveRemovedStep ==
  ASSUME IndInv, NEW r \in Request, SaveRemoved(r)
  PROVE  IndInv'
<1> USE IpsAssumption
<1>0. Base /\ Trust /\ TypeOK
  BY Parts DEF Base
<1>1. PICK q \in RequestState : q = request[r] /\ WellFormed(q) /\ q.at = "save_removed"
  BY <1>0, Typed DEF SaveRemoved
<1>2. PICK i \in Ip \cup {None}, n \in Nic :
        q.ip = i /\ q.nic = n /\ q.loaded = (IF i = None THEN None ELSE n)
  BY <1>1 DEF WellFormed, RequestState
<1>3. /\ q.at \in Flying /\ ~Creating(q) /\ port[n] = "GONE"
      /\ i # None => row[i].life # "absent"
  BY <1>0, <1>1, <1>2
     DEF Flying, Removing, Creating, Base, OthersHaveRows, DeletionsAreDone
<1>4. UNCHANGED <<neutron, port, crossed>> /\ request' = [request EXCEPT ![r] = Idle]
  BY DEF SaveRemoved, Calm, Dies, Finish, Become
<1>5. \A p \in Request \ {r} : request[p].at \in Flying => Apart(q, request[p])
  BY <1>0, <1>1, <1>3, Flights DEF Trust
<1>6. \A j \in Ip : Trusted(j) /\ row[j].nic = n => i = j
  BY <1>0, <1>1, <1>2 DEF Trust, RemovalsKnow
<1>7. \A m \in Nic : nic[m] = "deleted" => port[m] = "GONE"
  BY <1>0 DEF Base, DeletedNicHasNoPort
<1>8. \A p \in Request : request[p].at \in Removing => request[p].nic # None
  BY <1>0 DEF Base, RequestsWellFormed, WellFormed, Removing
<1>9. Idle.at \notin Removing /\ request[r].ip \in {i, None}
  BY <1>1, <1>2, IdleFits DEF Removing, Flying
<1>10. CASE /\ nic' = [nic EXCEPT ![n] = "deleted"]
            /\ row' = LinkReleased(r)
            /\ Calm
  <2>1. /\ row' \in [Ip -> Row]
        /\ \A j \in Ip : row'[j].life = row[j].life
        /\ \A j \in Ip \ {i} : row'[j] = row[j]
        /\ i # None => row'[i].nic = None
    <3>1. CASE i = None
      BY <3>1, <1>0, <1>1, <1>2, <1>10 DEF LinkReleased, TypeOK
    <3>2. CASE i # None
      <4>1. Column(row[i].nic, q.loaded, None) = None
        BY <3>2, <1>2, Columns
      <4>2. row' = [row EXCEPT ![i].nic = None]
        BY <3>2, <4>1, <1>0, <1>1, <1>2, <1>10 DEF LinkReleased, LinkSaved, TypeOK
      <4>3. \A j \in Ip : row[j] \in Row
        BY <1>0 DEF TypeOK
      <4>4. PICK R \in Row : R = [row[i] EXCEPT !.nic = None]
        BY <3>2, <1>2, <4>3 DEF Row
      <4>5. R.nic = None /\ R.life = row[i].life
        BY <3>2, <1>2, <4>3, <4>4 DEF Row
      <4>6. row' = [row EXCEPT ![i] = R]
        BY <4>2, <4>4
      <4> QED
        BY <3>2, <1>0, <1>2, <4>5, <4>6 DEF TypeOK
    <3> QED
      BY <3>1, <3>2
  <2>2. \A m \in Nic : nic'[m] = IF m = n THEN "deleted" ELSE nic[m]
    BY <1>0, <1>10 DEF TypeOK
  <2>3. TypeOK'
    BY <1>0, <1>4, <1>10, <2>1, IdleFits DEF TypeOK, Calm
  <2>4. Base'
    <3>1. \A j \in Ip : row'[j].nic \in {None, row[j].nic}
      BY <2>1
    <3>2. \A m \in Nic : nic'[m] = "deleted" => port'[m] = "GONE"
      BY <1>3, <1>4, <1>7, <2>2
    <3>3. blurred \subseteq blurred'
      BY <1>10 DEF Calm
    <3>4. RemovalFits(r, Idle)
      BY <1>1, <1>3, <1>4, <2>1, <2>3, <3>1, <3>2, <3>3, IdleFits DEF RemovalFits
    <3> QED
      BY <1>0, <3>4, IdleFits, RemovalStep
  <2>5. \A j \in Ip : Trusted(j)' => Trusted(j)
    BY <1>4, <1>10, <2>1 DEF Trusted, Calm
  <2>6. \A j \in Ip \ {i} : Trusted(j)' => Untouched(j)
    <3> TAKE j \in Ip \ {i}
    <3>1. Trusted(j)' => row[j].nic # n
      BY <1>6, <2>5
    <3>2. row[j].nic \in Nic \cup {None}
      BY <1>0 DEF TypeOK, Row
    <3> QED
      BY <1>4, <2>1, <2>2, <2>5, <3>1, <3>2 DEF Untouched
  <2>7. ASSUME NEW p \in Request \ {r}, NEW u \in RequestState,
               u = request[p], u.at \in Flying, u.ip # None, Trusted(u.ip)'
        PROVE  Untouched(u.ip) /\ (u.nic # None => NicUntouched(u.nic))
    <3>1. Trusted(u.ip)
      BY <2>5, <2>7 DEF RequestState
    <3>2. u.ip # i /\ (u.nic # None => u.nic # n)
      BY <1>2, <1>5, <2>7, <3>1 DEF Apart
    <3>3. Untouched(u.ip)
      BY <2>6, <2>7, <3>2 DEF RequestState
    <3>4. u.nic # None => NicUntouched(u.nic)
      BY <1>4, <2>2, <3>2 DEF NicUntouched, RequestState
    <3> QED
      BY <3>3, <3>4
  <2>8. i # None /\ Trusted(i)' => Settled(i)'
    <3>1. i # None /\ Trusted(i)' => Known(q)
      BY <1>0, <1>1, <1>2, <2>5 DEF Trust, FlightsAreKnown
    <3>2. i # None /\ Trusted(i)' => neutron[i].life = "EXISTS" /\ neutron[i].port = None
      BY <1>1, <1>2, <3>1 DEF Known
    <3> QED
      BY <1>4, <2>1, <3>2 DEF Settled
  <2>9. i # None /\ Trusted(i)' => \A p \in Request \ {r} :
          request[p].at \in Removing /\ row'[i].nic = request[p].nic => request[p].ip = i
    BY <1>8, <2>1
  <2>10. TrustFits(r, i, Idle)
    BY <1>4, <1>9, <2>6, <2>7, <2>8, <2>9, IdleFits DEF TrustFits
  <2> QED
    BY <1>0, <2>4, <2>10, IdleFits, Parts, TrustStep DEF IndInv, Base, Trust
<1>11. CASE Dies(r, "database") /\ UNCHANGED <<row, nic>>
  <2>1. /\ blurred \subseteq blurred' /\ blurred' \subseteq Ip
        /\ i # None => i \in blurred'
    BY <1>0, <1>1, <1>2, <1>11, Blurring DEF Dies
  <2>2. TypeOK'
    BY <1>0, <1>4, <1>11, <2>1, IdleFits DEF TypeOK
  <2>3. Base'
    <3>1. RemovalFits(r, Idle)
      BY <1>1, <1>3, <1>4, <1>7, <1>11, <2>1, <2>2, IdleFits DEF RemovalFits
    <3> QED
      BY <1>0, <3>1, IdleFits, RemovalStep
  <2>4. \A j \in Ip : Trusted(j)' => Trusted(j) /\ Untouched(j) /\ j # i
    BY <1>4, <1>11, <2>1 DEF Trusted, Untouched
  <2>5. \A u \in RequestState : u.ip # None /\ Trusted(u.ip)' => Untouched(u.ip)
    BY <2>4 DEF RequestState
  <2>6. \A m : NicUntouched(m)
    BY <1>4, <1>11 DEF NicUntouched
  <2>7. i # None => ~Trusted(i)'
    BY <2>1 DEF Trusted
  <2>8. TrustFits(r, i, Idle)
    BY <1>4, <1>9, <2>4, <2>5, <2>6, <2>7, IdleFits DEF TrustFits
  <2> QED
    BY <1>0, <2>3, <2>8, IdleFits, Parts, TrustStep DEF IndInv, Base, Trust
<1> QED
  BY <1>1, <1>2, <1>10, <1>11 DEF SaveRemoved, tables

---------------------------------------------------------------------------
(* Restart, and the invariant.                                             *)

LEMMA RestartStep ==
  ASSUME IndInv, Restart
  PROVE  IndInv'
<1> USE IpsAssumption
<1>0. Base /\ Trust /\ TypeOK
  BY Parts DEF Base
<1>1. /\ UNCHANGED <<row, nic, neutron, port, crossed>>
      /\ \A r \in Request : request'[r] = Idle
      /\ request' \in [Request -> {Idle}]
      /\ blurred' = blurred \cup UNION {Touched(r) : r \in Request}
  BY DEF Restart, tables
<1>2. \A r \in Request : Touched(r) \subseteq Ip /\ (request[r].ip # None => request[r].ip \in Touched(r))
  BY <1>0 DEF TypeOK, RequestState, Touched
<1>3. blurred \subseteq blurred' /\ blurred' \subseteq Ip
  BY <1>0, <1>1, <1>2 DEF TypeOK
<1>4. \A i \in Ip : Busy(i) => i \in blurred'
  BY <1>1, <1>2 DEF Busy
<1>5. TypeOK'
  BY <1>0, <1>1, <1>3, IdleFits DEF TypeOK
<1>6. /\ RequestsWellFormed' /\ CreatesAlone' /\ OthersHaveRows' /\ DeletionsAreDone'
  BY <1>1, IdleFits
     DEF RequestsWellFormed, WellFormed, CreatesAlone, Creating, OthersHaveRows, DeletionsAreDone
<1>7. AbsentIsUnlinked' /\ PortsHaveOne' /\ DeletedNicHasNoPort' /\ DeletedIpIsGone'
  BY <1>0, <1>1 DEF Base, AbsentIsUnlinked, PortsHaveOne, DeletedNicHasNoPort, DeletedIpIsGone
<1>8. NoOrphanIp'
  BY <1>0, <1>1, <1>3, <1>4 DEF Base, NoOrphanIp
<1>9. FlightsAreApart' /\ RemovalsKnow' /\ FlightsAreKnown'
  BY <1>1, IdleFits DEF FlightsAreApart, RemovalsKnow, FlightsAreKnown, InFlight
<1>10. OthersAreSettled'
  <2> SUFFICES ASSUME NEW i \in Ip, Trusted(i)' PROVE Settled(i)'
    BY DEF OthersAreSettled
  <2>1. Trusted(i) /\ ~Busy(i)
    BY <1>1, <1>3, <1>4 DEF Trusted
  <2>2. Settled(i)
    BY <1>0, <2>1 DEF Trust, OthersAreSettled, Busy
  <2> QED
    BY <1>1, <2>2 DEF Settled
<1> QED
  BY <1>5, <1>6, <1>7, <1>8, <1>9, <1>10 DEF IndInv

LEMMA StutterStep ==
  ASSUME IndInv, UNCHANGED vars
  PROVE  IndInv'
<1>1. UNCHANGED <<row, nic, neutron, port, request, blurred, crossed>>
  BY DEF vars
<1>2. TypeOK' /\ RequestsWellFormed' /\ CreatesAlone' /\ OthersHaveRows' /\ DeletionsAreDone'
  BY <1>1 DEF IndInv, TypeOK, RequestsWellFormed, CreatesAlone, OthersHaveRows, DeletionsAreDone
<1>3. /\ AbsentIsUnlinked' /\ PortsHaveOne' /\ DeletedNicHasNoPort' /\ DeletedIpIsGone'
      /\ NoOrphanIp'
  BY <1>1 DEF IndInv, AbsentIsUnlinked, PortsHaveOne, DeletedNicHasNoPort, DeletedIpIsGone,
     NoOrphanIp, Busy
<1>4. FlightsAreApart' /\ RemovalsKnow'
  BY <1>1 DEF IndInv, FlightsAreApart, RemovalsKnow, InFlight, Trusted
<1>5. FlightsAreKnown' /\ OthersAreSettled'
  BY <1>1 DEF IndInv, FlightsAreKnown, OthersAreSettled, InFlight, Trusted, Known, Bound,
     Released, Bindable, Settled
<1> QED
  BY <1>2, <1>3, <1>4, <1>5 DEF IndInv

LEMMA BeginStep ==
  ASSUME IndInv, NEW r \in Request, Begin(r)
  PROVE  IndInv'
<1>1. ASSUME NEW i \in Ip, CreateIp(r, i) PROVE IndInv'
  BY <1>1, CreateIpStep
<1>2. ASSUME NEW i \in Ip, DeleteIp(r, i) PROVE IndInv'
  BY <1>2, DeleteIpStep
<1>3. ASSUME NEW i \in Ip, NEW n \in Nic, AttachIp(r, i, n) PROVE IndInv'
  BY <1>3, AttachIpStep
<1>4. ASSUME NEW i \in Ip, NEW n \in Nic, DetachIp(r, i, n) PROVE IndInv'
  BY <1>4, DetachIpStep
<1>5. ASSUME NEW n \in Nic, RemoveNic(r, n) PROVE IndInv'
  BY <1>5, RemoveNicStep
<1> QED
  BY <1>1, <1>2, <1>3, <1>4, <1>5 DEF Begin

LEMMA ResumeStep ==
  ASSUME IndInv, NEW r \in Request, Resume(r)
  PROVE  IndInv'
<1>1. CASE SaveBound(r)
  <2>1. request[r].nic \in Nic \cup {None}
    BY Parts, Typed
  <2> QED
    BY <1>1, <2>1, SaveLinkStep DEF SaveBound
<1>2. CASE SaveUnbound(r)
  BY <1>2, SaveLinkStep DEF SaveUnbound
<1>3. CASE CreateInNeutron(r) \/ InsertIp(r) \/ DeleteInNeutron(r) \/ SaveDeletion(r)
  BY <1>3, CreateInNeutronStep, InsertIpStep, DeleteInNeutronStep, SaveDeletionStep
<1>4. CASE BindIp(r) \/ UnbindIp(r) \/ Undo(r) \/ DeletePort(r) \/ SaveRemoved(r)
  BY <1>4, BindIpStep, UnbindIpStep, UndoStep, DeletePortStep, SaveRemovedStep
<1> QED
  BY <1>1, <1>2, <1>3, <1>4 DEF Resume

\* The inductive invariant holds in every reachable state: what each request
\* holds of its floating IP is what Neutron and the row have of it, as long as
\* no failure and no other request has touched it.
THEOREM Invariance == Spec => []IndInv
<1>1. Init => IndInv
  BY Initially
<1>2. IndInv /\ [Next]_vars => IndInv'
  <2> SUFFICES ASSUME IndInv, [Next]_vars PROVE IndInv'
    OBVIOUS
  <2>1. CASE \E r \in Request : Begin(r) \/ Resume(r)
    BY <2>1, BeginStep, ResumeStep
  <2>2. CASE Restart
    BY <2>2, RestartStep
  <2>3. CASE UNCHANGED vars
    BY <2>3, StutterStep
  <2> QED
    BY <2>1, <2>2, <2>3 DEF Next
<1> QED
  BY <1>1, <1>2, PTL DEF Spec

\* A row is marked deleted only when Neutron has the floating IP no more.
THEOREM DeletedIpSafe == Spec => []DeletedIpIsGone
<1>1. IndInv => DeletedIpIsGone
  BY DEF IndInv
<1> QED
  BY <1>1, Invariance, PTL

\* A creation that failed leaves no floating IP without a row, unless an answer
\* was lost, an undo failed or the process stopped.
THEOREM NoOrphanSafe == Spec => []NoOrphanIp
<1>1. IndInv => NoOrphanIp
  BY DEF IndInv
<1> QED
  BY <1>1, Invariance, PTL

\* A floating IP that no request works on, no failure has left half changed
\* and no two requests have crossed on is bound in Neutron as its row says, to
\* a network interface that is not deleted.
THEOREM QuietIpSafe == Spec => []QuietIpAgrees
<1>1. IndInv => QuietIpAgrees
  <2> SUFFICES ASSUME IndInv, NEW i \in Ip, row[i].life = "live", ~Busy(i),
                      i \notin blurred \cup crossed
               PROVE  Settled(i)
    BY DEF QuietIpAgrees, Settled
  <2>1. Trusted(i) /\ \A q \in Request : request[q].ip # i
    BY DEF Trusted, Busy
  <2> QED
    BY <2>1 DEF IndInv, OthersAreSettled
<1> QED
  BY <1>1, Invariance, PTL
=============================================================================
