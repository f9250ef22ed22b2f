---------------------- MODULE TransactionScope_proofs ----------------------
(***************************************************************************)
(* Proofs about TransactionScope, for any number of coroutines and writes, *)
(* any depth of the call stack and any pool size.                          *)
(***************************************************************************)
EXTENDS TransactionScope, FiniteSetTheorems, TLAPS

(***************************************************************************)
(* The invariant of the scope, whatever the bodies do.                     *)
(***************************************************************************)

\* What the variables but `pool` and `connected` must satisfy.
StackInv ==
  /\ ctx \in [Coroutine -> {0} \cup Call]
  /\ depth \in [Coroutine -> {0} \cup Call]
  /\ sessionOf \in [Coroutine -> [Call -> Call]]
  /\ calls \in [Coroutine -> [Call -> 0..MaxNested]]
  /\ dirty \in [Coroutine -> [Call -> SUBSET Write]]
  /\ connected \in [Coroutine -> SUBSET Call]
  /\ mode \in [Coroutine -> {"running", "waiting", "raising"}]
  /\ made \in [Coroutine -> SUBSET Write]
  /\ db \subseteq Write
  /\ CtxIsLive
  /\ SessionsNest
  /\ WaitsForItsSession
  /\ OutsideIsRunning
  /\ \A c \in Coroutine : \A s \in connected[c] : s <= depth[c] /\ sessionOf[c][s] = s

\* What is left of ScopeInv: the account of the connections.
PoolInv ==
  /\ pool \in 0..PoolSize
  /\ IsFiniteSet(Connections)
  /\ pool + Cardinality(Connections) = PoolSize

\* The two parts make up the invariant, ...
LEMMA ScopeInvParts == ScopeInv <=> StackInv /\ PoolInv
  BY DEF ScopeInv, StackInv, PoolInv, TypeOK, PoolConserved

\* ... in the next state too.
LEMMA ScopeInvPartsPrimed == ScopeInv' <=> StackInv' /\ PoolInv'
  BY DEF ScopeInv, StackInv, PoolInv, TypeOK, PoolConserved

\* A coroutine that is in a call has a top call and a session of it.
LEMMA TopCall ==
  ASSUME StackInv, NEW c \in Coroutine, depth[c] # 0
  PROVE  /\ depth[c] \in Call
         /\ Session(c) \in Call
         /\ Session(c) <= depth[c]
         /\ depth[c] - 1 \in {0} \cup Call
         /\ depth[c] > 0
<1>1. depth[c] \in Call
  BY DEF StackInv
<1>2. Session(c) \in Call /\ Session(c) <= depth[c]
  BY <1>1 DEF StackInv, Session, SessionsNest
<1>3. depth[c] - 1 \in {0} \cup Call /\ depth[c] > 0
  BY <1>1, ScopeAssumption DEF Call
<1>4. QED
  BY <1>1, <1>2, <1>3

\* A connection is taken from the pool.
LEMMA ConnectionTaken ==
  ASSUME StackInv, PoolInv, NEW c \in Coroutine, NEW s \in Call,
         s \notin connected[c], pool > 0, pool' = pool - 1,
         connected' = [connected EXCEPT ![c] = @ \cup {s}]
  PROVE  PoolInv'
<1>1. Connections' = Connections \cup {<<c, s>>} /\ <<c, s>> \notin Connections
  BY DEF Connections, StackInv
<1>2. IsFiniteSet(Connections') /\ Cardinality(Connections') = Cardinality(Connections) + 1
  BY <1>1, FS_AddElement DEF PoolInv
<1>3. Cardinality(Connections) \in Nat
  BY FS_CardinalityType DEF PoolInv
<1>4. QED
  BY <1>2, <1>3, ScopeAssumption DEF PoolInv

\* Close gives back what the session holds.
LEMMA CloseKeeps ==
  ASSUME StackInv, PoolInv, NEW c \in Coroutine, depth[c] # 0, Close(c)
  PROVE  PoolInv'
<1>1. /\ Session(c) \in Call
      /\ connected' = [connected EXCEPT ![c] = @ \ {Session(c)}]
  BY TopCall DEF Close
<1>2. Connections' = Connections \ {<<c, Session(c)>>}
  BY <1>1 DEF Connections, StackInv
<1>3. <<c, Session(c)>> \in Connections <=> Session(c) \in connected[c]
  BY <1>1 DEF Connections
<1>4. Cardinality(Connections) \in Nat /\ Cardinality(Connections') \in Nat
      /\ IsFiniteSet(Connections')
  BY <1>2, FS_RemoveElement, FS_CardinalityType DEF PoolInv
<1>5. CASE Session(c) \in connected[c]
  <2>1. Cardinality(Connections') = Cardinality(Connections) - 1
    BY <1>2, <1>3, <1>5, FS_RemoveElement DEF PoolInv
  <2>2. QED
    BY <1>4, <1>5, <2>1, ScopeAssumption DEF Close, PoolInv
<1>6. CASE Session(c) \notin connected[c]
  <2>1. Connections' = Connections /\ pool' = pool
    BY <1>2, <1>3, <1>6 DEF Close
  <2>2. QED
    BY <2>1 DEF PoolInv
<1>7. QED
  BY <1>5, <1>6

\* Steps that leave the connections alone.
LEMMA NothingConnected ==
  ASSUME PoolInv, UNCHANGED <<connected, pool>>
  PROVE  PoolInv'
  BY DEF PoolInv, Connections

\* A decorated function is called: the invariant of the stack.
LEMMA CallKeeps ==
  ASSUME StackInv, NEW c \in Coroutine, CallTransactional(c)
  PROVE  StackInv'
<1> DEFINE n == depth[c] + 1
           s == IF ctx[c] = 0 THEN n ELSE ctx[c]
<1>1. n \in Call /\ s \in Call
  BY DEF CallTransactional, JoinedSession, StackInv
<1>2. depth[c] \in Nat /\ n = depth[c] + 1 /\ n \in Nat
  BY <1>1 DEF StackInv, Call
<1>3. /\ depth' = [depth EXCEPT ![c] = n]
      /\ sessionOf' = [sessionOf EXCEPT ![c] = [sessionOf[c] EXCEPT ![n] = s]]
      /\ ctx' = [ctx EXCEPT ![c] = s]
      /\ mode[c] = "running"
      /\ UNCHANGED <<dirty, connected, pool, mode, made, db>>
  BY DEF CallTransactional, JoinedSession, StackInv
<1>4. s <= n /\ (s = n \/ (ctx[c] = s /\ s < n /\ sessionOf[c][s] = s))
  <2>1. CASE ctx[c] = 0
    BY <1>1, <1>2, <2>1 DEF Call
  <2>2. CASE ctx[c] # 0
    <3>1. depth[c] # 0 /\ ctx[c] = Session(c) /\ sessionOf[c][ctx[c]] = ctx[c]
      BY <1>2, <2>2 DEF StackInv, CtxIsLive
    <3>2. Session(c) <= depth[c] /\ Session(c) \in Call /\ depth[c] \in Call
      BY <3>1, TopCall
    <3>3. QED
      BY <1>2, <2>2, <3>1, <3>2 DEF Call
  <2>3. QED
    BY <2>1, <2>2
<1>5. \A i \in Call : sessionOf'[c][i] = IF i = n THEN s ELSE sessionOf[c][i]
  BY <1>3 DEF StackInv
<1> HIDE DEF n, s
<1>6. /\ ctx' \in [Coroutine -> {0} \cup Call]
      /\ depth' \in [Coroutine -> {0} \cup Call]
      /\ sessionOf' \in [Coroutine -> [Call -> Call]]
  BY <1>1, <1>3 DEF StackInv
<1>7. calls' \in [Coroutine -> [Call -> 0..MaxNested]]
  <2> DEFINE f == [i \in Call |-> IF i = n THEN 0
                                  ELSE IF i = depth[c] THEN calls[c][i] + 1
                                  ELSE calls[c][i]]
  <2>1. ASSUME NEW i \in Call PROVE f[i] \in 0..MaxNested
    <3>1. calls[c][i] \in 0..MaxNested
      BY DEF StackInv
    <3>2. i = depth[c] => calls[c][i] < MaxNested
      BY <1>2 DEF CallTransactional, JoinedSession, Call
    <3>3. QED
      BY <3>1, <3>2, ScopeAssumption
  <2>2. f \in [Call -> 0..MaxNested]
    BY <2>1
  <2>3. calls' = [calls EXCEPT ![c] = f]
    BY DEF CallTransactional, JoinedSession, n
  <2> HIDE DEF f
  <2>4. QED
    BY <2>2, <2>3 DEF StackInv
<1>8. ASSUME NEW d \in Coroutine, ctx'[d] # 0
      PROVE  depth'[d] > 0 /\ ctx'[d] = sessionOf'[d][depth'[d]]
             /\ sessionOf'[d][ctx'[d]] = ctx'[d]
  <2>1. CASE d = c
    <3>1. depth'[c] = n /\ ctx'[c] = s
      BY <1>3 DEF StackInv
    <3>2. sessionOf'[c][n] = s /\ sessionOf'[c][s] = s
      BY <1>1, <1>2, <1>4, <1>5 DEF Call
    <3>3. QED
      BY <1>2, <2>1, <3>1, <3>2
  <2>2. CASE d # c
    BY <1>3, <1>8, <2>2 DEF StackInv, CtxIsLive, Session
  <2>3. QED
    BY <2>1, <2>2
<1>9. SessionsNest'
  BY <1>3, <1>4, <1>5 DEF StackInv, SessionsNest
<1>10. WaitsForItsSession'
  BY <1>3 DEF StackInv, WaitsForItsSession
<1>11. ASSUME NEW d \in Coroutine, NEW t \in connected'[d]
      PROVE  t <= depth'[d] /\ sessionOf'[d][t] = t
  <2>1. t \in connected[d] /\ t \in Call /\ t <= depth[d] /\ sessionOf[d][t] = t
    BY <1>3 DEF StackInv
  <2>2. CASE d = c
    <3>1. t \in Nat /\ t # n /\ t <= n
      BY <1>2, <2>1, <2>2 DEF Call
    <3>2. depth'[c] = n /\ sessionOf'[c][t] = sessionOf[c][t]
      BY <1>3, <1>5, <2>1, <3>1 DEF StackInv
    <3>3. QED
      BY <2>1, <2>2, <3>1, <3>2
  <2>3. CASE d # c
    BY <1>3, <2>1, <2>3 DEF StackInv
  <2>4. QED
    BY <2>2, <2>3
<1>12. CtxIsLive'
  BY <1>8 DEF CtxIsLive, Session
<1>13. OutsideIsRunning'
  BY <1>2, <1>3 DEF StackInv, OutsideIsRunning
<1>14. QED
  BY <1>3, <1>6, <1>7, <1>9, <1>10, <1>11, <1>12, <1>13 DEF StackInv

\* A call ends, its session being closed when it is its own: the invariant of
\* the stack.  The context variable is empty then, which is live.
LEMMA PopKeeps ==
  ASSUME StackInv, NEW c \in Coroutine, depth[c] # 0, Pop(c),
         \/ ~IsOwner(c) /\ UNCHANGED <<dirty, connected, pool>>
         \/ IsOwner(c) /\ Close(c),
         mode' \in [Coroutine -> {"running", "waiting", "raising"}],
         mode'[c] # "waiting",
         depth[c] = 1 => mode'[c] = "running",
         \A d \in Coroutine \ {c} : mode'[d] = mode[d],
         db' \subseteq Write
  PROVE  StackInv'
<1>1. /\ depth[c] \in Call /\ Session(c) \in Call
      /\ depth[c] - 1 \in {0} \cup Call
  BY TopCall
<1>2. /\ ctx' = [ctx EXCEPT ![c] = 0]
      /\ depth' = [depth EXCEPT ![c] = @ - 1]
      /\ UNCHANGED <<sessionOf, calls>>
  BY DEF Pop, CtxAfter
<1>3. /\ ctx' \in [Coroutine -> {0} \cup Call]
      /\ depth' \in [Coroutine -> {0} \cup Call]
      /\ made' \in [Coroutine -> SUBSET Write]
  BY <1>1, <1>2 DEF StackInv, Pop
<1>4. /\ dirty' \in [Coroutine -> [Call -> SUBSET Write]]
      /\ connected' \in [Coroutine -> SUBSET Call]
      /\ \A d \in Coroutine \ {c} : connected'[d] = connected[d]
  <2>1. CASE UNCHANGED <<dirty, connected, pool>>
    BY <2>1 DEF StackInv
  <2>2. CASE Close(c)
    <3>1. dirty' = [dirty EXCEPT ![c] = [dirty[c] EXCEPT ![Session(c)] = {}]]
      BY <2>2 DEF Close, StackInv
    <3>2. [dirty[c] EXCEPT ![Session(c)] = {}] \in [Call -> SUBSET Write]
      BY <1>1 DEF StackInv
    <3>3. connected' = [connected EXCEPT ![c] = @ \ {Session(c)}]
      BY <2>2 DEF Close
    <3>4. QED
      BY <3>1, <3>2, <3>3 DEF StackInv
  <2>3. QED
    BY <2>1, <2>2
<1>5. CtxIsLive'
  BY <1>2 DEF StackInv, CtxIsLive, Session
<1>6. SessionsNest'
  BY <1>2 DEF StackInv, SessionsNest
<1>7. WaitsForItsSession'
  BY <1>2, <1>4 DEF StackInv, WaitsForItsSession
<1>8. ASSUME NEW d \in Coroutine, NEW s \in connected'[d]
      PROVE  s <= depth'[d] /\ sessionOf'[d][s] = s
  <2>1. CASE d # c
    BY <1>2, <1>4, <2>1 DEF StackInv
  <2>2. CASE d = c
    <3>1. s \in connected[c] /\ s # depth[c]
      <4>1. CASE IsOwner(c)
        BY <2>2, <4>1 DEF StackInv, Close, IsOwner
      <4>2. CASE ~IsOwner(c)
        BY <2>2, <4>2 DEF StackInv, IsOwner, Session
      <4>3. QED
        BY <4>1, <4>2
    <3>2. s <= depth[c] /\ sessionOf[c][s] = s /\ s \in Call
      BY <3>1 DEF StackInv
    <3>3. QED
      BY <1>1, <1>2, <2>2, <3>1, <3>2 DEF StackInv, Call
  <2>3. QED
    BY <2>1, <2>2
<1>9. OutsideIsRunning'
  BY <1>1, <1>2 DEF StackInv, OutsideIsRunning, Call
<1>10. QED
  BY <1>2, <1>3, <1>4, <1>5, <1>6, <1>7, <1>8, <1>9 DEF StackInv

\* The steps inside a body keep the invariant of the stack.
LEMMA BodyKeeps ==
  ASSUME StackInv, NEW c \in Coroutine,
         \/ Execute(c) \/ Connect(c) \/ PoolTimeout(c) \/ Raise(c)
         \/ \E w \in Write : ChangeEntity(c, w)
  PROVE  StackInv'
<1>1. OutsideIsRunning'
  <2>1. depth[c] # 0
    BY DEF Execute, Connect, PoolTimeout, Raise, ChangeEntity, Running, StackInv,
           OutsideIsRunning
  <2>2. depth' = depth /\ \A d \in Coroutine \ {c} : mode'[d] = mode[d]
    BY DEF Execute, Connect, PoolTimeout, Raise, ChangeEntity, stackVars, StackInv
  <2>3. QED
    BY <2>1, <2>2 DEF StackInv, OutsideIsRunning
<1>2. CASE Execute(c)
  BY <1>1, <1>2 DEF Execute, stackVars, StackInv, CtxIsLive, SessionsNest,
              WaitsForItsSession, Session
<1>3. CASE Connect(c)
  <2>1. /\ ctx[c] \in Call /\ sessionOf[c][ctx[c]] = ctx[c]
        /\ depth[c] # 0 /\ ctx[c] = Session(c)
    BY <1>3 DEF Connect, StackInv, WaitsForItsSession, CtxIsLive, Call
  <2>2. ctx[c] <= depth[c]
    BY <2>1, TopCall
  <2>3. \A d \in Coroutine : \A s \in connected'[d] :
          s <= depth'[d] /\ sessionOf'[d][s] = s
    BY <1>3, <2>1, <2>2 DEF Connect, stackVars, StackInv
  <2>4. connected' \in [Coroutine -> SUBSET Call]
    BY <1>3, <2>1 DEF Connect, StackInv
  <2>5. UNCHANGED <<ctx, depth, sessionOf, calls, dirty, made, db>> /\ mode'[c] = "running"
        /\ mode' \in [Coroutine -> {"running", "waiting", "raising"}]
        /\ \A d \in Coroutine : d # c => mode'[d] = mode[d] /\ connected'[d] = connected[d]
    BY <1>3 DEF Connect, stackVars, StackInv
  <2>6. CtxIsLive' /\ SessionsNest' /\ WaitsForItsSession'
    BY <1>1, <2>5 DEF StackInv, CtxIsLive, SessionsNest, WaitsForItsSession, Session
  <2>7. QED
    BY <1>1, <2>3, <2>4, <2>5, <2>6 DEF StackInv
<1>4. CASE PoolTimeout(c) \/ Raise(c)
  <2>1. /\ UNCHANGED <<ctx, depth, sessionOf, calls, dirty, connected, made, db>>
        /\ mode' \in [Coroutine -> {"running", "waiting", "raising"}]
        /\ mode'[c] = "raising" /\ \A d \in Coroutine : d # c => mode'[d] = mode[d]
    BY <1>4 DEF PoolTimeout, Raise, stackVars, StackInv
  <2>2. CtxIsLive' /\ SessionsNest' /\ WaitsForItsSession'
    BY <2>1 DEF StackInv, CtxIsLive, SessionsNest, WaitsForItsSession, Session
  <2>3. QED
    BY <1>1, <2>1, <2>2 DEF StackInv
<1>5. ASSUME NEW w \in Write, ChangeEntity(c, w)
      PROVE  StackInv'
  <2>1. Session(c) \in Call
    BY <1>5, TopCall DEF ChangeEntity, Running, StackInv, Call
  <2>2. /\ dirty' \in [Coroutine -> [Call -> SUBSET Write]]
        /\ made' \in [Coroutine -> SUBSET Write]
    BY <1>5, <2>1 DEF ChangeEntity, StackInv
  <2>3. QED
    BY <1>1, <1>5, <2>2
    DEF ChangeEntity, stackVars, StackInv, CtxIsLive, SessionsNest, WaitsForItsSession,
        Session
<1>6. QED
  BY <1>2, <1>3, <1>4, <1>5

\* A call returns or raises.
LEMMA EndKeeps ==
  ASSUME ScopeInv, NEW c \in Coroutine,
         ReturnJoined(c) \/ ReturnOwner(c) \/ CommitFails(c) \/ Unwind(c)
  PROVE  ScopeInv'
<1>1. StackInv /\ PoolInv
  BY ScopeInvParts
<1>2. /\ depth[c] # 0
      /\ Pop(c)
      /\ \/ ~IsOwner(c) /\ UNCHANGED <<dirty, connected, pool>>
         \/ IsOwner(c) /\ Close(c)
  BY <1>1
  DEF ReturnJoined, ReturnOwner, CommitFails, Unwind, Running, StackInv, OutsideIsRunning
<1>3. /\ mode' \in [Coroutine -> {"running", "waiting", "raising"}]
      /\ mode'[c] # "waiting"
      /\ depth[c] = 1 => mode'[c] = "running"
      /\ \A d \in Coroutine \ {c} : mode'[d] = mode[d]
  <2>1. depth[c] = 1 => IsOwner(c)
    BY <1>1, TopCall DEF IsOwner, Call
  <2>2. QED
    <3>1. CASE ReturnJoined(c) \/ ReturnOwner(c)
      BY <1>1, <2>1, <3>1 DEF ReturnJoined, ReturnOwner, Running, StackInv
    <3>2. CASE CommitFails(c) \/ Unwind(c)
      <4>1. /\ mode' = [mode EXCEPT ![c] = IF depth[c] > 1 THEN "raising" ELSE "running"]
            /\ mode \in [Coroutine -> {"running", "waiting", "raising"}]
        BY <1>1, <3>2 DEF CommitFails, Unwind, StackInv
      <4>2. QED
        BY <4>1
    <3>3. QED
      BY <3>1, <3>2
<1>4. db' \subseteq Write
  <2>1. Session(c) \in Call
    BY <1>1, <1>2, TopCall
  <2>2. dirty[c][Session(c)] \subseteq Write
    BY <1>1, <2>1 DEF StackInv
  <2>3. QED
    BY <1>1, <2>2 DEF ReturnJoined, ReturnOwner, CommitFails, Unwind, StackInv
<1>5. StackInv'
  BY <1>1, <1>2, <1>3, <1>4, PopKeeps
<1>6. PoolInv'
  BY <1>1, <1>2, CloseKeeps, NothingConnected
<1>7. QED
  BY <1>5, <1>6, ScopeInvPartsPrimed

\* The steps inside a body.
LEMMA InsideKeeps ==
  ASSUME ScopeInv, NEW c \in Coroutine,
         \/ CallTransactional(c)
         \/ Execute(c) \/ Connect(c) \/ PoolTimeout(c) \/ Raise(c)
         \/ \E w \in Write : ChangeEntity(c, w)
  PROVE  ScopeInv'
<1>1. StackInv /\ PoolInv
  BY ScopeInvParts
<1>2. StackInv'
  BY <1>1, CallKeeps, BodyKeeps
<1>3. CASE Connect(c)
  <2>1. ctx[c] \in Call /\ ctx[c] \notin connected[c]
    BY <1>1, <1>3 DEF Connect, StackInv, WaitsForItsSession
  <2>2. QED
    BY <1>1, <1>2, <1>3, <2>1, ConnectionTaken, ScopeInvPartsPrimed DEF Connect
<1>4. CASE ~Connect(c)
  <2>1. UNCHANGED <<connected, pool>>
    BY <1>4 DEF CallTransactional, JoinedSession, Execute, PoolTimeout, Raise, ChangeEntity
  <2>2. QED
    BY <1>1, <1>2, <2>1, NothingConnected, ScopeInvPartsPrimed
<1>5. QED
  BY <1>3, <1>4

\* Nothing is open at the start.
LEMMA InitScope == Init => ScopeInv
<1> SUFFICES ASSUME Init PROVE ScopeInv
  OBVIOUS
<1>1. StackInv
  BY ScopeAssumption
  DEF Init, StackInv, Call, CtxIsLive, SessionsNest, WaitsForItsSession, OutsideIsRunning
<1>2. Connections = {}
  BY DEF Init, Connections
<1>3. PoolInv
  BY <1>2, FS_EmptySet, ScopeAssumption DEF Init, PoolInv
<1>4. QED
  BY <1>1, <1>3, ScopeInvParts

\* Every step keeps the invariant of the scope.
LEMMA NextScope == ScopeInv /\ [Next]_vars => ScopeInv'
<1> SUFFICES ASSUME ScopeInv, [Next]_vars PROVE ScopeInv'
  OBVIOUS
<1>1. CASE Next
  BY <1>1, InsideKeeps, EndKeeps DEF Next, Step
<1>2. CASE UNCHANGED vars
  BY <1>2, ScopeInvParts, ScopeInvPartsPrimed
  DEF vars, stackVars, StackInv, PoolInv, CtxIsLive, SessionsNest, WaitsForItsSession,
      OutsideIsRunning, Connections, Session
<1>3. QED
  BY <1>1, <1>2

\* Every reachable state satisfies the invariant of the scope.
THEOREM ScopeInvariance == Spec => []ScopeInv
  BY InitScope, NextScope, PTL DEF Spec

\* Every variable keeps its type.
THEOREM ScopeTypeCorrect == Spec => []TypeOK
<1>1. ScopeInv => TypeOK
  BY DEF ScopeInv
<1>2. QED
  BY <1>1, ScopeInvariance, PTL

\* The context variable of @transactional never names a closed session, or one
\* that another call than the running one works in, however calls nest.
THEOREM NoStaleSession == Spec => []CtxIsLive
<1>1. ScopeInv => CtxIsLive
  BY DEF ScopeInv
<1>2. QED
  BY <1>1, ScopeInvariance, PTL

\* No exit of session_factory leaks a connection or gives one back twice, with
\* any number of coroutines, calls and sessions.
THEOREM NoConnectionLeak == Spec => []PoolConserved
<1>1. ScopeInv => PoolConserved
  BY DEF ScopeInv
<1>2. QED
  BY <1>1, ScopeInvariance, PTL

(***************************************************************************)
(* Calls are atomic until a body makes its second decorated call.          *)
(***************************************************************************)

\* What OneSessionInv says of one coroutine whose call is not split.
Single(x, d, ss, cs, dr, m) ==
  /\ x \in {0, 1}
  /\ \A i \in Call : i <= d => ss[i] = 1
  /\ \A i \in Call : i < d => cs[i] = 1
  /\ d # 0 /\ x = 0 => cs[d] = 1
  /\ d = 0 => m = {}
  /\ m = dr[1]

\* A step of coroutine c leaves the others alone.
LEMMA OthersUnmoved ==
  ASSUME ScopeInv, NEW c \in Coroutine, Step(c), NEW d \in Coroutine, d # c
  PROVE  /\ ctx'[d] = ctx[d] /\ depth'[d] = depth[d] /\ sessionOf'[d] = sessionOf[d]
         /\ calls'[d] = calls[d] /\ dirty'[d] = dirty[d] /\ mode'[d] = mode[d]
         /\ made'[d] = made[d]
<1>1. StackInv
  BY ScopeInvParts
<1>2. CASE CallTransactional(c)
  BY <1>1, <1>2 DEF CallTransactional, JoinedSession, StackInv
<1>3. CASE Execute(c) \/ Connect(c) \/ PoolTimeout(c) \/ Raise(c)
  BY <1>1, <1>3 DEF Execute, Connect, PoolTimeout, Raise, stackVars, StackInv
<1>4. CASE \E w \in Write : ChangeEntity(c, w)
  BY <1>1, <1>4 DEF ChangeEntity, stackVars, StackInv
<1>5. CASE ReturnJoined(c) \/ ReturnOwner(c) \/ CommitFails(c) \/ Unwind(c)
  <2>1. Pop(c)
    BY <1>5 DEF ReturnJoined, ReturnOwner, CommitFails, Unwind
  <2>2. dirty'[d] = dirty[d]
    BY <1>1, <1>5 DEF ReturnJoined, ReturnOwner, CommitFails, Unwind, Close, StackInv
  <2>3. mode'[d] = mode[d]
    BY <1>1, <1>5 DEF ReturnJoined, ReturnOwner, CommitFails, Unwind, StackInv
  <2>4. QED
    BY <1>1, <2>1, <2>2, <2>3 DEF Pop, StackInv
<1>6. QED
  BY <1>2, <1>3, <1>4, <1>5 DEF Step

\* A call that is split stays so, a new outermost call is not split, and the
\* second decorated call of a body splits it.
LEMMA CallsAndSplit ==
  ASSUME ScopeInv, NEW c \in Coroutine, CallTransactional(c)
  PROVE  /\ depth[c] = 0 => ~IsSplit(c)'
         /\ IsSplit(c) => IsSplit(c)'
         /\ depth[c] # 0 /\ (\A i \in Call : i < depth[c] => calls[c][i] = 1) /\ ~IsSplit(c)'
              => calls[c][depth[c]] = 0
<1> DEFINE d == depth[c]
           n == d + 1
           cs == calls[c]
           ds == calls'[c]
<1>1. /\ n \in Call /\ d \in Nat /\ depth'[c] = n /\ 1 \in Call
      /\ \A i \in Call : cs[i] \in Nat
      /\ ds = [i \in Call |-> IF i = n THEN 0 ELSE IF i = d THEN cs[i] + 1 ELSE cs[i]]
  BY ScopeInvParts, ScopeAssumption DEF CallTransactional, StackInv, Call
<1>2. d # 0 => d \in Call /\ d > 0
  BY <1>1, ScopeAssumption DEF Call
<1>3. /\ IsSplit(c) <=> d > 0 /\ \E i \in Call : cs[i] > 1 /\ \A j \in Call : j < i => cs[j] = 1
      /\ IsSplit(c)' <=> \E i \in Call : ds[i] > 1 /\ \A j \in Call : j < i => ds[j] = 1
  BY <1>1 DEF IsSplit
<1> HIDE DEF cs, ds
<1>4. ASSUME d = 0 PROVE ~IsSplit(c)'
  BY <1>1, <1>3, <1>4 DEF Call
<1>5. ASSUME IsSplit(c) PROVE IsSplit(c)'
  <2>1. PICK i \in Call : cs[i] > 1 /\ \A j \in Call : j < i => cs[j] = 1
    BY <1>3, <1>5
  <2>2. d > 0 /\ d \in Call
    BY <1>1, <1>2, <1>3, <1>5
  <2>3. CASE d < i
    <3>1. ds[d] = 2 /\ \A j \in Call : j < d => ds[j] = 1
      BY <1>1, <2>1, <2>2, <2>3 DEF Call
    <3>2. QED
      BY <1>3, <2>2, <3>1
  <2>4. CASE ~(d < i)
    <3>1. ds[i] > 1 /\ \A j \in Call : j < i => ds[j] = 1
      BY <1>1, <2>1, <2>2, <2>4 DEF Call
    <3>2. QED
      BY <1>3, <2>1, <3>1
  <2>5. QED
    BY <2>3, <2>4
<1>6. ASSUME d # 0, \A i \in Call : i < d => cs[i] = 1, ~IsSplit(c)'
      PROVE  cs[d] = 0
  <2>1. ds[d] = cs[d] + 1 /\ \A j \in Call : j < d => ds[j] = 1
    BY <1>1, <1>2, <1>6 DEF Call
  <2>2. ~(ds[d] > 1)
    BY <1>2, <1>3, <1>6, <2>1
  <2>3. QED
    BY <1>1, <1>2, <1>6, <2>1, <2>2
<1>7. QED
  BY <1>4, <1>5, <1>6 DEF cs

\* What a call that ends leaves behind.
LEMMA EndOfCall ==
  ASSUME ScopeInv, NEW c \in Coroutine,
         ReturnJoined(c) \/ ReturnOwner(c) \/ CommitFails(c) \/ Unwind(c)
  PROVE  /\ depth[c] # 0 /\ depth'[c] = depth[c] - 1
         /\ ctx'[c] = 0 /\ UNCHANGED <<sessionOf, calls>>
         /\ depth[c] = 1 => /\ IsOwner(c) /\ Session(c) = 1
                            /\ made' = [made EXCEPT ![c] = {}]
                            /\ dirty'[c][1] = {} /\ mode'[c] = "running"
         /\ depth[c] # 1 => depth[c] > 1 /\ made' = made
<1>1. StackInv
  BY ScopeInvParts
<1>2. depth[c] # 0
  BY <1>1
  DEF ReturnJoined, ReturnOwner, CommitFails, Unwind, Running, StackInv, OutsideIsRunning
<1>3. depth[c] \in Call /\ 1 \in Call
  BY <1>1, <1>2, ScopeAssumption, TopCall DEF Call
<1>4. Pop(c)
  BY DEF ReturnJoined, ReturnOwner, CommitFails, Unwind
<1>5. ctx'[c] = 0 /\ depth'[c] = depth[c] - 1 /\ UNCHANGED <<sessionOf, calls>>
  BY <1>1, <1>4 DEF Pop, CtxAfter, StackInv
<1>6. CASE depth[c] = 1
  <2>1. IsOwner(c) /\ Session(c) = 1
    BY <1>1, <1>2, <1>6, TopCall DEF IsOwner, Call
  <2>2. made' = [made EXCEPT ![c] = {}]
    BY <1>4, <1>6 DEF Pop
  <2>3. Close(c)
    BY <2>1 DEF ReturnJoined, ReturnOwner, CommitFails, Unwind
  <2>4. dirty'[c][1] = {}
    BY <1>1, <1>3, <2>1, <2>3 DEF Close, StackInv
  <2>5. mode'[c] = "running"
    BY <1>1, <1>6, <2>1
    DEF ReturnJoined, ReturnOwner, CommitFails, Unwind, Running, StackInv
  <2>6. QED
    BY <1>2, <1>5, <1>6, <2>1, <2>2, <2>4, <2>5
<1>7. CASE depth[c] # 1
  <2>1. depth[c] > 1
    BY <1>3, <1>7 DEF Call
  <2>2. made' = made
    BY <1>1, <1>4, <1>7 DEF Pop, StackInv
  <2>3. QED
    BY <1>2, <1>5, <1>7, <2>1, <2>2
<1>8. QED
  BY <1>6, <1>7

\* How a step of c changes whether its call is split.
LEMMA SplitStep ==
  ASSUME ScopeInv, NEW c \in Coroutine, Step(c)
  PROVE  /\ \A d \in Coroutine : d # c => (IsSplit(d)' <=> IsSplit(d))
         /\ depth'[c] = 0 => ~IsSplit(c)'
         /\ depth'[c] # 0 /\ ~CallTransactional(c) => (IsSplit(c)' <=> IsSplit(c))
         /\ depth'[c] # 0 /\ IsSplit(c) => IsSplit(c)'
<1>1. StackInv
  BY ScopeInvParts
<1>2. ASSUME NEW d \in Coroutine, d # c PROVE IsSplit(d)' <=> IsSplit(d)
  BY <1>2, OthersUnmoved DEF IsSplit
<1>3. depth'[c] = 0 => ~IsSplit(c)'
  BY DEF IsSplit
<1>4. CASE CallTransactional(c)
  BY <1>2, <1>3, <1>4, CallsAndSplit
<1>5. CASE \/ Execute(c) \/ Connect(c) \/ PoolTimeout(c) \/ Raise(c)
           \/ \E w \in Write : ChangeEntity(c, w)
  <2>1. depth' = depth /\ calls' = calls
    BY <1>5 DEF Execute, Connect, PoolTimeout, Raise, ChangeEntity, stackVars
  <2>2. IsSplit(c)' <=> IsSplit(c)
    BY <2>1 DEF IsSplit
  <2>3. QED
    BY <1>2, <1>3, <2>2
<1>6. CASE ReturnJoined(c) \/ ReturnOwner(c) \/ CommitFails(c) \/ Unwind(c)
  <2>1. depth[c] # 0 /\ depth'[c] = depth[c] - 1 /\ calls' = calls /\ depth[c] \in Nat
    BY <1>1, <1>6, EndOfCall DEF StackInv, Call
  <2>2. depth'[c] # 0 => (IsSplit(c)' <=> IsSplit(c))
    BY <2>1 DEF IsSplit
  <2>3. QED
    BY <1>2, <1>3, <2>2
<1>7. QED
  BY <1>4, <1>5, <1>6 DEF Step

\* In a call that is not split, the session of the top call is the first one and
\* its owner is the outermost call.
LEMMA OneSession ==
  ASSUME ScopeInv, OneSessionInv, NEW c \in Coroutine, depth[c] # 0, ~IsSplit(c)
  PROVE  Session(c) = 1 /\ (IsOwner(c) <=> depth[c] = 1) /\ made[c] = dirty[c][1]
<1>1. depth[c] \in Call /\ depth[c] <= depth[c]
  BY ScopeInvParts, TopCall DEF Call
<1>2. QED
  BY <1>1 DEF OneSessionInv, Session, IsOwner

\* The inner calls of a call that is not split end without a trace.
LEMMA EndOfInnerCall ==
  ASSUME ScopeInv, OneSessionInv, NEW c \in Coroutine, depth[c] # 1, ~IsSplit(c),
         ReturnJoined(c) \/ ReturnOwner(c) \/ CommitFails(c) \/ Unwind(c)
  PROVE  UNCHANGED <<dirty, db>> /\ mode'[c] = mode[c]
<1>1. StackInv /\ depth[c] # 0 /\ depth[c] > 1
  BY ScopeInvParts, EndOfCall
<1>2. ~IsOwner(c)
  BY <1>1, OneSession
<1>3. ReturnJoined(c) \/ Unwind(c)
  BY <1>2 DEF ReturnOwner, CommitFails
<1>4. QED
  BY <1>1, <1>2, <1>3 DEF ReturnJoined, Unwind, StackInv

\* A step of c keeps what OneSessionInv says of c.
LEMMA SingleStep ==
  ASSUME ScopeInv, OneSessionInv, NEW c \in Coroutine, Step(c), ~IsSplit(c)'
  PROVE  Single(ctx'[c], depth'[c], sessionOf'[c], calls'[c], dirty'[c], made'[c])
<1>1. StackInv /\ 1 \in Call
  BY ScopeInvParts, ScopeAssumption DEF Call
<1>2. ~IsSplit(c) => Single(ctx[c], depth[c], sessionOf[c], calls[c], dirty[c], made[c])
  BY DEF OneSessionInv, Single
<1>3. CASE CallTransactional(c)
  <2> DEFINE n == depth[c] + 1
  <2>1. /\ n \in Call /\ depth[c] \in Nat
        /\ depth'[c] = n
        /\ ctx'[c] = IF ctx[c] = 0 THEN n ELSE ctx[c]
        /\ sessionOf'[c] = [sessionOf[c] EXCEPT ![n] = IF ctx[c] = 0 THEN n ELSE ctx[c]]
        /\ calls'[c] = [i \in Call |-> IF i = n THEN 0
                                      ELSE IF i = depth[c] THEN calls[c][i] + 1
                                      ELSE calls[c][i]]
        /\ UNCHANGED <<dirty, made>>
    BY <1>1, <1>3 DEF CallTransactional, JoinedSession, StackInv, Call
  <2>2. Single(ctx[c], depth[c], sessionOf[c], calls[c], dirty[c], made[c])
    BY <1>2, <1>3, CallsAndSplit
  <2>3. depth[c] # 0 => calls[c][depth[c]] = 0 /\ ctx[c] = 1
    BY <1>3, <2>2, CallsAndSplit DEF Single
  <2>4. depth[c] = 0 => ctx[c] = 0
    BY <1>1 DEF StackInv, CtxIsLive
  <2>5. ctx'[c] = 1 /\ (IF ctx[c] = 0 THEN n ELSE ctx[c]) = 1
    BY <2>1, <2>3, <2>4
  <2>6. \A i \in Call : i <= n => sessionOf'[c][i] = 1
    <3>1. TAKE i \in Call
    <3>2. HAVE i <= n
    <3>3. CASE i = n
      BY <1>1, <2>1, <2>5, <3>3 DEF StackInv
    <3>4. CASE i # n
      <4>1. i <= depth[c]
        BY <2>1, <3>1, <3>2, <3>4 DEF Call
      <4>2. sessionOf'[c][i] = sessionOf[c][i]
        BY <1>1, <2>1, <3>1, <3>4 DEF StackInv
      <4>3. QED
        BY <2>2, <3>1, <4>1, <4>2 DEF Single
    <3>5. QED
      BY <3>3, <3>4
  <2>7. \A i \in Call : i < n => calls'[c][i] = 1
    <3>1. TAKE i \in Call
    <3>2. HAVE i < n
    <3>3. CASE i = depth[c]
      BY <2>1, <2>3, <3>1, <3>2, <3>3 DEF Call
    <3>4. CASE i # depth[c]
      <4>1. i < depth[c] /\ i # n
        BY <2>1, <3>1, <3>2, <3>4 DEF Call
      <4>2. calls'[c][i] = calls[c][i]
        BY <2>1, <3>1, <3>4, <4>1
      <4>3. QED
        BY <2>2, <3>1, <4>1, <4>2 DEF Single
    <3>5. QED
      BY <3>3, <3>4
  <2>8. n # 0 /\ made'[c] = dirty'[c][1]
    BY <2>2, <2>1 DEF Single
  <2>9. QED
    BY <2>1, <2>5, <2>6, <2>7, <2>8 DEF Single
<1>4. CASE Execute(c) \/ Connect(c) \/ PoolTimeout(c) \/ Raise(c)
  <2>1. UNCHANGED <<ctx, depth, sessionOf, calls, dirty, made>>
    BY <1>4 DEF Execute, Connect, PoolTimeout, Raise, stackVars
  <2>2. ~IsSplit(c)
    BY <2>1 DEF IsSplit
  <2>3. QED
    BY <1>2, <2>1, <2>2
<1>5. ASSUME NEW w \in Write, ChangeEntity(c, w)
      PROVE  Single(ctx'[c], depth'[c], sessionOf'[c], calls'[c], dirty'[c], made'[c])
  <2>1. UNCHANGED <<ctx, depth, sessionOf, calls>>
    BY <1>5 DEF ChangeEntity, stackVars
  <2>2. ~IsSplit(c)
    BY <2>1 DEF IsSplit
  <2>3. depth[c] # 0 /\ Session(c) = 1
    BY <1>1, <1>5, <2>2, OneSession DEF ChangeEntity, Running, StackInv, Call
  <2>4. dirty'[c][1] = dirty[c][1] \cup {w} /\ made'[c] = made[c] \cup {w}
    BY <1>1, <1>5, <2>3 DEF ChangeEntity, StackInv
  <2>5. QED
    BY <1>2, <2>1, <2>2, <2>3, <2>4 DEF Single
<1>6. CASE ReturnJoined(c) \/ ReturnOwner(c) \/ CommitFails(c) \/ Unwind(c)
  <2>1. /\ depth[c] # 0 /\ depth'[c] = depth[c] - 1
        /\ ctx'[c] = 0 /\ UNCHANGED <<sessionOf, calls>>
        /\ depth[c] = 1 => made' = [made EXCEPT ![c] = {}] /\ dirty'[c][1] = {}
        /\ depth[c] # 1 => depth[c] > 1 /\ made' = made
    BY <1>6, EndOfCall
  <2>2. depth[c] \in Call /\ depth[c] \in Nat
    BY <1>1, <2>1, TopCall DEF Call
  <2>3. CASE depth[c] = 1
    <3>1. depth'[c] = 0 /\ made'[c] = {} /\ dirty'[c][1] = {}
      BY <1>1, <2>1, <2>3 DEF StackInv
    <3>2. \A i \in Call : ~(i <= 0) /\ ~(i < 0)
      BY DEF Call
    <3>3. QED
      BY <2>1, <3>1, <3>2 DEF Single
  <2>4. CASE depth[c] # 1
    <3>1. depth'[c] # 0 /\ depth'[c] \in Call /\ depth'[c] < depth[c]
      BY <2>1, <2>2, <2>4, ScopeAssumption DEF Call
    <3>2. ~IsSplit(c)
      BY <1>6, <3>1, SplitStep DEF Step
    <3>3. Single(ctx[c], depth[c], sessionOf[c], calls[c], dirty[c], made[c])
      BY <1>2, <3>2
    <3>4. made' = made /\ dirty' = dirty
      BY <1>6, <2>1, <2>4, <3>2, EndOfInnerCall
    <3>5. \A i \in Call : i <= depth'[c] => sessionOf'[c][i] = 1
      BY <2>1, <2>2, <3>3 DEF Single, Call
    <3>6. \A i \in Call : i < depth'[c] => calls'[c][i] = 1
      BY <2>1, <2>2, <3>3 DEF Single, Call
    <3>7. calls'[c][depth'[c]] = 1
      BY <2>1, <3>1, <3>3 DEF Single
    <3>8. QED
      BY <2>1, <3>1, <3>3, <3>4, <3>5, <3>6, <3>7 DEF Single
  <2>5. QED
    BY <2>3, <2>4
<1>7. QED
  BY <1>3, <1>4, <1>5, <1>6 DEF Step

\* The calls that are not split keep working in one session.
LEMMA OneSessionKeeps ==
  ASSUME ScopeInv, OneSessionInv, [Next]_vars
  PROVE  OneSessionInv'
<1>1. CASE Next
  <2>1. PICK c \in Coroutine : Step(c)
    BY <1>1 DEF Next
  <2>2. ASSUME NEW d \in Coroutine, ~IsSplit(d)'
        PROVE  Single(ctx'[d], depth'[d], sessionOf'[d], calls'[d], dirty'[d], made'[d])
    <3>1. CASE d = c
      BY <2>1, <2>2, <3>1, SingleStep
    <3>2. CASE d # c
      <4>1. ~IsSplit(d)
        BY <2>1, <2>2, <3>2, SplitStep
      <4>2. Single(ctx[d], depth[d], sessionOf[d], calls[d], dirty[d], made[d])
        BY <4>1 DEF OneSessionInv, Single
      <4>3. QED
        BY <2>1, <3>2, <4>2, OthersUnmoved
    <3>3. QED
      BY <3>1, <3>2
  <2>3. QED
    BY <2>2 DEF OneSessionInv, Single
<1>2. CASE UNCHANGED vars
  BY <1>2 DEF vars, stackVars, OneSessionInv, IsSplit
<1>3. QED
  BY <1>1, <1>2

\* A session that holds changes stays connected until it commits or closes, and
\* none outlives the outermost call.
LEMMA DirtyKeeps ==
  ASSUME ScopeInv, ScopeInv', DirtyIsMade, [Next]_vars
  PROVE  DirtyIsMade'
<1>1. StackInv /\ StackInv'
  BY ScopeInvParts, ScopeInvPartsPrimed
<1>2. CASE Next
  <2>1. PICK c \in Coroutine : Step(c)
    BY <1>2 DEF Next
  <2>2. ASSUME NEW d \in Coroutine, d # c, NEW s \in Call
        PROVE  dirty'[d][s] \subseteq made'[d] /\ (dirty'[d][s] # {} => s \in connected'[d])
    <3>1. dirty'[d] = dirty[d] /\ made'[d] = made[d]
      BY <2>1, <2>2, OthersUnmoved
    <3>2. connected'[d] = connected[d]
      <4>1. CASE ReturnJoined(c) \/ ReturnOwner(c) \/ CommitFails(c) \/ Unwind(c)
        BY <1>1, <2>2, <4>1
        DEF ReturnJoined, ReturnOwner, CommitFails, Unwind, Close, StackInv
      <4>2. CASE CallTransactional(c) \/ Execute(c) \/ Connect(c) \/ PoolTimeout(c) \/ Raise(c)
        BY <1>1, <2>2, <4>2
        DEF CallTransactional, Execute, Connect, PoolTimeout, Raise, StackInv
      <4>3. CASE \E w \in Write : ChangeEntity(c, w)
        BY <4>3 DEF ChangeEntity
      <4>4. QED
        BY <2>1, <4>1, <4>2, <4>3 DEF Step
    <3>3. QED
      BY <2>2, <3>1, <3>2 DEF DirtyIsMade
  <2>3. ASSUME NEW s \in Call
        PROVE  dirty'[c][s] \subseteq made'[c] /\ (dirty'[c][s] # {} => s \in connected'[c])
    <3>1. dirty[c][s] \subseteq made[c] /\ (dirty[c][s] # {} => s \in connected[c])
      BY DEF DirtyIsMade
    <3>2. CASE CallTransactional(c) \/ Execute(c) \/ Connect(c) \/ PoolTimeout(c) \/ Raise(c)
      <4>1. UNCHANGED <<dirty, made>> /\ connected[c] \subseteq connected'[c]
        BY <1>1, <3>2
        DEF CallTransactional, Execute, Connect, PoolTimeout, Raise, StackInv
      <4>2. QED
        BY <3>1, <4>1
    <3>3. ASSUME NEW w \in Write, ChangeEntity(c, w)
          PROVE  dirty'[c][s] \subseteq made'[c] /\ (dirty'[c][s] # {} => s \in connected'[c])
      <4>1. /\ connected' = connected /\ Session(c) \in connected[c]
            /\ dirty'[c] = [dirty[c] EXCEPT ![Session(c)] = @ \cup {w}]
            /\ made'[c] = made[c] \cup {w}
        BY <1>1, <3>3 DEF ChangeEntity, StackInv
      <4>2. dirty'[c][s] = IF s = Session(c) THEN dirty[c][s] \cup {w} ELSE dirty[c][s]
        <5>1. DOMAIN dirty[c] = Call
          BY <1>1 DEF StackInv
        <5>2. QED
          BY <2>3, <4>1, <5>1
      <4>3. QED
        BY <3>1, <4>1, <4>2
    <3>4. CASE ReturnJoined(c) \/ ReturnOwner(c) \/ CommitFails(c) \/ Unwind(c)
      <4>1. /\ depth[c] # 0 /\ depth'[c] = depth[c] - 1
            /\ depth[c] # 1 => made' = made
        BY <3>4, EndOfCall
      <4>2. dirty'[c][s] \subseteq dirty[c][s]
            /\ (dirty'[c][s] # {} => s \in connected'[c])
        <5>1. Session(c) \in Call
          BY <1>1, <4>1, TopCall
        <5>2. CASE Close(c)
          <6>1. /\ dirty'[c] = [dirty[c] EXCEPT ![Session(c)] = {}]
                /\ connected'[c] = connected[c] \ {Session(c)}
            BY <1>1, <5>2 DEF Close, StackInv
          <6>2. dirty'[c][s] = IF s = Session(c) THEN {} ELSE dirty[c][s]
            BY <1>1, <6>1 DEF StackInv
          <6>3. QED
            BY <3>1, <6>1, <6>2
        <5>3. CASE UNCHANGED <<dirty, connected>>
          BY <3>1, <5>3
        <5>4. QED
          BY <3>4, <5>2, <5>3 DEF ReturnJoined, ReturnOwner, CommitFails, Unwind
      <4>3. CASE depth[c] # 1
        BY <3>1, <4>1, <4>2, <4>3
      <4>4. CASE depth[c] = 1
        <5>1. depth'[c] = 0 /\ (s \in connected'[c] => s <= depth'[c])
          BY <1>1, <4>1, <4>4 DEF StackInv
        <5>2. ~(s <= 0)
          BY DEF Call
        <5>3. QED
          BY <4>2, <5>1, <5>2
      <4>5. QED
        BY <4>3, <4>4
    <3>5. QED
      BY <2>1, <3>2, <3>3, <3>4 DEF Step
  <2>4. QED
    BY <2>2, <2>3 DEF DirtyIsMade
<1>3. CASE UNCHANGED vars
  BY <1>3 DEF vars, DirtyIsMade
<1>4. QED
  BY <1>2, <1>3

\* The phase of a coroutine and the split calls, the refinement mapping of Promise.
Phase(d, m) == IF d = 0 THEN "outside" ELSE IF m = "raising" THEN "raising" ELSE "running"

phase == [c \in Coroutine |-> Phase(depth[c], mode[c])]

splitting == {c \in Coroutine : IsSplit(c)}

\* Nothing has been called at the start.
LEMMA InitPromise == Init => OneSessionInv /\ DirtyIsMade /\ Promise!Init
<1> SUFFICES ASSUME Init PROVE OneSessionInv /\ DirtyIsMade /\ Promise!Init
  OBVIOUS
<1>1. 1 \in Call /\ 0 \notin Call /\ \A i \in Call : ~(i <= 0) /\ ~(i < 0)
  BY ScopeAssumption DEF Call
<1>2. OneSessionInv
  BY <1>1 DEF Init, OneSessionInv
<1>3. DirtyIsMade
  BY DEF Init, DirtyIsMade
<1>4. \A c \in Coroutine : ~IsSplit(c)
  BY DEF Init, IsSplit
<1>5. Promise!Init
  BY <1>4 DEF Init, Promise!Init
<1>6. QED
  BY <1>2, <1>3, <1>5

\* How the actions of the promise read under the mapping.
LEMMA PromiseActions ==
  ASSUME NEW c \in Coroutine
  PROVE  /\ Promise!Begin(c) <=>
              /\ phase[c] = "outside"
              /\ phase' = [phase EXCEPT ![c] = "running"]
              /\ UNCHANGED <<splitting, made, db>>
         /\ \A w \in Write :
              Promise!Make(c, w) <=>
                /\ phase[c] = "running"
                /\ made' = [made EXCEPT ![c] = @ \cup {w}]
                /\ UNCHANGED <<phase, splitting, db>>
         /\ Promise!Split(c) <=>
              /\ phase[c] = "running"
              /\ splitting' = splitting \cup {c}
              /\ UNCHANGED <<phase, made, db>>
         /\ Promise!Raise(c) <=>
              /\ phase[c] = "running"
              /\ phase' = [phase EXCEPT ![c] = "raising"]
              /\ UNCHANGED <<splitting, made, db>>
         /\ Promise!CommitPart(c) <=>
              /\ phase[c] = "running" /\ c \in splitting
              /\ \E part \in SUBSET made[c] : db' = db \cup part
              /\ UNCHANGED <<phase, splitting, made>>
         /\ Promise!Commit(c) <=>
              /\ phase[c] = "running"
              /\ phase' = [phase EXCEPT ![c] = "outside"]
              /\ splitting' = splitting \ {c}
              /\ made' = [made EXCEPT ![c] = {}]
              /\ \E part \in IF c \in splitting THEN SUBSET made[c] ELSE {made[c]} :
                   db' = db \cup part
         /\ Promise!Abort(c) <=>
              /\ phase[c] # "outside"
              /\ phase' = [phase EXCEPT ![c] = "outside"]
              /\ splitting' = splitting \ {c}
              /\ made' = [made EXCEPT ![c] = {}]
              /\ UNCHANGED db
         /\ UNCHANGED <<phase, splitting, made, db>> => UNCHANGED Promise!vars
<1>1. (Promise!Begin(c) <=>
         /\ phase[c] = "outside"
         /\ phase' = [phase EXCEPT ![c] = "running"]
         /\ UNCHANGED <<splitting, made, db>>)
  BY DEF phase, splitting, Phase, Promise!Begin
<1>2. \A w \in Write :
        Promise!Make(c, w) <=>
          /\ phase[c] = "running"
          /\ made' = [made EXCEPT ![c] = @ \cup {w}]
          /\ UNCHANGED <<phase, splitting, db>>
  BY DEF phase, splitting, Phase, Promise!Make
<1>3. /\ Promise!Split(c) <=>
           /\ phase[c] = "running"
           /\ splitting' = splitting \cup {c}
           /\ UNCHANGED <<phase, made, db>>
      /\ Promise!Raise(c) <=>
           /\ phase[c] = "running"
           /\ phase' = [phase EXCEPT ![c] = "raising"]
           /\ UNCHANGED <<splitting, made, db>>
  BY DEF phase, splitting, Phase, Promise!Split, Promise!Raise
<1>4. Promise!CommitPart(c) <=>
        /\ phase[c] = "running" /\ c \in splitting
        /\ \E part \in SUBSET made[c] : db' = db \cup part
        /\ UNCHANGED <<phase, splitting, made>>
  BY DEF phase, splitting, Phase, Promise!CommitPart, Promise!Parts
<1>5. Promise!Commit(c) <=>
        /\ phase[c] = "running"
        /\ phase' = [phase EXCEPT ![c] = "outside"]
        /\ splitting' = splitting \ {c}
        /\ made' = [made EXCEPT ![c] = {}]
        /\ \E part \in IF c \in splitting THEN SUBSET made[c] ELSE {made[c]} :
             db' = db \cup part
  BY DEF phase, splitting, Phase, Promise!Commit, Promise!End, Promise!Parts
<1>6. Promise!Abort(c) <=>
        /\ phase[c] # "outside"
        /\ phase' = [phase EXCEPT ![c] = "outside"]
        /\ splitting' = splitting \ {c}
        /\ made' = [made EXCEPT ![c] = {}]
        /\ UNCHANGED db
  BY DEF phase, splitting, Phase, Promise!Abort, Promise!End
<1>7. UNCHANGED <<phase, splitting, made, db>> => UNCHANGED Promise!vars
  BY DEF phase, splitting, Phase, Promise!vars
<1>8. QED
  BY <1>1, <1>2, <1>3, <1>4, <1>5, <1>6, <1>7

\* A step of c changes the phase of c only, and whether its call is split only
\* when it calls a decorated function or its outermost call ends.
LEMMA PhaseStep ==
  ASSUME ScopeInv, NEW c \in Coroutine, Step(c)
  PROVE  /\ phase' = [phase EXCEPT ![c] = Phase(depth'[c], mode'[c])]
         /\ depth'[c] # 0 /\ ~CallTransactional(c) => splitting' = splitting
         /\ depth'[c] = 0 => splitting' = splitting \ {c}
         /\ depth'[c] # 0 => splitting' \in {splitting, splitting \cup {c}}
         /\ depth[c] = 0 => c \notin splitting
<1>1. phase' = [phase EXCEPT ![c] = Phase(depth'[c], mode'[c])]
  BY OthersUnmoved DEF phase
<1>2. /\ \A d \in Coroutine : d # c => (d \in splitting' <=> d \in splitting)
      /\ depth'[c] = 0 => c \notin splitting'
      /\ depth'[c] # 0 /\ ~CallTransactional(c) => (c \in splitting' <=> c \in splitting)
      /\ depth'[c] # 0 /\ c \in splitting => c \in splitting'
  BY SplitStep DEF splitting
<1>3. \A d : d \in splitting \/ d \in splitting' => d \in Coroutine
  BY DEF splitting
<1>4. depth[c] = 0 => c \notin splitting
  BY DEF splitting, IsSplit
<1> HIDE DEF splitting
<1>5. depth'[c] # 0 /\ ~CallTransactional(c) => splitting' = splitting
  BY <1>2, <1>3
<1>6. depth'[c] = 0 => splitting' = splitting \ {c}
  BY <1>2, <1>3
<1>7. depth'[c] # 0 => splitting' \in {splitting, splitting \cup {c}}
  BY <1>2, <1>3
<1>8. QED
  BY <1>1, <1>4, <1>5, <1>6, <1>7

\* A step of a coroutine is a step of the promise, or none.
LEMMA StepKeepsPromise ==
  ASSUME ScopeInv, OneSessionInv, DirtyIsMade, NEW c \in Coroutine, Step(c)
  PROVE  [Promise!Next]_(Promise!vars)
<1>1. /\ StackInv
      /\ phase' = [phase EXCEPT ![c] = Phase(depth'[c], mode'[c])]
      /\ phase = [d \in Coroutine |-> Phase(depth[d], mode[d])]
      /\ made \in [Coroutine -> SUBSET Write]
  BY ScopeInvParts, PhaseStep DEF phase, StackInv
<1>2. \A x : x = phase[c] => [phase EXCEPT ![c] = x] = phase
  BY <1>1
<1>3. CASE CallTransactional(c)
  <2>1. depth'[c] # 0 /\ mode'[c] = "running" /\ mode[c] = "running"
        /\ UNCHANGED <<made, db>>
    BY <1>1, <1>3 DEF CallTransactional, JoinedSession, StackInv, Call
  <2>2. phase' = [phase EXCEPT ![c] = "running"]
    BY <1>1, <2>1 DEF Phase
  <2>3. CASE depth[c] = 0
    <3>1. phase[c] = "outside"
      BY <1>1, <2>3 DEF Phase
    <3>2. ~IsSplit(c)'
      BY <1>3, <2>3, CallsAndSplit
    <3>3. splitting' = splitting
      BY <2>1, <2>3, <3>2, PhaseStep DEF splitting
    <3>4. QED
      BY <2>1, <2>2, <3>1, <3>3, PromiseActions DEF Promise!Next
  <2>4. CASE depth[c] # 0
    <3>1. phase[c] = "running" /\ phase' = phase
      BY <1>1, <1>2, <2>1, <2>2, <2>4 DEF Phase
    <3>2. splitting' \in {splitting, splitting \cup {c}}
      BY <2>1, PhaseStep
    <3>3. QED
      BY <2>1, <3>1, <3>2, PromiseActions DEF Promise!Next
  <2>5. QED
    BY <2>3, <2>4
<1>4. CASE Execute(c) \/ Connect(c)
  <2>1. /\ Phase(depth'[c], mode'[c]) = phase[c] /\ UNCHANGED <<made, db>>
        /\ UNCHANGED <<depth, calls>>
    BY <1>1, <1>4 DEF Execute, Connect, Running, stackVars, StackInv, Phase
  <2>2. splitting' = splitting
    BY <2>1 DEF splitting, IsSplit
  <2>3. QED
    BY <1>1, <1>2, <2>1, <2>2, PromiseActions
<1>5. CASE PoolTimeout(c) \/ Raise(c)
  <2>1. depth[c] # 0 /\ mode[c] # "raising"
    BY <1>1, <1>5 DEF PoolTimeout, Raise, Running, StackInv, OutsideIsRunning
  <2>2. /\ UNCHANGED <<depth, calls, made, db>> /\ mode'[c] = "raising"
    BY <1>1, <1>5 DEF PoolTimeout, Raise, stackVars, StackInv
  <2>3. phase[c] = "running" /\ phase' = [phase EXCEPT ![c] = "raising"]
    BY <1>1, <2>1, <2>2 DEF Phase
  <2>4. splitting' = splitting
    BY <2>2 DEF splitting, IsSplit
  <2>5. QED
    BY <2>2, <2>3, <2>4, PromiseActions DEF Promise!Next
<1>6. ASSUME NEW w \in Write, ChangeEntity(c, w)
      PROVE  [Promise!Next]_(Promise!vars)
  <2>1. /\ depth[c] # 0 /\ mode[c] = "running"
        /\ UNCHANGED <<depth, calls, mode, db>>
        /\ made' = [made EXCEPT ![c] = @ \cup {w}]
    BY <1>1, <1>6 DEF ChangeEntity, Running, stackVars, StackInv, Call
  <2>2. phase[c] = "running" /\ phase' = phase
    BY <1>1, <1>2, <2>1 DEF Phase
  <2>3. splitting' = splitting
    BY <2>1 DEF splitting, IsSplit
  <2>4. QED
    BY <2>1, <2>2, <2>3, PromiseActions DEF Promise!Next
<1>7. CASE ReturnJoined(c) \/ ReturnOwner(c) \/ CommitFails(c) \/ Unwind(c)
  <2>1. depth[c] # 0 /\ depth'[c] = depth[c] - 1 /\ depth[c] \in Nat
    BY <1>1, <1>7, EndOfCall DEF StackInv, Call
  <2>2. Session(c) \in Call /\ dirty[c][Session(c)] \subseteq made[c]
    BY <1>1, <2>1, TopCall DEF DirtyIsMade
  <2>3. CASE depth[c] # 1
    <3>1. made' = made /\ depth'[c] # 0
      BY <1>7, <2>1, <2>3, EndOfCall
    <3>2. splitting' = splitting
      <4>1. calls' = calls /\ \A d \in Coroutine : d # c => depth'[d] = depth[d]
        BY <1>7, EndOfCall, OthersUnmoved
      <4>2. \A d \in Coroutine : depth'[d] > 0 <=> depth[d] > 0
        BY <2>1, <2>3, <4>1
      <4>3. QED
        BY <4>1, <4>2 DEF splitting, IsSplit
    <3>3. CASE c \notin splitting
      <4>1. UNCHANGED <<made, db>> /\ mode'[c] = mode[c]
        BY <1>7, <2>3, <3>1, <3>3, EndOfInnerCall DEF splitting
      <4>2. Phase(depth'[c], mode'[c]) = phase[c]
        BY <1>1, <2>1, <3>1, <4>1 DEF Phase
      <4>3. QED
        BY <1>1, <1>2, <3>2, <4>1, <4>2, PromiseActions
    <3>4. CASE c \in splitting
      <4>1. CASE ReturnJoined(c) \/ ReturnOwner(c)
        <5>1. mode[c] = "running" /\ mode'[c] = "running"
          BY <4>1 DEF ReturnJoined, ReturnOwner, Running
        <5>2. phase[c] = "running" /\ phase' = phase
          BY <1>1, <1>2, <2>1, <3>1, <5>1 DEF Phase
        <5>3. \E part \in SUBSET made[c] : db' = db \cup part
          <6>1. CASE db' = db
            <7>1. {} \in SUBSET made[c] /\ db' = db \cup {}
              BY <6>1
            <7>2. QED
              BY <7>1
          <6>2. CASE db' = db \cup dirty[c][Session(c)]
            BY <2>2, <6>2
          <6>3. QED
            BY <4>1, <6>1, <6>2 DEF ReturnJoined, ReturnOwner
        <5>4. QED
          BY <3>1, <3>2, <3>4, <5>2, <5>3, PromiseActions DEF Promise!Next
      <4>2. CASE CommitFails(c) \/ Unwind(c)
        <5>1. depth[c] > 1 /\ UNCHANGED db /\ mode'[c] = "raising"
              /\ (mode[c] = "running" \/ mode[c] = "raising")
          <6>1. depth[c] > 1
            BY <1>7, <2>3, EndOfCall
          <6>2. QED
            BY <1>1, <4>2, <6>1 DEF CommitFails, Unwind, Running, StackInv
        <5>2. phase' = [phase EXCEPT ![c] = "raising"] /\ phase[c] \in {"running", "raising"}
          BY <1>1, <2>1, <3>1, <5>1 DEF Phase
        <5>3. CASE phase[c] = "running"
          BY <3>1, <3>2, <5>1, <5>2, <5>3, PromiseActions DEF Promise!Next
        <5>4. CASE phase[c] = "raising"
          BY <1>2, <3>1, <3>2, <5>1, <5>2, <5>4, PromiseActions
        <5>5. QED
          BY <5>2, <5>3, <5>4
      <4>3. QED
        BY <1>7, <4>1, <4>2
    <3>5. QED
      BY <3>3, <3>4
  <2>4. CASE depth[c] = 1
    <3>1. /\ phase' = [phase EXCEPT ![c] = "outside"]
          /\ phase[c] # "outside"
          /\ mode[c] = "running" => phase[c] = "running"
      BY <1>1, <2>1, <2>4 DEF Phase
    <3>2. /\ made' = [made EXCEPT ![c] = {}]
          /\ Session(c) = 1 /\ IsOwner(c)
      BY <1>7, <2>4, EndOfCall
    <3>3. splitting' = splitting \ {c}
      BY <2>1, <2>4, PhaseStep
    <3>4. CASE ReturnOwner(c)
      <4>1. mode[c] = "running" /\ db' = db \cup dirty[c][1]
        BY <3>2, <3>4 DEF ReturnOwner, Running
      <4>2. dirty[c][1] \in IF c \in splitting THEN SUBSET made[c] ELSE {made[c]}
        BY <2>1, <2>2, <3>2, OneSession DEF splitting
      <4>3. QED
        BY <3>1, <3>2, <3>3, <4>1, <4>2, PromiseActions DEF Promise!Next
    <3>5. CASE CommitFails(c) \/ Unwind(c)
      <4>1. UNCHANGED db
        BY <3>5 DEF CommitFails, Unwind
      <4>2. QED
        BY <3>1, <3>2, <3>3, <4>1, PromiseActions DEF Promise!Next
    <3>6. QED
      BY <1>7, <3>2, <3>4, <3>5 DEF ReturnJoined
  <2>5. QED
    BY <2>3, <2>4
<1>8. QED
  BY <1>3, <1>4, <1>5, <1>6, <1>7 DEF Step

\* However deep the calls nest, however many decorated calls a body makes and
\* wherever they raise: an outermost call is all or nothing as long as none of
\* its bodies makes a second decorated call, and one that is split commits parts
\* of its own changes only, and none once it raises out of its first call.
THEOREM OutermostCallsAreAtomic == Spec => CallsAreAtomic
<1>1. Init => OneSessionInv /\ DirtyIsMade /\ Promise!Init
  BY InitPromise
<1>2. ScopeInv /\ OneSessionInv /\ [Next]_vars => OneSessionInv'
  BY OneSessionKeeps
<1>3. ScopeInv /\ ScopeInv' /\ DirtyIsMade /\ [Next]_vars => DirtyIsMade'
  BY DirtyKeeps
<1>4. ScopeInv /\ OneSessionInv /\ DirtyIsMade /\ [Next]_vars
        => [Promise!Next]_(Promise!vars)
  <2>1. UNCHANGED vars => UNCHANGED Promise!vars
    BY DEF vars, stackVars, Promise!vars, IsSplit
  <2>2. QED
    BY <2>1, StepKeepsPromise DEF Next
<1>5. QED
  BY <1>1, <1>2, <1>3, <1>4, ScopeInvariance, PTL DEF Spec, CallsAreAtomic, Promise!Spec
============================================================================
