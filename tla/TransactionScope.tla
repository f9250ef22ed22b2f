-------------------------- MODULE TransactionScope --------------------------
(***************************************************************************)
(* The unit of work of common/infrastructure/database.py: a context        *)
(* variable that holds the session of the running coroutine, the context   *)
(* manager session_factory that joins it or opens one, and the decorator   *)
(* @transactional, whose wrapper resets the variable whenever a decorated  *)
(* function ends, the joined ones included.                                *)
(*                                                                         *)
(* A coroutine is a stack of decorated calls, numbered from 1.  A session  *)
(* is known by the number of the call that opened it, its owner.  What the *)
(* bodies may do is bounded by constants: the code has one function with   *)
(* two decorated calls in its body (detach_volume_from_server), the others *)
(* have none.  Sessions take their connection from SQLAlchemy's pool.      *)
(***************************************************************************)
EXTENDS Naturals, FiniteSets

CONSTANTS
  Coroutine,  \* request handlers and background tasks
  Write,      \* changes made to entities
  MaxDepth,   \* how deep decorated calls nest
  MaxNested,  \* how many decorated calls one body makes
  PoolSize    \* connections of the engine's pool, overflow included

ASSUME ScopeAssumption ==
  /\ MaxDepth \in Nat \ {0}
  /\ MaxNested \in Nat
  /\ PoolSize \in Nat \ {0}

VARIABLES
  ctx,        \* _async_session: the session a repository would join; 0 is None
  depth,      \* the number of calls on the stack
  sessionOf,  \* the session each call runs in
  calls,      \* how many decorated calls each body has made
  dirty,      \* the unflushed changes of each session
  connected,  \* the sessions that hold a connection
  pool,       \* connections in the pool
  mode,       \* running its body, waiting for a connection, or raising
  made,       \* history: the writes of the outermost call
  db          \* the committed writes

stackVars == <<depth, sessionOf, calls>>
vars == <<ctx, stackVars, dirty, connected, pool, mode, made, db>>

Call == 1..MaxDepth

TypeOK ==
  /\ ctx \in [Coroutine -> {0} \cup Call]
  /\ depth \in [Coroutine -> {0} \cup Call]
  /\ sessionOf \in [Coroutine -> [Call -> Call]]
  /\ calls \in [Coroutine -> [Call -> 0..MaxNested]]
  /\ dirty \in [Coroutine -> [Call -> SUBSET Write]]
  /\ connected \in [Coroutine -> SUBSET Call]
  /\ pool \in 0..PoolSize
  /\ mode \in [Coroutine -> {"running", "waiting", "raising"}]
  /\ made \in [Coroutine -> SUBSET Write]
  /\ db \subseteq Write

Init ==
  /\ ctx = [c \in Coroutine |-> 0]
  /\ depth = [c \in Coroutine |-> 0]
  /\ sessionOf = [c \in Coroutine |-> [i \in Call |-> i]]
  /\ calls = [c \in Coroutine |-> [i \in Call |-> 0]]
  /\ dirty = [c \in Coroutine |-> [i \in Call |-> {}]]
  /\ connected = [c \in Coroutine |-> {}]
  /\ pool = PoolSize
  /\ mode = [c \in Coroutine |-> "running"]
  /\ made = [c \in Coroutine |-> {}]
  /\ db = {}

---------------------------------------------------------------------------
Running(c) == depth[c] > 0 /\ mode[c] = "running"

Session(c) == sessionOf[c][depth[c]]

IsOwner(c) == Session(c) = depth[c]

Fresh(w) == w \notin db /\ \A c \in Coroutine : w \notin made[c]

\* MUTANT  session_factory does not look at the context variable
NeverJoined(c, n) == n

\* session_factory yields the session of the context variable, or opens one.
JoinedSession(c, n) == IF ctx[c] = 0 THEN n ELSE ctx[c]

\* A decorated function is called, by nobody or by the body of the top call:
\* it joins the session of the context variable or opens its own.
CallTransactional(c) ==
  LET n == depth[c] + 1
  IN  /\ mode[c] = "running"
      /\ n \in Call
      /\ depth[c] > 0 => calls[c][depth[c]] < MaxNested
      /\ depth' = [depth EXCEPT ![c] = n]
      /\ sessionOf' = [sessionOf EXCEPT ![c][n] = JoinedSession(c, n)]
      /\ ctx' = [ctx EXCEPT ![c] = JoinedSession(c, n)]
      /\ calls' = [calls EXCEPT ![c] =
           [i \in Call |-> IF i = n THEN 0
                           ELSE IF i = depth[c] THEN @[i] + 1
                           ELSE @[i]]]
      /\ UNCHANGED <<dirty, connected, pool, mode, made, db>>

\* The first statement of the joined session needs a connection.
Execute(c) ==
  /\ Running(c)
  /\ ctx[c] # 0 /\ ctx[c] \notin connected[c]
  /\ mode' = [mode EXCEPT ![c] = "waiting"]
  /\ UNCHANGED <<ctx, stackVars, dirty, connected, pool, made, db>>

Connect(c) ==
  /\ mode[c] = "waiting" /\ pool > 0
  /\ pool' = pool - 1
  /\ connected' = [connected EXCEPT ![c] = @ \cup {ctx[c]}]
  /\ mode' = [mode EXCEPT ![c] = "running"]
  /\ UNCHANGED <<ctx, stackVars, dirty, made, db>>

\* MUTANT  the timeout is caught and the statement is tried again
RetryOnPoolTimeout(c) ==
  /\ mode[c] = "waiting" /\ pool = 0
  /\ mode' = [mode EXCEPT ![c] = "running"]
  /\ UNCHANGED <<ctx, stackVars, dirty, connected, pool, made, db>>

\* The pool stays empty for its timeout (30 seconds unless the engine is given
\* another) and the statement raises.
PoolTimeout(c) ==
  /\ mode[c] = "waiting" /\ pool = 0
  /\ mode' = [mode EXCEPT ![c] = "raising"]
  /\ UNCHANGED <<ctx, stackVars, dirty, connected, pool, made, db>>

\* The body changes an entity its own session has loaded or added.
ChangeEntity(c, w) ==
  /\ Running(c) /\ Fresh(w)
  /\ Session(c) \in connected[c]
  /\ dirty' = [dirty EXCEPT ![c][Session(c)] = @ \cup {w}]
  /\ made' = [made EXCEPT ![c] = @ \cup {w}]
  /\ UNCHANGED <<ctx, stackVars, connected, pool, mode, db>>

---------------------------------------------------------------------------
(* The end of a call.                                                      *)

\* MUTANT  neither the wrapper nor session_factory resets the variable
CtxKept(c) == ctx[c]

\* The wrapper's finally, which a joined call runs too.
CtxAfter(c) == 0

Pop(c) ==
  /\ depth' = [depth EXCEPT ![c] = @ - 1]
  /\ ctx' = [ctx EXCEPT ![c] = CtxAfter(c)]
  /\ made' = [made EXCEPT ![c] = IF depth[c] = 1 THEN {} ELSE @]
  /\ UNCHANGED <<sessionOf, calls>>

\* MUTANT  session.close() is skipped when the body raised
CloseUnlessRaising(c) ==
  /\ dirty' = [dirty EXCEPT ![c][Session(c)] = {}]
  /\ connected' = [connected EXCEPT ![c] = @ \ {Session(c)}]
  /\ pool' = IF Session(c) \in connected[c] /\ mode[c] # "raising" THEN pool + 1 ELSE pool

\* session.close() in session_factory's finally.
Close(c) ==
  /\ dirty' = [dirty EXCEPT ![c][Session(c)] = {}]
  /\ connected' = [connected EXCEPT ![c] = @ \ {Session(c)}]
  /\ pool' = IF Session(c) \in connected[c] THEN pool + 1 ELSE pool

\* A joined call returns: session_factory does nothing after its yield.
ReturnJoined(c) ==
  /\ Running(c) /\ ~IsOwner(c)
  /\ Pop(c)
  /\ UNCHANGED <<dirty, connected, pool, mode, db>>

\* The owner returns and its session commits ...
ReturnOwner(c) ==
  /\ Running(c) /\ IsOwner(c)
  /\ db' = db \cup dirty[c][Session(c)]
  /\ Pop(c) /\ Close(c)
  /\ UNCHANGED mode

\* ... or the commit fails, the session is rolled back, and the caller sees an
\* exception.
CommitFails(c) ==
  /\ Running(c) /\ IsOwner(c) /\ dirty[c][Session(c)] # {}
  /\ Pop(c) /\ Close(c)
  /\ mode' = [mode EXCEPT ![c] = IF depth[c] > 1 THEN "raising" ELSE "running"]
  /\ UNCHANGED db

Raise(c) ==
  /\ Running(c)
  /\ mode' = [mode EXCEPT ![c] = "raising"]
  /\ UNCHANGED <<ctx, stackVars, dirty, connected, pool, made, db>>

\* The exception leaves the top call; no caller in the code catches it.
Unwind(c) ==
  /\ mode[c] = "raising"
  /\ Pop(c)
  /\ IF IsOwner(c) THEN Close(c) ELSE UNCHANGED <<dirty, connected, pool>>
  /\ mode' = [mode EXCEPT ![c] = IF depth[c] > 1 THEN "raising" ELSE "running"]
  /\ UNCHANGED db

Step(c) ==
  \/ CallTransactional(c)
  \/ Execute(c)
  \/ Connect(c)
  \/ PoolTimeout(c)
  \/ \E w \in Write : ChangeEntity(c, w)
  \/ ReturnJoined(c)
  \/ ReturnOwner(c)
  \/ CommitFails(c)
  \/ Raise(c)
  \/ Unwind(c)

Next == \E c \in Coroutine : Step(c)

Spec == Init /\ [][Next]_vars

\* The event loop resumes every coroutine that can go on; every await ends.
FairSpec == Spec /\ \A c \in Coroutine : WF_vars(Step(c))

---------------------------------------------------------------------------
\* The context variable never names a session that is closed, or that another
\* call than the running one works in: neither a returned call nor an exception
\* leaves a session behind for the next decorated call to join.
CtxIsLive ==
  \A c \in Coroutine :
    ctx[c] # 0 => depth[c] > 0 /\ ctx[c] = Session(c) /\ sessionOf[c][ctx[c]] = ctx[c]

\* The pairs of a coroutine and a session of it that holds a connection.
Connections == {x \in Coroutine \X Call : x[2] \in connected[x[1]]}

\* Every exit of session_factory gives the connection of its session back once:
\* the pool neither leaks nor grows, and a coroutine holds connections for the
\* sessions of calls it is still in only.
PoolConserved ==
  /\ pool + Cardinality(Connections) = PoolSize
  /\ \A c \in Coroutine : \A s \in connected[c] : s <= depth[c] /\ sessionOf[c][s] = s

\* A call runs in its own session or in one that was opened below it.
SessionsNest == \A c \in Coroutine, i \in Call : sessionOf[c][i] <= i

\* A coroutine waits for the connection of the session it would use next.
WaitsForItsSession ==
  \A c \in Coroutine :
    mode[c] = "waiting" => ctx[c] # 0 /\ ctx[c] \notin connected[c]

\* Outside of any call nothing is awaited and no exception is on its way.
OutsideIsRunning == \A c \in Coroutine : depth[c] = 0 => mode[c] = "running"

\* The inductive invariant of the scope, whatever the bodies do.
ScopeInv ==
  /\ TypeOK
  /\ CtxIsLive
  /\ SessionsNest
  /\ WaitsForItsSession
  /\ OutsideIsRunning
  /\ IsFiniteSet(Connections)
  /\ PoolConserved

\* A body of the outermost call has made a second decorated call.  The first one
\* left the context variable empty, so the second opened a session of its own.
\* (Up to i the bodies have made one call: calls[c][i] is of this outermost call.)
IsSplit(c) ==
  /\ depth[c] > 0
  /\ \E i \in Call : calls[c][i] > 1 /\ \A j \in Call : j < i => calls[c][j] = 1

\* The inductive invariant of calls that are not split: one session per outermost
\* call.  Once the context variable is empty, every call on the stack has made
\* its one call, so that nobody opens another session without splitting it.
OneSessionInv ==
  \A c \in Coroutine : IsSplit(c) \/
    /\ ctx[c] \in {0, 1}
    /\ \A i \in Call : i <= depth[c] => sessionOf[c][i] = 1
    /\ \A i \in Call : i < depth[c] => calls[c][i] = 1
    /\ depth[c] # 0 /\ ctx[c] = 0 => calls[c][depth[c]] = 1
    /\ depth[c] = 0 => made[c] = {}
    /\ made[c] = dirty[c][1]

\* Every session, that of a split call included, holds changes of its own call only.
DirtyIsMade ==
  \A c \in Coroutine, s \in Call :
    /\ dirty[c][s] \subseteq made[c]
    /\ dirty[c][s] # {} => s \in connected[c]

\* Every outermost call ends, even when coroutines hold the connection of an
\* outer session while they wait for that of an inner one.
CallsEnd == \A c \in Coroutine : depth[c] > 0 ~> depth[c] = 0

\* An outermost call is all or nothing as long as none of its bodies makes a second
\* decorated call, whatever the other coroutines do.  After that its sessions commit
\* apart, but what has not been committed when it raises never is.
Promise == INSTANCE AtomicCalls WITH
  phase <- [c \in Coroutine |-> IF depth[c] = 0 THEN "outside"
                                ELSE IF mode[c] = "raising" THEN "raising"
                                ELSE "running"],
  split <- {c \in Coroutine : IsSplit(c)}
CallsAreAtomic == Promise!Spec
=============================================================================
