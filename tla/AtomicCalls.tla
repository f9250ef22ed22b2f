---------------------------- MODULE AtomicCalls ----------------------------
(***************************************************************************)
(* What @transactional gives an outermost call (common/infrastructure/     *)
(* database.py).  Its docstring promises all or nothing: the writes of the *)
(* call, the calls it makes included, become visible together when it      *)
(* returns, and not at all when it raises or when the commit fails.  A     *)
(* call that has been split over several sessions gets less: parts of its  *)
(* writes may become visible as long as it runs, but none once it raises.  *)
(***************************************************************************)
CONSTANTS
  Coroutine,  \* coroutines that run transactional functions
  Write       \* changes made to entities

VARIABLES
  phase,  \* "outside" of any call, "running" one, or "raising" out of it
  split,  \* the coroutines whose call works in more than one session
  made,   \* the writes of that call
  db      \* the committed writes

vars == <<phase, split, made, db>>

Init ==
  /\ phase = [c \in Coroutine |-> "outside"]
  /\ split = {}
  /\ made = [c \in Coroutine |-> {}]
  /\ db = {}

Begin(c) ==
  /\ phase[c] = "outside"
  /\ phase' = [phase EXCEPT ![c] = "running"]
  /\ UNCHANGED <<split, made, db>>

Make(c, w) ==
  /\ phase[c] = "running"
  /\ made' = [made EXCEPT ![c] = @ \cup {w}]
  /\ UNCHANGED <<phase, split, db>>

Split(c) ==
  /\ phase[c] = "running"
  /\ split' = split \cup {c}
  /\ UNCHANGED <<phase, made, db>>

Raise(c) ==
  /\ phase[c] = "running"
  /\ phase' = [phase EXCEPT ![c] = "raising"]
  /\ UNCHANGED <<split, made, db>>

\* What becomes visible at once: everything, or some part of a split call.
Parts(c) == IF c \in split THEN SUBSET made[c] ELSE {made[c]}

\* One of the sessions of a split call commits while the call goes on.
CommitPart(c) ==
  /\ phase[c] = "running" /\ c \in split
  /\ \E part \in Parts(c) : db' = db \cup part
  /\ UNCHANGED <<phase, split, made>>

End(c) ==
  /\ phase' = [phase EXCEPT ![c] = "outside"]
  /\ split' = split \ {c}
  /\ made' = [made EXCEPT ![c] = {}]

Commit(c) ==
  /\ phase[c] = "running"
  /\ End(c)
  /\ \E part \in Parts(c) : db' = db \cup part

Abort(c) ==
  /\ phase[c] # "outside"
  /\ End(c)
  /\ UNCHANGED db

Next ==
  \E c \in Coroutine :
    \/ Begin(c)
    \/ \E w \in Write : Make(c, w)
    \/ Split(c)
    \/ Raise(c)
    \/ CommitPart(c)
    \/ Commit(c)
    \/ Abort(c)

Spec == Init /\ [][Next]_vars
============================================================================
