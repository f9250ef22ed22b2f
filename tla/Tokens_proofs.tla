---------------------------- MODULE Tokens_proofs ----------------------------
(***************************************************************************)
(* Proofs about Tokens, for any number of clients and requests and any     *)
(* times that satisfy RefreshInTime.  The scheduler part and the users'    *)
(* part of the state are independent of each other but for the clock; an   *)
(* action of the one leaves the invariant of the other to the clock.       *)
(***************************************************************************)
EXTENDS Tokens, TLAPS

\* The invariant of the scheduler and of the users.
SchedulerInv == OneRefresh /\ JobsInTime /\ DueInTime /\ SystemIsOlder /\ SystemLasts

UsersInv == LoginsBuffered /\ RequestsBuffered

LEMMA Initially == Init => IndInv
<1> SUFFICES ASSUME Init PROVE IndInv
  OBVIOUS
<1>1. TypeOK
  <2>1. now \in Time /\ system \in Token /\ due \in Nat
    BY TokensAssumption DEF Init, Time, Token
  <2>2. LoggedOut \in Login /\ Idle \in RequestState
    BY DEF LoggedOut, Login, Idle, RequestState
  <2> QED
    BY <2>1, <2>2 DEF Init, TypeOK
<1>2. SchedulerInv
  BY TokensAssumption
  DEF Init, SchedulerInv, OneRefresh, JobsInTime, DueInTime, SystemIsOlder, SystemLasts
<1>3. UsersInv
  BY DEF Init, UsersInv, LoginsBuffered, RequestsBuffered, LoggedOut, Idle
<1> QED
  BY <1>1, <1>2, <1>3 DEF IndInv, SchedulerInv, UsersInv

---------------------------------------------------------------------------
(* The type invariant.                                                     *)

LEMMA TypeKept ==
  ASSUME IndInv, [Next]_vars
  PROVE  TypeOK'
<1> USE TokensAssumption
<1>0. TypeOK /\ DueInTime
  BY DEF IndInv
<1>1. CASE UNCHANGED vars
  BY <1>0, <1>1 DEF TypeOK, vars
<1>2. CASE Tick
  <2>1. now' \in Time
    BY <1>0, <1>2 DEF Tick, TypeOK, Time
  <2> QED
    BY <1>0, <1>2, <2>1 DEF Tick, TypeOK
<1>3. CASE Fire
  <2>1. due' \in Nat
    BY <1>0, <1>3 DEF Fire, NextRun, TypeOK, Time
  <2>2. [sent |-> now, issued |-> NoToken] \in Job
    BY <1>0 DEF TypeOK, Job, Token
  <2>3. jobs' \subseteq Job
    BY <1>0, <1>3, <2>2 DEF Fire, TypeOK
  <2> QED
    BY <1>0, <1>3, <2>1, <2>3 DEF Fire, TypeOK
<1>4. CASE Misfire
  <2>1. due' \in Nat
    BY <1>0, <1>4 DEF Misfire, NextRun, TypeOK, Time
  <2> QED
    BY <1>0, <1>4, <2>1 DEF Misfire, TypeOK
<1>5. ASSUME NEW j \in jobs, Issue(j) PROVE TypeOK'
  <2>1. j \in Job /\ now + Lifetime \in Token
    BY <1>0 DEF TypeOK, Time, Token
  <2>2. [j EXCEPT !.issued = now + Lifetime] \in Job
    BY <2>1 DEF Job
  <2>3. jobs' \subseteq Job
    BY <1>0, <1>5, <2>2 DEF Issue, TypeOK
  <2> QED
    BY <1>0, <1>5, <2>3 DEF Issue, TypeOK
<1>6. ASSUME NEW j \in jobs, Refreshed(j) PROVE TypeOK'
  <2>1. j.issued \in Token
    BY <1>0 DEF TypeOK, Job
  <2> QED
    BY <1>0, <1>6, <2>1 DEF Refreshed, TypeOK
<1>7. ASSUME NEW j \in jobs, RefreshFails(j) PROVE TypeOK'
  BY <1>0, <1>7 DEF RefreshFails, TypeOK
<1>8. ASSUME NEW c \in Client,
             BeginLogin(c) \/ IssueUserToken(c) \/ CreateAccessToken(c) \/ LoginFails(c)
      PROVE  TypeOK'
  <2>1. login' \in [Client -> Login]
    <3>1. CASE BeginLogin(c) \/ LoginFails(c)
      BY <1>0, <3>1 DEF BeginLogin, LoginFails, TypeOK, Login, LoggedOut
    <3>2. CASE IssueUserToken(c)
      <4>1. now + Lifetime \in Int
        BY <1>0 DEF TypeOK, Time
      <4> QED
        BY <1>0, <3>2, <4>1 DEF IssueUserToken, TypeOK, Login
    <3>3. CASE CreateAccessToken(c)
      <4>1. Expiry(login[c].keystone) \in Int
        BY <1>0 DEF Expiry, TypeOK, Time, Login
      <4> QED
        BY <1>0, <3>3, <4>1 DEF CreateAccessToken, TypeOK, Login
    <3> QED
      BY <1>8, <3>1, <3>2, <3>3
  <2>2. UNCHANGED <<now, system, due, jobs, late, request>>
    BY <1>8 DEF BeginLogin, IssueUserToken, CreateAccessToken, LoginFails
  <2> QED
    BY <1>0, <2>1, <2>2 DEF TypeOK
<1>9. ASSUME NEW r \in Request, Finish(r) \/ \E c \in Client : Accept(r, c)
      PROVE  TypeOK'
  <2>1. request' \in [Request -> RequestState]
    <3>1. CASE Finish(r)
      BY <1>0, <3>1 DEF Finish, TypeOK, RequestState, Idle
    <3>2. ASSUME NEW c \in Client, Accept(r, c) PROVE request' \in [Request -> RequestState]
      <4>1. [busy |-> TRUE, since |-> now, keystone |-> login[c].keystone] \in RequestState
        BY <1>0 DEF TypeOK, Time, Login, RequestState
      <4> QED
        BY <1>0, <3>2, <4>1 DEF Accept, TypeOK
    <3> QED
      BY <1>9, <3>1, <3>2
  <2>2. UNCHANGED <<now, system, due, jobs, late, login>>
    BY <1>9 DEF Finish, Accept
  <2> QED
    BY <1>0, <2>1, <2>2 DEF TypeOK
<1>10. CASE Restart
  <2>1. login' \in [Client -> Login]
    BY <1>0, <1>10 DEF Restart, TypeOK, Login, LoggedOut
  <2>2. request' \in [Request -> RequestState]
    BY <1>10 DEF Restart, RequestState, Idle
  <2>3. due' \in Nat
    BY <1>0, <1>10 DEF Restart, TypeOK, Time
  <2> QED
    BY <1>0, <1>10, <2>1, <2>2, <2>3 DEF Restart, TypeOK, Token
<1> QED
  BY <1>1, <1>2, <1>3, <1>4, <1>5, <1>6, <1>7, <1>8, <1>9, <1>10
  DEF Next, Scheduler, Users

---------------------------------------------------------------------------
(* The scheduler.                                                          *)

\* The steps that touch nothing of it.
LEMMA SchedulerAlone ==
  ASSUME SchedulerInv, UNCHANGED <<now, system, due, jobs, late>>
  PROVE  SchedulerInv'
BY DEF SchedulerInv, OneRefresh, JobsInTime, DueInTime, SystemIsOlder, SystemLasts

LEMMA TickInTime ==
  ASSUME TypeOK, SchedulerInv, Tick
  PROVE  SchedulerInv'
<1> USE TokensAssumption DEF TypeOK, Time, Token, Job
<1>1. OneRefresh'
  BY DEF SchedulerInv, Tick, OneRefresh
<1>2. JobsInTime'
  BY DEF SchedulerInv, Tick, JobsInTime
<1>3. DueInTime'
  BY DEF SchedulerInv, Tick, DueInTime
<1>4. SystemIsOlder'
  BY DEF SchedulerInv, Tick, SystemIsOlder
<1>5. SystemLasts'
  BY DEF SchedulerInv, Tick, SystemLasts
<1> QED
  BY <1>1, <1>2, <1>3, <1>4, <1>5 DEF SchedulerInv

\* A job that starts now has until now + Latency, and so has the token.
LEMMA FireInTime ==
  ASSUME TypeOK, SchedulerInv, Fire
  PROVE  SchedulerInv'
<1> USE TokensAssumption
<1> DEFINE new == [sent |-> now, issued |-> NoToken]
<1>1. (jobs' = jobs /\ jobs # {}) \/ (jobs' = {new} /\ jobs = {})
  BY DEF Fire, MayRun
<1>2. OneRefresh'
  BY <1>1 DEF SchedulerInv, OneRefresh
<1>3. JobsInTime'
  BY <1>1 DEF SchedulerInv, Fire, JobsInTime, TypeOK, Time
<1>4. DueInTime'
  BY DEF Fire, NextRun, DueInTime, TypeOK, Time
<1>5. SystemIsOlder'
  BY <1>1 DEF SchedulerInv, Fire, SystemIsOlder
<1>6. SystemLasts'
  <2>1. CASE jobs' = jobs /\ jobs # {}
    BY <2>1 DEF SchedulerInv, Fire, SystemLasts
  <2>2. CASE jobs' = {new} /\ jobs = {}
    <3>1. system # NoToken /\ ~late => new.sent + Latency <= system
      BY <2>2 DEF SchedulerInv, Fire, SystemLasts
    <3> QED
      BY <2>2, <3>1 DEF Fire, SystemLasts
  <2> QED
    BY <1>1, <2>1, <2>2
<1> QED
  BY <1>2, <1>3, <1>4, <1>5, <1>6 DEF SchedulerInv

LEMMA MisfireInTime ==
  ASSUME TypeOK, SchedulerInv, Misfire
  PROVE  SchedulerInv'
<1>1. DueInTime'
  BY TokensAssumption DEF Misfire, NextRun, DueInTime, TypeOK, Time
<1> QED
  BY <1>1
  DEF SchedulerInv, Misfire, OneRefresh, JobsInTime, SystemIsOlder, SystemLasts

\* Keystone issues the newest token so far.
LEMMA IssueInTime ==
  ASSUME TypeOK, SchedulerInv, NEW j \in jobs, Issue(j)
  PROVE  SchedulerInv'
<1> USE TokensAssumption
<1> DEFINE new == [j EXCEPT !.issued = now + Lifetime]
<1>1. jobs' = {new} /\ jobs = {j}
  BY DEF SchedulerInv, OneRefresh, Issue
<1>2. new.sent = j.sent /\ new.issued = now + Lifetime
  BY DEF TypeOK, Job
<1>3. OneRefresh'
  BY <1>1 DEF OneRefresh
<1>4. JobsInTime'
  BY <1>1, <1>2 DEF SchedulerInv, Issue, JobsInTime, TypeOK, Time, Job
<1>5. SystemIsOlder'
  BY <1>1, <1>2 DEF SchedulerInv, Issue, SystemIsOlder
<1>6. SystemLasts'
  BY <1>1, <1>2 DEF SchedulerInv, Issue, SystemLasts
<1> QED
  BY <1>3, <1>4, <1>5, <1>6 DEF SchedulerInv, Issue, DueInTime

\* The new token was issued after its job was sent, and the next job starts at
\* most an interval after this one has ended.
LEMMA RefreshedInTime ==
  ASSUME TypeOK, SchedulerInv, NEW j \in jobs, Refreshed(j)
  PROVE  SchedulerInv'
<1> USE TokensAssumption, RefreshInTime
<1>1. jobs' = {}
  BY DEF SchedulerInv, OneRefresh, Refreshed
<1>2. system' = j.issued /\ UNCHANGED <<now, due>>
  BY DEF Refreshed
<1>3. /\ j.sent \in Nat /\ j.issued \in Int /\ now \in Nat /\ due \in Nat
      /\ now <= j.sent + Latency
      /\ j.sent + Lifetime <= j.issued /\ j.issued <= now + Lifetime
  BY DEF SchedulerInv, JobsInTime, Refreshed, TypeOK, Job, Token, Time
<1>4. SystemIsOlder'
  BY <1>1, <1>2, <1>3 DEF SystemIsOlder
<1>5. SystemLasts'
  <2>1. due + Latency <= j.issued
    BY <1>3 DEF SchedulerInv, DueInTime
  <2> QED
    BY <1>1, <1>2, <2>1 DEF SystemLasts
<1> QED
  BY <1>1, <1>2, <1>4, <1>5 DEF SchedulerInv, OneRefresh, JobsInTime, DueInTime

LEMMA FailureInTime ==
  ASSUME SchedulerInv, NEW j \in jobs, RefreshFails(j)
  PROVE  SchedulerInv'
BY DEF SchedulerInv, RefreshFails, OneRefresh, JobsInTime, DueInTime,
       SystemIsOlder, SystemLasts

LEMMA RestartInTime ==
  ASSUME TypeOK, Restart
  PROVE  SchedulerInv'
BY TokensAssumption
DEF SchedulerInv, Restart, OneRefresh, JobsInTime, DueInTime, SystemIsOlder,
    SystemLasts, TypeOK, Time

LEMMA SchedulerKept ==
  ASSUME IndInv, [Next]_vars
  PROVE  SchedulerInv'
<1>0. TypeOK /\ SchedulerInv
  BY DEF IndInv, SchedulerInv
<1>1. CASE UNCHANGED vars
  BY <1>0, <1>1, SchedulerAlone DEF vars
<1>2. CASE Users
  <2>1. UNCHANGED <<now, system, due, jobs, late>>
    BY <1>2 DEF Users, BeginLogin, IssueUserToken, CreateAccessToken, LoginFails, Finish, Accept
  <2> QED
    BY <1>0, <2>1, SchedulerAlone
<1>3. CASE Scheduler
  BY <1>0, <1>3, FireInTime, MisfireInTime, IssueInTime, RefreshedInTime, FailureInTime
  DEF Scheduler
<1> QED
  BY <1>0, <1>1, <1>2, <1>3, TickInTime, RestartInTime DEF Next

---------------------------------------------------------------------------
(* The users.                                                              *)

\* create_access_token keeps the buffer, whatever the clock says.
LEMMA ExpiryIsBuffered ==
  ASSUME now \in Int, NEW keystone \in Int
  PROVE  Expiry(keystone) \in Int /\ Expiry(keystone) + Buffer <= keystone
BY TokensAssumption DEF Expiry

LEMMA UsersKept ==
  ASSUME IndInv, [Next]_vars
  PROVE  UsersInv'
<1>0. TypeOK /\ UsersInv /\ now \in Int
  BY TokensAssumption DEF IndInv, UsersInv, TypeOK, Time
<1>1. CASE UNCHANGED <<login, request>>
  BY <1>0, <1>1 DEF UsersInv, LoginsBuffered, RequestsBuffered
<1>2. ASSUME NEW c \in Client, BeginLogin(c) \/ IssueUserToken(c) \/ LoginFails(c)
      PROVE  UsersInv'
  <2>1. login'[c].at # "held" /\ \A d \in Client \ {c} : login'[d] = login[d]
    BY <1>0, <1>2 DEF BeginLogin, IssueUserToken, LoginFails, TypeOK, Login, LoggedOut
  <2> QED
    BY <1>0, <1>2, <2>1
    DEF UsersInv, LoginsBuffered, RequestsBuffered, BeginLogin, IssueUserToken, LoginFails
<1>3. ASSUME NEW c \in Client, CreateAccessToken(c) PROVE UsersInv'
  <2>1. login[c].keystone \in Int
    BY <1>0 DEF TypeOK, Login
  <2>2. /\ login'[c].exp = Expiry(login[c].keystone)
        /\ login'[c].keystone = login[c].keystone
        /\ \A d \in Client \ {c} : login'[d] = login[d]
    BY <1>0, <1>3 DEF CreateAccessToken, TypeOK, Login
  <2>3. LoginsBuffered'
    BY <1>0, <2>1, <2>2, ExpiryIsBuffered DEF UsersInv, LoginsBuffered
  <2> QED
    BY <1>0, <1>3, <2>3 DEF UsersInv, RequestsBuffered, CreateAccessToken
<1>4. ASSUME NEW r \in Request, Finish(r) PROVE UsersInv'
  BY <1>0, <1>4 DEF UsersInv, LoginsBuffered, RequestsBuffered, Finish, TypeOK, RequestState, Idle
<1>5. ASSUME NEW r \in Request, NEW c \in Client, Accept(r, c) PROVE UsersInv'
  <2>1. /\ login[c].exp \in Int /\ login[c].keystone \in Int
        /\ now <= login[c].exp /\ login[c].exp + Buffer <= login[c].keystone
    BY <1>0, <1>5 DEF Accept, UsersInv, LoginsBuffered, TypeOK, Login
  <2>2. now + Buffer <= login[c].keystone
    BY <1>0, <2>1, TokensAssumption
  <2> QED
    BY <1>0, <1>5, <2>2 DEF UsersInv, LoginsBuffered, RequestsBuffered, Accept, TypeOK
<1>6. CASE Restart
  BY <1>0, <1>6 DEF UsersInv, LoginsBuffered, RequestsBuffered, Restart, LoggedOut, Idle
<1>7. CASE Tick \/ Scheduler
  BY <1>1, <1>7 DEF Tick, Scheduler, Fire, Misfire, Issue, Refreshed, RefreshFails
<1> QED
  BY <1>1, <1>2, <1>3, <1>4, <1>5, <1>6, <1>7 DEF Next, Users, vars

---------------------------------------------------------------------------
(* The theorems.                                                           *)

\* The inductive invariant of Tokens holds in every reachable state.
THEOREM Invariance == Spec => []IndInv
<1>1. IndInv /\ [Next]_vars => IndInv'
  BY TypeKept, SchedulerKept, UsersKept DEF IndInv, SchedulerInv, UsersInv
<1> QED
  BY Initially, <1>1, PTL DEF Spec

\* The state is well-formed.
THEOREM TypeCorrect == Spec => []TypeOK
<1>1. IndInv => TypeOK
  BY DEF IndInv
<1> QED
  BY Invariance, <1>1, PTL

\* While refreshes succeed the system token in use has not expired, however
\* slow they are and however many runs the scheduler skips.
THEOREM SystemTokenLives == Spec => []SystemTokenIsAlive
<1>1. ASSUME IndInv PROVE SystemTokenIsAlive
  <2>1. SUFFICES ASSUME system # NoToken, ~late PROVE now <= system
    BY DEF SystemTokenIsAlive
  <2>2. now \in Int /\ due \in Int /\ system \in Int
    BY <1>1, <2>1, TokensAssumption DEF IndInv, TypeOK, Time, Token
  <2>3. CASE jobs = {}
    BY <1>1, <2>1, <2>2, <2>3, TokensAssumption DEF IndInv, DueInTime, SystemLasts
  <2>4. ASSUME NEW j \in jobs PROVE now <= system
    <3>1. j.sent \in Int
      BY <1>1, <2>4 DEF IndInv, TypeOK, Job, Time
    <3> QED
      BY <1>1, <2>1, <2>2, <2>4, <3>1, TokensAssumption DEF IndInv, JobsInTime, SystemLasts
  <2> QED
    BY <2>3, <2>4
<1> QED
  BY Invariance, <1>1, PTL

\* No answer that arrives late puts back an older system token.
THEOREM SystemTokenAdvances == Spec => SystemTokenNeverGoesBack
<1>1. ASSUME IndInv, [Next]_vars, system # NoToken, system' # NoToken
      PROVE  system <= system'
  <2>1. system \in Int
    BY <1>1 DEF IndInv, TypeOK, Token
  <2>2. CASE system' = system
    BY <2>1, <2>2
  <2>3. ASSUME NEW j \in jobs, Refreshed(j) PROVE system <= system'
    BY <1>1, <2>3 DEF IndInv, SystemIsOlder, Refreshed
  <2>4. CASE Restart
    BY <1>1, <2>4 DEF Restart
  <2>5. CASE Tick \/ Fire \/ Misfire \/ Users \/ UNCHANGED vars
    BY <2>2, <2>5
    DEF Tick, Fire, Misfire, Users, BeginLogin, IssueUserToken, CreateAccessToken,
        LoginFails, Finish, Accept, vars
  <2>6. ASSUME NEW j \in jobs, Issue(j) \/ RefreshFails(j) PROVE system <= system'
    BY <2>2, <2>6 DEF Issue, RefreshFails
  <2> QED
    BY <1>1, <2>3, <2>4, <2>5, <2>6 DEF Next, Scheduler
<1>2. IndInv /\ [Next]_vars => [system # NoToken /\ system' # NoToken => system <= system']_vars
  BY <1>1
<1> QED
  BY Invariance, <1>2, PTL DEF Spec, SystemTokenNeverGoesBack

\* A request that ends within the buffer never uses an expired token, however
\* old the access token was that it came with.
THEOREM RequestsAreCovered == Spec => []TokenOutlivesRequest
<1>1. ASSUME IndInv PROVE TokenOutlivesRequest
  <2>1. SUFFICES ASSUME NEW r \in Request, request[r].busy,
                        now <= request[r].since + Buffer
                 PROVE  now <= request[r].keystone
    BY DEF TokenOutlivesRequest
  <2>2. request[r].since + Buffer <= request[r].keystone
    BY <1>1, <2>1 DEF IndInv, RequestsBuffered
  <2>3. now \in Int /\ request[r].since \in Int /\ request[r].keystone \in Int
    BY <1>1, TokensAssumption DEF IndInv, TypeOK, Time, RequestState
  <2> QED
    BY <2>1, <2>2, <2>3, TokensAssumption
<1> QED
  BY Invariance, <1>1, PTL
=============================================================================
