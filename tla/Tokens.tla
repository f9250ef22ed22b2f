------------------------------- MODULE Tokens -------------------------------
(***************************************************************************)
(* The two kinds of Keystone token the API server works with, on a clock:  *)
(* the system token that every poll loop uses, kept in a global variable   *)
(* and replaced by a job of the scheduler; and the token of a user, issued *)
(* by a login, carried in the access token, and used until the request     *)
(* that brought it ends.                                                   *)
(*                                                                         *)
(* Time is counted in whole units; a token is represented by its expiry.   *)
(* Passwords, projects and the other claims of the access token are left   *)
(* out.  Whoever asks for the system token before the first refresh has    *)
(* ended gets an exception: a failing call in the other modules.           *)
(***************************************************************************)
EXTENDS Integers

CONSTANTS
  Client,    \* users, each with the access token of the latest login
  Request,   \* concurrent requests of users: each is a slot that serves many
  NoToken,   \* None
  Lifetime,  \* external: how long a token of Keystone lives
  Buffer,    \* the five minutes an access token ends before its Keystone token
  Duration,  \* ACCESS_TOKEN_DURATION_MINUTES
  Interval,  \* REFRESH_INTERVAL_SECONDS_FOR_SYSTEM_KEYSTONE_TOKEN
  Latency,   \* the longest a refresh takes, to its answer or its timeout
  MaxTime,   \* bound on the clock
  Fault      \* what may go wrong with a refresh, and restarts

ASSUME TokensAssumption ==
  /\ Lifetime \in Nat /\ Buffer \in Nat /\ Duration \in Nat
  /\ Interval \in Nat \ {0} /\ Latency \in Nat /\ MaxTime \in Nat
  /\ NoToken \notin Int
  /\ Fault \subseteq {"refusal", "no_answer", "misfire", "restart"}

\* A deployment refreshes the system token long enough before it expires, even
\* when a slow refresh makes the scheduler skip the next one.
ASSUME RefreshInTime == Interval + 2 * Latency <= Lifetime

VARIABLES
  now,      \* the clock
  system,   \* _admin_keystone_token
  due,      \* when the scheduler runs the refresh next
  jobs,     \* the refreshes that await Keystone
  late,     \* history: a refresh has failed since the last that did not
  login,    \* per client, the login that runs or the access token it gave
  request   \* the requests that users' tokens are used in

vars == <<now, system, due, jobs, late, login, request>>

---------------------------------------------------------------------------
(* Types and the initial states.                                           *)

Time == 0..MaxTime

Token == Int \cup {NoToken}

\* `issued` is NoToken until Keystone has carried the request out.
Job == [sent : Time, issued : Token]

\* `exp` is the claim of the access token, `keystone` the token in it.
Login == [at : {"none", "issuing", "issued", "held"}, keystone : Int, exp : Int]

LoggedOut == [at |-> "none", keystone |-> 0, exp |-> 0]

RequestState == [busy : BOOLEAN, since : Int, keystone : Int]

Idle == [busy |-> FALSE, since |-> 0, keystone |-> 0]

TypeOK ==
  /\ now \in Time
  /\ system \in Token
  /\ due \in Nat
  /\ jobs \subseteq Job
  /\ late \in BOOLEAN
  /\ login \in [Client -> Login]
  /\ request \in [Request -> RequestState]

\* The lifespan of the application adds the job, due at once.
Init ==
  /\ now = 0
  /\ system = NoToken
  /\ due = 0
  /\ jobs = {}
  /\ late = FALSE
  /\ login = [c \in Client |-> LoggedOut]
  /\ request = [r \in Request |-> Idle]

---------------------------------------------------------------------------
(* The clock.                                                              *)

\* Nothing that is due is passed over: the scheduler wakes up, and a request
\* to Keystone ends, if by its timeout.
Tick ==
  /\ now < MaxTime /\ now < due
  /\ \A j \in jobs : now < j.sent + Latency
  /\ now' = now + 1
  /\ UNCHANGED <<system, due, jobs, late, login, request>>

---------------------------------------------------------------------------
(* The scheduler and refresh_system_keystone_token.                        *)

May(fault) == fault \in Fault

\* MUTANT  max_instances = 2
MayRunBeside(js) == \A j, k \in js : j = k

\* max_instances = 1
MayRun(js) == js = {}

\* MUTANT  the interval is the lifetime of the token
NextRunAtExpiry == now + Lifetime

NextRun == now + Interval

\* The job runs, or is skipped while an earlier one still does.
Fire ==
  /\ now = due
  /\ due' = NextRun
  /\ jobs' = IF MayRun(jobs) THEN jobs \cup {[sent |-> now, issued |-> NoToken]} ELSE jobs
  /\ UNCHANGED <<now, system, late, login, request>>

\* The event loop was busy longer than the grace time: the run is dropped.
Misfire ==
  /\ May("misfire")
  /\ now = due
  /\ due' = NextRun
  /\ late' = TRUE
  /\ UNCHANGED <<now, system, jobs, login, request>>

\* Keystone issues the token; the answer is on its way.
Issue(j) ==
  /\ j.issued = NoToken
  /\ jobs' = (jobs \ {j}) \cup {[j EXCEPT !.issued = now + Lifetime]}
  /\ UNCHANGED <<now, system, due, late, login, request>>

Refreshed(j) ==
  /\ j.issued # NoToken
  /\ system' = j.issued
  /\ jobs' = jobs \ {j}
  /\ late' = FALSE
  /\ UNCHANGED <<now, due, login, request>>

\* A status error is logged, an error of the connection ends the run of the
\* job: the old token stays, and the scheduler keeps its times.
RefreshFails(j) ==
  /\ \/ j.issued = NoToken /\ May("refusal")
     \/ May("no_answer")
  /\ jobs' = jobs \ {j}
  /\ late' = TRUE
  /\ UNCHANGED <<now, system, due, login, request>>

---------------------------------------------------------------------------
(* POST /auth/login                                                        *)

\* _authenticate_user and _choose_project find what they look for.
BeginLogin(c) ==
  /\ login[c].at \in {"none", "held"}
  /\ login' = [login EXCEPT ![c] = [LoggedOut EXCEPT !.at = "issuing"]]
  /\ UNCHANGED <<now, system, due, jobs, late, request>>

\* authenticate_with_scoped_auth, as Keystone does it.
IssueUserToken(c) ==
  /\ login[c].at = "issuing"
  /\ login' = [login EXCEPT ![c].at = "issued", ![c].keystone = now + Lifetime]
  /\ UNCHANGED <<now, system, due, jobs, late, request>>

\* MUTANT  the access token lives as long as the Keystone token in it
ExpiryUnbuffered(keystone) ==
  IF now + Duration > keystone THEN keystone ELSE now + Duration

\* For a token about to expire this lies before now: nothing accepts it.
Expiry(keystone) ==
  IF now + Duration > keystone - Buffer THEN keystone - Buffer ELSE now + Duration

\* The answer may have taken any time: create_access_token reads the clock.
CreateAccessToken(c) ==
  /\ login[c].at = "issued"
  /\ login' = [login EXCEPT ![c].at = "held", ![c].exp = Expiry(login[c].keystone)]
  /\ UNCHANGED <<now, system, due, jobs, late, request>>

\* A login that fails answers an error: the client has no token.
LoginFails(c) ==
  /\ login[c].at = "issuing"
  /\ login' = [login EXCEPT ![c] = LoggedOut]
  /\ UNCHANGED <<now, system, due, jobs, late, request>>

---------------------------------------------------------------------------
(* The requests that bring an access token.                                *)

\* get_current_user: the second of the expiry itself is still accepted.
Accept(r, c) ==
  /\ ~request[r].busy
  /\ login[c].at = "held" /\ now <= login[c].exp
  /\ request' = [request EXCEPT ![r] =
       [busy |-> TRUE, since |-> now, keystone |-> login[c].keystone]]
  /\ UNCHANGED <<now, system, due, jobs, late, login>>

\* The request and its background tasks have ended.
Finish(r) ==
  /\ request[r].busy
  /\ request' = [request EXCEPT ![r] = Idle]
  /\ UNCHANGED <<now, system, due, jobs, late, login>>

\* The process stops and starts again; access tokens stay valid.
Restart ==
  /\ May("restart")
  /\ system' = NoToken
  /\ due' = now
  /\ jobs' = {}
  /\ late' = FALSE
  /\ login' = [c \in Client |-> IF login[c].at = "held" THEN login[c] ELSE LoggedOut]
  /\ request' = [r \in Request |-> Idle]
  /\ UNCHANGED now

---------------------------------------------------------------------------
(* The specification.                                                      *)

Scheduler ==
  Fire \/ Misfire \/ \E j \in jobs : Issue(j) \/ Refreshed(j) \/ RefreshFails(j)

Users ==
  \/ \E c \in Client :
       BeginLogin(c) \/ IssueUserToken(c) \/ CreateAccessToken(c) \/ LoginFails(c)
  \/ \E r \in Request : Finish(r) \/ \E c \in Client : Accept(r, c)

Next == Tick \/ Scheduler \/ Users \/ Restart

Spec == Init /\ [][Next]_vars

---------------------------------------------------------------------------
(* Properties.                                                             *)

\* A slow answer never puts an older system token in the place of a newer one:
\* refresh_system_keystone_token assigns whatever it gets.
SystemTokenNeverGoesBack ==
  [][system # NoToken /\ system' # NoToken => system <= system']_vars

\* While no refresh has failed since the last one that succeeded, the token
\* that poll loops get has not expired, slow refreshes and skipped runs of the
\* job included.
SystemTokenIsAlive ==
  system # NoToken /\ ~late => now <= system

\* The Keystone token of a request that was accepted lives for as long as the
\* buffer, however old the access token was: requests and background tasks
\* that end in that time never use an expired one.
TokenOutlivesRequest ==
  \A r \in Request :
    request[r].busy /\ now <= request[r].since + Buffer => now <= request[r].keystone

---------------------------------------------------------------------------
(* The inductive invariant.                                                *)

OneRefresh == \A j, k \in jobs : j = k

\* A refresh has its time, and a token it brings was issued meanwhile.
JobsInTime ==
  \A j \in jobs :
    /\ j.sent <= now /\ now <= j.sent + Latency
    /\ j.issued # NoToken => j.sent + Lifetime <= j.issued /\ j.issued <= now + Lifetime

DueInTime == now <= due /\ due <= now + Interval

\* The token in use is older than the one on its way.
SystemIsOlder ==
  system # NoToken =>
    /\ system <= now + Lifetime
    /\ \A j \in jobs : j.issued # NoToken => system <= j.issued

\* The token in use lasts until the refresh that is running, or the next one,
\* must have ended.
SystemLasts ==
  system # NoToken /\ ~late =>
    /\ jobs = {} => due + Latency <= system
    /\ \A j \in jobs : j.sent + Latency <= system

LoginsBuffered ==
  \A c \in Client : login[c].at = "held" => login[c].exp + Buffer <= login[c].keystone

RequestsBuffered ==
  \A r \in Request : request[r].busy => request[r].since + Buffer <= request[r].keystone

IndInv ==
  /\ TypeOK
  /\ OneRefresh
  /\ JobsInTime
  /\ DueInTime
  /\ SystemIsOlder
  /\ SystemLasts
  /\ LoginsBuffered
  /\ RequestsBuffered
=============================================================================
