------------------------------ MODULE Sessions ------------------------------
(***************************************************************************)
(* The session of one user in one browser tab: the backend's refresh       *)
(* handler against the token id that Redis keeps for the user, and the     *)
(* axios interceptor that answers a 401 with a refresh.                    *)
(*                                                                         *)
(*   active      is_active of the user                                     *)
(*   stored      refresh-token-id:<user>; 0 is no id.  One per user.       *)
(*   issued      ids given out so far; an access token has the number of   *)
(*               the id it was issued with                                 *)
(*   expired     access tokens up to this number have run out              *)
(*   attempts    refreshes counted in the limiter's window                 *)
(*   cookie      the id in the browser's refreshToken cookie; 0 is none    *)
(*   access      the access token the tab holds; 0 is null                 *)
(*   page        the tab: a page of the application, a page being loaded,  *)
(*               or the sign-in form after loading failed                  *)
(*   requests    requests in flight                                        *)
(*   spent       what is left of the bounds                                *)
(*   disturbed   history, since the sign-in: refreshes overlapped, the     *)
(*               page was left during one, the user signed in or out       *)
(*               elsewhere or was deactivated, the id ran out, the limiter *)
(*               refused, or an answer was lost                            *)
(*                                                                         *)
(* The interceptor sends its refresh through the same axios instance, so a *)
(* refresh that is answered with 401 is answered with a refresh again.     *)
(* depth counts these: the request at depth 0 is the one the page made,    *)
(* the one at depth d + 1 is the refresh that the 401 of the one at depth  *)
(* d led to.  When it succeeds, the request at depth d is sent once more.  *)
(*                                                                         *)
(* Left out: the check of the password, the lockout after failed sign-ins, *)
(* and logout.  The CSRF token comes and goes with the cookie, so without  *)
(* the cookie a refresh is answered with 403, which is final.              *)
(***************************************************************************)
EXTENDS Naturals, FiniteSets

CONSTANTS Requests, refreshMaxAttempts,
          MaxBad,       \* bound: sign-ins and sign-outs elsewhere, deactivations, ids that run
                        \* out, lost answers, reloads, and sign-ins at the sign-in page
          MaxExpiries,  \* bound: times the access tokens run out
          MaxWindows    \* bound: times the limiter's window moves on

ASSUME SessionsAssumption ==
  refreshMaxAttempts \in Nat \ {0} /\ MaxBad \in Nat /\ MaxExpiries \in Nat /\ MaxWindows \in Nat

VARIABLES active, stored, issued, expired, attempts, cookie, access, page, requests, spent,
          disturbed

sessionVars == <<active, stored, issued, expired, attempts, cookie, access, page, requests, spent,
                 disturbed>>

ServerStages == {"limit", "user", "validate", "invalidate", "insert"}

\* kind: a call of the API, the refresh of a page that loads, or one nobody waits for any more.
Request == [kind : {"api", "init", "orphan"}, at : {"api", "reply"} \cup ServerStages,
            depth : Nat, retried : BOOLEAN, token : Nat, sent : Nat, got : Nat]

InFlight   == DOMAIN requests
Refreshing == {c \in InFlight : requests[c].at # "api"}

With(c, r)  == requests' = [d \in InFlight \cup {c} |-> IF d = c THEN r ELSE requests[d]]
Settle(c)   == requests' = [d \in InFlight \ {c} |-> requests[d]]

\* A refresh leaves the browser with the cookie of that moment.
Refresh(r, depth, retried) ==
  [r EXCEPT !.at = "limit", !.depth = depth, !.retried = retried, !.sent = cookie]
Overlaps(c) == disturbed' = (disturbed \/ Refreshing \ {c} # {})

\* The page is left: its requests go on at the server, but nobody waits for them.
Orphans(gone) == [c \in {d \in InFlight \ gone : requests[d].at # "api"} |->
                    [requests[c] EXCEPT !.kind = "orphan"]]

New(kind) == [kind |-> kind, at |-> "api", depth |-> 0, retried |-> FALSE,
              token |-> access, sent |-> 0, got |-> 0]

-----------------------------------------------------------------------------
(* The tab. *)

CallApi(c) ==
  /\ page = "app" /\ access # 0 /\ c \notin InFlight
  /\ With(c, New("api"))
  /\ UNCHANGED <<active, stored, issued, expired, attempts, cookie, access, page, spent, disturbed>>

\* AuthProvider asks for a refresh when a page is loaded.
Initialize(c) ==
  /\ page = "loading" /\ c \notin InFlight /\ \A d \in InFlight : requests[d].kind # "init"
  /\ With(c, Refresh(New("init"), 0, FALSE))
  /\ Overlaps(c)
  /\ UNCHANGED <<active, stored, issued, expired, attempts, cookie, access, page, spent>>

\* After signing in the router leaves the sign-in route, and AuthProvider refreshes at once.
SignIn(c) ==
  /\ page = "signin" /\ active /\ spent.bad < MaxBad /\ c \notin InFlight
  /\ spent' = [spent EXCEPT !.bad = @ + 1]
  /\ issued' = issued + 1 /\ stored' = issued' /\ cookie' = issued' /\ access' = issued'
  /\ page' = "app"
  /\ With(c, [New("init") EXCEPT !.at = "limit", !.sent = issued'])
  /\ disturbed' = (Refreshing # {})
  /\ UNCHANGED <<active, expired, attempts>>

Reload ==
  /\ page = "app" /\ spent.bad < MaxBad
  /\ page' = "loading" /\ access' = 0
  /\ requests' = Orphans({})
  /\ spent' = [spent EXCEPT !.bad = @ + 1]
  /\ disturbed' = (disturbed \/ Refreshing # {})
  /\ UNCHANGED <<active, stored, issued, expired, attempts, cookie>>

\* A request of the page is refused for good.  When that happens below depth 0, the interceptor
\* drops the token and goes to the sign-in page, which loads like any other.
Reject(c) ==
  CASE requests[c].kind = "orphan" -> Settle(c) /\ UNCHANGED <<access, page>>
    [] requests[c].kind # "orphan" /\ requests[c].depth > 0 ->
         access' = 0 /\ page' = "loading" /\ requests' = Orphans({c})
    [] requests[c].kind = "init" /\ requests[c].depth = 0 ->
         access' = 0 /\ page' = "signin" /\ Settle(c)
    [] OTHER -> Settle(c) /\ UNCHANGED <<access, page>>

\* Bound on the depth; the limiter ends the chain before it bites (SessionsTypeOK).
Deeper(depth) == IF depth <= refreshMaxAttempts + 1 THEN depth + 1 ELSE depth

\* The response interceptor on a 401.
Unauthorized(c) ==
  LET r == requests[c]
  IN IF r.kind # "orphan" /\ ~r.retried /\ access # 0
     THEN /\ With(c, Refresh(r, Deeper(r.depth), FALSE))
          /\ Overlaps(c)
          /\ UNCHANGED <<access, page>>
     ELSE Reject(c) /\ UNCHANGED disturbed

\* AccessTokenGuard: the token is good and the user active.
AnswerApi(c) ==
  /\ requests[c].at = "api"
  /\ IF requests[c].token > expired /\ active
     THEN Settle(c) /\ UNCHANGED <<access, page, disturbed>>
     ELSE Unauthorized(c)
  /\ UNCHANGED <<active, stored, issued, expired, attempts, cookie, spent>>

\* A refresh succeeded: the cookie and the token are new, and what waits for it is sent again.
Reply(c) ==
  LET r == requests[c]
  IN /\ r.at = "reply"
     /\ IF r.kind = "orphan"
        THEN Settle(c) /\ UNCHANGED <<cookie, access, page, disturbed>>
        ELSE /\ cookie' = r.got /\ access' = r.got
             /\ CASE r.depth = 0 ->      \* the refresh of a page that loads
                       /\ Settle(c)
                       /\ page' = "app" /\ UNCHANGED disturbed
                  [] r.depth = 1 /\ r.kind = "api" ->
                       /\ With(c, [r EXCEPT !.at = "api", !.depth = 0, !.retried = TRUE,
                                            !.token = r.got])
                       /\ UNCHANGED <<page, disturbed>>
                  [] OTHER ->
                       /\ With(c, [Refresh(r, r.depth - 1, TRUE) EXCEPT !.sent = r.got])
                       /\ Overlaps(c) /\ UNCHANGED page
     /\ UNCHANGED <<active, stored, issued, expired, attempts, spent>>

LoseReply(c) ==
  /\ requests[c].at = "reply" /\ spent.bad < MaxBad
  /\ spent' = [spent EXCEPT !.bad = @ + 1]
  /\ disturbed' = TRUE
  /\ Reject(c)
  /\ UNCHANGED <<active, stored, issued, expired, attempts, cookie>>

-----------------------------------------------------------------------------
(* The refresh handler. *)

\* Bug: only a refresh that is let through counts.
LimitCountsSuccess(c) ==
  /\ requests[c].at = "limit"
  /\ IF attempts >= refreshMaxAttempts THEN Reject(c) /\ disturbed' = TRUE /\ UNCHANGED attempts
     ELSE /\ With(c, [requests[c] EXCEPT !.at = "user"])
          /\ attempts' = IF stored = requests[c].sent THEN attempts + 1 ELSE attempts
          /\ UNCHANGED <<access, page, disturbed>>
  /\ UNCHANGED <<active, stored, issued, expired, cookie, spent>>

\* assertRefreshAllowed counts first, then answers 429; a refresh without cookies is answered
\* with 403.  The interceptor lets both through.
Limit(c) ==
  /\ requests[c].at = "limit"
  /\ attempts' = attempts + 1
  /\ CASE attempts' > refreshMaxAttempts -> Reject(c) /\ disturbed' = TRUE
       [] attempts' <= refreshMaxAttempts /\ requests[c].sent = 0 -> Reject(c) /\ UNCHANGED disturbed
       [] OTHER -> /\ With(c, [requests[c] EXCEPT !.at = "user"])
                   /\ UNCHANGED <<access, page, disturbed>>
  /\ UNCHANGED <<active, stored, issued, expired, cookie, spent>>

\* refreshTokens goes on, or answers whatever it met with 401.
Pass(c, good, at) ==
  IF good THEN With(c, [requests[c] EXCEPT !.at = at]) /\ UNCHANGED <<access, page, disturbed>>
  ELSE Unauthorized(c)

FindUser(c) ==
  /\ requests[c].at = "user"
  /\ Pass(c, active, "validate")
  /\ UNCHANGED <<active, stored, issued, expired, attempts, cookie, spent>>

Validate(c) ==
  /\ requests[c].at = "validate"
  /\ Pass(c, stored = requests[c].sent, "invalidate")
  /\ UNCHANGED <<active, stored, issued, expired, attempts, cookie, spent>>

Invalidate(c) ==
  /\ requests[c].at = "invalidate"
  /\ stored' = 0
  /\ With(c, [requests[c] EXCEPT !.at = "insert"])
  /\ UNCHANGED <<active, issued, expired, attempts, cookie, access, page, spent, disturbed>>

\* Bug: the new id is only signed, not stored.
InsertNothing(c) ==
  /\ requests[c].at = "insert"
  /\ issued' = issued + 1
  /\ With(c, [requests[c] EXCEPT !.at = "reply", !.got = issued'])
  /\ UNCHANGED <<active, stored, expired, attempts, cookie, access, page, spent, disturbed>>

Insert(c) ==
  /\ requests[c].at = "insert"
  /\ issued' = issued + 1
  /\ stored' = issued'
  /\ With(c, [requests[c] EXCEPT !.at = "reply", !.got = issued'])
  /\ UNCHANGED <<active, expired, attempts, cookie, access, page, spent, disturbed>>

-----------------------------------------------------------------------------
(* What else happens. *)

SignInElsewhere ==
  /\ active /\ spent.bad < MaxBad
  /\ spent' = [spent EXCEPT !.bad = @ + 1]
  /\ issued' = issued + 1 /\ stored' = issued'
  /\ disturbed' = TRUE
  /\ UNCHANGED <<active, expired, attempts, cookie, access, page, requests>>

\* logoutAllDevices or changePassword from another device, or setActive after it saved the user.
SignOutEverywhere ==
  /\ spent.bad < MaxBad
  /\ spent' = [spent EXCEPT !.bad = @ + 1]
  /\ stored' = 0
  /\ disturbed' = TRUE
  /\ UNCHANGED <<active, issued, expired, attempts, cookie, access, page, requests>>

\* An administrator saves the user; of an import the id is left alone.
Deactivate ==
  /\ active /\ spent.bad < MaxBad
  /\ active' = FALSE
  /\ spent' = [spent EXCEPT !.bad = @ + 1]
  /\ disturbed' = TRUE
  /\ UNCHANGED <<stored, issued, expired, attempts, cookie, access, page, requests>>

Activate ==
  /\ ~active
  /\ active' = TRUE
  /\ UNCHANGED <<stored, issued, expired, attempts, cookie, access, page, requests, spent, disturbed>>

\* Nobody refreshed for as long as an id lives in Redis; the token in the cookie is as old.
IdExpires ==
  /\ stored # 0 /\ spent.bad < MaxBad
  /\ stored' = 0
  /\ spent' = [spent EXCEPT !.bad = @ + 1]
  /\ disturbed' = TRUE
  /\ UNCHANGED <<active, issued, expired, attempts, cookie, access, page, requests>>

\* The cookie lives as long, and was set after its id was stored.
CookieExpires ==
  /\ cookie # 0 /\ stored # cookie
  /\ cookie' = 0
  /\ UNCHANGED <<active, stored, issued, expired, attempts, access, page, requests, spent, disturbed>>

AccessExpires ==
  /\ expired < issued /\ spent.expiries < MaxExpiries
  /\ expired' = issued
  /\ spent' = [spent EXCEPT !.expiries = @ + 1]
  /\ UNCHANGED <<active, stored, issued, attempts, cookie, access, page, requests, disturbed>>

\* The limiter's window moves on.  It is a minute long and its thirty refreshes take less, so
\* it does not while refreshes are running.
WindowPasses ==
  /\ attempts > 0 /\ spent.windows < MaxWindows /\ Refreshing = {}
  /\ attempts' = 0
  /\ spent' = [spent EXCEPT !.windows = @ + 1]
  /\ UNCHANGED <<active, stored, issued, expired, cookie, access, page, requests, disturbed>>

-----------------------------------------------------------------------------

\* The user has just signed in.
SessionsInit ==
  /\ active = TRUE
  /\ stored = 1 /\ issued = 1 /\ expired = 0 /\ attempts = 0
  /\ cookie = 1 /\ access = 1 /\ page = "app"
  /\ requests = [c \in {} |-> 0]
  /\ spent = [bad |-> 0, expiries |-> 0, windows |-> 0]
  /\ disturbed = FALSE

\* The server and the network answer.
Answer(c) ==
  /\ c \in InFlight
  /\ \/ AnswerApi(c) \/ Reply(c)
     \/ Limit(c) \/ FindUser(c) \/ Validate(c) \/ Invalidate(c) \/ Insert(c)

SessionsNext ==
  \/ \E c \in Requests : CallApi(c) \/ Initialize(c) \/ SignIn(c) \/ Answer(c)
  \/ \E c \in InFlight : LoseReply(c)
  \/ Reload \/ SignInElsewhere \/ SignOutEverywhere \/ Deactivate \/ Activate
  \/ AccessExpires \/ IdExpires \/ CookieExpires \/ WindowPasses

SessionsSpec ==
  SessionsInit /\ [][SessionsNext]_sessionVars /\ \A c \in Requests : WF_sessionVars(Answer(c))

-----------------------------------------------------------------------------

SessionsTypeOK ==
  /\ active \in BOOLEAN
  /\ stored \in 0..issued /\ cookie \in 0..issued /\ access \in 0..issued /\ expired \in 0..issued
  /\ issued \in Nat /\ attempts \in Nat
  /\ page \in {"app", "loading", "signin"}
  /\ InFlight \subseteq Requests
  /\ \A c \in InFlight : requests[c] \in Request /\ requests[c].depth <= refreshMaxAttempts + 1
  /\ spent \in [bad : 0..MaxBad, expiries : 0..MaxExpiries, windows : 0..MaxWindows]
  /\ disturbed \in BOOLEAN

\* A user who has signed in and is active, who comes back before the id runs out, and whose
\* refreshes do not overlap and get through, stays signed in: the sign-in form does not come up,
\* and when no refresh is running the cookie of the browser is the id that Redis keeps.
UndisturbedStaysSignedIn ==
  ~disturbed => page # "signin" /\ (Refreshing = {} => cookie = stored)

\* Every request of a page is answered or refused in the end, although the interceptor answers
\* the 401 of a refresh with a refresh: the limiter's 429 ends the chain.
RequestsSettle ==
  \A c \in Requests : c \in InFlight ~> c \notin InFlight
=============================================================================
