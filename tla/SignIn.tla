------------------------------- MODULE SignIn -------------------------------
(***************************************************************************)
(* Signing in (auth/service.rs: initiate_login, handle_callback and its    *)
(* background task, retry_with_new_app; oauth_apps/service.rs) and the     *)
(* requests that link a second device (auth/link_service.rs).  What the    *)
(* sessions' tokens go through is the module Sessions.                     *)
(*                                                                         *)
(* A login request hands out one authorize page per try; each page has a   *)
(* state of its own (here the number of the try) and belongs to one OAuth  *)
(* app, whose code it brings back.  The user may finish any page, any      *)
(* number of times.  A task runs to its next await in one action.          *)
(***************************************************************************)
EXTENDS Naturals, FiniteSets

CONSTANTS Logins, Apps, Links, Claims,
          EnvApp,          \* the credentials of the environment
          MaxAuthRetries,  \* MAX_AUTH_RETRIES
          MaxFaults        \* bound: failing statements and restarts

ASSUME SignInAssumption ==
  EnvApp \notin Apps /\ MaxAuthRetries \in Nat /\ MaxFaults \in Nat

VARIABLES login,      \* login_requests
          pages,      \* the authorize pages handed out
          tasks,      \* the background tasks of the callbacks
          signedIn,   \* history: sessions stored for each login request
          penalized,  \* the apps in their cooldown
          link, claim,  \* link_requests and the calls of claim
          linked,     \* history: sessions inserted for each link
          overlap,    \* history: links with two claims at a time
          faults, broken  \* history: what a fault or an expiry left behind
loginVars == <<login, pages, tasks, signedIn, penalized>>
linkVars == <<link, claim, linked, overlap>>
signInVars == <<loginVars, linkVars, faults, broken>>

NoLogin == [status |-> "none", state |-> 0, app |-> EnvApp, retries |-> 0, expired |-> FALSE]
NoLink == [status |-> "none", expired |-> FALSE]

SignInInit ==
  /\ login = [q \in Logins |-> NoLogin]
  /\ pages = {} /\ tasks = {} /\ penalized = {}
  /\ signedIn = [q \in Logins |-> 0]
  /\ link = [k \in Links |-> NoLink]
  /\ claim = [c \in Claims |-> [pc |-> "idle"]]
  /\ linked = [k \in Links |-> 0] /\ overlap = {}
  /\ faults = 0 /\ broken = {}

Fails(x) == faults < MaxFaults /\ faults' = faults + 1 /\ broken' = broken \cup {x}
NoFault == UNCHANGED <<faults, broken>>

-----------------------------------------------------------------------------
(* pick_credentials: a clean app, without one a penalized app, the         *)
(* environment when no app is left or another pick has its row locked.     *)
Picks(exclude) ==
  LET others == Apps \ {exclude}
      clean == others \ penalized
  IN (IF clean # {} THEN clean ELSE others) \cup {EnvApp}

Exists(q) == login[q].status \notin {"none", "gone"}
SetLogin(q, row) == login' = IF Exists(q) THEN [login EXCEPT ![q] = row] ELSE login
Page(q, row) == [login |-> q, state |-> row.state, app |-> row.app]

InitiateLogin(q) ==
  /\ login[q].status = "none"
  /\ \E app \in Picks(EnvApp) :
       LET row == [NoLogin EXCEPT !.status = "pending", !.app = app]
       IN login' = [login EXCEPT ![q] = row] /\ pages' = pages \cup {Page(q, row)}
  /\ UNCHANGED <<tasks, signedIn, penalized, linkVars>> /\ NoFault

(* Mutant: the status is not part of the UPDATE's condition. *)
MatchesState(page) == Exists(page.login) /\ login[page.login].state = page.state

(* The UPDATE of handle_callback matches the state of a pending request. *)
Matches(page) ==
  /\ login[page.login].status = "pending"
  /\ login[page.login].state = page.state

Task(page, row) ==
  [login |-> page.login, pc |-> "begin", app |-> row.app, retries |-> row.retries,
   state |-> row.state, expired |-> row.expired, code |-> page.app]

(* Any other callback only answers. *)
HandleCallback(page) ==
  /\ page \in pages /\ Matches(page)
  /\ login' = [login EXCEPT ![page.login].status = "processing"]
  /\ tasks' = tasks \cup {Task(page, login[page.login])}
  /\ UNCHANGED <<pages, signedIn, penalized, linkVars>> /\ NoFault

(* The task. *)
Becomes(t, pc) == tasks' = (tasks \ {t}) \cup {[t EXCEPT !.pc = pc]}
Ends(t) == tasks' = tasks \ {t}

CheckExpiry(t) ==
  /\ t.pc = "begin" /\ Becomes(t, IF t.expired THEN "fail" ELSE "exchange")
  /\ UNCHANGED <<login, pages, signedIn, penalized, linkVars>> /\ NoFault

(* exchange_code_for_token, then /me with its retries. *)
Exchange(t) ==
  /\ t.pc = "exchange" /\ t.code = t.app
  /\ penalized' = penalized \ {t.app}
  /\ Becomes(t, "profile")
  /\ UNCHANGED <<login, pages, signedIn, linkVars>> /\ NoFault

Profile(t) ==
  /\ t.pc = "profile" /\ Becomes(t, "session")
  /\ UNCHANGED <<login, pages, signedIn, penalized, linkVars>> /\ NoFault

CallFails(t) ==
  /\ t.pc \in {"exchange", "profile"} /\ Becomes(t, "retry")
  /\ UNCHANGED <<login, pages, signedIn, penalized, linkVars>> /\ NoFault

(* The target session is updated, or a new one inserted. *)
StoreSession(t) ==
  /\ t.pc = "session" /\ Becomes(t, "complete")
  /\ signedIn' = [signedIn EXCEPT ![t.login] = @ + 1]
  /\ UNCHANGED <<login, pages, penalized, linkVars>> /\ NoFault

(* A row that expired and was cleaned up meanwhile is not found. *)
Complete(t) ==
  /\ t.pc = "complete" /\ Ends(t)
  /\ SetLogin(t.login, [login[t.login] EXCEPT !.status = "completed"])
  /\ UNCHANGED <<pages, signedIn, penalized, linkVars>> /\ NoFault

StatementFails(t) ==
  /\ t.pc \in {"session", "complete"} /\ Becomes(t, "fail") /\ Fails(t.login)
  /\ UNCHANGED <<login, pages, signedIn, penalized, linkVars>>

MarkRequestFailed(t) ==
  /\ t.pc = "fail" /\ Ends(t)
  /\ SetLogin(t.login, [login[t.login] EXCEPT !.status = "failed"])
  /\ UNCHANGED <<pages, signedIn, penalized, linkVars>> /\ NoFault

(* Mutant: a retry keeps the state of the failed try. *)
RetriedOldState(t, app) ==
  [login[t.login] EXCEPT !.status = "pending", !.app = app, !.retries = t.retries + 1,
                         !.expired = FALSE]

Retried(t, app) ==
  [login[t.login] EXCEPT !.status = "pending", !.app = app, !.retries = t.retries + 1,
                         !.state = t.state + 1, !.expired = FALSE]

(* retry_with_new_app: the app is penalized; the request gets a page of    *)
(* another app, or fails when the retries are used up.                     *)
RetryWithNewApp(t) ==
  /\ t.pc = "retry"
  /\ penalized' = penalized \cup ({t.app} \cap Apps)
  /\ IF t.retries >= MaxAuthRetries
       THEN Becomes(t, "fail") /\ UNCHANGED <<login, pages>>
       ELSE /\ Ends(t)
            /\ \E app \in Picks(t.app) :
                 /\ SetLogin(t.login, Retried(t, app))
                 /\ pages' = IF Exists(t.login)
                               THEN pages \cup {Page(t.login, Retried(t, app))} ELSE pages
  /\ UNCHANGED <<signedIn, linkVars>> /\ NoFault

(* LOGIN_REQUEST_TTL passes; the periodic cleanup; a cooldown ends. *)
LoginExpires(q) ==
  /\ Exists(q) /\ ~login[q].expired
  /\ login' = [login EXCEPT ![q].expired = TRUE]
  /\ UNCHANGED <<pages, tasks, signedIn, penalized, linkVars>> /\ NoFault

CleanupLogin(q) ==
  /\ Exists(q) /\ login[q].expired
  /\ login' = [login EXCEPT ![q].status = "gone"]
  /\ UNCHANGED <<pages, tasks, signedIn, penalized, linkVars>> /\ NoFault

CooldownEnds(app) ==
  /\ app \in penalized /\ penalized' = penalized \ {app}
  /\ UNCHANGED <<login, pages, tasks, signedIn, linkVars>> /\ NoFault

-----------------------------------------------------------------------------
(* Links. *)

CreateLink(k) ==
  /\ link[k].status = "none"
  /\ link' = [link EXCEPT ![k].status = "pending"]
  /\ UNCHANGED <<loginVars, claim, linked, overlap>> /\ NoFault

At(c, pc) == claim[c].pc = pc
GoesTo(c, pc) == claim' = [claim EXCEPT ![c].pc = pc]
ClaimEnds(c) == claim' = [claim EXCEPT ![c] = [pc |-> "idle"]]
Claiming(k) == {c \in Claims : claim[c].pc # "idle" /\ claim[c].link = k}

(* Mutant: a link that was claimed before is not refused. *)
PendingOrClaimed(k) == link[k].status \in {"pending", "claimed"}

MayClaim(k) == link[k].status = "pending"

(* The row is read and checked. *)
BeginClaim(c, k) ==
  /\ At(c, "idle") /\ MayClaim(k)
  /\ claim' = [claim EXCEPT ![c] =
       [pc |-> IF link[k].expired THEN "expire" ELSE "refresh", link |-> k]]
  /\ overlap' = IF Claiming(k) # {} THEN overlap \cup {k} ELSE overlap
  /\ UNCHANGED <<loginVars, link, linked>> /\ NoFault

ExpireLink(c) ==
  /\ At(c, "expire") /\ ClaimEnds(c)
  /\ link' = [link EXCEPT ![claim[c].link] =
       IF @.status = "gone" THEN @ ELSE [@ EXCEPT !.status = "failed"]]
  /\ UNCHANGED <<loginVars, linked, overlap>> /\ NoFault

(* get_valid_session of the source; when it fails nothing was written. *)
RefreshSource(c) ==
  /\ At(c, "refresh") /\ (GoesTo(c, "insert") \/ ClaimEnds(c))
  /\ UNCHANGED <<loginVars, link, linked, overlap>> /\ NoFault

InsertTarget(c) ==
  /\ At(c, "insert") /\ GoesTo(c, "mark")
  /\ linked' = [linked EXCEPT ![claim[c].link] = @ + 1]
  /\ UNCHANGED <<loginVars, link, overlap>> /\ NoFault

MarkClaimed(c) ==
  /\ At(c, "mark") /\ ClaimEnds(c)
  /\ link' = [link EXCEPT ![claim[c].link] =
       IF @.status = "gone" THEN @ ELSE [@ EXCEPT !.status = "claimed"]]
  /\ UNCHANGED <<loginVars, linked, overlap>> /\ NoFault

(* A statement fails, or the client goes and its request is dropped. *)
ClaimFails(c) ==
  /\ claim[c].pc # "idle" /\ Fails(claim[c].link) /\ ClaimEnds(c)
  /\ UNCHANGED <<loginVars, link, linked, overlap>>

LinkExpires(k) ==
  /\ link[k].status # "none" /\ ~link[k].expired
  /\ link' = [link EXCEPT ![k].expired = TRUE]
  /\ UNCHANGED <<loginVars, claim, linked, overlap>> /\ NoFault

CleanupLink(k) ==
  /\ link[k].status \notin {"none", "gone"} /\ link[k].expired
  /\ link' = [link EXCEPT ![k].status = "gone"]
  /\ UNCHANGED <<loginVars, claim, linked, overlap>> /\ NoFault

(* The process restarts. *)
Restart ==
  /\ faults < MaxFaults /\ faults' = faults + 1
  /\ broken' = broken \cup {t.login : t \in tasks}
                      \cup {claim[c].link : c \in {c \in Claims : claim[c].pc # "idle"}}
  /\ tasks' = {} /\ claim' = [c \in Claims |-> [pc |-> "idle"]]
  /\ UNCHANGED <<login, pages, signedIn, penalized, link, linked, overlap>>

-----------------------------------------------------------------------------
TaskStep(t) ==
  \/ CheckExpiry(t) \/ Exchange(t) \/ Profile(t) \/ CallFails(t) \/ StoreSession(t)
  \/ Complete(t) \/ StatementFails(t) \/ MarkRequestFailed(t) \/ RetryWithNewApp(t)
LoginNext ==
  \/ \E q \in Logins : InitiateLogin(q) \/ LoginExpires(q) \/ CleanupLogin(q)
  \/ \E page \in pages : HandleCallback(page)
  \/ \E t \in tasks : TaskStep(t)
  \/ \E app \in Apps : CooldownEnds(app)
ClaimStep(c) ==
  \/ ExpireLink(c) \/ RefreshSource(c) \/ InsertTarget(c) \/ MarkClaimed(c) \/ ClaimFails(c)
LinkNext ==
  \/ \E k \in Links : CreateLink(k) \/ LinkExpires(k) \/ CleanupLink(k)
  \/ \E c \in Claims : ClaimStep(c) \/ \E k \in Links : BeginClaim(c, k)
SignInNext == LoginNext \/ LinkNext \/ Restart

SignInSpec == SignInInit /\ [][SignInNext]_signInVars

-----------------------------------------------------------------------------
(* Properties. *)

(* A code goes to the app whose page issued it, whatever tries, old pages  *)
(* and repeated callbacks there are.                                       *)
CodeFitsApp == \A t \in tasks : t.code = t.app

(* A login request stores one session however often it is called back, and *)
(* says so: the session is stored exactly when the request is completed,   *)
(* but for a fault, or a cleanup under the task's feet.  A link inserts    *)
(* one session, and a claimed one stays claimed, but for claims that       *)
(* overlap or fail half-way.                                               *)
OneSignIn ==
  /\ \A q \in Logins :
       /\ signedIn[q] <= 1
       /\ login[q].status = "completed" => signedIn[q] = 1
       /\ signedIn[q] = 1 =>
            \/ login[q].status \in {"completed", "gone"} \/ q \in broken
            \/ \E t \in tasks : t.login = q /\ t.pc = "complete"
  /\ \A k \in Links \ (overlap \cup broken) :
       /\ linked[k] <= 1
       /\ linked[k] = 1 =>
            link[k].status \in {"claimed", "gone"} \/ \E c \in Claiming(k) : At(c, "mark")
=============================================================================
