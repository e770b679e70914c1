----------------------------- MODULE AccessProofs -----------------------------
(***************************************************************************)
(* What the access to accounts, lists, tracks, waves and the catalogue     *)
(* promises, for any number of logins, readers, listeners and waves: a     *)
(* sign-in is finished with the app it was begun with, the list cache      *)
(* never serves what was invalidated, a track stored as `ok' is there, a   *)
(* wave keeps out the dislikes and shows what has been in the storage, the *)
(* aggregates of the catalogue are exact, and what it lists is shown once. *)
(***************************************************************************)
EXTENDS SignIn, ListCache, Streaming, Waves, Discover, FiniteSetTheorems, TLAPS

-----------------------------------------------------------------------------
(***************************************************************************)
(* CodeFitsApp for any number of logins, apps, retries and pages.  A page  *)
(* belongs to the app of its request as long as their states agree, and a  *)
(* request's state moves on only by the retry of its one task, which is    *)
(* why the UPDATE of handle_callback has to ask for `pending' and why each *)
(* try has to draw a state.                                                *)
(***************************************************************************)

AppIds == Apps \cup {EnvApp}
Statuses == {"none", "pending", "processing", "completed", "failed", "gone"}
TaskStages == {"begin", "exchange", "profile", "session", "complete", "retry", "fail"}
LoginRows == [status : Statuses, state : Nat, app : AppIds, retries : Nat, expired : BOOLEAN]
PageRows == [login : Logins, state : Nat, app : AppIds]
TaskRows == [login : Logins, pc : TaskStages, app : AppIds, retries : Nat, state : Nat,
             expired : BOOLEAN, code : AppIds]

LoginTypeOK ==
  /\ login \in [Logins -> LoginRows]
  /\ pages \subseteq PageRows
  /\ tasks \subseteq TaskRows

(* A page is of a try that has begun, and the latest page is of the app    *)
(* that the request is waiting for.                                        *)
PageFits(p) ==
  /\ login[p.login].status # "none"
  /\ p.state <= login[p.login].state
  /\ p.state = login[p.login].state => p.app = login[p.login].app

(* A task works for a request that nobody waits for, in its current try. *)
TaskFits(t) ==
  /\ login[t.login].status \notin {"none", "pending"}
  /\ t.state = login[t.login].state
  /\ t.code = t.app

OneTask == \A t, u \in tasks : t.login = u.login => t = u

SignInv ==
  /\ LoginTypeOK /\ OneTask
  /\ \A p \in pages : PageFits(p)
  /\ \A t \in tasks : TaskFits(t)

-----------------------------------------------------------------------------
LEMMA SignInInitially == SignInInit => SignInv
BY DEF SignInInit, SignInv, LoginTypeOK, OneTask, NoLogin, LoginRows, Statuses, AppIds

LEMMA PicksApps ==
    ASSUME NEW x
    PROVE  Picks(x) \subseteq AppIds
BY DEF Picks, AppIds

LEMMA TaskTyped ==
    ASSUME SignInv, NEW t \in tasks
    PROVE  /\ t \in TaskRows /\ t.login \in Logins /\ t.app \in AppIds /\ t.code \in AppIds
           /\ t.state \in Nat /\ t.retries \in Nat /\ TaskFits(t)
           /\ login \in [Logins -> LoginRows] /\ login[t.login] \in LoginRows
BY DEF SignInv, LoginTypeOK, TaskRows

(* A task that goes on or ends, its request left alone. *)
LEMMA TaskMoves ==
    ASSUME SignInv, NEW t \in tasks, UNCHANGED <<login, pages>>,
           Ends(t) \/ \E pc \in TaskStages : Becomes(t, pc)
    PROVE  SignInv'
<1>1. CASE Ends(t)
  BY <1>1 DEF Ends, SignInv, LoginTypeOK, OneTask, PageFits, TaskFits
<1>2. ASSUME NEW pc \in TaskStages, Becomes(t, pc) PROVE SignInv'
  <2> DEFINE u == [t EXCEPT !.pc = pc]
  <2>1. u \in TaskRows /\ u.login = t.login /\ u.state = t.state /\ u.code = t.code /\ u.app = t.app
    BY TaskTyped DEF TaskRows
  <2>2. tasks' = (tasks \ {t}) \cup {u}
    BY <1>2 DEF Becomes
  <2> HIDE DEF u
  <2>3. TaskFits(u)
    BY <2>1, TaskTyped DEF TaskFits
  <2>4. LoginTypeOK' /\ OneTask'
    BY <2>1, <2>2 DEF SignInv, LoginTypeOK, OneTask
  <2>5. \A x \in tasks' : TaskFits(x)'
    BY <2>2, <2>3 DEF SignInv, TaskFits
  <2>6. QED
    BY <2>4, <2>5 DEF SignInv, PageFits
<1>3. QED
  BY <1>1, <1>2

(* A request whose status alone changes, to one that is not `pending'.  *)
LEMMA StatusChanges ==
    ASSUME SignInv, NEW q \in Logins, NEW row \in LoginRows,
           login[q].status # "none", row.status \notin {"none", "pending"} \/ row.status = login[q].status,
           row.state = login[q].state, row.app = login[q].app,
           login' = [login EXCEPT ![q] = row],
           UNCHANGED pages, tasks' \subseteq tasks
    PROVE  SignInv'
<1>1. \A x \in Logins : login'[x] = IF x = q THEN row ELSE login[x]
  BY DEF SignInv, LoginTypeOK
<1>2. LoginTypeOK' /\ OneTask'
  BY DEF SignInv, LoginTypeOK, OneTask
<1>3. ASSUME NEW p \in pages PROVE PageFits(p)'
  <2>1. p.login \in Logins /\ PageFits(p)
    BY DEF SignInv, LoginTypeOK, PageRows
  <2>2. QED
    BY <1>1, <2>1 DEF PageFits
<1>4. ASSUME NEW t \in tasks PROVE TaskFits(t)'
  BY <1>1, TaskTyped DEF TaskFits
<1>5. QED
  BY <1>2, <1>3, <1>4 DEF SignInv

LEMMA InitiateKeeps ==
    ASSUME SignInv, NEW q \in Logins, InitiateLogin(q)
    PROVE  SignInv'
<1>1. PICK app \in Picks(EnvApp) :
        LET row == [NoLogin EXCEPT !.status = "pending", !.app = app]
        IN login' = [login EXCEPT ![q] = row] /\ pages' = pages \cup {Page(q, row)}
  BY DEF InitiateLogin
<1> DEFINE row == [NoLogin EXCEPT !.status = "pending", !.app = app]
           page == Page(q, row)
<1>2. row \in LoginRows /\ row.status = "pending" /\ row.state = 0 /\ row.app = app
  BY PicksApps DEF NoLogin, LoginRows, Statuses, AppIds
<1>3. page \in PageRows /\ page.login = q /\ page.state = 0 /\ page.app = app
  BY <1>2, PicksApps DEF Page, PageRows
<1>4. login' = [login EXCEPT ![q] = row] /\ pages' = pages \cup {page} /\ tasks' = tasks
  BY <1>1 DEF InitiateLogin
<1> HIDE DEF row, page
<1>5. \A x \in Logins : login'[x] = IF x = q THEN row ELSE login[x]
  BY <1>4 DEF SignInv, LoginTypeOK
<1>6. LoginTypeOK' /\ OneTask'
  BY <1>2, <1>3, <1>4 DEF SignInv, LoginTypeOK, OneTask
<1>7. ASSUME NEW p \in pages' PROVE PageFits(p)'
  <2>1. CASE p = page
    BY <1>2, <1>3, <1>5, <2>1 DEF PageFits
  <2>2. CASE p \in pages
    <3>1. p.login \in Logins /\ PageFits(p) /\ p.login # q
      BY <2>2 DEF SignInv, LoginTypeOK, PageRows, PageFits, InitiateLogin
    <3>2. QED
      BY <1>5, <3>1 DEF PageFits
  <2>3. QED
    BY <1>4, <2>1, <2>2
<1>8. ASSUME NEW t \in tasks PROVE TaskFits(t)'
  BY <1>5, TaskTyped DEF TaskFits, InitiateLogin
<1>9. QED
  BY <1>4, <1>6, <1>7, <1>8 DEF SignInv

LEMMA CallbackKeeps ==
    ASSUME SignInv, NEW page \in pages, HandleCallback(page)
    PROVE  SignInv'
<1> DEFINE q == page.login
           row == [login[q] EXCEPT !.status = "processing"]
           t == Task(page, login[q])
<1>1. q \in Logins /\ page \in PageRows /\ login[q] \in LoginRows /\ PageFits(page)
  BY DEF SignInv, LoginTypeOK, PageRows
<1>2. login[q].status = "pending" /\ login[q].state = page.state
  BY DEF HandleCallback, Matches
<1>3. row \in LoginRows /\ row.status = "processing" /\ row.state = login[q].state /\ row.app = login[q].app
  BY <1>1 DEF LoginRows, Statuses
<1>4. /\ t \in TaskRows /\ t.login = q /\ t.state = login[q].state
      /\ t.code = page.app /\ t.app = login[q].app
  BY <1>1 DEF Task, TaskRows, LoginRows, PageRows, TaskStages
<1>5. page.app = login[q].app
  BY <1>1, <1>2 DEF PageFits
<1>6. login' = [login EXCEPT ![q] = row] /\ pages' = pages /\ tasks' = tasks \cup {t}
  BY DEF HandleCallback
<1> HIDE DEF row, t
<1>7. \A x \in Logins : login'[x] = IF x = q THEN row ELSE login[x]
  BY <1>6 DEF SignInv, LoginTypeOK
<1>8. \A u \in tasks : u.login # q
  BY <1>2, TaskTyped DEF TaskFits
<1>9. LoginTypeOK' /\ OneTask'
  BY <1>1, <1>3, <1>4, <1>6, <1>8 DEF SignInv, LoginTypeOK, OneTask
<1>10. ASSUME NEW p \in pages PROVE PageFits(p)'
  <2>1. p.login \in Logins /\ PageFits(p)
    BY DEF SignInv, LoginTypeOK, PageRows
  <2>2. QED
    BY <1>3, <1>7, <2>1 DEF PageFits
<1>11. ASSUME NEW u \in tasks' PROVE TaskFits(u)'
  <2>1. CASE u = t
    BY <1>1, <1>3, <1>4, <1>5, <1>7, <2>1 DEF TaskFits
  <2>2. CASE u \in tasks
    BY <1>7, <1>8, <2>2, TaskTyped DEF TaskFits
  <2>3. QED
    BY <1>6, <2>1, <2>2
<1>12. QED
  BY <1>6, <1>9, <1>10, <1>11 DEF SignInv

(* The last statement of a task. *)
LEMMA SettleKeeps ==
    ASSUME SignInv, NEW t \in tasks, NEW status \in {"completed", "failed"}, Ends(t),
           SetLogin(t.login, [login[t.login] EXCEPT !.status = status]), UNCHANGED pages
    PROVE  SignInv'
<1> DEFINE row == [login[t.login] EXCEPT !.status = status]
<1>1. /\ row \in LoginRows /\ row.status = status
      /\ row.state = login[t.login].state /\ row.app = login[t.login].app
  BY TaskTyped DEF LoginRows, Statuses
<1> HIDE DEF row
<1>2. CASE Exists(t.login)
  <2>1. login' = [login EXCEPT ![t.login] = row]
    BY <1>2 DEF SetLogin, row
  <2>2. QED
    BY <1>1, <1>2, <2>1, TaskTyped, StatusChanges DEF Ends, Exists
<1>3. CASE ~Exists(t.login)
  BY <1>3, TaskMoves DEF SetLogin
<1>4. QED
  BY <1>2, <1>3

LEMMA RetryKeeps ==
    ASSUME SignInv, NEW t \in tasks, RetryWithNewApp(t)
    PROVE  SignInv'
<1>1. CASE t.retries >= MaxAuthRetries
  BY <1>1, TaskMoves DEF RetryWithNewApp, TaskStages
<1>2. CASE ~(t.retries >= MaxAuthRetries) /\ ~Exists(t.login)
  BY <1>2, TaskMoves DEF RetryWithNewApp, SetLogin
<1>3. CASE ~(t.retries >= MaxAuthRetries) /\ Exists(t.login)
  <2>1. PICK app \in Picks(t.app) :
          /\ login' = [login EXCEPT ![t.login] = Retried(t, app)]
          /\ pages' = pages \cup {Page(t.login, Retried(t, app))}
    BY <1>3 DEF RetryWithNewApp, SetLogin
  <2> DEFINE q == t.login
             row == Retried(t, app)
             page == Page(q, row)
  <2>2. row \in LoginRows /\ row.status = "pending" /\ row.state = t.state + 1 /\ row.app = app
    <3> DEFINE n == t.retries + 1
               m == t.state + 1
    <3>1. n \in Nat /\ m \in Nat
      BY TaskTyped
    <3>2. row = [login[q] EXCEPT !.status = "pending", !.app = app, !.retries = n, !.state = m, !.expired = FALSE]
      BY DEF Retried
    <3> HIDE DEF n, m, row
    <3>3. row \in LoginRows /\ row.status = "pending" /\ row.state = m /\ row.app = app
      BY <3>1, <3>2, TaskTyped, PicksApps DEF LoginRows, Statuses
    <3>4. QED
      BY <3>3 DEF m
  <2> HIDE DEF row
  <2>3. page \in PageRows /\ page.login = q /\ page.state = row.state /\ page.app = row.app
    BY <2>2, TaskTyped DEF Page, PageRows, LoginRows
  <2>4. login' = [login EXCEPT ![q] = row] /\ pages' = pages \cup {page} /\ tasks' = tasks \ {t}
    BY <1>3, <2>1 DEF RetryWithNewApp, Ends, row
  <2> HIDE DEF page
  <2>5. \A x \in Logins : login'[x] = IF x = q THEN row ELSE login[x]
    BY <2>4, TaskTyped
  <2>6. \A u \in tasks' : u.login # q
    BY <2>4 DEF SignInv, OneTask
  <2>7. LoginTypeOK' /\ OneTask'
    BY <2>2, <2>3, <2>4, TaskTyped DEF SignInv, LoginTypeOK, OneTask
  <2>8. ASSUME NEW p \in pages' PROVE PageFits(p)'
    <3>1. CASE p = page
      BY <2>2, <2>3, <2>5, <3>1, TaskTyped DEF PageFits
    <3>2. CASE p \in pages
      <4>1. p.login \in Logins /\ p.state \in Nat /\ PageFits(p)
        BY <3>2 DEF SignInv, LoginTypeOK, PageRows
      <4>2. CASE p.login = q
        <5>1. p.state <= t.state
          BY <4>1, <4>2, TaskTyped DEF PageFits, TaskFits
        <5>2. p.state < row.state /\ login'[q] = row
          BY <2>2, <2>5, <4>1, <5>1, TaskTyped
        <5>3. QED
          BY <2>2, <4>1, <4>2, <5>2, TaskTyped DEF PageFits
      <4>3. CASE p.login # q
        BY <2>5, <4>1, <4>3 DEF PageFits
      <4>4. QED
        BY <4>2, <4>3
    <3>3. QED
      BY <2>4, <3>1, <3>2
  <2>9. ASSUME NEW u \in tasks' PROVE TaskFits(u)'
    BY <2>4, <2>5, <2>6, TaskTyped DEF TaskFits
  <2>10. QED
    BY <2>7, <2>8, <2>9 DEF SignInv
<1>4. QED
  BY <1>1, <1>2, <1>3

LEMMA TaskKeeps ==
    ASSUME SignInv, NEW t \in tasks, TaskStep(t)
    PROVE  SignInv'
<1>1. CASE CheckExpiry(t) \/ Exchange(t) \/ Profile(t) \/ CallFails(t) \/ StoreSession(t) \/ StatementFails(t)
  <2>1. \E pc \in TaskStages : Becomes(t, pc)
    BY <1>1 DEF CheckExpiry, Exchange, Profile, CallFails, StoreSession, StatementFails, TaskStages
  <2>2. UNCHANGED <<login, pages>>
    BY <1>1 DEF CheckExpiry, Exchange, Profile, CallFails, StoreSession, StatementFails
  <2>3. QED
    BY <2>1, <2>2, TaskMoves
<1>2. CASE Complete(t) \/ MarkRequestFailed(t)
  BY <1>2, SettleKeeps DEF Complete, MarkRequestFailed
<1>3. QED
  BY <1>1, <1>2, RetryKeeps DEF TaskStep

LEMMA TimeKeeps ==
    ASSUME SignInv, NEW q \in Logins, LoginExpires(q) \/ CleanupLogin(q)
    PROVE  SignInv'
<1>1. PICK row : /\ login' = [login EXCEPT ![q] = row]
                 /\ row = [login[q] EXCEPT !.expired = TRUE] \/ row = [login[q] EXCEPT !.status = "gone"]
  BY DEF LoginExpires, CleanupLogin
<1>2. login[q] \in LoginRows /\ Exists(q) /\ UNCHANGED <<pages, tasks>>
  BY DEF SignInv, LoginTypeOK, LoginExpires, CleanupLogin
<1>3. /\ row \in LoginRows /\ row.state = login[q].state /\ row.app = login[q].app
      /\ row.status = login[q].status \/ row.status = "gone"
  BY <1>1, <1>2 DEF LoginRows, Statuses
<1>4. QED
  BY <1>1, <1>2, <1>3, StatusChanges DEF Exists

LEMMA OthersKeep ==
    ASSUME SignInv,
           \/ UNCHANGED <<login, pages, tasks>>
           \/ UNCHANGED <<login, pages>> /\ tasks' = {}
    PROVE  SignInv'
BY DEF SignInv, LoginTypeOK, OneTask, PageFits, TaskFits

LEMMA SignInStep == SignInv /\ [SignInNext]_signInVars => SignInv'
<1> SUFFICES ASSUME SignInv, [SignInNext]_signInVars PROVE SignInv'
  OBVIOUS
<1>1. CASE LoginNext
  <2>1. ASSUME NEW app \in Apps, CooldownEnds(app) PROVE SignInv'
    BY <2>1, OthersKeep DEF CooldownEnds
  <2>2. QED
    BY <1>1, <2>1, InitiateKeeps, TimeKeeps, CallbackKeeps, TaskKeeps DEF LoginNext
<1>2. CASE LinkNext
  <2>1. UNCHANGED <<login, pages, tasks>>
    BY <1>2 DEF LinkNext, ClaimStep, CreateLink, LinkExpires, CleanupLink, BeginClaim, ExpireLink,
         RefreshSource, InsertTarget, MarkClaimed, ClaimFails, loginVars
  <2>2. QED
    BY <2>1, OthersKeep
<1>3. CASE Restart
  BY <1>3, OthersKeep DEF Restart
<1>4. CASE UNCHANGED signInVars
  BY <1>4, OthersKeep DEF signInVars, loginVars
<1>5. QED
  BY <1>1, <1>2, <1>3, <1>4 DEF SignInNext

(* A code is exchanged by the app whose page issued it (auth/service.rs,   *)
(* handle_callback and retry_with_new_app), whatever pages are finished    *)
(* late, twice or after a retry.                                           *)
THEOREM CodesFit == SignInSpec => []CodeFitsApp
<1>1. SignInv => CodeFitsApp
  BY DEF SignInv, TaskFits, CodeFitsApp
<1>2. QED
  BY SignInInitially, SignInStep, <1>1, PTL DEF SignInSpec

-----------------------------------------------------------------------------
(* The sessions a login request stores.  A task before StoreSession works  *)
(* for a request without one, a task at Complete for a request with one;   *)
(* what breaks the tie between the two is a fault.                         *)
TaskSigned(t) ==
  /\ t.pc \in {"begin", "exchange", "profile", "session", "retry"} => signedIn[t.login] = 0
  /\ t.pc = "complete" => signedIn[t.login] = 1
  /\ t.pc = "fail" => signedIn[t.login] = 0 \/ t.login \in broken

Accounted(q) ==
  \/ login[q].status \in {"completed", "gone"} \/ q \in broken
  \/ \E t \in tasks : t.login = q /\ t.pc = "complete"

SignedOnce(q) ==
  /\ signedIn[q] <= 1
  /\ login[q].status \in {"none", "pending"} => signedIn[q] = 0
  /\ login[q].status = "completed" => signedIn[q] = 1
  /\ signedIn[q] = 1 => Accounted(q)

SignedInv ==
  /\ signedIn \in [Logins -> Nat]
  /\ \A q \in Logins : SignedOnce(q)
  /\ \A t \in tasks : TaskSigned(t)

LEMMA SignedInitially == SignInInit => SignedInv
BY DEF SignInInit, SignedInv, SignedOnce, NoLogin

(* A task goes on; it leaves Complete only by a fault. *)
LEMMA SignedMoves ==
    ASSUME SignInv, SignedInv, NEW t \in tasks, NEW pc \in TaskStages, Becomes(t, pc),
           UNCHANGED <<login, signedIn>>, broken \subseteq broken',
           t.pc = "complete" => t.login \in broken',
           TaskSigned([t EXCEPT !.pc = pc])'
    PROVE  SignedInv'
<1> DEFINE u == [t EXCEPT !.pc = pc]
<1>1. tasks' = (tasks \ {t}) \cup {u} /\ u.login = t.login /\ TaskSigned(u)'
  BY TaskTyped DEF Becomes, TaskRows
<1> HIDE DEF u
<1>2. ASSUME NEW x \in tasks' PROVE TaskSigned(x)'
  <2>1. CASE x = u
    BY <1>1, <2>1
  <2>2. CASE x \in tasks
    <3>1. TaskSigned(x)
      BY <2>2 DEF SignedInv
    <3>2. QED
      BY <3>1 DEF TaskSigned
  <2>3. QED
    BY <1>1, <2>1, <2>2
<1>3. ASSUME NEW q \in Logins PROVE SignedOnce(q)'
  <2>1. SignedOnce(q)
    BY DEF SignedInv
  <2>2. Accounted(q) => Accounted(q)'
    BY <1>1 DEF Accounted
  <2>3. QED
    BY <2>1, <2>2 DEF SignedOnce
<1>4. QED
  BY <1>2, <1>3 DEF SignedInv

(* The row of one request changes, with the sessions as they are. *)
LEMMA SignedRow ==
    ASSUME SignInv, SignedInv, NEW q \in Logins, NEW row,
           login' = [login EXCEPT ![q] = row], UNCHANGED <<signedIn, broken>>,
           \A t \in tasks : t.login # q => t \in tasks',
           \A t \in tasks' : t \in tasks \/ TaskSigned(t)',
           row.status \in {"none", "pending"} => signedIn[q] = 0,
           row.status = "completed" => signedIn[q] = 1,
           signedIn[q] = 1 => Accounted(q)'
    PROVE  SignedInv'
<1>1. \A x \in Logins : login'[x] = IF x = q THEN row ELSE login[x]
  BY DEF SignInv, LoginTypeOK
<1>2. ASSUME NEW x \in Logins PROVE SignedOnce(x)'
  <2>1. SignedOnce(x)
    BY DEF SignedInv
  <2>2. CASE x = q
    BY <1>1, <2>1, <2>2 DEF SignedOnce
  <2>3. CASE x # q
    <3>1. Accounted(x) => Accounted(x)'
      BY <1>1, <2>3 DEF Accounted
    <3>2. QED
      BY <1>1, <2>1, <2>3, <3>1 DEF SignedOnce
  <2>4. QED
    BY <2>2, <2>3
<1>3. ASSUME NEW t \in tasks' PROVE TaskSigned(t)'
  <2>1. CASE t \in tasks
    <3>1. TaskSigned(t)
      BY <2>1 DEF SignedInv
    <3>2. QED
      BY <3>1 DEF TaskSigned
  <2>2. QED
    BY <2>1
<1>4. QED
  BY <1>2, <1>3 DEF SignedInv

LEMMA TaskSignedNow ==
    ASSUME SignInv, SignedInv, NEW t \in tasks
    PROVE  /\ TaskSigned(t) /\ t.login \in Logins /\ SignedOnce(t.login)
           /\ signedIn \in [Logins -> Nat] /\ signedIn[t.login] \in Nat
BY TaskTyped DEF SignedInv

LEMMA SignedTask ==
    ASSUME SignInv, SignedInv, NEW t \in tasks, TaskStep(t)
    PROVE  SignedInv'
<1> DEFINE q == t.login
<1>0. /\ TaskSigned(t) /\ q \in Logins /\ SignedOnce(q)
      /\ signedIn \in [Logins -> Nat] /\ signedIn[q] \in Nat
  BY TaskSignedNow
<1>1. CASE CheckExpiry(t) \/ Exchange(t) \/ Profile(t) \/ CallFails(t)
  <2>1. PICK pc \in {"fail", "exchange", "profile", "session", "retry"} : Becomes(t, pc)
    BY <1>0, <1>1 DEF CheckExpiry, Exchange, Profile, CallFails
  <2>2. /\ UNCHANGED <<login, signedIn, broken>> /\ pc \in TaskStages
        /\ t.pc \in {"begin", "exchange", "profile"}
    BY <1>0, <1>1 DEF CheckExpiry, Exchange, Profile, CallFails, NoFault, TaskStages
  <2>3. TaskSigned([t EXCEPT !.pc = pc])'
    BY <1>0, <2>2, TaskTyped DEF TaskSigned, TaskRows
  <2>4. QED
    BY <1>0, <2>1, <2>2, <2>3, SignedMoves
<1>2. CASE StoreSession(t)
  <2>0. t.pc = "session" /\ UNCHANGED <<login, broken>> /\ Becomes(t, "complete")
        /\ signedIn' = [signedIn EXCEPT ![q] = signedIn[q] + 1]
    BY <1>2 DEF StoreSession, NoFault
  <2>1. /\ t.pc = "session" /\ signedIn[q] = 0 /\ signedIn' = [signedIn EXCEPT ![q] = 1]
        /\ UNCHANGED <<login, broken>> /\ Becomes(t, "complete")
    <3>1. signedIn[q] = 0
      BY <1>0, <2>0 DEF TaskSigned
    <3>2. QED
      BY <2>0, <3>1
  <2> DEFINE u == [t EXCEPT !.pc = "complete"]
  <2>2. tasks' = (tasks \ {t}) \cup {u} /\ u.login = q /\ u.pc = "complete"
    BY <1>0, <2>1, TaskTyped DEF Becomes, TaskRows
  <2> HIDE DEF u
  <2>3. \A x \in tasks' : x.login = q => x = u
    BY <1>0, <2>2 DEF SignInv, OneTask
  <2>4. \A x \in Logins : signedIn'[x] = IF x = q THEN 1 ELSE signedIn[x]
    BY <1>0, <2>1
  <2>5. ASSUME NEW x \in tasks' PROVE TaskSigned(x)'
    <3>1. CASE x = u
      BY <1>0, <2>2, <2>4, <3>1 DEF TaskSigned
    <3>2. CASE x # u
      <4>1. x \in tasks /\ x.login # q
        BY <1>0, <2>2, <2>3, <3>2
      <4>2. TaskSigned(x) /\ x.login \in Logins
        BY <4>1, TaskTyped DEF SignedInv
      <4>3. QED
        BY <2>1, <2>4, <4>1, <4>2 DEF TaskSigned
    <3>3. QED
      BY <1>0, <3>1, <3>2
  <2>6. ASSUME NEW x \in Logins PROVE SignedOnce(x)'
    <3>1. CASE x = q
      <4>1. Accounted(q)'
        BY <1>0, <2>2 DEF Accounted
      <4>2. login[q].status \notin {"none", "pending"}
        BY <1>0, TaskTyped DEF TaskFits
      <4>3. QED
        BY <1>0, <2>1, <2>4, <3>1, <4>1, <4>2 DEF SignedOnce
    <3>2. CASE x # q
      <4>1. Accounted(x) => Accounted(x)'
        BY <1>0, <2>1, <2>2, <3>2 DEF Accounted
      <4>2. QED
        BY <1>0, <2>1, <2>4, <3>2, <4>1 DEF SignedOnce, SignedInv
    <3>3. QED
      BY <1>0, <3>1, <3>2
  <2>7. signedIn' \in [Logins -> Nat]
    BY <1>0, <2>1
  <2>8. QED
    BY <1>0, <2>5, <2>6, <2>7 DEF SignedInv
<1>3. CASE StatementFails(t)
  <2>1. /\ Becomes(t, "fail") /\ "fail" \in TaskStages /\ UNCHANGED <<login, signedIn>>
        /\ broken \subseteq broken' /\ q \in broken'
    BY <1>0, <1>3 DEF StatementFails, Fails, TaskStages
  <2>2. TaskSigned([t EXCEPT !.pc = "fail"])'
    BY <1>0, <2>1, TaskTyped DEF TaskSigned, TaskRows
  <2>3. QED
    BY <1>0, <2>1, <2>2, SignedMoves
<1>4. CASE Complete(t) \/ MarkRequestFailed(t)
  <2>1. PICK status \in {"completed", "failed"} :
          /\ Ends(t) /\ SetLogin(q, [login[q] EXCEPT !.status = status])
          /\ status = "completed" => t.pc = "complete"
          /\ status = "failed" => t.pc = "fail"
    BY <1>0, <1>4 DEF Complete, MarkRequestFailed
  <2>2. UNCHANGED <<signedIn, broken>> /\ tasks' = tasks \ {t}
    BY <1>0, <1>4, <2>1 DEF Complete, MarkRequestFailed, NoFault, Ends
  <2> DEFINE row == IF Exists(q) THEN [login[q] EXCEPT !.status = status] ELSE login[q]
  <2>3. login' = [login EXCEPT ![q] = row]
    BY <1>0, <2>1, TaskTyped DEF SetLogin
  <2>4. row.status = IF Exists(q) THEN status ELSE "gone"
    BY <1>0, TaskTyped DEF LoginRows, Exists, TaskFits
  <2> HIDE DEF row
  <2>5. login'[q].status = row.status
    BY <1>0, <2>3, TaskTyped
  <2>6. /\ row.status \in {"completed", "failed", "gone"}
        /\ row.status = "completed" => signedIn[q] = 1
    BY <1>0, <2>1, <2>4 DEF TaskSigned
  <2>7. signedIn[q] = 1 => Accounted(q)'
    BY <1>0, <2>1, <2>2, <2>4, <2>5 DEF TaskSigned, Accounted
  <2>8. \A x \in tasks : x.login # q => x \in tasks'
    BY <2>2
  <2>9. QED
    BY <1>0, <2>2, <2>3, <2>6, <2>7, <2>8, SignedRow
<1>5. CASE RetryWithNewApp(t)
  <2>1. t.pc = "retry" /\ signedIn[q] = 0 /\ UNCHANGED <<signedIn, broken>>
    BY <1>0, <1>5 DEF RetryWithNewApp, NoFault, TaskSigned
  <2>2. CASE t.retries >= MaxAuthRetries
    <3>1. Becomes(t, "fail") /\ UNCHANGED login /\ "fail" \in TaskStages
      BY <1>0, <1>5, <2>2 DEF RetryWithNewApp, TaskStages
    <3>2. TaskSigned([t EXCEPT !.pc = "fail"])'
      BY <1>0, <2>1, TaskTyped DEF TaskSigned, TaskRows
    <3>3. QED
      BY <1>0, <2>1, <3>1, <3>2, SignedMoves
  <2>3. CASE ~(t.retries >= MaxAuthRetries)
    <3>1. PICK app \in Picks(t.app) : SetLogin(q, Retried(t, app))
      BY <1>0, <1>5, <2>3 DEF RetryWithNewApp
    <3> DEFINE row == IF Exists(q) THEN Retried(t, app) ELSE login[q]
    <3>2. login' = [login EXCEPT ![q] = row]
      BY <1>0, <3>1, TaskTyped DEF SetLogin
    <3>3. row.status \in {"pending", "gone"}
      BY <1>0, TaskTyped DEF LoginRows, Retried, Exists, TaskFits
    <3> HIDE DEF row
    <3>4. tasks' = tasks \ {t}
      BY <1>5, <2>3 DEF RetryWithNewApp, Ends
    <3>5. \A x \in tasks : x.login # q => x \in tasks'
      BY <3>4
    <3>6. signedIn[q] # 1 /\ row.status # "completed" /\ \A x \in tasks' : x \in tasks
      BY <2>1, <3>3, <3>4
    <3>7. QED
      BY <1>0, <2>1, <3>2, <3>3, <3>5, <3>6, SignedRow
  <2>4. QED
    BY <1>0, <2>2, <2>3
<1>6. QED
  BY <1>0, <1>1, <1>2, <1>3, <1>4, <1>5 DEF TaskStep

LEMMA SignedRequest ==
    ASSUME SignInv, SignedInv, NEW q \in Logins,
           InitiateLogin(q) \/ LoginExpires(q) \/ CleanupLogin(q)
    PROVE  SignedInv'
<1>1. PICK row : login' = [login EXCEPT ![q] = row] /\
        \/ login[q].status = "none" /\ row.status = "pending"
        \/ row.status = login[q].status
        \/ row.status = "gone"
  BY DEF InitiateLogin, LoginExpires, CleanupLogin, SignInv, LoginTypeOK, LoginRows, NoLogin
<1>2. UNCHANGED <<tasks, signedIn, broken>> 
  BY DEF InitiateLogin, LoginExpires, CleanupLogin, NoFault
<1>3. SignedOnce(q) /\ login'[q] = row
  BY <1>1 DEF SignedInv, SignInv, LoginTypeOK
<1>4. signedIn[q] = 1 => Accounted(q)'
  BY <1>1, <1>2, <1>3 DEF SignedOnce, Accounted
<1>5. QED
  BY <1>1, <1>2, <1>3, <1>4, SignedRow DEF SignedOnce

LEMMA SignedCallback ==
    ASSUME SignInv, SignedInv, NEW page \in pages, HandleCallback(page)
    PROVE  SignedInv'
<1> DEFINE q == page.login
           row == [login[q] EXCEPT !.status = "processing"]
<1>0. PICK t : t = Task(page, login[q])
  OBVIOUS
<1>1. q \in Logins /\ SignedOnce(q) /\ login[q] \in LoginRows
  BY DEF SignInv, LoginTypeOK, PageRows, SignedInv
<1>2. row.status = "processing" /\ t.login = q /\ t.pc = "begin"
  BY <1>0, <1>1 DEF LoginRows, Task
<1>3. login' = [login EXCEPT ![q] = row] /\ tasks' = tasks \cup {t} /\ UNCHANGED <<signedIn, broken>>
  BY <1>0 DEF HandleCallback, NoFault
<1>4. signedIn[q] = 0
  BY <1>1 DEF SignedOnce, HandleCallback, Matches
<1> HIDE DEF row
<1>5. TaskSigned(t)'
  BY <1>2, <1>3, <1>4 DEF TaskSigned
<1>6. /\ signedIn[q] # 1 /\ row.status \notin {"none", "pending", "completed"}
      /\ \A x \in tasks' : x \in tasks \/ TaskSigned(x)'
      /\ \A x \in tasks : x.login # q => x \in tasks'
  BY <1>2, <1>3, <1>4, <1>5
<1>7. QED
  BY <1>1, <1>3, <1>6, SignedRow

(* A crash takes the tasks and is a fault of their requests. *)
LEMMA SignedRestart ==
    ASSUME SignInv, SignedInv, Restart
    PROVE  SignedInv'
<1>1. ASSUME NEW q \in Logins PROVE Accounted(q) => Accounted(q)'
  BY DEF Accounted, Restart
<1>2. UNCHANGED <<login, signedIn>> /\ tasks' = {}
  BY DEF Restart
<1>3. QED
  BY <1>1, <1>2 DEF SignedInv, SignedOnce

LEMMA SignedOthers ==
    ASSUME SignedInv, UNCHANGED <<login, tasks, signedIn>>, broken \subseteq broken'
    PROVE  SignedInv'
BY DEF SignedInv, SignedOnce, Accounted, TaskSigned

LEMMA SignedStep == SignInv /\ SignedInv /\ [SignInNext]_signInVars => SignedInv'
<1> SUFFICES ASSUME SignInv, SignedInv, [SignInNext]_signInVars PROVE SignedInv'
  OBVIOUS
<1>1. CASE LoginNext
  <2>1. ASSUME NEW app \in Apps, CooldownEnds(app) PROVE SignedInv'
    BY <2>1, SignedOthers DEF CooldownEnds, NoFault
  <2>2. QED
    BY <1>1, <2>1, SignedRequest, SignedCallback, SignedTask DEF LoginNext
<1>2. CASE LinkNext
  <2>1. UNCHANGED <<login, tasks, signedIn>> /\ broken \subseteq broken'
    BY <1>2 DEF LinkNext, ClaimStep, CreateLink, LinkExpires, CleanupLink, BeginClaim, ExpireLink,
         RefreshSource, InsertTarget, MarkClaimed, ClaimFails, loginVars, NoFault, Fails
  <2>2. QED
    BY <2>1, SignedOthers
<1>3. CASE UNCHANGED signInVars
  BY <1>3, SignedOthers DEF signInVars, loginVars
<1>4. QED
  BY <1>1, <1>2, <1>3, SignedRestart DEF SignInNext

-----------------------------------------------------------------------------
(* The sessions a link inserts.  A claim before InsertTarget works for a   *)
(* link without one, a claim at MarkClaimed for a link with one, as long   *)
(* as claims of a link do not overlap and none of them fails.              *)
LinkRows == [status : {"none", "pending", "failed", "claimed", "gone"}, expired : BOOLEAN]
ClaimRows == [pc : {"expire", "refresh", "insert", "mark"}, link : Links]
Calm(k) == k \notin overlap /\ k \notin broken

LinkTypeOK ==
  /\ link \in [Links -> LinkRows]
  /\ claim \in [Claims -> ClaimRows \cup {[pc |-> "idle"]}]
  /\ linked \in [Links -> Nat]

LinkedOnce(k) ==
  /\ \A c, d \in Claiming(k) : c = d
  /\ linked[k] <= 1
  /\ \A c \in Claiming(k) : linked[k] = IF claim[c].pc = "mark" THEN 1 ELSE 0
  /\ linked[k] = 1 =>
       link[k].status \in {"claimed", "gone"} \/ \E c \in Claiming(k) : At(c, "mark")

LinkedInv == LinkTypeOK /\ \A k \in Links : Calm(k) => LinkedOnce(k)

LEMMA LinkedInitially == SignInInit => LinkedInv
BY DEF SignInInit, LinkedInv, LinkTypeOK, LinkedOnce, Claiming, NoLink, LinkRows

LEMMA ClaimTyped ==
    ASSUME LinkTypeOK, NEW c \in Claims, claim[c].pc # "idle"
    PROVE  /\ claim[c] \in ClaimRows /\ claim[c].link \in Links
           /\ c \in Claiming(claim[c].link)
BY DEF LinkTypeOK, ClaimRows, Claiming

(* One claim goes from a stage to another, ends or begins; the rest stands *)
(* still.  What becomes of its link is the caller's business.              *)
LEMMA OneClaimMoves ==
    ASSUME LinkedInv, NEW c \in Claims, NEW k \in Links,
           NEW row \in ClaimRows \cup {[pc |-> "idle"]},
           claim[c].pc # "idle" => claim[c].link = k,
           row.pc # "idle" => row.link = k,
           claim' = [claim EXCEPT ![c] = row],
           link' \in [Links -> LinkRows], linked' \in [Links -> Nat],
           overlap \subseteq overlap', broken \subseteq broken',
           \A x \in Links \ {k} : link'[x] = link[x] /\ linked'[x] = linked[x],
           Calm(k)' => LinkedOnce(k)'
    PROVE  LinkedInv'
<1>1. \A d \in Claims : claim'[d] = IF d = c THEN row ELSE claim[d]
  BY DEF LinkedInv, LinkTypeOK
<1>2. LinkTypeOK'
  BY DEF LinkedInv, LinkTypeOK
<1>3. ASSUME NEW x \in Links \ {k}, Calm(x)' PROVE LinkedOnce(x)'
  <2>1. Calm(x) /\ LinkedOnce(x)
    BY <1>3 DEF Calm, LinkedInv
  <2>2. Claiming(x)' = Claiming(x) /\ c \notin Claiming(x)
    BY <1>1 DEF Claiming
  <2>3. \A d \in Claiming(x) : claim'[d] = claim[d]
    BY <1>1, <2>2 DEF Claiming
  <2>4. QED
    BY <1>3, <2>1, <2>2, <2>3 DEF LinkedOnce, At
<1>4. QED
  BY <1>2, <1>3 DEF LinkedInv

LEMMA BeginClaimKeeps ==
    ASSUME LinkedInv, NEW c \in Claims, NEW k \in Links, BeginClaim(c, k)
    PROVE  LinkedInv'
<1> DEFINE row == [pc |-> IF link[k].expired THEN "expire" ELSE "refresh", link |-> k]
<1>1. /\ claim[c].pc = "idle" /\ link[k].status = "pending"
      /\ claim' = [claim EXCEPT ![c] = row] /\ UNCHANGED <<link, linked, broken>>
      /\ overlap' = IF Claiming(k) # {} THEN overlap \cup {k} ELSE overlap
  BY DEF BeginClaim, At, MayClaim, NoFault
<1>2. row \in ClaimRows /\ row.link = k /\ row.pc \in {"expire", "refresh"}
  BY DEF ClaimRows
<1> HIDE DEF row
<1>3. \A d \in Claims : claim'[d] = IF d = c THEN row ELSE claim[d]
  BY <1>1 DEF LinkedInv, LinkTypeOK
<1>4. ASSUME Calm(k)' PROVE LinkedOnce(k)'
  <2>1. Claiming(k) = {} /\ Calm(k)
    BY <1>1, <1>4 DEF Calm
  <2>2. LinkedOnce(k) /\ linked[k] \in Nat
    BY <2>1 DEF LinkedInv, LinkTypeOK
  <2>3. linked[k] = 0
    BY <1>1, <2>1, <2>2 DEF LinkedOnce
  <2>4. Claiming(k)' = {c}
    BY <1>2, <1>3, <2>1 DEF Claiming
  <2>5. QED
    BY <1>1, <1>2, <1>3, <2>3, <2>4 DEF LinkedOnce
<1>5. QED
  BY <1>1, <1>2, <1>4, OneClaimMoves DEF LinkedInv, LinkTypeOK

LEMMA ClaimStepKeeps ==
    ASSUME LinkedInv, NEW c \in Claims, ClaimStep(c)
    PROVE  LinkedInv'
<1> DEFINE idle == [pc |-> "idle"]
<1>0. claim[c].pc # "idle"
  BY DEF ClaimStep, ExpireLink, RefreshSource, InsertTarget, MarkClaimed, ClaimFails, At
<1>1. PICK k \in Links : k = claim[c].link
  BY <1>0, ClaimTyped DEF LinkedInv
<1>2. /\ claim[c] \in ClaimRows /\ k = claim[c].link /\ c \in Claiming(k)
      /\ link \in [Links -> LinkRows] /\ linked \in [Links -> Nat]
      /\ claim \in [Claims -> ClaimRows \cup {idle}]
  BY <1>0, <1>1, ClaimTyped DEF LinkedInv, LinkTypeOK
<1>3. ASSUME Calm(k)' PROVE Calm(k) /\ LinkedOnce(k) /\ ~ClaimFails(c)
  BY <1>2, <1>3 DEF Calm, LinkedInv, ClaimStep, ExpireLink, RefreshSource, InsertTarget,
                    MarkClaimed, ClaimFails, NoFault, Fails
<1>4. overlap \subseteq overlap' /\ broken \subseteq broken'
  BY DEF ClaimStep, ExpireLink, RefreshSource, InsertTarget, MarkClaimed, ClaimFails, NoFault, Fails
<1>5. CASE RefreshSource(c) /\ GoesTo(c, "insert")
  <2> DEFINE row == [claim[c] EXCEPT !.pc = "insert"]
  <2>1. row \in ClaimRows /\ row.link = k /\ row.pc = "insert"
    BY <1>2 DEF ClaimRows
  <2>2. claim' = [claim EXCEPT ![c] = row] /\ UNCHANGED <<link, linked>> /\ claim[c].pc = "refresh"
    BY <1>5 DEF RefreshSource, GoesTo, At
  <2> HIDE DEF row
  <2>3. \A d \in Claims : claim'[d] = IF d = c THEN row ELSE claim[d]
    BY <1>2, <2>2
  <2>4. ASSUME Calm(k)' PROVE LinkedOnce(k)'
    <3>1. Claiming(k)' = Claiming(k)
      BY <1>0, <1>2, <2>1, <2>3 DEF Claiming
    <3>2. \A d \in Claiming(k) : d = c
      BY <1>2, <1>3, <2>4 DEF LinkedOnce
    <3>3. QED
      BY <1>2, <1>3, <2>1, <2>2, <2>3, <2>4, <3>1, <3>2 DEF LinkedOnce, At
  <2>5. QED
    BY <1>2, <1>4, <2>1, <2>2, <2>4, OneClaimMoves
<1>6. CASE InsertTarget(c)
  <2> DEFINE row == [claim[c] EXCEPT !.pc = "mark"]
  <2>1. row \in ClaimRows /\ row.link = k /\ row.pc = "mark"
    BY <1>2 DEF ClaimRows
  <2>2. /\ claim' = [claim EXCEPT ![c] = row] /\ UNCHANGED link /\ claim[c].pc = "insert"
        /\ linked' = [linked EXCEPT ![k] = linked[k] + 1]
    BY <1>2, <1>6 DEF InsertTarget, GoesTo, At
  <2> HIDE DEF row
  <2>3. \A d \in Claims : claim'[d] = IF d = c THEN row ELSE claim[d]
    BY <1>2, <2>2
  <2>4. \A x \in Links : linked'[x] = IF x = k THEN linked[k] + 1 ELSE linked[x]
    BY <1>2, <2>2
  <2>5. ASSUME Calm(k)' PROVE LinkedOnce(k)'
    <3>1. Claiming(k)' = Claiming(k)
      BY <1>0, <1>2, <2>1, <2>3 DEF Claiming
    <3>2. \A d \in Claiming(k) : d = c
      BY <1>2, <1>3, <2>5 DEF LinkedOnce
    <3>3. linked'[k] = 1
      BY <1>2, <1>3, <2>2, <2>4, <2>5 DEF LinkedOnce
    <3>4. QED
      BY <1>2, <2>1, <2>3, <3>1, <3>2, <3>3 DEF LinkedOnce, At
  <2>6. linked' \in [Links -> Nat]
    BY <1>2, <2>2
  <2>7. QED
    BY <1>2, <1>4, <2>1, <2>2, <2>4, <2>5, <2>6, OneClaimMoves
<1>7. CASE ~(RefreshSource(c) /\ GoesTo(c, "insert")) /\ ~InsertTarget(c)
  <2>1. claim' = [claim EXCEPT ![c] = idle] /\ UNCHANGED linked
    BY <1>7 DEF ClaimStep, ExpireLink, RefreshSource, MarkClaimed, ClaimFails, ClaimEnds
  <2>2. PICK row : /\ link' = [link EXCEPT ![k] = row]
                   /\ \/ row = link[k] /\ ~(claim[c].pc = "mark" /\ ~ClaimFails(c))
                      \/ /\ link[k].status = "gone" /\ row = link[k]
                      \/ row = [link[k] EXCEPT !.status = "failed"] /\ claim[c].pc = "expire"
                      \/ row = [link[k] EXCEPT !.status = "claimed"]
    <3>1. CASE ExpireLink(c)
      BY <1>2, <3>1 DEF ExpireLink, At
    <3>2. CASE MarkClaimed(c)
      BY <1>2, <3>2 DEF MarkClaimed, At
    <3>3. CASE RefreshSource(c) \/ ClaimFails(c)
      <4>1. UNCHANGED link
        BY <3>3 DEF RefreshSource, ClaimFails
      <4>2. link' = [link EXCEPT ![k] = link[k]]
        BY <1>2, <4>1
      <4>3. ~(claim[c].pc = "mark" /\ ~ClaimFails(c))
        BY <3>3 DEF RefreshSource, At
      <4>4. QED
        BY <4>2, <4>3
    <3>4. QED
      BY <1>7, <3>1, <3>2, <3>3 DEF ClaimStep
  <2>3. /\ row \in LinkRows
        /\ \/ row.status = link[k].status /\ ~(claim[c].pc = "mark" /\ ~ClaimFails(c))
           \/ row.status = "failed" /\ claim[c].pc = "expire"
           \/ row.status \in {"claimed", "gone"}
    BY <1>2, <2>2 DEF LinkRows
  <2>4. \A d \in Claims : claim'[d] = IF d = c THEN idle ELSE claim[d]
    BY <1>2, <2>1
  <2>5. \A x \in Links : link'[x] = IF x = k THEN row ELSE link[x]
    BY <1>2, <2>2
  <2>6. ASSUME Calm(k)' PROVE LinkedOnce(k)'
    <3>1. \A d \in Claiming(k) : d = c
      BY <1>2, <1>3, <2>6 DEF LinkedOnce
    <3>2. Claiming(k)' = {}
      BY <2>4, <3>1 DEF Claiming
    <3>3. linked[k] = 1 => claim[c].pc = "mark"
      BY <1>2, <1>3, <2>6 DEF LinkedOnce
    <3>4. linked[k] = 1 => row.status \in {"claimed", "gone"}
      BY <1>3, <2>3, <2>6, <3>3
    <3>5. QED
      BY <1>2, <1>3, <2>1, <2>5, <2>6, <3>2, <3>4 DEF LinkedOnce
  <2>7. link' \in [Links -> LinkRows] /\ idle.pc = "idle"
    BY <1>2, <2>2, <2>3
  <2>8. QED
    BY <1>2, <1>4, <2>1, <2>4, <2>5, <2>6, <2>7, OneClaimMoves
<1>8. QED
  BY <1>5, <1>6, <1>7

LEMMA LinkRowKeeps ==
    ASSUME LinkedInv, NEW k \in Links, CreateLink(k) \/ LinkExpires(k) \/ CleanupLink(k)
    PROVE  LinkedInv'
<1>1. PICK row : /\ link' = [link EXCEPT ![k] = row]
                 /\ \/ row = [link[k] EXCEPT !.status = "pending"] /\ link[k].status = "none"
                    \/ row = [link[k] EXCEPT !.expired = TRUE]
                    \/ row = [link[k] EXCEPT !.status = "gone"]
  BY DEF CreateLink, LinkExpires, CleanupLink
<1>2. UNCHANGED <<claim, linked, overlap, broken>> /\ link \in [Links -> LinkRows]
  BY DEF CreateLink, LinkExpires, CleanupLink, LinkedInv, LinkTypeOK, NoFault
<1>3. /\ row \in LinkRows
      /\ link[k].status \in {"claimed", "gone"} => row.status \in {"claimed", "gone"}
  BY <1>1, <1>2 DEF LinkRows
<1>4. \A x \in Links : link'[x] = IF x = k THEN row ELSE link[x]
  BY <1>1, <1>2
<1>5. ASSUME NEW x \in Links, Calm(x)' PROVE LinkedOnce(x)'
  <2>1. LinkedOnce(x)
    BY <1>2, <1>5 DEF Calm, LinkedInv
  <2>2. Claiming(x)' = Claiming(x)
    BY <1>2 DEF Claiming
  <2>3. QED
    BY <1>2, <1>3, <1>4, <2>1, <2>2 DEF LinkedOnce, At
<1>6. QED
  BY <1>1, <1>2, <1>3, <1>5 DEF LinkedInv, LinkTypeOK

LEMMA LinkedStep == LinkedInv /\ [SignInNext]_signInVars => LinkedInv'
<1> SUFFICES ASSUME LinkedInv, [SignInNext]_signInVars PROVE LinkedInv'
  OBVIOUS
<1>1. ASSUME UNCHANGED linkVars, broken \subseteq broken' PROVE LinkedInv'
  <2>1. \A k \in Links : Calm(k)' => Calm(k)
    BY <1>1 DEF Calm, linkVars
  <2>2. QED
    BY <1>1, <2>1 DEF LinkedInv, LinkTypeOK, LinkedOnce, Claiming, At, linkVars
<1>2. CASE LoginNext
  <2>1. UNCHANGED linkVars /\ broken \subseteq broken'
    BY <1>2 DEF LoginNext, TaskStep, InitiateLogin, LoginExpires, CleanupLogin, HandleCallback,
         CooldownEnds, CheckExpiry, Exchange, Profile, CallFails, StoreSession, Complete,
         StatementFails, MarkRequestFailed, RetryWithNewApp, NoFault, Fails
  <2>2. QED
    BY <1>1, <2>1
<1>3. CASE LinkNext
  BY <1>3, BeginClaimKeeps, ClaimStepKeeps, LinkRowKeeps DEF LinkNext
<1>4. CASE Restart
  <2>1. UNCHANGED <<link, linked, overlap>> /\ claim' = [c \in Claims |-> [pc |-> "idle"]]
    BY <1>4 DEF Restart
  <2>2. ASSUME NEW k \in Links, Calm(k)' PROVE LinkedOnce(k)'
    <3>1. Calm(k) /\ Claiming(k) = {}
      BY <1>4, <2>2 DEF Calm, Restart, Claiming
    <3>2. Claiming(k)' = {}
      BY <2>1 DEF Claiming
    <3>3. LinkedOnce(k)
      BY <3>1 DEF LinkedInv
    <3>4. QED
      BY <2>1, <3>1, <3>2, <3>3 DEF LinkedOnce
  <2>3. LinkTypeOK'
    BY <2>1 DEF LinkedInv, LinkTypeOK
  <2>4. QED
    BY <2>2, <2>3 DEF LinkedInv
<1>5. CASE UNCHANGED signInVars
  BY <1>1, <1>5 DEF signInVars
<1>6. QED
  BY <1>2, <1>3, <1>4, <1>5 DEF SignInNext

(* A login request stores one session and says so; a link inserts one and  *)
(* stays claimed, but for faults, cleanups and claims that overlap         *)
(* (auth/service.rs, do_callback_work; auth/link_service.rs, claim).       *)
THEOREM OneSessionEach == SignInSpec => []OneSignIn
<1>1. SignedInv /\ LinkedInv => OneSignIn
  <2> SUFFICES ASSUME SignedInv, LinkedInv PROVE OneSignIn
    OBVIOUS
  <2>1. ASSUME NEW q \in Logins
        PROVE  /\ signedIn[q] <= 1
               /\ login[q].status = "completed" => signedIn[q] = 1
               /\ signedIn[q] = 1 =>
                    \/ login[q].status \in {"completed", "gone"} \/ q \in broken
                    \/ \E t \in tasks : t.login = q /\ t.pc = "complete"
    BY DEF SignedInv, SignedOnce, Accounted
  <2>2. ASSUME NEW k \in Links \ (overlap \cup broken)
        PROVE  /\ linked[k] <= 1
               /\ linked[k] = 1 =>
                    link[k].status \in {"claimed", "gone"} \/ \E c \in Claiming(k) : At(c, "mark")
    BY DEF LinkedInv, Calm, LinkedOnce
  <2>3. QED
    BY <2>1, <2>2 DEF OneSignIn
<1>2. QED
  BY SignInInitially, SignInStep, SignedInitially, SignedStep, LinkedInitially, LinkedStep, <1>1, PTL
     DEF SignInSpec

-----------------------------------------------------------------------------
(***************************************************************************)
(* NotStale for any number of readers, locks, chunks and versions.  The    *)
(* argument does not rest on the lock: what a reader has in hand when it   *)
(* fetches is marked by each invalidation, and what it starts from then is *)
(* as new as the cache or as SoundCloud.                                   *)
(***************************************************************************)

Lists == [len : Nat, born : Nat, straddles : BOOLEAN]
Stages == {"idle", "lookup", "insert", "wait", "reload", "fetch"}
Calls == [pc : Stages, need : Nat, list : Lists, chunks : Nat, lock : Nat, blind : BOOLEAN]

ListTypeOK ==
  /\ cached # NoList => cached \in Lists
  /\ reader \in [Readers -> Calls]
  /\ lockOf \in Nat /\ locks \in Nat
  /\ version \in Nat /\ invalidated \in Nat /\ invalidated <= version

Current(list) == list.len > 0 => list.born >= invalidated \/ list.straddles

CachedCurrent == cached # NoList => cached.len > 0 /\ Current(cached)
Honest(k) ==
  IF k.pc = "fetch" THEN Current(k.list) /\ (k.chunks > 0 => k.list.len > 0) ELSE k.chunks = 0
HeldCurrent == \A r \in Readers : Honest(reader[r])

ListInv == ListTypeOK /\ CachedCurrent /\ HeldCurrent

-----------------------------------------------------------------------------
LEMMA EmptyTyped == Empty \in Lists /\ Idle \in Calls /\ Honest(Idle)
BY DEF Empty, Idle, Lists, Calls, Stages, Honest

LEMMA LoadedTyped ==
    ASSUME ListInv
    PROVE  Loaded \in Lists /\ Current(Loaded)
BY EmptyTyped DEF ListInv, ListTypeOK, CachedCurrent, Loaded, Current, Empty

LEMMA CallTyped ==
    ASSUME ListInv, NEW r \in Readers
    PROVE  /\ reader \in [Readers -> Calls] /\ reader[r] \in Calls /\ Honest(reader[r])
           /\ reader[r].list \in Lists /\ reader[r].chunks \in Nat /\ reader[r].list.len \in Nat
           /\ reader[r].list.born \in Nat /\ version \in Nat /\ invalidated \in Nat
           /\ version >= invalidated
<1>1. reader \in [Readers -> Calls] /\ reader[r] \in Calls /\ Honest(reader[r])
  BY DEF ListInv, ListTypeOK, HeldCurrent
<1>2. version \in Nat /\ invalidated \in Nat /\ version >= invalidated
  BY DEF ListInv, ListTypeOK
<1>3. QED
  BY <1>1, <1>2 DEF Calls, Lists

(* A reader's step, in which nothing is invalidated. *)
LEMMA ReaderMoves ==
    ASSUME ListInv, NEW r \in Readers, NEW k \in Calls, Honest(k),
           reader' = [reader EXCEPT ![r] = k], UNCHANGED invalidated
    PROVE  reader' \in [Readers -> Calls] /\ HeldCurrent'
<1>1. \A x \in Readers : reader'[x] = IF x = r THEN k ELSE reader[x]
  BY DEF ListInv, ListTypeOK
<1>2. HeldCurrent'
  BY <1>1 DEF ListInv, HeldCurrent, Honest, Current
<1>3. QED
  BY <1>2 DEF ListInv, ListTypeOK

LEMMA ListInitially == ListInit => ListInv
BY EmptyTyped DEF ListInit, ListInv, ListTypeOK, CachedCurrent, HeldCurrent

LEMMA GetPageKeeps ==
    ASSUME ListInv, NEW r \in Readers, NEW need \in 1..ListLen, GetPage(r, need)
    PROVE  ListInv'
<1> DEFINE k == [Idle EXCEPT !.pc = "lookup", !.need = need, !.list = Loaded]
<1>0. need \in Nat
  BY ListCacheAssumption
<1>1. k \in Calls /\ Honest(k)
  BY <1>0, EmptyTyped, LoadedTyped DEF Idle, Calls, Stages, Honest
<1>2. reader' = reader \/ reader' = [reader EXCEPT ![r] = k]
  BY DEF GetPage
<1> HIDE DEF k
<1>3. reader' \in [Readers -> Calls] /\ HeldCurrent'
  <2>1. CASE reader' = reader
    BY <2>1 DEF GetPage, ListInv, ListTypeOK, HeldCurrent, Honest, Current
  <2>2. CASE reader' = [reader EXCEPT ![r] = k]
    BY <1>1, <2>2, ReaderMoves DEF GetPage
  <2>3. QED
    BY <1>2, <2>1, <2>2
<1>4. QED
  BY <1>3 DEF GetPage, ListInv, ListTypeOK, CachedCurrent, Current

LEMMA LockKeeps ==
    ASSUME ListInv, NEW r \in Readers, FindLock(r) \/ InsertLock(r)
    PROVE  ListInv'
<1>0. \/ FindLock(r) /\ reader' = [reader EXCEPT ![r] = [reader[r] EXCEPT
                            !.pc = IF lockOf = 0 THEN "insert" ELSE "wait", !.lock = lockOf]]
      \/ InsertLock(r) /\ reader' = [reader EXCEPT ![r] = [reader[r] EXCEPT !.pc = "wait", !.lock = locks + 1]]
  BY CallTyped DEF FindLock, InsertLock
<1>1. PICK pc \in {"insert", "wait"}, l \in Nat :
        reader' = [reader EXCEPT ![r] = [reader[r] EXCEPT !.pc = pc, !.lock = l]]
  <2>1. lockOf \in Nat /\ locks + 1 \in Nat
    BY DEF ListInv, ListTypeOK
  <2>2. QED
    BY <1>0, <2>1
<1> DEFINE k == [reader[r] EXCEPT !.pc = pc, !.lock = l]
<1>2. k \in Calls /\ Honest(k)
  BY DEF ListInv, ListTypeOK, HeldCurrent, Honest, Calls, Stages, FindLock, InsertLock
<1> HIDE DEF k
<1>3. reader' \in [Readers -> Calls] /\ HeldCurrent'
  BY <1>1, <1>2, ReaderMoves DEF FindLock, InsertLock, k
<1>4. QED
  BY <1>3 DEF FindLock, InsertLock, ListInv, ListTypeOK, CachedCurrent, Current

LEMMA AcquireKeeps ==
    ASSUME ListInv, NEW r \in Readers, Acquire(r)
    PROVE  ListInv'
<1>1. \A lock : OtherLockHeld(lock) \in BOOLEAN
  BY DEF OtherLockHeld
<1>2. ASSUME NEW x \in Readers
      PROVE  reader'[x] \in Calls /\ Honest(reader'[x])
  <2>0. reader[x] \in Calls /\ Honest(reader[x])
    BY DEF ListInv, ListTypeOK, HeldCurrent
  <2>1. CASE x = r
    BY <1>1, <2>0, <2>1 DEF Acquire, Calls, Stages, Honest
  <2>2. CASE x # r /\ x \in Holding
    BY <2>0, <2>2 DEF Acquire, Calls, Stages, Honest
  <2>3. CASE x # r /\ x \notin Holding
    BY <2>0, <2>3 DEF Acquire
  <2>4. QED
    BY <2>1, <2>2, <2>3
<1>3. reader' \in [Readers -> Calls] /\ HeldCurrent'
  BY <1>2 DEF Acquire, HeldCurrent, Honest, Current
<1>4. QED
  BY <1>3 DEF Acquire, ListInv, ListTypeOK, CachedCurrent, Current

LEMMA ReloadKeeps ==
    ASSUME ListInv, NEW r \in Readers, Reload(r)
    PROVE  ListInv'
<1>1. PICK fails \in BOOLEAN :
        reader' = [reader EXCEPT ![r].pc = "fetch", ![r].list = IF fails THEN Empty ELSE Loaded,
                                 ![r].blind = @ \/ fails]
  BY DEF Reload
<1> DEFINE list == IF fails THEN Empty ELSE Loaded
           blind == reader[r].blind \/ fails
           k == [reader[r] EXCEPT !.pc = "fetch", !.list = list, !.blind = blind]
<1>2. list \in Lists /\ Current(list) /\ blind \in BOOLEAN
  BY EmptyTyped, LoadedTyped DEF Current, Empty
<1>3. reader' = [reader EXCEPT ![r] = k]
  BY <1>1, CallTyped DEF Calls
<1> HIDE DEF list, blind
<1>4. reader[r].chunks = 0
  BY CallTyped DEF Reload, Honest
<1>5. k \in Calls /\ k.pc = "fetch" /\ k.list = list /\ k.chunks = 0
  BY <1>2, <1>4, CallTyped DEF Calls, Stages
<1> HIDE DEF k
<1>6. Honest(k)
  BY <1>2, <1>5 DEF Honest
<1>7. reader' \in [Readers -> Calls] /\ HeldCurrent'
  BY <1>3, <1>5, <1>6, ReaderMoves DEF Reload
<1>8. QED
  BY <1>7 DEF Reload, ListInv, ListTypeOK, CachedCurrent, Current

(* The first chunk is as new as SoundCloud, and so not older than any      *)
(* invalidation.                                                           *)
LEMMA FetchKeeps ==
    ASSUME ListInv, NEW r \in Readers, Fetch(r)
    PROVE  ListInv'
<1> DEFINE list == Longer(reader[r].list)
           k == [reader[r] EXCEPT !.list = list, !.chunks = @ + 1]
<1>1. reader' = [reader EXCEPT ![r] = k]
  BY CallTyped DEF Fetch, Calls
<1>2. reader[r].pc = "fetch"
  BY DEF Fetch
<1>3. list \in Lists /\ Current(list) /\ list.len > 0
  <2>1. list \in Lists /\ list.len > 0
    <3> DEFINE n == reader[r].list.len + 1
               b == IF reader[r].list.len = 0 THEN version ELSE reader[r].list.born
    <3>1. n \in Nat /\ n > 0 /\ b \in Nat
      BY CallTyped
    <3>2. list = [reader[r].list EXCEPT !.len = n, !.born = b]
      BY DEF Longer
    <3> HIDE DEF n, b, list
    <3>3. list \in Lists /\ list.len = n
      BY <3>1, <3>2, CallTyped DEF Lists
    <3>4. QED
      BY <3>1, <3>3
  <2>2. CASE reader[r].list.len = 0
    <3>1. list.born = version
      BY <2>2, CallTyped DEF Lists, Longer
    <3>2. QED
      BY <2>1, <3>1, CallTyped DEF Current
  <2>3. CASE reader[r].list.len # 0
    <3>1. list.born = reader[r].list.born /\ list.straddles = reader[r].list.straddles
      BY <2>3, CallTyped DEF Lists, Longer
    <3>2. Current(reader[r].list) /\ reader[r].list.len > 0
      BY <1>2, <2>3, CallTyped DEF Honest
    <3> HIDE DEF list
    <3>3. QED
      BY <2>1, <3>1, <3>2 DEF Current
  <2>4. QED
    BY <2>1, <2>2, <2>3
<1> HIDE DEF list
<1>4. k \in Calls /\ k.list = list /\ k.pc = "fetch"
  <2> DEFINE n == reader[r].chunks + 1
  <2>1. n \in Nat
    BY CallTyped
  <2>2. k = [reader[r] EXCEPT !.list = list, !.chunks = n]
    OBVIOUS
  <2> HIDE DEF n, k
  <2>3. QED
    BY <1>2, <1>3, <2>1, <2>2, CallTyped DEF Calls
<1> HIDE DEF k
<1>5. Honest(k)
  BY <1>3, <1>4 DEF Honest
<1>6. reader' \in [Readers -> Calls] /\ HeldCurrent'
  BY <1>1, <1>4, <1>5, ReaderMoves DEF Fetch
<1>7. QED
  BY <1>6 DEF Fetch, ListInv, ListTypeOK, CachedCurrent, Current

LEMMA EndsKeep ==
    ASSUME ListInv, NEW r \in Readers, FetchFails(r) \/ Save(r)
    PROVE  ListInv'
<1>1. reader' \in [Readers -> Calls] /\ HeldCurrent'
  BY EmptyTyped, ReaderMoves DEF FetchFails, Save
<1>2. reader[r] \in Calls /\ Honest(reader[r]) /\ reader[r].pc = "fetch"
  BY DEF ListInv, ListTypeOK, HeldCurrent, FetchFails, Save
<1>3. \/ cached' = cached
      \/ cached' = reader[r].list /\ cached' \in Lists /\ cached'.len > 0 /\ Current(cached')
  BY <1>2 DEF FetchFails, Save, Honest, Calls
<1>4. QED
  BY <1>1, <1>3 DEF FetchFails, Save, ListInv, ListTypeOK, CachedCurrent, Current

(* What is in hand with something in it is marked; what is empty is current. *)
LEMMA InvalidateKeeps ==
    ASSUME ListInv, Invalidate
    PROVE  ListInv'
<1>1. ASSUME NEW x \in Readers
      PROVE  reader'[x] \in Calls /\ (Honest(reader[x]))'
  <2>1. reader[x] \in Calls /\ Honest(reader[x])
    BY DEF ListInv, ListTypeOK, HeldCurrent
  <2>2. CASE reader[x].pc = "fetch"
    <3> DEFINE crossing == (reader[x].list.len > 0)
               list == [reader[x].list EXCEPT !.straddles = crossing]
    <3>1. reader'[x] = [reader[x] EXCEPT !.list = list]
      BY <2>2, CallTyped DEF Invalidate, Calls, Lists
    <3>2. crossing \in BOOLEAN
      OBVIOUS
    <3>3. list.len > 0 => list.straddles
      BY CallTyped DEF Lists
    <3>4. list \in Lists /\ list.len = reader[x].list.len
      <4> HIDE DEF crossing
      <4>1. QED
        BY <3>2, CallTyped DEF Lists
    <3> HIDE DEF list
    <3>5. reader'[x] \in Calls /\ reader'[x].list = list /\ reader'[x].chunks = reader[x].chunks
          /\ reader'[x].pc = "fetch"
      BY <2>2, <3>1, <3>4, CallTyped DEF Calls
    <3>6. QED
      BY <2>1, <2>2, <3>3, <3>4, <3>5 DEF Honest, Current
  <2>3. CASE reader[x].pc # "fetch"
    BY <2>1, <2>3, CallTyped DEF Invalidate, Honest
  <2>4. QED
    BY <2>2, <2>3
<1>2. reader' \in [Readers -> Calls] /\ HeldCurrent'
  BY <1>1 DEF Invalidate, HeldCurrent
<1>3. QED
  BY <1>2 DEF Invalidate, ListInv, ListTypeOK, CachedCurrent

LEMMA OtherReadersKeep ==
    ASSUME ListInv, EvictLock \/ Expire \/ Changes \/ UNCHANGED listVars
    PROVE  ListInv'
BY DEF EvictLock, Expire, Changes, listVars, ListInv, ListTypeOK, CachedCurrent, HeldCurrent,
       Honest, Current

LEMMA ListStep == ListInv /\ [ListNext]_listVars => ListInv'
<1> SUFFICES ASSUME ListInv, [ListNext]_listVars PROVE ListInv'
  OBVIOUS
<1>1. ASSUME NEW r \in Readers, ReaderStep(r) PROVE ListInv'
  BY <1>1, LockKeeps, AcquireKeeps, ReloadKeeps, FetchKeeps, EndsKeep DEF ReaderStep
<1>2. QED
  BY <1>1, GetPageKeeps, InvalidateKeeps, OtherReadersKeep DEF ListNext

(* The cache never serves a list from before an invalidation, unless a     *)
(* reader was extending it when it was invalidated                         *)
(* (list_cache_service.rs:250): for every number of readers and of locks.  *)
THEOREM InvalidatedListsGo == ListSpec => []NotStale
<1>1. ListInv => NotStale
  BY DEF ListInv, ListTypeOK, CachedCurrent, Current, NotStale, Lists
<1>2. QED
  BY ListInitially, ListStep, <1>1, PTL DEF ListSpec

-----------------------------------------------------------------------------
(***************************************************************************)
(* OkMeansStored for any number of listeners.  The row and the file are    *)
(* written in two steps, so the argument is about whose id the row has: an *)
(* upload that is about to write `ok' either put the file there itself, or *)
(* refers to a row that is gone.  Ids are not used twice.                  *)
(***************************************************************************)

RefIds == RowIds \cup {0}
UploadRows == [by : Listeners, pc : {"insert", "send", "ok", "error"}, id : RefIds]

StoreTypeOK ==
  /\ cdn \in [status : {"none", "pending", "ok", "error"}, id : RefIds]
  /\ file \in BOOLEAN /\ troubled \in BOOLEAN
  /\ cleaner \in [pc : {"idle", "file", "row"}, id : RefIds]
  /\ uploading \in SUBSET UploadRows
  /\ streaming \in [Listeners -> [pc : {"idle", "verify", "sources"}, row : RefIds]]

(* A listener has one upload, so that the ids referred to can be counted. *)
OneUploadEach == \A u, v \in uploading : u.by = v.by => u = v

(* The cleanup alone removes the row it found, so the row is there, with   *)
(* the id it has, until then.                                              *)
CleanerFits == cleaner.pc # "idle" => cdn.status # "none" /\ cleaner.id = cdn.id

Kept == file \/ troubled \/ cleaner.pc = "row"

(* A row has an id, and an upload that is about to call it stored has put  *)
(* the file there.                                                         *)
RowFits ==
  /\ cdn.status # "none" => cdn.id # 0
  /\ cdn.status = "ok" => Kept
  /\ \A u \in uploading : u.pc = "ok" /\ cdn.status # "none" /\ u.id = cdn.id => Kept

StreamInv == StoreTypeOK /\ OneUploadEach /\ CleanerFits /\ RowFits

-----------------------------------------------------------------------------
(* The values a function takes on a finite set are no more than the set.   *)
LEMMA FewImages ==
  ASSUME NEW S, IsFiniteSet(S), NEW f, f = [x \in S |-> f[x]]
  PROVE  IsFiniteSet({f[x] : x \in S}) /\ Cardinality({f[x] : x \in S}) <= Cardinality(S)
<1> DEFINE T == {f[x] : x \in S}
<1>1. f \in [S -> T] /\ \A t \in T : \E x \in S : f[x] = t OBVIOUS
<1>2. f \in Surjection(S, T) BY <1>1 DEF Surjection
<1> HIDE DEF T
<1>3. IsFiniteSet(T) /\ Cardinality(T) <= Cardinality(S) BY <1>2, FS_Surjection
<1> QED BY <1>3 DEF T

LEMMA FewInAll ==
  ASSUME NEW S, NEW T, IsFiniteSet(S), IsFiniteSet(T)
  PROVE  IsFiniteSet(S \cup T) /\ Cardinality(S \cup T) <= Cardinality(S) + Cardinality(T)
<1>1. S \cap T \in SUBSET S OBVIOUS
<1>2. IsFiniteSet(S \cap T) /\ Cardinality(S \cap T) \in Nat
  BY <1>1, FS_Subset, FS_CardinalityType
<1>3. Cardinality(S) \in Nat /\ Cardinality(T) \in Nat BY FS_CardinalityType
<1>4. /\ IsFiniteSet(S \cup T)
      /\ Cardinality(S \cup T) = Cardinality(S) + Cardinality(T) - Cardinality(S \cap T)
  BY FS_Union
<1> QED BY <1>2, <1>3, <1>4

(* There is always an id that nothing refers to. *)
LEMMA NewIdIsNew ==
  ASSUME StreamInv
  PROVE  FreshId \in RowIds /\ FreshId # 0 /\ FreshId \notin {u.id : u \in uploading}
<1> DEFINE ids == {u.id : u \in uploading}
           rows == {streaming[l].row : l \in Listeners}
           of == [l \in Listeners |->
                    IF \E u \in uploading : u.by = l
                    THEN (CHOOSE u \in uploading : u.by = l).id ELSE 0]
           row == [l \in Listeners |-> streaming[l].row]
           two == {cdn.id, cleaner.id}
           all == two \cup ({of[l] : l \in Listeners} \cup {row[l] : l \in Listeners})
<1>1. IsFiniteSet(Listeners) /\ Cardinality(Listeners) \in Nat
  BY StreamingAssumption, FS_CardinalityType
<1>2. /\ IsFiniteSet({of[l] : l \in Listeners})
      /\ Cardinality({of[l] : l \in Listeners}) <= Cardinality(Listeners)
      /\ Cardinality({of[l] : l \in Listeners}) \in Nat
  <2>1. PICK f : f = of OBVIOUS
  <2>2. f = [l \in Listeners |-> f[l]] BY <2>1
  <2> HIDE DEF of
  <2> QED BY <1>1, <2>1, <2>2, FewImages, FS_CardinalityType
<1>3. /\ IsFiniteSet({row[l] : l \in Listeners})
      /\ Cardinality({row[l] : l \in Listeners}) <= Cardinality(Listeners)
      /\ Cardinality({row[l] : l \in Listeners}) \in Nat
  <2>1. PICK f : f = row OBVIOUS
  <2>2. f = [l \in Listeners |-> f[l]] BY <2>1
  <2> HIDE DEF row
  <2> QED BY <1>1, <2>1, <2>2, FewImages, FS_CardinalityType
<1>4. IsFiniteSet(two) /\ Cardinality(two) <= 2 /\ Cardinality(two) \in Nat
  <2>1. IsFiniteSet({cdn.id}) /\ Cardinality({cdn.id}) = 1 BY FS_Singleton
  <2>2. two = {cdn.id} \cup {cleaner.id} OBVIOUS
  <2>3. IsFiniteSet(two) /\ Cardinality(two) \in {1, 2}
    BY <2>1, <2>2, FS_AddElement
  <2> QED BY <2>3
<1>5. ids \subseteq {of[l] : l \in Listeners}
  <2>1. SUFFICES ASSUME NEW u \in uploading PROVE u.id \in {of[l] : l \in Listeners}
    OBVIOUS
  <2>2. u.by \in Listeners BY DEF StreamInv, StoreTypeOK, UploadRows
  <2>3. \A v \in uploading : v.by = u.by => v = u BY DEF StreamInv, OneUploadEach
  <2>4. (CHOOSE v \in uploading : v.by = u.by) = u BY <2>3
  <2>5. of[u.by] = u.id BY <2>2, <2>4
  <2> QED BY <2>2, <2>5
<1>6. rows = {row[l] : l \in Listeners} OBVIOUS
<1>7. IsFiniteSet(all) /\ Cardinality(all) <= 2 * Cardinality(Listeners) + 2
      /\ Cardinality(all) \in Nat
  <2> DEFINE A == {of[l] : l \in Listeners}
             B == {row[l] : l \in Listeners}
  <2> HIDE DEF A, B, two
  <2>1. IsFiniteSet(A \cup B) /\ Cardinality(A \cup B) <= Cardinality(A) + Cardinality(B)
        /\ Cardinality(A \cup B) \in Nat
    BY <1>2, <1>3, FewInAll, FS_CardinalityType DEF A, B
  <2>2. IsFiniteSet(two \cup (A \cup B)) /\ Cardinality(two \cup (A \cup B)) \in Nat
        /\ Cardinality(two \cup (A \cup B)) <= Cardinality(two) + Cardinality(A \cup B)
    BY <1>4, <2>1, FewInAll, FS_CardinalityType
  <2> QED BY <1>1, <1>2, <1>3, <1>4, <2>1, <2>2 DEF A, B
<1>8. \E id \in RowIds : id \notin all
  <2> HIDE DEF all
  <2>1. SUFFICES ASSUME RowIds \subseteq all PROVE FALSE OBVIOUS
  <2>2. IsFiniteSet(RowIds) /\ Cardinality(RowIds) <= Cardinality(all)
    BY <1>7, <2>1, FS_Subset
  <2>3. Cardinality(RowIds) > 2 * Cardinality(Listeners) + 2 BY <2>2, StreamingAssumption
  <2>4. Cardinality(RowIds) \in Nat BY <2>2, FS_CardinalityType
  <2> QED BY <1>1, <1>7, <2>2, <2>3, <2>4
<1>9. \E id \in RowIds : id \notin two \cup ids \cup rows
  <2> HIDE DEF two, ids, rows, of, row
  <2> QED BY <1>5, <1>6, <1>8
<1>10. FreshId \in RowIds /\ FreshId \notin two \cup ids \cup rows
  BY <1>9 DEF FreshId
<1> QED BY <1>10, StreamingAssumption

LEMMA StreamStarts == StreamInit => StreamInv
<1>1. ASSUME StreamInit PROVE StoreTypeOK
  BY <1>1 DEF StreamInit, StoreTypeOK, RefIds, NoRow, NotStreaming
<1>2. ASSUME StreamInit PROVE OneUploadEach /\ CleanerFits /\ RowFits
  BY <1>2 DEF StreamInit, OneUploadEach, CleanerFits, RowFits, NoRow
<1> QED BY <1>1, <1>2 DEF StreamInv

(* What leaves the row, its file, the uploads and the cleanup as they are. *)
LEMMA RowStays ==
  ASSUME StreamInv, UNCHANGED rowVars, troubled' = troubled,
         streaming' \in [Listeners -> [pc : {"idle", "verify", "sources"}, row : RefIds]]
  PROVE  StreamInv'
BY DEF StreamInv, StoreTypeOK, OneUploadEach, CleanerFits, RowFits, Kept, rowVars

LEMMA ListenerSteps ==
  ASSUME StreamInv, NEW l \in Listeners, ListenerStep(l)
  PROVE  StreamInv'
<1> DEFINE Streams == [Listeners -> [pc : {"idle", "verify", "sources"}, row : RefIds]]
<1>1. streaming \in Streams /\ cdn.id \in RefIds /\ 0 \in RefIds
  BY DEF StreamInv, StoreTypeOK, RefIds
<1>2. \A pc \in {"idle", "verify", "sources"}, id \in RefIds :
        [streaming EXCEPT ![l] = [pc |-> pc, row |-> id]] \in Streams
  BY <1>1
<1>3. streaming' \in Streams
  <2>1. \E pc \in {"idle", "verify", "sources"}, id \in RefIds :
          streaming' = [streaming EXCEPT ![l] = [pc |-> pc, row |-> id]]
    BY <1>1 DEF ListenerStep, Stream, VerifyFound, VerifyMissing, VerifyUnavailable, Respond,
       NoStream, Steps, Answered, NotStreaming
  <2> QED BY <1>2, <2>1
<1> HIDE DEF Streams
<1>4. CASE Stream(l) \/ VerifyFound(l) \/ VerifyUnavailable(l) \/ NoStream(l)
  <2>1. UNCHANGED rowVars /\ troubled' = troubled
    BY <1>4 DEF Stream, VerifyFound, VerifyUnavailable, NoStream, NoTrouble
  <2> QED BY <1>3, <2>1, RowStays DEF Streams
<1>5. CASE VerifyMissing(l)
  <2>1. UNCHANGED <<file, uploading, cleaner, troubled>> /\ cdn' \in {cdn, [cdn EXCEPT !.status = "error"]}
        /\ (cdn' # cdn => cdn.status # "none")
    BY <1>5 DEF VerifyMissing, SetStatus, NoTrouble
  <2>2. /\ cdn' \in [status : {"none", "pending", "ok", "error"}, id : RefIds]
        /\ cdn'.id = cdn.id /\ (cdn'.status = "none" <=> cdn.status = "none")
        /\ (cdn'.status = "ok" => cdn.status = "ok")
    BY <2>1 DEF StreamInv, StoreTypeOK
  <2>3. StoreTypeOK' BY <1>3, <2>1, <2>2 DEF StreamInv, StoreTypeOK, Streams
  <2>4. OneUploadEach' /\ CleanerFits' BY <2>1, <2>2 DEF StreamInv, OneUploadEach, CleanerFits
  <2>5. RowFits' BY <2>1, <2>2 DEF StreamInv, RowFits, Kept
  <2> QED BY <2>3, <2>4, <2>5 DEF StreamInv
<1>6. CASE Respond(l)
  <2>1. CASE UNCHANGED uploading
    <3>1. UNCHANGED rowVars /\ troubled' = troubled BY <1>6, <2>1 DEF Respond, NoTrouble, rowVars
    <3> QED BY <1>3, <3>1, RowStays DEF Streams
  <2>2. CASE ~UNCHANGED uploading
    <3>1. PICK n : n = [by |-> l, pc |-> "insert", id |-> 0] OBVIOUS
    <3>2. n \in UploadRows /\ n.by = l /\ n.pc = "insert" BY <1>1, <3>1 DEF UploadRows
    <3>3. uploading' = uploading \cup {n} /\ (\A u \in uploading : u.by # l)
          /\ UNCHANGED <<cdn, file, cleaner, troubled>>
      BY <1>6, <2>2, <3>1 DEF Respond, NoTrouble
    <3>4. StoreTypeOK' BY <1>3, <3>2, <3>3 DEF StreamInv, StoreTypeOK, Streams
    <3>5. OneUploadEach' /\ CleanerFits'
      BY <3>2, <3>3 DEF StreamInv, OneUploadEach, CleanerFits
    <3>6. RowFits' BY <3>2, <3>3 DEF StreamInv, RowFits, Kept
    <3> QED BY <3>4, <3>5, <3>6 DEF StreamInv
  <2> QED BY <2>1, <2>2
<1> QED BY <1>4, <1>5, <1>6 DEF ListenerStep

(* A step of one upload, which goes on or ends: the others keep the ids    *)
(* they have.                                                              *)
LEMMA UploadMoves ==
  ASSUME StreamInv, NEW u \in uploading, NEW n \in UploadRows, n.by = u.by, NEW on \in BOOLEAN,
         uploading' = (uploading \ {u}) \cup (IF on THEN {n} ELSE {}),
         UNCHANGED <<cleaner, streaming>>,
         cdn' \in [status : {"none", "pending", "ok", "error"}, id : RefIds],
         file' \in BOOLEAN, troubled' \in BOOLEAN, file => file',
         cdn.status # "none" => cdn'.id = cdn.id /\ (troubled => troubled'),
         cdn.status # "none" => cdn'.status # "none",
         cdn'.status # "none" => cdn'.id # 0,
         cdn'.status = "ok" => Kept',
         on /\ n.pc = "ok" /\ cdn'.status # "none" /\ n.id = cdn'.id => Kept',
         cdn.status = "none" => cdn'.status = "none" \/ \A v \in uploading : v.id # cdn'.id
  PROVE  StreamInv'
<1>1. \A v \in uploading' : v \in uploading \/ (on /\ v = n)
  BY DEF StreamInv
<1>2. StoreTypeOK' BY <1>1 DEF StreamInv, StoreTypeOK
<1>3. OneUploadEach' BY DEF StreamInv, OneUploadEach
<1>4. CleanerFits' BY DEF StreamInv, CleanerFits
<1>5. RowFits'
  <2>1. SUFFICES ASSUME NEW v \in uploading', v.pc = "ok", cdn'.status # "none", v.id = cdn'.id
                 PROVE  Kept'
    BY DEF RowFits
  <2>2. CASE on /\ v = n BY <2>1, <2>2
  <2>3. CASE v \in uploading
    <3>1. cdn.status # "none" /\ cdn'.id = cdn.id BY <2>1, <2>3
    <3>2. Kept BY <2>1, <2>3, <3>1 DEF StreamInv, RowFits
    <3> QED BY <3>1, <3>2 DEF Kept
  <2> QED BY <1>1, <2>2, <2>3
<1> QED BY <1>2, <1>3, <1>4, <1>5 DEF StreamInv

LEMMA UploadSteps ==
  ASSUME StreamInv, NEW u \in uploading, UploadStep(u)
  PROVE  StreamInv'
<1>1. u \in UploadRows /\ StoreTypeOK /\ RowFits BY DEF StreamInv, StoreTypeOK
<1>2. CASE InsertCdnTrack(u)
  <2>1. PICK id : id = IF cdn.status = "none" THEN FreshId ELSE 0 OBVIOUS
  <2>2. /\ id \in RefIds
        /\ cdn.status = "none" => id # 0 /\ id \notin {v.id : v \in uploading}
    BY <2>1, NewIdIsNew DEF RefIds
  <2>3. PICK n : n = [u EXCEPT !.pc = "send", !.id = id] OBVIOUS
  <2>4. n \in UploadRows /\ n.by = u.by /\ n.pc = "send" BY <1>1, <2>2, <2>3 DEF UploadRows
  <2>5. /\ uploading' = (uploading \ {u}) \cup {n}
        /\ cdn' = [status |-> "pending", id |-> IF cdn.status = "none" THEN id ELSE cdn.id]
        /\ troubled' = (troubled /\ cdn.status # "none")
        /\ UNCHANGED <<file, cleaner, streaming>>
    BY <1>2, <2>1, <2>3 DEF InsertCdnTrack
  <2>6. /\ cdn' \in [status : {"none", "pending", "ok", "error"}, id : RefIds]
        /\ cdn'.status = "pending" /\ cdn'.id = IF cdn.status = "none" THEN id ELSE cdn.id
    BY <1>1, <2>2, <2>5 DEF StoreTypeOK
  <2>7. cdn.status # "none" => cdn.id # 0 BY <1>1 DEF RowFits
  <2>8. file' \in BOOLEAN /\ troubled' \in BOOLEAN BY <1>1, <2>5 DEF StoreTypeOK
  <2>9. PICK on \in BOOLEAN : on = TRUE OBVIOUS
  <2>10. uploading' = (uploading \ {u}) \cup (IF on THEN {n} ELSE {}) BY <2>5, <2>9
  <2> QED BY <2>2, <2>4, <2>5, <2>6, <2>7, <2>8, <2>10, UploadMoves
<1>3. CASE UploadSucceeds(u) \/ UploadFails(u)
  <2>1. PICK pc \in {"ok", "error"} :
          /\ uploading' = (uploading \ {u}) \cup {[u EXCEPT !.pc = pc]}
          /\ pc = "ok" => file' = TRUE
    BY <1>3 DEF UploadSucceeds, UploadFails, Uploads
  <2>2. UNCHANGED <<cdn, cleaner, streaming, troubled>> /\ file' \in BOOLEAN /\ (file => file')
    BY <1>1, <1>3 DEF UploadSucceeds, UploadFails, NoTrouble, StoreTypeOK
  <2>3. PICK n : n = [u EXCEPT !.pc = pc] OBVIOUS
  <2>4. n \in UploadRows /\ n.by = u.by /\ n.pc = pc BY <1>1, <2>3 DEF UploadRows
  <2>5. PICK on \in BOOLEAN : on = TRUE OBVIOUS
  <2>6. uploading' = (uploading \ {u}) \cup (IF on THEN {n} ELSE {}) BY <2>1, <2>3, <2>5
  <2>7. n.pc = "ok" => Kept' BY <2>1, <2>4 DEF Kept
  <2>8. cdn'.status = "ok" => Kept' BY <1>1, <2>2 DEF RowFits, Kept
  <2> QED BY <1>1, <2>2, <2>4, <2>6, <2>7, <2>8, UploadMoves DEF RowFits, StoreTypeOK
<1>4. CASE UpdateCdnTrackStatus(u)
  <2>1. /\ u.pc \in {"ok", "error"} /\ uploading' = uploading \ {u}
        /\ cdn' = IF cdn.status # "none" /\ cdn.id = u.id THEN [cdn EXCEPT !.status = u.pc] ELSE cdn
        /\ UNCHANGED <<file, cleaner, streaming, troubled>>
    BY <1>4 DEF UpdateCdnTrackStatus, SetStatus, NoTrouble
  <2>2. /\ cdn' \in [status : {"none", "pending", "ok", "error"}, id : RefIds] /\ cdn'.id = cdn.id
        /\ (cdn'.status = "none" <=> cdn.status = "none")
        /\ (cdn'.status = "ok" => cdn.status = "ok" \/ (u.pc = "ok" /\ cdn.status # "none" /\ cdn.id = u.id))
    BY <1>1, <2>1 DEF StoreTypeOK
  <2>3. cdn'.status = "ok" => Kept' BY <1>1, <2>1, <2>2 DEF RowFits, Kept
  <2>4. PICK on \in BOOLEAN : on = FALSE OBVIOUS
  <2>5. uploading' = (uploading \ {u}) \cup (IF on THEN {u} ELSE {}) BY <2>1, <2>4
  <2> QED BY <1>1, <2>1, <2>2, <2>3, <2>4, <2>5, UploadMoves DEF RowFits, StoreTypeOK
<1>5. CASE UpdateFails(u)
  <2>1. uploading' = uploading \ {u} /\ troubled' = TRUE /\ UNCHANGED <<cdn, file, cleaner, streaming>>
    BY <1>5 DEF UpdateFails
  <2>2. PICK on \in BOOLEAN : on = FALSE OBVIOUS
  <2>3. uploading' = (uploading \ {u}) \cup (IF on THEN {u} ELSE {}) BY <2>1, <2>2
  <2>4. Kept' BY <2>1 DEF Kept
  <2> QED BY <1>1, <2>1, <2>2, <2>3, <2>4, UploadMoves DEF RowFits, StoreTypeOK
<1> QED BY <1>2, <1>3, <1>4, <1>5 DEF UploadStep

(* The cleanup, the faults and the time. *)
LEMMA ServerSteps ==
  ASSUME StreamInv,
         FindStale \/ DeleteStale \/ CleanupFails \/ CooldownPasses \/ FileLost \/ ServerRestarts
  PROVE  StreamInv'
<1> USE DEF StreamInv, StoreTypeOK, OneUploadEach, CleanerFits, RowFits, Kept
<1>1. CASE FindStale BY <1>1 DEF FindStale, NoTrouble
<1>2. CASE DeleteStale
  <2>1. CASE cleaner.pc = "file"
    <3>1. /\ cleaner' = [cleaner EXCEPT !.pc = "row"] /\ file' = FALSE
          /\ UNCHANGED <<cdn, uploading, streaming, troubled>>
      BY <1>2, <2>1 DEF DeleteStale, NoTrouble
    <3>2. /\ cleaner' \in [pc : {"idle", "file", "row"}, id : RefIds]
          /\ cleaner'.pc = "row" /\ cleaner'.id = cleaner.id
      BY <3>1
    <3>3. StoreTypeOK' BY <3>1, <3>2
    <3>4. OneUploadEach' /\ CleanerFits' BY <2>1, <3>1, <3>2
    <3>5. RowFits' BY <3>1, <3>2
    <3> QED BY <3>3, <3>4, <3>5
  <2>2. CASE cleaner.pc = "row"
    <3>1. /\ cleaner' = [pc |-> "idle", id |-> 0] /\ cdn' = NoRow
          /\ UNCHANGED <<file, uploading, streaming, troubled>>
      BY <1>2, <2>2 DEF DeleteStale, NoTrouble
    <3> QED BY <3>1 DEF NoRow, RefIds
  <2> QED BY <1>2, <2>1, <2>2 DEF DeleteStale
<1>3. CASE CleanupFails BY <1>3 DEF CleanupFails, RefIds
<1>4. CASE CooldownPasses
  <2>1. UNCHANGED <<rowVars, streaming, troubled>> BY <1>4 DEF CooldownPasses, NoTrouble
  <2> QED BY <2>1, RowStays
<1>5. CASE FileLost BY <1>5 DEF FileLost
<1>6. CASE ServerRestarts BY <1>6 DEF ServerRestarts, NotStreaming, RefIds
<1> QED BY <1>1, <1>2, <1>3, <1>4, <1>5, <1>6

(* A row that says its file is stored is right, but between the cleanup's  *)
(* two deletions and after a fault of the storage, for any number of       *)
(* requests and uploads.                                                   *)
THEOREM StoredWhenOk == StreamSpec => []OkMeansStored
<1>1. StreamInv /\ [StreamNext]_streamVars => StreamInv'
  <2>1. ASSUME StreamInv, AnonNext \/ UNCHANGED streamVars PROVE StreamInv'
    <3>1. UNCHANGED storeVars /\ troubled' = troubled
      BY <2>1 DEF AnonNext, AnonStep, BeginAnon, AskAnon, TakeGate, FetchClientId, AnonGivesUp,
         WindowPasses, IdWithdrawn, AnonOnly, NoTrouble, streamVars
    <3> QED BY <2>1, <3>1, RowStays DEF storeVars, StreamInv, StoreTypeOK
  <2>2. ASSUME StreamInv, StoreNext \/ ServerRestarts PROVE StreamInv'
    BY <2>2, ListenerSteps, UploadSteps, ServerSteps DEF StoreNext
  <2> QED BY <2>1, <2>2 DEF StreamNext
<1>2. StreamInv => OkMeansStored
  <2>1. ASSUME StreamInv, cdn.status = "ok", cleaner.pc = "row"
        PROVE  cleaner = [pc |-> "row", id |-> cdn.id]
    BY <2>1 DEF StreamInv, CleanerFits, StoreTypeOK
  <2> QED BY <2>1 DEF StreamInv, RowFits, Kept, OkMeansStored
<1> QED BY <1>1, <1>2, StreamStarts, PTL DEF StreamSpec

-----------------------------------------------------------------------------
(***************************************************************************)
(* UnwantedStaysOut and ShownWasPresent for any number of waves and tunes. *)
(* Each step of a wave hands on sets of tracks, so the argument is a row   *)
(* invariant by stage: which set has been freed of which.                  *)
(***************************************************************************)

Collecting == {"contexts", "foryou", "top", "adjacent", "fresh", "vibe"}
WaveSteps == Collecting \cup
  {"idle", "signals", "cold", "quality", "marks", "probe", "absent", "drop", "sequence", "pool",
   "verify", "verified", "fallback", "merge", "answer"}
WaveRows == [kind : {"none", "home", "artist", "similar", "tail", "search"}, pc : WaveSteps,
          ban : SUBSET Tunes, taken : SUBSET Tunes, shown : SUBSET Tunes, rest : SUBSET Tunes,
          batch : SUBSET Tunes, todo : SUBSET Tunes, found : SUBSET Tunes,
          missing : SUBSET Tunes, predicted : SUBSET Tunes, modes : BOOLEAN,
          centroid : BOOLEAN, hated : SUBSET Tunes, known : BOOLEAN, loose : SUBSET Tunes]

OneByOne(w) == w.kind \in {"tail", "search"}

(* The dislikes are all known. *)
HatedAllKnown(w) == w.known /\ Cardinality(w.hated) <= DislikeLimit

(* The dislikes are part of what is kept out, and what is kept out is not  *)
(* among the tracks that were collected.                                   *)
KeepsOut(w) ==
  /\ w.kind # "tail" => w.predicted = {}
  /\ w.kind \in {"artist", "similar", "search", "none"} => w.hated = {}
  /\ w.pc = "signals" => w.shown = {}
  /\ w.pc \in Collecting \ {"contexts"} => w.ban \subseteq w.taken
  /\ w.kind = "tail" =>
       (w.rest \cup w.batch) \cap w.ban = {} /\ (w.pc # "answer" => w.shown \cap w.ban = {})
  /\ HatedAllKnown(w) =>
       /\ w.pc = "cold" => w.hated = {}
       /\ w.pc \in Collecting \/ w.kind = "tail" => w.hated \subseteq w.ban
       /\ w.hated \cap w.shown \subseteq w.predicted

(* What find_missing has not put aside has been in the storage. *)
WasThere(w, was) ==
  /\ w.found \subseteq was
  /\ w.pc \in {"verify", "verified", "fallback", "merge", "pool", "sequence"} => OneByOne(w)
  /\ w.pc = "drop" => ~OneByOne(w) /\ w.shown \subseteq w.missing \cup was \cup w.loose
  /\ w.pc = "probe" => w.batch \subseteq w.todo \cup w.found \cup w.missing \cup was
  /\ w.pc \in {"absent", "verified"} => w.batch \subseteq w.missing \cup was
  /\ ~OneByOne(w) /\ w.pc \in {"marks", "probe", "absent"} => w.shown = w.batch
  /\ OneByOne(w) \/ w.pc = "answer" => w.shown \subseteq was \cup w.loose

WavesTypeOK ==
  /\ wave \in [Visits -> WaveRows]
  /\ mark \in [Tunes -> {"new", "ok", "miss", "old"}]
  /\ present \subseteq wasPresent
  /\ heard \subseteq Tunes /\ dislikes \subseteq Tunes /\ IsFiniteSet(dislikes)

MarksFit == \A t \in Tunes : mark[t] = "ok" => t \in wasPresent

WavesInv ==
  WavesTypeOK /\ MarksFit /\ \A r \in Visits : KeepsOut(wave[r]) /\ WasThere(wave[r], wasPresent)

-----------------------------------------------------------------------------
LEMMA NoWaveFits ==
  NoWave \in WaveRows /\ \A was : KeepsOut(NoWave) /\ WasThere(NoWave, was)
<1>1. NoWave \in WaveRows BY DEF NoWave, WaveRows, WaveSteps
<1>2. KeepsOut(NoWave) BY DEF NoWave, KeepsOut, Collecting
<1>3. \A was : WasThere(NoWave, was) BY DEF NoWave, WasThere, OneByOne
<1> QED BY <1>1, <1>2, <1>3

LEMMA WavesStart == WavesInit => WavesInv
<1> SUFFICES ASSUME WavesInit PROVE WavesInv OBVIOUS
<1>1. WavesTypeOK BY NoWaveFits, FS_EmptySet DEF WavesInit, WavesTypeOK
<1>2. MarksFit BY DEF WavesInit, MarksFit
<1>3. \A r \in Visits : KeepsOut(wave[r]) /\ WasThere(wave[r], wasPresent)
  BY NoWaveFits DEF WavesInit
<1> QED BY <1>1, <1>2, <1>3 DEF WavesInv

(* A query that finds no more than its limit finds all there is. *)
LEMMA LatestIsAll ==
  ASSUME NEW S, IsFiniteSet(S), NEW n \in Nat, Cardinality(S) <= n, NEW c \in Latest(S, n)
  PROVE  c = S
<1>1. c \in SUBSET S /\ Cardinality(c) = Cardinality(S)
  <2>1. Cardinality(S) \in Nat BY FS_CardinalityType
  <2> QED BY <2>1 DEF Latest
<1> QED BY <1>1, FS_Subset

(* A step of one request that only reads. *)
LEMMA WaveMoves ==
  ASSUME WavesInv, NEW r \in Visits, NEW k \in WaveRows, KeepsOut(k), WasThere(k, wasPresent),
         wave' = [wave EXCEPT ![r] = k], UNCHANGED <<mark, present, wasPresent, heard, dislikes>>
  PROVE  WavesInv'
<1>1. \A q \in Visits : wave'[q] = IF q = r THEN k ELSE wave[q]
  BY DEF WavesInv, WavesTypeOK
<1>2. WavesTypeOK' /\ MarksFit' BY DEF WavesInv, WavesTypeOK, MarksFit
<1>3. \A q \in Visits : KeepsOut(wave[q])' /\ WasThere(wave[q], wasPresent)'
  BY <1>1 DEF WavesInv, KeepsOut, WasThere, OneByOne, HatedAllKnown
<1> QED BY <1>2, <1>3 DEF WavesInv

LEMMA WaveEnds ==
  ASSUME WavesInv, NEW r \in Visits, wave' = [wave EXCEPT ![r] = NoWave],
         UNCHANGED <<mark, present, wasPresent, heard, dislikes>>
  PROVE  WavesInv'
BY NoWaveFits, WaveMoves

(* The same in the form the actions have. *)
LEMMA WaveSet ==
  ASSUME WavesInv, NEW r \in Visits, NEW w \in WaveRows, NEW pc \in WaveSteps, Set(r, w, pc),
         KeepsOut([w EXCEPT !.pc = pc]), WasThere([w EXCEPT !.pc = pc], wasPresent),
         UNCHANGED <<mark, present, wasPresent, heard, dislikes>>
  PROVE  WavesInv'
<1>1. [w EXCEPT !.pc = pc] \in WaveRows BY DEF WaveRows
<1> QED BY <1>1, WaveMoves DEF Set

LEMMA AWave ==
  ASSUME WavesInv, NEW r \in Visits
  PROVE  /\ wave[r] \in WaveRows /\ KeepsOut(wave[r]) /\ WasThere(wave[r], wasPresent)
         /\ heard \subseteq Tunes /\ dislikes \subseteq Tunes /\ IsFiniteSet(dislikes)
BY DEF WavesInv, WavesTypeOK

-----------------------------------------------------------------------------
(* The home wave up to its clusters. *)

LEMMA SignalSteps ==
  ASSUME WavesInv, NEW r \in Visits, StartHome(r) \/ LoadSignals(r) \/ Contexts(r)
  PROVE  WavesInv'
<1> DEFINE w == wave[r]
<1>1. UNCHANGED <<mark, present, wasPresent, heard, dislikes>>
  BY DEF StartHome, LoadSignals, Contexts, Reads, userVars, fileVars
<1>2. CASE StartHome(r)
  <2>1. PICK k : k = [NoWave EXCEPT !.kind = "home"] OBVIOUS
  <2>2. PICK pc \in WaveSteps : pc = "signals" BY DEF WaveSteps
  <2>3. k \in WaveRows BY <2>1, NoWaveFits DEF WaveRows
  <2>4. KeepsOut([k EXCEPT !.pc = pc]) BY <2>1, <2>2 DEF NoWave, KeepsOut, Collecting
  <2>5. WasThere([k EXCEPT !.pc = pc], wasPresent) BY <2>1, <2>2 DEF NoWave, WasThere, OneByOne
  <2> QED BY <1>1, <1>2, <2>1, <2>2, <2>3, <2>4, <2>5, WaveSet DEF StartHome
<1>3. CASE LoadSignals(r)
  <2>1. w \in WaveRows /\ w.kind = "home" /\ w.pc = "signals" /\ KeepsOut(w) /\ WasThere(w, wasPresent)
    BY <1>3, AWave DEF LoadSignals, Only
  <2>2. ASSUME NEW plays \in SUBSET Tunes, NEW hates \in SUBSET Tunes, NEW known \in BOOLEAN,
               known /\ Cardinality(dislikes) <= DislikeLimit => hates = dislikes,
               Signals(r, plays, hates, known)
        PROVE  WavesInv'
    <3>1. PICK k : k = [w EXCEPT !.ban = plays \cup hates, !.hated = dislikes, !.known = known] OBVIOUS
    <3>2. PICK pc \in WaveSteps : pc = IF plays \cup hates = {} THEN "cold" ELSE "contexts"
      BY DEF WaveSteps, Collecting
    <3>3. Set(r, k, pc) BY <2>2, <3>1, <3>2 DEF Signals
    <3>4. dislikes \in SUBSET Tunes BY AWave
    <3>5. k \in WaveRows BY <2>1, <3>1, <3>4 DEF WaveRows
    <3>6. PICK n : n = [k EXCEPT !.pc = pc] OBVIOUS
    <3>7. /\ n.kind = "home" /\ n.pc = pc /\ n.ban = plays \cup hates /\ n.hated = dislikes
          /\ n.known = known /\ n.shown = w.shown /\ n.found = w.found /\ n.predicted = w.predicted
      BY <2>1, <3>1, <3>5, <3>6 DEF WaveRows
    <3>8. KeepsOut(n) BY <2>1, <2>2, <3>2, <3>7 DEF KeepsOut, HatedAllKnown, Collecting
    <3>9. WasThere(n, wasPresent) BY <2>1, <3>2, <3>7 DEF WasThere, OneByOne
    <3> QED BY <1>1, <3>3, <3>5, <3>6, <3>8, <3>9, WaveSet
  <2>3. CASE \E plays \in Latest(heard, PlayedLimit), hates \in Latest(dislikes, DislikeLimit) :
               Signals(r, plays, hates, TRUE)
    <3>1. PICK plays \in Latest(heard, PlayedLimit), hates \in Latest(dislikes, DislikeLimit) :
            Signals(r, plays, hates, TRUE)
      BY <2>3
    <3>2. plays \in SUBSET Tunes /\ hates \in SUBSET Tunes BY AWave DEF Latest
    <3>3. Cardinality(dislikes) <= DislikeLimit => hates = dislikes
      BY LatestIsAll, AWave, WavesAssumption
    <3>4. PICK known \in BOOLEAN : known = TRUE OBVIOUS
    <3>5. Signals(r, plays, hates, known) BY <3>1, <3>4
    <3> QED BY <2>2, <3>2, <3>3, <3>5
  <2>4. CASE \E plays \in Latest(heard, PlayedLimit) : Signals(r, plays, {}, FALSE)
    <3>1. PICK plays \in Latest(heard, PlayedLimit) : Signals(r, plays, {}, FALSE) BY <2>4
    <3>2. plays \in SUBSET Tunes BY AWave DEF Latest
    <3>3. PICK known \in BOOLEAN : known = FALSE OBVIOUS
    <3>4. PICK hates \in SUBSET Tunes : hates = {} OBVIOUS
    <3>5. Signals(r, plays, hates, known) BY <3>1, <3>3, <3>4
    <3> QED BY <2>2, <3>2, <3>3, <3>5
  <2> QED BY <1>1, <1>3, <2>3, <2>4, WaveEnds DEF LoadSignals
<1>4. CASE Contexts(r)
  <2>1. w \in WaveRows /\ w.kind = "home" /\ w.pc = "contexts" /\ KeepsOut(w) /\ WasThere(w, wasPresent)
    BY <1>4, AWave DEF Contexts, Only
  <2>2. PICK m \in BOOLEAN, c \in BOOLEAN :
          Set(r, [Reserve(w, w.ban) EXCEPT !.modes = m, !.centroid = c], "foryou")
    BY <1>4 DEF Contexts, TasteModes, SessionContext, HourContext, MixCentroids
  <2>3. PICK k : k = [Reserve(w, w.ban) EXCEPT !.modes = m, !.centroid = c] OBVIOUS
  <2>4. PICK pc \in WaveSteps : pc = "foryou" BY DEF WaveSteps, Collecting
  <2>5. k \in WaveRows BY <2>1, <2>3 DEF WaveRows, Reserve
  <2>6. PICK n : n = [k EXCEPT !.pc = pc] OBVIOUS
  <2>7. /\ n.kind = "home" /\ n.pc = pc /\ n.ban = w.ban /\ n.hated = w.hated /\ n.known = w.known
        /\ n.shown = w.shown /\ n.found = w.found /\ n.predicted = w.predicted
        /\ n.taken = w.taken \cup w.ban
    BY <2>1, <2>3, <2>5, <2>6 DEF WaveRows, Reserve
  <2>8. KeepsOut(n) BY <2>1, <2>4, <2>7 DEF KeepsOut, HatedAllKnown, Collecting
  <2>9. WasThere(n, wasPresent) BY <2>1, <2>4, <2>7 DEF WasThere, OneByOne
  <2> QED BY <1>1, <2>2, <2>3, <2>4, <2>5, <2>6, <2>8, <2>9, WaveSet
<1> QED BY <1>2, <1>3, <1>4

-----------------------------------------------------------------------------
(* The clusters. *)

LEMMA PushedWave ==
  ASSUME NEW w \in WaveRows, NEW ts \in SUBSET Tunes
  PROVE  /\ Pushed(w, ts) \in WaveRows /\ Reserve(w, ts) \in WaveRows
         /\ Pushed(w, ts) = [w EXCEPT !.taken = w.taken \cup ts, !.shown = w.shown \cup ts]
         /\ Pushed(w, ts).shown = w.shown \cup ts /\ Pushed(w, ts).kind = w.kind
         /\ Pushed(w, ts).hated = w.hated /\ Pushed(w, ts).known = w.known
         /\ Reserve(w, ts).kind = w.kind /\ Reserve(w, ts).hated = w.hated
BY DEF WaveRows, Pushed, Reserve

LEMMA ClusterStep ==
  ASSUME WavesInv, NEW r \in Visits, wave[r].kind = "home", NEW ts \in SUBSET Tunes,
         NEW pc \in {"top", "adjacent", "fresh", "vibe", "quality"},
         Set(r, Pushed(wave[r], ts), pc),
         \/ wave[r].pc \in Collecting \ {"contexts"} /\ ts \cap wave[r].ban = {}
         \/ wave[r].pc = "cold" /\ pc = "quality",
         UNCHANGED <<mark, present, wasPresent, heard, dislikes>>
  PROVE  WavesInv'
<1> DEFINE w == wave[r]
<1>1. w \in WaveRows /\ KeepsOut(w) /\ WasThere(w, wasPresent) BY AWave
<1>2. PICK k : k = Pushed(w, ts) OBVIOUS
<1>3. PICK n : n = [k EXCEPT !.pc = pc] OBVIOUS
<1>4. k \in WaveRows /\ k = [w EXCEPT !.taken = w.taken \cup ts, !.shown = w.shown \cup ts]
  BY <1>1, <1>2, PushedWave
<1>5. /\ n.kind = "home" /\ n.pc = pc /\ n.ban = w.ban /\ n.hated = w.hated /\ n.known = w.known
      /\ n.shown = w.shown \cup ts /\ n.taken = w.taken \cup ts /\ n.found = w.found
      /\ n.predicted = w.predicted
  BY <1>1, <1>3, <1>4 DEF WaveRows
<1>6. KeepsOut(n) BY <1>1, <1>5 DEF KeepsOut, HatedAllKnown, Collecting
<1>7. WasThere(n, wasPresent) BY <1>1, <1>5 DEF WasThere, OneByOne
<1>8. pc \in WaveSteps BY DEF WaveSteps, Collecting
<1> QED BY <1>2, <1>3, <1>4, <1>6, <1>7, <1>8, WaveSet

LEMMA RawsAreTunes ==
  ASSUME NEW out, NEW raw \in OnePerArtist(out)
  PROVE  {raw[m] : m \in DOMAIN raw} \in SUBSET Tunes
BY DEF OnePerArtist

LEMMA ClusterSteps ==
  ASSUME WavesInv, NEW r \in Visits,
         ColdStart(r) \/ ForYou(r) \/ TopArtists(r) \/ AdjacentArtists(r) \/ FreshDrops(r) \/ VibeAndDeep(r)
  PROVE  WavesInv'
<1> DEFINE w == wave[r]
<1>1. UNCHANGED <<mark, present, wasPresent, heard, dislikes>>
  BY DEF ColdStart, ForYou, TopArtists, AdjacentArtists, NeighborCluster, FreshDrops, VibeAndDeep,
     Reads, userVars, fileVars
<1>2. w \in WaveRows /\ w.kind = "home" /\ KeepsOut(w)
  BY AWave DEF ColdStart, ForYou, TopArtists, AdjacentArtists, NeighborCluster, FreshDrops,
     VibeAndDeep, Only
<1>3. CASE ColdStart(r)
  <2>1. PICK c \in SUBSET Tunes : Set(r, Pushed(w, c), "quality") /\ w.pc = "cold"
    BY <1>3 DEF ColdStart, Cluster, Only
  <2> QED BY <1>1, <1>2, <2>1, ClusterStep
<1>4. CASE ForYou(r)
  <2>1. w.pc = "foryou" BY <1>4 DEF ForYou, Only
  <2>2. CASE ~w.modes
    <3>1. Set(r, w, "top") BY <1>4, <2>2 DEF ForYou
    <3>2. PICK ts \in SUBSET Tunes : ts = {} OBVIOUS
    <3>3. Pushed(w, ts) = w BY <1>2, <3>2 DEF Pushed, WaveRows
    <3>4. Set(r, Pushed(w, ts), "top") BY <3>1, <3>3
    <3> QED BY <1>1, <1>2, <2>1, <3>2, <3>4, ClusterStep DEF Collecting
  <2>3. CASE w.modes
    <3>1. PICK c \in SUBSET (Tunes \ w.ban) : Set(r, Pushed(w, c), "top")
      BY <1>4, <2>3 DEF ForYou, Cluster, Found, FilterAgainstAnti
    <3> QED BY <1>1, <1>2, <2>1, <3>1, ClusterStep DEF Collecting
  <2> QED BY <2>2, <2>3
<1>5. ASSUME NEW pc \in {"top", "adjacent"}, NEW next \in {"adjacent", "fresh"},
             NeighborCluster(r, pc, next)
      PROVE  WavesInv'
  <2>1. PICK raw \in OnePerArtist(w.taken) : Set(r, Pushed(w, DedupeNeighbors(raw, w.taken)), next)
    BY <1>5 DEF NeighborCluster
  <2>2. w.pc = pc BY <1>5 DEF NeighborCluster, Only
  <2>3. PICK ts : ts = DedupeNeighbors(raw, w.taken) OBVIOUS
  <2>4. ts \in SUBSET Tunes /\ ts \cap w.taken = {} BY <2>1, <2>3, RawsAreTunes DEF DedupeNeighbors
  <2>5. w.ban \subseteq w.taken BY <1>2, <2>2 DEF KeepsOut, Collecting
  <2> QED BY <1>1, <1>2, <2>1, <2>2, <2>3, <2>4, <2>5, ClusterStep DEF Collecting
<1>6. CASE FreshDrops(r)
  <2>1. PICK c \in SUBSET (Tunes \ w.taken) : Set(r, Pushed(w, c), "vibe") /\ w.pc = "fresh"
    BY <1>6 DEF FreshDrops, Cluster, Only
  <2>2. w.ban \subseteq w.taken BY <1>2, <2>1 DEF KeepsOut, Collecting
  <2> QED BY <1>1, <1>2, <2>1, <2>2, ClusterStep DEF Collecting
<1>7. CASE VibeAndDeep(r)
  <2>1. w.pc = "vibe" BY <1>7 DEF VibeAndDeep, Only
  <2>2. w.ban \subseteq w.taken BY <1>2, <2>1 DEF KeepsOut, Collecting
  <2>3. PICK pool \in SUBSET Tunes :
          \/ wave' = [wave EXCEPT ![r] = NoWave]
          \/ \E vibe \in SUBSET (pool \ w.taken) : \E deep \in SUBSET ((pool \ w.taken) \ vibe) :
               Set(r, Pushed(w, vibe \cup deep), "quality")
    BY <1>7 DEF VibeAndDeep, Found, Cluster
  <2>4. CASE wave' = [wave EXCEPT ![r] = NoWave] BY <1>1, <2>4, WaveEnds
  <2>5. CASE \E vibe \in SUBSET (pool \ w.taken) : \E deep \in SUBSET ((pool \ w.taken) \ vibe) :
               Set(r, Pushed(w, vibe \cup deep), "quality")
    <3>1. PICK ts \in SUBSET (Tunes \ w.taken) : Set(r, Pushed(w, ts), "quality")
      BY <2>3, <2>5
    <3> QED BY <1>1, <1>2, <2>1, <2>2, <3>1, ClusterStep DEF Collecting
  <2> QED BY <2>3, <2>4, <2>5
<1> QED BY <1>3, <1>4, <1>5, <1>6, <1>7 DEF TopArtists, AdjacentArtists

LEMMA BuiltStep ==
  ASSUME WavesInv, NEW r \in Visits, NEW w \in WaveRows, NEW ts \in SUBSET Tunes,
         w.kind \in {"home", "artist", "similar"}, w.kind # "home" => w.hated = {},
         HatedAllKnown(w) => w.hated \cap ts = {}, Set(r, Built(w, ts), "marks"),
         UNCHANGED <<mark, present, wasPresent, heard, dislikes>>
  PROVE  WavesInv'
<1>1. PICK k : k = Built(w, ts) OBVIOUS
<1>2. PICK pc \in WaveSteps : pc = "marks" BY DEF WaveSteps
<1>3. /\ k \in WaveRows
      /\ k = [NoWave EXCEPT !.kind = w.kind, !.shown = ts, !.batch = ts, !.hated = w.hated, !.known = w.known]
  BY <1>1, NoWaveFits DEF Built, WaveRows
<1>4. PICK n : n = [k EXCEPT !.pc = pc] OBVIOUS
<1>5. /\ n.kind = w.kind /\ n.pc = "marks" /\ n.ban = {} /\ n.hated = w.hated /\ n.known = w.known
      /\ n.shown = ts /\ n.batch = ts /\ n.taken = {} /\ n.found = {} /\ n.predicted = {}
  BY <1>2, <1>3, <1>4 DEF NoWave
<1>6. KeepsOut(n) BY <1>5 DEF KeepsOut, HatedAllKnown, Collecting
<1>7. WasThere(n, wasPresent) BY <1>5 DEF WasThere, OneByOne
<1> QED BY <1>1, <1>2, <1>3, <1>4, <1>6, <1>7, WaveSet

LEMMA BuiltSteps ==
  ASSUME WavesInv, NEW r \in Visits,
         \/ QualityFilter(r) \/ \E a \in Makers : ArtistWave(r, a)
         \/ \E t \in Tunes : SimilarWave(r, t)
  PROVE  WavesInv'
<1>1. CASE QualityFilter(r)
  <2>1. wave[r] \in WaveRows /\ KeepsOut(wave[r]) /\ wave[r].kind = "home"
    BY <1>1, AWave DEF QualityFilter, Only
  <2>2. UNCHANGED <<mark, present, wasPresent, heard, dislikes>>
    BY <1>1 DEF QualityFilter, Reads, userVars, fileVars
  <2>3. PICK ts \in SUBSET wave[r].shown : Set(r, Built(wave[r], ts), "marks")
    BY <1>1 DEF QualityFilter
  <2>4. ts \in SUBSET Tunes BY <2>1 DEF WaveRows
  <2>5. HatedAllKnown(wave[r]) => wave[r].hated \cap ts = {} BY <2>1 DEF KeepsOut
  <2> QED BY <2>1, <2>2, <2>3, <2>4, <2>5, BuiltStep
<1>2. ASSUME NEW a \in Makers, ArtistWave(r, a) PROVE WavesInv'
  <2>1. UNCHANGED <<mark, present, wasPresent, heard, dislikes>>
    BY <1>2 DEF ArtistWave, Reads, userVars, fileVars
  <2>2. PICK essence \in Cluster(By(a)), vibe \in DeepCluster(a), deep \in DeepCluster(a),
             raw \in RelatedArtists :
         /\ By(a) # {}
         /\ LET start == [Reserve(NoWave, By(a)) EXCEPT !.kind = "artist"]
                first == Pushed(Pushed(start, essence), vibe)
                near  == Pushed(first, {raw[m] : m \in DOMAIN raw} \ first.taken)
                whole == Pushed(near, deep \ near.taken) IN
            Set(r, Built(whole, whole.shown), "marks")
    BY <1>2 DEF ArtistWave
  <2> DEFINE start == [Reserve(NoWave, By(a)) EXCEPT !.kind = "artist"]
             zero  == Pushed(start, essence)
             first == Pushed(zero, vibe)
             raws  == {raw[m] : m \in DOMAIN raw} \ first.taken
             near  == Pushed(first, raws)
             whole == Pushed(near, deep \ near.taken)
  <2>3. /\ By(a) \in SUBSET Tunes /\ essence \in SUBSET Tunes /\ vibe \in SUBSET Tunes
        /\ deep \in SUBSET Tunes /\ raws \in SUBSET Tunes
    BY RawsAreTunes DEF By, Cluster, DeepCluster, RelatedArtists
  <2>4. start \in WaveRows /\ start.kind = "artist" /\ start.hated = {}
    <3>1. Reserve(NoWave, By(a)) \in WaveRows /\ Reserve(NoWave, By(a)).hated = {}
      BY <2>3, NoWaveFits, PushedWave DEF NoWave
    <3> QED BY <3>1 DEF WaveRows
  <2> HIDE DEF start
  <2>5. zero \in WaveRows /\ zero.kind = "artist" /\ zero.hated = {} BY <2>3, <2>4, PushedWave
  <2> HIDE DEF zero
  <2>6. first \in WaveRows /\ first.kind = "artist" /\ first.hated = {} BY <2>3, <2>5, PushedWave
  <2> HIDE DEF first, raws
  <2>7. near \in WaveRows /\ near.kind = "artist" /\ near.hated = {} BY <2>3, <2>6, PushedWave
  <2> HIDE DEF near
  <2>8. deep \ near.taken \in SUBSET Tunes BY <2>3
  <2>9. whole \in WaveRows /\ whole.kind = "artist" /\ whole.hated = {} BY <2>7, <2>8, PushedWave
  <2>10. Set(r, Built(whole, whole.shown), "marks") BY <2>2 DEF start, zero, first, raws, near
  <2> HIDE DEF whole
  <2>11. whole.shown \in SUBSET Tunes BY <2>9 DEF WaveRows
  <2> QED BY <2>1, <2>9, <2>10, <2>11, BuiltStep
<1>3. ASSUME NEW t \in Tunes, SimilarWave(r, t) PROVE WavesInv'
  <2>1. UNCHANGED <<mark, present, wasPresent, heard, dislikes>>
    BY <1>3 DEF SimilarWave, Reads, userVars, fileVars
  <2>2. PICK same \in SameArtist(t), vibe \in VibePool(t), fans \in VibePool(t), raw \in FeaturedWith(t) :
         LET start == [Reserve(NoWave, {t}) EXCEPT !.kind = "similar"]
             first == Pushed(start, same)
             other == Pushed(first, vibe \ first.taken)
             near  == Pushed(other, {raw[m] : m \in DOMAIN raw} \ other.taken)
             whole == Pushed(near, fans \ near.taken) IN
         Set(r, Built(whole, whole.shown), "marks")
    BY <1>3 DEF SimilarWave
  <2> DEFINE start == [Reserve(NoWave, {t}) EXCEPT !.kind = "similar"]
             first == Pushed(start, same)
             vibes == vibe \ first.taken
             other == Pushed(first, vibes)
             raws  == {raw[m] : m \in DOMAIN raw} \ other.taken
             near  == Pushed(other, raws)
             whole == Pushed(near, fans \ near.taken)
  <2>3. /\ {t} \in SUBSET Tunes /\ same \in SUBSET Tunes /\ vibes \in SUBSET Tunes
        /\ fans \in SUBSET Tunes /\ raws \in SUBSET Tunes
    BY RawsAreTunes DEF By, Cluster, SameArtist, VibePool, FeaturedWith
  <2>4. start \in WaveRows /\ start.kind = "similar" /\ start.hated = {}
    <3>1. Reserve(NoWave, {t}) \in WaveRows /\ Reserve(NoWave, {t}).hated = {}
      BY <2>3, NoWaveFits, PushedWave DEF NoWave
    <3> QED BY <3>1 DEF WaveRows
  <2> HIDE DEF start
  <2>5. first \in WaveRows /\ first.kind = "similar" /\ first.hated = {} BY <2>3, <2>4, PushedWave
  <2> HIDE DEF first, vibes
  <2>6. other \in WaveRows /\ other.kind = "similar" /\ other.hated = {} BY <2>3, <2>5, PushedWave
  <2> HIDE DEF other, raws
  <2>7. near \in WaveRows /\ near.kind = "similar" /\ near.hated = {} BY <2>3, <2>6, PushedWave
  <2> HIDE DEF near
  <2>8. fans \ near.taken \in SUBSET Tunes BY <2>3
  <2>9. whole \in WaveRows /\ whole.kind = "similar" /\ whole.hated = {} BY <2>7, <2>8, PushedWave
  <2>10. Set(r, Built(whole, whole.shown), "marks") BY <2>2 DEF start, first, vibes, other, raws, near
  <2> HIDE DEF whole
  <2>11. whole.shown \in SUBSET Tunes BY <2>9 DEF WaveRows
  <2> QED BY <2>1, <2>9, <2>10, <2>11, BuiltStep
<1> QED BY <1>1, <1>2, <1>3

-----------------------------------------------------------------------------
(* find_missing. *)

LEMMA MarkingMoves ==
  ASSUME WavesInv, NEW r \in Visits, NEW k \in WaveRows, KeepsOut(k), WasThere(k, wasPresent),
         wave' = [wave EXCEPT ![r] = k], UNCHANGED <<present, wasPresent, heard, dislikes>>,
         mark' \in [Tunes -> {"new", "ok", "miss", "old"}], MarksFit'
  PROVE  WavesInv'
<1>1. \A q \in Visits : wave'[q] = IF q = r THEN k ELSE wave[q]
  BY DEF WavesInv, WavesTypeOK
<1>2. WavesTypeOK' BY DEF WavesInv, WavesTypeOK
<1>3. \A q \in Visits : KeepsOut(wave[q])' /\ WasThere(wave[q], wasPresent)'
  BY <1>1 DEF WavesInv, KeepsOut, WasThere, OneByOne, HatedAllKnown
<1> QED BY <1>2, <1>3 DEF WavesInv

LEMMA Onward ==
  ASSUME NEW k \in WaveRows, NEW pc \in WaveSteps, NEW n, n = [k EXCEPT !.pc = pc]
  PROVE  /\ n \in WaveRows /\ n.pc = pc /\ n.kind = k.kind /\ n.predicted = k.predicted
         /\ n.ban = k.ban /\ n.taken = k.taken /\ n.rest = k.rest /\ n.hated = k.hated
         /\ n.known = k.known /\ n.shown = k.shown /\ n.batch = k.batch /\ n.loose = k.loose
         /\ n.missing = k.missing /\ n.found = k.found /\ n.todo = k.todo
BY DEF WaveRows

(* What find_missing writes of a request: no more than it asks for goes    *)
(* out, and what KeepsOut speaks of stays but what is shown.               *)
LEMMA FindKeepsOut ==
  ASSUME NEW w \in WaveRows, NEW n \in WaveRows, KeepsOut(w),
         w.pc \in {"marks", "probe", "absent", "drop"},
         n.pc \in {"probe", "absent", "drop", "verified", "answer"},
         n.kind = w.kind, n.predicted = w.predicted, n.ban = w.ban, n.rest = w.rest,
         n.hated = w.hated, n.known = w.known, n.shown \subseteq w.shown,
         n.batch \subseteq w.batch
  PROVE  KeepsOut(n)
BY DEF KeepsOut, HatedAllKnown, Collecting

LEMMA FindSteps ==
  ASSUME WavesInv, NEW r \in Visits, FindStep(r)
  PROVE  WavesInv'
<1> DEFINE w == wave[r]
<1>1. w \in WaveRows /\ KeepsOut(w) /\ WasThere(w, wasPresent) BY AWave
<1>2. UNCHANGED <<present, wasPresent, heard, dislikes>>
  BY DEF FindStep, ReadMarks, Probe, MarkFound, MarkAbsent, FindFails, DropMissing, Reads,
     userVars, fileVars
<1>3. mark \in [Tunes -> {"new", "ok", "miss", "old"}] /\ MarksFit /\ present \subseteq wasPresent
  BY DEF WavesInv, WavesTypeOK
<1>4. CASE ReadMarks(r)
  <2>1. PICK k : k = [w EXCEPT !.missing = Believed(w.batch), !.found = {},
                             !.todo = {t \in w.batch : mark[t] \in {"new", "old"}}]
    OBVIOUS
  <2>2. Set(r, k, "probe") /\ w.pc = "marks" /\ mark' = mark BY <1>4, <2>1 DEF ReadMarks, Reads
  <2>3. w.batch \in SUBSET Tunes BY <1>1 DEF WaveRows
  <2>4. k \in WaveRows BY <1>1, <2>1, <2>3 DEF WaveRows, Believed
  <2>5. PICK n : n = [k EXCEPT !.pc = "probe"] OBVIOUS
  <2>6. /\ n \in WaveRows /\ n.pc = "probe" /\ n.kind = w.kind /\ n.predicted = w.predicted
        /\ n.ban = w.ban /\ n.rest = w.rest /\ n.hated = w.hated /\ n.known = w.known
        /\ n.shown = w.shown /\ n.batch = w.batch /\ n.found = {} /\ n.loose = w.loose
        /\ n.missing = {t \in w.batch : mark[t] = "miss"}
        /\ n.todo = {t \in w.batch : mark[t] \in {"new", "old"}}
    <3>1. /\ k.kind = w.kind /\ k.predicted = w.predicted /\ k.ban = w.ban /\ k.rest = w.rest
          /\ k.hated = w.hated /\ k.known = w.known
          /\ k.shown = w.shown /\ k.batch = w.batch /\ k.loose = w.loose /\ k.found = {}
          /\ k.missing = {t \in w.batch : mark[t] = "miss"}
          /\ k.todo = {t \in w.batch : mark[t] \in {"new", "old"}}
      BY <1>1, <2>1 DEF WaveRows, Believed
    <3>2. "probe" \in WaveSteps BY DEF WaveSteps
    <3> QED BY <2>4, <2>5, <3>1, <3>2, Onward
  <2>7. KeepsOut(n) BY <1>1, <2>2, <2>6, FindKeepsOut
  <2>8. w.batch \subseteq n.todo \cup n.missing \cup wasPresent
    BY <1>3, <2>3, <2>6 DEF MarksFit
  <2>9. WasThere(n, wasPresent) BY <1>1, <2>2, <2>6, <2>8 DEF WasThere, OneByOne
  <2> QED BY <1>2, <2>2, <2>5, <2>6, <2>7, <2>9, WaveMoves DEF Set
<1>5. ASSUME NEW t \in Tunes, Probe(r, t) PROVE WavesInv'
  <2>1. w.pc = "probe" /\ t \in w.todo /\ mark' = mark BY <1>5 DEF Probe, Reads
  <2>2. PICK k : /\ Set(r, k, "probe")
                 /\ \/ k = [w EXCEPT !.todo = @ \ {t}, !.found = @ \cup {t}] /\ t \in present
                    \/ k = [w EXCEPT !.todo = @ \ {t}, !.missing = @ \cup {t}]
    BY <1>5 DEF Probe
  <2>3. k \in WaveRows
    <3>1. CASE k = [w EXCEPT !.todo = @ \ {t}, !.found = @ \cup {t}] BY <1>1, <3>1 DEF WaveRows
    <3>2. CASE k = [w EXCEPT !.todo = @ \ {t}, !.missing = @ \cup {t}] BY <1>1, <3>2 DEF WaveRows
    <3> QED BY <2>2, <3>1, <3>2
  <2>4. PICK n : n = [k EXCEPT !.pc = "probe"] OBVIOUS
  <2>5. /\ n \in WaveRows /\ n.pc = "probe" /\ n.kind = w.kind /\ n.predicted = w.predicted
        /\ n.ban = w.ban /\ n.rest = w.rest /\ n.hated = w.hated /\ n.known = w.known
        /\ n.shown = w.shown /\ n.batch = w.batch /\ n.loose = w.loose
        /\ n.todo = w.todo \ {t}
        /\ \/ n.missing = w.missing /\ n.found = w.found \cup {t} /\ t \in present
           \/ n.missing = w.missing \cup {t} /\ n.found = w.found
    BY <1>1, <2>2, <2>3, <2>4 DEF WaveRows, WaveSteps
  <2>6. KeepsOut(n) BY <1>1, <2>1, <2>5, FindKeepsOut
  <2>7. WasThere(n, wasPresent) BY <1>1, <1>3, <2>1, <2>5 DEF WasThere, OneByOne
  <2> QED BY <1>2, <2>1, <2>2, <2>4, <2>5, <2>6, <2>7, WaveMoves DEF Set
<1>6. CASE MarkFound(r)
  <2>1. /\ w.pc = "probe" /\ w.todo = {} /\ Set(r, w, "absent")
        /\ mark' = [t \in Tunes |-> IF t \in w.found THEN "ok" ELSE mark[t]]
    BY <1>6 DEF MarkFound
  <2>2. PICK n : n = [w EXCEPT !.pc = "absent"] OBVIOUS
  <2>3. /\ n \in WaveRows /\ n.pc = "absent" /\ n.kind = w.kind /\ n.predicted = w.predicted
        /\ n.ban = w.ban /\ n.rest = w.rest /\ n.hated = w.hated /\ n.known = w.known
        /\ n.shown = w.shown /\ n.batch = w.batch /\ n.loose = w.loose
        /\ n.missing = w.missing /\ n.found = w.found
    BY <1>1, <2>2 DEF WaveRows, WaveSteps
  <2>4. KeepsOut(n) BY <1>1, <2>1, <2>3, FindKeepsOut
  <2>5. WasThere(n, wasPresent) BY <1>1, <2>1, <2>3 DEF WasThere, OneByOne
  <2>6. mark' \in [Tunes -> {"new", "ok", "miss", "old"}] BY <1>3, <2>1
  <2>7. MarksFit' BY <1>1, <1>2, <1>3, <2>1 DEF MarksFit, WasThere
  <2>8. wave' = [wave EXCEPT ![r] = n] BY <2>1, <2>2 DEF Set
  <2> QED BY <1>2, <2>3, <2>4, <2>5, <2>6, <2>7, <2>8, MarkingMoves
<1>7. CASE MarkAbsent(r)
  <2>1. PICK pc : pc = IF w.kind \in {"tail", "search"} THEN "verified" ELSE "drop" OBVIOUS
  <2>2. /\ w.pc = "absent" /\ Set(r, [w EXCEPT !.found = {}], pc)
        /\ mark' = [t \in Tunes |-> IF t \in Absent(r) THEN "miss" ELSE mark[t]]
    BY <1>7, <2>1 DEF MarkAbsent
  <2>3. PICK k : k = [w EXCEPT !.found = {}] OBVIOUS
  <2>4. k \in WaveRows BY <1>1, <2>3 DEF WaveRows
  <2>5. PICK n : n = [k EXCEPT !.pc = pc] OBVIOUS
  <2>6. /\ n \in WaveRows /\ n.pc = pc /\ n.kind = w.kind /\ n.predicted = w.predicted
        /\ n.ban = w.ban /\ n.rest = w.rest /\ n.hated = w.hated /\ n.known = w.known
        /\ n.shown = w.shown /\ n.batch = w.batch /\ n.loose = w.loose
        /\ n.missing = w.missing /\ n.found = {}
    <3>1. /\ k.kind = w.kind /\ k.predicted = w.predicted /\ k.ban = w.ban /\ k.rest = w.rest
          /\ k.hated = w.hated /\ k.known = w.known
          /\ k.shown = w.shown /\ k.batch = w.batch /\ k.loose = w.loose /\ k.found = {}
          /\ k.missing = w.missing
      BY <1>1, <2>3 DEF WaveRows, Believed
    <3>2. pc \in WaveSteps BY <2>1 DEF WaveSteps
    <3> QED BY <2>4, <2>5, <3>1, <3>2, Onward
  <2>7. KeepsOut(n) BY <1>1, <2>1, <2>2, <2>6, FindKeepsOut
  <2>8. WasThere(n, wasPresent) BY <1>1, <2>1, <2>2, <2>6 DEF WasThere, OneByOne
  <2>9. mark' \in [Tunes -> {"new", "ok", "miss", "old"}] BY <1>3, <2>2
  <2>10. MarksFit' BY <1>2, <1>3, <2>2 DEF MarksFit
  <2>11. wave' = [wave EXCEPT ![r] = n] BY <2>2, <2>3, <2>5 DEF Set
  <2> QED BY <1>2, <2>6, <2>7, <2>8, <2>9, <2>10, <2>11, MarkingMoves
<1>8. CASE FindFails(r)
  <2>1. w.pc \in {"marks", "probe", "absent"} /\ mark' = mark BY <1>8 DEF FindFails, Reads
  <2>2. CASE OneByOne(w)
    <3>1. wave' = [wave EXCEPT ![r] = NoWave] BY <1>8, <2>2 DEF FindFails, OneByOne
    <3> QED BY <1>2, <2>1, <3>1, WaveEnds
  <2>3. CASE ~OneByOne(w)
    <3>1. PICK k : k = [w EXCEPT !.missing = {}, !.loose = w.shown] OBVIOUS
    <3>2. Set(r, k, "drop") BY <1>8, <2>3, <3>1 DEF FindFails, OneByOne
    <3>3. k \in WaveRows BY <1>1, <3>1 DEF WaveRows
    <3>4. PICK n : n = [k EXCEPT !.pc = "drop"] OBVIOUS
    <3>5. /\ n \in WaveRows /\ n.pc = "drop" /\ n.kind = w.kind /\ n.predicted = w.predicted
          /\ n.ban = w.ban /\ n.rest = w.rest /\ n.hated = w.hated /\ n.known = w.known
          /\ n.shown = w.shown /\ n.batch = w.batch /\ n.loose = w.shown /\ n.found = w.found
      <4>1. /\ k.kind = w.kind /\ k.predicted = w.predicted /\ k.ban = w.ban /\ k.rest = w.rest
          /\ k.hated = w.hated /\ k.known = w.known
            /\ k.shown = w.shown /\ k.batch = w.batch /\ k.loose = w.shown /\ k.found = w.found
        BY <1>1, <3>1 DEF WaveRows, Believed
      <4>2. "drop" \in WaveSteps BY DEF WaveSteps
      <4> QED BY <3>3, <3>4, <4>1, <4>2, Onward
    <3>6. KeepsOut(n) BY <1>1, <2>1, <3>5, FindKeepsOut
    <3>7. WasThere(n, wasPresent) BY <1>1, <2>3, <3>5 DEF WasThere, OneByOne
    <3>8. wave' = [wave EXCEPT ![r] = n] BY <3>2, <3>4 DEF Set
    <3> QED BY <1>2, <2>1, <3>5, <3>6, <3>7, <3>8, WaveMoves
  <2> QED BY <2>2, <2>3
<1>9. CASE DropMissing(r)
  <2>1. PICK k : k = [w EXCEPT !.shown = @ \ w.missing, !.batch = {}, !.missing = {}] OBVIOUS
  <2>2. Set(r, k, "answer") /\ w.pc = "drop" /\ mark' = mark BY <1>9, <2>1 DEF DropMissing, Reads
  <2>3. k \in WaveRows BY <1>1, <2>1 DEF WaveRows
  <2>4. PICK n : n = [k EXCEPT !.pc = "answer"] OBVIOUS
  <2>5. /\ n \in WaveRows /\ n.pc = "answer" /\ n.kind = w.kind /\ n.predicted = w.predicted
        /\ n.ban = w.ban /\ n.rest = w.rest /\ n.hated = w.hated /\ n.known = w.known
        /\ n.shown = w.shown \ w.missing /\ n.batch = {} /\ n.loose = w.loose /\ n.found = w.found
    <3>1. /\ k.kind = w.kind /\ k.predicted = w.predicted /\ k.ban = w.ban /\ k.rest = w.rest
          /\ k.hated = w.hated /\ k.known = w.known
          /\ k.shown = w.shown \ w.missing /\ k.batch = {} /\ k.loose = w.loose /\ k.found = w.found
      BY <1>1, <2>1 DEF WaveRows, Believed
    <3>2. "answer" \in WaveSteps BY DEF WaveSteps
    <3> QED BY <2>3, <2>4, <3>1, <3>2, Onward
  <2>6. KeepsOut(n) BY <1>1, <2>2, <2>5, FindKeepsOut
  <2>7. WasThere(n, wasPresent) BY <1>1, <2>2, <2>5 DEF WasThere, OneByOne
  <2>8. wave' = [wave EXCEPT ![r] = n] BY <2>2, <2>4 DEF Set
  <2> QED BY <1>2, <2>2, <2>5, <2>6, <2>7, <2>8, WaveMoves
<1> QED BY <1>4, <1>5, <1>6, <1>7, <1>8, <1>9 DEF FindStep

-----------------------------------------------------------------------------
(* The tail and the search. *)

LEMMA TailKeepsOut ==
  ASSUME NEW w \in WaveRows, NEW n \in WaveRows, KeepsOut(w), OneByOne(w), w.pc # "answer",
         n.pc \in {"pool", "verify", "fallback", "merge", "marks", "answer"},
         n.kind = w.kind, n.ban = w.ban, n.hated = w.hated, n.known = w.known,
         n.kind # "tail" => n.predicted = {},
         n.kind = "tail" => (n.rest \cup n.batch \cup n.shown) \cap w.ban = {}
  PROVE  KeepsOut(n)
BY DEF KeepsOut, HatedAllKnown, Collecting, OneByOne

LEMMA TailBegins ==
  ASSUME WavesInv, NEW r \in Visits, SearchText(r) \/ \E t \in Tunes : StartTail(r, t)
  PROVE  WavesInv'
<1>1. UNCHANGED <<mark, present, wasPresent, heard, dislikes>>
  BY DEF SearchText, StartTail, Reads, userVars, fileVars
<1>2. CASE SearchText(r)
  <2>1. PICK pool \in SUBSET Tunes : Set(r, [NoWave EXCEPT !.kind = "search", !.rest = pool], "verify")
    BY <1>2 DEF SearchText, Found
  <2>2. PICK k : k = [NoWave EXCEPT !.kind = "search", !.rest = pool] OBVIOUS
  <2>3. k \in WaveRows BY <2>2, NoWaveFits DEF WaveRows
  <2>4. PICK n : n = [k EXCEPT !.pc = "verify"] OBVIOUS
  <2>5. /\ n.pc = "verify" /\ n.kind = "search" /\ n.hated = {} /\ n.predicted = {}
        /\ n.shown = {} /\ n.found = {}
    BY <2>2, <2>4 DEF NoWave
  <2>6. "verify" \in WaveSteps BY DEF WaveSteps
  <2>7. n \in WaveRows BY <2>3, <2>4, <2>6, Onward
  <2>8. KeepsOut(n) BY <2>5 DEF KeepsOut, Collecting
  <2>9. WasThere(n, wasPresent) BY <2>5 DEF WasThere, OneByOne
  <2> QED BY <1>1, <2>1, <2>2, <2>4, <2>7, <2>8, <2>9, WaveMoves DEF Set
<1>3. ASSUME NEW seed \in Tunes, StartTail(r, seed) PROVE WavesInv'
  <2>1. PICK plays \in Latest(heard, PlayedLimit), hates \in Latest(dislikes, DislikeLimit) :
          Set(r, [NoWave EXCEPT !.kind = "tail", !.ban = plays \cup hates \cup {seed},
                                !.taken = plays \cup {seed}, !.hated = dislikes], "sequence")
    BY <1>3 DEF StartTail
  <2>2. PICK k : k = [NoWave EXCEPT !.kind = "tail", !.ban = plays \cup hates \cup {seed},
                                  !.taken = plays \cup {seed}, !.hated = dislikes]
    OBVIOUS
  <2>3. plays \in SUBSET Tunes /\ hates \in SUBSET Tunes /\ dislikes \in SUBSET Tunes
    BY AWave DEF Latest
  <2>4. k \in WaveRows BY <2>2, <2>3, NoWaveFits DEF WaveRows
  <2>5. PICK n : n = [k EXCEPT !.pc = "sequence"] OBVIOUS
  <2>6. /\ n.pc = "sequence" /\ n.kind = "tail" /\ n.ban = plays \cup hates \cup {seed}
        /\ n.hated = dislikes /\ n.predicted = {} /\ n.shown = {} /\ n.found = {} /\ n.rest = {}
        /\ n.batch = {} /\ n.known = TRUE
    BY <2>2, <2>5 DEF NoWave
  <2>7. "sequence" \in WaveSteps BY DEF WaveSteps
  <2>8. n \in WaveRows BY <2>4, <2>5, <2>7, Onward
  <2>9. Cardinality(dislikes) <= DislikeLimit => hates = dislikes
    BY LatestIsAll, AWave, WavesAssumption
  <2>10. KeepsOut(n) BY <2>6, <2>9 DEF KeepsOut, Collecting, HatedAllKnown
  <2>11. WasThere(n, wasPresent) BY <2>6 DEF WasThere, OneByOne
  <2> QED BY <1>1, <2>1, <2>2, <2>5, <2>8, <2>10, <2>11, WaveMoves DEF Set
<1> QED BY <1>2, <1>3

LEMMA TailSteps ==
  ASSUME WavesInv, NEW r \in Visits, TailStep(r)
  PROVE  WavesInv'
<1> DEFINE w == wave[r]
<1>1. w \in WaveRows /\ KeepsOut(w) /\ WasThere(w, wasPresent) BY AWave
<1>2. UNCHANGED <<mark, present, wasPresent, heard, dislikes>>
  BY DEF TailStep, SequencePool, Fusion, TakeVerified, Verified, Fallback, Merge, Answer, Reads,
     userVars, fileVars
<1>3. CASE SequencePool(r)
  <2>1. PICK c \in SUBSET Tunes : Set(r, [w EXCEPT !.predicted = c], "pool")
    BY <1>3 DEF SequencePool
  <2>2. w.kind = "tail" /\ w.pc = "sequence" BY <1>3 DEF SequencePool, Only
  <2>3. PICK k : k = [w EXCEPT !.predicted = c] OBVIOUS
  <2>4. /\ k \in WaveRows /\ k.kind = "tail" /\ k.ban = w.ban /\ k.hated = w.hated /\ k.known = w.known
        /\ k.rest = w.rest /\ k.batch = w.batch /\ k.shown = w.shown /\ k.found = w.found
        /\ k.loose = w.loose
    BY <1>1, <2>2, <2>3 DEF WaveRows
  <2>5. "pool" \in WaveSteps BY DEF WaveSteps
  <2>6. PICK n : n = [k EXCEPT !.pc = "pool"] OBVIOUS
  <2>7. /\ n \in WaveRows /\ n.pc = "pool" /\ n.kind = "tail" /\ n.ban = w.ban /\ n.hated = w.hated
        /\ n.known = w.known /\ n.rest = w.rest /\ n.batch = w.batch /\ n.shown = w.shown
        /\ n.found = w.found /\ n.loose = w.loose
    BY <2>4, <2>5, <2>6, Onward
  <2>8. (n.rest \cup n.batch \cup n.shown) \cap w.ban = {} BY <1>1, <2>2, <2>7 DEF KeepsOut
  <2>9. KeepsOut(n) BY <1>1, <2>2, <2>7, <2>8, TailKeepsOut DEF OneByOne
  <2>10. WasThere(n, wasPresent) BY <1>1, <2>2, <2>7 DEF WasThere, OneByOne
  <2> QED BY <1>2, <2>1, <2>3, <2>6, <2>7, <2>9, <2>10, WaveMoves DEF Set
<1>4. CASE Fusion(r)
  <2>1. w.kind = "tail" /\ w.pc = "pool" BY <1>4 DEF Fusion, Only
  <2>2. PICK pool \in CandidatePool(w), along \in CoplayArm(w) :
          IF pool \cup along = {} THEN Set(r, w, "fallback")
          ELSE \E scored \in Scored(pool \cup along) : \E kept \in ArtistCap(scored) :
                 Set(r, [w EXCEPT !.rest = kept], "verify")
    BY <1>4 DEF Fusion
  <2>3. pool \cap w.ban = {} /\ pool \subseteq Tunes BY DEF CandidatePool, Found
  <2>4. along \cap w.ban = {} /\ along \subseteq Tunes
    <3>1. CASE heard \cup w.taken = {} BY <3>1 DEF CoplayArm
    <3>2. CASE heard \cup w.taken # {}
      <4>1. PICK co \in SUBSET Makers : along = (UNION {By(a) : a \in co}) \ w.ban
        BY <3>2 DEF CoplayArm
      <4>2. \A a : By(a) \subseteq Tunes BY DEF By
      <4>3. PICK u : u = UNION {By(a) : a \in co} OBVIOUS
      <4>4. u \subseteq Tunes BY <4>2, <4>3
      <4>5. along = u \ w.ban BY <4>1, <4>3
      <4> QED BY <4>4, <4>5
    <3> QED BY <3>1, <3>2
  <2>5. PICK k \in WaveRows, pc \in {"fallback", "verify"} :
          /\ Set(r, k, pc) /\ k.kind = "tail" /\ k.ban = w.ban /\ k.hated = w.hated
          /\ k.known = w.known /\ k.rest \cap w.ban = {} /\ k.batch = w.batch
          /\ k.shown = w.shown /\ k.found = w.found /\ k.loose = w.loose
    <3>1. CASE pool \cup along = {} BY <1>1, <2>1, <2>2, <3>1 DEF KeepsOut
    <3>2. CASE pool \cup along # {}
      <4>1. PICK kept \in SUBSET (pool \cup along) : Set(r, [w EXCEPT !.rest = kept], "verify")
        BY <2>2, <3>2 DEF Scored, ArtistCap
      <4>2. kept \in SUBSET Tunes /\ kept \cap w.ban = {} BY <2>3, <2>4, <4>1
      <4>3. PICK k : k = [w EXCEPT !.rest = kept] OBVIOUS
      <4>4. /\ k \in WaveRows /\ k.kind = "tail" /\ k.ban = w.ban /\ k.hated = w.hated
            /\ k.known = w.known /\ k.rest = kept /\ k.batch = w.batch
            /\ k.shown = w.shown /\ k.found = w.found /\ k.loose = w.loose
        BY <1>1, <2>1, <4>2, <4>3 DEF WaveRows
      <4> QED BY <4>1, <4>2, <4>3, <4>4
    <3> QED BY <3>1, <3>2
  <2>6. pc \in WaveSteps BY DEF WaveSteps
  <2>7. PICK n : n = [k EXCEPT !.pc = pc] OBVIOUS
  <2>8. /\ n \in WaveRows /\ n.pc = pc /\ n.kind = "tail" /\ n.ban = w.ban /\ n.hated = w.hated
        /\ n.known = w.known /\ n.rest \cap w.ban = {} /\ n.batch = w.batch /\ n.shown = w.shown
        /\ n.found = w.found /\ n.loose = w.loose
    BY <2>5, <2>6, <2>7, Onward
  <2>9. (n.rest \cup n.batch \cup n.shown) \cap w.ban = {} BY <1>1, <2>1, <2>8 DEF KeepsOut
  <2>10. KeepsOut(n) BY <1>1, <2>1, <2>8, <2>9, TailKeepsOut DEF OneByOne
  <2>11. WasThere(n, wasPresent) BY <1>1, <2>1, <2>8 DEF WasThere, OneByOne
  <2> QED BY <1>2, <2>5, <2>7, <2>8, <2>10, <2>11, WaveMoves DEF Set
<1>5. CASE TakeVerified(r)
  <2>1. w.pc = "verify" /\ OneByOne(w) BY <1>1, <1>5 DEF TakeVerified, WasThere
  <2>2. PICK k \in WaveRows, pc \in {"marks", "answer", "merge", "fallback"} :
          /\ Set(r, k, pc) /\ k.kind = w.kind /\ k.ban = w.ban /\ k.hated = w.hated
          /\ k.known = w.known /\ k.predicted = w.predicted /\ k.rest \subseteq w.rest
          /\ k.batch \subseteq w.rest \cup w.batch
          /\ k.shown = w.shown /\ k.found = w.found /\ k.loose = w.loose
    <3>1. CASE w.rest # {} /\ Cardinality(w.shown) < PerCluster
      <4>1. PICK b \in SUBSET w.rest : Set(r, [w EXCEPT !.batch = b, !.rest = @ \ b], "marks")
        BY <1>5, <3>1 DEF TakeVerified, Latest
      <4>2. PICK k : k = [w EXCEPT !.batch = b, !.rest = @ \ b] OBVIOUS
      <4>3. b \in SUBSET Tunes BY <1>1 DEF WaveRows
      <4>4. k \in WaveRows BY <1>1, <4>2, <4>3 DEF WaveRows
      <4>5. /\ k.kind = w.kind /\ k.ban = w.ban /\ k.hated = w.hated
            /\ k.known = w.known /\ k.predicted = w.predicted /\ k.rest = w.rest \ b
            /\ k.batch = b /\ k.shown = w.shown /\ k.found = w.found /\ k.loose = w.loose
        BY <1>1, <4>2 DEF WaveRows
      <4> QED BY <4>1, <4>2, <4>4, <4>5
    <3>2. CASE ~(w.rest # {} /\ Cardinality(w.shown) < PerCluster)
      <4>1. \E pc \in {"marks", "answer", "merge", "fallback"} : Set(r, w, pc)
        BY <1>5, <3>2 DEF TakeVerified
      <4> QED BY <1>1, <4>1
    <3> QED BY <3>1, <3>2
  <2>3. pc \in WaveSteps BY DEF WaveSteps
  <2>4. PICK n : n = [k EXCEPT !.pc = pc] OBVIOUS
  <2>5. /\ n \in WaveRows /\ n.pc = pc /\ n.kind = w.kind /\ n.ban = w.ban /\ n.hated = w.hated
        /\ n.known = w.known /\ n.predicted = w.predicted /\ n.rest \subseteq w.rest
        /\ n.batch \subseteq w.rest \cup w.batch
        /\ n.shown = w.shown /\ n.found = w.found /\ n.loose = w.loose
    BY <2>2, <2>3, <2>4, Onward
  <2>6. n.kind = "tail" => (n.rest \cup n.batch \cup n.shown) \cap w.ban = {}
    BY <1>1, <2>1, <2>5 DEF KeepsOut
  <2>7. n.kind # "tail" => n.predicted = {} BY <1>1, <2>5 DEF KeepsOut
  <2>8. KeepsOut(n) BY <1>1, <2>1, <2>5, <2>6, <2>7, TailKeepsOut
  <2>9. WasThere(n, wasPresent) BY <1>1, <2>1, <2>5 DEF WasThere, OneByOne
  <2> QED BY <1>2, <2>2, <2>4, <2>5, <2>8, <2>9, WaveMoves DEF Set
<1>6. CASE Verified(r)
  <2>1. w.pc = "verified" /\ OneByOne(w) BY <1>1, <1>6 DEF Verified, WasThere
  <2>2. PICK c \in SUBSET (w.batch \ w.missing) :
          Set(r, [w EXCEPT !.shown = @ \cup c, !.batch = {}, !.missing = {}], "verify")
    BY <1>6 DEF Verified, Latest
  <2>3. PICK k : k = [w EXCEPT !.shown = @ \cup c, !.batch = {}, !.missing = {}] OBVIOUS
  <2>4. c \in SUBSET Tunes BY <1>1 DEF WaveRows
  <2>5. k \in WaveRows BY <1>1, <2>3, <2>4 DEF WaveRows
  <2>6. /\ k.kind = w.kind /\ k.ban = w.ban /\ k.hated = w.hated
        /\ k.known = w.known /\ k.predicted = w.predicted /\ k.rest = w.rest
        /\ k.batch = {} /\ k.shown = w.shown \cup c /\ k.found = w.found /\ k.loose = w.loose
    BY <1>1, <2>3 DEF WaveRows
  <2>7. PICK n : n = [k EXCEPT !.pc = "verify"] OBVIOUS
  <2>8. "verify" \in WaveSteps BY DEF WaveSteps
  <2>9. /\ n \in WaveRows /\ n.pc = "verify" /\ n.kind = w.kind /\ n.ban = w.ban /\ n.hated = w.hated
        /\ n.known = w.known /\ n.predicted = w.predicted /\ n.rest = w.rest
        /\ n.batch = {} /\ n.shown = w.shown \cup c /\ n.found = w.found /\ n.loose = w.loose
    BY <2>5, <2>6, <2>7, <2>8, Onward
  <2>10. n.kind = "tail" => (n.rest \cup n.batch \cup n.shown) \cap w.ban = {}
    BY <1>1, <2>1, <2>9 DEF KeepsOut
  <2>11. n.kind # "tail" => n.predicted = {} BY <1>1, <2>9 DEF KeepsOut
  <2>12. KeepsOut(n) BY <1>1, <2>1, <2>9, <2>10, <2>11, TailKeepsOut
  <2>13. WasThere(n, wasPresent) BY <1>1, <2>1, <2>9 DEF WasThere, OneByOne
  <2> QED BY <1>2, <2>2, <2>3, <2>7, <2>9, <2>12, <2>13, WaveMoves DEF Set
<1>7. CASE Fallback(r)
  <2>1. w.pc = "fallback" /\ w.kind = "tail" BY <1>7 DEF Fallback, Only
  <2>2. CASE wave' = [wave EXCEPT ![r] = NoWave] BY <1>2, <2>2, WaveEnds
  <2>3. CASE \E c \in Cluster(Tunes \ w.ban) : Set(r, [w EXCEPT !.shown = c, !.loose = c], "merge")
    <3>1. PICK c \in SUBSET (Tunes \ w.ban) : Set(r, [w EXCEPT !.shown = c, !.loose = c], "merge")
      BY <2>3 DEF Cluster
    <3>2. PICK k : k = [w EXCEPT !.shown = c, !.loose = c] OBVIOUS
    <3>3. k \in WaveRows BY <1>1, <3>2 DEF WaveRows
    <3>4. /\ k.kind = w.kind /\ k.ban = w.ban /\ k.hated = w.hated
          /\ k.known = w.known /\ k.predicted = w.predicted /\ k.rest = w.rest
          /\ k.batch = w.batch /\ k.shown = c /\ k.found = w.found /\ k.loose = c
      BY <1>1, <3>2 DEF WaveRows
    <3>5. PICK n : n = [k EXCEPT !.pc = "merge"] OBVIOUS
    <3>6. "merge" \in WaveSteps BY DEF WaveSteps
    <3>7. /\ n \in WaveRows /\ n.pc = "merge" /\ n.kind = w.kind /\ n.ban = w.ban /\ n.hated = w.hated
          /\ n.known = w.known /\ n.predicted = w.predicted /\ n.rest = w.rest
          /\ n.batch = w.batch /\ n.shown = c /\ n.found = w.found /\ n.loose = c
      BY <3>3, <3>4, <3>5, <3>6, Onward
    <3>8. (n.rest \cup n.batch \cup n.shown) \cap w.ban = {} BY <1>1, <2>1, <3>1, <3>7 DEF KeepsOut
    <3>9. KeepsOut(n) BY <1>1, <2>1, <3>7, <3>8, TailKeepsOut DEF OneByOne
    <3>10. WasThere(n, wasPresent) BY <1>1, <2>1, <3>7 DEF WasThere, OneByOne
    <3> QED BY <1>2, <3>1, <3>2, <3>5, <3>7, <3>9, <3>10, WaveMoves DEF Set
  <2> QED BY <1>7, <2>2, <2>3 DEF Fallback
<1>8. CASE Merge(r)
  <2>1. w.pc = "merge" /\ w.kind = "tail" BY <1>8 DEF Merge, Only
  <2>2. PICK q \in SUBSET w.predicted, f \in SUBSET w.shown :
          Set(r, [w EXCEPT !.shown = q \cup f, !.predicted = q, !.loose = @ \cup q], "answer")
    BY <1>8 DEF Merge
  <2>3. PICK k : k = [w EXCEPT !.shown = q \cup f, !.predicted = q, !.loose = @ \cup q] OBVIOUS
  <2>4. q \in SUBSET Tunes /\ q \cup f \in SUBSET Tunes BY <1>1 DEF WaveRows
  <2>5. k \in WaveRows BY <1>1, <2>3, <2>4 DEF WaveRows
  <2>6. /\ k.kind = w.kind /\ k.ban = w.ban /\ k.hated = w.hated
        /\ k.known = w.known /\ k.predicted = q /\ k.rest = w.rest
        /\ k.batch = w.batch /\ k.shown = q \cup f /\ k.found = w.found
        /\ k.loose = w.loose \cup q
    BY <1>1, <2>3 DEF WaveRows
  <2>7. PICK n : n = [k EXCEPT !.pc = "answer"] OBVIOUS
  <2>8. "answer" \in WaveSteps BY DEF WaveSteps
  <2>9. /\ n \in WaveRows /\ n.pc = "answer" /\ n.kind = w.kind /\ n.ban = w.ban /\ n.hated = w.hated
        /\ n.known = w.known /\ n.predicted = q /\ n.rest = w.rest
        /\ n.batch = w.batch /\ n.shown = q \cup f /\ n.found = w.found
        /\ n.loose = w.loose \cup q
    BY <2>5, <2>6, <2>7, <2>8, Onward
  <2>10. KeepsOut(n) BY <1>1, <2>1, <2>9 DEF KeepsOut, HatedAllKnown, Collecting
  <2>11. WasThere(n, wasPresent) BY <1>1, <2>1, <2>9 DEF WasThere, OneByOne
  <2> QED BY <1>2, <2>2, <2>3, <2>7, <2>9, <2>10, <2>11, WaveMoves DEF Set
<1>9. CASE Answer(r) BY <1>2, <1>9, WaveEnds DEF Answer
<1> QED BY <1>3, <1>4, <1>5, <1>6, <1>7, <1>8, <1>9 DEF TailStep

-----------------------------------------------------------------------------
(* The user, the storage and time leave the requests alone. *)
LEMMA OutsideSteps ==
  ASSUME WavesInv, Outside
  PROVE  WavesInv'
<1>1. PICK t \in Tunes :
        RecordEvent(t) \/ Dislike(t) \/ RemoveDislike(t) \/ FileComes(t) \/ HearUploaded(t)
          \/ FileGoes(t) \/ MarkAges(t)
  BY DEF Outside
<1>2. wave' = wave /\ wasPresent \subseteq wasPresent'
  BY <1>1 DEF RecordEvent, Dislike, RemoveDislike, Taste, FileComes, HearUploaded, FileGoes,
     MarkAges, fileVars
<1>3. \A r \in Visits : KeepsOut(wave[r])' /\ WasThere(wave[r], wasPresent)'
  <2>1. \A w, a, b : WasThere(w, a) /\ a \subseteq b => WasThere(w, b) BY DEF WasThere
  <2> QED BY <1>2, <2>1 DEF WavesInv, KeepsOut, HatedAllKnown
<1>4. dislikes' \subseteq Tunes /\ IsFiniteSet(dislikes') /\ heard' \subseteq Tunes
  <2>1. dislikes' \in {dislikes, dislikes \cup {t}, dislikes \ {t}} /\ heard' \in {heard, heard \cup {t}}
    BY <1>1 DEF RecordEvent, Dislike, RemoveDislike, Taste, FileComes, HearUploaded, FileGoes,
       MarkAges, userVars
  <2>2. IsFiniteSet(dislikes \cup {t}) /\ IsFiniteSet(dislikes \ {t})
    BY FS_AddElement, FS_RemoveElement DEF WavesInv, WavesTypeOK
  <2> QED BY <2>1, <2>2 DEF WavesInv, WavesTypeOK
<1>5. /\ mark' \in [Tunes -> {"new", "ok", "miss", "old"}] /\ MarksFit'
      /\ present' \subseteq wasPresent'
  BY <1>1, <1>2 DEF RecordEvent, Dislike, RemoveDislike, Taste, FileComes, HearUploaded, FileGoes,
     MarkAges, fileVars, userVars, WavesInv, WavesTypeOK, MarksFit
<1> QED BY <1>2, <1>3, <1>4, <1>5 DEF WavesInv, WavesTypeOK

LEMMA WavesStay == WavesInv /\ [WavesNext]_waveVars => WavesInv'
<1>1. ASSUME WavesInv, UNCHANGED waveVars PROVE WavesInv'
  BY <1>1 DEF WavesInv, WavesTypeOK, MarksFit, KeepsOut, WasThere, HatedAllKnown, OneByOne, waveVars
<1>2. ASSUME WavesInv, NEW r \in Visits, Begin(r) \/ HomeStep(r) PROVE WavesInv'
  BY <1>2, SignalSteps, ClusterSteps, BuiltSteps, TailBegins DEF Begin, HomeStep
<1> QED BY <1>1, <1>2, FindSteps, TailSteps, OutsideSteps DEF WavesNext

(* In the home wave and in the tail of a queue, no track is put before the *)
(* user that he disliked before he asked, but for what the sequence model   *)
(* predicts into a tail, for users with more dislikes than the query's     *)
(* LIMIT, and where the query for the dislikes failed: for any number of    *)
(* requests and tracks, whatever is disliked or taken back meanwhile.  The *)
(* artist and similar waves and the search do not look at the dislikes,    *)
(* and nothing is claimed of them.                                         *)
THEOREM DislikedStaysOut == WavesSpec => []UnwantedStaysOut
<1>1. WavesInv => UnwantedStaysOut BY DEF WavesInv, KeepsOut, HatedAllKnown, UnwantedStaysOut
<1> QED BY <1>1, WavesStart, WavesStay, PTL DEF WavesSpec

(* Nothing is shown whose file was never there, but in the answers that    *)
(* nobody verifies, however marks, probes and uploads cross.               *)
THEOREM ShownHasBeenThere == WavesSpec => []ShownWasPresent
<1>1. WavesInv => ShownWasPresent BY DEF WavesInv, WasThere, ShownWasPresent
<1> QED BY <1>1, WavesStart, WavesStay, PTL DEF WavesSpec


-----------------------------------------------------------------------------
(***************************************************************************)
(* The catalogue: AggregatesExact and ShownOnce, for any tables, facts and *)
(* walks.                                                                  *)
(***************************************************************************)

(* A set of numbers has a least one, and a greatest if it is bounded. *)
LEMMA LeastIn ==
    ASSUME NEW S \in SUBSET Nat, S # {}
    PROVE  \E x \in S : \A y \in S : x <= y
<1> DEFINE T == {1..x : x \in S}
<1>1. T \subseteq FiniteSubsetsOf(Nat) /\ T # {}
  <2>1. \A x \in S : x \in Int /\ 1..x \in SUBSET Nat
    OBVIOUS
  <2>2. \A x \in S : IsFiniteSet(1..x)
    BY <2>1, FS_Interval
  <2> QED
    BY <2>1, <2>2 DEF FiniteSubsetsOf
<1>2. PICK t \in T : \A u \in T : ~ (<<u, t>> \in StrictSubsetOrdering(Nat))
  BY <1>1, FS_StrictSubsetOrderingWellFounded, WFMin, Zenon
<1>3. PICK x \in S : t = 1..x
  BY <1>2
<1>4. \A y \in S : x <= y
  <2> SUFFICES ASSUME NEW y \in S, y < x
               PROVE  FALSE
    OBVIOUS
  <2>1. 1..y \subseteq 1..x /\ x \in 1..x /\ x \notin 1..y /\ 1..x \subseteq Nat
    OBVIOUS
  <2>2. <<1..y, t>> \in StrictSubsetOrdering(Nat)
    BY <2>1, <1>3 DEF StrictSubsetOrdering
  <2>3. 1..y \in T
    OBVIOUS
  <2> QED
    BY <1>2, <2>2, <2>3
<1> QED
  BY <1>4

LEMMA GreatestIn ==
    ASSUME NEW S \in SUBSET Nat, S # {}, NEW n \in Nat, \A x \in S : x <= n
    PROVE  \E x \in S : \A y \in S : y <= x
<1> DEFINE T == {n - x : x \in S}
<1>1. T \in SUBSET Nat /\ T # {}
  <2>1. \A x \in S : n - x \in Nat
    OBVIOUS
  <2> QED
    BY <2>1
<1>2. PICK t \in T : \A u \in T : t <= u
  BY <1>1, LeastIn
<1>3. PICK x \in S : t = n - x
  BY <1>2
<1>4. \A y \in S : n - y \in T
  OBVIOUS
<1>5. \A y \in S : n - x <= n - y
  BY <1>2, <1>3, <1>4
<1> QED
  BY <1>5

-----------------------------------------------------------------------------
(* What is counted, and the tables. *)
FactsTyped ==
    /\ rec \in [Recordings -> [lead : Artists, guests : SUBSET Artists,
                               plays : {"none", "old", "recent"}, count : {0, 1}]]
    /\ disc \in [Albums -> [by : Artists, cuts : SUBSET Recordings]]
    /\ owner \in [Accounts -> Artists]
TablesTyped == art \in [Artists -> ArtistRows] /\ alb \in [Albums -> AlbumRows]
RefreshStages == {"idle", "counts", "plays", "tags", "star", "meta", "popularity", "albumStar"}
RefreshTyped == refresh \in [at : RefreshStages, clean : BOOLEAN] /\ fresh \in BOOLEAN

(* Nothing counts is zero, and nothing is what counts zero. *)
LEMMA SomeOf ==
    ASSUME NEW S, IsFiniteSet(S), NEW T \in SUBSET S
    PROVE  /\ Cardinality(T) \in Nat /\ Cardinality(T) <= Cardinality(S)
           /\ Cardinality(T) = 0 <=> T = {}
  BY FS_Subset, FS_CardinalityType, FS_EmptySet

LEMMA CountsTyped ==
    ASSUME NEW a \in Artists
    PROVE  Counts(a) \in [tracks : Nat, feats : Nat, records : Nat]
<1>1. /\ LedBy(a) \subseteq Recordings
      /\ {t \in Recordings : a \in rec[t].guests} \subseteq Recordings
      /\ {d \in Albums : disc[d].by = a} \subseteq Albums
  BY DEF LedBy
<1> QED
  BY <1>1, SomeOf, DiscoverAssumption DEF Counts

LEMMA TrendTyped ==
    ASSUME NEW w \in Nat, NEW m \in Nat
    PROVE  Trend(w, m) \in Nat
<1>1. 7 * (m + 1) \in Nat /\ 7 * (m + 1) > 0 /\ w * 3000 \in Nat
  OBVIOUS
<1>2. (w * 3000) \div (7 * (m + 1)) \in Int
  BY <1>1
<1>3. ((w * 3000) \div (7 * (m + 1)) - 50) \div 3 \in Int
  BY <1>2
<1> QED
  BY <1>3 DEF Trend

LEMMA TrendZero == Trend(0, 0) = 0
  BY DEF Trend

LEMMA PlayedInTyped ==
    ASSUME NEW a \in Artists, NEW ages
    PROVE  PlayedIn(a, ages) \in Nat
<1>1. {t \in LedBy(a) : rec[t].plays \in ages} \subseteq Recordings
  BY DEF LedBy
<1> QED
  BY <1>1, SomeOf, DiscoverAssumption DEF PlayedIn

LEMMA PlaysTyped ==
    ASSUME NEW a \in Artists
    PROVE  /\ Plays(a) \in [listeners : Nat, trending : Nat]
           /\ Plays(a).listeners = 0 => Plays(a).trending = 0
<1> DEFINE month == PlayedIn(a, {"old", "recent"})
           week == PlayedIn(a, {"recent"})
<1>1. month \in Nat /\ week \in Nat
  BY PlayedInTyped
<1>2. Plays(a) = [listeners |-> month, trending |-> Trend(week, month)]
  BY DEF Plays
<1>3. ASSUME month = 0
      PROVE  week = 0
  <2> DEFINE M == {t \in LedBy(a) : rec[t].plays \in {"old", "recent"}}
             W == {t \in LedBy(a) : rec[t].plays \in {"recent"}}
  <2>1. M \subseteq Recordings /\ W \subseteq M
    BY DEF LedBy
  <2>2. M = {}
    BY <1>3, <2>1, SomeOf, DiscoverAssumption DEF PlayedIn
  <2>3. W = {}
    BY <2>1, <2>2
  <2> QED
    BY <2>3, FS_EmptySet DEF PlayedIn
<1>4. Trend(week, month) \in Nat
  BY <1>1, TrendTyped
<1>5. month = 0 => Trend(week, month) = 0
  BY <1>3, TrendZero
<1> QED
  BY <1>1, <1>2, <1>4, <1>5

LEMMA TagsTyped ==
    ASSUME NEW a \in Artists
    PROVE  Tags(a) \subseteq Genres(a) /\ Genres(a) \subseteq Nat
  BY DiscoverAssumption DEF Tags, Genres, LedBy

LEMMA MetaTyped ==
    ASSUME TablesTyped, FactsTyped, NEW d \in Albums
    PROVE  /\ Meta(d) \in [tracks : Nat, date : Nat \cup {None}]
           /\ disc[d].cuts = {} => Meta(d) = [tracks |-> 0, date |-> alb[d].date]
<1> DEFINE dates == {ReleasedOn[t] : t \in disc[d].cuts} \ {None}
<1>1. disc[d].cuts \subseteq Recordings
  BY DEF FactsTyped
<1>2. Cardinality(disc[d].cuts) \in Nat /\ (disc[d].cuts = {} => Cardinality(disc[d].cuts) = 0)
  BY <1>1, SomeOf, DiscoverAssumption
<1>3. dates \subseteq Nat
  BY <1>1, DiscoverAssumption
<1>4. dates # {} => Earliest(dates) \in Nat
  BY <1>3, LeastIn DEF Earliest
<1>5. alb[d].date \in Nat \cup {None}
  BY DEF TablesTyped, AlbumRows
<1>6. disc[d].cuts = {} => dates = {}
  OBVIOUS
<1> HIDE DEF dates
<1>7. Meta(d) = [tracks |-> Cardinality(disc[d].cuts),
                 date |-> IF dates = {} THEN alb[d].date ELSE Earliest(dates)]
  BY DEF Meta, dates
<1> QED
  BY <1>2, <1>4, <1>5, <1>6, <1>7

(* A part of a whole, in hundredths. *)
LEMMA Hundredths ==
    ASSUME NEW n \in Nat, NEW m \in Nat, m # 0
    PROVE  (100 * n) \div m \in Nat /\ (n = 0 => (100 * n) \div m = 0)
  OBVIOUS

LEMMA PopularityTyped ==
    ASSUME FactsTyped, NEW d \in Albums
    PROVE  /\ CountOf(d) \in Nat /\ Popularity(d) \in Nat
           /\ CountOf(d) = 0 => Popularity(d) = 0
<1> DEFINE S == {CountOf(e) : e \in Albums}
           most == CHOOSE m \in S : \A e \in Albums : CountOf(e) <= m
<1>1. \A e \in Albums : CountOf(e) \in Nat /\ CountOf(e) <= Cardinality(Recordings)
  <2>1. SUFFICES ASSUME NEW e \in Albums
                 PROVE  CountOf(e) \in Nat /\ CountOf(e) <= Cardinality(Recordings)
    OBVIOUS
  <2>2. {t \in disc[e].cuts : rec[t].count > 0} \subseteq Recordings
    BY DEF FactsTyped
  <2> QED
    BY <2>2, SomeOf, DiscoverAssumption DEF CountOf
<1>2. S \in SUBSET Nat /\ S # {} /\ \A x \in S : x <= Cardinality(Recordings)
  BY <1>1
<1>3. Cardinality(Recordings) \in Nat
  BY DiscoverAssumption, FS_CardinalityType
<1>4. \E m \in S : \A y \in S : y <= m
  BY <1>2, <1>3, GreatestIn
<1>5. \E m \in S : \A e \in Albums : CountOf(e) <= m
  BY <1>4
<1>6. most \in S
  BY <1>5
<1>7. most \in Nat
  BY <1>2, <1>6
<1>8. Popularity(d) = IF most = 0 THEN 0 ELSE (100 * CountOf(d)) \div most
  BY DEF Popularity
<1> HIDE DEF most
<1>9. CASE most = 0
  BY <1>1, <1>8, <1>9
<1>10. CASE most # 0
  BY <1>1, <1>7, <1>8, <1>10, Hundredths
<1> QED
  BY <1>9, <1>10

-----------------------------------------------------------------------------
(* While the facts stand still, so does what is computed of them. *)
LEMMA FactsSame ==
    ASSUME UNCHANGED <<rec, disc, owner, paying>>
    PROVE  /\ \A a : Counts(a)' = Counts(a) /\ Plays(a)' = Plays(a)
           /\ \A a : Tags(a)' = Tags(a) /\ IsStar(a)' = IsStar(a)
           /\ \A d : Popularity(d)' = Popularity(d)
           /\ \A d : alb'[d].date = alb[d].date => Meta(d)' = Meta(d)
<1>1. \A a : LedBy(a)' = LedBy(a)
  BY Zenon DEF LedBy
<1>2. \A a : Counts(a)' = Counts(a)
  BY <1>1, Zenon DEF Counts
<1>3. \A a, ages : PlayedIn(a, ages)' = PlayedIn(a, ages)
  BY <1>1, Zenon DEF PlayedIn
<1>4. \A a : Plays(a)' = Plays(a)
  BY <1>3, Zenon DEF Plays
<1>5. \A a : Genres(a)' = Genres(a)
  BY <1>1, Zenon DEF Genres
<1>6. ASSUME NEW a
      PROVE  Tags(a)' = Tags(a)
  <2> DEFINE Top(led, genres) ==
               {g \in genres :
                  Cardinality({h \in genres :
                    Before(<<-Cardinality({t \in led : GenreOf[t] = h}), h>>,
                           <<-Cardinality({t \in led : GenreOf[t] = g}), g>>)}) < MaxTags}
  <2>1. Tags(a) = Top(LedBy(a), Genres(a))
    BY Zenon DEF Tags, Before
  <2>2. Tags(a)' = Top(LedBy(a)', Genres(a)')
    BY Zenon DEF Tags, Before
  <2> HIDE DEF Top
  <2> QED
    BY <1>1, <1>5, <2>1, <2>2
<1>7. \A a : IsStar(a)' = IsStar(a)
  BY Zenon DEF IsStar
<1>8. ASSUME NEW d
      PROVE  Popularity(d)' = Popularity(d)
  <2> DEFINE most == CHOOSE m \in {CountOf(e) : e \in Albums} : \A e \in Albums : CountOf(e) <= m
  <2>1. most' = most
    BY Zenon DEF CountOf
  <2>2. CountOf(d)' = CountOf(d)
    BY Zenon DEF CountOf
  <2>3. Popularity(d) = IF most = 0 THEN 0 ELSE (100 * CountOf(d)) \div most
    BY DEF Popularity
  <2>4. Popularity(d)' = IF most' = 0 THEN 0 ELSE (100 * CountOf(d)') \div most'
    BY DEF Popularity
  <2> HIDE DEF most
  <2> QED
    BY <2>1, <2>2, <2>3, <2>4
<1>9. ASSUME NEW d, alb'[d].date = alb[d].date
      PROVE  Meta(d)' = Meta(d)
  <2> DEFINE M(cuts, date) ==
               [tracks |-> Cardinality(cuts),
                date |-> LET dates == {ReleasedOn[t] : t \in cuts} \ {None}
                         IN IF dates = {} THEN date ELSE Earliest(dates)]
  <2>1. Meta(d) = M(disc[d].cuts, alb[d].date)
    BY Zenon DEF Meta
  <2>2. Meta(d)' = M(disc'[d].cuts, alb'[d].date)
    BY Zenon DEF Meta, Earliest
  <2>3. disc'[d].cuts = disc[d].cuts
    OBVIOUS
  <2> HIDE DEF M
  <2> QED
    BY <1>9, <2>1, <2>2, <2>3
<1> QED
  BY <1>2, <1>4, <1>6, <1>7, <1>8, <1>9

(* The statements' conditions, field by field. *)
CountsOk(a) == /\ art[a].tracks = Counts(a).tracks /\ art[a].feats = Counts(a).feats
               /\ art[a].records = Counts(a).records
PlaysOk(a) == art[a].listeners = Plays(a).listeners /\ art[a].trending = Plays(a).trending
MetaOk(d) == alb[d].tracks = Meta(d).tracks /\ alb[d].date = Meta(d).date

LEMMA DoneFields ==
    ASSUME TablesTyped, FactsTyped
    PROVE  /\ CountsDone <=> \A a \in Live : CountsOk(a)
           /\ PlaysDone <=> \A a \in Live : PlaysOk(a)
           /\ MetaDone <=> \A d \in Albums : MetaOk(d)
<1>1. \A a \in Live : a \in Artists /\ art[a] \in ArtistRows
  BY DEF Live, TablesTyped
<1>2. \A d \in Albums : alb[d] \in AlbumRows
  BY DEF TablesTyped
<1>3. ASSUME NEW a \in Live
      PROVE  art[a] = WithCounts(art[a], Counts(a)) <=> CountsOk(a)
  BY <1>1 DEF WithCounts, CountsOk, ArtistRows
<1>4. ASSUME NEW a \in Live
      PROVE  art[a] = WithPlays(art[a], Plays(a)) <=> PlaysOk(a)
  BY <1>1 DEF WithPlays, PlaysOk, ArtistRows
<1>5. ASSUME NEW d \in Albums
      PROVE  alb[d] = WithMeta(alb[d], Meta(d)) <=> MetaOk(d)
  BY <1>2 DEF WithMeta, MetaOk, AlbumRows
<1> QED
  BY <1>3, <1>4, <1>5, Zenon DEF CountsDone, PlaysDone, MetaDone

-----------------------------------------------------------------------------
(* What each statement does: its own fields of every live row are as they  *)
(* are computed, rows that are not affected included; the rest stays.      *)
LEMMA SetArtistsRows ==
    ASSUME TablesTyped, NEW affected, NEW rows \in [Artists -> ArtistRows], SetArtists(affected, rows),
           \A a \in Artists : rows[a].merged = art[a].merged
    PROVE  /\ art' \in [Artists -> ArtistRows] /\ alb' = alb
           /\ Live' = Live
           /\ \A a \in Artists : a \in affected /\ a \in Live => art'[a] = rows[a]
           /\ \A a \in Artists : a \notin affected \/ a \notin Live => art'[a] = art[a]
  BY DEF SetArtists, TablesTyped, Live

LEMMA SetAlbumsRows ==
    ASSUME TablesTyped, NEW affected, NEW rows \in [Albums -> AlbumRows], SetAlbums(affected, rows)
    PROVE  /\ alb' \in [Albums -> AlbumRows] /\ art' = art
           /\ \A d \in Albums : d \in affected => alb'[d] = rows[d]
           /\ \A d \in Albums : d \notin affected => alb'[d] = alb[d]
  BY DEF SetAlbums, TablesTyped

LEMMA CountsEffect ==
    ASSUME TablesTyped, FactsTyped, RefreshArtistCounts
    PROVE  /\ art' \in [Artists -> ArtistRows] /\ alb' = alb /\ Live' = Live
           /\ \A a \in Artists : /\ art'[a].listeners = art[a].listeners
                                 /\ art'[a].trending = art[a].trending
                                 /\ art'[a].tags = art[a].tags /\ art'[a].star = art[a].star
           /\ \A a \in Live : /\ art'[a].tracks = Counts(a).tracks /\ art'[a].feats = Counts(a).feats
                              /\ art'[a].records = Counts(a).records
<1> DEFINE rows == [a \in Artists |-> WithCounts(art[a], Counts(a))]
<1>1. ASSUME NEW a \in Artists
      PROVE  /\ rows[a] \in ArtistRows /\ rows[a].merged = art[a].merged
             /\ rows[a].listeners = art[a].listeners /\ rows[a].trending = art[a].trending
             /\ rows[a].tags = art[a].tags /\ rows[a].star = art[a].star
             /\ rows[a].tracks = Counts(a).tracks /\ rows[a].feats = Counts(a).feats
             /\ rows[a].records = Counts(a).records
  BY CountsTyped DEF WithCounts, TablesTyped, ArtistRows
<1>2. rows \in [Artists -> ArtistRows]
  BY <1>1
<1>3. SetArtists(AffectedByCounts, rows)
  BY DEF RefreshArtistCounts
<1> HIDE DEF rows
<1>4. /\ art' \in [Artists -> ArtistRows] /\ alb' = alb /\ Live' = Live
      /\ \A a \in Artists : a \in AffectedByCounts /\ a \in Live => art'[a] = rows[a]
      /\ \A a \in Artists : a \notin AffectedByCounts \/ a \notin Live => art'[a] = art[a]
  BY <1>1, <1>2, <1>3, SetArtistsRows
<1>5. ASSUME NEW a \in Live, a \notin AffectedByCounts
      PROVE  /\ art[a].tracks = Counts(a).tracks /\ art[a].feats = Counts(a).feats
             /\ art[a].records = Counts(a).records
  <2>1. a \in Artists
    BY DEF Live
  <2>2. ~Counted(Counts(a)) /\ ~Counted(art[a])
    BY <1>5, <2>1 DEF AffectedByCounts
  <2>3. art[a] \in ArtistRows /\ Counts(a) \in [tracks : Nat, feats : Nat, records : Nat]
    BY <2>1, CountsTyped DEF TablesTyped
  <2> QED
    BY <2>2, <2>3 DEF Counted, ArtistRows
<1>6. Live \subseteq Artists
  BY DEF Live
<1> QED
  BY <1>1, <1>4, <1>5, <1>6

LEMMA PlaysEffect ==
    ASSUME TablesTyped, FactsTyped, RefreshArtistPlays
    PROVE  /\ art' \in [Artists -> ArtistRows] /\ alb' = alb /\ Live' = Live
           /\ \A a \in Artists : /\ art'[a].tracks = art[a].tracks /\ art'[a].feats = art[a].feats
                                 /\ art'[a].records = art[a].records
                                 /\ art'[a].tags = art[a].tags /\ art'[a].star = art[a].star
           /\ \A a \in Live : /\ art'[a].listeners = Plays(a).listeners
                              /\ art'[a].trending = Plays(a).trending
<1> DEFINE rows == [a \in Artists |-> WithPlays(art[a], Plays(a))]
<1>1. ASSUME NEW a \in Artists
      PROVE  /\ rows[a] \in ArtistRows /\ rows[a].merged = art[a].merged
             /\ rows[a].tracks = art[a].tracks /\ rows[a].feats = art[a].feats
             /\ rows[a].records = art[a].records
             /\ rows[a].tags = art[a].tags /\ rows[a].star = art[a].star
             /\ rows[a].listeners = Plays(a).listeners /\ rows[a].trending = Plays(a).trending
  BY PlaysTyped DEF WithPlays, TablesTyped, ArtistRows
<1>2. rows \in [Artists -> ArtistRows]
  BY <1>1
<1>3. SetArtists(AffectedByPlays, rows)
  BY DEF RefreshArtistPlays
<1> HIDE DEF rows
<1>4. /\ art' \in [Artists -> ArtistRows] /\ alb' = alb /\ Live' = Live
      /\ \A a \in Artists : a \in AffectedByPlays /\ a \in Live => art'[a] = rows[a]
      /\ \A a \in Artists : a \notin AffectedByPlays \/ a \notin Live => art'[a] = art[a]
  BY <1>1, <1>2, <1>3, SetArtistsRows
<1>5. ASSUME NEW a \in Live, a \notin AffectedByPlays
      PROVE  art[a].listeners = Plays(a).listeners /\ art[a].trending = Plays(a).trending
  <2>1. a \in Artists
    BY DEF Live
  <2>2. ~(Plays(a).listeners > 0) /\ ~(art[a].listeners > 0) /\ ~(art[a].trending > 0)
    BY <1>5, <2>1 DEF AffectedByPlays
  <2>3. art[a].listeners \in Nat /\ art[a].trending \in Nat
    BY <2>1 DEF TablesTyped, ArtistRows
  <2>4. /\ Plays(a).listeners \in Nat /\ Plays(a).trending \in Nat
        /\ Plays(a).listeners = 0 => Plays(a).trending = 0
    BY <2>1, PlaysTyped
  <2> QED
    BY <2>2, <2>3, <2>4
<1>6. Live \subseteq Artists
  BY DEF Live
<1> QED
  BY <1>1, <1>4, <1>5, <1>6

LEMMA TagsEffect ==
    ASSUME TablesTyped, FactsTyped, RefreshArtistTags
    PROVE  /\ art' \in [Artists -> ArtistRows] /\ alb' = alb /\ Live' = Live
           /\ \A a \in Artists : /\ art'[a].tracks = art[a].tracks /\ art'[a].feats = art[a].feats
                                 /\ art'[a].records = art[a].records
                                 /\ art'[a].listeners = art[a].listeners
                                 /\ art'[a].trending = art[a].trending /\ art'[a].star = art[a].star
           /\ \A a \in Live : art'[a].tags = Tags(a)
<1> DEFINE rows == [a \in Artists |-> [art[a] EXCEPT !.tags = Tags(a)]]
<1>1. ASSUME NEW a \in Artists
      PROVE  /\ rows[a] \in ArtistRows /\ rows[a].merged = art[a].merged
             /\ rows[a].tracks = art[a].tracks /\ rows[a].feats = art[a].feats
             /\ rows[a].records = art[a].records
             /\ rows[a].listeners = art[a].listeners /\ rows[a].trending = art[a].trending
             /\ rows[a].star = art[a].star /\ rows[a].tags = Tags(a)
  <2>1. Tags(a) \in SUBSET Nat
    BY TagsTyped
  <2> QED
    BY <2>1 DEF TablesTyped, ArtistRows
<1>2. rows \in [Artists -> ArtistRows]
  BY <1>1
<1>3. SetArtists(AffectedByTags, rows)
  BY DEF RefreshArtistTags
<1> HIDE DEF rows
<1>4. /\ art' \in [Artists -> ArtistRows] /\ alb' = alb /\ Live' = Live
      /\ \A a \in Artists : a \in AffectedByTags /\ a \in Live => art'[a] = rows[a]
      /\ \A a \in Artists : a \notin AffectedByTags \/ a \notin Live => art'[a] = art[a]
  BY <1>1, <1>2, <1>3, SetArtistsRows
<1>5. ASSUME NEW a \in Live, a \notin AffectedByTags
      PROVE  art[a].tags = Tags(a)
  <2>1. a \in Artists
    BY DEF Live
  <2>2. Genres(a) = {} /\ art[a].tags = {}
    BY <1>5, <2>1 DEF AffectedByTags
  <2> QED
    BY <2>1, <2>2, TagsTyped
<1>6. Live \subseteq Artists
  BY DEF Live
<1> QED
  BY <1>1, <1>4, <1>5, <1>6

LEMMA StarEffect ==
    ASSUME TablesTyped, FactsTyped, RefreshArtistStar
    PROVE  /\ art' \in [Artists -> ArtistRows] /\ alb' = alb /\ Live' = Live
           /\ \A a \in Artists : /\ art'[a].tracks = art[a].tracks /\ art'[a].feats = art[a].feats
                                 /\ art'[a].records = art[a].records
                                 /\ art'[a].listeners = art[a].listeners
                                 /\ art'[a].trending = art[a].trending /\ art'[a].tags = art[a].tags
           /\ \A a \in Live : art'[a].star = IsStar(a)
           /\ \A a \in Artists \ Live : art'[a].star = art[a].star
<1> DEFINE rows == [a \in Artists |-> [art[a] EXCEPT !.star = IsStar(a)]]
<1>1. ASSUME NEW a \in Artists
      PROVE  /\ rows[a] \in ArtistRows /\ rows[a].merged = art[a].merged
             /\ rows[a].tracks = art[a].tracks /\ rows[a].feats = art[a].feats
             /\ rows[a].records = art[a].records
             /\ rows[a].listeners = art[a].listeners /\ rows[a].trending = art[a].trending
             /\ rows[a].tags = art[a].tags /\ rows[a].star = IsStar(a)
  <2>1. IsStar(a) \in BOOLEAN
    BY Zenon DEF IsStar
  <2> QED
    BY <2>1 DEF TablesTyped, ArtistRows
<1>2. rows \in [Artists -> ArtistRows]
  BY <1>1
<1>3. SetArtists(AffectedByStar, rows)
  BY DEF RefreshArtistStar
<1> HIDE DEF rows
<1>4. /\ art' \in [Artists -> ArtistRows] /\ alb' = alb /\ Live' = Live
      /\ \A a \in Artists : a \in AffectedByStar /\ a \in Live => art'[a] = rows[a]
      /\ \A a \in Artists : a \notin AffectedByStar \/ a \notin Live => art'[a] = art[a]
  BY <1>1, <1>2, <1>3, SetArtistsRows
<1>5. ASSUME NEW a \in Live, a \notin AffectedByStar
      PROVE  art[a].star = IsStar(a)
  <2>1. a \in Artists
    BY DEF Live
  <2>2. ~IsStar(a) /\ ~art[a].star
    BY <1>5, <2>1 DEF AffectedByStar
  <2>3. IsStar(a) \in BOOLEAN
    BY Zenon DEF IsStar
  <2>4. art[a].star \in BOOLEAN
    BY <2>1 DEF TablesTyped, ArtistRows
  <2> QED
    BY <2>2, <2>3, <2>4
<1>6. Live \subseteq Artists
  BY DEF Live
<1> QED
  BY <1>1, <1>4, <1>5, <1>6

LEMMA MetaEffect ==
    ASSUME TablesTyped, FactsTyped, RefreshAlbumMeta
    PROVE  /\ alb' \in [Albums -> AlbumRows] /\ art' = art
           /\ \A d \in Albums : /\ alb'[d].popularity = alb[d].popularity
                                /\ alb'[d].star = alb[d].star
           /\ \A d \in Albums : alb'[d].tracks = Meta(d).tracks /\ alb'[d].date = Meta(d).date
<1> DEFINE rows == [d \in Albums |-> WithMeta(alb[d], Meta(d))]
<1>1. ASSUME NEW d \in Albums
      PROVE  /\ rows[d] \in AlbumRows
             /\ rows[d].popularity = alb[d].popularity /\ rows[d].star = alb[d].star
             /\ rows[d].tracks = Meta(d).tracks /\ rows[d].date = Meta(d).date
  BY MetaTyped DEF WithMeta, TablesTyped, AlbumRows
<1>2. rows \in [Albums -> AlbumRows]
  BY <1>1
<1>3. SetAlbums(AffectedByMeta, rows)
  BY DEF RefreshAlbumMeta
<1> HIDE DEF rows
<1>4. /\ alb' \in [Albums -> AlbumRows] /\ art' = art
      /\ \A d \in Albums : d \in AffectedByMeta => alb'[d] = rows[d]
      /\ \A d \in Albums : d \notin AffectedByMeta => alb'[d] = alb[d]
  BY <1>2, <1>3, SetAlbumsRows
<1>5. ASSUME NEW d \in Albums, d \notin AffectedByMeta
      PROVE  alb[d].tracks = Meta(d).tracks /\ alb[d].date = Meta(d).date
  <2>1. disc[d].cuts = {} /\ ~(alb[d].tracks > 0)
    BY <1>5 DEF AffectedByMeta
  <2>2. alb[d].tracks \in Nat
    BY DEF TablesTyped, AlbumRows
  <2> QED
    BY <2>1, <2>2, MetaTyped
<1> QED
  BY <1>1, <1>4, <1>5

LEMMA PopularityEffect ==
    ASSUME TablesTyped, FactsTyped, RefreshAlbumPopularity
    PROVE  /\ alb' \in [Albums -> AlbumRows] /\ art' = art
           /\ \A d \in Albums : /\ alb'[d].tracks = alb[d].tracks /\ alb'[d].date = alb[d].date
                                /\ alb'[d].star = alb[d].star
           /\ \A d \in Albums : alb'[d].popularity = Popularity(d)
<1> DEFINE rows == [d \in Albums |-> [alb[d] EXCEPT !.popularity = Popularity(d)]]
<1>1. ASSUME NEW d \in Albums
      PROVE  /\ rows[d] \in AlbumRows
             /\ rows[d].tracks = alb[d].tracks /\ rows[d].date = alb[d].date
             /\ rows[d].star = alb[d].star /\ rows[d].popularity = Popularity(d)
  BY PopularityTyped DEF TablesTyped, AlbumRows
<1>2. rows \in [Albums -> AlbumRows]
  BY <1>1
<1>3. SetAlbums(AffectedByPopularity, rows)
  BY DEF RefreshAlbumPopularity
<1> HIDE DEF rows
<1>4. /\ alb' \in [Albums -> AlbumRows] /\ art' = art
      /\ \A d \in Albums : d \in AffectedByPopularity => alb'[d] = rows[d]
      /\ \A d \in Albums : d \notin AffectedByPopularity => alb'[d] = alb[d]
  BY <1>2, <1>3, SetAlbumsRows
<1>5. ASSUME NEW d \in Albums, d \notin AffectedByPopularity
      PROVE  alb[d].popularity = Popularity(d)
  <2>1. ~(CountOf(d) > 0) /\ ~(alb[d].popularity > 0)
    BY <1>5 DEF AffectedByPopularity
  <2>2. alb[d].popularity \in Nat
    BY DEF TablesTyped, AlbumRows
  <2> QED
    BY <2>1, <2>2, PopularityTyped
<1> QED
  BY <1>1, <1>4, <1>5

LEMMA AlbumStarEffect ==
    ASSUME TablesTyped, FactsTyped, RefreshAlbumStar
    PROVE  /\ alb' \in [Albums -> AlbumRows] /\ art' = art
           /\ \A d \in Albums : /\ alb'[d].tracks = alb[d].tracks /\ alb'[d].date = alb[d].date
                                /\ alb'[d].popularity = alb[d].popularity
           /\ \A d \in Albums : alb'[d].star = art[disc[d].by].star
<1> DEFINE rows == [d \in Albums |-> [alb[d] EXCEPT !.star = art[disc[d].by].star]]
<1>0. \A d \in Albums : art[disc[d].by].star \in BOOLEAN
  BY DEF TablesTyped, FactsTyped, ArtistRows
<1>1. ASSUME NEW d \in Albums
      PROVE  /\ rows[d] \in AlbumRows
             /\ rows[d].tracks = alb[d].tracks /\ rows[d].date = alb[d].date
             /\ rows[d].popularity = alb[d].popularity /\ rows[d].star = art[disc[d].by].star
  BY <1>0 DEF TablesTyped, AlbumRows
<1>2. rows \in [Albums -> AlbumRows]
  BY <1>1
<1>3. SetAlbums(AffectedByAlbumStar, rows)
  BY DEF RefreshAlbumStar
<1> HIDE DEF rows
<1>4. /\ alb' \in [Albums -> AlbumRows] /\ art' = art
      /\ \A d \in Albums : d \in AffectedByAlbumStar => alb'[d] = rows[d]
      /\ \A d \in Albums : d \notin AffectedByAlbumStar => alb'[d] = alb[d]
  BY <1>2, <1>3, SetAlbumsRows
<1>5. ASSUME NEW d \in Albums, d \notin AffectedByAlbumStar
      PROVE  alb[d].star = art[disc[d].by].star
  <2>1. ~alb[d].star /\ ~art[disc[d].by].star
    BY <1>5 DEF AffectedByAlbumStar
  <2>2. alb[d].star \in BOOLEAN
    BY DEF TablesTyped, AlbumRows
  <2> QED
    BY <1>0, <2>1, <2>2
<1> QED
  BY <1>1, <1>4, <1>5

-----------------------------------------------------------------------------
AggTyped == TablesTyped /\ FactsTyped /\ RefreshTyped

(* What a refresh that nothing has overtaken has done so far, and what      *)
(* holds as long as nothing changes after its end.                          *)
AggInv ==
  /\ fresh => /\ \A a \in Live : CountsOk(a) /\ PlaysOk(a)
              /\ TagsDone /\ StarDone
              /\ \A d \in Albums : MetaOk(d)
              /\ PopularityDone /\ AlbumStarDone
  /\ refresh.clean =>
       /\ refresh.at \in RefreshStages \ {"idle", "counts"} => \A a \in Live : CountsOk(a)
       /\ refresh.at \in RefreshStages \ {"idle", "counts", "plays"} => \A a \in Live : PlaysOk(a)
       /\ refresh.at \in {"star", "meta", "popularity", "albumStar"} => TagsDone
       /\ refresh.at \in {"meta", "popularity", "albumStar"} => StarDone
       /\ refresh.at \in {"popularity", "albumStar"} => \A d \in Albums : MetaOk(d)
       /\ refresh.at = "albumStar" => PopularityDone

(* Nothing that the aggregates depend on moves. *)
LEMMA AggStill ==
    ASSUME AggInv, UNCHANGED <<rec, disc, owner, paying, art, alb, refresh, fresh>>
    PROVE  AggInv'
<1>1. /\ \A a : Counts(a)' = Counts(a) /\ Plays(a)' = Plays(a)
      /\ \A a : Tags(a)' = Tags(a) /\ IsStar(a)' = IsStar(a)
      /\ \A d : Popularity(d)' = Popularity(d)
      /\ \A d : Meta(d)' = Meta(d)
  BY FactsSame
<1>2. Live' = Live
  BY DEF Live
<1>3. /\ \A a : CountsOk(a)' <=> CountsOk(a)
      /\ \A a : PlaysOk(a)' <=> PlaysOk(a)
      /\ \A d : MetaOk(d)' <=> MetaOk(d)
  BY <1>1, Zenon DEF CountsOk, PlaysOk, MetaOk
<1>4. (TagsDone => TagsDone') /\ (StarDone => StarDone')
  BY <1>1, <1>2 DEF TagsDone, StarDone
<1>5. (PopularityDone => PopularityDone') /\ (AlbumStarDone => AlbumStarDone')
  BY <1>1 DEF PopularityDone, AlbumStarDone
<1> QED
  BY <1>2, <1>3, <1>4, <1>5 DEF AggInv

LEMMA FactsChangeAgg ==
    ASSUME AggTyped, FactsChange
    PROVE  AggTyped' /\ AggInv'
<1>1. Changed
  BY DEF FactsChange, TrackChanges, AlbumChanges, SubscriptionChanges, MergeArtists
<1>2. RefreshTyped' /\ ~fresh' /\ ~refresh'.clean /\ alb' = alb
  BY <1>1 DEF Changed, AggTyped, RefreshTyped
<1>3. AggInv'
  BY <1>2 DEF AggInv
<1>4. TablesTyped' /\ FactsTyped'
  <2>1. ASSUME NEW t \in Recordings, TrackChanges(t)
        PROVE  TablesTyped' /\ FactsTyped'
    <3>1. UNCHANGED <<art, alb, disc, owner>>
      BY <1>2, <2>1 DEF TrackChanges
    <3>2. rec' \in [Recordings -> [lead : Artists, guests : SUBSET Artists,
                                   plays : {"none", "old", "recent"}, count : {0, 1}]]
      <4>1. CASE \E a \in Artists, g \in SUBSET Artists :
                   a \notin g /\ rec' = [rec EXCEPT ![t].lead = a, ![t].guests = g]
        <5>1. PICK a \in Artists : \E g \in SUBSET Artists :
                  rec' = [rec EXCEPT ![t].lead = a, ![t].guests = g]
          BY <4>1
        <5>2. PICK g \in SUBSET Artists : rec' = [rec EXCEPT ![t].lead = a, ![t].guests = g]
          BY <5>1
        <5>3. DOMAIN rec = Recordings /\ DOMAIN rec' = Recordings
          BY <5>2 DEF AggTyped, FactsTyped
        <5>4. \A v \in Recordings : rec'[v] = IF v = t THEN [rec[t] EXCEPT !.lead = a, !.guests = g]
                                                      ELSE rec[v]
          BY <5>2 DEF AggTyped, FactsTyped
        <5>5. rec' = [v \in Recordings |-> rec'[v]]
          BY <5>2 DEF AggTyped, FactsTyped
        <5>6. \A v \in Recordings : rec'[v] \in [lead : Artists, guests : SUBSET Artists,
                                   plays : {"none", "old", "recent"}, count : {0, 1}]
          <6>1. rec[t] \in [lead : Artists, guests : SUBSET Artists,
                            plays : {"none", "old", "recent"}, count : {0, 1}]
            BY DEF AggTyped, FactsTyped
          <6>2. [rec[t] EXCEPT !.lead = a, !.guests = g] \in
                  [lead : Artists, guests : SUBSET Artists, plays : {"none", "old", "recent"}, count : {0, 1}]
            BY <6>1
          <6>3. ASSUME NEW v \in Recordings, v # t
                PROVE  rec'[v] \in [lead : Artists, guests : SUBSET Artists,
                                    plays : {"none", "old", "recent"}, count : {0, 1}]
            BY <5>4, <6>3 DEF AggTyped, FactsTyped
          <6>4. rec'[t] = [rec[t] EXCEPT !.lead = a, !.guests = g]
            BY <5>4
          <6> QED
            BY <6>2, <6>3, <6>4
        <5> QED
          BY <5>5, <5>6
      <4>2. CASE \E p \in {"none", "old", "recent"} \ {rec[t].plays} : rec' = [rec EXCEPT ![t].plays = p]
        BY <4>2 DEF AggTyped, FactsTyped
      <4>3. CASE rec' = [rec EXCEPT ![t].count = 1]
        BY <4>3 DEF AggTyped, FactsTyped
      <4> QED
        BY <2>1, <4>1, <4>2, <4>3 DEF TrackChanges
    <3> QED
      BY <3>1, <3>2 DEF AggTyped, TablesTyped, FactsTyped
  <2>2. ASSUME NEW d \in Albums, NEW t \in Recordings, AlbumChanges(d, t)
        PROVE  TablesTyped' /\ FactsTyped'
    <3>1. UNCHANGED <<art, alb, rec, owner>>
      BY <1>2, <2>2 DEF AlbumChanges
    <3>2. disc' \in [Albums -> [by : Artists, cuts : SUBSET Recordings]]
      BY <2>2 DEF AlbumChanges, AggTyped, FactsTyped
    <3> QED
      BY <3>1, <3>2 DEF AggTyped, TablesTyped, FactsTyped
  <2>3. ASSUME NEW u \in Accounts, SubscriptionChanges(u)
        PROVE  TablesTyped' /\ FactsTyped'
    BY <1>2, <2>3 DEF SubscriptionChanges, AggTyped, TablesTyped, FactsTyped
  <2>4. ASSUME NEW src \in Artists, NEW dst \in Artists, MergeArtists(src, dst)
        PROVE  TablesTyped' /\ FactsTyped'
    <3>1. art' \in [Artists -> ArtistRows]
      BY <2>4 DEF MergeArtists, AggTyped, TablesTyped, ArtistRows
    <3>2. rec' \in [Recordings -> [lead : Artists, guests : SUBSET Artists,
                                   plays : {"none", "old", "recent"}, count : {0, 1}]]
      <4> DEFINE To(a) == IF a = src THEN dst ELSE a
      <4>1. rec' = [t \in Recordings |-> [rec[t] EXCEPT !.lead = To(@), !.guests = {To(a) : a \in @}]]
        BY <2>4, Zenon DEF MergeArtists
      <4>2. ASSUME NEW t \in Recordings
            PROVE  /\ To(rec[t].lead) \in Artists
                   /\ {To(a) : a \in rec[t].guests} \in SUBSET Artists
        BY DEF AggTyped, FactsTyped
      <4>3. \A t \in Recordings : rec[t] \in [lead : Artists, guests : SUBSET Artists,
                                   plays : {"none", "old", "recent"}, count : {0, 1}]
        BY DEF AggTyped, FactsTyped
      <4> HIDE DEF To
      <4> QED
        BY <4>1, <4>2, <4>3
    <3>3. disc' \in [Albums -> [by : Artists, cuts : SUBSET Recordings]]
      BY <2>4 DEF MergeArtists, AggTyped, FactsTyped
    <3>4. owner' \in [Accounts -> Artists]
      BY <2>4 DEF MergeArtists, AggTyped, FactsTyped
    <3> QED
      BY <1>2, <3>1, <3>2, <3>3, <3>4 DEF AggTyped, TablesTyped, FactsTyped
  <2> QED
    BY <2>1, <2>2, <2>3, <2>4 DEF FactsChange
<1> QED
  BY <1>2, <1>3, <1>4 DEF AggTyped

(* A statement sets its own fields right and leaves those of the earlier    *)
(* ones as they were.                                                       *)
LEMMA RefreshAgg ==
    ASSUME AggTyped, AggInv, RefreshAggregates
    PROVE  AggTyped' /\ AggInv'
<1> USE DEF RefreshStages
<1>1. UNCHANGED <<rec, disc, owner, paying>>
  BY DEF RefreshAggregates, factVars
<1>2. FactsTyped' /\ FactsTyped /\ TablesTyped /\ RefreshTyped
  BY <1>1 DEF AggTyped, FactsTyped
<1>3. /\ \A a : Counts(a)' = Counts(a) /\ Plays(a)' = Plays(a)
      /\ \A a : Tags(a)' = Tags(a) /\ IsStar(a)' = IsStar(a)
      /\ \A d : Popularity(d)' = Popularity(d)
      /\ \A d : alb'[d].date = alb[d].date => Meta(d)' = Meta(d)
  BY <1>1, FactsSame
<1>4. \A d \in Albums : disc[d].by \in Artists
  BY <1>2 DEF FactsTyped
<1>5. Live \subseteq Artists
  BY DEF Live
<1>6. ASSUME alb' = alb
      PROVE  /\ \A d : MetaOk(d) => MetaOk(d)'
             /\ PopularityDone => PopularityDone'
  BY <1>3, <1>6 DEF MetaOk, PopularityDone
<1>7. ASSUME art' = art
      PROVE  /\ Live' = Live
             /\ \A a : (CountsOk(a) => CountsOk(a)') /\ (PlaysOk(a) => PlaysOk(a)')
             /\ (TagsDone => TagsDone') /\ (StarDone => StarDone')
  <2>1. Live' = Live
    BY <1>7 DEF Live
  <2>2. \A a : (CountsOk(a) => CountsOk(a)') /\ (PlaysOk(a) => PlaysOk(a)')
    BY <1>3, <1>7, Zenon DEF CountsOk, PlaysOk
  <2>3. (TagsDone => TagsDone') /\ (StarDone => StarDone')
    BY <1>3, <1>7, <2>1 DEF TagsDone, StarDone
  <2> QED
    BY <2>1, <2>2, <2>3
<1>8. CASE RefreshBegins \/ RefreshFails
  <2>1. art' = art /\ alb' = alb /\ fresh' = fresh
    BY <1>8 DEF RefreshBegins, RefreshFails
  <2>2. refresh' = [at |-> "counts", clean |-> TRUE] \/ refresh' = [at |-> "idle", clean |-> TRUE]
    BY <1>8, Zenon DEF RefreshBegins, RefreshFails
  <2>3. AlbumStarDone => AlbumStarDone'
    BY <1>1, <2>1 DEF AlbumStarDone
  <2>4. AggTyped'
    <3>1. RefreshTyped'
      <4>1. /\ [at |-> "counts", clean |-> TRUE] \in [at : RefreshStages, clean : BOOLEAN]
            /\ [at |-> "idle", clean |-> TRUE] \in [at : RefreshStages, clean : BOOLEAN]
        OBVIOUS
      <4>2. refresh' \in [at : RefreshStages, clean : BOOLEAN]
        BY <2>2, <4>1, Zenon
      <4>3. fresh' \in BOOLEAN
        BY <1>2, <2>1 DEF RefreshTyped
      <4> QED
        BY <4>2, <4>3 DEF RefreshTyped
    <3>2. TablesTyped'
      BY <1>2, <2>1 DEF TablesTyped
    <3> QED
      BY <1>2, <3>1, <3>2 DEF AggTyped
  <2>5. refresh'.at \in {"idle", "counts"}
    BY <2>2
  <2> QED
    BY <1>6, <1>7, <2>1, <2>3, <2>4, <2>5 DEF AggInv
<1>9. CASE RefreshArtistCounts
  <2>1. refresh.at = "counts" /\ refresh' = [refresh EXCEPT !.at = "plays"] /\ fresh' = fresh
    BY <1>9 DEF RefreshArtistCounts, Statement
  <2>2. refresh'.at = "plays" /\ refresh'.clean = refresh.clean /\ RefreshTyped'
    BY <1>2, <2>1 DEF RefreshTyped
  <2>3. /\ art' \in [Artists -> ArtistRows] /\ alb' = alb /\ Live' = Live
        /\ \A a \in Artists : /\ art'[a].listeners = art[a].listeners
                              /\ art'[a].trending = art[a].trending
                              /\ art'[a].tags = art[a].tags /\ art'[a].star = art[a].star
        /\ \A a \in Live : /\ art'[a].tracks = Counts(a).tracks /\ art'[a].feats = Counts(a).feats
                           /\ art'[a].records = Counts(a).records
    BY <1>2, <1>9, CountsEffect
  <2>4. \A a \in Live : CountsOk(a)'
    BY <1>3, <2>3 DEF CountsOk
  <2>5. \A a \in Artists : PlaysOk(a) <=> PlaysOk(a)'
    BY <1>3, <2>3 DEF PlaysOk
  <2>6. (TagsDone <=> TagsDone') /\ (StarDone <=> StarDone')
    BY <1>3, <1>5, <2>3 DEF TagsDone, StarDone
  <2>7. AlbumStarDone <=> AlbumStarDone'
    BY <1>1, <1>4, <2>3 DEF AlbumStarDone
  <2>8. AggTyped'
    BY <1>2, <2>2, <2>3 DEF AggTyped, TablesTyped
  <2> QED
    BY <1>5, <1>6, <2>1, <2>2, <2>3, <2>4, <2>5, <2>6, <2>7, <2>8 DEF AggInv
<1>10. CASE RefreshArtistPlays
  <2>1. refresh.at = "plays" /\ refresh' = [refresh EXCEPT !.at = "tags"] /\ fresh' = fresh
    BY <1>10 DEF RefreshArtistPlays, Statement
  <2>2. refresh'.at = "tags" /\ refresh'.clean = refresh.clean /\ RefreshTyped'
    BY <1>2, <2>1 DEF RefreshTyped
  <2>3. /\ art' \in [Artists -> ArtistRows] /\ alb' = alb /\ Live' = Live
        /\ \A a \in Artists : /\ art'[a].tracks = art[a].tracks /\ art'[a].feats = art[a].feats
                              /\ art'[a].records = art[a].records
                              /\ art'[a].tags = art[a].tags /\ art'[a].star = art[a].star
        /\ \A a \in Live : /\ art'[a].listeners = Plays(a).listeners
                           /\ art'[a].trending = Plays(a).trending
    BY <1>2, <1>10, PlaysEffect
  <2>4. \A a \in Live : PlaysOk(a)'
    BY <1>3, <2>3 DEF PlaysOk
  <2>5. \A a \in Artists : CountsOk(a) <=> CountsOk(a)'
    BY <1>3, <2>3 DEF CountsOk
  <2>6. (TagsDone <=> TagsDone') /\ (StarDone <=> StarDone')
    BY <1>3, <1>5, <2>3 DEF TagsDone, StarDone
  <2>7. AlbumStarDone <=> AlbumStarDone'
    BY <1>1, <1>4, <2>3 DEF AlbumStarDone
  <2>8. AggTyped'
    BY <1>2, <2>2, <2>3 DEF AggTyped, TablesTyped
  <2> QED
    BY <1>5, <1>6, <2>1, <2>2, <2>3, <2>4, <2>5, <2>6, <2>7, <2>8 DEF AggInv
<1>11. CASE RefreshArtistTags
  <2>1. refresh.at = "tags" /\ refresh' = [refresh EXCEPT !.at = "star"] /\ fresh' = fresh
    BY <1>11 DEF RefreshArtistTags, Statement
  <2>2. refresh'.at = "star" /\ refresh'.clean = refresh.clean /\ RefreshTyped'
    BY <1>2, <2>1 DEF RefreshTyped
  <2>3. /\ art' \in [Artists -> ArtistRows] /\ alb' = alb /\ Live' = Live
        /\ \A a \in Artists : /\ art'[a].tracks = art[a].tracks /\ art'[a].feats = art[a].feats
                              /\ art'[a].records = art[a].records
                              /\ art'[a].listeners = art[a].listeners
                              /\ art'[a].trending = art[a].trending /\ art'[a].star = art[a].star
        /\ \A a \in Live : art'[a].tags = Tags(a)
    BY <1>2, <1>11, TagsEffect
  <2>4. TagsDone'
    BY <1>3, <2>3 DEF TagsDone
  <2>5. \A a \in Artists : (CountsOk(a) <=> CountsOk(a)') /\ (PlaysOk(a) <=> PlaysOk(a)')
    BY <1>3, <2>3 DEF CountsOk, PlaysOk
  <2>6. StarDone <=> StarDone'
    BY <1>3, <1>5, <2>3 DEF StarDone
  <2>7. AlbumStarDone <=> AlbumStarDone'
    BY <1>1, <1>4, <2>3 DEF AlbumStarDone
  <2>8. AggTyped'
    BY <1>2, <2>2, <2>3 DEF AggTyped, TablesTyped
  <2> QED
    BY <1>5, <1>6, <2>1, <2>2, <2>3, <2>4, <2>5, <2>6, <2>7, <2>8 DEF AggInv
<1>12. CASE RefreshArtistStar
  <2>1. refresh.at = "star" /\ refresh' = [refresh EXCEPT !.at = "meta"] /\ fresh' = fresh
    BY <1>12 DEF RefreshArtistStar, Statement
  <2>2. refresh'.at = "meta" /\ refresh'.clean = refresh.clean /\ RefreshTyped'
    BY <1>2, <2>1 DEF RefreshTyped
  <2>3. /\ art' \in [Artists -> ArtistRows] /\ alb' = alb /\ Live' = Live
        /\ \A a \in Artists : /\ art'[a].tracks = art[a].tracks /\ art'[a].feats = art[a].feats
                              /\ art'[a].records = art[a].records
                              /\ art'[a].listeners = art[a].listeners
                              /\ art'[a].trending = art[a].trending /\ art'[a].tags = art[a].tags
        /\ \A a \in Live : art'[a].star = IsStar(a)
        /\ \A a \in Artists \ Live : art'[a].star = art[a].star
    BY <1>2, <1>12, StarEffect
  <2>4. StarDone'
    BY <1>3, <2>3 DEF StarDone
  <2>5. \A a \in Artists : (CountsOk(a) <=> CountsOk(a)') /\ (PlaysOk(a) <=> PlaysOk(a)')
    BY <1>3, <2>3 DEF CountsOk, PlaysOk
  <2>6. TagsDone <=> TagsDone'
    BY <1>3, <1>5, <2>3 DEF TagsDone
  <2>7. AlbumStarDone /\ StarDone => AlbumStarDone'
    <3>1. SUFFICES ASSUME AlbumStarDone, StarDone, NEW d \in Albums
                   PROVE  alb'[d].star = art'[disc'[d].by].star
      BY DEF AlbumStarDone
    <3>2. disc'[d].by = disc[d].by /\ alb'[d] = alb[d] /\ alb[d].star = art[disc[d].by].star
      BY <1>1, <2>3, <3>1 DEF AlbumStarDone
    <3>3. art'[disc[d].by].star = art[disc[d].by].star
      BY <1>4, <2>3, <3>1 DEF StarDone
    <3> QED
      BY <3>2, <3>3
  <2>8. AggTyped'
    BY <1>2, <2>2, <2>3 DEF AggTyped, TablesTyped
  <2> QED
    BY <1>5, <1>6, <2>1, <2>2, <2>3, <2>4, <2>5, <2>6, <2>7, <2>8 DEF AggInv
<1>13. CASE RefreshAlbumMeta
  <2>1. refresh.at = "meta" /\ refresh' = [refresh EXCEPT !.at = "popularity"] /\ fresh' = fresh
    BY <1>13 DEF RefreshAlbumMeta, Statement
  <2>2. refresh'.at = "popularity" /\ refresh'.clean = refresh.clean /\ RefreshTyped'
    BY <1>2, <2>1 DEF RefreshTyped
  <2>3. /\ alb' \in [Albums -> AlbumRows] /\ art' = art
        /\ \A d \in Albums : /\ alb'[d].popularity = alb[d].popularity
                             /\ alb'[d].star = alb[d].star
        /\ \A d \in Albums : alb'[d].tracks = Meta(d).tracks /\ alb'[d].date = Meta(d).date
    BY <1>2, <1>13, MetaEffect
  <2>4. ASSUME NEW d \in Albums
        PROVE  Meta(d)' = Meta(d)
    <3> DEFINE dates == {ReleasedOn[t] : t \in disc[d].cuts} \ {None}
    <3>1. Meta(d) = [tracks |-> Cardinality(disc[d].cuts),
                     date |-> IF dates = {} THEN alb[d].date ELSE Earliest(dates)]
      BY DEF Meta
    <3>2. Meta(d)' = [tracks |-> Cardinality(disc'[d].cuts),
                      date |-> IF dates' = {} THEN alb'[d].date ELSE Earliest(dates')]
      BY Zenon DEF Meta, Earliest
    <3>3. dates' = dates
      BY <1>1
    <3>4. alb'[d].date = Meta(d).date
      BY <2>3
    <3>5. disc'[d].cuts = disc[d].cuts
      BY <1>1
    <3> HIDE DEF dates
    <3> QED
      BY <3>1, <3>2, <3>3, <3>4, <3>5
  <2>5. \A d \in Albums : MetaOk(d)'
    BY <2>3, <2>4 DEF MetaOk
  <2>6. PopularityDone <=> PopularityDone'
    BY <1>3, <2>3 DEF PopularityDone
  <2>7. AlbumStarDone <=> AlbumStarDone'
    BY <1>1, <2>3 DEF AlbumStarDone
  <2>8. AggTyped'
    BY <1>2, <2>2, <2>3 DEF AggTyped, TablesTyped
  <2> QED
    BY <1>5, <1>7, <2>1, <2>2, <2>3, <2>5, <2>6, <2>7, <2>8 DEF AggInv
<1>14. CASE RefreshAlbumPopularity
  <2>1. refresh.at = "popularity" /\ refresh' = [refresh EXCEPT !.at = "albumStar"] /\ fresh' = fresh
    BY <1>14 DEF RefreshAlbumPopularity, Statement
  <2>2. refresh'.at = "albumStar" /\ refresh'.clean = refresh.clean /\ RefreshTyped'
    BY <1>2, <2>1 DEF RefreshTyped
  <2>3. /\ alb' \in [Albums -> AlbumRows] /\ art' = art
        /\ \A d \in Albums : /\ alb'[d].tracks = alb[d].tracks /\ alb'[d].date = alb[d].date
                             /\ alb'[d].star = alb[d].star
        /\ \A d \in Albums : alb'[d].popularity = Popularity(d)
    BY <1>2, <1>14, PopularityEffect
  <2>4. PopularityDone'
    BY <1>3, <2>3 DEF PopularityDone
  <2>5. \A d \in Albums : MetaOk(d) <=> MetaOk(d)'
    BY <1>3, <2>3 DEF MetaOk
  <2>6. AlbumStarDone <=> AlbumStarDone'
    BY <1>1, <2>3 DEF AlbumStarDone
  <2>7. AggTyped'
    BY <1>2, <2>2, <2>3 DEF AggTyped, TablesTyped
  <2> QED
    BY <1>5, <1>7, <2>1, <2>2, <2>3, <2>4, <2>5, <2>6, <2>7 DEF AggInv
<1>15. CASE RefreshAlbumStar
  <2>1. /\ refresh.at = "albumStar" /\ refresh' = [at |-> "idle", clean |-> TRUE]
        /\ fresh' = (fresh \/ refresh.clean)
    BY <1>15 DEF RefreshAlbumStar
  <2>2. refresh'.at = "idle" /\ RefreshTyped'
    BY <1>2, <2>1 DEF RefreshTyped
  <2>3. /\ alb' \in [Albums -> AlbumRows] /\ art' = art
        /\ \A d \in Albums : /\ alb'[d].tracks = alb[d].tracks /\ alb'[d].date = alb[d].date
                             /\ alb'[d].popularity = alb[d].popularity
        /\ \A d \in Albums : alb'[d].star = art[disc[d].by].star
    BY <1>2, <1>15, AlbumStarEffect
  <2>4. AlbumStarDone'
    BY <1>1, <2>3 DEF AlbumStarDone
  <2>5. \A d \in Albums : MetaOk(d) <=> MetaOk(d)'
    BY <1>3, <2>3 DEF MetaOk
  <2>6. PopularityDone <=> PopularityDone'
    BY <1>3, <2>3 DEF PopularityDone
  <2>7. AggTyped'
    BY <1>2, <2>2, <2>3 DEF AggTyped, TablesTyped
  <2> QED
    BY <1>5, <1>7, <2>1, <2>2, <2>3, <2>4, <2>5, <2>6, <2>7 DEF AggInv
<1> QED
  BY <1>8, <1>9, <1>10, <1>11, <1>12, <1>13, <1>14, <1>15, Zenon DEF RefreshAggregates

LEMMA AggInit == DiscoverInit([Artists -> ArtistRows], [Albums -> AlbumRows]) => AggTyped /\ AggInv
<1> SUFFICES ASSUME DiscoverInit([Artists -> ArtistRows], [Albums -> AlbumRows])
             PROVE  AggTyped /\ AggInv
  OBVIOUS
<1>1. TablesTyped
  BY DEF DiscoverInit, TablesTyped
<1>2. FactsTyped
  BY DiscoverAssumption DEF DiscoverInit, FactsTyped
<1>3. refresh = [at |-> "idle", clean |-> TRUE] /\ fresh = FALSE
  BY DEF DiscoverInit
<1>4. RefreshTyped /\ refresh.at = "idle"
  BY <1>3 DEF RefreshTyped, RefreshStages
<1> QED
  BY <1>1, <1>2, <1>3, <1>4 DEF AggTyped, AggInv, RefreshStages

LEMMA AggStep ==
    ASSUME AggTyped, AggInv, [DiscoverNext]_discoverVars
    PROVE  AggTyped' /\ AggInv'
<1>1. CASE FactsChange
  BY <1>1, FactsChangeAgg
<1>2. CASE RefreshAggregates
  BY <1>2, RefreshAgg
<1>3. CASE WalkNext \/ AdminNext \/ SettingsNext \/ SpotNext \/ UNCHANGED discoverVars
  <2>1. UNCHANGED <<rec, disc, owner, paying, art, alb, refresh, fresh>>
    <3>1. CASE WalkNext
      BY <3>1 DEF WalkNext, StartWalk, FetchPage, factVars
    <3>2. CASE AdminNext
      BY <3>2 DEF AdminNext, PromotedCreate, PromotedUpdate, PromotedDelete, Edited, factVars
    <3>3. CASE SettingsNext
      BY <3>3 DEF SettingsNext, SettingsUpdate, Edited, factVars
    <3>4. CASE SpotNext
      BY <3>4 DEF SpotNext, LoadSettings, ReadPromoted, ReadRows, ReadStars, SpotFails, Spot, factVars
    <3>5. CASE UNCHANGED discoverVars
      BY <3>5 DEF discoverVars, factVars
    <3> QED
      BY <1>3, <3>1, <3>2, <3>3, <3>4, <3>5
  <2>2. AggTyped'
    BY <2>1 DEF AggTyped, TablesTyped, FactsTyped, RefreshTyped
  <2> QED
    BY <2>1, <2>2, AggStill
<1> QED
  BY <1>1, <1>2, <1>3 DEF DiscoverNext

(* After a refresh that nothing overtook, and until something changes, the  *)
(* tables show what there is to count, whatever they held before, however   *)
(* many statements of earlier refreshes failed.                             *)
THEOREM AggregatesAreExact == DiscoverSpec => []AggregatesExact
<1>1. AggTyped /\ AggInv => AggregatesExact
  BY DoneFields DEF AggTyped, AggInv, AggregatesExact
<1>2. AggTyped /\ AggInv /\ [DiscoverNext]_discoverVars => (AggTyped /\ AggInv)'
  BY AggStep
<1> QED
  BY <1>1, <1>2, AggInit, PTL DEF DiscoverSpec

-----------------------------------------------------------------------------
(* Orders of four numbers: compared by the first that differs, so exactly   *)
(* one of two different ones is before the other.                           *)
Orders == Int \X Int \X Int \X Int

LEMMA BeforeIs ==
    ASSUME NEW x \in Orders, NEW y \in Orders
    PROVE  Before(x, y) <=> \/ x[1] < y[1]
                            \/ x[1] = y[1] /\ x[2] < y[2]
                            \/ x[1] = y[1] /\ x[2] = y[2] /\ x[3] < y[3]
                            \/ x[1] = y[1] /\ x[2] = y[2] /\ x[3] = y[3] /\ x[4] < y[4]
<1>1. DOMAIN x = 1..4
  BY DEF Orders
<1>2. Before(x, y) <=> \E k \in 1..4 : x[k] < y[k] /\ \A j \in 1..(k - 1) : x[j] = y[j]
  BY <1>1 DEF Before
<1>3. ASSUME NEW k \in 1..4
      PROVE  k = 1 \/ k = 2 \/ k = 3 \/ k = 4
  OBVIOUS
<1>4. /\ 1..(1 - 1) = {} /\ 1..(2 - 1) = {1} /\ 1..(3 - 1) = {1, 2} /\ 1..(4 - 1) = {1, 2, 3}
      /\ 1 \in 1..4 /\ 2 \in 1..4 /\ 3 \in 1..4 /\ 4 \in 1..4
  OBVIOUS
<1>5. ASSUME Before(x, y)
      PROVE  \/ x[1] < y[1]
             \/ x[1] = y[1] /\ x[2] < y[2]
             \/ x[1] = y[1] /\ x[2] = y[2] /\ x[3] < y[3]
             \/ x[1] = y[1] /\ x[2] = y[2] /\ x[3] = y[3] /\ x[4] < y[4]
  <2>1. PICK k \in 1..4 : x[k] < y[k] /\ \A j \in 1..(k - 1) : x[j] = y[j]
    BY <1>2, <1>5
  <2> QED
    BY <1>3, <1>4, <2>1
<1>6. x[1] < y[1] => Before(x, y)
  BY <1>2, <1>4
<1>7. x[1] = y[1] /\ x[2] < y[2] => Before(x, y)
  BY <1>2, <1>4
<1>8. x[1] = y[1] /\ x[2] = y[2] /\ x[3] < y[3] => Before(x, y)
  BY <1>2, <1>4
<1>9. x[1] = y[1] /\ x[2] = y[2] /\ x[3] = y[3] /\ x[4] < y[4] => Before(x, y)
  BY <1>2, <1>4
<1> QED
  BY <1>5, <1>6, <1>7, <1>8, <1>9

LEMMA BeforeOrders ==
    ASSUME NEW x \in Orders, NEW y \in Orders
    PROVE  /\ Before(x, y) => ~Before(y, x)
           /\ x # y => Before(x, y) \/ Before(y, x)
<1>1. /\ x[1] \in Int /\ x[2] \in Int /\ x[3] \in Int /\ x[4] \in Int
      /\ y[1] \in Int /\ y[2] \in Int /\ y[3] \in Int /\ y[4] \in Int
      /\ x = <<x[1], x[2], x[3], x[4]>> /\ y = <<y[1], y[2], y[3], y[4]>>
  BY DEF Orders
<1>2. x # y => x[1] # y[1] \/ x[2] # y[2] \/ x[3] # y[3] \/ x[4] # y[4]
  BY <1>1
<1> QED
  BY <1>1, <1>2, BeforeIs

(* Every row comes, once. *)
LEMMA InOrderRows ==
    ASSUME NEW D, IsFiniteSet(D), NEW order, DOMAIN order = D, NEW rows \in InOrder(order)
    PROVE  /\ Cardinality(D) \in Nat /\ rows \in [1..Cardinality(D) -> D]
           /\ rows \in Seq(D) /\ Len(rows) = Cardinality(D)
           /\ \A j, k \in 1..Len(rows) : rows[j] = rows[k] => j = k
           /\ \A x \in D : \E k \in 1..Len(rows) : rows[k] = x
           /\ \A j, k \in 1..Len(rows) : j < k => ~Before(order[rows[k]], order[rows[j]])
<1> DEFINE n == Cardinality(D)
<1>1. n \in Nat
  BY FS_CardinalityType
<1>2. rows \in [1..n -> D]
  BY DEF InOrder
<1>3. rows \in Seq(D) /\ Len(rows) = n
  BY <1>1, <1>2
<1>4. \A j, k \in 1..n : j < k => rows[j] # rows[k] /\ ~Before(order[rows[k]], order[rows[j]])
  BY <1>2 DEF InOrder
<1>5. \A j, k \in 1..n : rows[j] = rows[k] => j = k
  BY <1>1, <1>4
<1>6. rows \in Injection(1..n, D)
  BY <1>2, <1>5 DEF Injection, IsInjective
<1>7. IsFiniteSet(1..n) /\ Cardinality(1..n) = n
  BY <1>1, FS_Interval
<1>8. rows \in Surjection(1..n, D)
  BY <1>6, <1>7, FS_Injection
<1>9. \A x \in D : \E k \in 1..n : rows[k] = x
  BY <1>8 DEF Surjection
<1> QED
  BY <1>1, <1>2, <1>3, <1>4, <1>5, <1>9

LEMMA FirstRowsAre ==
    ASSUME NEW D, NEW rows \in Seq(D), NEW n \in Nat
    PROVE  /\ FirstRows(rows, n) \in Seq(D)
           /\ Len(FirstRows(rows, n)) = (IF Len(rows) < n THEN Len(rows) ELSE n)
           /\ \A k \in 1..Len(FirstRows(rows, n)) : k \in 1..Len(rows) /\ FirstRows(rows, n)[k] = rows[k]
<1> DEFINE m == IF Len(rows) < n THEN Len(rows) ELSE n
<1>1. m \in Nat /\ m <= Len(rows) /\ Len(rows) \in Nat
  OBVIOUS
<1>2. FirstRows(rows, n) = [k \in 1..m |-> rows[k]]
  BY DEF FirstRows
<1>3. \A k \in 1..m : k \in 1..Len(rows) /\ rows[k] \in D
  BY <1>1
<1> HIDE DEF m
<1>4. [k \in 1..m |-> rows[k]] \in Seq(D) /\ Len([k \in 1..m |-> rows[k]]) = m
  BY <1>1, <1>3
<1> QED
  BY <1>2, <1>3, <1>4 DEF m

LEMMA Joined ==
    ASSUME NEW D, NEW s \in Seq(D), NEW t \in Seq(D)
    PROVE  /\ s \o t \in Seq(D) /\ Len(s \o t) = Len(s) + Len(t)
           /\ \A k \in 1..Len(s) : (s \o t)[k] = s[k]
           /\ \A k \in 1..Len(t) : (s \o t)[Len(s) + k] = t[k]
           /\ \A k \in 1..Len(s \o t) : k \in 1..Len(s) \/ (k - Len(s) \in 1..Len(t)
                                                             /\ (s \o t)[k] = t[k - Len(s)])
  OBVIOUS

-----------------------------------------------------------------------------
(* The pages: what a walk is, the rows it lists and how they are ordered.   *)
Cursors == [p : Int, p2 : Int, n : Nat, id : Nat]
Walks ==
  {w \in [at : {"idle", "page", "end"}, what : {"artists", "albums"},
          sort : {"listeners", "tracks", "star", "az", "trending", "popular", "recent"},
          tag : Nat \cup {None}, limit : Nat \ {0}, cursor : Cursors \cup {None},
          seen : Seq(Nat), undated : BOOLEAN, quiet : BOOLEAN] :
     /\ w.what = "artists" => w.sort \in {"listeners", "tracks", "star", "az", "trending"}
     /\ w.what = "albums" => w.sort \in {"popular", "tracks", "az", "recent"}}
WalkTyped == walk \in Walks

LEMMA ListedRows ==
    ASSUME NEW w \in Walks
    PROVE  /\ w.what = "artists" => Listed(w) \subseteq Artists
           /\ w.what = "albums" => Listed(w) \subseteq Albums
           /\ Listed(w) \subseteq Nat /\ IsFiniteSet(After(w)) /\ After(w) \subseteq Listed(w)
<1>1. w.what = "artists" \/ w.what = "albums"
  BY DEF Walks
<1>2. w.what = "artists" => Listed(w) \subseteq Artists
  BY DEF Listed
<1>3. w.what = "albums" => Listed(w) \subseteq Albums
  BY DEF Listed
<1>4. After(w) \subseteq Listed(w)
  BY DEF After
<1>5. IsFiniteSet(Listed(w))
  BY <1>1, <1>2, <1>3, FS_Subset, DiscoverAssumption
<1> QED
  BY <1>1, <1>2, <1>3, <1>4, <1>5, FS_Subset, DiscoverAssumption

(* The four numbers of a row's place, the id last. *)
LEMMA OrderTyped ==
    ASSUME TablesTyped, NEW w \in Walks, NEW i \in Listed(w)
    PROVE  OrderOf(w, i) \in Orders /\ OrderOf(w, i)[4] = i
<1>1. NameOf[i] \in Nat /\ i \in Nat
  BY ListedRows, DiscoverAssumption DEF Walks
<1>2. CASE w.what = "artists"
  <2>1. art[i] \in ArtistRows
    BY <1>2, ListedRows DEF TablesTyped
  <2>2. \A b \in BOOLEAN : Bit(b) \in Nat
    BY DEF Bit
  <2>3. ArtistKey(w.sort, art[i])[1] \in Int /\ ArtistKey(w.sort, art[i])[2] \in Int
    BY <2>1, <2>2 DEF ArtistKey, ArtistRows
  <2> QED
    BY <1>1, <1>2, <2>3 DEF OrderOf, Orders
<1>3. CASE w.what = "albums"
  <2>1. alb[i] \in AlbumRows
    BY <1>3, ListedRows DEF TablesTyped
  <2>2. ReleaseDay(alb[i]) \in Nat
    BY <2>1, DiscoverAssumption DEF ReleaseDay, AlbumRows
  <2>3. AlbumKey(w.sort, alb[i])[1] \in Int /\ AlbumKey(w.sort, alb[i])[2] \in Int
    BY <2>1, <2>2 DEF AlbumKey, AlbumRows
  <2> QED
    BY <1>1, <1>3, <2>3 DEF OrderOf, Orders
<1> QED
  BY <1>2, <1>3 DEF Walks

(* The cursor of a page stands for the place of its last row, unless that   *)
(* is an album with a year and no date in the pages by date.                *)
Undated(w, i) == w.what = "albums" /\ w.sort = "recent" /\ alb[i].date = None /\ alb[i].year # None

LEMMA CursorStands ==
    ASSUME TablesTyped, NEW w \in Walks, NEW i \in Listed(w)
    PROVE  /\ CursorOf(w, i) \in Cursors /\ CursorOf(w, i) # None
           /\ ~Undated(w, i) => FromCursor(w.sort, CursorOf(w, i)) = OrderOf(w, i)
<1>1. NameOf[i] \in Nat /\ i \in Nat
  BY ListedRows, DiscoverAssumption DEF Walks
<1>2. CASE w.what = "artists"
  <2>1. art[i] \in ArtistRows
    BY <1>2, ListedRows DEF TablesTyped
  <2>2. \A b \in BOOLEAN : Bit(b) \in Nat
    BY DEF Bit
  <2>3. w.sort \in {"listeners", "tracks", "star", "az", "trending"}
    BY <1>2 DEF Walks
  <2> DEFINE c == ArtistCursor(w.sort, i)
  <2>4. c = [p |-> CASE w.sort = "listeners" -> art[i].listeners [] w.sort = "tracks" -> art[i].tracks
                     [] w.sort = "star" -> Bit(art[i].star) [] w.sort = "az" -> 0 [] OTHER -> art[i].trending,
             p2 |-> IF w.sort = "star" THEN art[i].trending ELSE 0, n |-> NameOf[i], id |-> i]
    BY DEF ArtistCursor
  <2> HIDE DEF c
  <2>5. c \in Cursors
    BY <1>1, <2>1, <2>2, <2>3, <2>4 DEF Cursors, ArtistRows
  <2>6. CursorKey(w.sort, c) = ArtistKey(w.sort, art[i])
    BY <2>1, <2>3, <2>4 DEF CursorKey, ArtistKey, ArtistRows
  <2>7. FromCursor(w.sort, c) = OrderOf(w, i)
    BY <1>2, <2>4, <2>6 DEF FromCursor, OrderOf
  <2>8. CursorOf(w, i) = c
    BY <1>2 DEF CursorOf, c
  <2> QED
    BY <2>5, <2>7, <2>8, DiscoverAssumption DEF Cursors
<1>3. CASE w.what = "albums"
  <2>1. alb[i] \in AlbumRows
    BY <1>3, ListedRows DEF TablesTyped
  <2>2. Day(alb[i].date) \in Nat /\ Day(alb[i].year) \in Nat
    BY <2>1 DEF Day, AlbumRows
  <2>3. w.sort \in {"popular", "tracks", "az", "recent"}
    BY <1>3 DEF Walks
  <2> DEFINE c == AlbumCursor(w.sort, i)
  <2>4. c = [p |-> CASE w.sort = "popular" -> alb[i].popularity [] w.sort = "tracks" -> alb[i].tracks
                     [] w.sort = "az" -> 0 [] OTHER -> Day(alb[i].year),
             p2 |-> IF w.sort \in {"popular", "tracks", "az"} THEN 0 ELSE Day(alb[i].date),
             n |-> NameOf[i], id |-> i]
    BY DEF AlbumCursor
  <2> HIDE DEF c
  <2>5. c \in Cursors
    BY <1>1, <2>1, <2>2, <2>3, <2>4 DEF Cursors, AlbumRows
  <2>6. ASSUME ~Undated(w, i)
        PROVE  CursorKey(w.sort, c) = AlbumKey(w.sort, alb[i])
    <3>1. w.sort = "recent" => ReleaseDay(alb[i]) = Day(alb[i].date)
      BY <1>3, <2>6 DEF Undated, ReleaseDay, Day
    <3> QED
      BY <2>1, <2>2, <2>3, <2>4, <3>1 DEF CursorKey, AlbumKey, AlbumRows
  <2>7. ~Undated(w, i) => FromCursor(w.sort, c) = OrderOf(w, i)
    BY <1>3, <2>4, <2>6 DEF FromCursor, OrderOf
  <2>8. CursorOf(w, i) = c
    BY <1>3 DEF CursorOf, c
  <2> QED
    BY <2>5, <2>7, <2>8, DiscoverAssumption DEF Cursors
<1> QED
  BY <1>2, <1>3 DEF Walks

(* A walk over a catalogue that stands still: what it has seen is listed,   *)
(* in order; what it has not seen comes after.                              *)
Ascending(w) == \A j, k \in 1..Len(w.seen) : j < k => Before(OrderOf(w, w.seen[j]), OrderOf(w, w.seen[k]))
SeenListed(w) == \A k \in 1..Len(w.seen) : w.seen[k] \in Listed(w)
SeenOr(w, i) == \E k \in 1..Len(w.seen) : w.seen[k] = i
Halfway(w) ==
  /\ \A i \in Listed(w) : SeenOr(w, i) \/ i \in After(w)
  /\ \A i \in After(w), k \in 1..Len(w.seen) : Before(OrderOf(w, w.seen[k]), OrderOf(w, i))
Pages(w) ==
  w.quiet /\ ~w.undated =>
    /\ w.at # "idle" => Ascending(w) /\ SeenListed(w)
    /\ w.at = "page" => Halfway(w)
    /\ w.at = "end" => \A i \in Listed(w) : SeenOr(w, i)

LEMMA PagesShown == WalkTyped /\ Pages(walk) => PagesComplete
<1> SUFFICES ASSUME WalkTyped, Pages(walk), walk.at = "end", walk.quiet, ~walk.undated
             PROVE  /\ ToSet(walk.seen) = Listed(walk)
                    /\ \A j, k \in DOMAIN walk.seen :
                         j < k => Before(OrderOf(walk, walk.seen[j]), OrderOf(walk, walk.seen[k]))
  BY Zenon DEF PagesComplete
<1>1. DOMAIN walk.seen = 1..Len(walk.seen)
  BY DEF WalkTyped, Walks
<1>2. ToSet(walk.seen) = {walk.seen[k] : k \in 1..Len(walk.seen)}
  BY <1>1 DEF ToSet
<1>3. Ascending(walk) /\ SeenListed(walk) /\ \A i \in Listed(walk) : SeenOr(walk, i)
  BY DEF Pages
<1>4. ToSet(walk.seen) = Listed(walk)
  BY <1>2, <1>3 DEF SeenListed, SeenOr
<1> QED
  BY <1>1, <1>3, <1>4 DEF Ascending

(* What a walk lists, and in which order, is what it asks for and what the  *)
(* tables hold.                                                             *)
LEMMA SameList ==
    ASSUME UNCHANGED <<art, alb>>, walk'.what = walk.what, walk'.sort = walk.sort, walk'.tag = walk.tag
    PROVE  /\ Listed(walk)' = Listed(walk)
           /\ \A i : OrderOf(walk, i)' = OrderOf(walk, i)
<1>1. Listed(walk)' = Listed(walk)
  BY DEF Listed
<1>2. ASSUME NEW i
      PROVE  OrderOf(walk, i)' = OrderOf(walk, i)
  <2>1. ArtistKey(walk.sort, art[i])' = ArtistKey(walk.sort, art[i])
    BY Zenon DEF ArtistKey, Bit
  <2>2. AlbumKey(walk.sort, alb[i])' = AlbumKey(walk.sort, alb[i])
    BY Zenon DEF AlbumKey, ReleaseDay
  <2> QED
    BY <2>1, <2>2 DEF OrderOf
<1> QED
  BY <1>1, <1>2

LEMMA PagesStill ==
    ASSUME WalkTyped, Pages(walk), UNCHANGED <<art, alb>>,
           walk' = walk \/ \E b \in BOOLEAN : walk' = [walk EXCEPT !.quiet = @ /\ b]
    PROVE  Pages(walk)'
<1>1. /\ walk'.at = walk.at /\ walk'.what = walk.what /\ walk'.sort = walk.sort
      /\ walk'.tag = walk.tag /\ walk'.cursor = walk.cursor /\ walk'.seen = walk.seen
      /\ walk'.undated = walk.undated /\ (walk'.quiet => walk.quiet)
  BY DEF WalkTyped, Walks
<1>2. Listed(walk)' = Listed(walk) /\ \A i : OrderOf(walk, i)' = OrderOf(walk, i)
  BY <1>1, SameList
<1>3. After(walk) = {i \in Listed(walk) :
                       walk.cursor # None => Before(FromCursor(walk.sort, walk.cursor), OrderOf(walk, i))}
  BY DEF After
<1>8. After(walk)' = {i \in Listed(walk)' :
                        walk'.cursor # None => Before(FromCursor(walk'.sort, walk'.cursor), OrderOf(walk, i)')}
  BY Zenon DEF After, Before, FromCursor, CursorKey
<1>4. After(walk)' = After(walk)
  BY <1>1, <1>2, <1>3, <1>8
<1>5. (Ascending(walk) => Ascending(walk)') /\ (SeenListed(walk) => SeenListed(walk)')
  BY <1>1, <1>2 DEF Ascending, SeenListed
<1>6. \A i : SeenOr(walk, i)' <=> SeenOr(walk, i)
  BY <1>1 DEF SeenOr
<1>7. Halfway(walk) => Halfway(walk)'
  BY <1>1, <1>2, <1>4, <1>6 DEF Halfway
<1> QED
  BY <1>1, <1>2, <1>5, <1>6, <1>7 DEF Pages

LEMMA StartWalkPages ==
    ASSUME NEW what \in {"artists", "albums"}, NEW sort, NEW tag \in Nat \cup {None}, NEW limit \in Limits,
           what = "artists" => sort \in {"listeners", "tracks", "star", "az", "trending"},
           what = "albums" => sort \in {"popular", "tracks", "az", "recent"},
           StartWalk(what, sort, tag, limit)
    PROVE  WalkTyped' /\ Pages(walk)'
<1>1. walk' = [at |-> "page", what |-> what, sort |-> sort, tag |-> tag, limit |-> limit,
               cursor |-> None, seen |-> <<>>, undated |-> FALSE, quiet |-> TRUE]
  BY DEF StartWalk, NoWalk
<1>2. limit \in Nat \ {0}
  BY DiscoverAssumption
<1>3. sort \in {"listeners", "tracks", "star", "az", "trending", "popular", "recent"}
  OBVIOUS
<1>4. WalkTyped'
  BY <1>1, <1>2, <1>3 DEF WalkTyped, Walks
<1>5. Len(walk'.seen) = 0 /\ walk'.at = "page" /\ walk'.cursor = None
  BY <1>1
<1>6. Ascending(walk)' /\ SeenListed(walk)'
  BY <1>5 DEF Ascending, SeenListed
<1>7. After(walk)' = Listed(walk)'
  BY <1>5 DEF After
<1>8. Halfway(walk)'
  BY <1>5, <1>7 DEF Halfway
<1> QED
  BY <1>4, <1>5, <1>6, <1>8 DEF Pages

(* A page: the rows after the cursor in order, as many as asked for; the    *)
(* next page begins after the last of them.                                 *)
LEMMA FetchPageTyped ==
    ASSUME TablesTyped, WalkTyped, FetchPage
    PROVE  WalkTyped'
<1>1. PICK rows \in InOrder([i \in After(walk) |-> OrderOf(walk, i)]) :
         walk' = [walk EXCEPT !.at = IF Len(rows) > walk.limit THEN "page" ELSE "end",
                              !.seen = @ \o FirstRows(rows, walk.limit),
                              !.cursor = IF Len(rows) > walk.limit THEN CursorOf(walk, rows[walk.limit]) ELSE None,
                              !.undated = \/ @
                                          \/ /\ Len(rows) > walk.limit
                                             /\ walk.what = "albums" /\ walk.sort = "recent"
                                             /\ alb[rows[walk.limit]].date = None
                                             /\ alb[rows[walk.limit]].year # None]
  BY Zenon DEF FetchPage
<1>2. walk.limit \in Nat \ {0} /\ walk.seen \in Seq(Nat) /\ walk \in Walks
  BY DEF WalkTyped, Walks
<1>3. After(walk) \subseteq Listed(walk) /\ Listed(walk) \subseteq Nat /\ IsFiniteSet(After(walk))
  BY <1>2, ListedRows
<1>4. rows \in Seq(After(walk))
  BY <1>3, InOrderRows
<1>5. FirstRows(rows, walk.limit) \in Seq(After(walk))
  BY <1>2, <1>4, FirstRowsAre
<1>6. FirstRows(rows, walk.limit) \in Seq(Nat)
  BY <1>3, <1>5
<1>7. walk.seen \o FirstRows(rows, walk.limit) \in Seq(Nat)
  BY <1>2, <1>6
<1>8. Len(rows) > walk.limit => rows[walk.limit] \in Listed(walk)
  BY <1>2, <1>3, <1>4
<1>9. (IF Len(rows) > walk.limit THEN CursorOf(walk, rows[walk.limit]) ELSE None) \in Cursors \cup {None}
  BY <1>2, <1>8, CursorStands
<1> DEFINE u == \/ walk.undated
                \/ /\ Len(rows) > walk.limit
                   /\ walk.what = "albums" /\ walk.sort = "recent"
                   /\ alb[rows[walk.limit]].date = None
                   /\ alb[rows[walk.limit]].year # None
           c == IF Len(rows) > walk.limit THEN CursorOf(walk, rows[walk.limit]) ELSE None
           s == walk.seen \o FirstRows(rows, walk.limit)
<1>10. u \in BOOLEAN
  BY <1>2 DEF Walks
<1>11. c \in Cursors \cup {None} /\ s \in Seq(Nat)
  BY <1>7, <1>9
<1>12. walk' = [walk EXCEPT !.at = IF Len(rows) > walk.limit THEN "page" ELSE "end",
                            !.seen = s, !.cursor = c, !.undated = u]
  BY <1>1
<1> HIDE DEF u, c, s
<1> QED
  BY <1>2, <1>10, <1>11, <1>12 DEF WalkTyped, Walks

LEMMA FetchPagePages ==
    ASSUME TablesTyped, WalkTyped, Pages(walk), FetchPage
    PROVE  Pages(walk)'
<1> DEFINE O(i) == OrderOf(walk, i)
<1>1. PICK rows \in InOrder([i \in After(walk) |-> OrderOf(walk, i)]) :
         walk' = [walk EXCEPT !.at = IF Len(rows) > walk.limit THEN "page" ELSE "end",
                              !.seen = @ \o FirstRows(rows, walk.limit),
                              !.cursor = IF Len(rows) > walk.limit THEN CursorOf(walk, rows[walk.limit]) ELSE None,
                              !.undated = \/ @
                                          \/ /\ Len(rows) > walk.limit
                                             /\ walk.what = "albums" /\ walk.sort = "recent"
                                             /\ alb[rows[walk.limit]].date = None
                                             /\ alb[rows[walk.limit]].year # None]
  BY Zenon DEF FetchPage
<1> DEFINE more == Len(rows) > walk.limit
           last == rows[walk.limit]
           first == FirstRows(rows, walk.limit)
<1>2. walk.at = "page" /\ UNCHANGED <<art, alb>>
  BY DEF FetchPage
<1>3. walk.limit \in Nat \ {0} /\ walk.seen \in Seq(Nat) /\ walk \in Walks
  BY DEF WalkTyped, Walks
<1>4. /\ walk'.at = (IF more THEN "page" ELSE "end") /\ walk'.seen = walk.seen \o first
      /\ walk'.cursor = (IF more THEN CursorOf(walk, last) ELSE None)
      /\ walk'.quiet = walk.quiet
      /\ walk'.what = walk.what /\ walk'.sort = walk.sort /\ walk'.tag = walk.tag
  BY <1>1 DEF WalkTyped, Walks
<1>5. walk'.undated = (walk.undated \/ (more /\ Undated(walk, last)))
  BY <1>1 DEF WalkTyped, Walks, Undated
<1> SUFFICES ASSUME walk'.quiet, ~walk'.undated
             PROVE  /\ Ascending(walk)' /\ SeenListed(walk)'
                    /\ walk'.at = "page" => Halfway(walk)'
                    /\ walk'.at = "end" => \A i \in Listed(walk)' : SeenOr(walk, i)'
  BY DEF Pages
<1>6. Ascending(walk) /\ SeenListed(walk) /\ Halfway(walk)
  BY <1>2, <1>4, <1>5 DEF Pages
<1>7. Listed(walk)' = Listed(walk) /\ \A i : OrderOf(walk, i)' = O(i)
  BY <1>2, <1>4, SameList
<1>8. After(walk) \subseteq Listed(walk) /\ Listed(walk) \subseteq Nat /\ IsFiniteSet(After(walk))
  BY <1>3, ListedRows
<1>9. /\ rows \in Seq(After(walk))
      /\ \A j, k \in 1..Len(rows) : rows[j] = rows[k] => j = k
      /\ \A i \in After(walk) : \E k \in 1..Len(rows) : rows[k] = i
      /\ \A j, k \in 1..Len(rows) : j < k => ~Before(O(rows[k]), O(rows[j]))
  <2> DEFINE order == [i \in After(walk) |-> OrderOf(walk, i)]
  <2>1. rows \in Seq(After(walk))
      /\ (\A j, k \in 1..Len(rows) : rows[j] = rows[k] => j = k)
      /\ (\A i \in After(walk) : \E k \in 1..Len(rows) : rows[k] = i)
      /\ \A j, k \in 1..Len(rows) : j < k => ~Before(order[rows[k]], order[rows[j]])
    <3>1. DOMAIN order = After(walk) /\ rows \in InOrder(order)
      OBVIOUS
    <3> HIDE DEF order
    <3> QED
      BY <1>8, <3>1, InOrderRows
  <2>2. \A i \in After(walk) : order[i] = O(i)
    OBVIOUS
  <2>3. \A k \in 1..Len(rows) : rows[k] \in After(walk)
    BY <2>1
  <2> HIDE DEF order, O
  <2>4. \A j, k \in 1..Len(rows) : j < k => ~Before(O(rows[k]), O(rows[j]))
    <3>1. SUFFICES ASSUME NEW j \in 1..Len(rows), NEW k \in 1..Len(rows), j < k
                   PROVE  ~Before(O(rows[k]), O(rows[j]))
      OBVIOUS
    <3>2. order[rows[k]] = O(rows[k]) /\ order[rows[j]] = O(rows[j])
      BY <2>2, <2>3
    <3>3. ~Before(order[rows[k]], order[rows[j]])
      BY <2>1, <3>1
    <3> QED
      BY <3>2, <3>3
  <2> QED
    BY <2>1, <2>4
<1>10. /\ first \in Seq(After(walk)) /\ Len(first) = (IF more THEN walk.limit ELSE Len(rows))
       /\ \A k \in 1..Len(first) : k \in 1..Len(rows) /\ first[k] = rows[k]
  <2>1. /\ first \in Seq(After(walk)) /\ Len(rows) \in Nat
        /\ Len(first) = (IF Len(rows) < walk.limit THEN Len(rows) ELSE walk.limit)
        /\ \A k \in 1..Len(first) : k \in 1..Len(rows) /\ first[k] = rows[k]
    <3>1. walk.limit \in Nat
      BY <1>3
    <3>2. rows \in Seq(After(walk))
      BY <1>9
    <3>3. Len(rows) \in Nat
      BY <3>2
    <3> QED
      BY <3>1, <3>2, <3>3, FirstRowsAre
  <2> HIDE DEF first
  <2> QED
    BY <1>3, <2>1
<1>11. /\ \A i \in Listed(walk) : O(i) \in Orders /\ O(i)[4] = i
       /\ \A x, y \in Orders : /\ Before(x, y) => ~Before(y, x)
                               /\ x # y => Before(x, y) \/ Before(y, x)
  BY <1>3, OrderTyped, BeforeOrders
<1>12. \A k \in 1..Len(rows) : rows[k] \in After(walk)
  BY <1>9
<1>13. \A j, k \in 1..Len(rows) : j < k => Before(O(rows[j]), O(rows[k]))
  <2>1. SUFFICES ASSUME NEW j \in 1..Len(rows), NEW k \in 1..Len(rows), j < k
                 PROVE  Before(O(rows[j]), O(rows[k]))
    OBVIOUS
  <2>2. rows[j] # rows[k]
    BY <1>9, <2>1
  <2>3. rows[j] \in Listed(walk) /\ rows[k] \in Listed(walk)
    BY <1>8, <1>12
  <2>4. O(rows[j]) # O(rows[k])
    BY <1>11, <2>2, <2>3
  <2> QED
    BY <1>9, <1>11, <2>1, <2>3, <2>4
<1> DEFINE s == walk.seen
           seen == s \o first
<1>14. /\ Len(s) \in Nat /\ Len(first) \in Nat /\ Len(seen) = Len(s) + Len(first)
       /\ \A k \in 1..Len(s) : seen[k] = s[k]
       /\ \A k \in 1..Len(first) : seen[Len(s) + k] = first[k]
       /\ \A k \in 1..Len(seen) : k \in 1..Len(s) \/ (k - Len(s) \in 1..Len(first)
                                                      /\ seen[k] = first[k - Len(s)])
  <2>1. first \in Seq(Nat)
    BY <1>8, <1>10
  <2> HIDE DEF first
  <2> QED
    BY <1>3, <2>1, Joined
<1> HIDE DEF first, seen, s, more, last, O
<1>15. walk'.seen = seen
  BY <1>4 DEF seen, s
<1>16. \A k \in 1..Len(s) : s[k] \in Listed(walk)
  BY <1>6 DEF SeenListed, s
<1>17. SeenListed(walk)'
  <2>1. \A k \in 1..Len(seen) : seen[k] \in Listed(walk)
    BY <1>8, <1>10, <1>12, <1>14, <1>16
  <2> QED
    BY <1>7, <1>15, <2>1 DEF SeenListed
<1>18. Ascending(walk)'
  <2>1. SUFFICES ASSUME NEW j \in 1..Len(seen), NEW k \in 1..Len(seen), j < k
                 PROVE  Before(O(seen[j]), O(seen[k]))
    BY <1>7, <1>15 DEF Ascending
  <2>2. CASE k \in 1..Len(s)
    <3>1. j \in 1..Len(s)
      BY <1>14, <2>1, <2>2
    <3> QED
      BY <1>6, <1>14, <2>1, <2>2, <3>1 DEF Ascending, s, O
  <2>3. CASE k - Len(s) \in 1..Len(first) /\ seen[k] = first[k - Len(s)]
    <3>1. seen[k] = rows[k - Len(s)] /\ k - Len(s) \in 1..Len(rows)
      BY <1>10, <2>3
    <3>2. CASE j \in 1..Len(s)
      <4>1. \A i \in After(walk) : Before(O(s[j]), O(i))
        BY <1>6, <3>2 DEF Halfway, s, O
      <4> QED
        BY <1>12, <1>14, <3>1, <3>2, <4>1
    <3>3. CASE j - Len(s) \in 1..Len(first) /\ seen[j] = first[j - Len(s)]
      <4>1. seen[j] = rows[j - Len(s)] /\ j - Len(s) \in 1..Len(rows) /\ j - Len(s) < k - Len(s)
        BY <1>10, <1>14, <2>1, <3>3
      <4> QED
        BY <1>13, <3>1, <4>1
    <3> QED
      BY <1>14, <3>2, <3>3
  <2> QED
    BY <1>14, <2>2, <2>3
<1>19. \A i \in Listed(walk) : (\E k \in 1..Len(s) : s[k] = i) \/ i \in After(walk)
  BY <1>6 DEF Halfway, SeenOr, s
<1>20. ASSUME NEW m \in 1..Len(rows), m \in 1..Len(first)
       PROVE  \E k \in 1..Len(seen) : seen[k] = rows[m]
  <2>1. Len(s) + m \in 1..Len(seen) /\ seen[Len(s) + m] = rows[m]
    BY <1>10, <1>14, <1>20
  <2> QED
    BY <2>1
<1>21. \A k \in 1..Len(s) : k \in 1..Len(seen) /\ seen[k] = s[k]
  BY <1>14
<1>22. CASE ~more
  <2>1. Len(first) = Len(rows) /\ walk'.at = "end"
    BY <1>4, <1>10, <1>22
  <2>2. ASSUME NEW i \in Listed(walk)
        PROVE  \E k \in 1..Len(seen) : seen[k] = i
    <3>1. CASE \E k \in 1..Len(s) : s[k] = i
      BY <1>21, <3>1
    <3>2. CASE i \in After(walk)
      <4>1. PICK m \in 1..Len(rows) : rows[m] = i
        BY <1>9, <3>2
      <4> QED
        BY <1>20, <2>1, <4>1
    <3> QED
      BY <1>19, <3>1, <3>2
  <2>3. \A i \in Listed(walk)' : SeenOr(walk, i)'
    BY <1>7, <1>15, <2>2 DEF SeenOr
  <2> QED
    BY <1>17, <1>18, <2>1, <2>3
<1>23. CASE more
  <2>1. /\ walk'.at = "page" /\ walk'.cursor = CursorOf(walk, last)
        /\ Len(first) = walk.limit /\ walk.limit \in 1..Len(rows) /\ last = rows[walk.limit]
    <3>1. Len(rows) \in Nat /\ Len(rows) > walk.limit
      BY <1>9, <1>23 DEF more
    <3> QED
      BY <1>3, <1>4, <1>10, <1>23, <3>1 DEF last
  <2>2. last \in After(walk) /\ last \in Listed(walk)
    BY <1>8, <1>12, <2>1
  <2>3. ~Undated(walk, last)
    BY <1>5, <1>23
  <2>4. FromCursor(walk.sort, CursorOf(walk, last)) = O(last) /\ CursorOf(walk, last) # None
    BY <1>3, <2>2, <2>3, CursorStands DEF O
  <2>5. After(walk)' = {i \in Listed(walk)' :
                          walk'.cursor # None =>
                            Before(FromCursor(walk'.sort, walk'.cursor), OrderOf(walk, i)')}
    BY Zenon DEF After, Before, FromCursor, CursorKey
  <2>6. After(walk)' = {i \in Listed(walk) : Before(O(last), O(i))}
    BY <1>4, <1>7, <2>1, <2>4, <2>5
  <2>7. ASSUME NEW m \in 1..Len(rows)
        PROVE  m \in 1..Len(first) \/ rows[m] \in After(walk)'
    <3>1. m \in 1..Len(first) \/ walk.limit < m
      BY <1>3, <2>1
    <3>2. walk.limit < m => Before(O(last), O(rows[m]))
      BY <1>13, <2>1
    <3> QED
      BY <1>8, <1>12, <2>6, <3>1, <3>2
  <2>8. ASSUME NEW i \in Listed(walk)
        PROVE  (\E k \in 1..Len(seen) : seen[k] = i) \/ i \in After(walk)'
    <3>1. CASE \E k \in 1..Len(s) : s[k] = i
      BY <1>21, <3>1
    <3>2. CASE i \in After(walk)
      <4>1. PICK m \in 1..Len(rows) : rows[m] = i
        BY <1>9, <3>2
      <4> QED
        BY <1>20, <2>7, <4>1
    <3> QED
      BY <1>19, <3>1, <3>2
  <2>9. ASSUME NEW i \in After(walk)'
        PROVE  \E m \in 1..Len(rows) : rows[m] = i /\ walk.limit < m
    <3>1. i \in Listed(walk) /\ Before(O(last), O(i))
      BY <2>6, <2>9
    <3>2. ~Before(O(i), O(last))
      BY <1>11, <2>2, <3>1
    <3>3. \A k \in 1..Len(s) : s[k] # i
      <4>1. \A k \in 1..Len(s) : Before(O(s[k]), O(last))
        BY <1>6, <2>2 DEF Halfway, s, O
      <4> QED
        BY <3>2, <4>1
    <3>4. i \in After(walk)
      BY <1>19, <3>1, <3>3
    <3>5. PICK m \in 1..Len(rows) : rows[m] = i
      BY <1>9, <3>4
    <3>6. m # walk.limit
      BY <2>1, <3>1, <3>2, <3>5
    <3>7. ~(m < walk.limit)
      BY <1>13, <2>1, <3>2, <3>5
    <3> QED
      BY <1>3, <3>5, <3>6, <3>7
  <2>10. ASSUME NEW i \in After(walk)', NEW k \in 1..Len(seen)
         PROVE  Before(O(seen[k]), O(i))
    <3>1. PICK m \in 1..Len(rows) : rows[m] = i /\ walk.limit < m
      BY <2>9
    <3>2. CASE k \in 1..Len(s)
      <4>1. i \in After(walk)
        BY <1>12, <3>1
      <4>2. Before(O(s[k]), O(i))
        BY <1>6, <3>2, <4>1 DEF Halfway, s, O
      <4> QED
        BY <1>14, <3>2, <4>2
    <3>3. CASE k - Len(s) \in 1..Len(first) /\ seen[k] = first[k - Len(s)]
      <4>1. seen[k] = rows[k - Len(s)] /\ k - Len(s) \in 1..Len(rows) /\ k - Len(s) < m
        <5>1. k - Len(s) \in 1..walk.limit
          BY <2>1, <3>3
        <5> QED
          BY <1>3, <1>10, <3>1, <3>3, <5>1
      <4> QED
        BY <1>13, <3>1, <4>1
    <3> QED
      BY <1>14, <3>2, <3>3
  <2>11. Halfway(walk)'
    BY <1>7, <1>15, <2>8, <2>10 DEF Halfway, SeenOr
  <2> QED
    BY <1>17, <1>18, <2>1, <2>11
<1> QED
  BY <1>22, <1>23

LEMMA PagesStep ==
    ASSUME TablesTyped, WalkTyped, Pages(walk), [DiscoverNext]_discoverVars
    PROVE  WalkTyped' /\ Pages(walk)'
<1>1. CASE FactsChange
  <2>1. Changed
    BY <1>1 DEF FactsChange, TrackChanges, AlbumChanges, SubscriptionChanges, MergeArtists
  <2>2. walk' = [walk EXCEPT !.quiet = FALSE]
    BY <2>1 DEF Changed
  <2>3. WalkTyped' /\ ~walk'.quiet
    BY <2>2 DEF WalkTyped, Walks
  <2> QED
    BY <2>3 DEF Pages
<1>2. CASE RefreshAggregates
  <2> DEFINE b == <<art', alb'>> = <<art, alb>>
  <2>1. walk' = [walk EXCEPT !.quiet = @ /\ b]
    BY <1>2 DEF RefreshAggregates
  <2>2. b \in BOOLEAN
    OBVIOUS
  <2>3. CASE UNCHANGED <<art, alb>>
    <3>1. Pages(walk)'
      BY <2>1, <2>2, <2>3, PagesStill
    <3>2. WalkTyped'
      BY <2>1, <2>2 DEF WalkTyped, Walks
    <3> QED
      BY <3>1, <3>2
  <2>4. CASE ~(UNCHANGED <<art, alb>>)
    <3>1. walk' = [walk EXCEPT !.quiet = FALSE]
      BY <2>1, <2>4 DEF WalkTyped, Walks
    <3>2. WalkTyped' /\ ~walk'.quiet
      BY <3>1 DEF WalkTyped, Walks
    <3> QED
      BY <3>2 DEF Pages
  <2> QED
    BY <2>3, <2>4
<1>3. CASE WalkNext
  <2>1. CASE FetchPage
    BY <2>1, FetchPageTyped, FetchPagePages
  <2>2. ASSUME NEW limit \in Limits, NEW sort \in {"listeners", "tracks", "star", "az", "trending"},
               NEW tag \in {None} \cup {GenreOf[t] : t \in Recordings},
               StartWalk("artists", sort, tag, limit)
        PROVE  WalkTyped' /\ Pages(walk)'
    <3>1. tag \in Nat \cup {None}
      BY DiscoverAssumption
    <3> QED
      BY <2>2, <3>1, StartWalkPages
  <2>3. ASSUME NEW limit \in Limits, NEW sort \in {"popular", "tracks", "az", "recent"},
               StartWalk("albums", sort, None, limit)
        PROVE  WalkTyped' /\ Pages(walk)'
    BY <2>3, StartWalkPages
  <2> QED
    BY <1>3, <2>1, <2>2, <2>3, Zenon DEF WalkNext
<1>4. CASE AdminNext \/ SettingsNext \/ SpotNext \/ UNCHANGED discoverVars
  <2>1. UNCHANGED <<art, alb, walk>>
    <3>1. CASE AdminNext
      BY <3>1 DEF AdminNext, PromotedCreate, PromotedUpdate, PromotedDelete, Edited
    <3>2. CASE SettingsNext
      BY <3>2 DEF SettingsNext, SettingsUpdate, Edited
    <3>3. CASE SpotNext
      BY <3>3 DEF SpotNext, LoadSettings, ReadPromoted, ReadRows, ReadStars, SpotFails, Spot
    <3>4. CASE UNCHANGED discoverVars
      BY <3>4 DEF discoverVars
    <3> QED
      BY <1>4, <3>1, <3>2, <3>3, <3>4
  <2> QED
    BY <2>1, PagesStill DEF WalkTyped
<1> QED
  BY <1>1, <1>2, <1>3, <1>4 DEF DiscoverNext

-----------------------------------------------------------------------------
(* The spotlight: what is promoted, once each; and how far a spotlight is.  *)
Kinds == {"artist", "album"}
Rows == [type : Kinds, id : Artists \cup Albums, position : {0, 1}, active : BOOLEAN, created : Nat]
Entities == Kinds \X (Artists \cup Albums)
PromotedOnce ==
  /\ promoted \subseteq Rows /\ edits \in Nat
  /\ \A p, q \in promoted : Entity(p) = Entity(q) => p = q
  /\ settings \in [show : BOOLEAN, strategy : {"popular", "random"}, limit : Nat]
SpotTyped ==
  spot \in [at : {"idle", "promoted", "rows", "stars", "done", "failed"}, asked : Nat, rows : Seq(Rows),
            items : Seq(Entities), used : SUBSET (Artists \cup Albums),
            show : BOOLEAN, strategy : {"popular", "random"}]
SpotInv ==
  /\ Len(spot.items) <= spot.asked
  /\ \A j, k \in 1..Len(spot.items) : spot.items[j] = spot.items[k] => j = k
  /\ spot.at = "rows" =>
       /\ Len(spot.rows) <= spot.asked
       /\ \A j, k \in 1..Len(spot.rows) : Entity(spot.rows[j]) = Entity(spot.rows[k]) => j = k
  /\ spot.at = "stars" =>
       \A k \in 1..Len(spot.items) : spot.items[k][1] = "artist" => spot.items[k][2] \in spot.used

LEMMA PromotedFinite == PromotedOnce => IsFiniteSet(promoted)
<1> SUFFICES ASSUME PromotedOnce
             PROVE  IsFiniteSet(promoted)
  OBVIOUS
<1>1. IsFiniteSet(Artists \cup Albums)
  BY FS_Union, DiscoverAssumption
<1>2. IsFiniteSet({"artist"}) /\ IsFiniteSet({"album"})
  BY FS_Singleton
<1>3. Kinds = {"artist"} \cup {"album"}
  BY DEF Kinds
<1>4. IsFiniteSet(Kinds)
  BY <1>2, <1>3, FS_Union
<1>5. IsFiniteSet(Entities)
  BY <1>1, <1>4, FS_Product DEF Entities
<1> DEFINE e == [p \in promoted |-> Entity(p)]
<1>6. e \in Injection(promoted, Entities)
  BY DEF PromotedOnce, Rows, Entities, Entity, Injection, IsInjective
<1> QED
  BY <1>5, <1>6, FS_Injection

LEMMA CreatePromoted ==
    ASSUME PromotedOnce, NEW type \in Kinds, NEW id \in Artists \cup Albums,
           NEW position \in {None, 0, 1}, NEW active \in {None, TRUE, FALSE},
           PromotedCreate(type, id, position, active)
    PROVE  PromotedOnce'
<1> DEFINE old == {p \in promoted : Entity(p) = <<type, id>>}
           new == [type |-> type, id |-> id, position |-> Or(position, 0), active |-> Or(active, TRUE),
                   created |-> edits]
           With(p) == [p EXCEPT !.position = Or(position, @), !.active = Or(active, @)]
<1>1. /\ promoted' = (promoted \ old) \cup IF old = {} THEN {new} ELSE {With(p) : p \in old}
      /\ edits' = edits + 1 /\ settings' = settings
  BY DEF PromotedCreate, Edited
<1>2. Or(position, 0) \in {0, 1} /\ Or(active, TRUE) \in BOOLEAN
  BY DEF Or
<1>3. \A p \in Rows : With(p) \in Rows /\ Entity(With(p)) = Entity(p)
  BY DEF Rows, Or, Entity
<1>4. new \in Rows /\ Entity(new) = <<type, id>>
  BY <1>2 DEF Rows, PromotedOnce, Entity
<1>6. promoted \subseteq Rows /\ \A p, q \in promoted : Entity(p) = Entity(q) => p = q
  BY DEF PromotedOnce
<1>7. old \subseteq promoted /\ \A p \in promoted : p \in old <=> Entity(p) = <<type, id>>
  OBVIOUS
<1> HIDE DEF old, new, With
<1>5. edits' \in Nat /\ settings' \in [show : BOOLEAN, strategy : {"popular", "random"}, limit : Nat]
  BY <1>1 DEF PromotedOnce
<1>8. CASE old = {}
  BY <1>1, <1>4, <1>5, <1>6, <1>7, <1>8 DEF PromotedOnce
<1>9. CASE old # {}
  <2>1. promoted' = (promoted \ old) \cup {With(p) : p \in old}
    BY <1>1, <1>9
  <2>2. \A x \in promoted' : (x \in promoted /\ x \notin old) \/ \E p \in old : x = With(p)
    BY <2>1
  <2>3. \A p \in old : p \in promoted /\ With(p) \in Rows /\ Entity(With(p)) = <<type, id>>
    BY <1>3, <1>6, <1>7
  <2>4. promoted' \subseteq Rows
    BY <1>6, <2>2, <2>3
  <2>5. \A x, y \in promoted' : Entity(x) = Entity(y) => x = y
    <3>1. SUFFICES ASSUME NEW x \in promoted', NEW y \in promoted', Entity(x) = Entity(y)
                   PROVE  x = y
      OBVIOUS
    <3>2. CASE \E p \in old : x = With(p)
      <4>1. Entity(y) = <<type, id>>
        BY <2>3, <3>1, <3>2
      <4>2. \E q \in old : y = With(q)
        BY <1>7, <2>2, <4>1
      <4>3. \A p, q \in old : p = q
        BY <1>6, <1>7
      <4> QED
        BY <3>2, <4>2, <4>3
    <3>3. CASE x \in promoted /\ x \notin old
      BY <1>6, <1>7, <2>2, <2>3, <3>1, <3>3
    <3> QED
      BY <2>2, <3>2, <3>3
  <2> QED
    BY <1>5, <2>4, <2>5 DEF PromotedOnce
<1> QED
  BY <1>8, <1>9

LEMMA UpdatePromoted ==
    ASSUME PromotedOnce, NEW p \in promoted,
           NEW position \in {None, 0, 1}, NEW active \in {None, TRUE, FALSE},
           PromotedUpdate(p, position, active)
    PROVE  PromotedOnce'
<1> DEFINE new == [p EXCEPT !.position = Or(position, @), !.active = Or(active, @)]
<1>1. /\ promoted' = (promoted \ {p}) \cup {new}
      /\ edits' = edits + 1 /\ settings' = settings
  BY DEF PromotedUpdate, Edited
<1>2. p \in Rows
  BY DEF PromotedOnce
<1>3. new \in Rows /\ Entity(new) = Entity(p)
  BY <1>2 DEF Rows, Or, Entity
<1> HIDE DEF new
<1> QED
  BY <1>1, <1>3 DEF PromotedOnce

LEMMA PromotedStep ==
    ASSUME PromotedOnce, [DiscoverNext]_discoverVars
    PROVE  PromotedOnce'
<1>1. CASE AdminNext
  <2>1. PICK position \in {None, 0, 1}, active \in {None, TRUE, FALSE} :
          \/ \E a \in Artists : PromotedCreate("artist", a, position, active)
          \/ \E d \in Albums : PromotedCreate("album", d, position, active)
          \/ \E p \in promoted : PromotedUpdate(p, position, active) \/ PromotedDelete(p)
    BY <1>1 DEF AdminNext
  <2>2. "artist" \in Kinds /\ "album" \in Kinds
    BY DEF Kinds
  <2>3. CASE \E a \in Artists : PromotedCreate("artist", a, position, active)
    BY <2>2, <2>3, CreatePromoted
  <2>4. CASE \E d \in Albums : PromotedCreate("album", d, position, active)
    BY <2>2, <2>4, CreatePromoted
  <2>5. ASSUME NEW p \in promoted, PromotedUpdate(p, position, active)
        PROVE  PromotedOnce'
    BY <2>5, UpdatePromoted
  <2>6. ASSUME NEW p \in promoted, PromotedDelete(p)
        PROVE  PromotedOnce'
    BY <2>6 DEF PromotedDelete, Edited, PromotedOnce
  <2> QED
    BY <2>1, <2>3, <2>4, <2>5, <2>6
<1>2. CASE SettingsNext
  <2>1. PICK show \in {None, TRUE, FALSE}, strategy \in {None, "popular", "random"}, limit \in {None, 0, 2} :
          SettingsUpdate(show, strategy, limit)
    BY <1>2 DEF SettingsNext
  <2>2. /\ Or(show, settings.show) \in BOOLEAN
        /\ Or(strategy, settings.strategy) \in {"popular", "random"}
        /\ Or(limit, settings.limit) \in Nat
    <3>1. settings.show \in BOOLEAN /\ settings.strategy \in {"popular", "random"} /\ settings.limit \in Nat
      BY DEF PromotedOnce
    <3>3. (Or(show, settings.show) = show /\ show # None) \/ Or(show, settings.show) = settings.show
      BY DEF Or
    <3>4. (Or(strategy, settings.strategy) = strategy /\ strategy # None) \/ Or(strategy, settings.strategy) = settings.strategy
      BY DEF Or
    <3>5. (Or(limit, settings.limit) = limit /\ limit # None) \/ Or(limit, settings.limit) = settings.limit
      BY DEF Or
    <3>6. Or(show, settings.show) \in BOOLEAN
      BY <3>1, <3>3, Zenon
    <3>7. Or(strategy, settings.strategy) \in {"popular", "random"}
      BY <3>1, <3>4
    <3>8. Or(limit, settings.limit) \in Nat
      BY <3>1, <3>5
    <3> QED
      BY <3>6, <3>7, <3>8
  <2> QED
    BY <2>1, <2>2 DEF SettingsUpdate, Edited, PromotedOnce
<1>3. CASE FactsChange \/ RefreshAggregates \/ WalkNext \/ SpotNext \/ UNCHANGED discoverVars
  <2>1. UNCHANGED adminVars
    <3>1. CASE FactsChange
      BY <3>1 DEF FactsChange, TrackChanges, AlbumChanges, SubscriptionChanges, MergeArtists, Changed
    <3>2. CASE RefreshAggregates
      BY <3>2 DEF RefreshAggregates
    <3>3. CASE WalkNext
      BY <3>3 DEF WalkNext, StartWalk, FetchPage
    <3>4. CASE SpotNext
      BY <3>4 DEF SpotNext, LoadSettings, ReadPromoted, ReadRows, ReadStars, SpotFails, Spot
    <3>5. CASE UNCHANGED discoverVars
      BY <3>5 DEF discoverVars
    <3> QED
      BY <1>3, <3>1, <3>2, <3>3, <3>4, <3>5
  <2> QED
    BY <2>1 DEF adminVars, PromotedOnce
<1> QED
  BY <1>1, <1>2, <1>3 DEF DiscoverNext

LEMMA LoadSettingsSpot ==
    ASSUME PromotedOnce, NEW limit \in {None} \cup Limits, LoadSettings(limit)
    PROVE  SpotTyped' /\ SpotInv'
<1> DEFINE wanted == Or(limit, settings.limit)
           asked == IF wanted > MaxSpotlight THEN MaxSpotlight ELSE wanted
           then == IF asked = 0 THEN "done" ELSE "promoted"
<1>1. settings.limit \in Nat /\ settings.show \in BOOLEAN /\ settings.strategy \in {"popular", "random"}
  BY DEF PromotedOnce
<1>2. (wanted = limit /\ limit # None) \/ wanted = settings.limit
  BY DEF Or
<1>3. wanted \in Nat
  BY <1>1, <1>2, DiscoverAssumption
<1> HIDE DEF wanted
<1>4. asked \in Nat
  BY <1>3, DiscoverAssumption
<1>5. spot' = [[NoSpot EXCEPT !.asked = asked, !.show = settings.show, !.strategy = settings.strategy]
                 EXCEPT !.at = then]
  BY DEF LoadSettings, Spot, wanted
<1>6. then \in {"promoted", "done"}
  OBVIOUS
<1> HIDE DEF asked, then
<1>7. spot' = [at |-> then, asked |-> asked, rows |-> <<>>, items |-> <<>>, used |-> {},
               show |-> settings.show, strategy |-> settings.strategy]
  BY <1>5 DEF NoSpot
<1>8. SpotTyped'
  BY <1>1, <1>4, <1>6, <1>7 DEF SpotTyped
<1> QED
  BY <1>4, <1>6, <1>7, <1>8 DEF SpotInv

LEMMA ReadPromotedSpot ==
    ASSUME PromotedOnce, SpotTyped, SpotInv, ReadPromoted
    PROVE  SpotTyped' /\ SpotInv'
<1> DEFINE D == {p \in promoted : p.active}
           order == [p \in D |-> <<p.position, p.created>>]
<1>1. PICK rows \in InOrder(order) : Spot("promoted", "rows", [spot EXCEPT !.rows = FirstRows(rows, spot.asked)])
  BY DEF ReadPromoted
<1>2. IsFiniteSet(D) /\ DOMAIN order = D /\ D \subseteq promoted
  BY PromotedFinite, FS_Subset
<1>3. rows \in Seq(D) /\ \A j, k \in 1..Len(rows) : rows[j] = rows[k] => j = k
  <2> HIDE DEF D, order
  <2> QED
    BY <1>1, <1>2, InOrderRows
<1>4. spot.asked \in Nat
  BY DEF SpotTyped
<1> DEFINE first == FirstRows(rows, spot.asked)
<1> HIDE DEF D, order
<1>5. /\ first \in Seq(D) /\ Len(rows) \in Nat
      /\ Len(first) = (IF Len(rows) < spot.asked THEN Len(rows) ELSE spot.asked)
      /\ \A k \in 1..Len(first) : k \in 1..Len(rows) /\ first[k] = rows[k]
  BY <1>3, <1>4, FirstRowsAre
<1>6. spot' = [spot EXCEPT !.rows = first, !.at = "rows"]
  BY <1>1 DEF Spot, SpotTyped
<1> HIDE DEF first
<1>7. Len(first) \in Nat /\ Len(first) <= spot.asked
  BY <1>4, <1>5
<1>8. first \in Seq(Rows)
  BY <1>2, <1>5 DEF PromotedOnce
<1>9. SpotTyped'
  BY <1>6, <1>8 DEF SpotTyped
<1>10. ASSUME NEW j \in 1..Len(first), NEW k \in 1..Len(first), Entity(first[j]) = Entity(first[k])
       PROVE  j = k
  <2>1. first[j] \in promoted /\ first[k] \in promoted
    BY <1>2, <1>5
  <2>2. first[j] = first[k]
    BY <1>10, <2>1 DEF PromotedOnce
  <2> QED
    BY <1>3, <1>5, <2>2
<1>11. /\ spot'.rows = first /\ spot'.at = "rows" /\ spot'.items = spot.items /\ spot'.asked = spot.asked
  BY <1>6 DEF SpotTyped
<1>12. \A j, k \in 1..Len(spot'.rows) : Entity(spot'.rows[j]) = Entity(spot'.rows[k]) => j = k
  BY <1>10, <1>11
<1>13. \A j, k \in 1..Len(spot'.rows) : (Entity(spot.rows[j]) = Entity(spot.rows[k]))' => j = k
  BY <1>12, Zenon DEF Entity
<1> QED
  BY <1>7, <1>9, <1>11, <1>13 DEF SpotInv

LEMMA ReadRowsSpot ==
    ASSUME SpotTyped, SpotInv, ReadRows
    PROVE  SpotTyped' /\ SpotInv'
<1> DEFINE order == [k \in Present |-> <<k>>]
           Items(found) == [j \in DOMAIN found |-> Entity(spot.rows[found[j]])]
           Used(found) == {e[2] : e \in {i \in ToSet(Items(found)) : i[1] = "artist"}}
           Then(found) == IF spot.show /\ Len(Items(found)) < spot.asked THEN "stars" ELSE "done"
<1>1. PICK found \in InOrder(order) :
        Spot("rows", Then(found), [spot EXCEPT !.items = Items(found), !.used = Used(found)])
  BY Zenon DEF ReadRows
<1> DEFINE items == Items(found)
           used == Used(found)
           then == Then(found)
<1>2. spot.rows \in Seq(Rows) /\ spot.asked \in Nat /\ spot.at = "rows" /\ spot.items \in Seq(Entities)
  BY <1>1 DEF Spot, SpotTyped
<1>3. /\ Len(spot.rows) \in Nat /\ Len(spot.rows) <= spot.asked
      /\ \A j, k \in 1..Len(spot.rows) : Entity(spot.rows[j]) = Entity(spot.rows[k]) => j = k
  BY <1>2 DEF SpotInv
<1>4. Present \subseteq 1..Len(spot.rows)
  BY <1>2 DEF Present
<1>5. IsFiniteSet(1..Len(spot.rows)) /\ Cardinality(1..Len(spot.rows)) = Len(spot.rows)
  BY <1>3, FS_Interval
<1>6. IsFiniteSet(Present) /\ Cardinality(Present) <= Len(spot.rows)
  BY <1>4, <1>5, FS_Subset
<1>7. /\ found \in Seq(Present) /\ Len(found) = Cardinality(Present) /\ Cardinality(Present) \in Nat
      /\ \A j, k \in 1..Len(found) : found[j] = found[k] => j = k
  <2>1. DOMAIN order = Present
    OBVIOUS
  <2> HIDE DEF order
  <2> QED
    BY <1>1, <1>6, <2>1, InOrderRows
<1>8. \A k \in 1..Len(found) : found[k] \in 1..Len(spot.rows)
  <2>1. \A k \in 1..Len(found) : found[k] \in Present
    <3>1. found \in Seq(Present)
      BY <1>7
    <3> HIDE DEF items, used, then, order
    <3> QED
      BY <3>1
  <2> HIDE DEF items, used, then, order
  <2> QED
    BY <1>4, <2>1
<1>9. \A k \in 1..Len(spot.rows) : Entity(spot.rows[k]) \in Entities
  <2>1. \A r \in Rows : Entity(r) \in Entities
    BY DEF Rows, Entities, Entity
  <2> QED
    BY <1>2, <2>1
<1>10. items = [j \in 1..Len(found) |-> Entity(spot.rows[found[j]])]
  BY <1>7
<1>11. spot' = [spot EXCEPT !.items = items, !.used = used, !.at = then]
  BY <1>1 DEF Spot, SpotTyped
<1>12. then \in {"stars", "done"}
  OBVIOUS
<1> HIDE DEF items, then, order
<1>13. items \in Seq(Entities) /\ Len(items) = Len(found)
  BY <1>7, <1>8, <1>9, <1>10
<1>14. used = {e[2] : e \in {i \in {items[k] : k \in 1..Len(items)} : i[1] = "artist"}}
  <2>1. DOMAIN items = 1..Len(items)
    BY <1>13
  <2>2. used = {e[2] : e \in {i \in ToSet(items) : i[1] = "artist"}}
    BY DEF items
  <2> QED
    BY <2>1, <2>2 DEF ToSet
<1> HIDE DEF used
<1>15. \A k \in 1..Len(items) : items[k] \in Entities
  BY <1>13
<1>16. used \subseteq Artists \cup Albums
  BY <1>14, <1>15 DEF Entities
<1>17. \A k \in 1..Len(items) : items[k][1] = "artist" => items[k][2] \in used
  BY <1>14
<1>18. ASSUME NEW j \in 1..Len(items), NEW k \in 1..Len(items), items[j] = items[k]
       PROVE  j = k
  <2>1. found[j] = found[k]
    BY <1>3, <1>8, <1>10, <1>13, <1>18
  <2> QED
    BY <1>7, <1>13, <2>1
<1>19. SpotTyped'
  BY <1>11, <1>12, <1>13, <1>16 DEF SpotTyped
<1>20. /\ spot'.at = then /\ spot'.items = items /\ spot'.used = used /\ spot'.asked = spot.asked
  BY <1>11 DEF SpotTyped
<1>21. Len(items) \in Nat /\ Len(items) <= spot.asked
  BY <1>2, <1>3, <1>6, <1>7, <1>13
<1> QED
  BY <1>12, <1>17, <1>18, <1>19, <1>20, <1>21 DEF SpotInv

LEMMA ReadStarsSpot ==
    ASSUME SpotTyped, SpotInv, ReadStars
    PROVE  SpotTyped' /\ SpotInv'
<1>1. PICK taken \in SUBSET StarsFor : \E rows \in InOrder([a \in taken |-> Rank(a)]) :
        /\ Chosen(taken, StarsFor, spot.asked - Len(spot.items))
        /\ Spot("stars", "done",
                [spot EXCEPT !.items = @ \o [k \in DOMAIN rows |-> <<"artist", rows[k]>>]])
  BY DEF ReadStars
<1> DEFINE order == [a \in taken |-> Rank(a)]
<1>2. PICK rows \in InOrder(order) :
        Spot("stars", "done", [spot EXCEPT !.items = @ \o [k \in DOMAIN rows |-> <<"artist", rows[k]>>]])
  BY <1>1
<1>3. DOMAIN order = taken
  OBVIOUS
<1>4. StarsFor \subseteq Artists /\ \A a \in StarsFor : a \notin spot.used
  BY DEF StarsFor, Stars
<1>5. IsFiniteSet(StarsFor) /\ IsFiniteSet(taken)
  BY <1>1, <1>4, FS_Subset, DiscoverAssumption
<1> HIDE DEF order
<1>6. /\ Cardinality(taken) \in Nat /\ rows \in Seq(taken) /\ Len(rows) = Cardinality(taken)
      /\ \A j, k \in 1..Len(rows) : rows[j] = rows[k] => j = k
  BY <1>2, <1>3, <1>5, InOrderRows
<1> DEFINE s == spot.items
           t == [k \in 1..Len(rows) |-> <<"artist", rows[k]>>]
<1>7. /\ spot.asked \in Nat /\ s \in Seq(Entities) /\ Len(s) \in Nat /\ Len(s) <= spot.asked
      /\ spot.at = "stars"
  BY <1>2 DEF SpotTyped, SpotInv, Spot
<1>8. Cardinality(taken) <= spot.asked - Len(s)
  <2>1. Cardinality(StarsFor) \in Nat
    BY <1>5, FS_CardinalityType
  <2>2. Chosen(taken, StarsFor, spot.asked - Len(s))
    BY <1>1
  <2> QED
    BY <1>6, <1>7, <2>1, <2>2 DEF Chosen
<1>9. \A k \in 1..Len(rows) : rows[k] \in Artists /\ rows[k] \notin spot.used
  BY <1>1, <1>4, <1>6
<1>10. t \in Seq(Entities) /\ Len(t) = Len(rows)
  <2>1. \A k \in 1..Len(rows) : <<"artist", rows[k]>> \in Entities
    BY <1>9 DEF Entities, Kinds
  <2>2. Len(rows) \in Nat
    BY <1>6
  <2> QED
    BY <2>1, <2>2
<1>11. spot' = [spot EXCEPT !.items = s \o t, !.at = "done"]
  <2>1. DOMAIN rows = 1..Len(rows)
    BY <1>6
  <2> QED
    BY <1>2, <2>1 DEF Spot, SpotTyped
<1>12. \A k \in 1..Len(t) : t[k] = <<"artist", rows[k]>>
  BY <1>10
<1> HIDE DEF s, t
<1> DEFINE all == s \o t
<1>13. /\ all \in Seq(Entities) /\ Len(all) = Len(s) + Len(t)
       /\ \A k \in 1..Len(s) : all[k] = s[k]
       /\ \A k \in 1..Len(all) : k \in 1..Len(s) \/ (k - Len(s) \in 1..Len(t) /\ all[k] = t[k - Len(s)])
  <2>1. s \in Seq(Entities) /\ t \in Seq(Entities)
    BY <1>7, <1>10
  <2>2. /\ all \in Seq(Entities) /\ Len(all) = Len(s) + Len(t)
        /\ \A k \in 1..Len(s) : all[k] = s[k]
    BY <2>1, Joined
  <2>3. \A k \in 1..Len(all) : k \in 1..Len(s) \/ (k - Len(s) \in 1..Len(t) /\ all[k] = t[k - Len(s)])
    BY <2>1, Joined
  <2> QED
    BY <2>2, <2>3
<1>14. \A k \in 1..Len(s) : s[k][1] = "artist" => s[k][2] \in spot.used
  BY <1>7 DEF SpotInv, s
<1>15. \A j, k \in 1..Len(s) : s[j] = s[k] => j = k
  BY DEF SpotInv, s
<1> HIDE DEF all
<1>16. \A j \in 1..Len(s), k \in 1..Len(t) : s[j] # t[k]
  <2>1. SUFFICES ASSUME NEW j \in 1..Len(s), NEW k \in 1..Len(t), s[j] = t[k]
                 PROVE  FALSE
    OBVIOUS
  <2>2. s[j][1] = "artist" /\ s[j][2] = rows[k]
    BY <1>12, <2>1
  <2> QED
    BY <1>9, <1>10, <1>14, <2>2
<1>17. \A j, k \in 1..Len(t) : t[j] = t[k] => j = k
  <2>1. SUFFICES ASSUME NEW j \in 1..Len(t), NEW k \in 1..Len(t), t[j] = t[k]
                 PROVE  j = k
    OBVIOUS
  <2>2. rows[j] = rows[k]
    BY <1>12, <2>1
  <2> QED
    BY <1>6, <1>10, <2>2
<1>18. ASSUME NEW j \in 1..Len(all), NEW k \in 1..Len(all), all[j] = all[k]
       PROVE  j = k
  <2>1. Len(s) \in Nat /\ Len(t) \in Nat
    BY <1>6, <1>7, <1>10
  <2>2. CASE j \in 1..Len(s) /\ k \in 1..Len(s)
    BY <1>13, <1>15, <1>18, <2>2
  <2>3. CASE j \in 1..Len(s) /\ k - Len(s) \in 1..Len(t) /\ all[k] = t[k - Len(s)]
    BY <1>13, <1>16, <1>18, <2>3
  <2>4. CASE k \in 1..Len(s) /\ j - Len(s) \in 1..Len(t) /\ all[j] = t[j - Len(s)]
    BY <1>13, <1>16, <1>18, <2>4
  <2>5. CASE /\ j - Len(s) \in 1..Len(t) /\ all[j] = t[j - Len(s)]
             /\ k - Len(s) \in 1..Len(t) /\ all[k] = t[k - Len(s)]
    <3>1. j - Len(s) = k - Len(s)
      BY <1>17, <1>18, <2>5
    <3>2. Len(all) \in Nat
      BY <1>13, <2>1
    <3> QED
      BY <2>1, <3>1, <3>2
  <2> QED
    BY <1>13, <2>2, <2>3, <2>4, <2>5
<1>19. spot' = [spot EXCEPT !.items = all, !.at = "done"]
  BY <1>11 DEF all
<1>20. SpotTyped'
  BY <1>13, <1>19 DEF SpotTyped
<1>21. spot'.items = all /\ spot'.at = "done" /\ spot'.asked = spot.asked
  BY <1>19 DEF SpotTyped
<1>22. Len(all) <= spot.asked
  BY <1>6, <1>7, <1>8, <1>10, <1>13
<1> QED
  BY <1>18, <1>20, <1>21, <1>22 DEF SpotInv

LEMMA SpotStep ==
    ASSUME PromotedOnce, SpotTyped, SpotInv, [DiscoverNext]_discoverVars
    PROVE  SpotTyped' /\ SpotInv'
<1>1. CASE SpotNext
  <2>1. CASE SpotFails
    <3>1. spot' = [NoSpot EXCEPT !.at = "failed"]
      BY <2>1 DEF SpotFails, Spot
    <3>2. spot' = [at |-> "failed", asked |-> 0, rows |-> <<>>, items |-> <<>>, used |-> {},
                   show |-> FALSE, strategy |-> "popular"]
      BY <3>1 DEF NoSpot
    <3> QED
      BY <3>2 DEF SpotTyped, SpotInv
  <2> QED
    BY <1>1, <2>1, LoadSettingsSpot, ReadPromotedSpot, ReadRowsSpot, ReadStarsSpot DEF SpotNext
<1>2. CASE FactsChange \/ RefreshAggregates \/ WalkNext \/ AdminNext \/ SettingsNext \/ UNCHANGED discoverVars
  <2>1. spot' = spot
    <3>1. CASE FactsChange
      BY <3>1 DEF FactsChange, TrackChanges, AlbumChanges, SubscriptionChanges, MergeArtists, Changed
    <3>2. CASE RefreshAggregates
      BY <3>2 DEF RefreshAggregates
    <3>3. CASE WalkNext
      BY <3>3 DEF WalkNext, StartWalk, FetchPage
    <3>4. CASE AdminNext
      BY <3>4 DEF AdminNext, PromotedCreate, PromotedUpdate, PromotedDelete, Edited
    <3>5. CASE SettingsNext
      BY <3>5 DEF SettingsNext, SettingsUpdate, Edited
    <3>6. CASE UNCHANGED discoverVars
      BY <3>6 DEF discoverVars
    <3> QED
      BY <1>2, <3>1, <3>2, <3>3, <3>4, <3>5, <3>6
  <2>2. SpotTyped'
    BY <2>1 DEF SpotTyped
  <2>3. SpotInv'
    BY <2>1 DEF SpotInv, Entity
  <2> QED
    BY <2>2, <2>3
<1> QED
  BY <1>1, <1>2 DEF DiscoverNext

-----------------------------------------------------------------------------
ShownInv == WalkTyped /\ Pages(walk) /\ PromotedOnce /\ SpotTyped /\ SpotInv

LEMMA ShownInit == DiscoverInit([Artists -> ArtistRows], [Albums -> AlbumRows]) => ShownInv
<1> SUFFICES ASSUME DiscoverInit([Artists -> ArtistRows], [Albums -> AlbumRows])
             PROVE  ShownInv
  OBVIOUS
<1>1. walk = [at |-> "idle", what |-> "artists", sort |-> "az", tag |-> None, limit |-> 1,
              cursor |-> None, seen |-> <<>>, undated |-> FALSE, quiet |-> TRUE]
  BY DEF DiscoverInit, NoWalk
<1>2. WalkTyped /\ walk.at = "idle"
  BY <1>1 DEF WalkTyped, Walks
<1>3. Pages(walk)
  BY <1>2 DEF Pages
<1>4. PromotedOnce
  BY DEF DiscoverInit, PromotedOnce
<1>5. spot = [at |-> "idle", asked |-> 0, rows |-> <<>>, items |-> <<>>, used |-> {},
              show |-> FALSE, strategy |-> "popular"]
  BY DEF DiscoverInit, NoSpot
<1>6. SpotTyped /\ SpotInv
  BY <1>5 DEF SpotTyped, SpotInv
<1> QED
  BY <1>2, <1>3, <1>4, <1>6 DEF ShownInv

(* Whatever the catalogue holds and however rows are level, a client that   *)
(* walks it while it stands still sees every row it lists once, in order;   *)
(* and a spotlight never shows anything twice, or more than it was asked    *)
(* for, though the admin and the refresh change what it reads meanwhile.    *)
THEOREM CatalogueShownOnce == DiscoverSpec => []ShownOnce
<1>1. ShownInv => ShownOnce
  <2>1. ShownInv => PagesComplete
    BY PagesShown DEF ShownInv
  <2>2. ShownInv => SpotlightDistinct
    <3>1. SpotTyped => DOMAIN spot.items = 1..Len(spot.items)
      BY DEF SpotTyped
    <3> QED
      BY <3>1 DEF ShownInv, SpotInv, SpotlightDistinct
  <2> QED
    BY <2>1, <2>2 DEF ShownOnce
<1>2. ASSUME AggTyped, AggInv, ShownInv, [DiscoverNext]_discoverVars
      PROVE  (AggTyped /\ AggInv /\ ShownInv)'
  <2>1. AggTyped' /\ AggInv'
    BY <1>2, AggStep
  <2>2. WalkTyped' /\ Pages(walk)'
    BY <1>2, PagesStep DEF AggTyped, ShownInv
  <2>3. PromotedOnce' /\ SpotTyped' /\ SpotInv'
    BY <1>2, PromotedStep, SpotStep DEF ShownInv
  <2> QED
    BY <2>1, <2>2, <2>3 DEF ShownInv
<1>3. DiscoverInit([Artists -> ArtistRows], [Albums -> AlbumRows]) => AggTyped /\ AggInv /\ ShownInv
  BY AggInit, ShownInit
<1> QED
  BY <1>1, <1>2, <1>3, PTL DEF DiscoverSpec

=============================================================================
