------------------------------- MODULE Sessions -------------------------------
(***************************************************************************)
(* The backend's SoundCloud sessions: lazy and forced token refresh behind *)
(* a per-session mutex, sign-in, logout, and linking a second device       *)
(* (auth/service.rs, auth/link_service.rs).                                *)
(*                                                                         *)
(* A grant is one authorisation by SoundCloud.  Its refresh token is used  *)
(* once: refreshing with generation n makes n+1 the only one accepted.  A  *)
(* session row holds the grant and generation of its tokens, and the grant *)
(* its last sign-in wrote along with the user id (account).  A caller is a *)
(* task inside get_valid_session, refresh_session or LinkService::claim.   *)
(***************************************************************************)
EXTENDS Naturals, FiniteSets

CONSTANTS
    Sessions,  \* session ids
    Grants,    \* authorisations SoundCloud gives
    Callers,   \* concurrent tasks
    Locks,     \* mutex objects of the refresh_locks cache
    NoLock,
    MaxGen,    \* bound: no token of this generation expires or is refreshed by force
    MaxTasks,  \* bound: tasks in a behaviour
    MaxFaults  \* bound: failed calls, cancelled tasks, evicted locks

ASSUME SessionAssumption ==
    /\ NoLock \notin Locks
    /\ Cardinality(Locks) >= Cardinality(Sessions) + Cardinality(Callers)
    /\ MaxGen \in Nat /\ MaxTasks \in Nat /\ MaxFaults \in Nat

VARIABLES
    session,  \* table sessions
    current,  \* SoundCloud: the generation it accepts, for each grant it gave
    revoked,  \* SoundCloud: grants signed out
    caller,   \* the tasks
    cache,    \* refresh_locks: the mutex of each session
    failing,  \* sessions with a cached refresh failure
    link,     \* status of the link request
    leaving,  \* sessions whose logout is between sign_out and DELETE
    tasks,    \* tasks so far
    faults,   \* faults so far
    lost,     \* grants whose newest token a fault has dropped
    linked,   \* grants copied to a second session
    raced,    \* sign-ins that landed on a session being refreshed
    split     \* sessions that had two mutexes in use at once

tables == <<session, current, revoked, failing, link, leaving>>
notes  == <<tasks, lost, linked, raced, split>>
vars   == <<session, current, revoked, caller, cache, failing, link, leaving, tasks, faults,
            lost, linked, raced, split>>

-----------------------------------------------------------------------------
(* A row, before its first sign-in ("new") and after its logout ("ended").  *)
Row == [state : {"open"}, grant : Grants, gen : Nat, fresh : BOOLEAN, account : Grants]
NewRow == [state |-> "new"]
Ended  == [state |-> "ended"]
OpenRow(grant, gen, fresh, account) ==
    [state |-> "open", grant |-> grant, gen |-> gen, fresh |-> fresh, account |-> account]
Open(s) == session[s].state = "open"

(* A task that waits for a mutex or holds one knows which; no other has one. *)
Kinds == {"use", "force", "claim"}
Free   == [pc : {"lookup", "make", "mint", "mark"}, kind : Kinds, s : Sessions,
           lock : {NoLock}, row : SUBSET Row]
Locked == [pc : {"wait", "read", "call", "save"}, kind : Kinds, s : Sessions,
           lock : Locks, row : SUBSET Row]
Task   == Free \cup Locked
NoTask == [pc |-> "idle"]
TaskOf(pc, kind, s, lock, row) ==
    [pc |-> pc, kind |-> kind, s |-> s, lock |-> lock, row |-> row]

Active(c)  == caller[c].pc # "idle"
On(c, s)   == Active(c) /\ caller[c].s = s
Holds(c)   == caller[c].pc \in {"read", "call", "save"}
Queues(c)  == Holds(c) \/ caller[c].pc = "wait"
InFlight(c) == caller[c].pc \in {"call", "save"}
UsedLocks  == {cache[s] : s \in Sessions} \cup {caller[c].lock : c \in {d \in Callers : Queues(d)}}
Given      == {g \in Grants : current[g] # {}}
Accepts(row) == row.grant \notin revoked /\ current[row.grant] = {row.gen}

Init ==
    /\ session = [s \in Sessions |-> NewRow]
    /\ current = [g \in Grants |-> {}]
    /\ revoked = {} /\ failing = {} /\ leaving = {}
    /\ caller = [c \in Callers |-> NoTask]
    /\ cache = [s \in Sessions |-> NoLock]
    /\ link = "pending"
    /\ tasks = 0 /\ faults = 0
    /\ lost = {} /\ linked = {} /\ raced = {} /\ split = {}

Fault == faults < MaxFaults /\ faults' = faults + 1

Moves(c, pc, lock, row) ==
    caller' = [caller EXCEPT ![c] = TaskOf(pc, caller[c].kind, caller[c].s, lock, row)]
Goes(c, pc)         == Moves(c, pc, caller[c].lock, caller[c].row)
Carries(c, pc, row) == Moves(c, pc, caller[c].lock, {row})
Returns(c)          == caller' = [caller EXCEPT ![c] = NoTask]

(* get_valid_session gave a session and the mutex goes: a claim goes on to  *)
(* copy the session, the rest use its access token.                         *)
Gets(c, row) ==
    IF caller[c].kind = "claim" THEN Moves(c, "mint", NoLock, {row}) ELSE Returns(c)

-----------------------------------------------------------------------------
(* A caller.                                                               *)

(* A task starts with its first SELECT: claim refuses a link already used,  *)
(* get_valid_session returns a session whose token is good for a while yet, *)
(* refresh_session goes for the mutex at once.                              *)
Started(kind, s, row) ==
    IF kind # "force" /\ row.fresh THEN TaskOf("mint", kind, s, NoLock, {row})
    ELSE TaskOf("lookup", kind, s, NoLock, {})

Begin(c, kind, s) ==
    /\ ~Active(c) /\ Open(s)
    /\ kind = "claim" => link = "pending"
    /\ kind = "use" => ~session[s].fresh
    /\ kind = "force" => session[s].gen < MaxGen
    /\ tasks < MaxTasks /\ tasks' = tasks + 1
    /\ caller' = [caller EXCEPT ![c] = Started(kind, s, session[s])]
    /\ UNCHANGED <<tables, cache, faults, lost, linked, raced, split>>

(* get_or_create_lock is a get, then an insert: two callers that both miss  *)
(* make a mutex each.                                                       *)
Lookup(c) ==
    /\ caller[c].pc = "lookup"
    /\ IF cache[caller[c].s] = NoLock THEN Goes(c, "make")
       ELSE Moves(c, "wait", cache[caller[c].s], {})
    /\ UNCHANGED <<tables, cache, faults, notes>>

MakeLock(c) ==
    /\ caller[c].pc = "make"
    /\ LET s == caller[c].s
           new == CHOOSE l \in Locks : l \notin UsedLocks
       IN  /\ Locks \ UsedLocks # {}
           /\ cache' = [cache EXCEPT ![s] = new]
           /\ Moves(c, "wait", new, {})
           /\ split' = IF \E d \in Callers : On(d, s) /\ Queues(d) THEN split \cup {s} ELSE split
    /\ UNCHANGED <<tables, tasks, faults, lost, linked, raced>>

\* Mutant of Acquire: the guard is dropped at once (let _ = lock.lock().await).
AcquireForAMoment(c) ==
    /\ caller[c].pc = "wait"
    /\ Goes(c, "read")
    /\ UNCHANGED <<tables, cache, faults, notes>>

Acquire(c) ==
    /\ caller[c].pc = "wait"
    /\ \A d \in Callers : Holds(d) => caller[d].lock # caller[c].lock
    /\ Goes(c, "read")
    /\ UNCHANGED <<tables, cache, faults, notes>>

(* The session is read again under the mutex; a refresh that failed lately  *)
(* is not tried again.                                                      *)
Reread(c) ==
    /\ caller[c].pc = "read"
    /\ LET s == caller[c].s  row == session[s]
       IN  IF ~Open(s) THEN Returns(c)
           ELSE IF caller[c].kind # "force" /\ row.fresh THEN Gets(c, row)
           ELSE IF s \in failing THEN Returns(c)
           ELSE Carries(c, "call", row)
    /\ UNCHANGED <<tables, cache, faults, notes>>

Renewed(row) == OpenRow(row.grant, row.gen + 1, TRUE, row.account)
Rotated(row) == current' = [current EXCEPT ![row.grant] = {row.gen + 1}]

CallOk(c) ==
    /\ caller[c].pc = "call"
    /\ \E row \in caller[c].row :
          Accepts(row) /\ Rotated(row) /\ Carries(c, "save", Renewed(row))
    /\ failing' = failing \ {caller[c].s}
    /\ UNCHANGED <<session, revoked, link, leaving, cache, faults, notes>>

CallRefused(c) ==
    /\ caller[c].pc = "call"
    /\ \E row \in caller[c].row : ~Accepts(row)
    /\ failing' = failing \cup {caller[c].s}
    /\ Returns(c)
    /\ UNCHANGED <<session, current, revoked, link, leaving, cache, faults, notes>>

(* No answer: the token may have been rotated all the same. *)
CallFails(c) ==
    /\ caller[c].pc = "call"
    /\ Fault
    /\ failing' = failing \cup {caller[c].s}
    /\ \/ UNCHANGED <<current, lost>>
       \/ \E row \in caller[c].row : Accepts(row) /\ Rotated(row) /\ lost' = lost \cup {row.grant}
    /\ Returns(c)
    /\ UNCHANGED <<session, revoked, link, leaving, cache, tasks, linked, raced, split>>

\* Mutant of Saved: refresh_token is left out of the UPDATE.
SavedAccessToken(old, row) == OpenRow(row.grant, old.gen, row.fresh, old.account)

(* UPDATE sessions ... WHERE id: the tokens only, not the account. *)
Saved(old, row) == OpenRow(row.grant, row.gen, row.fresh, old.account)

Save(c) ==
    /\ caller[c].pc = "save"
    /\ \E row \in caller[c].row : LET s == caller[c].s  new == Saved(session[s], row)
          IN  IF Open(s) THEN session' = [session EXCEPT ![s] = new] /\ Gets(c, new)
              ELSE UNCHANGED session /\ Returns(c)
    /\ UNCHANGED <<current, revoked, failing, link, leaving, cache, faults, notes>>

(* LinkService::claim: a new session with the same tokens, then the link    *)
(* request is marked.                                                       *)
Mint(c) ==
    /\ caller[c].pc = "mint"
    /\ \E t \in Sessions, row \in caller[c].row :
          /\ session[t] = NewRow
          /\ session' = [session EXCEPT ![t] = row]
          /\ linked' = linked \cup {row.grant}
    /\ Goes(c, "mark")
    /\ UNCHANGED <<current, revoked, failing, link, leaving, cache, tasks, faults, lost, raced, split>>

Mark(c) ==
    /\ caller[c].pc = "mark"
    /\ link' = "claimed"
    /\ Returns(c)
    /\ UNCHANGED <<session, current, revoked, failing, leaving, cache, faults, notes>>

(* The client goes away or a statement fails: the task ends where it is and *)
(* drops its mutex.                                                         *)
Cancel(c) ==
    /\ Active(c)
    /\ Fault
    /\ lost' = IF caller[c].pc = "save" THEN lost \cup {row.grant : row \in caller[c].row} ELSE lost
    /\ Returns(c)
    /\ UNCHANGED <<tables, cache, tasks, linked, raced, split>>

-----------------------------------------------------------------------------
(* What the rest of the system does to sessions.                           *)

\* Mutant of SignedIn: the user id is left out of the UPDATE.
SignedInTokens(old, g) == OpenRow(g, 0, TRUE, IF old.state = "open" THEN old.account ELSE g)

(* do_callback_work's UPDATE of the session being re-authenticated, or its  *)
(* INSERT of a new one, with the tokens of a new grant.                     *)
SignedIn(old, g) == OpenRow(g, 0, TRUE, g)

SignIn(s) ==
    /\ session[s].state # "ended"
    /\ \E g \in Grants \ Given :
          /\ current' = [current EXCEPT ![g] = {0}]
          /\ session' = [session EXCEPT ![s] = SignedIn(@, g)]
          /\ raced' = IF \E c \in Callers : On(c, s) /\ InFlight(c) THEN raced \cup {g} ELSE raced
    /\ UNCHANGED <<revoked, caller, cache, failing, link, leaving, tasks, faults, lost, linked, split>>

(* logout: sign_out at SoundCloud, then the DELETE and the lock's removal.  *)
SignOut(s) ==
    /\ Open(s) /\ s \notin leaving
    /\ revoked' = revoked \cup {session[s].grant}
    /\ leaving' = leaving \cup {s}
    /\ UNCHANGED <<session, current, caller, cache, failing, link, faults, notes>>

EndSession(s) ==
    /\ s \in leaving
    /\ session' = [session EXCEPT ![s] = Ended]
    /\ leaving' = leaving \ {s}
    /\ cache' = [cache EXCEPT ![s] = NoLock]
    /\ UNCHANGED <<current, revoked, caller, failing, link, faults, notes>>

(* Time: an access token nears its end, a cached failure expires, and the   *)
(* lock cache evicts an entry (idle, or over its capacity).                 *)
Expire(s) ==
    /\ Open(s) /\ session[s].fresh /\ session[s].gen < MaxGen
    /\ session' = [session EXCEPT ![s] = OpenRow(@.grant, @.gen, FALSE, @.account)]
    /\ UNCHANGED <<current, revoked, caller, cache, failing, link, leaving, faults, notes>>

FailureExpires(s) ==
    /\ s \in failing
    /\ failing' = failing \ {s}
    /\ UNCHANGED <<session, current, revoked, caller, cache, link, leaving, faults, notes>>

Evict(s) ==
    /\ cache[s] # NoLock
    /\ Fault
    /\ cache' = [cache EXCEPT ![s] = NoLock]
    /\ UNCHANGED <<tables, caller, notes>>

-----------------------------------------------------------------------------
Call(c) == CallOk(c) \/ CallRefused(c) \/ CallFails(c)
Step(c) ==
    \/ Lookup(c) \/ MakeLock(c) \/ Reread(c) \/ Call(c) \/ Save(c) \/ Mint(c) \/ Mark(c)

Next ==
    \/ \E c \in Callers, s \in Sessions : \E kind \in Kinds : Begin(c, kind, s)
    \/ \E c \in Callers : Step(c) \/ Acquire(c) \/ Cancel(c)
    \/ \E s \in Sessions : SignIn(s) \/ SignOut(s) \/ EndSession(s)
    \/ \E s \in Sessions : Expire(s) \/ FailureExpires(s) \/ Evict(s)

Spec == Init /\ [][Next]_vars

-----------------------------------------------------------------------------
TypeOK ==
    /\ session \in [Sessions -> Row \cup {NewRow, Ended}]
    /\ current \in [Grants -> SUBSET Nat]
    /\ caller \in [Callers -> Task \cup {NoTask}]
    /\ cache \in [Sessions -> Locks \cup {NoLock}]
    /\ link \in {"pending", "claimed"}
    /\ revoked \subseteq Grants /\ failing \subseteq Sessions /\ leaving \subseteq Sessions
    /\ tasks \in 0..MaxTasks /\ faults \in 0..MaxFaults
    /\ lost \subseteq Grants /\ linked \subseteq Grants /\ raced \subseteq Grants /\ split \subseteq Sessions

(* The newest refresh token is never forgotten: it is in the session's row, *)
(* or a caller is about to write it there.  Only a fault between the        *)
(* rotation and the UPDATE loses it, and linking shares it.                 *)
TokenKept ==
    \A s \in Sessions :
        (Open(s) /\ session[s].grant \notin lost \cup linked \cup revoked)
            => \/ Accepts(session[s])
               \/ \E c \in Callers :
                     /\ On(c, s) /\ caller[c].pc = "save"
                     /\ \E row \in caller[c].row : row.grant = session[s].grant /\ Accepts(row)

(* A session's tokens are those of the account it shows, unless a sign-in   *)
(* landed while a refresh of the old tokens was between its SELECT and its  *)
(* UPDATE, which then overwrites the new ones.                              *)
AccountTokens ==
    \A s \in Sessions :
        (Open(s) /\ session[s].account \notin raced) => session[s].grant = session[s].account

(* One refresh of a session at a time, as long as its callers share one     *)
(* mutex.                                                                   *)
SingleFlight ==
    \A s \in Sessions \ split : \A c, d \in Callers :
        (On(c, s) /\ On(d, s) /\ InFlight(c) /\ InFlight(d)) => c = d
=============================================================================
