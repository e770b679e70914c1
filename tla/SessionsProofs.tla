---------------------------- MODULE SessionsProofs ----------------------------
(***************************************************************************)
(* The session store for any number of sessions, grants, callers, locks:   *)
(* its types; one refresh of a session at a time, by which mutex the       *)
(* callers of one session queue on, since get_or_create_lock may hand out  *)
(* two; that a session's tokens are its account's, by what each task has   *)
(* read; and that the newest refresh token is kept, by which generation of *)
(* a grant is where.  The last two do not rest on the mutex.               *)
(***************************************************************************)
EXTENDS Sessions, TLAPS

LEMMA TaskType ==
    ASSUME TypeOK, NEW c \in Callers, Active(c)
    PROVE  caller[c] \in Task
BY DEF TypeOK, Active, NoTask

LEMMA RowOf ==
    ASSUME TypeOK, NEW s \in Sessions, Open(s)
    PROVE  session[s] \in Row
BY DEF TypeOK, Open, NewRow, Ended

(* The rows the code builds are rows. *)
LEMMA RowUpdates ==
    ASSUME NEW row \in Row
    PROVE  /\ Renewed(row) \in Row
           /\ \A old \in Row : Saved(old, row) \in Row
           /\ OpenRow(row.grant, row.gen, FALSE, row.account) \in Row
BY DEF Row, Renewed, Saved, OpenRow

LEMMA TaskFields ==
    ASSUME NEW task \in Task
    PROVE  /\ task.kind \in Kinds /\ task.s \in Sessions /\ task.row \in SUBSET Row
           /\ task.pc \in {"lookup", "make", "mint", "mark"} => task.lock = NoLock
           /\ task.pc \in {"wait", "read", "call", "save"} => task.lock \in Locks
BY DEF Task, Free, Locked

(* A caller that goes on stays a task. *)
LEMMA MovesTyped ==
    ASSUME TypeOK, NEW c \in Callers, Active(c), NEW pc, NEW lock, NEW row \in SUBSET Row,
           \/ pc \in {"lookup", "make", "mint", "mark"} /\ lock = NoLock
           \/ pc \in {"wait", "read", "call", "save"} /\ lock \in Locks,
           Moves(c, pc, lock, row)
    PROVE  caller' \in [Callers -> Task \cup {NoTask}]
<1>1. caller[c].kind \in Kinds /\ caller[c].s \in Sessions
  BY TaskType, TaskFields
<1>2. TaskOf(pc, caller[c].kind, caller[c].s, lock, row) \in Task
  BY <1>1 DEF TaskOf, Task, Free, Locked
<1>3. QED
  BY <1>2 DEF Moves, TypeOK

LEMMA GetsTyped ==
    ASSUME TypeOK, NEW c \in Callers, Active(c), NEW row \in Row, Gets(c, row)
    PROVE  caller' \in [Callers -> Task \cup {NoTask}]
<1>1. CASE Returns(c)
  BY <1>1 DEF Returns, TypeOK
<1>2. CASE Moves(c, "mint", NoLock, {row})
  BY <1>2, MovesTyped
<1>3. QED
  BY <1>1, <1>2 DEF Gets

LEMMA InitTyped == Init => TypeOK
BY SessionAssumption DEF Init, TypeOK

LEMMA CallerTyped ==
    ASSUME TypeOK, NEW c \in Callers, Step(c) \/ Acquire(c) \/ Cancel(c)
    PROVE  TypeOK'
<1>0. Active(c) => /\ caller[c] \in Task /\ caller[c].s \in Sessions
                   /\ caller[c].row \in SUBSET Row
                   /\ caller[c].pc \in {"lookup", "make", "mint", "mark"} => caller[c].lock = NoLock
                   /\ caller[c].pc \in {"wait", "read", "call", "save"} => caller[c].lock \in Locks
  BY TaskType, TaskFields
<1>1. CASE Lookup(c)
  <2>1. Active(c)
    BY <1>1 DEF Lookup, Active
  <2>2. /\ caller[c].lock = NoLock /\ caller[c].row \in SUBSET Row
        /\ cache[caller[c].s] \in Locks \cup {NoLock}
    BY <1>0, <1>1, <2>1 DEF Lookup, TypeOK
  <2>3. caller' \in [Callers -> Task \cup {NoTask}]
    BY <1>1, <2>1, <2>2, MovesTyped DEF Lookup, Goes
  <2>4. QED
    BY <1>1, <2>3 DEF Lookup, TypeOK, tables, notes
<1>2. CASE MakeLock(c)
  <2>1. Active(c)
    BY <1>2 DEF MakeLock, Active
  <2>2. PICK new \in Locks : /\ cache' = [cache EXCEPT ![caller[c].s] = new]
                             /\ Moves(c, "wait", new, {})
    BY <1>2 DEF MakeLock
  <2>3. caller' \in [Callers -> Task \cup {NoTask}]
    BY <2>1, <2>2, MovesTyped
  <2>4. caller[c].s \in Sessions
    BY <1>0, <2>1
  <2>5. split' \subseteq Sessions
    BY <1>2, <2>4 DEF MakeLock, TypeOK
  <2>6. QED
    BY <1>2, <2>2, <2>3, <2>4, <2>5 DEF MakeLock, TypeOK, tables
<1>3. CASE Acquire(c)
  <2>1. Active(c)
    BY <1>3 DEF Acquire, Active
  <2>2. caller[c].lock \in Locks /\ caller[c].row \in SUBSET Row
    BY <1>0, <1>3, <2>1 DEF Acquire
  <2>3. caller' \in [Callers -> Task \cup {NoTask}]
    BY <1>3, <2>1, <2>2, MovesTyped DEF Acquire, Goes
  <2>4. QED
    BY <1>3, <2>3 DEF Acquire, TypeOK, tables, notes
<1>4. CASE Reread(c)
  <2>1. Active(c)
    BY <1>4 DEF Reread, Active
  <2>2. caller[c].lock \in Locks /\ caller[c].s \in Sessions
    BY <1>0, <1>4, <2>1 DEF Reread
  <2>3. caller' \in [Callers -> Task \cup {NoTask}]
    <3>1. CASE Returns(c)
      BY <3>1 DEF Returns, TypeOK
    <3>2. CASE Open(caller[c].s) /\ Gets(c, session[caller[c].s])
      BY <2>1, <2>2, <3>2, RowOf, GetsTyped
    <3>3. CASE Open(caller[c].s) /\ Carries(c, "call", session[caller[c].s])
      <4>1. {session[caller[c].s]} \in SUBSET Row
        BY <2>2, <3>3, RowOf
      <4>2. QED
        BY <2>1, <2>2, <3>3, <4>1, MovesTyped DEF Carries
    <3>4. QED
      BY <1>4, <3>1, <3>2, <3>3 DEF Reread
  <2>4. QED
    BY <1>4, <2>3 DEF Reread, TypeOK, tables, notes
<1>5. CASE CallOk(c)
  <2>1. Active(c)
    BY <1>5 DEF CallOk, Active
  <2>3. PICK row \in caller[c].row : Rotated(row) /\ Carries(c, "save", Renewed(row))
    BY <1>5 DEF CallOk
  <2>4. row \in Row /\ caller[c].lock \in Locks /\ caller[c].s \in Sessions
    BY <1>0, <1>5, <2>1, <2>3 DEF CallOk
  <2>5. {Renewed(row)} \in SUBSET Row
    BY <2>4, RowUpdates
  <2>6. caller' \in [Callers -> Task \cup {NoTask}]
    BY <2>1, <2>3, <2>4, <2>5, MovesTyped DEF Carries
  <2>7. current' \in [Grants -> SUBSET Nat]
    BY <2>3, <2>4 DEF Rotated, TypeOK, Row
  <2>8. QED
    BY <1>5, <2>6, <2>7 DEF CallOk, TypeOK, notes
<1>6. CASE CallRefused(c)
  <2>1. caller[c].s \in Sessions
    BY <1>0, <1>6 DEF CallRefused, Active
  <2>2. QED
    BY <1>6, <2>1 DEF CallRefused, Returns, TypeOK, notes
<1>7. CASE CallFails(c)
  <2>2. caller[c].s \in Sessions /\ \A row \in caller[c].row : row \in Row
    BY <1>0, <1>7 DEF CallFails, Active
  <2>3. current' \in [Grants -> SUBSET Nat] /\ lost' \subseteq Grants
    BY <1>7, <2>2 DEF CallFails, Rotated, TypeOK, Row
  <2>4. faults' \in 0..MaxFaults
    BY <1>7, SessionAssumption DEF CallFails, Fault, TypeOK
  <2>5. QED
    BY <1>7, <2>2, <2>3, <2>4 DEF CallFails, Returns, TypeOK
<1>8. CASE Save(c)
  <2>1. Active(c)
    BY <1>8 DEF Save, Active
  <2>3. PICK row \in caller[c].row : LET s == caller[c].s  new == Saved(session[s], row)
          IN  IF Open(s) THEN session' = [session EXCEPT ![s] = new] /\ Gets(c, new)
              ELSE UNCHANGED session /\ Returns(c)
    BY <1>8 DEF Save
  <2>4. row \in Row /\ caller[c].s \in Sessions
    BY <1>0, <2>1, <2>3
  <2>5. CASE Open(caller[c].s)
    <3>1. Saved(session[caller[c].s], row) \in Row
      BY <2>4, <2>5, RowOf, RowUpdates
    <3>2. caller' \in [Callers -> Task \cup {NoTask}]
      BY <2>1, <2>3, <2>5, <3>1, GetsTyped
    <3>3. session' \in [Sessions -> Row \cup {NewRow, Ended}]
      BY <2>3, <2>5, <3>1 DEF TypeOK
    <3>4. QED
      BY <1>8, <3>2, <3>3 DEF Save, TypeOK, notes
  <2>6. CASE ~Open(caller[c].s)
    BY <1>8, <2>3, <2>6 DEF Save, Returns, TypeOK, notes
  <2>7. QED
    BY <2>5, <2>6
<1>9. CASE Mint(c)
  <2>1. Active(c)
    BY <1>9 DEF Mint, Active
  <2>3. PICK t \in Sessions, row \in caller[c].row :
            /\ session' = [session EXCEPT ![t] = row]
            /\ linked' = linked \cup {row.grant}
    BY <1>9 DEF Mint
  <2>4. /\ row \in Row /\ row.grant \in Grants /\ caller[c].row \in SUBSET Row
        /\ caller[c].lock = NoLock
    BY <1>0, <1>9, <2>1, <2>3 DEF Mint, Row
  <2>5. caller' \in [Callers -> Task \cup {NoTask}]
    BY <1>9, <2>1, <2>4, MovesTyped DEF Mint, Goes
  <2>6. session' \in [Sessions -> Row \cup {NewRow, Ended}] /\ linked' \subseteq Grants
    BY <2>3, <2>4 DEF TypeOK
  <2>7. QED
    BY <1>9, <2>5, <2>6 DEF Mint, TypeOK
<1>10. CASE Mark(c)
  BY <1>10 DEF Mark, Returns, TypeOK, notes
<1>11. CASE Cancel(c)
  <2>2. lost' \subseteq Grants
    BY <1>0, <1>11 DEF Cancel, TypeOK, Row
  <2>3. faults' \in 0..MaxFaults
    BY <1>11, SessionAssumption DEF Cancel, Fault, TypeOK
  <2>4. QED
    BY <1>11, <2>2, <2>3 DEF Cancel, Returns, TypeOK, tables
<1>12. QED
  BY <1>1, <1>2, <1>3, <1>4, <1>5, <1>6, <1>7, <1>8, <1>9, <1>10, <1>11 DEF Step, Call

LEMMA BeginTyped ==
    ASSUME TypeOK, NEW c \in Callers, NEW s \in Sessions,
           NEW kind \in Kinds, Begin(c, kind, s)
    PROVE  TypeOK'
<1>1. session[s] \in Row
  BY RowOf DEF Begin
<1>2. Started(kind, s, session[s]) \in Task
  BY <1>1 DEF Started, TaskOf, Task, Free
<1>3. tasks' \in 0..MaxTasks
  BY SessionAssumption DEF Begin, TypeOK
<1>4. QED
  BY <1>2, <1>3 DEF Begin, TypeOK, tables

LEMMA WorldTyped ==
    ASSUME TypeOK, NEW s \in Sessions,
           \/ SignIn(s) \/ SignOut(s) \/ EndSession(s)
           \/ Expire(s) \/ FailureExpires(s) \/ Evict(s)
    PROVE  TypeOK'
<1>1. CASE SignIn(s)
  <2>1. PICK g \in Grants : /\ current' = [current EXCEPT ![g] = {0}]
                            /\ session' = [session EXCEPT ![s] = OpenRow(g, 0, TRUE, g)]
                            /\ raced' \subseteq raced \cup {g}
    BY <1>1 DEF SignIn, SignedIn
  <2>2. OpenRow(g, 0, TRUE, g) \in Row
    BY DEF OpenRow, Row
  <2>3. current' \in [Grants -> SUBSET Nat] /\ raced' \subseteq Grants
    BY <2>1 DEF TypeOK
  <2>4. session' \in [Sessions -> Row \cup {NewRow, Ended}]
    BY <2>1, <2>2 DEF TypeOK
  <2>5. QED
    BY <1>1, <2>3, <2>4 DEF SignIn, TypeOK
<1>2. CASE SignOut(s)
  <2>1. session[s].grant \in Grants
    BY <1>2, RowOf DEF SignOut, Row
  <2>2. QED
    BY <1>2, <2>1 DEF SignOut, TypeOK, notes
<1>3. CASE EndSession(s)
  BY <1>3 DEF EndSession, TypeOK, notes
<1>4. CASE Expire(s)
  <2>1. OpenRow(session[s].grant, session[s].gen, FALSE, session[s].account) \in Row
    BY <1>4, RowOf, RowUpdates DEF Expire
  <2>2. QED
    BY <1>4, <2>1 DEF Expire, TypeOK, notes
<1>5. CASE FailureExpires(s)
  BY <1>5 DEF FailureExpires, TypeOK, notes
<1>6. CASE Evict(s)
  <2>1. faults' \in 0..MaxFaults
    BY <1>6, SessionAssumption DEF Evict, Fault, TypeOK
  <2>2. QED
    BY <1>6, <2>1 DEF Evict, TypeOK, tables, notes
<1>7. QED
  BY <1>1, <1>2, <1>3, <1>4, <1>5, <1>6

LEMMA TypeInductive == TypeOK /\ [Next]_vars => TypeOK'
<1>1. ASSUME TypeOK, UNCHANGED vars PROVE TypeOK'
  BY <1>1 DEF TypeOK, vars
<1>2. QED
  BY <1>1, BeginTyped, CallerTyped, WorldTyped DEF Next

(* Every state is well typed. *)
THEOREM SessionsTyped == Spec => []TypeOK
BY InitTyped, TypeInductive, PTL DEF Spec

-----------------------------------------------------------------------------
(* SingleFlight speaks of callers between their call to SoundCloud and its  *)
(* UPDATE; what makes it inductive is the mutex each caller queues on.      *)
(* While nobody has split a session, its callers share one mutex, and the   *)
(* cache holds that mutex or none: so a caller that looks it up joins them, *)
(* and one that makes another while they queue is what splits it.           *)
OneLock ==
    \A c, d \in Callers :
        (Queues(c) /\ Queues(d) /\ caller[c].s = caller[d].s /\ caller[c].s \notin split)
            => caller[c].lock = caller[d].lock
CachedLock ==
    \A c \in Callers :
        (Queues(c) /\ caller[c].s \notin split)
            => cache[caller[c].s] \in {NoLock, caller[c].lock}
Exclusive ==
    \A c, d \in Callers :
        (Holds(c) /\ Holds(d) /\ caller[c].lock = caller[d].lock) => c = d
MutexInv == OneLock /\ CachedLock /\ Exclusive

LEMMA InitMutex == Init => MutexInv
BY DEF Init, MutexInv, OneLock, CachedLock, Exclusive, Queues, Holds, NoTask

(* A caller that keeps its lock and goes no further into the mutex than it  *)
(* was, or leaves it, disturbs nothing.                                     *)
Calm(c) ==
    /\ UNCHANGED <<cache, split>>
    /\ \A d \in Callers \ {c} : caller'[d] = caller[d]
    /\ Queues(c)' => /\ Queues(c) /\ caller'[c].s = caller[c].s /\ caller'[c].lock = caller[c].lock
    /\ Holds(c)' => Holds(c)

LEMMA CalmKeeps ==
    ASSUME MutexInv, NEW c \in Callers, Calm(c)
    PROVE  MutexInv'
<1>1. \A d \in Callers : /\ Queues(d)' => /\ Queues(d) /\ caller'[d].s = caller[d].s
                                          /\ caller'[d].lock = caller[d].lock
                         /\ Holds(d)' => Holds(d)
  BY DEF Calm, Queues, Holds
<1>2. \A d \in Callers : Holds(d) => Queues(d)
  BY DEF Queues
<1>3. \A d \in Callers : Holds(d)' => Queues(d)'
  BY DEF Queues
<1>4. OneLock'
  BY <1>1 DEF OneLock, MutexInv, Calm
<1>5. CachedLock'
  BY <1>1 DEF CachedLock, MutexInv, Calm
<1>6. Exclusive'
  BY <1>1, <1>2, <1>3 DEF Exclusive, MutexInv
<1>7. QED
  BY <1>4, <1>5, <1>6 DEF MutexInv

LEMMA LeavingIsCalm ==
    ASSUME TypeOK, NEW c \in Callers, Returns(c), UNCHANGED <<cache, split>>
    PROVE  Calm(c)
BY DEF TypeOK, Returns, Calm, Queues, Holds, NoTask

LEMMA MovingIsCalm ==
    ASSUME TypeOK, NEW c \in Callers, Active(c),
           NEW pc, NEW row,
           NEW lock,
           \/ pc \in {"lookup", "make", "mint", "mark"}
           \/ pc \in {"call", "save"} /\ Holds(c) /\ lock = caller[c].lock,
           Moves(c, pc, lock, row), UNCHANGED <<cache, split>>
    PROVE  Calm(c)
<1>1. /\ caller'[c] = TaskOf(pc, caller[c].kind, caller[c].s, lock, row)
      /\ \A d \in Callers \ {c} : caller'[d] = caller[d]
  BY DEF Moves, TypeOK
<1>2. caller'[c].pc = pc /\ caller'[c].s = caller[c].s /\ caller'[c].lock = lock
  BY <1>1 DEF TaskOf
<1>3. QED
  BY <1>1, <1>2 DEF Calm, Queues, Holds

LEMMA GetsIsCalm ==
    ASSUME TypeOK, NEW c \in Callers, Active(c), NEW row, Gets(c, row), UNCHANGED <<cache, split>>
    PROVE  Calm(c)
<1>1. CASE Returns(c)
  BY <1>1, LeavingIsCalm
<1>2. CASE Moves(c, "mint", NoLock, {row})
  BY <1>2, MovingIsCalm
<1>3. QED
  BY <1>1, <1>2 DEF Gets

LEMMA CallerMutex ==
    ASSUME TypeOK, MutexInv, NEW c \in Callers, Step(c) \/ Acquire(c) \/ Cancel(c)
    PROVE  MutexInv'
<1>1. CASE Lookup(c)
  <2>1. CASE cache[caller[c].s] = NoLock
    BY <1>1, <2>1, MovingIsCalm, CalmKeeps DEF Lookup, Goes, Active, notes
  <2>2. CASE cache[caller[c].s] # NoLock
    <3>1. /\ caller'[c] = TaskOf("wait", caller[c].kind, caller[c].s, cache[caller[c].s], {})
          /\ \A d \in Callers \ {c} : caller'[d] = caller[d]
          /\ UNCHANGED <<cache, split>>
      BY <1>1, <2>2 DEF Lookup, Moves, TypeOK, notes
    <3>2. /\ caller'[c].pc = "wait" /\ caller'[c].s = caller[c].s
          /\ caller'[c].lock = cache[caller[c].s]
      BY <3>1 DEF TaskOf
    <3>3. ~Queues(c) /\ ~Holds(c)'
      BY <1>1, <3>2 DEF Lookup, Queues, Holds
    <3>4. \A d \in Callers \ {c} : Queues(d)' = Queues(d) /\ Holds(d)' = Holds(d)
      BY <3>1 DEF Queues, Holds
    <3>5. OneLock'
      BY <2>2, <3>1, <3>2, <3>4 DEF OneLock, CachedLock, MutexInv
    <3>6. CachedLock'
      BY <3>1, <3>2, <3>4 DEF CachedLock, MutexInv
    <3>7. Exclusive'
      BY <3>1, <3>3, <3>4 DEF Exclusive, MutexInv
    <3>8. QED
      BY <3>5, <3>6, <3>7 DEF MutexInv
  <2>3. QED
    BY <2>1, <2>2
<1>2. CASE MakeLock(c)
  <2>1. PICK new \in Locks : /\ cache' = [cache EXCEPT ![caller[c].s] = new]
                             /\ Moves(c, "wait", new, {})
    BY <1>2 DEF MakeLock
  <2>2. caller[c].s \in Sessions /\ Active(c)
    BY <1>2, TaskType, TaskFields DEF MakeLock, Active
  <2>3. /\ caller'[c] = TaskOf("wait", caller[c].kind, caller[c].s, new, {})
        /\ \A d \in Callers \ {c} : caller'[d] = caller[d]
    BY <2>1 DEF Moves, TypeOK
  <2>4. caller'[c].pc = "wait" /\ caller'[c].s = caller[c].s /\ caller'[c].lock = new
    BY <2>3 DEF TaskOf
  <2>5. ~Queues(c) /\ ~Holds(c)'
    BY <1>2, <2>4 DEF MakeLock, Queues, Holds
  <2>6. \A d \in Callers \ {c} : Queues(d)' = Queues(d) /\ Holds(d)' = Holds(d)
    BY <2>3 DEF Queues, Holds
  <2>7. split \subseteq split'
    BY <1>2 DEF MakeLock
  <2>8. \A d \in Callers \ {c} : Queues(d) /\ caller[d].s = caller[c].s => caller[c].s \in split'
    BY <1>2, <2>2 DEF MakeLock, On, Active, Queues, Holds
  <2>9. \A s \in Sessions : cache'[s] = IF s = caller[c].s THEN new ELSE cache[s]
    BY <2>1, <2>2 DEF TypeOK
  <2>10. \A d \in Callers : Queues(d) => caller[d].s \in Sessions
    BY TaskType, TaskFields DEF Active, Queues, Holds
  <2>11. OneLock'
    BY <2>3, <2>4, <2>6, <2>7, <2>8 DEF OneLock, MutexInv
  <2>12. CachedLock'
    BY <2>2, <2>3, <2>4, <2>6, <2>7, <2>8, <2>9, <2>10 DEF CachedLock, MutexInv
  <2>13. Exclusive'
    BY <2>3, <2>5, <2>6 DEF Exclusive, MutexInv
  <2>14. QED
    BY <2>11, <2>12, <2>13 DEF MutexInv
<1>3. CASE Acquire(c)
  <2>1. /\ caller'[c] = TaskOf("read", caller[c].kind, caller[c].s, caller[c].lock, caller[c].row)
        /\ \A d \in Callers \ {c} : caller'[d] = caller[d]
        /\ UNCHANGED <<cache, split>>
    BY <1>3 DEF Acquire, Goes, Moves, TypeOK, notes
  <2>2. caller'[c].s = caller[c].s /\ caller'[c].lock = caller[c].lock
    BY <2>1 DEF TaskOf
  <2>3. Queues(c) /\ \A d \in Callers : Holds(d) => caller[d].lock # caller[c].lock
    BY <1>3 DEF Acquire, Queues
  <2>4. \A d \in Callers \ {c} : Queues(d)' = Queues(d) /\ Holds(d)' = Holds(d)
    BY <2>1 DEF Queues, Holds
  <2>5. OneLock' /\ CachedLock'
    BY <2>1, <2>2, <2>3, <2>4 DEF OneLock, CachedLock, MutexInv
  <2>6. Exclusive'
    BY <2>1, <2>2, <2>3, <2>4 DEF Exclusive, MutexInv
  <2>7. QED
    BY <2>5, <2>6 DEF MutexInv
<1>4. CASE Reread(c)
  <2>1. Holds(c) /\ Active(c) /\ UNCHANGED <<cache, split>>
    BY <1>4 DEF Reread, Holds, Active, notes
  <2>2. CASE Returns(c)
    BY <2>1, <2>2, LeavingIsCalm, CalmKeeps
  <2>3. CASE Gets(c, session[caller[c].s])
    BY <2>1, <2>3, GetsIsCalm, CalmKeeps
  <2>4. CASE Carries(c, "call", session[caller[c].s])
    BY <2>1, <2>4, MovingIsCalm, CalmKeeps DEF Carries
  <2>5. QED
    BY <1>4, <2>2, <2>3, <2>4 DEF Reread
<1>5. CASE CallOk(c)
  <2>1. Holds(c) /\ Active(c) /\ UNCHANGED <<cache, split>>
    BY <1>5 DEF CallOk, Holds, Active, notes
  <2>2. PICK row : Carries(c, "save", row)
    BY <1>5 DEF CallOk
  <2>3. QED
    BY <2>1, <2>2, MovingIsCalm, CalmKeeps DEF Carries
<1>6. CASE CallRefused(c) \/ CallFails(c) \/ Mark(c) \/ Cancel(c)
  BY <1>6, LeavingIsCalm, CalmKeeps DEF CallRefused, CallFails, Mark, Cancel, notes
<1>7. CASE Save(c)
  <2>1. Active(c) /\ UNCHANGED <<cache, split>>
    BY <1>7 DEF Save, Active, notes
  <2>2. CASE Returns(c)
    BY <2>1, <2>2, LeavingIsCalm, CalmKeeps
  <2>3. ASSUME NEW row, Gets(c, row) PROVE MutexInv'
    BY <2>1, <2>3, GetsIsCalm, CalmKeeps
  <2>4. QED
    BY <1>7, <2>2, <2>3 DEF Save
<1>8. CASE Mint(c)
  BY <1>8, MovingIsCalm, CalmKeeps DEF Mint, Goes, Active
<1>9. QED
  BY <1>1, <1>2, <1>3, <1>4, <1>5, <1>6, <1>7, <1>8 DEF Step, Call

LEMMA BeginMutex ==
    ASSUME TypeOK, MutexInv, NEW c \in Callers, NEW s \in Sessions,
           NEW kind \in Kinds, Begin(c, kind, s)
    PROVE  MutexInv'
<1>1. caller'[c] = Started(kind, s, session[s]) /\ \A d \in Callers \ {c} : caller'[d] = caller[d]
  BY DEF Begin, TypeOK
<1>2. caller'[c].pc \in {"mint", "lookup"}
  BY <1>1 DEF Started, TaskOf
<1>3. Calm(c)
  BY <1>1, <1>2 DEF Calm, Queues, Holds, Begin
<1>4. QED
  BY <1>3, CalmKeeps

(* Removing a lock from the cache leaves those who queue on it alone. *)
LEMMA WorldMutex ==
    ASSUME TypeOK, MutexInv, UNCHANGED <<caller, split>>,
           NEW s \in Sessions, cache' = [cache EXCEPT ![s] = NoLock] \/ UNCHANGED cache
    PROVE  MutexInv'
<1>1. \A d \in Callers : Queues(d)' = Queues(d) /\ Holds(d)' = Holds(d)
  BY DEF Queues, Holds
<1>2. \A d \in Callers : Queues(d) => caller[d].s \in Sessions
  BY TaskType, TaskFields DEF Active, Queues, Holds
<1>3. \A t \in Sessions : cache'[t] \in {cache[t], NoLock}
  BY DEF TypeOK
<1>4. CachedLock'
  BY <1>1, <1>2, <1>3 DEF CachedLock, MutexInv
<1>5. OneLock' /\ Exclusive'
  BY <1>1 DEF OneLock, Exclusive, MutexInv
<1>6. QED
  BY <1>4, <1>5 DEF MutexInv

LEMMA MutexInductive == TypeOK /\ MutexInv /\ [Next]_vars => MutexInv'
<1>1. ASSUME TypeOK, MutexInv, UNCHANGED vars PROVE MutexInv'
  BY <1>1 DEF MutexInv, OneLock, CachedLock, Exclusive, Queues, Holds, vars
<1>2. ASSUME TypeOK, MutexInv, NEW s \in Sessions,
             \/ SignIn(s) \/ SignOut(s) \/ EndSession(s)
             \/ Expire(s) \/ FailureExpires(s) \/ Evict(s)
      PROVE  MutexInv'
  BY <1>2, WorldMutex
     DEF SignIn, SignOut, EndSession, Expire, FailureExpires, Evict, tables, notes
<1>3. QED
  BY <1>1, <1>2, BeginMutex, CallerMutex DEF Next

LEMMA MutexSingle == MutexInv => SingleFlight
<1>1. SUFFICES ASSUME MutexInv, NEW s \in Sessions \ split, NEW c \in Callers, NEW d \in Callers,
                      On(c, s), On(d, s), InFlight(c), InFlight(d)
               PROVE  c = d
  BY DEF SingleFlight
<1>2. Holds(c) /\ Holds(d) /\ Queues(c) /\ Queues(d)
  BY <1>1 DEF InFlight, Holds, Queues
<1>3. QED
  BY <1>1, <1>2 DEF MutexInv, OneLock, Exclusive, On

(* No two callers refresh one session at a time, unless get_or_create_lock  *)
(* has handed out two mutexes for it: whatever expires, is signed in again, *)
(* is evicted, cancelled or answered late.                                  *)
THEOREM OneRefresh == Spec => []SingleFlight
<1>1. Init => TypeOK /\ MutexInv
  BY InitTyped, InitMutex
<1>2. TypeOK /\ MutexInv /\ [Next]_vars => TypeOK' /\ MutexInv'
  BY TypeInductive, MutexInductive
<1>3. QED
  BY <1>1, <1>2, MutexSingle, PTL DEF Spec

-----------------------------------------------------------------------------
(* Whose tokens a session has: a refresh brings the tokens of the grant it *)
(* read, so while no sign-in lands in its middle what it writes is of the  *)
(* account that the row shows.  No task works for a row that is not yet    *)
(* signed in, so the row a claim adds is nobody's refresh.                 *)
Carried(task) == IF task.pc = "idle" THEN {} ELSE task.row

Attended == \A c \in Callers : Active(c) => session[caller[c].s].state # "new"
OfItsAccount(row) == row.account \notin raced => row.grant = row.account
Brings(row, s) == Open(s) /\ session[s].account \notin raced => row.grant = session[s].account
BroughtFits(task) ==
    \A row \in Carried(task) :
        /\ task.pc \in {"call", "save"} => Brings(row, task.s)
        /\ task.pc = "mint" => OfItsAccount(row)
AccountInv ==
    /\ Attended
    /\ \A s \in Sessions : Open(s) => OfItsAccount(session[s])
    /\ \A c \in Callers : BroughtFits(caller[c])

(* Which generation is where: SoundCloud never accepts an older one than   *)
(* somebody has, and a caller about to write a token has the newest, all   *)
(* others of that grant being older: so nobody can refresh it meanwhile.   *)
Latest(row) == current[row.grant] = {row.gen}
Known(row) == \E n \in current[row.grant] : current[row.grant] = {n} /\ row.gen <= n

RowsKnown ==
    /\ \A s \in Sessions : Open(s) => Known(session[s])
    /\ \A c \in Callers : \A row \in Carried(caller[c]) : Known(row)

(* A grant that was not linked is in one session, and with its callers. *)
OneHome ==
    /\ \A s, t \in Sessions :
          /\ Open(s) /\ Open(t)
          /\ session[s].grant = session[t].grant /\ session[s].grant \notin linked
          => s = t
    /\ \A s \in Sessions, c \in Callers : \A row \in Carried(caller[c]) :
          Open(s) /\ session[s].grant = row.grant /\ row.grant \notin linked => caller[c].s = s
    /\ \A c, d \in Callers : \A row \in Carried(caller[c]), other \in Carried(caller[d]) :
          row.grant = other.grant /\ row.grant \notin linked => caller[c].s = caller[d].s

Spoilt == lost \cup linked

Ahead(c, row) ==
    /\ Latest(row)
    /\ \A s \in Sessions : Open(s) /\ session[s].grant = row.grant => session[s].gen < row.gen
    /\ \A d \in Callers \ {c} : InFlight(d) =>
          \A other \in caller[d].row : other.grant = row.grant => other.gen < row.gen

SaversAhead ==
    \A c \in Callers : caller[c].pc = "save" =>
        \A row \in caller[c].row : row.grant \notin Spoilt => Ahead(c, row)

BeingSaved(s) ==
    \E c \in Callers :
        /\ On(c, s) /\ caller[c].pc = "save"
        /\ \E row \in caller[c].row : row.grant = session[s].grant

NewestKept ==
    \A s \in Sessions :
        Open(s) /\ session[s].grant \notin Spoilt => Latest(session[s]) \/ BeingSaved(s)

TokenInv == RowsKnown /\ OneHome /\ SaversAhead /\ NewestKept

-----------------------------------------------------------------------------
(* What a task may become in a step that is no call, UPDATE or INSERT: what *)
(* it carries then is what it has just read, or is not used any more.      *)
Onward(c, task) ==
    \/ task.pc = "idle"
    \/ /\ task.pc # "save" /\ task.s \in Sessions
       /\ session[task.s].state # "new"
       /\ \A row \in task.row :
             \/ Open(task.s) /\ row = session[task.s]
             \/ /\ task.pc \notin {"call", "mint"}
                /\ Active(c) /\ task.s = caller[c].s /\ row \in caller[c].row
Becomes(c, task) == caller' = [caller EXCEPT ![c] = task]

LEMMA OthersSame ==
    ASSUME TypeOK, NEW c \in Callers, NEW task, Becomes(c, task)
    PROVE  caller'[c] = task /\ \A d \in Callers \ {c} : caller'[d] = caller[d]
BY DEF TypeOK, Becomes

LEMMA ActiveTask ==
    ASSUME TypeOK, NEW c \in Callers, Active(c)
    PROVE  /\ caller[c].s \in Sessions /\ caller[c].row \in SUBSET Row
           /\ Carried(caller[c]) = caller[c].row
BY TaskType, TaskFields DEF Carried, Active

LEMMA QuietSteps ==
    ASSUME TypeOK, Attended, NEW c \in Callers,
           \/ \E s \in Sessions, kind \in Kinds : Begin(c, kind, s)
           \/ Lookup(c) \/ MakeLock(c) \/ Acquire(c) \/ Reread(c) \/ CallRefused(c) \/ Mark(c)
    PROVE  /\ \E task : Becomes(c, task) /\ Onward(c, task)
           /\ UNCHANGED <<session, current, lost, linked, raced>>
           /\ caller[c].pc # "save"
<1>1. ASSUME NEW s \in Sessions, NEW kind \in Kinds, Begin(c, kind, s)
      PROVE  /\ Becomes(c, Started(kind, s, session[s])) /\ Onward(c, Started(kind, s, session[s]))
             /\ UNCHANGED <<session, current, lost, linked, raced>> /\ caller[c].pc # "save"
  BY <1>1 DEF Begin, Becomes, Onward, Started, TaskOf, Open, Active, tables
<1>2. ASSUME Active(c), NEW pc, NEW lock, NEW row, Moves(c, pc, lock, row), pc # "save",
             \/ row = {}
             \/ row = caller[c].row /\ pc \notin {"call", "mint"}
             \/ Open(caller[c].s) /\ row = {session[caller[c].s]}
      PROVE  \E task : Becomes(c, task) /\ Onward(c, task)
  <2> DEFINE task == TaskOf(pc, caller[c].kind, caller[c].s, lock, row)
  <2>1. task.pc = pc /\ task.s = caller[c].s /\ task.row = row BY DEF TaskOf
  <2>2. Becomes(c, task) BY <1>2 DEF Moves, Becomes
  <2>3. caller[c].s \in Sessions /\ session[caller[c].s].state # "new"
    BY <1>2, ActiveTask DEF Attended
  <2> HIDE DEF task
  <2>4. Onward(c, task) BY <1>2, <2>1, <2>3 DEF Onward
  <2>5. QED BY <2>2, <2>4
<1>3. ASSUME Returns(c) PROVE \E task : Becomes(c, task) /\ Onward(c, task)
  <2>1. Becomes(c, NoTask) BY <1>3 DEF Returns, Becomes
  <2>2. Onward(c, NoTask) BY DEF Onward, NoTask
  <2>3. QED BY <2>1, <2>2
<1>4. CASE Lookup(c)
  BY <1>2, <1>4 DEF Lookup, Goes, Active, tables, notes
<1>5. CASE MakeLock(c)
  BY <1>2, <1>5 DEF MakeLock, Active, tables
<1>6. CASE Acquire(c)
  BY <1>2, <1>6 DEF Acquire, Goes, Active, tables, notes
<1>7. CASE Reread(c)
  BY <1>2, <1>3, <1>7 DEF Reread, Gets, Carries, Active, tables, notes
<1>8. CASE CallRefused(c) \/ Mark(c)
  BY <1>3, <1>8 DEF CallRefused, Mark, notes
<1>9. QED
  BY <1>1, <1>4, <1>5, <1>6, <1>7, <1>8

-----------------------------------------------------------------------------
LEMMA InitAccount == Init => AccountInv
BY DEF Init, AccountInv, Attended, BroughtFits, Carried, NoTask, NewRow, Active, Open

(* One task moves on; what it has read is what its session shows. *)
LEMMA TaskKeepsAccount ==
    ASSUME TypeOK, AccountInv, NEW c \in Callers, NEW task, Becomes(c, task),
           UNCHANGED <<session, raced>>,
           task.pc # "idle" => session[task.s].state # "new",
           BroughtFits(task)
    PROVE  AccountInv'
<1>1. caller'[c] = task /\ \A d \in Callers \ {c} : caller'[d] = caller[d]
  BY OthersSame
<1>2. \A k : BroughtFits(k) => BroughtFits(k)'
  BY DEF BroughtFits, Brings, OfItsAccount, Open
<1>3. \A d \in Callers : BroughtFits(caller'[d])
  BY <1>1 DEF AccountInv
<1>4. \A d \in Callers : BroughtFits(caller[d])'
  BY <1>3 DEF BroughtFits, Brings, OfItsAccount, Open
<1>5. Attended'
  BY <1>1 DEF AccountInv, Attended, Active
<1>6. QED
  BY <1>4, <1>5 DEF AccountInv, OfItsAccount, Open

LEMMA OnwardFits ==
    ASSUME TypeOK, AccountInv, NEW c \in Callers, NEW task, Onward(c, task)
    PROVE  /\ BroughtFits(task)
           /\ task.pc # "idle" => session[task.s].state # "new"
BY DEF Onward, BroughtFits, Carried, Brings, OfItsAccount, AccountInv

(* A row is given other tokens, or is written for the first time.  It      *)
(* disturbs the tasks of that session alone, and those only by another     *)
(* account.                                                                *)
LEMMA RowKeepsAccount ==
    ASSUME TypeOK, AccountInv, NEW s \in Sessions, NEW row, row.state = "open",
           session' = [session EXCEPT ![s] = row],
           raced \subseteq raced',
           row.account \notin raced' => row.grant = row.account,
           \/ session[s].state = "new"
           \/ Open(s) /\ row.account = session[s].account
           \/ row.account \in raced'
           \/ \A c \in Callers : ~(On(c, s) /\ InFlight(c)),
           \A c \in Callers :
              \/ caller'[c] = caller[c]
              \/ /\ BroughtFits(caller[c])'
                 /\ Active(c)' => session'[caller'[c].s].state # "new"
    PROVE  AccountInv'
<1>1. session'[s] = row /\ \A t \in Sessions \ {s} : session'[t] = session[t]
  BY DEF TypeOK
<1>2. \A t \in Sessions : Open(t)' => OfItsAccount(session[t])'
  BY <1>1 DEF AccountInv, OfItsAccount, Open
<1>3. Attended'
  BY <1>1 DEF AccountInv, Attended, Active, Open
<1>4. ASSUME NEW c \in Callers, caller'[c] = caller[c] PROVE BroughtFits(caller[c])'
  <2>1. \A r : OfItsAccount(r) => OfItsAccount(r)' BY DEF OfItsAccount
  <2>2. ASSUME NEW r \in Carried(caller[c]), caller[c].pc \in {"call", "save"},
               Brings(r, caller[c].s)
        PROVE  Brings(r, caller[c].s)'
    <3>1. CASE caller[c].s # s
      <4>1. caller[c].s \in Sessions BY <2>2, ActiveTask DEF Active
      <4>2. QED BY <1>1, <1>4, <2>2, <3>1, <4>1 DEF Brings, Open
    <3>2. CASE caller[c].s = s
      <4>1. On(c, s) /\ InFlight(c) BY <2>2, <3>2 DEF On, Active, InFlight
      <4>2. session[s].state # "new" BY <4>1 DEF AccountInv, Attended, On
      <4>3. QED BY <1>1, <1>4, <2>2, <3>2, <4>1, <4>2 DEF Brings, Open
    <3>3. QED BY <3>1, <3>2
  <2>3. BroughtFits(caller[c]) BY DEF AccountInv
  <2>4. QED BY <1>4, <2>1, <2>2, <2>3 DEF BroughtFits, Carried
<1>5. QED
  BY <1>2, <1>3, <1>4 DEF AccountInv

LEMMA LeavingKeepsAccount ==
    ASSUME TypeOK, AccountInv, NEW c \in Callers, Returns(c), UNCHANGED <<session, raced>>
    PROVE  AccountInv'
<1>1. Becomes(c, NoTask) BY DEF Returns, Becomes
<1>2. NoTask.pc = "idle" /\ BroughtFits(NoTask) BY DEF NoTask, BroughtFits, Carried
<1>3. QED BY <1>1, <1>2, TaskKeepsAccount

LEMMA CallerAccount ==
    ASSUME TypeOK, AccountInv, NEW c \in Callers,
           Step(c) \/ Acquire(c) \/ Cancel(c) \/ \E s \in Sessions, kind \in Kinds : Begin(c, kind, s)
    PROVE  AccountInv'
<1>1. CASE \/ Lookup(c) \/ MakeLock(c) \/ Acquire(c) \/ Reread(c) \/ CallRefused(c) \/ Mark(c)
           \/ \E s \in Sessions, kind \in Kinds : Begin(c, kind, s)
  BY <1>1, QuietSteps, OnwardFits, TaskKeepsAccount DEF AccountInv
<1>2. CASE CallOk(c)
  <2>1. PICK row \in caller[c].row : Carries(c, "save", Renewed(row))
    BY <1>2 DEF CallOk
  <2> DEFINE task == TaskOf("save", caller[c].kind, caller[c].s, caller[c].lock, {Renewed(row)})
  <2>2. Becomes(c, task) BY <2>1 DEF Carries, Moves, Becomes
  <2>3. task.pc = "save" /\ task.s = caller[c].s /\ task.row = {Renewed(row)} BY DEF TaskOf
  <2>4. Active(c) /\ caller[c].pc = "call" BY <1>2 DEF CallOk, Active
  <2>5. Brings(row, caller[c].s) BY <2>1, <2>4, ActiveTask DEF AccountInv, BroughtFits
  <2>6. Renewed(row).grant = row.grant BY DEF Renewed, OpenRow
  <2> HIDE DEF task
  <2>7. BroughtFits(task) BY <2>3, <2>5, <2>6 DEF BroughtFits, Carried, Brings
  <2>8. session[task.s].state # "new" BY <2>3, <2>4 DEF AccountInv, Attended
  <2>9. QED BY <1>2, <2>2, <2>7, <2>8, TaskKeepsAccount DEF CallOk, notes
<1>3. CASE CallFails(c) \/ Cancel(c)
  BY <1>3, LeavingKeepsAccount DEF CallFails, Cancel, tables
<1>4. CASE Save(c)
  <2>0. Active(c) /\ InFlight(c) /\ caller[c].pc = "save" BY <1>4 DEF Save, Active, InFlight
  <2> DEFINE s == caller[c].s
  <2>1. PICK row \in caller[c].row : LET new == Saved(session[s], row)
          IN  IF Open(s) THEN session' = [session EXCEPT ![s] = new] /\ Gets(c, new)
              ELSE UNCHANGED session /\ Returns(c)
    BY <1>4 DEF Save
  <2>2. CASE ~Open(s) BY <1>4, <2>1, <2>2, LeavingKeepsAccount DEF Save, notes
  <2>3. CASE Open(s)
    <3>1. PICK new : new = Saved(session[s], row) OBVIOUS
    <3>2. new.state = "open" /\ new.grant = row.grant /\ new.account = session[s].account
      BY <3>1 DEF Saved, OpenRow
    <3>3. Brings(row, s) BY <2>0, <2>1, ActiveTask DEF AccountInv, BroughtFits
    <3>4. OfItsAccount(new) BY <2>3, <3>2, <3>3 DEF Brings, OfItsAccount
    <3>5. session' = [session EXCEPT ![s] = new] /\ Gets(c, new) /\ UNCHANGED raced
      BY <1>4, <2>1, <2>3, <3>1 DEF Save, notes
    <3>6. s \in Sessions BY <2>0, ActiveTask
    <3>7. PICK task : /\ Becomes(c, task)
                      /\ \/ task = NoTask
                         \/ task.pc = "mint" /\ task.s = s /\ task.row = {new}
      BY <3>5 DEF Gets, Returns, Moves, Becomes, TaskOf
    <3>8. caller'[c] = task /\ \A d \in Callers \ {c} : caller'[d] = caller[d]
      BY <3>7, OthersSame
    <3>9. BroughtFits(caller[c])'
      BY <3>4, <3>5, <3>7, <3>8 DEF BroughtFits, Carried, OfItsAccount, NoTask
    <3>10. Active(c)' => session'[caller'[c].s].state # "new"
      BY <3>2, <3>5, <3>6, <3>7, <3>8 DEF Active, NoTask, TypeOK
    <3> HIDE DEF s
    <3>11. QED
      BY <2>3, <3>2, <3>4, <3>5, <3>6, <3>8, <3>9, <3>10, RowKeepsAccount DEF OfItsAccount
  <2>4. QED BY <2>2, <2>3
<1>5. CASE Mint(c)
  <2>1. PICK t \in Sessions, row \in caller[c].row :
            session[t] = NewRow /\ session' = [session EXCEPT ![t] = row]
    BY <1>5 DEF Mint
  <2>2. Active(c) /\ caller[c].pc = "mint" BY <1>5 DEF Mint, Active
  <2>3. row \in Row /\ row.state = "open" BY <2>1, <2>2, ActiveTask DEF Row
  <2>4. OfItsAccount(row) BY <2>1, <2>2, ActiveTask DEF AccountInv, BroughtFits
  <2> DEFINE task == TaskOf("mark", caller[c].kind, caller[c].s, caller[c].lock, caller[c].row)
  <2>5. Becomes(c, task) BY <1>5 DEF Mint, Goes, Moves, Becomes
  <2>6. task.pc = "mark" /\ task.s = caller[c].s BY DEF TaskOf
  <2> HIDE DEF task
  <2>7. caller'[c] = task /\ \A d \in Callers \ {c} : caller'[d] = caller[d]
    BY <2>5, OthersSame
  <2>8. BroughtFits(caller[c])' BY <2>6, <2>7 DEF BroughtFits
  <2>9. caller[c].s \in Sessions /\ session[caller[c].s].state # "new"
    BY <2>2, ActiveTask DEF AccountInv, Attended
  <2>10. session'[caller'[c].s].state # "new"
    BY <2>1, <2>3, <2>6, <2>7, <2>9 DEF TypeOK
  <2>11. session[t].state = "new" /\ UNCHANGED raced BY <1>5, <2>1 DEF NewRow, Mint
  <2>12. QED
    BY <2>1, <2>3, <2>4, <2>7, <2>8, <2>10, <2>11, RowKeepsAccount DEF OfItsAccount
<1>6. QED BY <1>1, <1>2, <1>3, <1>4, <1>5 DEF Step, Call

LEMMA WorldAccount ==
    ASSUME TypeOK, AccountInv, NEW s \in Sessions,
           \/ SignIn(s) \/ SignOut(s) \/ EndSession(s)
           \/ Expire(s) \/ FailureExpires(s) \/ Evict(s)
    PROVE  AccountInv'
<1>1. CASE SignIn(s)
  <2>1. PICK g \in Grants :
            /\ session' = [session EXCEPT ![s] = SignedIn(session[s], g)]
            /\ raced' = IF \E c \in Callers : On(c, s) /\ InFlight(c) THEN raced \cup {g} ELSE raced
            /\ UNCHANGED caller
    BY <1>1 DEF SignIn
  <2>2. PICK row : row = SignedIn(session[s], g) OBVIOUS
  <2>3. row.state = "open" /\ row.grant = g /\ row.account = g BY <2>2 DEF SignedIn, OpenRow
  <2>4. QED BY <2>1, <2>2, <2>3, RowKeepsAccount
<1>2. CASE Expire(s)
  <2>1. PICK row : row = OpenRow(session[s].grant, session[s].gen, FALSE, session[s].account)
    OBVIOUS
  <2>2. row.state = "open" /\ row.grant = session[s].grant /\ row.account = session[s].account
    BY <2>1 DEF OpenRow
  <2>3. Open(s) /\ session' = [session EXCEPT ![s] = row] /\ UNCHANGED <<raced, caller>>
    BY <1>2, <2>1 DEF Expire, notes
  <2>4. row.account \notin raced' => row.grant = row.account
    BY <2>2, <2>3 DEF AccountInv, OfItsAccount
  <2>5. QED BY <2>2, <2>3, <2>4, RowKeepsAccount
<1>3. CASE EndSession(s)
  <2>1. /\ session'[s].state = "ended" /\ \A t \in Sessions \ {s} : session'[t] = session[t]
        /\ UNCHANGED <<caller, raced>>
    BY <1>3 DEF EndSession, Ended, TypeOK, notes
  <2>2. Attended'
    <3>1. \A c \in Callers : Active(c) => caller[c].s \in Sessions BY ActiveTask
    <3>2. QED BY <2>1, <3>1 DEF AccountInv, Attended, Active
  <2>3. \A t \in Sessions : Open(t)' => OfItsAccount(session[t])'
    BY <2>1 DEF AccountInv, OfItsAccount, Open
  <2>4. ASSUME NEW c \in Callers PROVE BroughtFits(caller[c])'
    <3>1. caller[c].pc # "idle" => caller[c].s \in Sessions BY ActiveTask DEF Active
    <3>2. BroughtFits(caller[c]) BY DEF AccountInv
    <3>3. QED BY <2>1, <3>1, <3>2 DEF BroughtFits, Carried, Brings, OfItsAccount, Open
  <2>5. QED BY <2>2, <2>3, <2>4 DEF AccountInv
<1>4. CASE SignOut(s) \/ FailureExpires(s) \/ Evict(s)
  <2>1. UNCHANGED <<session, caller, raced>>
    BY <1>4 DEF SignOut, FailureExpires, Evict, tables, notes
  <2>2. QED
    BY <2>1 DEF AccountInv, Attended, BroughtFits, Brings, OfItsAccount, Open, Carried, Active
<1>5. QED BY <1>1, <1>2, <1>3, <1>4

LEMMA AccountInductive == TypeOK /\ AccountInv /\ [Next]_vars => AccountInv'
<1>1. ASSUME TypeOK, AccountInv, UNCHANGED vars PROVE AccountInv'
  BY <1>1 DEF AccountInv, Attended, BroughtFits, Brings, OfItsAccount, Open, Carried, Active, vars
<1>2. QED
  BY <1>1, CallerAccount, WorldAccount DEF Next

(* A session never shows one account and plays with the tokens of another, *)
(* however sign-ins, claims and refreshes interleave, as long as no        *)
(* sign-in lands between the SELECT and the UPDATE of a refresh.           *)
THEOREM TokensOfTheirAccount == Spec => []AccountTokens
<1>1. Init => TypeOK /\ AccountInv
  BY InitTyped, InitAccount
<1>2. TypeOK /\ AccountInv /\ [Next]_vars => TypeOK' /\ AccountInv'
  BY TypeInductive, AccountInductive
<1>3. AccountInv => AccountTokens
  BY DEF AccountInv, AccountTokens, OfItsAccount
<1>4. QED
  BY <1>1, <1>2, <1>3, PTL DEF Spec

-----------------------------------------------------------------------------
LEMMA InitTokens == Init => TokenInv
BY DEF Init, TokenInv, RowsKnown, OneHome, SaversAhead, NewestKept, Carried, NoTask, NewRow, Open

LEMMA RowFields ==
    ASSUME NEW row \in Row
    PROVE  row.state = "open" /\ row.grant \in Grants /\ row.gen \in Nat
BY DEF Row

LEMMA CarriedTyped ==
    ASSUME TypeOK, NEW c \in Callers, NEW row \in Carried(caller[c])
    PROVE  /\ row \in Row /\ row.grant \in Grants /\ row.gen \in Nat
           /\ Active(c) /\ caller[c].s \in Sessions /\ row \in caller[c].row
BY ActiveTask, RowFields DEF Carried, Active

LEMMA InFlightCarries ==
    ASSUME TypeOK, NEW c \in Callers, InFlight(c)
    PROVE  Carried(caller[c]) = caller[c].row /\ Active(c)
BY DEF InFlight, Carried, Active

(* Tasks end, and rows lose their freshness or go: no token has moved. *)
LEMMA FewerKeepTokens ==
    ASSUME TypeOK, TokenInv, UNCHANGED <<current, linked, caller>>, lost \subseteq lost',
           \A s \in Sessions :
              Open(s)' => /\ Open(s) /\ session'[s].grant = session[s].grant
                          /\ session'[s].gen = session[s].gen
    PROVE  TokenInv'
<1>1. RowsKnown' BY DEF TokenInv, RowsKnown, Known
<1>2. OneHome' BY DEF TokenInv, OneHome
<1>3. SaversAhead' BY DEF TokenInv, SaversAhead, Spoilt, Ahead, Latest, InFlight
<1>4. NewestKept' BY DEF TokenInv, NewestKept, Spoilt, Latest, BeingSaved, On, Active
<1>5. QED BY <1>1, <1>2, <1>3, <1>4 DEF TokenInv

(* A task goes on with what it has read, or ends; if it had the newest      *)
(* token to write, that token is lost, or its session is gone.             *)
LEMMA TaskKeepsTokens ==
    ASSUME TypeOK, TokenInv, NEW c \in Callers, NEW task, Becomes(c, task), Onward(c, task),
           UNCHANGED <<session, current, linked>>, lost \subseteq lost',
           caller[c].pc = "save" =>
              ~Open(caller[c].s) \/ \A row \in caller[c].row : row.grant \in lost'
    PROVE  TokenInv'
<1>1. caller'[c] = task /\ \A d \in Callers \ {c} : caller'[d] = caller[d]
  BY OthersSame
<1>2. ASSUME NEW row \in Carried(task)
      PROVE  /\ task.s \in Sessions
             /\ \/ Open(task.s) /\ row = session[task.s]
                \/ /\ task.pc \notin {"call", "mint", "save"} /\ task.s = caller[c].s
                   /\ row \in Carried(caller[c])
  BY <1>2 DEF Carried, Onward, Active
<1>3. \A row : Known(row) => Known(row)' BY DEF Known
<1>4. RowsKnown'
  <2>1. \A row \in Carried(task) : Known(row) BY <1>2 DEF TokenInv, RowsKnown
  <2>2. QED BY <1>1, <1>3, <2>1 DEF TokenInv, RowsKnown, Open
<1>5. OneHome'
  <2>1. ASSUME NEW s \in Sessions, NEW row \in Carried(task),
               Open(s), session[s].grant = row.grant, row.grant \notin linked
        PROVE  task.s = s
    BY <1>2, <2>1 DEF TokenInv, OneHome
  <2>2. ASSUME NEW d \in Callers, NEW row \in Carried(task), NEW other \in Carried(caller[d]),
               other.grant = row.grant, row.grant \notin linked
        PROVE  task.s = caller[d].s
    BY <1>2, <2>2 DEF TokenInv, OneHome
  <2>3. \A s \in Sessions, d \in Callers : \A row \in Carried(caller'[d]) :
           Open(s) /\ session[s].grant = row.grant /\ row.grant \notin linked => caller'[d].s = s
    BY <1>1, <2>1 DEF TokenInv, OneHome
  <2>4. \A d, e \in Callers : \A row \in Carried(caller'[d]), other \in Carried(caller'[e]) :
           row.grant = other.grant /\ row.grant \notin linked => caller'[d].s = caller'[e].s
    BY <1>1, <2>2 DEF TokenInv, OneHome
  <2>5. QED BY <2>3, <2>4 DEF TokenInv, OneHome, Open
<1>6. task.pc # "save" BY DEF Onward
<1>7. SaversAhead'
  <2>1. SUFFICES ASSUME NEW e \in Callers, caller'[e].pc = "save",
                        NEW row \in caller'[e].row, row.grant \notin lost' \cup linked
                 PROVE  Ahead(e, row)'
    BY DEF SaversAhead, Spoilt
  <2>2. e # c /\ caller'[e] = caller[e] BY <1>1, <1>6, <2>1
  <2>3. Ahead(e, row) BY <2>1, <2>2 DEF TokenInv, SaversAhead, Spoilt
  <2>4. ASSUME InFlight(c)', NEW other \in caller'[c].row, other.grant = row.grant
        PROVE  other.gen < row.gen
    <3>1. Carried(task) = task.row /\ task.pc \in {"call", "save"}
      BY <1>1, <2>4 DEF InFlight, Carried
    <3>2. Open(task.s) /\ other = session[task.s] /\ task.s \in Sessions
      BY <1>1, <1>2, <2>4, <3>1
    <3>3. QED BY <2>3, <2>4, <3>2 DEF Ahead
  <2>5. QED BY <1>1, <2>3, <2>4 DEF Ahead, Latest, InFlight, Open
<1>8. NewestKept'
  <2>1. SUFFICES ASSUME NEW s \in Sessions, Open(s), session[s].grant \notin lost' \cup linked
                 PROVE  Latest(session[s])' \/ BeingSaved(s)'
    BY DEF NewestKept, Spoilt, Open
  <2>2. Latest(session[s]) \/ BeingSaved(s) BY <2>1 DEF TokenInv, NewestKept, Spoilt
  <2>3. CASE Latest(session[s]) BY <2>3 DEF Latest
  <2>4. CASE BeingSaved(s)
    <3>1. PICK e \in Callers : /\ On(e, s) /\ caller[e].pc = "save"
                               /\ \E row \in caller[e].row : row.grant = session[s].grant
      BY <2>4 DEF BeingSaved
    <3>2. e # c BY <2>1, <3>1 DEF On
    <3>3. QED BY <1>1, <3>1, <3>2 DEF BeingSaved, On, Active
  <2>5. QED BY <2>2, <2>3, <2>4
<1>9. QED BY <1>4, <1>5, <1>7, <1>8 DEF TokenInv

(* SoundCloud has made the next token of a grant. *)
LEMMA RotatedStillKnown ==
    ASSUME TypeOK, NEW row \in Row, Rotated(row), current[row.grant] = {row.gen}
    PROVE  /\ current'[row.grant] = {row.gen + 1}
           /\ \A g \in Grants \ {row.grant} : current'[g] = current[g]
           /\ \A other \in Row : Known(other) => Known(other)'
           /\ \A other \in Row : Known(other) /\ other.grant = row.grant => other.gen <= row.gen
<1>1. row.grant \in Grants /\ row.gen \in Nat BY RowFields
<1>2. /\ current'[row.grant] = {row.gen + 1}
      /\ \A g \in Grants \ {row.grant} : current'[g] = current[g]
  BY <1>1 DEF Rotated, TypeOK
<1>3. ASSUME NEW other \in Row, Known(other), other.grant = row.grant
      PROVE  other.gen <= row.gen
  BY <1>3 DEF Known
<1>4. ASSUME NEW other \in Row, Known(other) PROVE Known(other)'
  <2>1. other.grant \in Grants /\ other.gen \in Nat BY RowFields
  <2>2. CASE other.grant = row.grant
    <3>1. other.gen <= row.gen + 1 BY <1>1, <1>3, <1>4, <2>1, <2>2
    <3>2. QED BY <1>2, <2>2, <3>1 DEF Known
  <2>3. CASE other.grant # row.grant BY <1>2, <1>4, <2>1, <2>3 DEF Known
  <2>4. QED BY <2>2, <2>3
<1>5. QED BY <1>2, <1>3, <1>4

LEMMA CallOkTokens ==
    ASSUME TypeOK, TokenInv, NEW c \in Callers, CallOk(c)
    PROVE  TokenInv'
<1>1. PICK row \in caller[c].row : Accepts(row) /\ Rotated(row) /\ Carries(c, "save", Renewed(row))
  BY DEF CallOk
<1>2. InFlight(c) /\ caller[c].pc = "call" BY DEF CallOk, InFlight
<1>3. row \in Carried(caller[c]) BY <1>1, <1>2, InFlightCarries
<1>4. row \in Row /\ row.grant \in Grants /\ row.gen \in Nat BY <1>3, CarriedTyped
<1>5. current[row.grant] = {row.gen} BY <1>1 DEF Accepts
<1>6. PICK new : new = Renewed(row) OBVIOUS
<1>7. new \in Row /\ new.grant = row.grant /\ new.gen = row.gen + 1
  BY <1>4, <1>6, RowUpdates DEF Renewed, OpenRow
<1>8. PICK task : /\ Becomes(c, task) /\ task.pc = "save" /\ task.s = caller[c].s
                  /\ task.row = {new}
  <2>1. PICK task : task = TaskOf("save", caller[c].kind, caller[c].s, caller[c].lock, {new})
    OBVIOUS
  <2>2. Becomes(c, task) BY <1>1, <1>6, <2>1 DEF Carries, Moves, Becomes
  <2>3. task.pc = "save" /\ task.s = caller[c].s /\ task.row = {new} BY <2>1 DEF TaskOf
  <2>4. QED BY <2>2, <2>3
<1>9. caller'[c] = task /\ \A d \in Callers \ {c} : caller'[d] = caller[d] BY <1>8, OthersSame
<1>10. UNCHANGED <<session, lost, linked>> BY DEF CallOk, notes
<1>11. /\ current'[row.grant] = {row.gen + 1}
       /\ \A g \in Grants \ {row.grant} : current'[g] = current[g]
       /\ \A other \in Row : Known(other) => Known(other)'
       /\ \A other \in Row : Known(other) /\ other.grant = row.grant => other.gen <= row.gen
  BY <1>1, <1>4, <1>5, RotatedStillKnown
<1>12. /\ \A s \in Sessions : Open(s) => session[s] \in Row /\ Known(session[s])
       /\ \A d \in Callers : \A other \in Carried(caller[d]) : other \in Row /\ Known(other)
  BY RowOf, CarriedTyped DEF TokenInv, RowsKnown
<1>13. Carried(task) = {new} BY <1>8 DEF Carried
<1>14. RowsKnown'
  <2>1. Known(new)' BY <1>4, <1>7, <1>11 DEF Known
  <2>2. \A d \in Callers : \A other \in Carried(caller'[d]) : Known(other)'
    BY <1>9, <1>11, <1>12, <1>13, <2>1
  <2>3. \A s \in Sessions : Open(s) => Known(session[s])' BY <1>10, <1>11, <1>12 DEF Known
  <2>4. QED BY <1>10, <2>2, <2>3 DEF RowsKnown, Open
<1>15. OneHome'
  <2>1. \A d \in Callers : /\ caller'[d].s = caller[d].s
                           /\ \A other \in Carried(caller'[d]) :
                                 \E old \in Carried(caller[d]) : old.grant = other.grant
    BY <1>3, <1>7, <1>8, <1>9, <1>13
  <2>2. QED BY <1>10, <2>1 DEF TokenInv, OneHome, Open
<1>16. SaversAhead'
  <2>1. SUFFICES ASSUME NEW e \in Callers, caller'[e].pc = "save",
                        NEW r \in caller'[e].row, r.grant \notin Spoilt
                 PROVE  Ahead(e, r)'
    BY <1>10 DEF SaversAhead, Spoilt
  <2>2. CASE e = c
    <3>1. r = new BY <1>8, <1>9, <2>1, <2>2
    <3>2. Latest(r)' BY <1>7, <1>11, <3>1 DEF Latest
    <3>3. \A s \in Sessions : Open(s) /\ session[s].grant = r.grant => session[s].gen < r.gen
      <4>1. ASSUME NEW s \in Sessions, Open(s), session[s].grant = row.grant
            PROVE  session[s].gen < row.gen + 1
        <5>1. session[s].gen <= row.gen /\ session[s].gen \in Nat
          BY <1>11, <1>12, <4>1, RowFields
        <5>2. QED BY <1>4, <5>1
      <4>2. QED BY <1>7, <3>1, <4>1
    <3>4. ASSUME NEW d \in Callers \ {c}, InFlight(d), NEW other \in caller[d].row,
                 other.grant = row.grant
          PROVE  other.gen < row.gen + 1
      <4>1. other \in Carried(caller[d]) BY <3>4, InFlightCarries
      <4>2. other.gen <= row.gen /\ other.gen \in Nat BY <1>11, <1>12, <3>4, <4>1, RowFields
      <4>3. QED BY <1>4, <4>2
    <3>5. QED BY <1>7, <1>9, <1>10, <2>2, <3>1, <3>2, <3>3, <3>4 DEF Ahead, Open, InFlight
  <2>3. CASE e # c
    <3>1. caller'[e] = caller[e] BY <1>9, <2>3
    <3>2. Ahead(e, r) BY <2>1, <3>1 DEF TokenInv, SaversAhead
    <3>3. r \in Row /\ r.grant \in Grants /\ r.gen \in Nat
      BY <2>1, <3>1, CarriedTyped, InFlightCarries DEF InFlight
    <3>4. r.grant # row.grant
      <4>1. SUFFICES ASSUME r.grant = row.grant PROVE FALSE OBVIOUS
      <4>2. row.gen < r.gen BY <1>1, <1>2, <2>3, <3>2, <4>1 DEF Ahead
      <4>3. row.gen = r.gen BY <1>5, <3>2, <4>1 DEF Ahead, Latest
      <4>4. QED BY <1>4, <4>2, <4>3
    <3>5. Latest(r)' BY <1>11, <3>2, <3>3, <3>4 DEF Ahead, Latest
    <3>6. \A d \in Callers \ {e} : InFlight(d)' =>
             \A other \in caller'[d].row : other.grant = r.grant => other.gen < r.gen
      BY <1>7, <1>8, <1>9, <3>2, <3>4 DEF Ahead, InFlight
    <3>7. QED BY <1>10, <3>2, <3>5, <3>6 DEF Ahead, Open
  <2>4. QED BY <2>2, <2>3
<1>17. NewestKept'
  <2>1. SUFFICES ASSUME NEW s \in Sessions, Open(s), session[s].grant \notin Spoilt
                 PROVE  Latest(session[s])' \/ BeingSaved(s)'
    BY <1>10 DEF NewestKept, Spoilt, Open
  <2>2. session[s].grant \in Grants BY <1>12, <2>1, RowFields
  <2>3. CASE session[s].grant = row.grant
    <3>1. caller[c].s = s BY <1>3, <2>1, <2>3 DEF TokenInv, OneHome, Spoilt
    <3>2. QED
      BY <1>7, <1>8, <1>9, <1>10, <2>3, <3>1 DEF BeingSaved, On, Active
  <2>4. CASE session[s].grant # row.grant
    <3>1. Latest(session[s]) => Latest(session[s])' BY <1>10, <1>11, <2>2, <2>4 DEF Latest
    <3>2. BeingSaved(s) => BeingSaved(s)'
      BY <1>2, <1>9, <1>10 DEF BeingSaved, On, Active
    <3>3. QED BY <2>1, <3>1, <3>2 DEF TokenInv, NewestKept
  <2>5. QED BY <2>3, <2>4
<1>18. QED BY <1>14, <1>15, <1>16, <1>17 DEF TokenInv

LEMMA CallFailsTokens ==
    ASSUME TypeOK, TokenInv, NEW c \in Callers, CallFails(c)
    PROVE  TokenInv'
<1>0. Becomes(c, NoTask) /\ NoTask.pc = "idle" /\ caller[c].pc = "call"
  BY DEF CallFails, Returns, Becomes, NoTask
<1>1. Onward(c, NoTask) /\ InFlight(c) BY <1>0 DEF Onward, InFlight
<1>2. CASE UNCHANGED <<current, lost>>
  BY <1>0, <1>1, <1>2, TaskKeepsTokens DEF CallFails
<1>3. CASE \E row \in caller[c].row :
              Accepts(row) /\ Rotated(row) /\ lost' = lost \cup {row.grant}
  <2>1. PICK row \in caller[c].row :
              Accepts(row) /\ Rotated(row) /\ lost' = lost \cup {row.grant}
    BY <1>3
  <2>2. row \in Row BY <1>1, <2>1, InFlightCarries, CarriedTyped
  <2>3. current[row.grant] = {row.gen} BY <2>1 DEF Accepts
  <2>4. /\ \A g \in Grants \ {row.grant} : current'[g] = current[g]
        /\ \A other \in Row : Known(other) => Known(other)'
    BY <2>1, <2>2, <2>3, RotatedStillKnown
  <2>5. caller'[c] = NoTask /\ \A d \in Callers \ {c} : caller'[d] = caller[d]
    BY <1>0, OthersSame
  <2>6. UNCHANGED <<session, linked>> BY DEF CallFails
  <2>7. Carried(NoTask) = {} BY DEF Carried, NoTask
  <2>8. RowsKnown'
    <3>1. \A d \in Callers : \A other \in Carried(caller'[d]) : Known(other)'
      BY <2>4, <2>5, <2>7, CarriedTyped DEF TokenInv, RowsKnown
    <3>2. \A s \in Sessions : Open(s) => Known(session[s])'
      BY <2>4, <2>6, RowOf DEF TokenInv, RowsKnown, Known
    <3>3. QED BY <2>6, <3>1, <3>2 DEF RowsKnown, Open
  <2>9. OneHome' BY <2>5, <2>6, <2>7 DEF TokenInv, OneHome, Open
  <2>10. SaversAhead'
    <3>1. SUFFICES ASSUME NEW e \in Callers, caller'[e].pc = "save",
                          NEW r \in caller'[e].row, r.grant \notin Spoilt, r.grant # row.grant
                   PROVE  Ahead(e, r)'
      BY <2>1, <2>6 DEF SaversAhead, Spoilt
    <3>2. e # c /\ caller'[e] = caller[e] BY <1>0, <2>5, <3>1
    <3>3. Ahead(e, r) BY <3>1, <3>2 DEF TokenInv, SaversAhead
    <3>4. r.grant \in Grants BY <3>1, <3>2, CarriedTyped, InFlightCarries DEF InFlight
    <3>5. Latest(r)' BY <2>4, <3>1, <3>3, <3>4 DEF Ahead, Latest
    <3>6. \A d \in Callers \ {e} : InFlight(d)' => InFlight(d) /\ caller'[d] = caller[d]
      BY <1>0, <2>5 DEF InFlight
    <3>7. QED BY <2>6, <3>3, <3>5, <3>6 DEF Ahead, Open
  <2>11. NewestKept'
    <3>1. SUFFICES ASSUME NEW s \in Sessions, Open(s), session[s].grant \notin Spoilt,
                          session[s].grant # row.grant
                   PROVE  Latest(session[s])' \/ BeingSaved(s)'
      BY <2>1, <2>6 DEF NewestKept, Spoilt, Open
    <3>2. session[s].grant \in Grants BY <3>1, RowOf, RowFields
    <3>3. Latest(session[s]) => Latest(session[s])' BY <2>4, <2>6, <3>1, <3>2 DEF Latest
    <3>4. BeingSaved(s) => BeingSaved(s)'
      BY <1>0, <2>5, <2>6 DEF BeingSaved, On, Active
    <3>5. QED BY <3>1, <3>3, <3>4 DEF TokenInv, NewestKept
  <2>12. QED BY <2>8, <2>9, <2>10, <2>11 DEF TokenInv
<1>4. QED BY <1>2, <1>3 DEF CallFails

LEMMA SaveTokens ==
    ASSUME TypeOK, TokenInv, NEW c \in Callers, Save(c)
    PROVE  TokenInv'
<1>1. PICK row \in caller[c].row :
        IF Open(caller[c].s)
        THEN session' = [session EXCEPT ![caller[c].s] = Saved(session[caller[c].s], row)]
             /\ Gets(c, Saved(session[caller[c].s], row))
        ELSE UNCHANGED session /\ Returns(c)
  BY DEF Save
<1>2. InFlight(c) /\ caller[c].pc = "save" /\ UNCHANGED <<current, lost, linked>>
  BY DEF Save, InFlight, notes
<1>3. row \in Carried(caller[c]) BY <1>1, <1>2, InFlightCarries
<1>4. row \in Row /\ row.grant \in Grants /\ row.gen \in Nat /\ caller[c].s \in Sessions
  BY <1>3, CarriedTyped
<1>5. CASE ~Open(caller[c].s)
  <2>1. Becomes(c, NoTask) /\ Onward(c, NoTask)
    BY <1>1, <1>5 DEF Returns, Becomes, Onward, NoTask
  <2>2. QED BY <1>1, <1>2, <1>5, <2>1, TaskKeepsTokens
<1>6. CASE Open(caller[c].s)
  <2>1. PICK s \in Sessions : s = caller[c].s BY <1>4
  <2>2. PICK new : new = Saved(session[s], row) OBVIOUS
  <2>3. new.state = "open" /\ new.grant = row.grant /\ new.gen = row.gen
    BY <2>2 DEF Saved, OpenRow
  <2>4. session'[s] = new /\ \A t \in Sessions \ {s} : session'[t] = session[t]
    BY <1>1, <1>6, <2>1, <2>2 DEF TypeOK
  <2>5. PICK task : /\ Becomes(c, task) /\ task.pc \notin {"call", "save"}
                    /\ Carried(task) \subseteq {new}
                    /\ Carried(task) # {} => task.s = s
    <3>1. CASE Returns(c)
      <4>1. Becomes(c, NoTask) BY <3>1 DEF Returns, Becomes
      <4>2. NoTask.pc = "idle" /\ Carried(NoTask) = {} BY DEF NoTask, Carried
      <4>3. QED BY <4>1, <4>2
    <3>2. CASE Moves(c, "mint", NoLock, {new})
      <4>1. PICK task : task = TaskOf("mint", caller[c].kind, s, NoLock, {new}) OBVIOUS
      <4>2. Becomes(c, task) BY <2>1, <3>2, <4>1 DEF Moves, Becomes
      <4>3. task.pc = "mint" /\ task.s = s /\ task.row = {new} BY <4>1 DEF TaskOf
      <4>4. QED BY <4>2, <4>3 DEF Carried
    <3>3. QED BY <1>1, <1>6, <2>1, <2>2, <3>1, <3>2 DEF Gets
  <2>6. caller'[c] = task /\ \A d \in Callers \ {c} : caller'[d] = caller[d]
    BY <2>5, OthersSame
  <2>7. RowsKnown'
    <3>1. Known(new)' BY <1>2, <1>3, <2>3 DEF TokenInv, RowsKnown, Known
    <3>2. \A d \in Callers : \A other \in Carried(caller'[d]) : Known(other)'
      BY <1>2, <2>5, <2>6, <3>1 DEF TokenInv, RowsKnown, Known
    <3>3. \A t \in Sessions : Open(t)' => Known(session[t])'
      BY <1>2, <2>4, <3>1 DEF TokenInv, RowsKnown, Known, Open
    <3>4. QED BY <3>2, <3>3 DEF RowsKnown
  <2>8. OneHome'
    <3>1. ASSUME NEW t \in Sessions, Open(t)', session'[t].grant \notin linked
          PROVE  \/ Open(t) /\ session[t].grant = session'[t].grant
                 \/ t = caller[c].s /\ session'[t].grant = row.grant
      BY <2>1, <2>3, <2>4, <3>1 DEF Open
    <3>2. ASSUME NEW d \in Callers, NEW other \in Carried(caller'[d])
          PROVE  \/ other \in Carried(caller[d]) /\ caller'[d].s = caller[d].s
                 \/ other.grant = row.grant /\ caller'[d].s = caller[c].s
      BY <2>1, <2>3, <2>5, <2>6, <3>2
    <3>3. \A t, u \in Sessions :
             /\ Open(t)' /\ Open(u)'
             /\ session'[t].grant = session'[u].grant /\ session'[t].grant \notin linked
             => t = u
      BY <1>3, <3>1 DEF TokenInv, OneHome
    <3>4. \A t \in Sessions, d \in Callers : \A other \in Carried(caller'[d]) :
             Open(t)' /\ session'[t].grant = other.grant /\ other.grant \notin linked
                => caller'[d].s = t
      BY <1>3, <3>1, <3>2 DEF TokenInv, OneHome
    <3>5. \A d, e \in Callers : \A other \in Carried(caller'[d]), more \in Carried(caller'[e]) :
             other.grant = more.grant /\ other.grant \notin linked => caller'[d].s = caller'[e].s
      BY <1>3, <3>2 DEF TokenInv, OneHome
    <3>6. QED BY <1>2, <3>3, <3>4, <3>5 DEF OneHome
  <2>9. SaversAhead'
    <3>1. SUFFICES ASSUME NEW e \in Callers, caller'[e].pc = "save",
                          NEW r \in caller'[e].row, r.grant \notin Spoilt
                   PROVE  Ahead(e, r)'
      BY <1>2 DEF SaversAhead, Spoilt
    <3>2. e # c /\ caller'[e] = caller[e] /\ InFlight(e) BY <2>5, <2>6, <3>1 DEF InFlight
    <3>3. Ahead(e, r) BY <3>1, <3>2 DEF TokenInv, SaversAhead
    <3>4. r.gen \in Nat BY <3>1, <3>2, CarriedTyped, InFlightCarries
    <3>5. r.grant # row.grant
      <4>1. SUFFICES ASSUME r.grant = row.grant PROVE FALSE OBVIOUS
      <4>2. row.gen < r.gen BY <1>1, <1>2, <3>2, <3>3, <4>1 DEF Ahead
      <4>3. Ahead(c, row) BY <1>1, <1>2, <3>1, <4>1 DEF TokenInv, SaversAhead
      <4>4. r.gen < row.gen BY <3>1, <3>2, <4>1, <4>3 DEF Ahead
      <4>5. QED BY <1>4, <3>4, <4>2, <4>4
    <3>6. \A t \in Sessions : Open(t)' /\ session'[t].grant = r.grant => session'[t].gen < r.gen
      BY <2>3, <2>4, <3>3, <3>5 DEF Ahead, Open
    <3>7. \A d \in Callers \ {e} : InFlight(d)' => InFlight(d) /\ caller'[d] = caller[d]
      BY <2>5, <2>6 DEF InFlight
    <3>8. QED BY <1>2, <3>3, <3>6, <3>7 DEF Ahead, Latest
  <2>10. NewestKept'
    <3>1. SUFFICES ASSUME NEW t \in Sessions, Open(t)', session'[t].grant \notin Spoilt
                   PROVE  Latest(session[t])' \/ BeingSaved(t)'
      BY <1>2 DEF NewestKept, Spoilt
    <3>2. CASE t = s
      <4>1. Latest(row) BY <1>1, <1>2, <2>3, <2>4, <3>1, <3>2 DEF TokenInv, SaversAhead, Ahead
      <4>2. QED BY <1>2, <2>3, <2>4, <3>2, <4>1 DEF Latest
    <3>3. CASE t # s
      <4>1. session'[t] = session[t] /\ Open(t) BY <2>4, <3>1, <3>3 DEF Open
      <4>2. Latest(session[t]) => Latest(session[t])' BY <1>2, <4>1 DEF Latest
      <4>3. BeingSaved(t) => BeingSaved(t)'
        BY <2>1, <2>6, <3>3, <4>1 DEF BeingSaved, On, Active
      <4>4. QED BY <3>1, <4>1, <4>2, <4>3 DEF TokenInv, NewestKept
    <3>4. QED BY <3>2, <3>3
  <2>11. QED BY <2>7, <2>8, <2>9, <2>10 DEF TokenInv
<1>7. QED BY <1>5, <1>6

(* A new row for a grant that nobody had, or that is now known to be linked.*)
LEMMA NewRowKeepsTokens ==
    ASSUME TypeOK, TokenInv, NEW s \in Sessions, NEW row \in Row,
           session' = [session EXCEPT ![s] = row],
           UNCHANGED lost, linked \subseteq linked',
           \A g \in Grants \ {row.grant} : current'[g] = current[g],
           \A g \in linked' \ linked : g = row.grant,
           Latest(row)' \/ row.grant \in linked',
           Known(row)',
           \A t \in Sessions : Open(t) => Known(session[t])',
           \A d \in Callers :
              /\ caller'[d].pc \in {"call", "save"} => caller'[d] = caller[d]
              /\ caller[d].pc = "save" => caller'[d] = caller[d]
              /\ Carried(caller'[d]) # {} => caller'[d].s = caller[d].s
              /\ Carried(caller'[d]) \subseteq Carried(caller[d])
              /\ \A other \in Carried(caller[d]) : Known(other)',
           \/ row.grant \in linked'
           \/ /\ \A t \in Sessions : Open(t) => session[t].grant # row.grant
              /\ \A d \in Callers : \A other \in Carried(caller[d]) : other.grant # row.grant
    PROVE  TokenInv'
<1>1. session'[s] = row /\ \A t \in Sessions \ {s} : session'[t] = session[t] BY DEF TypeOK
<1>2. RowsKnown' BY <1>1 DEF RowsKnown, Open, Known
<1>3. OneHome'
  <2>1. ASSUME NEW t \in Sessions, Open(t)', session'[t].grant \notin linked'
        PROVE  \/ Open(t) /\ session'[t] = session[t]
               \/ t = s /\ session'[t].grant = row.grant
    BY <1>1, <2>1 DEF Open
  <2>2. \A t, u \in Sessions :
           /\ Open(t)' /\ Open(u)'
           /\ session'[t].grant = session'[u].grant /\ session'[t].grant \notin linked'
           => t = u
    BY <2>1 DEF TokenInv, OneHome
  <2>3. \A t \in Sessions, d \in Callers : \A other \in Carried(caller'[d]) :
           Open(t)' /\ session'[t].grant = other.grant /\ other.grant \notin linked'
              => caller'[d].s = t
    <3>1. SUFFICES ASSUME NEW t \in Sessions, NEW d \in Callers, NEW other \in Carried(caller'[d]),
                          Open(t)', session'[t].grant = other.grant, other.grant \notin linked'
                   PROVE  caller'[d].s = t
      OBVIOUS
    <3>2. other \in Carried(caller[d]) /\ caller'[d].s = caller[d].s BY <3>1
    <3>3. other.grant # row.grant BY <3>1, <3>2
    <3>4. Open(t) /\ session'[t] = session[t] BY <2>1, <3>1, <3>3
    <3>5. QED BY <3>1, <3>2, <3>4 DEF TokenInv, OneHome
  <2>4. \A d, e \in Callers : \A other \in Carried(caller'[d]), more \in Carried(caller'[e]) :
           other.grant = more.grant /\ other.grant \notin linked' => caller'[d].s = caller'[e].s
    <3>1. SUFFICES ASSUME NEW d \in Callers, NEW e \in Callers,
                          NEW other \in Carried(caller'[d]), NEW more \in Carried(caller'[e]),
                          other.grant = more.grant, other.grant \notin linked'
                   PROVE  caller'[d].s = caller'[e].s
      OBVIOUS
    <3>2. /\ other \in Carried(caller[d]) /\ caller'[d].s = caller[d].s
          /\ more \in Carried(caller[e]) /\ caller'[e].s = caller[e].s
      BY <3>1
    <3>3. QED BY <3>1, <3>2 DEF TokenInv, OneHome
  <2>5. QED BY <2>2, <2>3, <2>4 DEF OneHome
<1>4. SaversAhead'
  <2>1. SUFFICES ASSUME NEW e \in Callers, caller'[e].pc = "save",
                        NEW r \in caller'[e].row, r.grant \notin lost' \cup linked'
                 PROVE  Ahead(e, r)'
    BY DEF SaversAhead, Spoilt
  <2>2. caller'[e] = caller[e] /\ InFlight(e) BY <2>1 DEF InFlight
  <2>3. Ahead(e, r) BY <2>1, <2>2 DEF TokenInv, SaversAhead, Spoilt
  <2>4. r \in Carried(caller[e]) /\ r.grant \in Grants
    BY <2>1, <2>2, InFlightCarries, CarriedTyped
  <2>5. r.grant # row.grant BY <2>1, <2>4
  <2>6. Latest(r)' BY <2>3, <2>4, <2>5 DEF Ahead, Latest
  <2>7. \A t \in Sessions : Open(t)' /\ session'[t].grant = r.grant => session'[t].gen < r.gen
    BY <1>1, <2>3, <2>5 DEF Ahead, Open
  <2>8. \A d \in Callers \ {e} : InFlight(d)' => InFlight(d) /\ caller'[d] = caller[d]
    BY DEF InFlight
  <2>9. QED BY <2>3, <2>6, <2>7, <2>8 DEF Ahead
<1>5. NewestKept'
  <2>1. SUFFICES ASSUME NEW t \in Sessions, Open(t)', session'[t].grant \notin lost' \cup linked'
                 PROVE  Latest(session[t])' \/ BeingSaved(t)'
    BY DEF NewestKept, Spoilt
  <2>2. CASE t = s BY <1>1, <2>1, <2>2 DEF Latest
  <2>3. CASE t # s
    <3>1. session'[t] = session[t] /\ Open(t) BY <1>1, <2>1, <2>3 DEF Open
    <3>2. session[t].grant \in Grants /\ session[t].grant # row.grant
      BY <2>1, <3>1, RowOf, RowFields
    <3>3. Latest(session[t]) => Latest(session[t])' BY <3>1, <3>2 DEF Latest
    <3>4. BeingSaved(t) => BeingSaved(t)' BY <3>1 DEF BeingSaved, On, Active
    <3>5. QED BY <2>1, <3>1, <3>3, <3>4 DEF TokenInv, NewestKept, Spoilt
  <2>4. QED BY <2>2, <2>3
<1>6. QED BY <1>2, <1>3, <1>4, <1>5 DEF TokenInv

LEMMA MintTokens ==
    ASSUME TypeOK, TokenInv, NEW c \in Callers, Mint(c)
    PROVE  TokenInv'
<1>1. PICK t \in Sessions, row \in caller[c].row :
          /\ session[t] = NewRow /\ session' = [session EXCEPT ![t] = row]
          /\ linked' = linked \cup {row.grant}
  BY DEF Mint
<1>2. caller[c].pc = "mint" /\ UNCHANGED <<current, lost>> BY DEF Mint
<1>3. row \in Carried(caller[c]) BY <1>1, <1>2 DEF Carried
<1>4. row \in Row /\ Known(row) BY <1>3, CarriedTyped DEF TokenInv, RowsKnown
<1>5. PICK task : task = TaskOf("mark", caller[c].kind, caller[c].s, caller[c].lock, caller[c].row)
  OBVIOUS
<1>6. task.pc = "mark" /\ task.s = caller[c].s /\ task.row = caller[c].row BY <1>5 DEF TaskOf
<1>7. Becomes(c, task) BY <1>5 DEF Mint, Goes, Moves, Becomes
<1>8. caller'[c] = task /\ \A d \in Callers \ {c} : caller'[d] = caller[d] BY <1>7, OthersSame
<1>9. Carried(task) = Carried(caller[c]) BY <1>2, <1>6 DEF Carried
<1>10. \A other : Known(other) => Known(other)' BY <1>2 DEF Known
<1>11. ASSUME NEW s \in Sessions, Open(s) PROVE Known(session[s])'
  <2>1. s # t BY <1>1, <1>11 DEF Open, NewRow
  <2>2. session'[s] = session[s] BY <1>1, <2>1 DEF TypeOK
  <2>3. QED BY <1>2, <1>11, <2>2 DEF TokenInv, RowsKnown, Known
<1>12. ASSUME NEW d \in Callers
       PROVE  /\ caller'[d].pc \in {"call", "save"} => caller'[d] = caller[d]
              /\ caller[d].pc = "save" => caller'[d] = caller[d]
              /\ Carried(caller'[d]) # {} => caller'[d].s = caller[d].s
              /\ Carried(caller'[d]) \subseteq Carried(caller[d])
              /\ \A other \in Carried(caller[d]) : Known(other)'
  BY <1>2, <1>6, <1>8, <1>9, <1>10 DEF TokenInv, RowsKnown
<1>13. /\ \A g \in Grants \ {row.grant} : current'[g] = current[g]
       /\ \A g \in linked' \ linked : g = row.grant
       /\ row.grant \in linked' /\ linked \subseteq linked' /\ Known(row)'
  BY <1>1, <1>2, <1>4, <1>10
<1>14. QED BY <1>1, <1>2, <1>4, <1>11, <1>12, <1>13, NewRowKeepsTokens

LEMMA SignInTokens ==
    ASSUME TypeOK, TokenInv, NEW s \in Sessions, SignIn(s)
    PROVE  TokenInv'
<1>1. PICK g \in Grants \ Given :
          /\ current' = [current EXCEPT ![g] = {0}]
          /\ session' = [session EXCEPT ![s] = SignedIn(session[s], g)]
          /\ UNCHANGED <<caller, lost, linked>>
  BY DEF SignIn
<1>2. PICK row : row = SignedIn(session[s], g) OBVIOUS
<1>3. row.grant = g /\ row.gen = 0 /\ row \in Row BY <1>1, <1>2 DEF SignedIn, OpenRow, Row
<1>4. current[g] = {} BY <1>1 DEF Given
<1>5. current'[g] = {0} /\ \A h \in Grants \ {g} : current'[h] = current[h]
  BY <1>1 DEF TypeOK
<1>6. \A other \in Row : Known(other) => other.grant # g /\ Known(other)'
  BY <1>4, <1>5, RowFields DEF Known
<1>7. \A t \in Sessions : Open(t) => session[t].grant # g /\ session[t] \in Row /\ Known(session[t])
  BY <1>6, RowOf DEF TokenInv, RowsKnown
<1>8. \A d \in Callers : \A other \in Carried(caller[d]) : other.grant # g /\ Known(other)'
  BY <1>6, CarriedTyped DEF TokenInv, RowsKnown
<1>9. Known(row)' /\ Latest(row)' BY <1>3, <1>5 DEF Known, Latest
<1>10. ASSUME NEW t \in Sessions, Open(t) PROVE Known(session[t])'
  <2>1. CASE t = s BY <1>1, <1>2, <1>9, <2>1 DEF TypeOK, Known
  <2>2. CASE t # s
    <3>1. session'[t] = session[t] BY <1>1, <2>2 DEF TypeOK
    <3>2. session[t].grant \in Grants \ {g} /\ Known(session[t])
      BY <1>7, <1>10, RowFields
    <3>3. QED BY <1>5, <3>1, <3>2 DEF Known
  <2>3. QED BY <2>1, <2>2
<1>11. QED BY <1>1, <1>2, <1>3, <1>5, <1>7, <1>8, <1>9, <1>10, NewRowKeepsTokens

LEMMA TokensInductive == TypeOK /\ Attended /\ TokenInv /\ [Next]_vars => TokenInv'
<1>1. ASSUME TypeOK, TokenInv, UNCHANGED vars PROVE TokenInv'
  BY <1>1, FewerKeepTokens DEF vars, Open
<1>2. ASSUME TypeOK, Attended, TokenInv, NEW c \in Callers,
             Step(c) \/ Acquire(c) \/ Cancel(c) \/ \E s \in Sessions, kind \in Kinds : Begin(c, kind, s)
      PROVE  TokenInv'
  <2>1. CASE \/ \E s \in Sessions, kind \in Kinds : Begin(c, kind, s)
             \/ Lookup(c) \/ MakeLock(c) \/ Acquire(c) \/ Reread(c) \/ CallRefused(c) \/ Mark(c)
    <3>1. PICK task : Becomes(c, task) /\ Onward(c, task) BY <1>2, <2>1, QuietSteps
    <3>2. UNCHANGED <<session, current, linked, lost>> /\ caller[c].pc # "save"
      BY <1>2, <2>1, QuietSteps
    <3>3. QED BY <1>2, <3>1, <3>2, TaskKeepsTokens
  <2>2. CASE Cancel(c)
    <3>1. Becomes(c, NoTask) /\ Onward(c, NoTask)
      BY <2>2 DEF Cancel, Returns, Becomes, Onward, NoTask
    <3>2. /\ UNCHANGED <<session, current, linked>> /\ lost \subseteq lost'
          /\ caller[c].pc = "save" => \A row \in caller[c].row : row.grant \in lost'
      BY <2>2 DEF Cancel, tables
    <3>3. QED BY <1>2, <3>1, <3>2, TaskKeepsTokens
  <2>3. QED
    BY <1>2, <2>1, <2>2, CallOkTokens, CallFailsTokens, SaveTokens, MintTokens DEF Step, Call
<1>3. ASSUME TypeOK, TokenInv, NEW s \in Sessions,
             SignOut(s) \/ EndSession(s) \/ Expire(s) \/ FailureExpires(s) \/ Evict(s)
      PROVE  TokenInv'
  <2>1. /\ UNCHANGED <<current, linked, caller, lost>>
        /\ \A t \in Sessions \ {s} : session'[t] = session[t]
    BY <1>3 DEF SignOut, EndSession, Expire, FailureExpires, Evict, TypeOK, tables, notes
  <2>2. Open(s)' => /\ Open(s) /\ session'[s].grant = session[s].grant
                    /\ session'[s].gen = session[s].gen
    BY <1>3 DEF SignOut, EndSession, Expire, FailureExpires, Evict, TypeOK, tables, notes,
                Open, OpenRow, Ended
  <2>3. QED BY <1>3, <2>1, <2>2, FewerKeepTokens DEF Open
<1>4. QED
  BY <1>1, <1>2, <1>3, SignInTokens DEF Next

(* The newest refresh token of a grant is in its session's row or on the    *)
(* way there, however many callers refresh with or without one mutex, and   *)
(* whatever signs in, out or expires meanwhile: only a fault loses it.      *)
THEOREM NewestTokenKept == Spec => []TokenKept
<1>1. Init => TypeOK /\ AccountInv /\ TokenInv
  BY InitTyped, InitAccount, InitTokens
<1>2. TypeOK /\ AccountInv /\ TokenInv /\ [Next]_vars => TypeOK' /\ AccountInv' /\ TokenInv'
  BY TypeInductive, AccountInductive, TokensInductive DEF AccountInv
<1>3. TokenInv => TokenKept
  <2>1. SUFFICES ASSUME TokenInv, NEW s \in Sessions, Open(s),
                        session[s].grant \notin lost \cup linked \cup revoked
                 PROVE  \/ Accepts(session[s])
                        \/ \E c \in Callers :
                              /\ On(c, s) /\ caller[c].pc = "save"
                              /\ \E row \in caller[c].row :
                                    row.grant = session[s].grant /\ Accepts(row)
    BY DEF TokenKept
  <2>2. CASE Latest(session[s]) BY <2>1, <2>2 DEF Latest, Accepts
  <2>3. CASE BeingSaved(s)
    BY <2>1, <2>3 DEF BeingSaved, TokenInv, SaversAhead, Spoilt, Ahead, Latest, Accepts
  <2>4. QED BY <2>1, <2>2, <2>3 DEF TokenInv, NewestKept, Spoilt
<1>4. QED
  BY <1>1, <1>2, <1>3, PTL DEF Spec
===============================================================================
