------------------------------- MODULE Enrich -------------------------------
(***************************************************************************)
(* The enrichment of indexed tracks (enrich/service.rs): messages handled  *)
(* by the processes of the backend, one at a time each, under an advisory  *)
(* lock of the database, with retries by the backfill loop.  Resolving     *)
(* (resolver.rs) is a choice of its outcome; what a transaction writes     *)
(* beyond the state of the track (artists, albums, credits) is left out.   *)
(*                                                                         *)
(* A failure leaves no trace: mark_failed writes the error's text into     *)
(* enrich_source, which is varchar(16), and every error's text is longer,  *)
(* so Postgres refuses the UPDATE and the caller ignores that.             *)
(***************************************************************************)
EXTENDS Naturals, FiniteSets

CONSTANTS Works,         \* tracks
          Enrichers,     \* processes
          NoWork,
          MaxAttempts,   \* enrich_max_attempts
          MaxPublishes,  \* bound: messages sent by others than the backfill
          MaxCrashes     \* bound: crashes, losses, errors of a source or a statement

ASSUME EnrichAssumption ==
  /\ NoWork \notin Works /\ IsFiniteSet(Enrichers)
  /\ MaxAttempts \in Nat \ {0} /\ MaxPublishes \in Nat /\ MaxCrashes \in Nat

VARIABLES nameless,   \* tracks of which no source names an artist: does not change
          work,       \* state, attempts and backoff of a track's row
          mailed,     \* the tracks with a message in the stream
          handling,   \* the message a process handles
          locked,     \* the advisory locks: <<track, holder>>
          published, crashes
enrichVars == <<nameless, work, mailed, handling, locked, published, crashes>>

NoTrackRow == [state |-> "none", attempts |-> 0, due |-> FALSE, fresh |-> FALSE]
IdleHandler == [pc |-> "idle", track |-> NoWork]
EnrichInit ==
  /\ nameless \in SUBSET Works
  /\ work = [t \in Works |-> NoTrackRow]
  /\ mailed = {} /\ locked = {}
  /\ handling = [p \in Enrichers |-> IdleHandler]
  /\ published = 0 /\ crashes = 0

Proceeds(p, pc) == handling' = [handling EXCEPT ![p].pc = pc]
Rests(p) == handling' = [handling EXCEPT ![p] = IdleHandler]
Of(p) == handling[p].track
Lock(p) == <<Of(p), p>>
HoldersOf(t) == {p \in Enrichers : <<t, p>> \in locked}
NoCrash == UNCHANGED <<nameless, published, crashes>>
Crash == crashes < MaxCrashes /\ crashes' = crashes + 1 /\ UNCHANGED <<nameless, published>>

-----------------------------------------------------------------------------
(* The indexing inserts the track's row. *)
TrackKnown(t) ==
  /\ work[t].state = "none"
  /\ work' = [work EXCEPT ![t] = [NoTrackRow EXCEPT !.state = "pending", !.due = TRUE]]
  /\ UNCHANGED <<mailed, handling, locked>> /\ NoCrash

PublishEnrich(t) ==
  /\ work[t].state # "none"
  /\ published < MaxPublishes /\ published' = published + 1
  /\ mailed' = mailed \cup {t}
  /\ UNCHANGED <<nameless, work, handling, locked, crashes>>

(* A delivery.  The handler always returns Ok, so a message only comes     *)
(* again when ack_wait passes first: `redelivered'.  The cache `inflight'  *)
(* drops it when it comes back to the same process.                        *)
HandleMessage(p, t) ==
  /\ t \in mailed /\ handling[p].pc = "idle"
  /\ handling' = [handling EXCEPT ![p] = [pc |-> "read", track |-> t]]
  /\ \/ mailed' = mailed \ {t} /\ NoCrash
     \/ UNCHANGED mailed /\ Crash
  /\ UNCHANGED <<work, locked>>

(* The row is read before the lock; a fresh `done' needs nothing. *)
ReadRow(p) ==
  LET w == work[Of(p)] IN
  /\ handling[p].pc = "read"
  /\ IF w.state = "done" /\ w.fresh THEN Rests(p)
     ELSE Proceeds(p, "lock")
  /\ UNCHANGED <<work, mailed, locked>> /\ NoCrash

TryAdvisoryLock(p) ==
  /\ handling[p].pc = "lock"
  /\ IF HoldersOf(Of(p)) # {} THEN Rests(p) /\ UNCHANGED locked
     ELSE Proceeds(p, "resolve") /\ locked' = locked \cup {Lock(p)}
  /\ UNCHANGED <<work, mailed>> /\ NoCrash

(* A verified account, ISRC, MusicBrainz, Genius, AI or the title gave an  *)
(* artist, or none has one, or asking them failed.                         *)
Resolve(p) ==
  /\ handling[p].pc = "resolve"
  /\ \/ Of(p) \notin nameless /\ Proceeds(p, "apply") /\ NoCrash
     \/ Of(p) \in nameless /\ Proceeds(p, "failing") /\ NoCrash
     \/ Proceeds(p, "failing") /\ Crash
  /\ UNCHANGED <<work, mailed, locked>>

(* persist::apply commits, or is rolled back (a unique index, a deadlock). *)
Apply(p) ==
  /\ handling[p].pc = "apply"
  /\ work' = [work EXCEPT ![Of(p)] =
       [state |-> "done", attempts |-> @.attempts + 1, due |-> FALSE, fresh |-> TRUE]]
  /\ Proceeds(p, "unlock")
  /\ UNCHANGED <<mailed, locked>> /\ NoCrash
ApplyFails(p) ==
  /\ handling[p].pc = "apply" /\ Proceeds(p, "failing") /\ Crash
  /\ UNCHANGED <<work, mailed, locked>>

(* The guard is dropped when process() returns; the unlocking statement    *)
(* may run after what follows.                                             *)
Unlock(p) ==
  /\ handling[p].pc = "unlock" /\ Rests(p)
  /\ locked' = locked \ {Lock(p)}
  /\ UNCHANGED <<work, mailed>> /\ NoCrash
(* Mutant: the guard is leaked on the way out of an error. *)
LockLeaked(p) ==
  /\ handling[p].pc = "failing" /\ Proceeds(p, "failed")
  /\ UNCHANGED <<work, mailed, locked>> /\ NoCrash

UnlockAfterFailure(p) ==
  /\ handling[p].pc = "failing" /\ Proceeds(p, "failed")
  /\ locked' = locked \ {Lock(p)}
  /\ UNCHANGED <<work, mailed>> /\ NoCrash

(* The UPDATE that would count the attempt is refused, which is ignored.   *)
MarkFailed(p) ==
  /\ handling[p].pc = "failed" /\ Rests(p)
  /\ UNCHANGED <<work, mailed, locked>> /\ NoCrash

(* The process dies: its connection and its locks go; the message comes    *)
(* again or had been dropped as a duplicate.                               *)
EnricherDies(p) ==
  /\ handling[p].pc # "idle" /\ Crash /\ Rests(p)
  /\ locked' = locked \ {Lock(p)}
  /\ mailed' \in {mailed, mailed \cup {Of(p)}}
  /\ UNCHANGED work

(* The lock's connection is cut: the lock goes, its holder does not notice. *)
LockConnectionLost(t) ==
  /\ \E p \in HoldersOf(t) : locked' = locked \ {<<t, p>>}
  /\ Crash
  /\ UNCHANGED <<work, mailed, handling>>
MessageLost(t) ==
  /\ t \in mailed /\ Crash /\ mailed' = mailed \ {t}
  /\ UNCHANGED <<work, handling, locked>>

-----------------------------------------------------------------------------
(* The backfill loop claims due rows by enriched_at and republishes them;  *)
(* a publication that fails is only logged.                                *)
MayBackfill(w) == w.state \in {"pending", "failed"} /\ w.attempts < MaxAttempts /\ w.due
Backfill(t) ==
  /\ MayBackfill(work[t])
  /\ work' = [work EXCEPT ![t].due = FALSE]
  /\ \/ mailed' = mailed \cup {t} /\ NoCrash
     \/ UNCHANGED mailed /\ Crash
  /\ UNCHANGED <<handling, locked>>

(* 5 minutes * 2^attempts pass; a done row is no longer fresh. *)
BackoffEnds(t) ==
  /\ work[t].state # "none" /\ ~work[t].due /\ work' = [work EXCEPT ![t].due = TRUE]
  /\ UNCHANGED <<mailed, handling, locked>> /\ NoCrash
GetsStale(t) ==
  /\ work[t].fresh /\ work' = [work EXCEPT ![t].fresh = FALSE]
  /\ UNCHANGED <<mailed, handling, locked>> /\ NoCrash

-----------------------------------------------------------------------------
HandlerRuns(p) ==
  \/ \E t \in Works : HandleMessage(p, t)
  \/ ReadRow(p) \/ TryAdvisoryLock(p) \/ Resolve(p) \/ Apply(p) \/ ApplyFails(p)
  \/ Unlock(p) \/ UnlockAfterFailure(p) \/ MarkFailed(p)
EnrichNext ==
  \/ \E p \in Enrichers : HandlerRuns(p) \/ EnricherDies(p)
  \/ \E t \in Works : TrackKnown(t) \/ PublishEnrich(t) \/ LockConnectionLost(t) \/ MessageLost(t)
                        \/ Backfill(t) \/ BackoffEnds(t) \/ GetsStale(t)

(* The backfill takes the oldest rows first and the stream delivers in     *)
(* order, so that the tracks that never end do not keep the others out.    *)
EnrichFairness ==
  /\ \A p \in Enrichers : WF_enrichVars(HandlerRuns(p))
  /\ \A t \in Works :
       /\ WF_enrichVars(BackoffEnds(t)) /\ WF_enrichVars(Backfill(t))
       /\ SF_enrichVars(\E p \in Enrichers : HandleMessage(p, t))
EnrichSpec == EnrichInit /\ [][EnrichNext]_enrichVars /\ EnrichFairness

-----------------------------------------------------------------------------
(* Properties. *)

(* A track is enriched by one process at a time, except for one more with  *)
(* every connection that was cut under a lock.                             *)
Enriching(p) == handling[p].pc \in {"resolve", "apply", "unlock", "failing"}
EnrichedAlone ==
  \A t \in Works : Cardinality({p \in Enrichers : Enriching(p) /\ Of(p) = t}) <= 1 + crashes

(* Every track that a source names is enriched in the end: no refused      *)
(* transaction, lost message, dead process, lock left behind, duplicate or *)
(* track that nobody can name keeps it from it.                            *)
EnrichEnds ==
  \A t \in Works : (work[t].state # "none" /\ t \notin nameless) ~> work[t].state = "done"
=============================================================================
