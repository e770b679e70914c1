----------------------------- MODULE Catalogue -----------------------------
(***************************************************************************)
(* Discographies: the crawl of an artist's recordings (artist_crawl.rs)    *)
(* fills wanted_tracks page by page, the resolver (wanted_resolver.rs,     *)
(* sc_account_scan.rs) links its rows to tracks of SoundCloud.             *)
(*                                                                         *)
(* One wanted row per page stands for the rows of the page.  Names, albums *)
(* and the scores of matches are left out: a row is on SoundCloud, is not  *)
(* (Absent), or its resolution always fails (Broken).                      *)
(***************************************************************************)
EXTENDS Naturals, Sequences, FiniteSets, SequencesExt

CONSTANTS Artists, Crawlers,    \* Crawlers: tasks of any process
          MbPages, GeniusPages, \* pages of a discography
          PagesPerRun,          \* 10
          MaxCrawls,            \* max_attempts of cfg
          Absent, Broken,       \* wanted rows
          BatchSize,            \* BATCH_SIZE
          MaxRuns,              \* bound: claims of an artist
          MaxErrors             \* bound: errors that pass

Sources == {"mb", "genius"}
PagesOf(src) == IF src = "mb" THEN MbPages ELSE GeniusPages
WantedRows == UNION {Artists \X {src} \X (0..(PagesOf(src) - 1)) : src \in Sources}

ASSUME CatalogueAssumption ==
  /\ MbPages \in Nat \ {0} /\ GeniusPages \in Nat \ {0} /\ PagesPerRun \in Nat \ {0}
  /\ BatchSize \in Nat \ {0} /\ MaxCrawls \in Nat /\ MaxRuns \in Nat /\ MaxErrors \in Nat
  /\ Absent \subseteq WantedRows /\ Broken \subseteq WantedRows

VARIABLES artist,    \* last_crawled_at, crawl_attempts and the two offsets
          crawling,  \* what a task holds of the row it claimed
          browsed,   \* the pages of an artist that a crawl has got
          queue,     \* the rows `wanted', by updated_at
          catalogued, \* the rows `linked'
          batch,     \* what is left of the resolver's batch, under its lock
          errors
catalogueVars == <<artist, crawling, browsed, queue, catalogued, batch, errors>>

NoCrawl == [pc |-> "idle"]
CatalogueInit ==
  /\ artist = [a \in Artists |-> [last |-> "never", runs |-> 0, offset |-> [src \in Sources |-> 0]]]
  /\ crawling = [c \in Crawlers |-> NoCrawl]
  /\ browsed = [a \in Artists |-> {}]
  /\ queue = <<>> /\ catalogued = {} /\ batch = <<>> /\ errors = 0

NoError == UNCHANGED errors
OneError == errors < MaxErrors /\ errors' = errors + 1

-----------------------------------------------------------------------------
(* Claims.  UPDATE ... RETURNING takes the artist and its offsets in one   *)
(* statement; the crawl works on that copy.                                *)
Claim(c, a) ==
  /\ crawling[c].pc = "idle" /\ artist[a].runs < MaxRuns
  /\ artist' = [artist EXCEPT ![a].last = "now", ![a].runs = @ + 1]
  /\ crawling' = [crawling EXCEPT ![c] =
       [pc |-> "mb", artist |-> a, offset |-> artist[a].offset, next |-> 0, left |-> PagesPerRun]]
  /\ UNCHANGED <<browsed, queue, catalogued, batch>> /\ NoError

RunTick(c, a) == artist[a].last \in {"never", "stale"} /\ artist[a].runs < MaxCrawls /\ Claim(c, a)
PickupFresh(c, a) == artist[a].last = "never" /\ artist[a].runs < MaxCrawls /\ Claim(c, a)
RunForArtist(c, a) == artist[a].last # "now" /\ Claim(c, a)

(* Five minutes, then stale_after_hours.  A crawl may last longer. *)
TimePasses(a) ==
  /\ artist[a].last \in {"now", "minutes"}
  /\ artist' = [artist EXCEPT ![a].last = IF @ = "now" THEN "minutes" ELSE "stale"]
  /\ UNCHANGED <<crawling, browsed, queue, catalogued, batch>> /\ NoError

-----------------------------------------------------------------------------
(* The crawl. *)
Becoming(c, k) == crawling' = [crawling EXCEPT ![c] = k]
Source(k) == IF k.pc \in {"mb", "set_mb"} THEN "mb" ELSE "genius"
Phase(src) == IF src = "mb" THEN "set_mb" ELSE "set_genius"
Following(k) == IF Source(k) = "mb" THEN [k EXCEPT !.pc = "genius", !.left = PagesPerRun]
                ELSE [k EXCEPT !.pc = "albums"]

(* A row is inserted, or its updated_at set to now. *)
Bumped(q, w) == Append(SelectSeq(q, LAMBDA v : v # w), w)
Persisted(w) ==
  /\ queue' = IF w \in catalogued THEN queue ELSE Bumped(queue, w)
  /\ UNCHANGED catalogued

(* A page: its rows are persisted, or are indexed already, or fail one by  *)
(* one without a consequence.  A short page ends the run at offset 0, the  *)
(* tenth page at the offset reached.                                       *)
Turned(k) ==
  LET src == Source(k)
      at == k.offset[src] + 1 IN
  IF k.offset[src] >= PagesOf(src) - 1 THEN [k EXCEPT !.pc = Phase(src), !.next = 0]
  ELSE IF k.left = 1 THEN [k EXCEPT !.pc = Phase(src), !.next = at]
  ELSE [k EXCEPT !.offset[src] = at, !.left = @ - 1]

DiscoverPage(c) ==
  LET k == crawling[c]
      w == <<k.artist, Source(k), k.offset[Source(k)]>> IN
  /\ k.pc \in Sources
  /\ browsed' = [browsed EXCEPT ![k.artist] = @ \cup {<<Source(k), k.offset[Source(k)]>>}]
  /\ \/ k.offset[Source(k)] < PagesOf(Source(k)) /\ Persisted(w)
     \/ UNCHANGED <<queue, catalogued>>
  /\ Becoming(c, Turned(k))
  /\ UNCHANGED <<artist, batch>> /\ NoError

(* Mutant: the offset is advanced although the page was not got. *)
MbFailsAdvanced(c) ==
  LET k == crawling[c] IN
  /\ k.pc = "mb" /\ OneError
  /\ Becoming(c, Turned(k))
  /\ UNCHANGED <<artist, browsed, queue, catalogued, batch>>

(* MusicBrainz fails: the offset stays.  Genius fails: an empty page. *)
MbFails(c) ==
  LET k == crawling[c] IN
  /\ k.pc = "mb" /\ OneError
  /\ Becoming(c, Following(k))
  /\ UNCHANGED <<artist, browsed, queue, catalogued, batch>>
GeniusFails(c) ==
  LET k == crawling[c] IN
  /\ k.pc = "genius" /\ OneError
  /\ Becoming(c, [k EXCEPT !.pc = Phase("genius"), !.next = 0])
  /\ UNCHANGED <<artist, browsed, queue, catalogued, batch>>

SetCrawlOffset(c) ==
  LET k == crawling[c] IN
  /\ k.pc \in {"set_mb", "set_genius"}
  /\ \/ artist' = [artist EXCEPT ![k.artist].offset[Source(k)] = k.next]
        /\ Becoming(c, Following(k)) /\ NoError
     \/ UNCHANGED artist /\ Becoming(c, NoCrawl) /\ OneError
  /\ UNCHANGED <<browsed, queue, catalogued, batch>>

(* The tracks of the albums, then the profiles; these upsert rows too. *)
DiscoverAlbums(c) ==
  LET k == crawling[c] IN
  /\ k.pc = "albums" /\ Becoming(c, NoCrawl)
  /\ \/ \E i \in 0..(GeniusPages - 1) : Persisted(<<k.artist, "genius", i>>)
     \/ UNCHANGED <<queue, catalogued>>
  /\ UNCHANGED <<artist, browsed, batch>> /\ NoError

CrawlerDies(c) ==
  /\ crawling[c].pc # "idle" /\ OneError /\ Becoming(c, NoCrawl)
  /\ UNCHANGED <<artist, browsed, queue, catalogued, batch>>

-----------------------------------------------------------------------------
(* The resolver: the oldest rows, under an advisory lock. *)
WantedTick ==
  /\ batch = <<>> /\ queue # <<>>
  /\ batch' = SubSeq(queue, 1, IF Len(queue) < BatchSize THEN Len(queue) ELSE BatchSize)
  /\ UNCHANGED <<artist, crawling, browsed, queue, catalogued>> /\ NoError

Link(w) == catalogued' = catalogued \cup {w} /\ queue' = SelectSeq(queue, LAMBDA v : v # w)

(* Mutant: updated_at is left alone. *)
NoMatchKept(w) == w \notin Broken /\ UNCHANGED <<queue, catalogued>>

(* Nothing found, by an account's tracks, the index or a search. *)
NoMatch(w) ==
  /\ w \notin Broken
  /\ queue' = IF w \in catalogued THEN queue ELSE Bumped(queue, w)
  /\ UNCHANGED catalogued

(* An error leaves the row as it is. *)
ResolveOne ==
  /\ batch # <<>> /\ batch' = Tail(batch)
  /\ LET w == Head(batch) IN
       \/ w \notin Absent \cup Broken /\ Link(w) /\ NoError
       \/ NoMatch(w) /\ (IF w \in Absent THEN NoError ELSE OneError)
       \/ UNCHANGED <<queue, catalogued>> /\ (IF w \in Broken THEN NoError ELSE OneError)
  /\ UNCHANGED <<artist, crawling, browsed>>

(* An artist's rows resolved on demand, without the lock: any of its rows  *)
(* may be linked or bumped beside the batch.                               *)
ResolveForArtist(a) ==
  /\ \E n \in DOMAIN queue :
       LET w == queue[n] IN
       /\ w[1] = a
       /\ \/ w \notin Absent \cup Broken /\ Link(w) /\ NoError
          \/ w \in Absent /\ NoMatch(w) /\ OneError
  /\ UNCHANGED <<artist, crawling, browsed, batch>>

(* No token, a failed query, the process dies: the batch is dropped. *)
BatchDropped ==
  /\ batch # <<>> /\ OneError /\ batch' = <<>>
  /\ UNCHANGED <<artist, crawling, browsed, queue, catalogued>>

-----------------------------------------------------------------------------
CatalogueNext ==
  \/ \E c \in Crawlers :
       \/ \E a \in Artists : RunTick(c, a) \/ PickupFresh(c, a) \/ RunForArtist(c, a)
       \/ DiscoverPage(c) \/ MbFails(c) \/ GeniusFails(c)
       \/ SetCrawlOffset(c) \/ DiscoverAlbums(c) \/ CrawlerDies(c)
  \/ \E a \in Artists : TimePasses(a) \/ ResolveForArtist(a)
  \/ WantedTick \/ ResolveOne \/ BatchDropped

(* The resolver ticks and its loop goes on. *)
CatalogueFairness == WF_catalogueVars(WantedTick) /\ WF_catalogueVars(ResolveOne)
CatalogueSpec == CatalogueInit /\ [][CatalogueNext]_catalogueVars /\ CatalogueFairness

-----------------------------------------------------------------------------
(* Properties. *)

(* Every page before an artist's stored offset has been got by a crawl:    *)
(* crawls that overlap, fail or die leave no page out.                     *)
NoPageSkipped ==
  \A a \in Artists, src \in Sources :
    \A i \in 0..(artist[a].offset[src] - 1) : <<src, i>> \in browsed[a]

(* A wanted row that SoundCloud has is linked in the end, if the rows that   *)
(* always fail leave room in the resolver's batch.                         *)
WantedGetLinked ==
  Cardinality(Broken) < BatchSize =>
    \A w \in WantedRows \ (Absent \cup Broken) :
      (\E n \in DOMAIN queue : queue[n] = w) ~> w \in catalogued
=============================================================================
