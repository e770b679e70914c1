---------------------------- MODULE ServicesProofs ----------------------------
(***************************************************************************)
(* Five services for instances of any size: the crawl of a discography     *)
(* leaves no page out, a model is trained by one training at a time, what  *)
(* a user likes goes into his taste once, and into the vector he is        *)
(* recommended from, a track marked as indexed has its vectors, and it is  *)
(* enriched by one process at a time.                                      *)
(***************************************************************************)
EXTENDS Indexing, Enrich, Catalogue, Trainers, Taste, FiniteSetTheorems, WellFoundedInduction, TLAPS

-----------------------------------------------------------------------------
(* The crawl.  What a crawl carries in its copy of the row, and the offset *)
(* it is about to store, are bounded by the pages got, like the row.       *)
CrawlSteps == {"mb", "set_mb", "genius", "set_genius", "albums"}
CrawlRows == [pc : CrawlSteps, artist : Artists, offset : [Sources -> Nat], next : Nat, left : Int]
ArtistRows == [last : {"never", "now", "minutes", "stale"}, runs : Nat, offset : [Sources -> Nat]]

CrawlTypeOK ==
  /\ artist \in [Artists -> ArtistRows]
  /\ crawling \in [Crawlers -> CrawlRows \cup {NoCrawl}]
  /\ browsed \in [Artists -> SUBSET (Sources \X Nat)]

Covers(got, a, src, n) == \A i \in 0..(n - 1) : <<src, i>> \in got[a]

CopyCovered(got, k) ==
  k # NoCrawl =>
    /\ \A src \in Sources : Covers(got, k.artist, src, k.offset[src])
    /\ k.pc \in {"set_mb", "set_genius"} => Covers(got, k.artist, Source(k), k.next)

CrawlInv ==
  /\ CrawlTypeOK
  /\ \A a \in Artists, src \in Sources : Covers(browsed, a, src, artist[a].offset[src])
  /\ \A c \in Crawlers : CopyCovered(browsed, crawling[c])

LEMMA NoCrawlIsNone == \A k \in CrawlRows : k # NoCrawl
<1> SUFFICES ASSUME NEW k \in CrawlRows PROVE k # NoCrawl
  OBVIOUS
<1>1. k.pc # "idle"
  BY DEF CrawlRows, CrawlSteps
<1>2. NoCrawl.pc = "idle"
  BY DEF NoCrawl
<1>3. QED
  BY <1>1, <1>2

LEMMA CrawlInitially == CatalogueInit => CrawlInv
<1> SUFFICES ASSUME CatalogueInit PROVE CrawlInv
  OBVIOUS
<1>1. CrawlTypeOK
  BY DEF CatalogueInit, CrawlTypeOK, ArtistRows
<1>2. \A a \in Artists, src \in Sources : artist[a].offset[src] = 0
  BY DEF CatalogueInit
<1>3. \A a \in Artists, src \in Sources : Covers(browsed, a, src, artist[a].offset[src])
  BY <1>2 DEF Covers
<1>4. \A c \in Crawlers : CopyCovered(browsed, crawling[c])
  BY DEF CatalogueInit, CopyCovered
<1>5. QED
  BY <1>1, <1>3, <1>4 DEF CrawlInv

LEMMA CrawlTyped ==
    ASSUME CrawlInv, NEW c \in Crawlers, crawling[c].pc # "idle"
    PROVE  /\ crawling[c] \in CrawlRows /\ crawling[c] # NoCrawl /\ crawling[c].artist \in Artists
           /\ crawling[c].offset \in [Sources -> Nat] /\ crawling[c].next \in Nat
           /\ crawling[c].left \in Int /\ CopyCovered(browsed, crawling[c])
           /\ crawling \in [Crawlers -> CrawlRows \cup {NoCrawl}]
           /\ artist \in [Artists -> ArtistRows]
<1>1. NoCrawl.pc = "idle"
  BY DEF NoCrawl
<1>2. crawling[c] \in CrawlRows
  BY <1>1 DEF CrawlInv, CrawlTypeOK
<1>3. QED
  BY <1>2, NoCrawlIsNone DEF CrawlInv, CrawlTypeOK, CrawlRows

(* A crawl goes on with a copy that is covered. *)
LEMMA CrawlMoves ==
    ASSUME CrawlInv, NEW c \in Crawlers, NEW k \in CrawlRows \cup {NoCrawl}, CopyCovered(browsed, k),
           Becoming(c, k), UNCHANGED <<artist, browsed>>
    PROVE  CrawlInv'
<1>1. \A x \in Crawlers : crawling'[x] = IF x = c THEN k ELSE crawling[x]
  BY DEF Becoming, CrawlInv, CrawlTypeOK
<1>2. CrawlTypeOK'
  BY DEF Becoming, CrawlInv, CrawlTypeOK
<1>3. QED
  BY <1>1, <1>2 DEF CrawlInv, CopyCovered, Covers

LEMMA ClaimKeeps ==
    ASSUME CrawlInv, NEW c \in Crawlers, NEW a \in Artists, Claim(c, a)
    PROVE  CrawlInv'
<1> DEFINE k == [pc |-> "mb", artist |-> a, offset |-> artist[a].offset, next |-> 0, left |-> PagesPerRun]
<1>1. artist[a] \in ArtistRows /\ artist[a].offset \in [Sources -> Nat]
  BY DEF CrawlInv, CrawlTypeOK, ArtistRows
<1>2. k \in CrawlRows
  BY <1>1, CatalogueAssumption DEF CrawlRows, CrawlSteps
<1>3. k.artist = a /\ k.offset = artist[a].offset /\ k.pc = "mb"
  OBVIOUS
<1>4. crawling' = [crawling EXCEPT ![c] = k] /\ browsed' = browsed
  BY DEF Claim
<1> HIDE DEF k
<1>5. CopyCovered(browsed, k)
  BY <1>3 DEF CopyCovered, CrawlInv
<1>6. /\ artist' \in [Artists -> ArtistRows]
      /\ \A x \in Artists : artist'[x].offset = artist[x].offset
  BY DEF Claim, CrawlInv, CrawlTypeOK, ArtistRows
<1>7. CrawlTypeOK'
  BY <1>2, <1>4, <1>6 DEF CrawlInv, CrawlTypeOK
<1>8. QED
  BY <1>4, <1>5, <1>6, <1>7 DEF CrawlInv, CrawlTypeOK, CopyCovered, Covers

LEMMA DiscoverPageKeeps ==
    ASSUME CrawlInv, NEW c \in Crawlers, DiscoverPage(c)
    PROVE  CrawlInv'
<1> DEFINE k == crawling[c]
           src == Source(k)
           n == k.offset[src]
<1>1. k.pc \in Sources /\ k.pc # "idle"
  BY DEF DiscoverPage, Sources
<1>2. k \in CrawlRows /\ k.artist \in Artists /\ src \in Sources /\ n \in Nat /\ CopyCovered(browsed, k) /\ k # NoCrawl
  BY <1>1, CrawlTyped DEF Source, Sources
<1>3. browsed' = [browsed EXCEPT ![k.artist] = @ \cup {<<src, n>>}] /\ artist' = artist
  BY DEF DiscoverPage
<1>4. crawling' = [crawling EXCEPT ![c] = Turned(k)]
  BY DEF DiscoverPage, Becoming
<1>5. browsed' \in [Artists -> SUBSET (Sources \X Nat)] /\ \A a \in Artists : browsed[a] \subseteq browsed'[a]
  BY <1>2, <1>3 DEF CrawlInv, CrawlTypeOK
<1>6. \A a \in Artists, s \in Sources, m \in Nat : Covers(browsed, a, s, m) => Covers(browsed', a, s, m)
  BY <1>5 DEF Covers
<1>7. Covers(browsed', k.artist, src, n + 1)
  <2>1. Covers(browsed, k.artist, src, n)
    BY <1>2 DEF CopyCovered
  <2>2. <<src, n>> \in browsed'[k.artist]
    BY <1>2, <1>3 DEF CrawlInv, CrawlTypeOK
  <2>3. \A i \in 0..((n + 1) - 1) : i = n \/ i \in 0..(n - 1)
    BY <1>2
  <2>4. Covers(browsed', k.artist, src, n)
    BY <1>2, <1>6, <2>1
  <2> HIDE DEF k, src, n
  <2>5. QED
    BY <2>2, <2>3, <2>4 DEF Covers
<1>8. /\ Turned(k) \in CrawlRows /\ Turned(k).artist = k.artist
      /\ \A s \in Sources : Turned(k).offset[s] = k.offset[s] \/ (s = src /\ Turned(k).offset[s] = n + 1)
      /\ Turned(k).next = 0 \/ Turned(k).next = n + 1 \/ Turned(k).pc = k.pc
      /\ Turned(k).pc \in {"set_mb", "set_genius"} => Source(Turned(k)) = src
  <2>1. k.left - 1 \in Int /\ n + 1 \in Nat /\ k.offset \in [Sources -> Nat]
    BY <1>1, <1>2, CrawlTyped
  <2>2. /\ \A u : u.pc = Phase(src) => Source(u) = src
        /\ Phase(src) \in CrawlSteps /\ k.pc \in CrawlSteps
    BY <1>1 DEF Phase, Source, Sources, CrawlSteps
  <2>3. CASE n >= PagesOf(src) - 1
    <3>1. Turned(k) = [k EXCEPT !.pc = Phase(src), !.next = 0]
      BY <2>3 DEF Turned
    <3> DEFINE z == 0
               u == [k EXCEPT !.pc = Phase(src), !.next = z]
    <3> HIDE DEF k, src, n, z
    <3>2. z \in Nat
      BY DEF z
    <3>3. /\ u \in CrawlRows /\ u.artist = k.artist /\ u.offset = k.offset
          /\ u.next = z /\ u.pc = Phase(src)
      BY <1>2, <2>2, <3>2 DEF CrawlRows
    <3>4. Turned(k) = u /\ z = 0
      BY <3>1 DEF z
    <3> HIDE DEF u
    <3>5. QED
      BY <2>2, <3>3, <3>4
  <2>4. CASE ~(n >= PagesOf(src) - 1) /\ k.left = 1
    <3>1. Turned(k) = [k EXCEPT !.pc = Phase(src), !.next = n + 1]
      BY <2>4 DEF Turned
    <3> HIDE DEF k, src, n
    <3>2. QED
      BY <1>2, <2>1, <2>2, <3>1 DEF CrawlRows
  <2>5. CASE ~(n >= PagesOf(src) - 1) /\ k.left # 1
    <3>1. Turned(k) = [k EXCEPT !.offset[src] = n + 1, !.left = @ - 1]
      BY <2>5 DEF Turned
    <3>2. k.pc \notin {"set_mb", "set_genius"}
      BY <1>1 DEF Sources
    <3> HIDE DEF k, src, n
    <3>3. QED
      BY <1>2, <2>1, <2>2, <3>1, <3>2 DEF CrawlRows
  <2>6. QED
    BY <2>3, <2>4, <2>5
<1>9. CopyCovered(browsed', Turned(k))
  <2>1. ASSUME NEW s \in Sources PROVE Covers(browsed', k.artist, s, Turned(k).offset[s])
    <3>1. Covers(browsed', k.artist, s, k.offset[s])
      BY <1>1, <1>2, <1>6, CrawlTyped DEF CopyCovered
    <3>2. QED
      BY <1>7, <1>8, <3>1
  <2>2. ASSUME Turned(k).pc \in {"set_mb", "set_genius"}
        PROVE  Covers(browsed', k.artist, src, Turned(k).next)
    <3>1. Turned(k).next = 0 \/ Turned(k).next = n + 1
      BY <1>1, <1>8, <2>2 DEF Sources
    <3>2. CASE Turned(k).next = 0
      BY <3>2 DEF Covers
    <3>3. QED
      BY <1>7, <3>1, <3>2
  <2>3. QED
    BY <1>8, <2>1, <2>2 DEF CopyCovered
<1>10. \A x \in Crawlers : crawling'[x] = IF x = c THEN Turned(k) ELSE crawling[x]
  BY <1>4 DEF CrawlInv, CrawlTypeOK
<1>11. CrawlTypeOK'
  BY <1>3, <1>4, <1>5, <1>8 DEF CrawlInv, CrawlTypeOK
<1>12. ASSUME NEW x \in Crawlers, x # c PROVE CopyCovered(browsed', crawling[x])
  <2>1. CASE crawling[x] = NoCrawl
    BY <1>10, <1>12, <2>1 DEF CopyCovered
  <2>2. CASE crawling[x] # NoCrawl
    <3>1. crawling[x] \in CrawlRows /\ CopyCovered(browsed, crawling[x]) /\ crawling'[x] = crawling[x]
      BY <1>10, <1>12, <2>2 DEF CrawlInv, CrawlTypeOK
    <3>2. crawling[x].artist \in Artists /\ crawling[x].offset \in [Sources -> Nat] /\ crawling[x].next \in Nat
      BY <3>1 DEF CrawlRows
    <3>3. \A s \in Sources : Covers(browsed', crawling[x].artist, s, crawling[x].offset[s])
      BY <1>6, <2>2, <3>1, <3>2 DEF CopyCovered, Covers
    <3>4. crawling[x].pc \in {"set_mb", "set_genius"} =>
            Covers(browsed', crawling[x].artist, Source(crawling[x]), crawling[x].next)
      BY <1>6, <2>2, <3>1, <3>2 DEF CopyCovered, Source, Sources
    <3>5. QED
      BY <3>1, <3>3, <3>4 DEF CopyCovered, Covers
  <2>3. QED
    BY <2>1, <2>2
<1>13. \A x \in Crawlers : CopyCovered(browsed', crawling'[x])
  BY <1>9, <1>10, <1>12
<1>14. \A a \in Artists, s \in Sources : Covers(browsed', a, s, artist'[a].offset[s])
  BY <1>3, <1>5 DEF CrawlInv, Covers
<1>15. QED
  BY <1>11, <1>13, <1>14 DEF CrawlInv

LEMMA SetCrawlOffsetKeeps ==
    ASSUME CrawlInv, NEW c \in Crawlers, SetCrawlOffset(c)
    PROVE  CrawlInv'
<1> DEFINE k == crawling[c]
           a == k.artist
           src == Source(k)
<1>1. k.pc \in {"set_mb", "set_genius"} /\ k.pc # "idle" /\ browsed' = browsed
  BY DEF SetCrawlOffset
<1>2. /\ k \in CrawlRows /\ a \in Artists /\ src \in Sources /\ k.next \in Nat
      /\ CopyCovered(browsed, k) /\ k # NoCrawl
  BY <1>1, CrawlTyped DEF Source, Sources
<1>3. CASE artist' = [artist EXCEPT ![a].offset[src] = k.next] /\ Becoming(c, Following(k))
  <2> DEFINE u == Following(k)
  <2>1. u \in CrawlRows /\ u.artist = a /\ u.offset = k.offset /\ u.pc \notin {"set_mb", "set_genius"}
    <3>1. u = [k EXCEPT !.pc = "genius", !.left = PagesPerRun] \/ u = [k EXCEPT !.pc = "albums"]
      BY DEF Following
    <3> HIDE DEF u, k
    <3>2. QED
      <4>1. PagesPerRun \in Int
        BY CatalogueAssumption
      <4>2. QED
        BY <1>2, <3>1, <4>1 DEF CrawlRows, CrawlSteps, a
  <2> HIDE DEF u
  <2>2. CopyCovered(browsed, u)
    BY <1>2, <2>1 DEF CopyCovered
  <2>3. \A x \in Crawlers : crawling'[x] = IF x = c THEN u ELSE crawling[x]
    BY <1>3 DEF Becoming, CrawlInv, CrawlTypeOK, u
  <2>4. crawling' \in [Crawlers -> CrawlRows \cup {NoCrawl}]
    BY <1>3, <2>1 DEF Becoming, CrawlInv, CrawlTypeOK, u
  <2>5. /\ artist' \in [Artists -> ArtistRows]
        /\ \A x \in Artists, s \in Sources :
             artist'[x].offset[s] = IF x = a /\ s = src THEN k.next ELSE artist[x].offset[s]
    <3> DEFINE advanced == [artist[a] EXCEPT !.offset = [@ EXCEPT ![src] = k.next]]
    <3>1. artist \in [Artists -> ArtistRows] /\ artist[a] \in ArtistRows
      BY <1>2 DEF CrawlInv, CrawlTypeOK
    <3>2. artist' = [artist EXCEPT ![a] = advanced]
      BY <1>3, <3>1 DEF ArtistRows
    <3>3. /\ advanced \in ArtistRows
          /\ \A s \in Sources : advanced.offset[s] = IF s = src THEN k.next ELSE artist[a].offset[s]
      BY <1>2, <3>1 DEF ArtistRows
    <3> HIDE DEF advanced
    <3>4. QED
      BY <1>2, <3>1, <3>2, <3>3
  <2>6. \A x \in Artists, s \in Sources : Covers(browsed, x, s, artist'[x].offset[s])
    BY <1>1, <1>2, <2>5 DEF CrawlInv, CopyCovered
  <2>7. QED
    BY <1>1, <2>2, <2>3, <2>4, <2>5, <2>6 DEF CrawlInv, CrawlTypeOK, CopyCovered, Covers
<1>4. CASE UNCHANGED artist /\ Becoming(c, NoCrawl)
  BY <1>1, <1>4, CrawlMoves DEF CopyCovered
<1>5. QED
  BY <1>3, <1>4 DEF SetCrawlOffset

LEMMA PlainCrawlKeeps ==
    ASSUME CrawlInv, NEW c \in Crawlers,
           MbFails(c) \/ GeniusFails(c) \/ DiscoverAlbums(c) \/ CrawlerDies(c)
    PROVE  CrawlInv'
<1> DEFINE k == crawling[c]
<1>1. UNCHANGED <<artist, browsed>> /\ k.pc # "idle"
  BY DEF MbFails, GeniusFails, DiscoverAlbums, CrawlerDies
<1>2. k \in CrawlRows /\ CopyCovered(browsed, k) /\ k # NoCrawl
  BY <1>1, CrawlTyped
<1>3. CASE MbFails(c)
  <2> DEFINE u == Following(k)
  <2>1. u = [k EXCEPT !.pc = "genius", !.left = PagesPerRun]
    BY <1>3 DEF Following, Source, MbFails
  <2>2. u \in CrawlRows /\ u.artist = k.artist /\ u.offset = k.offset /\ u.pc = "genius"
    <3>1. PagesPerRun \in Int
      BY CatalogueAssumption
    <3> HIDE DEF u, k
    <3>2. QED
      BY <1>2, <2>1, <3>1 DEF CrawlRows, CrawlSteps
  <2>3. Becoming(c, u)
    BY <1>3 DEF MbFails
  <2> HIDE DEF u
  <2>4. CopyCovered(browsed, u)
    BY <1>2, <2>2 DEF CopyCovered
  <2>5. QED
    BY <1>1, <2>2, <2>3, <2>4, CrawlMoves
<1>4. CASE GeniusFails(c)
  <2> DEFINE u == [k EXCEPT !.pc = Phase("genius"), !.next = 0]
  <2>1. /\ u \in CrawlRows /\ u.artist = k.artist /\ u.offset = k.offset
        /\ u.pc = "set_genius" /\ u.next = 0
    BY <1>2 DEF CrawlRows, CrawlSteps, Phase
  <2>2. Becoming(c, u)
    BY <1>4 DEF GeniusFails
  <2> HIDE DEF u
  <2>3. \A a, src : Covers(browsed, a, src, 0)
    BY DEF Covers
  <2>4. CopyCovered(browsed, u)
    BY <1>2, <2>1, <2>3 DEF CopyCovered
  <2>5. QED
    BY <1>1, <2>1, <2>2, <2>4, CrawlMoves
<1>5. CASE DiscoverAlbums(c) \/ CrawlerDies(c)
  BY <1>1, <1>5, CrawlMoves DEF DiscoverAlbums, CrawlerDies, CopyCovered
<1>6. QED
  BY <1>3, <1>4, <1>5

LEMMA TimePassesKeeps ==
    ASSUME CrawlInv, NEW a \in Artists, TimePasses(a)
    PROVE  CrawlInv'
<1>1. /\ artist' \in [Artists -> ArtistRows]
      /\ \A x \in Artists : artist'[x].offset = artist[x].offset
  BY DEF TimePasses, CrawlInv, CrawlTypeOK, ArtistRows
<1>2. QED
  BY <1>1 DEF TimePasses, CrawlInv, CrawlTypeOK, CopyCovered, Covers

LEMMA CrawlStep == CrawlInv /\ [CatalogueNext]_catalogueVars => CrawlInv'
<1> SUFFICES ASSUME CrawlInv, [CatalogueNext]_catalogueVars PROVE CrawlInv'
  OBVIOUS
<1>1. ASSUME NEW c \in Crawlers, NEW a \in Artists, RunTick(c, a) \/ PickupFresh(c, a) \/ RunForArtist(c, a)
      PROVE  CrawlInv'
  BY <1>1, ClaimKeeps DEF RunTick, PickupFresh, RunForArtist
<1>2. CASE UNCHANGED <<artist, crawling, browsed>>
  BY <1>2 DEF CrawlInv, CrawlTypeOK, CopyCovered, Covers
<1>3. ASSUME NEW a \in Artists, ResolveForArtist(a) PROVE CrawlInv'
  BY <1>2, <1>3 DEF ResolveForArtist
<1>4. CASE WantedTick \/ ResolveOne \/ BatchDropped \/ UNCHANGED catalogueVars
  BY <1>2, <1>4 DEF WantedTick, ResolveOne, BatchDropped, catalogueVars
<1>5. QED
  BY <1>1, <1>3, <1>4, DiscoverPageKeeps, SetCrawlOffsetKeeps, PlainCrawlKeeps, TimePassesKeeps
     DEF CatalogueNext

(* A crawl that stops anywhere, fails, or runs beside another leaves no    *)
(* page behind the stored offset unread (artist_crawl.rs:306).             *)
THEOREM EveryPageGot == CatalogueSpec => []NoPageSkipped
<1>1. CrawlInv => NoPageSkipped
  BY DEF CrawlInv, Covers, NoPageSkipped
<1>2. QED
  BY CrawlInitially, CrawlStep, <1>1, PTL DEF CatalogueSpec

-----------------------------------------------------------------------------
(* The trainers.  Only TryTrain raises a flag, for the training that goes  *)
(* on; what ends lowers it, but for the request whose client leaves.       *)
TrainRows == [pc : {"try", "build", "publish"}, model : Models,
              by : {"event", "bootstrap", "cron", "admin"}]
Working == {"build", "publish"}
Under(tr, s, m) == tr[s].pc \in Working /\ tr[s].model = m

TrainTypeOK ==
  /\ flag \in [Models -> BOOLEAN]
  /\ training \in [Trainings -> TrainRows \cup {NoTraining}]

UnderMeansFlag(tr, f) == \A m \in Models, s \in Trainings : Under(tr, s, m) => f[m]
UnderAlone(tr) == \A m \in Models, s, t \in Trainings : Under(tr, s, m) /\ Under(tr, t, m) => s = t
FlagExplained(tr, f, gone) ==
  \A m \in Models : f[m] => m \in gone \/ \E s \in Trainings : Under(tr, s, m)
TrainInv ==
  /\ TrainTypeOK /\ UnderMeansFlag(training, flag) /\ UnderAlone(training)
  /\ FlagExplained(training, flag, abandoned)

(* A call of note_event and a training of the same task follow each other. *)
NoteInv ==
  /\ noting \in [Trainings -> {"idle", "counted", "cool", "free"}]
  /\ \A s \in Trainings : noting[s] # "idle" => training[s] = NoTraining

LEMMA TrainInitially == TrainersInit => TrainInv /\ NoteInv
BY DEF NoteInv, TrainersInit, TrainInv, TrainTypeOK, UnderMeansFlag, UnderAlone, FlagExplained, Under,
       Working, NoTraining

(* A training that is not working may become another that is not. *)
LEMMA NotWorkingKeeps ==
    ASSUME TrainInv, NEW s \in Trainings, training[s].pc \notin Working,
           NEW r \in TrainRows \cup {NoTraining}, r.pc \notin Working,
           training' = [training EXCEPT ![s] = r], UNCHANGED <<flag, abandoned>>
    PROVE  TrainInv'
<1>1. \A t \in Trainings : training'[t] = IF t = s THEN r ELSE training[t]
  BY DEF TrainInv, TrainTypeOK
<1>2. \A t \in Trainings, m \in Models : Under(training', t, m) <=> Under(training, t, m)
  BY <1>1 DEF Under
<1>3. TrainTypeOK'
  BY DEF TrainInv, TrainTypeOK
<1>4. QED
  BY <1>2, <1>3 DEF TrainInv, UnderMeansFlag, UnderAlone, FlagExplained

LEMMA SetTrainingKeeps ==
    ASSUME TrainInv, NEW s \in Trainings, NEW pc \in Working, training[s].pc \in Working,
           SetTraining(s, pc), UNCHANGED <<flag, abandoned>>
    PROVE  TrainInv'
<1>1. training[s] \in TrainRows
  BY DEF TrainInv, TrainTypeOK, NoTraining, Working
<1> DEFINE r == [training[s] EXCEPT !.pc = pc]
<1>2. r \in TrainRows /\ r.pc = pc /\ r.model = training[s].model
  BY <1>1 DEF TrainRows, Working
<1>3. training' = [training EXCEPT ![s] = r]
  BY DEF SetTraining, TrainInv, TrainTypeOK
<1> HIDE DEF r
<1>4. \A t \in Trainings : training'[t] = IF t = s THEN r ELSE training[t]
  BY <1>3 DEF TrainInv, TrainTypeOK
<1>5. \A t \in Trainings, m \in Models : Under(training', t, m) <=> Under(training, t, m)
  BY <1>2, <1>4 DEF Under
<1>6. TrainTypeOK'
  BY <1>2, <1>3 DEF TrainInv, TrainTypeOK
<1>7. QED
  BY <1>5, <1>6 DEF TrainInv, UnderMeansFlag, UnderAlone, FlagExplained

LEMMA TryTrainKeeps ==
    ASSUME TrainInv, NEW s \in Trainings, TryTrain(s)
    PROVE  TrainInv'
<1> DEFINE m == training[s].model
<1>1. training[s] \in TrainRows /\ training[s].pc = "try" /\ m \in Models /\ abandoned' = abandoned
  BY DEF TryTrain, TrainInv, TrainTypeOK, NoTraining, TrainRows
<1>2. CASE flag[m]
  BY <1>1, <1>2, NotWorkingKeeps DEF TryTrain, NoTraining, Working
<1>3. CASE ~flag[m]
  <2> DEFINE r == [training[s] EXCEPT !.pc = "build"]
  <2>1. r \in TrainRows /\ r.pc = "build" /\ r.model = m
    BY <1>1 DEF TrainRows
  <2>2. training' = [training EXCEPT ![s] = r] /\ flag' = [flag EXCEPT ![m] = TRUE]
    BY <1>3 DEF TryTrain, SetTraining, TrainInv, TrainTypeOK
  <2> HIDE DEF r, m
  <2>3. \A t \in Trainings : training'[t] = IF t = s THEN r ELSE training[t]
    BY <2>2 DEF TrainInv, TrainTypeOK
  <2>4. \A n \in Models : flag'[n] = IF n = m THEN TRUE ELSE flag[n]
    BY <2>2 DEF TrainInv, TrainTypeOK
  <2>5. \A t \in Trainings, n \in Models :
          Under(training', t, n) <=> (t = s /\ n = m) \/ (t # s /\ Under(training, t, n))
    BY <2>1, <2>3 DEF Under, Working
  <2>6. \A t \in Trainings : ~Under(training, t, m)
    BY <1>1, <1>3 DEF TrainInv, UnderMeansFlag
  <2>7. \A n \in Models : ~Under(training, s, n)
    BY <1>1 DEF Under, Working
  <2>8. TrainTypeOK'
    BY <2>1, <2>2 DEF TrainInv, TrainTypeOK
  <2>9. UnderMeansFlag(training', flag')
    BY <2>4, <2>5 DEF TrainInv, UnderMeansFlag
  <2>10. UnderAlone(training')
    BY <2>5, <2>6 DEF TrainInv, UnderAlone
  <2>11. FlagExplained(training', flag', abandoned')
    BY <1>1, <2>4, <2>5, <2>7 DEF TrainInv, FlagExplained
  <2>12. QED
    BY <2>8, <2>9, <2>10, <2>11 DEF TrainInv
<1>4. QED
  BY <1>2, <1>3

(* A working training stops; its flag goes down, or its model is one an    *)
(* admin's client left.                                                    *)
LEMMA StopKeeps ==
    ASSUME TrainInv, NEW s \in Trainings, training[s].pc \in Working,
           training' = [training EXCEPT ![s] = NoTraining],
           \/ flag' = [flag EXCEPT ![training[s].model] = FALSE] /\ abandoned' = abandoned
           \/ flag' = flag /\ abandoned' = abandoned \cup {training[s].model}
    PROVE  TrainInv'
<1> DEFINE m == training[s].model
<1>1. m \in Models /\ Under(training, s, m)
  BY DEF TrainInv, TrainTypeOK, TrainRows, NoTraining, Under, Working
<1>2. \A t \in Trainings : training'[t] = IF t = s THEN NoTraining ELSE training[t]
  BY DEF TrainInv, TrainTypeOK
<1> HIDE DEF m
<1>3. \A t \in Trainings, n \in Models : Under(training', t, n) <=> t # s /\ Under(training, t, n)
  BY <1>2 DEF Under, Working, NoTraining
<1>4. \A t \in Trainings : ~Under(training', t, m)
  BY <1>1, <1>3 DEF TrainInv, UnderAlone
<1>5. \A n \in Models : Under(training, s, n) => n = m
  BY DEF Under, m
<1>6. TrainTypeOK'
  BY DEF TrainInv, TrainTypeOK
<1>7. UnderAlone(training')
  BY <1>3 DEF TrainInv, UnderAlone
<1>8. CASE flag' = [flag EXCEPT ![m] = FALSE] /\ abandoned' = abandoned
  <2>1. \A n \in Models : flag'[n] = IF n = m THEN FALSE ELSE flag[n]
    BY <1>8 DEF TrainInv, TrainTypeOK
  <2>2. UnderMeansFlag(training', flag')
    BY <1>3, <1>4, <2>1 DEF TrainInv, UnderMeansFlag
  <2>3. FlagExplained(training', flag', abandoned')
    BY <1>3, <1>5, <1>8, <2>1 DEF TrainInv, FlagExplained
  <2>4. QED
    BY <1>6, <1>7, <2>2, <2>3 DEF TrainInv
<1>9. CASE flag' = flag /\ abandoned' = abandoned \cup {m}
  <2>1. UnderMeansFlag(training', flag')
    BY <1>3, <1>9 DEF TrainInv, UnderMeansFlag
  <2>2. FlagExplained(training', flag', abandoned')
    BY <1>3, <1>5, <1>9 DEF TrainInv, FlagExplained
  <2>3. QED
    BY <1>6, <1>7, <2>1, <2>2 DEF TrainInv
<1>10. QED
  BY <1>8, <1>9 DEF m

LEMMA OneTaskKeeps ==
    ASSUME TrainInv, NoteInv, NEW s \in Trainings,
           NoteEvent(s) \/ Start(s) \/ TrainStep(s) \/ AdminLeaves(s)
    PROVE  TrainInv'
<1>1. CASE UNCHANGED <<flag, training, abandoned>>
  BY <1>1 DEF TrainInv, TrainTypeOK, UnderMeansFlag, UnderAlone, FlagExplained, Under
<1>2. CASE NoteEvent(s) \/ CheckCooldown(s) \/ CheckFlag(s)
  BY <1>1, <1>2 DEF NoteEvent, CheckCooldown, CheckFlag
<1>3. CASE Trip(s)
  <2>1. training' = [training EXCEPT ![s] = [pc |-> "try", model |-> "collab", by |-> "event"]]
    BY <1>3 DEF Trip
  <2>2. [pc |-> "try", model |-> "collab", by |-> "event"] \in TrainRows
    BY DEF TrainRows, Models
  <2>3. UNCHANGED <<flag, abandoned>>
    BY <1>3 DEF Trip
  <2>4. QED
    <3>1. training[s].pc \notin Working
      BY <1>3 DEF Trip, NoteInv, NoTraining, Working
    <3>2. QED
      BY <2>1, <2>2, <2>3, <3>1, NotWorkingKeeps DEF Working
<1>4. CASE Start(s)
  <2>1. PICK m \in Models, by \in {"bootstrap", "cron", "admin"} :
          training' = [training EXCEPT ![s] = [pc |-> "try", model |-> m, by |-> by]]
    BY <1>4 DEF Start
  <2>2. [pc |-> "try", model |-> m, by |-> by] \in TrainRows
    BY DEF TrainRows
  <2>3. training[s].pc \notin Working /\ UNCHANGED <<flag, abandoned>>
    BY <1>4 DEF Start, Working, NoTraining
  <2>4. QED
    BY <2>1, <2>2, <2>3, NotWorkingKeeps DEF Working
<1>5. CASE Build(s)
  BY <1>5, SetTrainingKeeps, StopKeeps DEF Build, End, Working
<1>6. CASE Publish(s)
  BY <1>6, StopKeeps DEF Publish, End, Working
<1>7. CASE AdminLeaves(s)
  BY <1>7, StopKeeps DEF AdminLeaves, Working
<1>8. QED
  BY <1>2, <1>3, <1>4, <1>5, <1>6, <1>7, TryTrainKeeps DEF TrainStep

LEMMA NotingKeeps ==
    ASSUME TrainTypeOK, NoteInv, NEW s \in Trainings,
           NoteEvent(s) \/ Start(s) \/ TrainStep(s) \/ AdminLeaves(s)
    PROVE  NoteInv'
<1>1. CASE \E n \in {"idle", "counted", "cool", "free"} :
             /\ noting' = [noting EXCEPT ![s] = n] /\ training' = training
             /\ n # "idle" => training[s] = NoTraining
  BY <1>1 DEF NoteInv
<1>2. CASE \E r : /\ training' = [training EXCEPT ![s] = r] /\ noting' = [noting EXCEPT ![s] = "idle"]
  BY <1>2 DEF NoteInv, TrainTypeOK
<1>3. CASE /\ \E r : training' = [training EXCEPT ![s] = r]
           /\ noting' = noting /\ noting[s] = "idle"
  BY <1>3 DEF NoteInv, TrainTypeOK
<1>4. training[s].pc \in {"try", "build", "publish"} => noting[s] = "idle"
  BY DEF NoteInv, NoTraining
<1>5. CASE NoteEvent(s)
  <2>1. /\ noting' = [noting EXCEPT ![s] = IF counter + 1 < Trigger THEN "idle" ELSE "counted"]
        /\ training' = training /\ training[s] = NoTraining
    BY <1>5 DEF NoteEvent
  <2>2. QED
    BY <1>1, <2>1, Zenon
<1>6. CASE CheckCooldown(s)
  <2>1. noting' = [noting EXCEPT ![s] = IF recent THEN "idle" ELSE "cool"] /\ training' = training
    BY <1>6 DEF CheckCooldown
  <2>2. training[s] = NoTraining
    BY <1>6 DEF CheckCooldown, NoteInv
  <2>3. QED
    BY <1>1, <2>1, <2>2, Zenon
<1>7. CASE CheckFlag(s)
  <2>1. noting' = [noting EXCEPT ![s] = IF flag["collab"] THEN "idle" ELSE "free"] /\ training' = training
    BY <1>7 DEF CheckFlag
  <2>2. training[s] = NoTraining
    BY <1>7 DEF CheckFlag, NoteInv
  <2>3. QED
    BY <1>1, <2>1, <2>2, Zenon
<1>8. CASE Trip(s)
  BY <1>2, <1>8 DEF Trip
<1>9. CASE Start(s)
  BY <1>3, <1>9 DEF Start
<1>10. CASE TryTrain(s)
  BY <1>3, <1>4, <1>10 DEF TryTrain, SetTraining
<1>11. CASE Build(s)
  BY <1>3, <1>4, <1>11 DEF Build, End, SetTraining
<1>12. CASE Publish(s)
  BY <1>3, <1>4, <1>12 DEF Publish, End
<1>13. CASE AdminLeaves(s)
  BY <1>3, <1>4, <1>13 DEF AdminLeaves
<1>14. QED
  BY <1>5, <1>6, <1>7, <1>8, <1>9, <1>10, <1>11, <1>12, <1>13 DEF TrainStep

LEMMA TrainersStep == TrainInv /\ NoteInv /\ [TrainersNext]_trainersVars => TrainInv' /\ NoteInv'
<1> SUFFICES ASSUME TrainInv, NoteInv, [TrainersNext]_trainersVars PROVE TrainInv' /\ NoteInv'
  OBVIOUS
<1>1. CASE UNCHANGED <<flag, training, abandoned, noting>>
  BY <1>1 DEF TrainInv, TrainTypeOK, UnderMeansFlag, UnderAlone, FlagExplained, Under, NoteInv
<1>2. CASE BackendRestarts
  <2>1. /\ \A s \in Trainings, m \in Models : ~Under(training', s, m)
        /\ \A m \in Models : ~flag'[m]
    BY <1>2 DEF BackendRestarts, Under, Working, NoTraining
  <2>2. TrainTypeOK' /\ NoteInv'
    BY <1>2 DEF BackendRestarts, TrainTypeOK, NoteInv
  <2>3. QED
    BY <2>1, <2>2 DEF TrainInv, UnderMeansFlag, UnderAlone, FlagExplained
<1>3. ASSUME NEW s \in Trainings, NoteEvent(s) \/ Start(s) \/ TrainStep(s) \/ AdminLeaves(s)
      PROVE  TrainInv' /\ NoteInv'
  BY <1>3, OneTaskKeeps, NotingKeeps DEF TrainInv
<1>4. CASE TrainCooldownEnds \/ WorkerTrains \/ CacheVector \/ VectorAges
  BY <1>1, <1>4 DEF TrainCooldownEnds, WorkerTrains, CacheVector, VectorAges
<1>5. CASE KickOff \/ SelectUnscored \/ PersistScores \/ RefreshCentroid
           \/ (\E t \in Pieces : TuneIndexed(t)) \/ UNCHANGED trainersVars
  <2>1. UNCHANGED trainVars
    BY <1>5 DEF KickOff, SelectUnscored, PersistScores, RefreshCentroid, TuneIndexed, trainersVars
  <2>2. QED
    BY <1>1, <2>1 DEF trainVars
<1>6. QED
  BY <1>2, <1>3, <1>4, <1>5 DEF TrainersNext, TrainNext, CronNext

LEMMA AtMostOne ==
    ASSUME NEW S, \A s, t \in S : s = t
    PROVE  Cardinality(S) <= 1
<1>1. S = {} \/ \E s : S = {s}
  OBVIOUS
<1>2. Cardinality(S) = 0 \/ Cardinality(S) = 1
  BY <1>1, FS_EmptySet, FS_Singleton, Zenon
<1>3. QED
  BY <1>2

(* A model is trained by one training at a time, and its flag comes down   *)
(* with it, unless the client of an admin's request left                   *)
(* (collab_train.rs, ltr_train.rs: compare_exchange on in_progress).       *)
THEOREM TrainedAlone == TrainersSpec => []OneTraining
<1>1. TrainInv => OneTraining
  <2> SUFFICES ASSUME TrainInv, NEW m \in Models
      PROVE LET under == {s \in Trainings : training[s].model = m /\ training[s].pc \in {"build", "publish"}} IN
            /\ Cardinality(under) <= 1
            /\ under # {} => flag[m]
            /\ flag[m] => under # {} \/ m \in abandoned
    BY DEF OneTraining
  <2> DEFINE under == {s \in Trainings : training[s].model = m /\ training[s].pc \in {"build", "publish"}}
  <2>1. \A s : s \in under <=> s \in Trainings /\ Under(training, s, m)
    BY DEF Under, Working
  <2> HIDE DEF under
  <2>2. Cardinality(under) <= 1
    BY <2>1, AtMostOne DEF TrainInv, UnderAlone
  <2>3. under # {} => flag[m]
    BY <2>1 DEF TrainInv, UnderMeansFlag
  <2>4. flag[m] => under # {} \/ m \in abandoned
    BY <2>1 DEF TrainInv, FlagExplained
  <2>5. QED
    BY <2>2, <2>3, <2>4 DEF under
<1>2. QED
  BY TrainInitially, TrainersStep, <1>1, PTL DEF TrainersSpec

-----------------------------------------------------------------------------
(***************************************************************************)
(* The taste of a user, for any number of songs, events and tasks.         *)
(* VectorFresh: of the newest likes, what a reader is about to put into the *)
(* cache lacks one only if the request that recorded it came past the      *)
(* reader, and has then marked it as late.  LikesApplied: a like that is    *)
(* in nobody's hand was let go before its track had vectors; until the     *)
(* worker is through with the track it is asked for, or not listed, and    *)
(* from then on the DONE message is out, which finds the like pending.     *)
(* TasteExact: one task at a time holds the lock, so what it has read of    *)
(* the taste stays true until it writes, and an event that was listed once *)
(* is in one hand only.                                                    *)
(***************************************************************************)
Holding == {"insert", "missing", "seed", "check", "read", "write", "mark", "after"}
Handling == {"check", "read", "write", "mark"}
Asking == {"look", "make", "wait"}
Tastes == [Branches -> [Rows -> Nat]]
EventKinds == Kinds \cup {"like", "dislike"}
EventRows == [song : Songs \cup {"none"}, kind : EventKinds \cup {"none"}, applied : BOOLEAN]
TasteTasks == [pc : {"idle"} \cup Asking \cup Holding, role : {"none", "request", "seed", "done"},
               songs : SUBSET Songs, kind : EventKinds \cup {"none"}, todo : SUBSET Rows,
               row : Nat, lock : Nat, base : Tastes \cup {<<>>}, reach : SUBSET Branches]
Vectors == [cached : {"nothing", "none", "mean"}, likes : SUBSET Rows, late : BOOLEAN, reading : BOOLEAN, seen : SUBSET Rows]

TasteTypeOK ==
  /\ rows \in [Rows -> EventRows] /\ hated \subseteq Songs
  /\ vecs \in [Songs -> SUBSET Branches] /\ listed \in [Songs -> {"none", "new", "told", "indexed"}]
  /\ wanting \subseteq Songs /\ queued \subseteq Songs /\ done \subseteq Songs
  /\ taste \in Tastes /\ task \in [Workers -> TasteTasks]
  /\ userLock \in Nat /\ mutexes \in Nat /\ vector \in Vectors
  /\ settled \subseteq Rows /\ relisted \subseteq Rows /\ spurned \subseteq Rows
  /\ split \in BOOLEAN /\ upsets \in Nat /\ hates \in Nat

(* Rows are written in order, for songs, and never again. *)
RowsInOrder ==
  \A e \in Written :
    /\ rows[e].song \in Songs /\ rows[e].kind \in EventKinds
    /\ e <= Cardinality(Written)

(* What a task has to do at each of its steps. *)
TaskInOrder(w) ==
  LET t == task[w] IN
  /\ t.todo \subseteq Written
  /\ t.role = "none" <=> t = NoTask
  /\ t.pc = "idle" <=> t = NoTask
  /\ t.pc \in Handling => t.todo # {}
  /\ t.pc \in Holding \ Handling => t.todo = {}
  /\ t.pc \in Asking => (t.role = "done" <=> t.todo # {})
  /\ t.pc = "insert" => t.role = "request" /\ t.kind # "none"
  /\ t.pc \in {"missing", "seed"} => t.role = "seed"
  /\ t.pc = "seed" => t.songs # {}
  /\ t.pc \in Asking /\ t.role = "request" => t.kind # "none"
  /\ t.pc = "write" => t.base \in Tastes /\ t.reach # {}
  /\ t.role = "done" => t.songs \subseteq done /\ \A e \in t.todo : rows[e].song \in t.songs

SongMoves(s) ==
  UndoDislike(s) \/ EnsureQueued(s) \/ TrackDiscovered(s) \/ Upserts(s) \/ Indexed(s) \/ SetIndexedAt(s)

OneConsumer == \A w, g \in Workers : task[w].role = "done" /\ task[g].role = "done" => w = g

TasteBase ==
  /\ TasteTypeOK /\ RowsInOrder /\ OneConsumer
  /\ \A w \in Workers : TaskInOrder(w)

(* VectorFresh *)
VectorInv ==
  /\ settled \subseteq Likes
  /\ vector.cached # "nothing" /\ ~vector.late => (settled \cap Newest(Likes)) \subseteq vector.likes
  /\ vector.reading /\ ~vector.late => (settled \cap Newest(Likes)) \subseteq vector.seen

(* LikesApplied *)
Held(e) == \E w \in Workers : e \in task[w].todo
Heralded(s) == s \in done /\ \A w \in Workers : task[w].role = "done" => s \notin task[w].songs
Through(s) == listed[s] \in {"told", "indexed"}
ListedTruly == (\A s \in Songs : Through(s) => vecs[s] = Branches) /\ \A s \in done : Through(s)
Waits(s) == IF Through(s) THEN Heralded(s) ELSE listed[s] = "none" \/ s \in wanting \/ s \in queued
PendingLikesWait ==
  upsets = 0 => \A e \in Likes : rows[e].applied \/ Held(e) \/ Waits(rows[e].song)
LikesInv == ListedTruly /\ PendingLikesWait

(* TasteExact *)
Holds(w) == task[w].pc \in Holding
OneHolder ==
  /\ \A w \in Workers : task[w].pc \in Holding \cup {"wait"} => task[w].lock # 0
  /\ \A w, g \in Workers : Holds(w) /\ Holds(g) /\ task[w].lock = task[g].lock => w = g
  /\ ~split => \A w \in Workers : task[w].lock \in {0, userLock}
BasesTrue == ~split => \A w \in Workers : task[w].pc = "write" => task[w].base = taste
Marking(w, e) == task[w].pc = "mark" /\ e \in task[w].todo /\ e = Current(w)
Counted(e) == \E b \in Branches : taste[b][e] > 0
AppliedCounted ==
  ~split => \A e \in Likes \ spurned :
    /\ rows[e].applied => Counted(e)
    /\ \A w \in Workers : Marking(w, e) => Counted(e)
OneHand ==
  \A e \in Rows \ relisted :
    /\ \A w, g \in Workers : e \in task[w].todo /\ e \in task[g].todo => w = g
    /\ Held(e) => ~rows[e].applied
CountedOnce ==
  ~split /\ upsets = 0 => \A e \in Rows \ relisted :
    /\ Counted(e) => rows[e].applied \/ \E w \in Workers : Marking(w, e)
    /\ \A b \in Branches : taste[b][e] <= 1
ExactInv == OneHolder /\ BasesTrue /\ AppliedCounted /\ OneHand /\ CountedOnce

-----------------------------------------------------------------------------
(* The first event in hand, and the next row. *)
LEMMA LeastIn ==
    ASSUME NEW S \in SUBSET Nat, S # {}
    PROVE  Min(S) \in S
<1> DEFINE T == {1..x : x \in S}
<1>1. T \subseteq FiniteSubsetsOf(Nat) /\ T # {}
  <2>1. \A x \in S : x \in Int /\ 1..x \in SUBSET Nat
    OBVIOUS
  <2>2. \A x \in S : IsFiniteSet(1..x)
    BY <2>1, FS_Interval
  <2> QED
    BY <2>1, <2>2 DEF FiniteSubsetsOf
<1>2. PICK t \in T : \A u \in T : ~ (<<u, t>> \in StrictSubsetOrdering(Nat))
  BY <1>1, FS_StrictSubsetOrderingWellFounded, WFMin, Zenon
<1>3. PICK x \in S : t = 1..x
  BY <1>2
<1>4. \A y \in S : x <= y
  <2> SUFFICES ASSUME NEW y \in S, y < x
               PROVE  FALSE
    OBVIOUS
  <2>1. 1..y \subseteq 1..x /\ x \in 1..x /\ x \notin 1..y /\ 1..x \subseteq Nat
    OBVIOUS
  <2>2. <<1..y, t>> \in StrictSubsetOrdering(Nat)
    BY <2>1, <1>3 DEF StrictSubsetOrdering
  <2>3. 1..y \in T
    OBVIOUS
  <2> QED
    BY <1>2, <2>2, <2>3
<1> QED
  BY <1>4 DEF Min

LEMMA CurrentInHand ==
    ASSUME TasteBase, NEW w \in Workers, task[w].todo # {}
    PROVE  Current(w) \in task[w].todo /\ Current(w) \in Written /\ Current(w) \in Rows
<1>1. task[w].todo \subseteq Written /\ Written \subseteq Rows /\ Rows \subseteq Nat
  BY TasteAssumption DEF TasteBase, TaskInOrder, Written, Rows
<1>2. Min(task[w].todo) \in task[w].todo
  BY <1>1, LeastIn
<1> QED
  BY <1>1, <1>2 DEF Current

LEMMA RowCount ==
    ASSUME TasteTypeOK
    PROVE  IsFiniteSet(Written) /\ Cardinality(Written) \in Nat
<1>1. MaxEvents \in Int /\ Written \subseteq 1..MaxEvents
  BY TasteAssumption DEF Written, Rows
<1>2. IsFiniteSet(1..MaxEvents)
  BY <1>1, FS_Interval
<1>3. IsFiniteSet(Written)
  BY <1>1, <1>2, FS_Subset
<1> QED
  BY <1>3, FS_CardinalityType

LEMMA NextRowIsNew ==
    ASSUME TasteBase
    PROVE  NextRow \in Nat /\ NextRow \notin Written
BY RowCount DEF TasteBase, RowsInOrder, NextRow

-----------------------------------------------------------------------------
(* What a step does to the rows: they stay what they are, marks too, and   *)
(* what comes has no mark.                                                 *)
RowsKept ==
  /\ \A e \in Written :
       /\ e \in Written' /\ rows'[e].song = rows[e].song /\ rows'[e].kind = rows[e].kind
       /\ rows[e].applied => rows'[e].applied
  /\ \A e \in Written' \ Written : ~rows'[e].applied
RowsWell == rows' \in [Rows -> EventRows] /\ RowsInOrder' /\ RowsKept

LEMMA RowsUnchanged ==
    ASSUME TasteBase, rows' = rows
    PROVE  RowsWell
BY DEF TasteBase, TasteTypeOK, RowsInOrder, RowsWell, RowsKept, Written

LEMMA RowInserted ==
    ASSUME TasteBase, NEW w \in Workers, Insert(w)
    PROVE  /\ RowsWell /\ Written' = Written \cup {NextRow}
           /\ NextRow \in Rows
           /\ \E s \in task[w].songs : rows' = [rows EXCEPT ![NextRow] = NewRow(s, task[w].kind)]
<1>1. PICK s \in task[w].songs : rows' = [rows EXCEPT ![NextRow] = NewRow(s, task[w].kind)]
  BY DEF Insert
<1>2. NextRow \in Rows /\ NextRow \notin Written /\ NextRow \in Nat
  BY NextRowIsNew DEF Insert
<1>3. task[w] \in TasteTasks /\ task[w].kind # "none" /\ rows \in [Rows -> EventRows]
  BY DEF TasteBase, TasteTypeOK, TaskInOrder, Insert
<1>4. s \in Songs /\ task[w].kind \in EventKinds
  BY <1>3 DEF TasteTasks
<1>5. NewRow(s, task[w].kind) \in EventRows /\ NewRow(s, task[w].kind) # NoEvent
  BY <1>3, <1>4 DEF NewRow, EventRows, NoEvent
<1>6. rows' \in [Rows -> EventRows]
  BY <1>1, <1>3, <1>5
<1>7. \A e \in Rows : rows'[e] = IF e = NextRow THEN NewRow(s, task[w].kind) ELSE rows[e]
  BY <1>1, <1>3
<1>8. Written' = Written \cup {NextRow}
  BY <1>2, <1>5, <1>7 DEF Written
<1>9. Cardinality(Written') = Cardinality(Written) + 1 /\ Cardinality(Written) \in Nat
  BY <1>2, <1>8, RowCount, FS_AddElement DEF TasteBase
<1>10. RowsInOrder'
  <2> SUFFICES ASSUME NEW e \in Written'
               PROVE  /\ rows'[e].song \in Songs /\ rows'[e].kind \in EventKinds
                      /\ e <= Cardinality(Written')
    BY DEF RowsInOrder
  <2>1. CASE e = NextRow
    BY <2>1, <1>2, <1>4, <1>7, <1>9 DEF NewRow, NextRow
  <2>2. CASE e # NextRow
    <3>1. e \in Written /\ e \in Rows /\ rows'[e] = rows[e] /\ e \in Nat
      BY <2>2, <1>7, <1>8, TasteAssumption DEF Written, Rows
    <3> QED
      BY <3>1, <1>9 DEF TasteBase, RowsInOrder
  <2> QED
    BY <2>1, <2>2
<1>11. RowsKept
  BY <1>2, <1>7, <1>8 DEF RowsKept, NewRow, Written
<1> QED
  BY <1>1, <1>2, <1>6, <1>8, <1>10, <1>11 DEF RowsWell

LEMMA RowsSeeded ==
    ASSUME TasteBase, NEW w \in Workers, Seed(w)
    PROVE  \E new \in SUBSET Rows :
             /\ RowsWell /\ Written' = Written \cup new /\ new \cap Written = {}
             /\ task[w].songs # {} => new # {}
             /\ \A e \in Written : rows'[e] = rows[e]
             /\ task' = [task EXCEPT ![w] = [task[w] EXCEPT !.todo = new, !.songs = {}, !.pc = "check"]]
<1> DEFINE ss == task[w].songs
           k == Cardinality(ss)
           n == Cardinality(Written)
<1>1. PICK order \in [ss -> NextRow..NextRow + k - 1] :
        /\ \A s, t \in ss : s # t => order[s] # order[t]
        /\ \A s \in ss : order[s] \in Rows
        /\ rows' = [e \in Rows |-> IF e \notin {order[s] : s \in ss} THEN rows[e]
                                   ELSE NewRow(CHOOSE s \in ss : order[s] = e, "like")]
        /\ Goes(w, [task[w] EXCEPT !.todo = {order[s] : s \in ss}, !.songs = {}], "check")
  BY Zenon DEF Seed
<1> DEFINE new == {order[s] : s \in ss}
<1>2. task[w] \in TasteTasks /\ rows \in [Rows -> EventRows]
  BY DEF TasteBase, TasteTypeOK
<1>3. ss \subseteq Songs /\ IsFiniteSet(ss) /\ k \in Nat
  BY <1>2, TasteAssumption, FS_Subset, FS_CardinalityType DEF TasteTasks
<1>4. n \in Nat /\ IsFiniteSet(Written) /\ NextRow = n + 1
  BY RowCount DEF TasteBase, NextRow
<1>5. new \subseteq Rows /\ \A e \in new : e \in Nat /\ n < e /\ e <= n + k
  BY <1>1, <1>3, <1>4
<1>6. new \cap Written = {}
  <2>1. \A e \in Written : e <= n /\ e \in Nat
    BY TasteAssumption DEF TasteBase, RowsInOrder, Written, Rows
  <2> QED
    BY <2>1, <1>4, <1>5
<1>7. Cardinality(new) = k /\ IsFiniteSet(new)
  <2>1. order \in [ss -> new]
    BY <1>1
  <2>2. order \in Surjection(ss, new)
    BY <2>1 DEF Surjection
  <2>3. order \in Injection(ss, new)
    BY <2>1, <1>1 DEF Injection, IsInjective
  <2> QED
    BY <2>2, <2>3, <1>3, FS_Surjection
<1>8. \A e \in new : \E s \in ss : rows'[e] = NewRow(s, "like")
  <2> SUFFICES ASSUME NEW e \in new
               PROVE  \E s \in ss : rows'[e] = NewRow(s, "like")
    OBVIOUS
  <2>1. \E s \in ss : order[s] = e
    OBVIOUS
  <2>2. (CHOOSE s \in ss : order[s] = e) \in ss
    BY <2>1
  <2> QED
    BY <2>2, <1>1, <1>5
<1>9. \A e \in Rows : e \notin new => rows'[e] = rows[e]
  BY <1>1
<1>10. \A e \in new : /\ rows'[e] \in EventRows /\ rows'[e] # NoEvent /\ ~rows'[e].applied
                       /\ rows'[e].song \in Songs /\ rows'[e].kind \in EventKinds
  <2>1. \A s \in Songs : /\ NewRow(s, "like") \in EventRows /\ NewRow(s, "like") # NoEvent
                         /\ ~NewRow(s, "like").applied /\ NewRow(s, "like").song = s
                         /\ NewRow(s, "like").kind = "like"
    BY DEF NewRow, EventRows, NoEvent, EventKinds
  <2>2. "like" \in EventKinds
    BY DEF EventKinds
  <2> HIDE DEF new
  <2> QED
    BY <1>8, <1>3, <2>1, <2>2
<1>11. DOMAIN rows' = Rows /\ rows' = [e \in Rows |-> rows'[e]]
  BY <1>1
<1>12. rows' \in [Rows -> EventRows]
  BY <1>2, <1>9, <1>10, <1>11
<1>13. Written' = Written \cup new
  BY <1>5, <1>9, <1>10 DEF Written
<1>14. Cardinality(Written') = n + k
  <2>1. Cardinality(Written \cup new) = n + k - Cardinality(Written \cap new)
    BY <1>4, <1>7, FS_Union
  <2>2. Cardinality(Written \cap new) = 0
    BY <1>6, FS_EmptySet
  <2> QED
    BY <2>1, <2>2, <1>13, <1>3, <1>4
<1>15. RowsInOrder'
  <2> SUFFICES ASSUME NEW e \in Written'
               PROVE  /\ rows'[e].song \in Songs /\ rows'[e].kind \in EventKinds
                      /\ e <= Cardinality(Written')
    BY DEF RowsInOrder
  <2>1. CASE e \in new
    BY <2>1, <1>5, <1>10, <1>14
  <2>2. CASE e \notin new
    <3>1. e \in Written /\ e \in Rows /\ e \in Nat /\ rows'[e] = rows[e]
      BY <2>2, <1>9, <1>13, TasteAssumption DEF Written, Rows
    <3> QED
      BY <3>1, <1>3, <1>4, <1>14 DEF TasteBase, RowsInOrder
  <2> QED
    BY <2>1, <2>2
<1>16. RowsKept
  <2>1. \A e \in Written : e \in Rows /\ rows'[e] = rows[e]
    BY <1>6, <1>9 DEF Written
  <2> QED
    BY <2>1, <1>10, <1>13 DEF RowsKept
<1>17. ss # {} => new # {}
  OBVIOUS
<1>19. \A e \in Written : rows'[e] = rows[e]
  BY <1>6, <1>9 DEF Written
<1>18. task' = [task EXCEPT ![w] = [task[w] EXCEPT !.todo = new, !.songs = {}, !.pc = "check"]]
  BY <1>1 DEF Goes
<1> QED
  BY <1>5, <1>6, <1>12, <1>13, <1>15, <1>16, <1>17, <1>18, <1>19 DEF RowsWell

LEMMA RowMarked ==
    ASSUME TasteBase, NEW e \in Written, rows' = [rows EXCEPT ![e].applied = TRUE]
    PROVE  RowsWell /\ Written' = Written
<1>1. rows \in [Rows -> EventRows] /\ e \in Rows
  BY DEF TasteBase, TasteTypeOK, Written
<1>2. rows' \in [Rows -> EventRows]
  BY <1>1 DEF EventRows
<1>3. \A d \in Rows : /\ rows'[d].song = rows[d].song /\ rows'[d].kind = rows[d].kind
                      /\ d # e => rows'[d] = rows[d]
                      /\ d = e => rows'[d].applied
  BY <1>1 DEF EventRows
<1>4. Written' = Written
  <2>1. rows'[e] # NoEvent
    BY <1>1, <1>3 DEF NoEvent
  <2> QED
    BY <1>1, <1>3, <2>1 DEF Written
<1>5. RowsInOrder' /\ RowsKept
  BY <1>1, <1>3, <1>4 DEF TasteBase, RowsInOrder, RowsKept, Written
<1> QED
  BY <1>2, <1>4, <1>5 DEF RowsWell

-----------------------------------------------------------------------------
(* Every step keeps the types, the rows and the tasks in order. *)
LEMMA OneTaskMoves ==
    ASSUME TasteBase, NEW w \in Workers, NEW t \in TasteTasks, task' = [task EXCEPT ![w] = t],
           RowsKept, done \subseteq done', t.role = "done" => task[w].role = "done",
           task'[w] = t => TaskInOrder(w)'
    PROVE  /\ task' \in [Workers -> TasteTasks] /\ OneConsumer'
           /\ \A g \in Workers : TaskInOrder(g)'
<1>1. task \in [Workers -> TasteTasks]
  BY DEF TasteBase, TasteTypeOK
<1>2. task'[w] = t /\ \A g \in Workers : g # w => task'[g] = task[g]
  BY <1>1
<1>3. task' \in [Workers -> TasteTasks]
  BY <1>1
<1>4. OneConsumer'
  BY <1>2 DEF TasteBase, OneConsumer
<1>5. ASSUME NEW g \in Workers, g # w
      PROVE  TaskInOrder(g)'
  <2>1. TaskInOrder(g) /\ task'[g] = task[g]
    BY <1>2, <1>5 DEF TasteBase
  <2>2. \A e \in task[g].todo : e \in Written' /\ rows'[e].song = rows[e].song
    BY <2>1 DEF TaskInOrder, RowsKept
  <2> QED
    BY <2>1, <2>2 DEF TaskInOrder
<1> QED
  BY <1>2, <1>3, <1>4, <1>5

LEMMA TasksUnchanged ==
    ASSUME TasteBase, task' = task, RowsKept,
           done \subseteq done' \/ \A w \in Workers : task[w].role # "done"
    PROVE  /\ task' \in [Workers -> TasteTasks] /\ OneConsumer'
           /\ \A g \in Workers : TaskInOrder(g)'
<1>1. task' \in [Workers -> TasteTasks] /\ OneConsumer'
  BY DEF TasteBase, TasteTypeOK, OneConsumer
<1>2. ASSUME NEW g \in Workers
      PROVE  TaskInOrder(g)'
  <2>1. TaskInOrder(g)
    BY DEF TasteBase
  <2>2. \A e \in task[g].todo : e \in Written' /\ rows'[e].song = rows[e].song
    BY <2>1 DEF TaskInOrder, RowsKept
  <2> QED
    BY <2>1, <2>2 DEF TaskInOrder
<1> QED
  BY <1>1, <1>2

LEMMA IdleTask == NoTask \in TasteTasks
BY DEF NoTask, TasteTasks

LEMMA TasteBaseInitially == TasteInit => TasteBase
<1> SUFFICES ASSUME TasteInit
             PROVE  TasteBase
  OBVIOUS
<1>1. TasteTypeOK
  <2>1. rows \in [Rows -> EventRows]
    BY DEF TasteInit, NoEvent, EventRows
  <2>2. task \in [Workers -> TasteTasks]
    BY IdleTask DEF TasteInit
  <2>3. taste \in Tastes /\ vector \in Vectors
    BY DEF TasteInit, Tastes, NoVector, Vectors
  <2> QED
    BY <2>1, <2>2, <2>3 DEF TasteInit, TasteTypeOK
<1>2. Written = {}
  BY DEF TasteInit, Written
<1>3. RowsInOrder /\ OneConsumer
  BY <1>2 DEF TasteInit, RowsInOrder, OneConsumer, NoTask
<1>4. \A w \in Workers : TaskInOrder(w)
  BY DEF TasteInit, TaskInOrder, NoTask, Handling, Holding, Asking
<1> QED
  BY <1>1, <1>3, <1>4 DEF TasteBase

LEMMA Begun ==
    ASSUME TasteBase, NEW w \in Workers, NEW s \in Songs, NEW k \in EventKinds, Request(w, s, k),
           UNCHANGED <<rows, done>>
    PROVE  /\ task' \in [Workers -> TasteTasks] /\ OneConsumer'
           /\ \A g \in Workers : TaskInOrder(g)'
<1> DEFINE t == [NoTask EXCEPT !.role = "request", !.songs = {s}, !.kind = k, !.pc = "look"]
<1>1. task' = [task EXCEPT ![w] = t] /\ task[w] = NoTask
  BY DEF Request, Goes
<1>2. k # "none"
  BY TasteAssumption DEF EventKinds
<1>3. /\ t \in TasteTasks /\ t.role = "request" /\ t.todo = {} /\ t.pc = "look" /\ t.kind = k
      /\ t # NoTask
  BY DEF NoTask, TasteTasks, Asking
<1> HIDE DEF t
<1>4. task'[w] = t => TaskInOrder(w)'
  BY <1>2, <1>3 DEF TaskInOrder, Handling, Holding, Asking
<1>5. RowsKept
  BY RowsUnchanged DEF RowsWell
<1> QED
  BY <1>1, <1>3, <1>4, <1>5, OneTaskMoves

LEMMA SeedBegun ==
    ASSUME TasteBase, NEW w \in Workers, EnsureLikes(w)
    PROVE  /\ task' \in [Workers -> TasteTasks] /\ OneConsumer'
           /\ \A g \in Workers : TaskInOrder(g)'
<1>1. PICK ss \in (SUBSET Songs) \ {{}} :
        task' = [task EXCEPT ![w] = [NoTask EXCEPT !.role = "seed", !.songs = ss, !.pc = "look"]]
  BY DEF EnsureLikes, Goes
<1> DEFINE t == [NoTask EXCEPT !.role = "seed", !.songs = ss, !.pc = "look"]
<1>2. t \in TasteTasks /\ t.role = "seed" /\ t.todo = {} /\ t.pc = "look" /\ t # NoTask
  BY DEF NoTask, TasteTasks, Asking
<1>3. task'[w] = t => TaskInOrder(w)'
  <2> HIDE DEF t
  <2> QED
    BY <1>2 DEF TaskInOrder, Handling, Holding, Asking
<1>4. RowsKept /\ done' = done
  BY RowsUnchanged DEF RowsWell, EnsureLikes, trackVars
<1> HIDE DEF t
<1> QED
  BY <1>1, <1>2, <1>3, <1>4, OneTaskMoves DEF t

LEMMA ConsumerBegun ==
    ASSUME TasteBase, NEW w \in Workers, Consume(w)
    PROVE  /\ task' \in [Workers -> TasteTasks] /\ OneConsumer'
           /\ \A g \in Workers : TaskInOrder(g)'
<1>1. RowsKept /\ rows' = rows
  BY RowsUnchanged DEF RowsWell, Consume
<1>2. PICK s \in done :
        IF Pending(s) = {} THEN done' = done \ {s} /\ UNCHANGED <<task, relisted>>
        ELSE /\ Goes(w, [NoTask EXCEPT !.role = "done", !.songs = {s}, !.todo = Pending(s)], "look")
             /\ UNCHANGED done
  BY DEF Consume
<1>3. \A g \in Workers : task[g].role # "done"
  BY DEF Consume
<1>4. CASE Pending(s) = {}
  BY <1>1, <1>2, <1>3, <1>4, TasksUnchanged
<1>5. CASE Pending(s) # {}
  <2> DEFINE t == [NoTask EXCEPT !.role = "done", !.songs = {s}, !.todo = Pending(s), !.pc = "look"]
  <2>1. task' = [task EXCEPT ![w] = t] /\ done' = done
    BY <1>2, <1>5 DEF Goes
  <2>2. s \in Songs /\ Pending(s) \subseteq Written /\ Written \subseteq Rows
    BY DEF TasteBase, TasteTypeOK, Pending, Written
  <2>3. \A e \in Pending(s) : rows[e].song = s
    BY DEF Pending
  <2>4. t \in TasteTasks
    BY <2>2 DEF NoTask, TasteTasks, Asking
  <2>5. Written' = Written
    BY <1>1 DEF Written
  <2>6. t.todo = Pending(s) /\ t.songs = {s} /\ t.role = "done" /\ t.pc = "look"
    BY DEF NoTask
  <2>7. t # NoTask
    BY <2>6 DEF NoTask
  <2> HIDE DEF t
  <2>8. task \in [Workers -> TasteTasks]
    BY DEF TasteBase, TasteTypeOK
  <2>9. task' \in [Workers -> TasteTasks] /\ task'[w] = t /\ \A g \in Workers : g # w => task'[g] = task[g]
    BY <2>1, <2>4, <2>8
  <2>10. OneConsumer'
    BY <1>3, <2>9 DEF OneConsumer
  <2>11. TaskInOrder(w)'
    BY <1>1, <1>5, <2>1, <2>2, <2>3, <2>5, <2>6, <2>7, <2>9 DEF TaskInOrder, Handling, Holding, Asking
  <2>12. ASSUME NEW g \in Workers, g # w
         PROVE  TaskInOrder(g)'
    BY <1>1, <2>1, <2>5, <2>9, <2>12 DEF TasteBase, TaskInOrder
  <2> QED
    BY <2>9, <2>10, <2>11, <2>12
<1> QED
  BY <1>4, <1>5

LEMMA TaskEnds ==
    ASSUME TasteBase, NEW w \in Workers, task' = [task EXCEPT ![w] = NoTask], RowsKept,
           \/ done \subseteq done'
           \/ done' = IF task[w].role = "done" THEN done \ task[w].songs ELSE done
    PROVE  /\ task' \in [Workers -> TasteTasks] /\ OneConsumer'
           /\ \A g \in Workers : TaskInOrder(g)'
<1>1. task \in [Workers -> TasteTasks]
  BY DEF TasteBase, TasteTypeOK
<1>2. task'[w] = NoTask /\ \A g \in Workers : g # w => task'[g] = task[g]
  BY <1>1
<1>3. task' \in [Workers -> TasteTasks]
  BY <1>1, IdleTask
<1>4. OneConsumer'
  BY <1>2 DEF TasteBase, OneConsumer, NoTask
<1>5. TaskInOrder(w)'
  BY <1>2 DEF TaskInOrder, NoTask, Handling, Holding, Asking
<1>6. ASSUME NEW g \in Workers, g # w
      PROVE  TaskInOrder(g)'
  <2>1. TaskInOrder(g) /\ task'[g] = task[g]
    BY <1>2, <1>6 DEF TasteBase
  <2>2. \A e \in task[g].todo : e \in Written' /\ rows'[e].song = rows[e].song
    BY <2>1 DEF TaskInOrder, RowsKept
  <2>3. task[g].role = "done" => done \subseteq done'
    BY <1>6 DEF TasteBase, OneConsumer
  <2> QED
    BY <2>1, <2>2, <2>3 DEF TaskInOrder
<1> QED
  BY <1>3, <1>4, <1>5, <1>6

(* A step of a task that stays at work. *)
LEMMA StaysAtWork ==
    ASSUME TasteBase, NEW w \in Workers, NEW t \in TasteTasks, task' = [task EXCEPT ![w] = t],
           RowsKept, done \subseteq done', t.role = task[w].role, t.role # "none", t.pc # "idle",
           t.todo \subseteq Written',
           t.pc \in Handling => t.todo # {},
           t.pc \in Holding \ Handling => t.todo = {},
           t.pc \in Asking => /\ t.role = "done" <=> t.todo # {}
                              /\ t.role = "request" => t.kind # "none",
           t.pc = "insert" => t.role = "request" /\ t.kind # "none",
           t.pc \in {"missing", "seed"} => t.role = "seed",
           t.pc = "seed" => t.songs # {},
           t.pc = "write" => t.base \in Tastes /\ t.reach # {},
           t.role = "done" => t.songs = task[w].songs /\ t.todo \subseteq task[w].todo
    PROVE  /\ task' \in [Workers -> TasteTasks] /\ OneConsumer'
           /\ \A g \in Workers : TaskInOrder(g)'
<1>1. t # NoTask
  BY DEF NoTask
<1>2. TaskInOrder(w)
  BY DEF TasteBase
<1>3. t.role = "done" => t.songs \subseteq done' /\ \A e \in t.todo : rows'[e].song \in t.songs
  BY <1>2 DEF TaskInOrder, RowsKept
<1>4. task'[w] = t => TaskInOrder(w)'
  BY <1>1, <1>3 DEF TaskInOrder
<1> QED
  BY <1>4, OneTaskMoves

LEMMA NextEventKeeps ==
    ASSUME TasteBase, NEW w \in Workers, task[w].pc \in Handling, NextEvent(w, Current(w)),
           RowsKept, done \subseteq done'
    PROVE  /\ task' \in [Workers -> TasteTasks] /\ OneConsumer'
           /\ \A g \in Workers : TaskInOrder(g)'
<1> DEFINE e == Current(w)
           t == [Cleared(task[w], e) EXCEPT !.pc = IF task[w].todo = {e} THEN "after" ELSE "check"]
<1>1. task[w] \in TasteTasks /\ TaskInOrder(w)
  BY DEF TasteBase, TasteTypeOK
<1>2. e \in task[w].todo
  BY <1>1, CurrentInHand DEF TaskInOrder
<1>3. task' = [task EXCEPT ![w] = t]
  BY DEF NextEvent, Goes
<1>4. /\ t \in TasteTasks /\ t.role = task[w].role /\ t.songs = task[w].songs
      /\ t.todo = task[w].todo \ {e}
      /\ t.pc = IF task[w].todo = {e} THEN "after" ELSE "check"
  BY <1>1 DEF Cleared, TasteTasks, Asking, Holding
<1> HIDE DEF t, e
<1>5. task[w].role # "none" /\ t.todo \subseteq Written'
  BY <1>1, <1>4 DEF TaskInOrder, RowsKept, NoTask, Handling
<1>6. t.pc = "after" => t.todo = {}
  BY <1>4
<1>7. t.pc = "check" => t.todo # {}
  BY <1>2, <1>4
<1>8. t.pc \in {"after", "check"}
  BY <1>4
<1> QED
  BY <1>3, <1>4, <1>5, <1>6, <1>7, <1>8, StaysAtWork DEF Handling, Holding, Asking

(* Where a task only moves on. *)
LEMMA MovesOn ==
    ASSUME TasteBase, NEW w \in Workers, NEW pc, Goes(w, task[w], pc), task[w] # NoTask,
           pc \in Asking \cup Holding, pc \notin {"write", "seed"},
           pc \in Handling => task[w].todo # {}, pc \in Holding \ Handling => task[w].todo = {},
           pc \in Asking => task[w].pc \in Asking,
           pc = "insert" => task[w].role = "request" /\ task[w].pc \in Asking,
           pc = "missing" => task[w].role = "seed",
           RowsKept, done \subseteq done'
    PROVE  /\ task' \in [Workers -> TasteTasks] /\ OneConsumer'
           /\ \A g \in Workers : TaskInOrder(g)'
<1> DEFINE t == [task[w] EXCEPT !.pc = pc]
<1>1. task[w] \in TasteTasks /\ TaskInOrder(w)
  BY DEF TasteBase, TasteTypeOK
<1>2. task' = [task EXCEPT ![w] = t]
  BY DEF Goes
<1>3. /\ t \in TasteTasks /\ t.role = task[w].role /\ t.songs = task[w].songs
      /\ t.todo = task[w].todo /\ t.kind = task[w].kind /\ t.pc = pc
  BY <1>1 DEF TasteTasks
<1>4. t.role # "none" /\ t.todo \subseteq Written' /\ pc # "idle"
  BY <1>1, <1>3 DEF TaskInOrder, RowsKept, Asking, Holding
<1>5. pc \in Asking => /\ t.role = "done" <=> t.todo # {}
                       /\ t.role = "request" => t.kind # "none"
  BY <1>1, <1>3 DEF TaskInOrder
<1>6. pc = "insert" => t.role = "request" /\ t.kind # "none"
  BY <1>1, <1>3 DEF TaskInOrder
<1> HIDE DEF t
<1> QED
  BY <1>2, <1>3, <1>4, <1>5, <1>6, StaysAtWork

TasksWell ==
  /\ task' \in [Workers -> TasteTasks] /\ OneConsumer'
  /\ \A g \in Workers : TaskInOrder(g)'

LEMMA LockingKeeps ==
    ASSUME TasteBase, NEW w \in Workers, LookLock(w) \/ MakeLock(w) \/ TakeLock(w)
    PROVE  TasksWell
<1> USE DEF TasksWell
<1>1. RowsKept /\ done' = done
  BY RowsUnchanged DEF RowsWell, LookLock, MakeLock, TakeLock, trackVars
<1>2. task[w] \in TasteTasks /\ TaskInOrder(w) /\ task[w] # NoTask /\ task[w].pc \in Asking
  BY DEF TasteBase, TasteTypeOK, LookLock, MakeLock, TakeLock, NoTask, Asking
<1>3. CASE LookLock(w) /\ userLock = 0
  <2>1. Goes(w, task[w], "make")
    BY <1>3 DEF LookLock
  <2> QED
    BY <1>1, <1>2, <2>1, MovesOn DEF Asking, Holding, Handling
<1>4. ASSUME NEW l \in Nat, Goes(w, [task[w] EXCEPT !.lock = l], "wait")
      PROVE  TasksWell
  <2> DEFINE t == [task[w] EXCEPT !.lock = l, !.pc = "wait"]
  <2>1. task' = [task EXCEPT ![w] = t]
    BY <1>4 DEF Goes
  <2>2. /\ t \in TasteTasks /\ t.role = task[w].role /\ t.songs = task[w].songs
        /\ t.todo = task[w].todo /\ t.kind = task[w].kind /\ t.pc = "wait"
    BY <1>2 DEF TasteTasks, Asking
  <2>3. t.role # "none" /\ t.todo \subseteq Written'
    BY <1>1, <1>2, <2>2 DEF TaskInOrder, RowsKept
  <2>4. /\ t.role = "done" <=> t.todo # {}
        /\ t.role = "request" => t.kind # "none"
    BY <1>2, <2>2 DEF TaskInOrder
  <2> HIDE DEF t
  <2> QED
    BY <1>1, <2>1, <2>2, <2>3, <2>4, StaysAtWork DEF Asking, Holding, Handling
<1>5. CASE LookLock(w) /\ userLock # 0
  BY <1>4, <1>5 DEF LookLock, TasteBase, TasteTypeOK
<1>6. CASE MakeLock(w)
  <2>1. mutexes + 1 \in Nat /\ Goes(w, [task[w] EXCEPT !.lock = mutexes + 1], "wait")
    BY <1>6 DEF MakeLock, TasteBase, TasteTypeOK
  <2> QED
    BY <1>4, <2>1
<1>7. CASE TakeLock(w)
  <2>1. task[w].role \in {"request", "seed", "done"}
    BY <1>2 DEF TasteTasks, TaskInOrder
  <2>2. CASE task[w].role = "request"
    <3>1. Goes(w, task[w], "insert") /\ task[w].todo = {}
      BY <1>2, <1>7, <2>2 DEF TakeLock, Begins, TaskInOrder
    <3> QED
      BY <1>1, <1>2, <2>2, <3>1, MovesOn DEF Asking, Holding, Handling
  <2>3. CASE task[w].role = "seed"
    <3>1. Goes(w, task[w], "missing") /\ task[w].todo = {}
      BY <1>2, <1>7, <2>3 DEF TakeLock, Begins, TaskInOrder
    <3> QED
      BY <1>1, <1>2, <2>3, <3>1, MovesOn DEF Asking, Holding, Handling
  <2>4. CASE task[w].role = "done"
    <3>1. Goes(w, task[w], "check") /\ task[w].todo # {}
      BY <1>2, <1>7, <2>4 DEF TakeLock, Begins, TaskInOrder
    <3> QED
      BY <1>1, <1>2, <2>4, <3>1, MovesOn DEF Asking, Holding, Handling
  <2> QED
    BY <2>1, <2>2, <2>3, <2>4
<1> QED
  BY <1>3, <1>5, <1>6, <1>7

LEMMA RowStepsKeep ==
    ASSUME TasteBase, NEW w \in Workers, Insert(w) \/ Missing(w) \/ Seed(w)
    PROVE  TasksWell
<1> USE DEF TasksWell
<1>1. done' = done
  BY DEF Insert, Missing, Seed, trackVars
<1>2. task[w] \in TasteTasks /\ TaskInOrder(w) /\ task[w] # NoTask
  <2>1. task[w].pc = "insert" \/ task[w].pc = "missing" \/ task[w].pc = "seed"
    BY Zenon DEF Insert, Missing, Seed
  <2>2. task[w] # NoTask
    BY <2>1 DEF NoTask
  <2> QED
    BY <2>2 DEF TasteBase, TasteTypeOK
<1>3. CASE Insert(w)
  <2> DEFINE t == [task[w] EXCEPT !.todo = {NextRow}, !.row = NextRow, !.songs = {}, !.kind = "none", !.pc = "check"]
  <2>1. RowsKept /\ Written' = Written \cup {NextRow} /\ NextRow \in Rows /\ NextRow \in Nat
    BY <1>3, RowInserted, NextRowIsNew DEF RowsWell
  <2>2. task' = [task EXCEPT ![w] = t]
    BY <1>3 DEF Insert, Goes
  <2>3. task[w].role = "request"
    BY <1>2, <1>3 DEF Insert, TaskInOrder
  <2>4. t \in TasteTasks /\ t.role = "request" /\ t.todo = {NextRow} /\ t.pc = "check"
    BY <1>2, <2>1, <2>3 DEF TasteTasks, Holding
  <2> HIDE DEF t
  <2> QED
    BY <1>1, <2>1, <2>2, <2>3, <2>4, StaysAtWork DEF Asking, Holding, Handling
<1>4. CASE Missing(w)
  <2>1. RowsKept
    BY <1>4, RowsUnchanged DEF RowsWell, Missing
  <2>2. task[w].role = "seed" /\ task[w].todo = {}
    BY <1>2, <1>4 DEF Missing, TaskInOrder, Holding, Handling
  <2>3. CASE task' = [task EXCEPT ![w] = NoTask]
    BY <1>1, <2>1, <2>3, TaskEnds
  <2>4. CASE /\ Goes(w, [task[w] EXCEPT !.songs = task[w].songs \ LikedSongs], "seed")
             /\ task[w].songs \ LikedSongs # {}
    <3> DEFINE t == [task[w] EXCEPT !.songs = task[w].songs \ LikedSongs, !.pc = "seed"]
    <3>1. task' = [task EXCEPT ![w] = t]
      BY <2>4 DEF Goes
    <3>2. /\ t \in TasteTasks /\ t.role = "seed" /\ t.todo = {} /\ t.pc = "seed"
          /\ t.songs = task[w].songs \ LikedSongs
      BY <1>2, <2>2 DEF TasteTasks, Holding
    <3> HIDE DEF t
    <3> QED
      BY <1>1, <2>1, <2>2, <2>4, <3>1, <3>2, StaysAtWork DEF Asking, Holding, Handling
  <2> QED
    BY <1>4, <2>3, <2>4 DEF Missing
<1>5. CASE Seed(w)
  <2>1. PICK new \in SUBSET Rows :
          /\ RowsKept /\ Written' = Written \cup new
          /\ task[w].songs # {} => new # {}
          /\ task' = [task EXCEPT ![w] = [task[w] EXCEPT !.todo = new, !.songs = {}, !.pc = "check"]]
    BY <1>5, RowsSeeded DEF RowsWell
  <2> DEFINE t == [task[w] EXCEPT !.todo = new, !.songs = {}, !.pc = "check"]
  <2>2. task[w].role = "seed" /\ task[w].songs # {}
    BY <1>2, <1>5 DEF Seed, TaskInOrder
  <2>3. t \in TasteTasks /\ t.role = "seed" /\ t.todo = new /\ t.pc = "check"
    BY <1>2, <2>2 DEF TasteTasks, Holding
  <2> HIDE DEF t
  <2>4. task' = [task EXCEPT ![w] = t]
    BY <2>1 DEF t
  <2> QED
    BY <1>1, <2>1, <2>2, <2>3, <2>4, StaysAtWork DEF Asking, Holding, Handling
<1> QED
  BY <1>3, <1>4, <1>5

LEMMA EventStepsKeep ==
    ASSUME TasteBase, NEW w \in Workers,
           CheckDislike(w) \/ ReadTaste(w) \/ WriteTaste(w) \/ MarkApplied(w)
    PROVE  TasksWell /\ RowsWell
<1> USE DEF TasksWell
<1>1. done' = done
  BY DEF CheckDislike, ReadTaste, WriteTaste, MarkApplied, trackVars
<1>2. task[w].pc \in Handling
  BY DEF CheckDislike, ReadTaste, WriteTaste, MarkApplied, Handling
<1>3. task[w] # NoTask
  BY <1>2 DEF NoTask, Handling
<1>4. task[w] \in TasteTasks /\ TaskInOrder(w)
  BY DEF TasteBase, TasteTypeOK
<1>5. task[w].todo # {} /\ Current(w) \in Written
  BY <1>2, <1>4, CurrentInHand DEF TaskInOrder
<1>6. CASE CheckDislike(w)
  <2>1. RowsWell /\ RowsKept
    BY <1>6, RowsUnchanged DEF RowsWell, CheckDislike
  <2>2. \E pc \in {"mark", "read"} : Goes(w, task[w], pc)
    BY <1>6 DEF CheckDislike
  <2> QED
    BY <1>1, <1>3, <1>5, <2>1, <2>2, MovesOn DEF Asking, Holding, Handling
<1>7. CASE ReadTaste(w)
  <2>1. RowsWell /\ RowsKept
    BY <1>7, RowsUnchanged DEF RowsWell, ReadTaste
  <2>2. PICK reach \in SUBSET vecs[rows[Current(w)].song] :
          IF reach = {} THEN NotYet(w, Current(w))
          ELSE Goes(w, [task[w] EXCEPT !.reach = reach, !.base = taste], "write")
    BY <1>7 DEF ReadTaste
  <2>3. CASE reach = {}
    BY <1>1, <1>2, <2>1, <2>2, <2>3, NextEventKeeps DEF NotYet
  <2>4. CASE reach # {}
    <3> DEFINE t == [task[w] EXCEPT !.reach = reach, !.base = taste, !.pc = "write"]
    <3>1. task' = [task EXCEPT ![w] = t]
      BY <2>2, <2>4 DEF Goes
    <3>2. reach \subseteq Branches /\ taste \in Tastes
      BY <1>5 DEF TasteBase, TasteTypeOK, RowsInOrder
    <3>3. /\ t \in TasteTasks /\ t.role = task[w].role /\ t.songs = task[w].songs
          /\ t.todo = task[w].todo /\ t.pc = "write" /\ t.base = taste /\ t.reach = reach
      BY <1>4, <3>2 DEF TasteTasks, Holding
    <3>4. t.role # "none" /\ t.todo \subseteq Written'
      BY <1>3, <1>4, <2>1, <3>3 DEF TaskInOrder, RowsKept
    <3> HIDE DEF t
    <3> QED
      BY <1>1, <1>5, <2>1, <2>4, <3>1, <3>2, <3>3, <3>4, StaysAtWork DEF Asking, Holding, Handling
  <2> QED
    BY <2>3, <2>4
<1>8. CASE WriteTaste(w)
  <2>1. RowsWell /\ RowsKept
    BY <1>8, RowsUnchanged DEF RowsWell, WriteTaste
  <2>2. NextEvent(w, Current(w)) \/ Goes(w, task[w], "mark")
    BY <1>8 DEF WriteTaste, NotYet
  <2>3. CASE NextEvent(w, Current(w))
    BY <1>1, <1>2, <2>1, <2>3, NextEventKeeps
  <2>4. CASE Goes(w, task[w], "mark")
    BY <1>1, <1>3, <1>5, <2>1, <2>4, MovesOn DEF Asking, Holding, Handling
  <2> QED
    BY <2>2, <2>3, <2>4
<1>9. CASE MarkApplied(w)
  <2>1. \/ rows' = [rows EXCEPT ![Current(w)].applied = TRUE] /\ NextEvent(w, Current(w))
        \/ rows' = rows /\ task' = [task EXCEPT ![w] = NoTask]
        \/ rows' = rows /\ NextEvent(w, Current(w))
    BY <1>9 DEF MarkApplied, NotYet
  <2>2. RowsWell
    BY <1>5, <2>1, RowMarked, RowsUnchanged
  <2>3. CASE NextEvent(w, Current(w))
    BY <1>1, <1>2, <2>2, <2>3, NextEventKeeps DEF RowsWell
  <2>4. CASE task' = [task EXCEPT ![w] = NoTask]
    BY <1>1, <2>2, <2>4, TaskEnds DEF RowsWell
  <2> QED
    BY <2>1, <2>2, <2>3, <2>4
<1> QED
  BY <1>6, <1>7, <1>8, <1>9

LEMMA TasksAndRowsKeep ==
    ASSUME TasteBase, TasteNext
    PROVE  TasksWell /\ RowsWell
<1>1. ASSUME NEW w \in Workers, Record(w)
      PROVE  TasksWell /\ RowsWell
  <2>1. PICK s \in Songs, k \in Kinds : Request(w, s, k)
    BY <1>1 DEF Record
  <2>2. k \in EventKinds /\ UNCHANGED <<rows, done>>
    BY <1>1 DEF EventKinds, Record, trackVars
  <2> QED
    BY <2>1, <2>2, Begun, RowsUnchanged DEF TasksWell
<1>2. ASSUME NEW w \in Workers, AddDislike(w)
      PROVE  TasksWell /\ RowsWell
  <2>1. PICK s \in Songs : Request(w, s, "dislike")
    BY <1>2 DEF AddDislike
  <2>2. "dislike" \in EventKinds /\ UNCHANGED <<rows, done>>
    BY <1>2 DEF EventKinds, AddDislike, trackVars
  <2> QED
    BY <2>1, <2>2, Begun, RowsUnchanged DEF TasksWell
<1>3. ASSUME NEW w \in Workers, EnsureLikes(w)
      PROVE  TasksWell /\ RowsWell
  <2>1. rows' = rows
    BY <1>3 DEF EnsureLikes
  <2> QED
    BY <1>3, <2>1, SeedBegun, RowsUnchanged DEF TasksWell
<1>4. ASSUME NEW w \in Workers, Consume(w)
      PROVE  TasksWell /\ RowsWell
  <2>1. rows' = rows
    BY <1>4 DEF Consume
  <2> QED
    BY <1>4, <2>1, ConsumerBegun, RowsUnchanged DEF TasksWell
<1>5. ASSUME NEW w \in Workers, LookLock(w) \/ MakeLock(w) \/ TakeLock(w)
      PROVE  TasksWell /\ RowsWell
  <2>1. rows' = rows
    BY <1>5 DEF LookLock, MakeLock, TakeLock
  <2> QED
    BY <1>5, <2>1, LockingKeeps, RowsUnchanged
<1>6. ASSUME NEW w \in Workers, Insert(w) \/ Missing(w) \/ Seed(w)
      PROVE  TasksWell /\ RowsWell
  <2>1. Missing(w) => RowsWell
    BY RowsUnchanged DEF Missing
  <2> QED
    BY <1>6, <2>1, RowStepsKeep, RowInserted, RowsSeeded
<1>7. ASSUME NEW w \in Workers, CheckDislike(w) \/ ReadTaste(w) \/ WriteTaste(w) \/ MarkApplied(w)
      PROVE  TasksWell /\ RowsWell
  BY <1>7, EventStepsKeep
<1>8. ASSUME NEW w \in Workers, Finish(w) \/ Leaves(w)
      PROVE  TasksWell /\ RowsWell
  <2>1. RowsWell
    BY <1>8, RowsUnchanged DEF Finish, Leaves
  <2>2. task' = [task EXCEPT ![w] = NoTask]
    BY <1>8 DEF Finish, Leaves
  <2>3. \/ done \subseteq done'
        \/ done' = IF task[w].role = "done" THEN done \ task[w].songs ELSE done
    BY <1>8 DEF Finish, Leaves, trackVars
  <2> QED
    BY <2>1, <2>2, <2>3, TaskEnds DEF TasksWell, RowsWell
<1>9. ASSUME \/ \E s \in Songs : SongMoves(s)
             \/ ForgetLock \/ ReadLikes \/ PutCache \/ VectorExpires
      PROVE  TasksWell /\ RowsWell
  <2>1. rows' = rows /\ task' = task /\ done \subseteq done'
    BY <1>9 DEF SongMoves, UndoDislike, EnsureQueued, TrackDiscovered, Upserts, Indexed, SetIndexedAt, ForgetLock, ReadLikes, PutCache, VectorExpires, trackVars
  <2> QED
    BY <2>1, RowsUnchanged, TasksUnchanged DEF TasksWell, RowsWell
<1>10. CASE Restarts
  <2>1. rows' = rows /\ task' = [w \in Workers |-> NoTask]
    BY <1>10 DEF Restarts
  <2>2. TasksWell
    BY <2>1, IdleTask DEF TasksWell, OneConsumer, TaskInOrder, NoTask, Handling, Holding, Asking
  <2> QED
    BY <2>1, <2>2, RowsUnchanged
<1> QED
  BY <1>1, <1>2, <1>3, <1>4, <1>5, <1>6, <1>7, <1>8, <1>9, <1>10
     DEF TasteNext, EventsNext, VectorNext, TasteStep, SongMoves

PlainTypes ==
  /\ hated \subseteq Songs /\ vecs \in [Songs -> SUBSET Branches]
  /\ listed \in [Songs -> {"none", "new", "told", "indexed"}] /\ wanting \subseteq Songs
  /\ queued \subseteq Songs /\ done \subseteq Songs /\ taste \in Tastes
  /\ userLock \in Nat /\ mutexes \in Nat /\ vector \in Vectors
  /\ settled \subseteq Rows /\ relisted \subseteq Rows /\ spurned \subseteq Rows
  /\ split \in BOOLEAN /\ upsets \in Nat /\ hates \in Nat

LEMMA PlainTypesKeep ==
    ASSUME TasteBase, TasteNext
    PROVE  PlainTypes'
<1> USE DEF PlainTypes, Fine, Upset, trackVars, lockVars, bookVars
<1>a. PlainTypes
  BY DEF TasteBase, TasteTypeOK
<1>1. ASSUME NEW w \in Workers, Record(w)
      PROVE  PlainTypes'
  BY <1>a, <1>1 DEF Record
<1>2. ASSUME NEW w \in Workers, AddDislike(w)
      PROVE  PlainTypes'
  BY <1>a, <1>2 DEF AddDislike
<1>3. ASSUME NEW w \in Workers, EnsureLikes(w)
      PROVE  PlainTypes'
  BY <1>a, <1>3 DEF EnsureLikes
<1>4. ASSUME NEW w \in Workers, Consume(w)
      PROVE  PlainTypes'
  <2>1. \A s \in Songs : Pending(s) \subseteq Rows
    BY DEF Pending, Written
  <2> QED
    BY <1>a, <1>4, <2>1 DEF Consume
<1>5. ASSUME NEW w \in Workers, LookLock(w) \/ MakeLock(w) \/ TakeLock(w)
      PROVE  PlainTypes'
  <2>1. UNCHANGED <<hated, trackVars, taste, vector, bookVars, hates, upsets>>
    BY <1>5 DEF LookLock, MakeLock, TakeLock
  <2>2. userLock' \in Nat /\ mutexes' \in Nat
    BY <1>a, <1>5 DEF LookLock, MakeLock, TakeLock
  <2>3. CASE MakeLock(w)
    <3>1. split' \in BOOLEAN
      BY <2>3, Zenon DEF MakeLock
    <3> QED
      BY <1>a, <2>1, <2>2, <3>1
  <2>4. CASE LookLock(w) \/ TakeLock(w)
    BY <1>a, <2>1, <2>2, <2>4 DEF LookLock, TakeLock
  <2> QED
    BY <1>5, <2>3, <2>4
<1>6. ASSUME NEW w \in Workers, Insert(w) \/ Missing(w) \/ Seed(w)
      PROVE  PlainTypes'
  <2>1. UNCHANGED <<hated, trackVars, taste, lockVars, vector, bookVars, hates, upsets>>
    BY <1>6, Zenon DEF Insert, Missing, Seed
  <2> QED
    BY <1>a, <2>1
<1>7. ASSUME NEW w \in Workers, task[w].pc \in Handling
      PROVE  Current(w) \in Rows /\ rows[Current(w)].song \in Songs
  BY <1>7, CurrentInHand DEF TasteBase, TaskInOrder, RowsInOrder
<1>8. ASSUME NEW w \in Workers, CheckDislike(w)
      PROVE  PlainTypes'
  <2>1. Current(w) \in Rows
    BY <1>7, <1>8 DEF CheckDislike, Handling
  <2> QED
    BY <1>a, <1>8, <2>1 DEF CheckDislike
<1>9. ASSUME NEW w \in Workers, NEW s \in Songs
      PROVE  AskIndex(w, s) \subseteq Songs
  BY <1>a DEF AskIndex
<1>10. ASSUME NEW w \in Workers, ReadTaste(w)
       PROVE  PlainTypes'
  <2>1. AskIndex(w, rows[Current(w)].song) \subseteq Songs
    BY <1>7, <1>9, <1>10 DEF ReadTaste, Handling
  <2>2. wanting' \subseteq Songs
    BY <1>a, <1>10, <2>1 DEF ReadTaste, NotYet
  <2>3. UNCHANGED <<hated, vecs, listed, queued, done, taste, lockVars, vector, bookVars, hates>>
    BY <1>10 DEF ReadTaste
  <2>4. upsets' \in Nat
    BY <1>a, <1>10 DEF ReadTaste
  <2> QED
    BY <1>a, <2>2, <2>3, <2>4
<1>11. ASSUME NEW w \in Workers, WriteTaste(w)
       PROVE  PlainTypes'
  <2>1. AskIndex(w, rows[Current(w)].song) \subseteq Songs /\ Current(w) \in Rows
    BY <1>7, <1>9, <1>11 DEF WriteTaste, Handling
  <2>2. wanting' \subseteq Songs
    BY <1>a, <1>11, <2>1 DEF WriteTaste, NotYet
  <2>3. UNCHANGED <<hated, vecs, listed, queued, done, lockVars, vector, bookVars, hates>>
    BY <1>11 DEF WriteTaste
  <2>4. upsets' \in Nat
    BY <1>a, <1>11 DEF WriteTaste
  <2>5. task[w].base \in Tastes
    BY <1>11 DEF TasteBase, TaskInOrder, WriteTaste
  <2>6. PICK bs :
          taste' = [b \in Branches |->
                      IF b \in bs THEN [task[w].base[b] EXCEPT ![Current(w)] = (IF @ < 2 THEN @ + 1 ELSE @)]
                      ELSE taste[b]]
    BY <1>11 DEF WriteTaste
  <2>7. taste' \in Tastes
    BY <1>a, <2>1, <2>5, <2>6 DEF Tastes
  <2> QED
    BY <1>a, <2>2, <2>3, <2>4, <2>7
<1>12. ASSUME NEW w \in Workers, MarkApplied(w)
       PROVE  PlainTypes'
  <2>1. AskIndex(w, rows[Current(w)].song) \subseteq Songs
    BY <1>7, <1>9, <1>12 DEF MarkApplied, Handling
  <2>2. wanting' \subseteq Songs
    BY <1>a, <1>12, <2>1 DEF MarkApplied, NotYet
  <2>3. UNCHANGED <<hated, vecs, listed, queued, done, taste, lockVars, vector, bookVars, hates>>
    BY <1>12 DEF MarkApplied
  <2>4. upsets' \in Nat
    BY <1>a, <1>12 DEF MarkApplied
  <2> QED
    BY <1>a, <2>2, <2>3, <2>4
<1>13. Dropped \in Vectors
  BY <1>a DEF Dropped, Vectors
<1>14. Likes \subseteq Rows
  BY DEF Likes, Written
<1>15. ASSUME NEW w \in Workers, Finish(w) \/ Leaves(w)
       PROVE  PlainTypes'
  BY <1>a, <1>13, <1>14, <1>15 DEF Finish, Leaves, DropVector
<1>16. ASSUME NEW s \in Songs, SongMoves(s)
       PROVE  PlainTypes'
  <2>1. CASE UndoDislike(s)
    BY <1>a, <2>1 DEF UndoDislike
  <2>2. CASE Upserts(s)
    BY <1>a, <2>2 DEF Upserts
  <2>3. CASE Indexed(s) \/ EnsureQueued(s) \/ TrackDiscovered(s) \/ SetIndexedAt(s)
    <3>1. UNCHANGED <<hated, vecs, taste, lockVars, vector, bookVars, hates, upsets>>
      BY <2>3 DEF Indexed, EnsureQueued, TrackDiscovered, SetIndexedAt
    <3>2. queued' \subseteq Songs /\ done' \subseteq Songs /\ wanting' \subseteq Songs
      BY <1>a, <2>3 DEF Indexed, EnsureQueued, TrackDiscovered, SetIndexedAt
    <3>3. listed' \in [Songs -> {"none", "new", "told", "indexed"}]
      BY <1>a, <2>3 DEF Indexed, EnsureQueued, TrackDiscovered, SetIndexedAt
    <3> QED
      BY <1>a, <3>1, <3>2, <3>3
  <2> QED
    BY <1>16, <2>1, <2>2, <2>3 DEF SongMoves
<1>17. NoVector \in Vectors
  BY DEF NoVector, Vectors
<1>18. CASE ForgetLock \/ Restarts
  <2>1. CASE ForgetLock
    <3>1. split' \in BOOLEAN
      BY <2>1, Zenon DEF ForgetLock
    <3> QED
      BY <1>a, <2>1, <3>1 DEF ForgetLock
  <2>2. CASE Restarts
    BY <1>a, <1>17, <2>2 DEF Restarts
  <2> QED
    BY <1>18, <2>1, <2>2
<1>19. CASE ReadLikes \/ PutCache \/ VectorExpires
  <2>1. vector' \in Vectors
    <3>1. CASE ReadLikes
      <4>1. Newest(Likes) \subseteq Rows
        BY <1>14 DEF Newest
      <4> QED
        BY <1>a, <3>1, <4>1 DEF ReadLikes, Vectors
    <3>2. CASE PutCache
      BY <1>a, <3>2 DEF PutCache, Vectors
    <3> QED
      BY <1>13, <1>19, <3>1, <3>2 DEF VectorExpires
  <2> QED
    BY <1>a, <1>19, <2>1 DEF ReadLikes, PutCache, VectorExpires
<1> QED
  BY <1>1, <1>2, <1>3, <1>4, <1>5, <1>6, <1>8, <1>10, <1>11, <1>12, <1>15, <1>16, <1>18, <1>19, Zenon
     DEF TasteNext, EventsNext, VectorNext, TasteStep, SongMoves

LEMMA TasteBaseStep == TasteBase /\ [TasteNext]_tasteVars => TasteBase'
<1> SUFFICES ASSUME TasteBase, [TasteNext]_tasteVars
             PROVE  TasteBase'
  OBVIOUS
<1>1. TasksWell /\ RowsWell
  <2>1. CASE UNCHANGED tasteVars
    BY <2>1, RowsUnchanged, TasksUnchanged DEF tasteVars, trackVars, RowsWell, TasksWell
  <2> QED
    BY <2>1, TasksAndRowsKeep
<1>2. PlainTypes'
  <2>1. CASE UNCHANGED tasteVars
    BY <2>1 DEF tasteVars, trackVars, lockVars, bookVars, PlainTypes, TasteBase, TasteTypeOK
  <2> QED
    BY <2>1, PlainTypesKeep
<1> QED
  BY <1>1, <1>2 DEF TasksWell, RowsWell, TasteBase, TasteTypeOK, PlainTypes

-----------------------------------------------------------------------------
(* The cached vector. *)
LEMMA LikesGrow ==
    ASSUME RowsKept
    PROVE  Likes \subseteq Likes' /\ \A e \in Written : Positive(e)' = Positive(e)
BY DEF RowsKept, Likes, Positive

(* What comes later leaves fewer of the earlier among the newest. *)
LEMMA NewestShrinks ==
    ASSUME NEW S, NEW T, S \subseteq T, T \subseteq Rows
    PROVE  (S \cap Newest(T)) \subseteq Newest(S)
<1> SUFFICES ASSUME NEW e \in S, e \in Newest(T)
             PROVE  e \in Newest(S)
  OBVIOUS
<1> DEFINE A == {d \in S : d > e}
           B == {d \in T : d > e}
<1>1. IsFiniteSet(Rows)
  BY TasteAssumption, FS_Interval DEF Rows
<1>2. A \subseteq B /\ B \subseteq Rows
  OBVIOUS
<1>3. IsFiniteSet(B)
  BY <1>1, <1>2, FS_Subset
<1>4. Cardinality(A) <= Cardinality(B) /\ IsFiniteSet(A)
  BY <1>2, <1>3, FS_Subset
<1>5. Cardinality(A) \in Nat /\ Cardinality(B) \in Nat /\ LikesLimit \in Nat
  BY <1>3, <1>4, FS_CardinalityType, TasteAssumption
<1>6. Cardinality(B) < LikesLimit
  BY DEF Newest
<1> HIDE DEF A, B
<1>7. Cardinality(A) < LikesLimit
  BY <1>4, <1>5, <1>6
<1> QED
  BY <1>7 DEF A, Newest

LEMMA VectorSteps ==
    ASSUME TasteNext
    PROVE  \/ UNCHANGED <<vector, settled>>
           \/ \E w \in Workers : Finish(w)
           \/ Restarts \/ ReadLikes \/ PutCache \/ VectorExpires
<1>1. ASSUME NEW w \in Workers, Record(w) \/ AddDislike(w) \/ EnsureLikes(w) \/ Consume(w)
      PROVE  UNCHANGED <<vector, settled>>
  BY <1>1 DEF Record, AddDislike, EnsureLikes, Consume, bookVars
<1>2. ASSUME NEW w \in Workers, LookLock(w) \/ MakeLock(w) \/ TakeLock(w) \/ Leaves(w)
      PROVE  UNCHANGED <<vector, settled>>
  BY <1>2 DEF LookLock, MakeLock, TakeLock, Leaves, bookVars
<1>3. ASSUME NEW w \in Workers, Insert(w) \/ Missing(w) \/ Seed(w)
      PROVE  UNCHANGED <<vector, settled>>
  BY <1>3, Zenon DEF Insert, Missing, Seed, bookVars
<1>4. ASSUME NEW w \in Workers, CheckDislike(w) \/ ReadTaste(w) \/ WriteTaste(w) \/ MarkApplied(w)
      PROVE  UNCHANGED <<vector, settled>>
  BY <1>4 DEF CheckDislike, ReadTaste, WriteTaste, MarkApplied, bookVars
<1>5. ASSUME NEW s \in Songs, SongMoves(s)
      PROVE  UNCHANGED <<vector, settled>>
  BY <1>5 DEF SongMoves, UndoDislike, EnsureQueued, TrackDiscovered, Upserts, Indexed, SetIndexedAt, bookVars
<1>6. ForgetLock => UNCHANGED <<vector, settled>>
  BY DEF ForgetLock, bookVars
<1> QED
  BY <1>1, <1>2, <1>3, <1>4, <1>5, <1>6, Zenon DEF TasteNext, EventsNext, VectorNext, TasteStep, SongMoves

LEMMA VectorInvStep == TasteBase /\ VectorInv /\ [TasteNext]_tasteVars => VectorInv'
<1> SUFFICES ASSUME TasteBase, VectorInv, [TasteNext]_tasteVars
             PROVE  VectorInv'
  OBVIOUS
<1>1. Likes \subseteq Likes'
  <2>1. CASE UNCHANGED tasteVars
    BY <2>1, RowsUnchanged, LikesGrow DEF tasteVars, RowsWell
  <2>2. CASE TasteNext
    BY <2>2, TasksAndRowsKeep, LikesGrow DEF RowsWell
  <2> QED
    BY <2>1, <2>2
<1>2. vector \in Vectors
  BY DEF TasteBase, TasteTypeOK
<1>9. (Likes \cap Newest(Likes)') \subseteq Newest(Likes)
  <2>1. Likes' \subseteq Rows
    BY DEF Likes, Written, Rows
  <2>2. (Likes \cap Newest(Likes')) \subseteq Newest(Likes)
    BY <1>1, <2>1, NewestShrinks
  <2> QED
    BY <2>2 DEF Newest
<1> HIDE DEF Newest
<1>3. CASE UNCHANGED <<vector, settled>>
  BY <1>1, <1>3, <1>9 DEF VectorInv
<1>4. ASSUME NEW w \in Workers, Finish(w)
      PROVE  VectorInv'
  <2>1. CASE task[w].role # "request"
    <3>1. vector' = vector /\ settled' = settled
      BY <1>4, <2>1 DEF Finish
    <3> QED
      BY <1>3, <3>1
  <2>2. CASE task[w].role = "request"
    <3>1. vector' = DropVector(task[w].row) /\ settled' = settled \cup ({task[w].row} \cap Likes)
      BY <1>4, <2>2 DEF Finish
    <3>2. CASE Positive(task[w].row)
      <4>1. vector' = Dropped
        BY <3>1, <3>2 DEF DropVector
      <4>2. vector'.cached = "nothing" /\ vector'.late = vector.reading /\ vector'.reading = vector.reading
        BY <1>2, <4>1 DEF Dropped, Vectors
      <4> QED
        BY <1>1, <3>1, <4>2 DEF VectorInv
    <3>3. CASE ~Positive(task[w].row)
      <4>1. vector' = vector /\ settled' = settled
        BY <3>1, <3>3 DEF DropVector, Likes
      <4> QED
        BY <1>3, <4>1
    <3> QED
      BY <3>2, <3>3
  <2> QED
    BY <2>1, <2>2
<1>5. CASE Restarts
  BY <1>1, <1>5 DEF Restarts, NoVector, VectorInv, bookVars
<1>6. CASE ReadLikes
  <2>1. vector'.cached = "nothing" /\ vector'.seen = Newest(Likes) /\ settled' = settled
    BY <1>2, <1>6 DEF ReadLikes, Vectors, bookVars
  <2> QED
    BY <1>1, <1>9, <2>1 DEF VectorInv
<1>7. CASE PutCache
  <2>1. /\ ~vector'.reading /\ vector'.likes = vector.seen /\ vector'.late = vector.late
        /\ settled' = settled /\ vector.reading
    BY <1>2, <1>7 DEF PutCache, Vectors, bookVars
  <2> QED
    BY <1>1, <1>9, <2>1 DEF VectorInv
<1>8. CASE VectorExpires
  <2>1. /\ vector'.cached = "nothing" /\ vector'.late = vector.reading
        /\ vector'.reading = vector.reading /\ settled' = settled
    BY <1>2, <1>8 DEF VectorExpires, Dropped, Vectors, bookVars
  <2> QED
    BY <1>1, <2>1 DEF VectorInv
<1> QED
  BY <1>3, <1>4, <1>5, <1>6, <1>7, <1>8, VectorSteps DEF tasteVars, bookVars

(* What is cached was computed from every like whose request was answered   *)
(* and that is among the newest MAX_LIKES, unless its reader was overtaken *)
(* by an answer: CollabVectorService drops the vector at the end of every  *)
(* request that recorded a like, whether the like counted or not.  (A      *)
(* vector that could not be computed is cached as "none", from the same    *)
(* likes.)                                                                 *)
THEOREM AnsweredLikesShow == TasteSpec => []VectorFresh
<1>1. TasteInit => VectorInv
  BY DEF TasteInit, VectorInv, NoVector
<1>2. TasteBase /\ VectorInv => VectorFresh
  BY DEF VectorInv, VectorFresh
<1> QED
  BY TasteBaseInitially, TasteBaseStep, VectorInvStep, <1>1, <1>2, PTL DEF TasteSpec

THEOREM TasteTyped == TasteSpec => []TasteTypeOK
<1>1. TasteBase => TasteTypeOK
  BY DEF TasteBase
<1> QED
  BY TasteBaseInitially, TasteBaseStep, <1>1, PTL DEF TasteSpec

-----------------------------------------------------------------------------
(* Likes that are in nobody's hand. *)
LEMMA UpsetsCount ==
    ASSUME TasteBase, TasteNext
    PROVE  upsets' = 0 => upsets = 0
<1> USE DEF Fine, Upset
<1>1. upsets \in Nat
  BY DEF TasteBase, TasteTypeOK
<1>2. ASSUME NEW w \in Workers, Record(w) \/ AddDislike(w) \/ EnsureLikes(w) \/ Consume(w)
      PROVE  upsets' = 0 => upsets = 0
  BY <1>2 DEF Record, AddDislike, EnsureLikes, Consume
<1>3. ASSUME NEW w \in Workers, LookLock(w) \/ MakeLock(w) \/ TakeLock(w) \/ Leaves(w) \/ Finish(w)
      PROVE  upsets' = 0 => upsets = 0
  BY <1>1, <1>3 DEF LookLock, MakeLock, TakeLock, Leaves, Finish
<1>4. ASSUME NEW w \in Workers, Insert(w) \/ Missing(w) \/ Seed(w)
      PROVE  upsets' = 0 => upsets = 0
  <2>1. upsets' = upsets
    BY <1>4, Zenon DEF Insert, Missing, Seed
  <2> QED
    BY <2>1
<1>5. ASSUME NEW w \in Workers, CheckDislike(w) \/ ReadTaste(w) \/ WriteTaste(w) \/ MarkApplied(w)
      PROVE  upsets' = 0 => upsets = 0
  <2>1. upsets' = upsets \/ upsets' = upsets + 1
    <3>1. CASE CheckDislike(w)
      BY <3>1, Zenon DEF CheckDislike
    <3>2. CASE ReadTaste(w)
      BY <3>2, Zenon DEF ReadTaste
    <3>3. CASE WriteTaste(w)
      BY <3>3, Zenon DEF WriteTaste
    <3>4. CASE MarkApplied(w)
      BY <3>4, Zenon DEF MarkApplied
    <3> QED
      BY <1>5, <3>1, <3>2, <3>3, <3>4
  <2> QED
    BY <1>1, <2>1
<1>6. ASSUME NEW s \in Songs, SongMoves(s)
      PROVE  upsets' = 0 => upsets = 0
  BY <1>6 DEF SongMoves, UndoDislike, EnsureQueued, TrackDiscovered, Upserts, Indexed, SetIndexedAt
<1>7. ForgetLock \/ Restarts \/ ReadLikes \/ PutCache \/ VectorExpires => (upsets' = 0 => upsets = 0)
  BY <1>1 DEF ForgetLock, Restarts, ReadLikes, PutCache, VectorExpires
<1> QED
  BY <1>2, <1>3, <1>4, <1>5, <1>6, <1>7, Zenon DEF TasteNext, EventsNext, VectorNext, TasteStep, SongMoves

(* A task moves and lets go of nothing that would then wait for nothing. *)
LEMMA NothingForgotten ==
    ASSUME TasteBase, PendingLikesWait, upsets = 0, RowsKept, UNCHANGED <<listed, queued, done>>,
           wanting \subseteq wanting', NEW w \in Workers, NEW t, task' = [task EXCEPT ![w] = t],
           t.role = "done" => task[w].role = "done" /\ t.songs = task[w].songs,
           \A e \in Likes : e \in task[w].todo /\ e \notin t.todo
                => rows'[e].applied \/ (~Through(rows[e].song) /\ rows[e].song \in wanting'),
           \A e \in Likes' \ Likes : e \in t.todo
    PROVE  PendingLikesWait'
<1>1. task'[w] = t /\ \A g \in Workers : g # w => task'[g] = task[g]
  BY DEF TasteBase, TasteTypeOK
<1>2. SUFFICES ASSUME NEW e \in Likes'
               PROVE  rows'[e].applied \/ Held(e)' \/ Waits(rows[e].song)'
  BY DEF PendingLikesWait
<1>3. CASE e \notin Likes
  BY <1>1, <1>3 DEF Held
<1>4. CASE e \in Likes
  <2>1. rows'[e].song = rows[e].song /\ (rows[e].applied => rows'[e].applied)
    BY <1>4 DEF RowsKept, Likes
  <2>2. rows[e].applied \/ Held(e) \/ Waits(rows[e].song)
    BY <1>4 DEF PendingLikesWait
  <2>3. CASE Held(e)
    <3>1. CASE \E g \in Workers : g # w /\ e \in task[g].todo
      BY <1>1, <3>1 DEF Held
    <3>2. CASE e \in task[w].todo
      BY <1>1, <1>4, <2>1, <3>2 DEF Held, Waits, Through
    <3> QED
      BY <2>3, <3>1, <3>2 DEF Held
  <2>4. CASE Waits(rows[e].song)
    <3>1. Heralded(rows[e].song) => Heralded(rows[e].song)'
      BY <1>1, <2>1 DEF Heralded
    <3> QED
      BY <2>1, <2>4, <3>1 DEF Waits, Through
  <2> QED
    BY <2>1, <2>2, <2>3, <2>4
<1> QED
  BY <1>3, <1>4

(* No task moves, and what waits goes on waiting. *)
LEMMA NobodyMoves ==
    ASSUME TasteBase, PendingLikesWait, upsets = 0, rows' = rows, task' = task,
           \A s \in Songs : Waits(s) => Waits(s)'
    PROVE  PendingLikesWait'
<1>1. \A e \in Likes : rows[e].song \in Songs
  BY DEF Likes, TasteBase, RowsInOrder
<1>2. Likes' = Likes
  BY DEF Likes, Written, Positive
<1>3. ASSUME NEW e \in Likes'
      PROVE  rows'[e].applied \/ Held(e)' \/ Waits(rows[e].song)'
  <2>1. rows[e].applied \/ Held(e) \/ Waits(rows[e].song)
    BY <1>2, <1>3 DEF PendingLikesWait
  <2>2. ASSUME NEW s \in Songs, s = rows[e].song, Waits(s)
        PROVE  Waits(rows[e].song)'
    <3>1. Waits(s)' /\ rows'[e].song = s
      BY <2>2
    <3> QED
      BY <3>1 DEF Waits, Through, Heralded
  <2> QED
    BY <1>1, <1>2, <1>3, <2>1, <2>2 DEF Held
<1> QED
  BY <1>3 DEF PendingLikesWait

LEMMA SameLikes ==
    ASSUME RowsKept, Written' = Written
    PROVE  Likes' = Likes
BY DEF RowsKept, Likes, Positive

LEMMA ListedTrulyStep == TasteBase /\ ListedTruly /\ [TasteNext]_tasteVars => ListedTruly'
<1> SUFFICES ASSUME TasteBase, ListedTruly, [TasteNext]_tasteVars
             PROVE  ListedTruly'
  OBVIOUS
<1> USE DEF trackVars
<1>a. /\ vecs \in [Songs -> SUBSET Branches] /\ done \subseteq Songs
      /\ listed \in [Songs -> {"none", "new", "told", "indexed"}]
  BY DEF TasteBase, TasteTypeOK
<1>1. CASE UNCHANGED <<vecs, listed>> /\ done' \subseteq done
  BY <1>1 DEF ListedTruly, Through
<1>2. ASSUME NEW s \in Songs, Upserts(s)
      PROVE  ListedTruly'
  <2>1. PICK b \in Branches \ vecs[s] : vecs' = [vecs EXCEPT ![s] = @ \cup {b}]
    BY <1>2 DEF Upserts
  <2>2. UNCHANGED <<listed, done>> /\ ~Through(s)
    BY <1>2, <2>1 DEF Upserts, ListedTruly
  <2> QED
    BY <1>a, <2>1, <2>2 DEF ListedTruly, Through
<1>3. ASSUME NEW s \in Songs, Indexed(s)
      PROVE  ListedTruly'
  BY <1>a, <1>3 DEF Indexed, ListedTruly, Through
<1>10. ASSUME NEW s \in Songs, TrackDiscovered(s) \/ SetIndexedAt(s)
       PROVE  ListedTruly'
  BY <1>a, <1>10 DEF TrackDiscovered, SetIndexedAt, ListedTruly, Through
<1>4. ASSUME NEW w \in Workers, Record(w) \/ AddDislike(w) \/ EnsureLikes(w) \/ Consume(w)
      PROVE  UNCHANGED <<vecs, listed>> /\ done' \subseteq done
  BY <1>4 DEF Record, AddDislike, EnsureLikes, Consume
<1>5. ASSUME NEW w \in Workers, LookLock(w) \/ MakeLock(w) \/ TakeLock(w) \/ Leaves(w) \/ Finish(w)
      PROVE  UNCHANGED <<vecs, listed>> /\ done' \subseteq done
  BY <1>5 DEF LookLock, MakeLock, TakeLock, Leaves, Finish
<1>6. ASSUME NEW w \in Workers, Insert(w) \/ Missing(w) \/ Seed(w)
      PROVE  UNCHANGED <<vecs, listed>> /\ done' \subseteq done
  <2>1. UNCHANGED trackVars
    BY <1>6, Zenon DEF Insert, Missing, Seed
  <2> QED
    BY <2>1
<1>7. ASSUME NEW w \in Workers, CheckDislike(w) \/ ReadTaste(w) \/ WriteTaste(w) \/ MarkApplied(w)
      PROVE  UNCHANGED <<vecs, listed>> /\ done' \subseteq done
  BY <1>7 DEF CheckDislike, ReadTaste, WriteTaste, MarkApplied
<1>8. ASSUME \/ \E s \in Songs : UndoDislike(s) \/ EnsureQueued(s)
             \/ ForgetLock \/ Restarts \/ ReadLikes \/ PutCache \/ VectorExpires
      PROVE  UNCHANGED <<vecs, listed>> /\ done' \subseteq done
  BY <1>8 DEF UndoDislike, EnsureQueued, ForgetLock, Restarts, ReadLikes, PutCache, VectorExpires
<1>9. CASE UNCHANGED tasteVars
  BY <1>1, <1>9 DEF tasteVars
<1> QED
  BY <1>1, <1>2, <1>3, <1>4, <1>5, <1>6, <1>7, <1>8, <1>9, <1>10, Zenon
     DEF TasteNext, EventsNext, VectorNext, TasteStep

LEMMA PendingStep ==
    ASSUME TasteBase, LikesInv, TasteNext, upsets' = 0
    PROVE  PendingLikesWait'
<1> USE DEF trackVars
<1>a. upsets = 0 /\ PendingLikesWait /\ ListedTruly
  BY UpsetsCount DEF LikesInv, PendingLikesWait
<1>b. RowsKept
  BY TasksAndRowsKeep DEF RowsWell
<1>c. ASSUME rows' = rows
      PROVE  Likes' = Likes
  BY <1>c DEF Likes, Written, Positive
<1>1. ASSUME NEW w \in Workers, NEW s, NEW k, Request(w, s, k), UNCHANGED <<rows, listed, wanting, queued, done>>
      PROVE  PendingLikesWait'
  <2> DEFINE t == [NoTask EXCEPT !.role = "request", !.songs = {s}, !.kind = k, !.pc = "look"]
  <2>1. task' = [task EXCEPT ![w] = t] /\ task[w].todo = {}
    BY <1>1 DEF Request, Goes, NoTask
  <2>2. t.role = "request"
    BY DEF NoTask
  <2> HIDE DEF t
  <2> QED
    BY <1>a, <1>b, <1>c, <1>1, <2>1, <2>2, NothingForgotten
<1>2. ASSUME NEW w \in Workers, Record(w) \/ AddDislike(w)
      PROVE  PendingLikesWait'
  <2>1. UNCHANGED <<rows, listed, wanting, queued, done>> /\ \E s, k : Request(w, s, k)
    BY <1>2 DEF Record, AddDislike
  <2> QED
    BY <1>1, <2>1
<1>3. ASSUME NEW w \in Workers, EnsureLikes(w)
      PROVE  PendingLikesWait'
  <2>1. PICK ss : task' = [task EXCEPT ![w] = [NoTask EXCEPT !.role = "seed", !.songs = ss, !.pc = "look"]]
    BY <1>3 DEF EnsureLikes, Goes
  <2> DEFINE t == [NoTask EXCEPT !.role = "seed", !.songs = ss, !.pc = "look"]
  <2>2. t.role = "seed" /\ task[w].todo = {} /\ UNCHANGED <<rows, listed, wanting, queued, done>>
    BY <1>3 DEF NoTask, EnsureLikes
  <2>3. task' = [task EXCEPT ![w] = t]
    BY <2>1
  <2> HIDE DEF t
  <2> QED
    BY <1>a, <1>b, <1>c, <2>2, <2>3, NothingForgotten
<1>4. ASSUME NEW w \in Workers, Consume(w)
      PROVE  PendingLikesWait'
  <2>1. /\ UNCHANGED <<rows, listed, wanting, queued>> /\ task[w] = NoTask
        /\ \A g \in Workers : task[g].role # "done"
    BY <1>4 DEF Consume
  <2>2. PICK s \in done :
          IF Pending(s) = {} THEN done' = done \ {s} /\ UNCHANGED task
          ELSE /\ Goes(w, [NoTask EXCEPT !.role = "done", !.songs = {s}, !.todo = Pending(s)], "look")
               /\ UNCHANGED done
    BY <1>4 DEF Consume
  <2>3. Likes' = Likes
    BY <1>c, <2>1
  <2>5. SUFFICES ASSUME NEW e \in Likes, ~rows[e].applied
                 PROVE  Held(e)' \/ (Heralded(rows[e].song) => Heralded(rows[e].song)')
    <3>1. ASSUME NEW e \in Likes, ~rows[e].applied
          PROVE  Held(e)' \/ Waits(rows[e].song)'
      <4>1. CASE Held(e) /\ ~Held(e)'
        <5>1. PICK g \in Workers : e \in task[g].todo
          BY <4>1 DEF Held
        <5>2. task[w].todo = {}
          BY <2>1 DEF NoTask
        <5>3. task'[g] = task[g]
          BY <2>2, <5>1, <5>2 DEF Goes, TasteBase, TasteTypeOK
        <5> QED
          BY <4>1, <5>1, <5>3 DEF Held
      <4>2. CASE ~Held(e) /\ ~Held(e)'
        <5>1. Waits(rows[e].song)
          BY <1>a, <3>1, <4>2 DEF PendingLikesWait
        <5>2. Heralded(rows[e].song) => Heralded(rows[e].song)'
          BY <2>5, <3>1, <4>2
        <5> QED
          BY <2>1, <5>1, <5>2 DEF Waits, Through
      <4> QED
        BY <4>1, <4>2
    <3> QED
      BY <2>1, <2>3, <3>1 DEF PendingLikesWait, Waits, Through, Heralded
  <2>7. rows[e].song = s => e \in Pending(s)
    BY <2>5 DEF Pending, Likes
  <2>8. CASE Pending(s) = {}
    BY <2>1, <2>2, <2>5, <2>7, <2>8 DEF Heralded
  <2>9. CASE Pending(s) # {}
    <3> DEFINE t == [NoTask EXCEPT !.role = "done", !.songs = {s}, !.todo = Pending(s), !.pc = "look"]
    <3>1. task' = [task EXCEPT ![w] = t] /\ done' = done
      BY <2>2, <2>9 DEF Goes
    <3>2. t.songs = {s} /\ t.todo = Pending(s) /\ task[w].todo = {}
      BY <2>1 DEF NoTask
    <3> HIDE DEF t
    <3>3. task'[w] = t /\ \A g \in Workers : g # w => task'[g] = task[g]
      BY <3>1 DEF TasteBase, TasteTypeOK
    <3> QED
      BY <2>1, <2>7, <3>1, <3>2, <3>3 DEF Held, Heralded
  <2> QED
    BY <2>8, <2>9
<1>5. ASSUME NEW w \in Workers, LookLock(w) \/ MakeLock(w) \/ TakeLock(w)
      PROVE  PendingLikesWait'
  <2>1. UNCHANGED <<rows, listed, wanting, queued, done>>
    BY <1>5 DEF LookLock, MakeLock, TakeLock
  <2>2. task[w] \in TasteTasks
    BY DEF TasteBase, TasteTypeOK
  <2>3. PICK l, pc : task' = [task EXCEPT ![w] = [task[w] EXCEPT !.lock = l, !.pc = pc]]
    <3>1. ASSUME NEW pc
          PROVE  [task[w] EXCEPT !.lock = task[w].lock, !.pc = pc] = [task[w] EXCEPT !.pc = pc]
      BY <2>2 DEF TasteTasks
    <3>2. CASE LookLock(w)
      <4>1. CASE userLock = 0
        <5>1. task' = [task EXCEPT ![w] = [task[w] EXCEPT !.pc = "make"]]
          BY <3>2, <4>1 DEF LookLock, Goes
        <5> QED
          BY <3>1, <5>1
      <4>2. CASE userLock # 0
        BY <3>2, <4>2 DEF LookLock, Goes
      <4> QED
        BY <4>1, <4>2
    <3>3. CASE MakeLock(w)
      BY <3>3 DEF MakeLock, Goes
    <3>4. CASE TakeLock(w)
      BY <3>1, <3>4 DEF TakeLock, Goes
    <3> QED
      BY <1>5, <3>2, <3>3, <3>4
  <2> DEFINE t == [task[w] EXCEPT !.lock = l, !.pc = pc]
  <2>4. t.role = task[w].role /\ t.songs = task[w].songs /\ t.todo = task[w].todo
    BY <2>2 DEF TasteTasks
  <2>5. task' = [task EXCEPT ![w] = t]
    BY <2>3
  <2> HIDE DEF t
  <2> QED
    BY <1>a, <1>b, <1>c, <2>1, <2>4, <2>5, NothingForgotten
<1>6. ASSUME NEW w \in Workers, Insert(w)
      PROVE  PendingLikesWait'
  <2> DEFINE t == [task[w] EXCEPT !.todo = {NextRow}, !.row = NextRow, !.songs = {}, !.kind = "none", !.pc = "check"]
  <2>1. Written' = Written \cup {NextRow}
    BY <1>6, RowInserted
  <2>2. task' = [task EXCEPT ![w] = t] /\ UNCHANGED <<listed, wanting, queued, done>>
    BY <1>6 DEF Insert, Goes
  <2>3. task[w] \in TasteTasks /\ task[w].role = "request" /\ task[w].todo = {}
    BY <1>6 DEF TasteBase, TasteTypeOK, TaskInOrder, Insert, Holding, Handling
  <2>4. t.role = "request" /\ t.todo = {NextRow}
    BY <2>3 DEF TasteTasks
  <2>5. \A e \in Likes' \ Likes : e \in {NextRow}
    BY <1>b, <2>1 DEF Likes, Positive, RowsKept
  <2> HIDE DEF t
  <2> QED
    BY <1>a, <1>b, <2>2, <2>3, <2>4, <2>5, NothingForgotten
<1>7. ASSUME NEW w \in Workers, Seed(w)
      PROVE  PendingLikesWait'
  <2>1. PICK new \in SUBSET Rows :
          /\ Written' = Written \cup new
          /\ task' = [task EXCEPT ![w] = [task[w] EXCEPT !.todo = new, !.songs = {}, !.pc = "check"]]
    BY <1>7, RowsSeeded
  <2> DEFINE t == [task[w] EXCEPT !.todo = new, !.songs = {}, !.pc = "check"]
  <2>2. UNCHANGED <<listed, wanting, queued, done>>
    BY <1>7, Zenon DEF Seed
  <2>3. task[w] \in TasteTasks /\ task[w].role = "seed" /\ task[w].todo = {}
    <3>1. task[w].pc = "seed"
      BY <1>7 DEF Seed
    <3> QED
      BY <3>1 DEF TasteBase, TasteTypeOK, TaskInOrder, Holding, Handling
  <2>4. t.role = "seed" /\ t.todo = new
    BY <2>3 DEF TasteTasks
  <2>5. \A e \in Likes' \ Likes : e \in new
    BY <1>b, <2>1 DEF Likes, Positive, RowsKept
  <2>6. task' = [task EXCEPT ![w] = t]
    BY <2>1
  <2> HIDE DEF t
  <2> QED
    BY <1>a, <1>b, <2>2, <2>3, <2>4, <2>5, <2>6, NothingForgotten
<1>8. ASSUME NEW w \in Workers, task' = [task EXCEPT ![w] = NoTask], task[w].todo = {},
             UNCHANGED <<rows, listed, wanting, queued, done>>
      PROVE  PendingLikesWait'
  BY <1>a, <1>b, <1>c, <1>8, NothingForgotten DEF NoTask
<1>9. ASSUME NEW w \in Workers, Missing(w)
      PROVE  PendingLikesWait'
  <2>1. UNCHANGED <<rows, listed, wanting, queued, done>>
    BY <1>9 DEF Missing
  <2>2. task[w] \in TasteTasks /\ task[w].todo = {}
    BY <1>9 DEF TasteBase, TasteTypeOK, TaskInOrder, Missing, Holding, Handling
  <2>3. CASE task' = [task EXCEPT ![w] = NoTask]
    BY <1>8, <2>1, <2>2, <2>3
  <2>4. CASE Goes(w, [task[w] EXCEPT !.songs = task[w].songs \ LikedSongs], "seed")
    <3> DEFINE t == [task[w] EXCEPT !.songs = task[w].songs \ LikedSongs, !.pc = "seed"]
    <3>1. task' = [task EXCEPT ![w] = t]
      BY <2>4 DEF Goes
    <3>2. t.role = "seed"
      BY <1>9, <2>2 DEF TasteTasks, TasteBase, TaskInOrder, Missing
    <3> HIDE DEF t
    <3> QED
      BY <1>a, <1>b, <1>c, <2>1, <2>2, <3>1, <3>2, NothingForgotten
  <2> QED
    BY <1>9, <2>3, <2>4 DEF Missing
<1>10. ASSUME NEW w \in Workers, task[w].pc \in Handling
       PROVE  /\ task[w] \in TasteTasks /\ Current(w) \in task[w].todo /\ Current(w) \in Written
              /\ rows[Current(w)].song \in Songs /\ task[w].role \in {"request", "seed", "done"}
              /\ task[w].role = "done" => rows[Current(w)].song \in done
  <2>1. task[w].todo # {} /\ task[w] \in TasteTasks /\ TaskInOrder(w)
    BY <1>10 DEF TasteBase, TasteTypeOK, TaskInOrder
  <2>2. task[w] # NoTask
    BY <1>10 DEF NoTask, Handling
  <2>3. Current(w) \in task[w].todo /\ Current(w) \in Written
    BY <2>1, CurrentInHand
  <2>4. task[w].role \in {"request", "seed", "done"}
    BY <2>1, <2>2 DEF TaskInOrder, TasteTasks
  <2> QED
    BY <2>1, <2>3, <2>4 DEF TaskInOrder, TasteBase, RowsInOrder
(* A step that leaves what is in hand as it is. *)
<1>11. ASSUME NEW w \in Workers, NEW t, task' = [task EXCEPT ![w] = t], UNCHANGED <<rows, listed, wanting, queued, done>>,
              t.role = task[w].role, t.songs = task[w].songs, t.todo = task[w].todo
       PROVE  PendingLikesWait'
  BY <1>a, <1>b, <1>c, <1>11, NothingForgotten
<1>12. ASSUME NEW w \in Workers, NEW pc, Goes(w, task[w], pc), UNCHANGED <<rows, listed, wanting, queued, done>>
       PROVE  PendingLikesWait'
  <2> DEFINE t == [task[w] EXCEPT !.pc = pc]
  <2>1. task' = [task EXCEPT ![w] = t] /\ task[w] \in TasteTasks
    BY <1>12 DEF Goes, TasteBase, TasteTypeOK
  <2>2. t.role = task[w].role /\ t.songs = task[w].songs /\ t.todo = task[w].todo
    BY <2>1 DEF TasteTasks
  <2> HIDE DEF t
  <2> QED
    BY <1>11, <1>12, <2>1, <2>2
<1>13. ASSUME NEW w \in Workers, task[w].pc \in Handling, NextEvent(w, Current(w)), Likes' = Likes,
              UNCHANGED <<listed, queued, done>>, wanting \subseteq wanting',
              \/ rows'[Current(w)].applied
              \/ ~Through(rows[Current(w)].song) /\ rows[Current(w)].song \in wanting'
       PROVE  PendingLikesWait'
  <2> DEFINE e == Current(w)
             t == [Cleared(task[w], e) EXCEPT !.pc = IF task[w].todo = {e} THEN "after" ELSE "check"]
  <2>1. task' = [task EXCEPT ![w] = t]
    BY <1>13 DEF NextEvent, Goes
  <2>2. t.role = task[w].role /\ t.songs = task[w].songs /\ t.todo = task[w].todo \ {e}
    BY <1>10, <1>13 DEF Cleared, TasteTasks
  <2>3. \A d \in Likes : d \in task[w].todo /\ d \notin t.todo
               => rows'[d].applied \/ (~Through(rows[d].song) /\ rows[d].song \in wanting')
    BY <1>13, <2>2
  <2> HIDE DEF t, e
  <2> QED
    BY <1>a, <1>b, <1>13, <2>1, <2>2, <2>3, NothingForgotten
<1>14. ASSUME NEW w \in Workers, CheckDislike(w)
       PROVE  PendingLikesWait'
  <2>1. UNCHANGED <<rows, listed, wanting, queued, done>> /\ \E pc : Goes(w, task[w], pc)
    BY <1>14 DEF CheckDislike
  <2> QED
    BY <1>12, <2>1
<1>15. ASSUME NEW w \in Workers, ReadTaste(w)
       PROVE  PendingLikesWait'
  <2> DEFINE s == rows[Current(w)].song
  <2>1. UNCHANGED <<rows, listed, queued, done>> /\ task[w].pc \in Handling
    BY <1>15 DEF ReadTaste, Handling
  <2>2. PICK reach \in SUBSET vecs[s] :
          /\ IF reach = vecs[s] THEN Fine ELSE Upset
          /\ IF reach = {} THEN NotYet(w, Current(w))
             ELSE Goes(w, [task[w] EXCEPT !.reach = reach, !.base = taste], "write") /\ UNCHANGED wanting
    BY <1>15 DEF ReadTaste
  <2>3. CASE reach = {}
    <3>1. reach = vecs[s]
      BY <1>a, <2>2 DEF Upset
    <3>2. ~Through(s) /\ s \notin done
      BY <1>a, <1>10, <2>1, <2>3, <3>1, TasteAssumption DEF ListedTruly
    <3>3. wanting' = wanting \cup {s}
      BY <1>10, <2>1, <2>2, <2>3, <3>2 DEF NotYet, AskIndex
    <3>4. NextEvent(w, Current(w))
      BY <2>2, <2>3 DEF NotYet
    <3> QED
      BY <1>a, <1>c, <1>13, <2>1, <3>2, <3>3, <3>4
  <2>4. CASE reach # {}
    <3> DEFINE t == [task[w] EXCEPT !.reach = reach, !.base = taste, !.pc = "write"]
    <3>1. task' = [task EXCEPT ![w] = t] /\ wanting' = wanting
      BY <2>2, <2>4 DEF Goes
    <3>2. t.role = task[w].role /\ t.songs = task[w].songs /\ t.todo = task[w].todo
      BY <1>10, <2>1 DEF TasteTasks
    <3> HIDE DEF t
    <3> QED
      BY <1>11, <2>1, <3>1, <3>2
  <2> QED
    BY <2>3, <2>4
<1>16. ASSUME NEW w \in Workers, WriteTaste(w)
       PROVE  PendingLikesWait'
  <2>1. UNCHANGED <<rows, listed, queued, done>> /\ task[w].reach # {}
    BY <1>16 DEF WriteTaste, TasteBase, TaskInOrder
  <2>2. Goes(w, task[w], "mark") /\ UNCHANGED wanting
    <3>1. PICK bs \in SUBSET task[w].reach :
            /\ IF bs = task[w].reach THEN Fine ELSE Upset
            /\ IF bs = {} THEN NotYet(w, Current(w)) ELSE Goes(w, task[w], "mark") /\ UNCHANGED wanting
      BY <1>16, Zenon DEF WriteTaste
    <3>2. bs = task[w].reach
      BY <1>a, <3>1 DEF Upset
    <3> QED
      BY <2>1, <3>1, <3>2
  <2> QED
    BY <1>12, <2>1, <2>2
<1>17. ASSUME NEW w \in Workers, MarkApplied(w)
       PROVE  PendingLikesWait'
  <2>1. UNCHANGED <<listed, queued, done>> /\ task[w].pc \in Handling
    BY <1>17 DEF MarkApplied, Handling
  <2>2. /\ rows' = [rows EXCEPT ![Current(w)].applied = TRUE]
        /\ NextEvent(w, Current(w)) /\ wanting' = wanting
    BY <1>a, <1>17 DEF MarkApplied, Upset
  <2>3. Current(w) \in Written /\ rows \in [Rows -> EventRows] /\ Current(w) \in Rows
    BY <1>10, <2>1 DEF TasteBase, TasteTypeOK, Written
  <2>4. Likes' = Likes
    BY <1>b, <2>2, <2>3, RowMarked, SameLikes
  <2>5. rows'[Current(w)].applied
    BY <2>2, <2>3 DEF EventRows
  <2> QED
    BY <1>a, <1>13, <2>1, <2>2, <2>4, <2>5
<1>18. ASSUME NEW w \in Workers, Finish(w)
       PROVE  PendingLikesWait'
  <2>1. /\ UNCHANGED <<rows, listed, wanting, queued>> /\ task' = [task EXCEPT ![w] = NoTask]
        /\ done' = IF task[w].role = "done" THEN done \ task[w].songs ELSE done
    BY <1>18 DEF Finish
  <2>2. task[w].todo = {}
    BY <1>18 DEF Finish, TasteBase, TaskInOrder, Holding, Handling
  <2>3. CASE task[w].role # "done"
    BY <1>8, <2>1, <2>2, <2>3
  <2>4. CASE task[w].role = "done"
    <3>1. task'[w] = NoTask /\ \A g \in Workers : g # w => task'[g] = task[g]
      BY <2>1 DEF TasteBase, TasteTypeOK
    <3>2. ASSUME NEW e \in Likes, ~rows[e].applied
          PROVE  Held(e)' \/ Waits(rows[e].song)'
      <4>1. Held(e) \/ Waits(rows[e].song)
        BY <1>a, <3>2 DEF PendingLikesWait
      <4>2. Held(e) => Held(e)'
        BY <2>2, <3>1 DEF Held
      <4>3. Heralded(rows[e].song) => Heralded(rows[e].song)'
        BY <2>1, <2>4, <3>1 DEF Heralded, NoTask
      <4> QED
        BY <2>1, <4>1, <4>2, <4>3 DEF Waits, Through
    <3> QED
      BY <1>c, <2>1, <3>2 DEF PendingLikesWait, Waits, Through, Heralded
  <2> QED
    BY <2>3, <2>4
<1>19. ASSUME Restarts \/ \E w \in Workers : Leaves(w)
       PROVE  PendingLikesWait'
  <2>1. upsets' = upsets + 1
    BY <1>19 DEF Restarts, Leaves, Upset
  <2> QED
    BY <1>a, <2>1
<1>d. /\ listed \in [Songs -> {"none", "new", "told", "indexed"}] /\ done \subseteq Songs
      /\ \A w \in Workers : task[w].role = "done" => task[w].songs \subseteq done
  BY DEF TasteBase, TasteTypeOK, TaskInOrder
<1>20. ASSUME \/ \E s \in Songs : UndoDislike(s) \/ Upserts(s)
              \/ ForgetLock \/ ReadLikes \/ PutCache \/ VectorExpires
       PROVE  PendingLikesWait'
  <2>1. UNCHANGED <<rows, task, listed, wanting, queued, done>>
    BY <1>20 DEF UndoDislike, Upserts, ForgetLock, ReadLikes, PutCache, VectorExpires
  <2>2. \A s \in Songs : Waits(s) => Waits(s)'
    BY <2>1 DEF Waits, Through, Heralded
  <2> QED
    BY <1>a, <2>1, <2>2, NobodyMoves
<1>21. ASSUME NEW s \in Songs, EnsureQueued(s) \/ TrackDiscovered(s) \/ SetIndexedAt(s)
       PROVE  PendingLikesWait'
  <2>1. UNCHANGED <<rows, task, done>>
    BY <1>21 DEF EnsureQueued, TrackDiscovered, SetIndexedAt
  <2>2. CASE EnsureQueued(s)
    <3>1. /\ listed' = listed /\ wanting' = wanting \ {s} /\ queued \subseteq queued'
          /\ listed[s] = "new" => s \in queued'
      BY <2>2 DEF EnsureQueued
    <3>2. \A u \in Songs : Waits(u) => Waits(u)'
      BY <1>d, <2>1, <3>1 DEF Waits, Through, Heralded
    <3> QED
      BY <1>a, <2>1, <3>2, NobodyMoves
  <2>3. CASE TrackDiscovered(s)
    <3>1. wanting' = wanting /\ queued' = queued \cup {s} /\ listed' = [listed EXCEPT ![s] = "new"]
          /\ listed[s] = "none"
      BY <2>3 DEF TrackDiscovered
    <3>2. \A u \in Songs : Waits(u) => Waits(u)'
      BY <1>d, <2>1, <3>1 DEF Waits, Through, Heralded
    <3> QED
      BY <1>a, <2>1, <3>2, NobodyMoves
  <2>4. CASE SetIndexedAt(s)
    <3>1. UNCHANGED <<wanting, queued>> /\ listed[s] = "told" /\ listed' = [listed EXCEPT ![s] = "indexed"]
      BY <2>4 DEF SetIndexedAt
    <3>2. \A u \in Songs : Waits(u) => Waits(u)'
      BY <1>d, <2>1, <3>1 DEF Waits, Through, Heralded
    <3> QED
      BY <1>a, <2>1, <3>2, NobodyMoves
  <2> QED
    BY <1>21, <2>2, <2>3, <2>4
<1>22. ASSUME NEW s \in Songs, Indexed(s)
       PROVE  PendingLikesWait'
  <2>1. /\ rows' = rows /\ task' = task /\ wanting' = wanting
        /\ queued' = queued \ {s} /\ done' = done \cup {s}
        /\ listed' = [listed EXCEPT ![s] = IF @ = "indexed" THEN @ ELSE "told"]
    BY <1>22 DEF Indexed
  <2>2. ASSUME NEW u \in Songs, Waits(u)
        PROVE  Waits(u)'
    <3>1. CASE u # s
      BY <1>d, <2>1, <2>2, <3>1 DEF Waits, Through, Heralded
    <3>2. CASE u = s /\ Through(s)
      BY <1>d, <2>1, <2>2, <3>2 DEF Waits, Through, Heralded
    <3>3. CASE u = s /\ ~Through(s)
      <4>1. s \notin done
        BY <1>a, <3>3 DEF ListedTruly
      <4>2. \A w \in Workers : task[w].role = "done" => s \notin task[w].songs
        BY <1>d, <4>1
      <4>3. Heralded(s)' /\ Through(s)'
        BY <1>d, <2>1, <4>2 DEF Heralded, Through
      <4> QED
        BY <3>3, <4>3 DEF Waits, Through, Heralded
    <3> QED
      BY <3>1, <3>2, <3>3
  <2> QED
    BY <1>a, <2>1, <2>2, NobodyMoves
<1> QED
  BY <1>2, <1>3, <1>4, <1>5, <1>6, <1>7, <1>9, <1>14, <1>15, <1>16, <1>17, <1>18, <1>19, <1>20, <1>21, <1>22, Zenon
     DEF TasteNext, EventsNext, VectorNext, TasteStep, SongMoves

LEMMA LikesInvStep == TasteBase /\ LikesInv /\ [TasteNext]_tasteVars => LikesInv'
<1> SUFFICES ASSUME TasteBase, LikesInv, [TasteNext]_tasteVars
             PROVE  LikesInv'
  OBVIOUS
<1>1. ListedTruly'
  BY ListedTrulyStep DEF LikesInv
<1>2. SUFFICES ASSUME upsets' = 0
               PROVE  PendingLikesWait'
  BY <1>1 DEF LikesInv, PendingLikesWait
<1>3. CASE UNCHANGED tasteVars
  <2>1. UNCHANGED <<rows, task, listed, wanting, queued, done, upsets>>
    BY <1>3 DEF tasteVars
  <2>2. \A s \in Songs : Waits(s) => Waits(s)'
    BY <2>1 DEF Waits, Through, Heralded
  <2> QED
    BY <1>2, <2>1, <2>2, NobodyMoves DEF LikesInv
<1> QED
  BY <1>2, <1>3, PendingStep

(* Once nothing is under way no like waits for its track to be indexed, if *)
(* the track is in indexed_tracks: the request that could not count it has *)
(* asked for the track; that request is dropped only for a track that is   *)
(* not listed or is already indexed, and a like that found no vectors is   *)
(* older than the report of them, which then finds it.                     *)
THEOREM LikesGetApplied == TasteSpec => []LikesApplied
<1>1. TasteInit => LikesInv
  <2> SUFFICES ASSUME TasteInit
               PROVE  LikesInv
    OBVIOUS
  <2>1. Likes = {}
    BY DEF TasteInit, Likes, Written
  <2> QED
    BY <2>1 DEF TasteInit, LikesInv, ListedTruly, Through, PendingLikesWait
<1>2. TasteBase /\ LikesInv => LikesApplied
  <2>1. ASSUME LikesInv, AtRest, upsets = 0, NEW e \in Likes, listed[rows[e].song] # "none"
        PROVE  rows[e].applied
    <3>1. ~Held(e)
      BY <2>1 DEF AtRest, Held, NoTask
    <3>2. ~Waits(rows[e].song)
      BY <2>1 DEF AtRest, Waits, Heralded
    <3> QED
      BY <2>1, <3>1, <3>2 DEF LikesInv, PendingLikesWait
  <2> QED
    BY <2>1 DEF LikesApplied
<1> QED
  BY TasteBaseInitially, TasteBaseStep, LikesInvStep, <1>1, <1>2, PTL DEF TasteSpec

-----------------------------------------------------------------------------
(* What the steps of a task do to the task. *)
Starts(w) ==
  /\ UNCHANGED <<rows, taste, lockVars, spurned, upsets>>
  /\ \/ task' = task /\ relisted' = relisted
     \/ \E t : /\ task' = [task EXCEPT ![w] = t] /\ task[w] = NoTask
               /\ t.pc = "look" /\ t.lock = 0
               /\ relisted' = relisted \cup (t.todo \cap InHand)
               /\ \A e \in t.todo : ~rows[e].applied
Locks(w) ==
  /\ UNCHANGED <<rows, taste, relisted, spurned, upsets>> /\ task[w].pc \in Asking
  /\ split => split'
  /\ \E t : /\ task' = [task EXCEPT ![w] = t] /\ t.todo = task[w].todo
            /\ t.pc \in {"make", "wait", "insert", "missing", "check"}
TakesRows(w) ==
  /\ UNCHANGED <<taste, lockVars, relisted, spurned, upsets>> /\ Holds(w)
  /\ task[w].pc \notin {"mark", "write"} /\ \A e \in Written : rows'[e] = rows[e]
  /\ \E t : /\ task' = [task EXCEPT ![w] = t]
            /\ t = NoTask \/ (t.pc \in {"check", "seed"} /\ t.lock = task[w].lock)
            /\ t.todo \cap Written = {} /\ t.todo \subseteq Written'
Reads(w) ==
  /\ UNCHANGED <<rows, taste, lockVars, relisted, spurned>> /\ task[w].pc = "read"
  /\ \E t : /\ task' = [task EXCEPT ![w] = t] /\ t.lock = task[w].lock
            /\ t.todo \subseteq task[w].todo
            /\ t.pc \in {"after", "check"} \/ (t.pc = "write" /\ t.base = taste)
Checks(w) ==
  /\ UNCHANGED <<rows, taste, lockVars, relisted>> /\ task[w].pc = "check"
  /\ \E t : /\ task' = [task EXCEPT ![w] = t] /\ t.lock = task[w].lock /\ t.todo = task[w].todo
            /\ \/ t.pc = "read" /\ spurned' = spurned
               \/ t.pc = "mark" /\ ~Positive(Current(w)) /\ spurned' = spurned
               \/ t.pc = "mark" /\ spurned' = spurned \cup {Current(w)}
Writes(w) ==
  /\ UNCHANGED <<rows, lockVars, relisted, spurned>> /\ task[w].pc = "write"
  /\ \E t : \E bs \in SUBSET task[w].reach :
       /\ task' = [task EXCEPT ![w] = t] /\ t.lock = task[w].lock
       /\ taste' = [b \in Branches |->
                      IF b \in bs THEN [task[w].base[b] EXCEPT ![Current(w)] = (IF @ < 2 THEN @ + 1 ELSE @)]
                      ELSE taste[b]]
       /\ \/ bs = {} /\ t.pc \in {"after", "check"} /\ t.todo \subseteq task[w].todo
          \/ bs # {} /\ t.pc = "mark" /\ t.todo = task[w].todo
Marks(w) ==
  /\ UNCHANGED <<taste, lockVars, relisted, spurned>> /\ task[w].pc = "mark"
  /\ \E t : /\ task' = [task EXCEPT ![w] = t]
            /\ \/ t = NoTask
               \/ t.pc \in {"after", "check"} /\ t.lock = task[w].lock /\ t.todo = task[w].todo \ {Current(w)}
            /\ \/ rows' = rows /\ upsets' = upsets + 1
               \/ rows' = [rows EXCEPT ![Current(w)].applied = TRUE] /\ t # NoTask
Stops(w) ==
  /\ UNCHANGED <<rows, taste, lockVars, relisted, spurned>>
  /\ task' = [task EXCEPT ![w] = NoTask]
  /\ task[w].pc = "after" \/ upsets' = upsets + 1
Elsewhere ==
  /\ UNCHANGED <<rows, taste, task, relisted, spurned, upsets>>
  /\ \/ UNCHANGED lockVars
     \/ ForgetLock

LEMMA StartsShape ==
    ASSUME TasteBase, NEW w \in Workers, Record(w) \/ AddDislike(w) \/ EnsureLikes(w) \/ Consume(w)
    PROVE  Starts(w)
<1> USE DEF Starts
<1>1. ASSUME NEW t, task' = [task EXCEPT ![w] = t], task[w] = NoTask, t.pc = "look", t.lock = 0,
             t.todo = {}, relisted' = relisted
      PROVE  \E u : /\ task' = [task EXCEPT ![w] = u] /\ task[w] = NoTask
                    /\ u.pc = "look" /\ u.lock = 0
                    /\ relisted' = relisted \cup (u.todo \cap InHand)
                    /\ \A e \in u.todo : ~rows[e].applied
  BY <1>1
<1>2. ASSUME NEW s, NEW k, Request(w, s, k), UNCHANGED bookVars
      PROVE  \E u : /\ task' = [task EXCEPT ![w] = u] /\ task[w] = NoTask
                    /\ u.pc = "look" /\ u.lock = 0
                    /\ relisted' = relisted \cup (u.todo \cap InHand)
                    /\ \A e \in u.todo : ~rows[e].applied
  <2> DEFINE t == [NoTask EXCEPT !.role = "request", !.songs = {s}, !.kind = k, !.pc = "look"]
  <2>1. task' = [task EXCEPT ![w] = t] /\ task[w] = NoTask /\ relisted' = relisted
    BY <1>2 DEF Request, Goes, bookVars
  <2>2. t.pc = "look" /\ t.lock = 0 /\ t.todo = {}
    BY DEF NoTask
  <2> HIDE DEF t
  <2> QED
    BY <1>1, <2>1, <2>2
<1>3. CASE Record(w) \/ AddDislike(w)
  <2>1. \E s, k : Request(w, s, k)
    BY <1>3 DEF Record, AddDislike
  <2>2. UNCHANGED <<rows, taste, lockVars, bookVars, upsets>>
    BY <1>3 DEF Record, AddDislike, Fine
  <2> QED
    BY <1>2, <2>1, <2>2 DEF bookVars
<1>4. CASE EnsureLikes(w)
  <2>1. PICK ss : task' = [task EXCEPT ![w] = [NoTask EXCEPT !.role = "seed", !.songs = ss, !.pc = "look"]]
    BY <1>4 DEF EnsureLikes, Goes
  <2> DEFINE t == [NoTask EXCEPT !.role = "seed", !.songs = ss, !.pc = "look"]
  <2>2. UNCHANGED <<rows, taste, lockVars, bookVars, upsets>> /\ task[w] = NoTask
    BY <1>4 DEF EnsureLikes, Fine
  <2>3. t.pc = "look" /\ t.lock = 0 /\ t.todo = {} /\ task' = [task EXCEPT ![w] = t]
    BY <2>1 DEF NoTask
  <2> HIDE DEF t
  <2> QED
    BY <1>1, <2>2, <2>3 DEF bookVars
<1>5. CASE Consume(w)
  <2>1. UNCHANGED <<rows, taste, lockVars, spurned, upsets>> /\ task[w] = NoTask
    BY <1>5 DEF Consume, Fine
  <2>2. PICK s \in done :
          IF Pending(s) = {} THEN UNCHANGED <<task, relisted>>
          ELSE /\ Goes(w, [NoTask EXCEPT !.role = "done", !.songs = {s}, !.todo = Pending(s)], "look")
               /\ relisted' = relisted \cup (Pending(s) \cap InHand)
    BY <1>5 DEF Consume
  <2>3. CASE Pending(s) = {}
    BY <2>1, <2>2, <2>3
  <2>4. CASE Pending(s) # {}
    <3> DEFINE t == [NoTask EXCEPT !.role = "done", !.songs = {s}, !.todo = Pending(s), !.pc = "look"]
    <3>1. task' = [task EXCEPT ![w] = t] /\ relisted' = relisted \cup (Pending(s) \cap InHand)
      BY <2>2, <2>4 DEF Goes
    <3>2. t.pc = "look" /\ t.lock = 0 /\ t.todo = Pending(s)
      BY DEF NoTask
    <3>3. \A e \in Pending(s) : ~rows[e].applied
      BY DEF Pending
    <3> HIDE DEF t
    <3> QED
      BY <2>1, <3>1, <3>2, <3>3
  <2> QED
    BY <2>3, <2>4
<1> QED
  BY <1>3, <1>4, <1>5

LEMMA NextEventShape ==
    ASSUME TasteBase, NEW w \in Workers, task[w].pc \in Handling, NextEvent(w, Current(w))
    PROVE  \E t : /\ task' = [task EXCEPT ![w] = t] /\ t.pc \in {"after", "check"}
                  /\ t.lock = task[w].lock /\ t.todo = task[w].todo \ {Current(w)}
<1> DEFINE e == Current(w)
           t == [Cleared(task[w], e) EXCEPT !.pc = IF task[w].todo = {e} THEN "after" ELSE "check"]
<1>1. task' = [task EXCEPT ![w] = t] /\ task[w] \in TasteTasks
  BY DEF NextEvent, Goes, TasteBase, TasteTypeOK
<1>2. t.pc \in {"after", "check"} /\ t.lock = task[w].lock /\ t.todo = task[w].todo \ {e}
  BY <1>1 DEF Cleared, TasteTasks
<1> HIDE DEF t
<1> QED
  BY <1>1, <1>2

LEMMA GoesShape ==
    ASSUME TasteBase, NEW w \in Workers, NEW pc, Goes(w, task[w], pc)
    PROVE  \E t : /\ task' = [task EXCEPT ![w] = t] /\ t.pc = pc /\ t.lock = task[w].lock
                  /\ t.todo = task[w].todo
<1> DEFINE t == [task[w] EXCEPT !.pc = pc]
<1>1. task' = [task EXCEPT ![w] = t] /\ task[w] \in TasteTasks
  BY DEF Goes, TasteBase, TasteTypeOK
<1>2. t.pc = pc /\ t.lock = task[w].lock /\ t.todo = task[w].todo
  BY <1>1 DEF TasteTasks
<1> HIDE DEF t
<1> QED
  BY <1>1, <1>2

LEMMA RowStepsShape ==
    ASSUME TasteBase, NEW w \in Workers, Insert(w) \/ Missing(w) \/ Seed(w)
    PROVE  TakesRows(w)
<1> USE DEF TakesRows
<1>1. task[w] \in TasteTasks /\ TaskInOrder(w)
  BY DEF TasteBase, TasteTypeOK
<1>2. UNCHANGED <<taste, lockVars, relisted, spurned, upsets>>
  <2>1. UNCHANGED <<taste, lockVars, bookVars, upsets>>
    BY Zenon DEF Insert, Missing, Seed, Fine
  <2> QED
    BY <2>1 DEF bookVars
<1>3. task[w].pc = "insert" \/ task[w].pc = "missing" \/ task[w].pc = "seed"
  BY Zenon DEF Insert, Missing, Seed
<1>4. Holds(w) /\ task[w].todo = {} /\ task[w].pc \notin {"mark", "write"}
  BY <1>1, <1>3 DEF Holds, Holding, Handling, TaskInOrder
<1>5. CASE Insert(w)
  <2> DEFINE t == [task[w] EXCEPT !.todo = {NextRow}, !.row = NextRow, !.songs = {}, !.kind = "none", !.pc = "check"]
  <2>1. Written' = Written \cup {NextRow} /\ NextRow \notin Written
    BY <1>5, RowInserted, NextRowIsNew
  <2>2. task' = [task EXCEPT ![w] = t]
    BY <1>5 DEF Insert, Goes
  <2>3. t.pc = "check" /\ t.lock = task[w].lock /\ t.todo = {NextRow}
    BY <1>1 DEF TasteTasks
  <2> HIDE DEF t
  <2>4. t.todo \cap Written = {} /\ t.todo \subseteq Written'
    BY <2>1, <2>3
  <2>5. \A e \in Written : rows'[e] = rows[e]
    BY <2>1, <1>5 DEF Insert, TasteBase, TasteTypeOK, Written
  <2> QED
    BY <1>2, <1>4, <2>2, <2>3, <2>4, <2>5
<1>6. CASE Seed(w)
  <2>1. PICK new \in SUBSET Rows :
          /\ Written' = Written \cup new /\ new \cap Written = {}
          /\ \A e \in Written : rows'[e] = rows[e]
          /\ task' = [task EXCEPT ![w] = [task[w] EXCEPT !.todo = new, !.songs = {}, !.pc = "check"]]
    BY <1>6, RowsSeeded
  <2> DEFINE t == [task[w] EXCEPT !.todo = new, !.songs = {}, !.pc = "check"]
  <2>2. t.pc = "check" /\ t.lock = task[w].lock /\ t.todo = new /\ task' = [task EXCEPT ![w] = t]
    BY <1>1, <2>1 DEF TasteTasks
  <2> HIDE DEF t
  <2> QED
    BY <1>2, <1>4, <2>1, <2>2
<1>7. CASE Missing(w)
  <2>a. \A e \in Written : rows'[e] = rows[e]
    BY <1>7 DEF Missing
  <2>1. CASE task' = [task EXCEPT ![w] = NoTask]
    <3>1. NoTask.todo \cap Written = {} /\ NoTask.todo \subseteq Written'
      BY DEF NoTask
    <3> QED
      BY <1>2, <1>4, <2>a, <2>1, <3>1
  <2>2. CASE Goes(w, [task[w] EXCEPT !.songs = task[w].songs \ LikedSongs], "seed")
    <3> DEFINE t == [task[w] EXCEPT !.songs = task[w].songs \ LikedSongs, !.pc = "seed"]
    <3>1. task' = [task EXCEPT ![w] = t]
      BY <2>2 DEF Goes
    <3>2. t.pc = "seed" /\ t.lock = task[w].lock /\ t.todo = {}
      BY <1>1, <1>4 DEF TasteTasks
    <3> HIDE DEF t
    <3> QED
      BY <1>2, <1>4, <2>a, <3>1, <3>2
  <2> QED
    BY <1>7, <2>1, <2>2 DEF Missing
<1> QED
  BY <1>5, <1>6, <1>7

(* A task that reads a taste has it in its base, and writes next. *)
LEMMA ReadShape ==
    ASSUME TasteBase, NEW w \in Workers, ReadTaste(w)
    PROVE  Reads(w)
<1> USE DEF Reads
<1>1. UNCHANGED <<rows, taste, lockVars, relisted, spurned>> /\ task[w].pc = "read"
  BY DEF ReadTaste, bookVars
<1>2. NextEvent(w, Current(w)) \/ \E reach : Goes(w, [task[w] EXCEPT !.reach = reach, !.base = taste], "write")
  BY DEF ReadTaste, NotYet
<1>3. CASE NextEvent(w, Current(w))
  <2>1. task[w].pc \in Handling
    BY <1>1 DEF Handling
  <2> QED
    BY <1>1, <1>3, <2>1, NextEventShape
<1>4. ASSUME NEW reach, Goes(w, [task[w] EXCEPT !.reach = reach, !.base = taste], "write")
      PROVE  \E t : /\ task' = [task EXCEPT ![w] = t] /\ t.lock = task[w].lock
                    /\ t.todo \subseteq task[w].todo
                    /\ t.pc = "write" /\ t.base = taste
  <2> DEFINE t == [task[w] EXCEPT !.reach = reach, !.base = taste, !.pc = "write"]
  <2>1. task' = [task EXCEPT ![w] = t] /\ task[w] \in TasteTasks
    BY <1>4 DEF Goes, TasteBase, TasteTypeOK
  <2>2. t.pc = "write" /\ t.base = taste /\ t.lock = task[w].lock /\ t.todo = task[w].todo
    BY <2>1 DEF TasteTasks
  <2> HIDE DEF t
  <2> QED
    BY <2>1, <2>2
<1> QED
  BY <1>1, <1>2, <1>3, <1>4

LEMMA LockShape ==
    ASSUME TasteBase, NEW w \in Workers, LookLock(w) \/ MakeLock(w) \/ TakeLock(w)
    PROVE  Locks(w)
<1>1. task[w].pc \in Asking /\ UNCHANGED <<rows, taste, relisted, spurned, upsets>>
  BY DEF LookLock, MakeLock, TakeLock, Asking, bookVars, Fine
<1>2. split => split'
  <2>1. CASE MakeLock(w)
    BY <2>1, Zenon DEF MakeLock
  <2>2. CASE LookLock(w) \/ TakeLock(w)
    BY <2>2 DEF LookLock, TakeLock, lockVars
  <2> QED
    BY <2>1, <2>2
<1>3. task[w] \in TasteTasks /\ TaskInOrder(w)
  BY DEF TasteBase, TasteTypeOK
<1>4. ASSUME NEW pc \in {"make", "wait", "insert", "missing", "check"}, Goes(w, task[w], pc)
      PROVE  Locks(w)
  BY <1>1, <1>2, <1>4, GoesShape DEF Locks
<1>5. ASSUME NEW l, Goes(w, [task[w] EXCEPT !.lock = l], "wait")
      PROVE  Locks(w)
  <2> DEFINE t == [task[w] EXCEPT !.lock = l, !.pc = "wait"]
  <2>1. task' = [task EXCEPT ![w] = t] /\ t.pc = "wait" /\ t.todo = task[w].todo
    BY <1>3, <1>5 DEF Goes, TasteTasks
  <2> HIDE DEF t
  <2> QED
    BY <1>1, <1>2, <2>1 DEF Locks
<1>6. CASE LookLock(w)
  BY <1>4, <1>5, <1>6 DEF LookLock
<1>7. CASE MakeLock(w)
  BY <1>5, <1>7 DEF MakeLock
<1>8. CASE TakeLock(w)
  <2>1. task[w].role \in {"request", "seed", "done"}
    <3>1. task[w] # NoTask
      BY <1>1 DEF Asking, NoTask
    <3> QED
      BY <1>3, <3>1 DEF TasteTasks, TaskInOrder
  <2>2. Begins[task[w].role] \in {"make", "wait", "insert", "missing", "check"}
    BY <2>1 DEF Begins
  <2> QED
    BY <1>4, <1>8, <2>2 DEF TakeLock
<1> QED
  BY <1>6, <1>7, <1>8

LEMMA CheckShape ==
    ASSUME TasteBase, NEW w \in Workers, CheckDislike(w)
    PROVE  Checks(w)
<1>1. UNCHANGED <<rows, taste, lockVars, relisted>> /\ task[w].pc = "check"
  BY DEF CheckDislike
<1>2. \/ Goes(w, task[w], "mark") /\ ~Positive(Current(w)) /\ spurned' = spurned
      \/ Goes(w, task[w], "mark") /\ spurned' = spurned \cup {Current(w)}
      \/ Goes(w, task[w], "read") /\ spurned' = spurned
  BY DEF CheckDislike
<1>3. CASE Goes(w, task[w], "mark") /\ ~Positive(Current(w)) /\ spurned' = spurned
  BY <1>1, <1>3, GoesShape DEF Checks
<1>5. CASE Goes(w, task[w], "mark") /\ spurned' = spurned \cup {Current(w)}
  BY <1>1, <1>5, GoesShape DEF Checks
<1>4. CASE Goes(w, task[w], "read") /\ spurned' = spurned
  BY <1>1, <1>4, GoesShape DEF Checks
<1> QED
  BY <1>2, <1>3, <1>4, <1>5

LEMMA WriteShape ==
    ASSUME TasteBase, NEW w \in Workers, WriteTaste(w)
    PROVE  Writes(w)
<1>1. UNCHANGED <<rows, lockVars, relisted, spurned>> /\ task[w].pc = "write" /\ task[w].pc \in Handling
  BY DEF WriteTaste, bookVars, Handling
<1>2. PICK bs \in SUBSET task[w].reach :
        /\ taste' = [b \in Branches |->
                       IF b \in bs THEN [task[w].base[b] EXCEPT ![Current(w)] = (IF @ < 2 THEN @ + 1 ELSE @)]
                       ELSE taste[b]]
        /\ IF bs = {} THEN NotYet(w, Current(w)) ELSE Goes(w, task[w], "mark") /\ UNCHANGED wanting
  BY Zenon DEF WriteTaste
<1>3. CASE bs = {}
  <2>1. NextEvent(w, Current(w))
    BY <1>2, <1>3 DEF NotYet
  <2>2. PICK t : /\ task' = [task EXCEPT ![w] = t] /\ t.pc \in {"after", "check"}
                 /\ t.lock = task[w].lock /\ t.todo = task[w].todo \ {Current(w)}
    BY <1>1, <2>1, NextEventShape
  <2> QED
    BY <1>1, <1>2, <1>3, <2>2 DEF Writes
<1>4. CASE bs # {}
  <2>1. PICK t : /\ task' = [task EXCEPT ![w] = t] /\ t.pc = "mark" /\ t.lock = task[w].lock
                 /\ t.todo = task[w].todo
    BY <1>2, <1>4, GoesShape
  <2> QED
    BY <1>1, <1>2, <1>4, <2>1 DEF Writes
<1> QED
  BY <1>3, <1>4

LEMMA MarkShape ==
    ASSUME TasteBase, NEW w \in Workers, MarkApplied(w)
    PROVE  Marks(w)
<1>1. UNCHANGED <<taste, lockVars, relisted, spurned>> /\ task[w].pc = "mark" /\ task[w].pc \in Handling
  BY DEF MarkApplied, bookVars, Handling
<1>2. \/ rows' = [rows EXCEPT ![Current(w)].applied = TRUE] /\ NextEvent(w, Current(w))
      \/ rows' = rows /\ upsets' = upsets + 1 /\ task' = [task EXCEPT ![w] = NoTask]
      \/ rows' = rows /\ upsets' = upsets + 1 /\ NextEvent(w, Current(w))
  BY DEF MarkApplied, Upset, NotYet
<1>3. CASE NextEvent(w, Current(w))
  <2>1. PICK t : /\ task' = [task EXCEPT ![w] = t] /\ t.pc \in {"after", "check"}
                 /\ t.lock = task[w].lock /\ t.todo = task[w].todo \ {Current(w)}
    BY <1>1, <1>3, NextEventShape
  <2>2. t # NoTask
    BY <2>1 DEF NoTask
  <2>3. task' = [task EXCEPT ![w] = NoTask] => t = NoTask
    BY <2>1 DEF TasteBase, TasteTypeOK
  <2> QED
    BY <1>1, <1>2, <2>1, <2>2, <2>3 DEF Marks
<1>4. CASE rows' = rows /\ upsets' = upsets + 1 /\ task' = [task EXCEPT ![w] = NoTask]
  BY <1>1, <1>4 DEF Marks
<1> QED
  BY <1>2, <1>3, <1>4

LEMMA StopShape ==
    ASSUME TasteBase, NEW w \in Workers, Finish(w) \/ Leaves(w)
    PROVE  Stops(w)
BY DEF Finish, Leaves, Stops, bookVars, Upset

LEMMA ElsewhereShape ==
    ASSUME \/ \E s \in Songs : SongMoves(s)
           \/ ForgetLock \/ ReadLikes \/ PutCache \/ VectorExpires
    PROVE  Elsewhere
BY DEF Elsewhere, SongMoves, UndoDislike, EnsureQueued, TrackDiscovered, Upserts, Indexed, SetIndexedAt, ForgetLock, ReadLikes, PutCache, VectorExpires, bookVars,
       Fine

LEMMA Shapes ==
    ASSUME TasteBase, TasteNext
    PROVE  \/ Elsewhere \/ Restarts
           \/ \E w \in Workers : \/ LookLock(w) \/ MakeLock(w) \/ TakeLock(w)
                              \/ Starts(w) \/ TakesRows(w) \/ Checks(w) \/ Reads(w) \/ Writes(w)
                              \/ Marks(w) \/ Stops(w)
BY ElsewhereShape, StartsShape, RowStepsShape, CheckShape, ReadShape, WriteShape, MarkShape, StopShape, Zenon
   DEF TasteNext, EventsNext, VectorNext, TasteStep, SongMoves

-----------------------------------------------------------------------------
(* The lock. *)
LEMMA HolderMoves ==
    ASSUME TasteBase, OneHolder, NEW w \in Workers, NEW t, task' = [task EXCEPT ![w] = t], UNCHANGED lockVars,
           t.pc \in Holding => Holds(w) /\ t.lock = task[w].lock, t.pc # "wait", t.lock \in {0, task[w].lock}
    PROVE  OneHolder'
<1>1. task'[w] = t /\ \A g \in Workers : g # w => task'[g] = task[g]
  BY DEF TasteBase, TasteTypeOK
<1>2. \A g \in Workers : task'[g].pc \in Holding \cup {"wait"} => task'[g].lock # 0
  BY <1>1 DEF OneHolder, Holds
<1>3. \A g, h \in Workers : Holds(g)' /\ Holds(h)' /\ task'[g].lock = task'[h].lock => g = h
  BY <1>1 DEF OneHolder, Holds
<1>4. ~split' => \A g \in Workers : task'[g].lock \in {0, userLock'}
  BY <1>1 DEF OneHolder, lockVars
<1> QED
  BY <1>2, <1>3, <1>4 DEF OneHolder

LEMMA OneHolderStep == TasteBase /\ OneHolder /\ [TasteNext]_tasteVars => OneHolder'
<1> SUFFICES ASSUME TasteBase, OneHolder, [TasteNext]_tasteVars
             PROVE  OneHolder'
  OBVIOUS
<1>a. task \in [Workers -> TasteTasks] /\ userLock \in Nat /\ mutexes \in Nat
  BY DEF TasteBase, TasteTypeOK
<1>1. CASE UNCHANGED <<task, lockVars>>
  BY <1>1 DEF OneHolder, Holds, lockVars
<1>2. CASE Elsewhere
  <2>1. CASE ForgetLock
    <3>1. task' = task /\ userLock' = 0 /\ (~split' => ~split /\ \A w \in Workers : task[w].lock # userLock)
      BY <2>1, Zenon DEF ForgetLock
    <3> QED
      BY <3>1 DEF OneHolder, Holds
  <2> QED
    BY <1>1, <1>2, <2>1 DEF Elsewhere
<1>3. CASE Restarts
  <2>1. task' = [w \in Workers |-> NoTask]
    BY <1>3 DEF Restarts
  <2> QED
    BY <2>1 DEF OneHolder, Holds, NoTask, Holding
<1>4. ASSUME NEW w \in Workers, Starts(w) \/ Stops(w)
      PROVE  OneHolder'
  <2>1. UNCHANGED lockVars
    BY <1>4 DEF Starts, Stops
  <2>2. task' = task \/ \E t : /\ task' = [task EXCEPT ![w] = t] /\ t.pc \in {"look", "idle"} /\ t.lock = 0
    BY <1>4 DEF Starts, Stops, NoTask
  <2> QED
    BY <1>1, <2>1, <2>2, HolderMoves DEF Holding
<1>5. ASSUME NEW w \in Workers, TakesRows(w) \/ Checks(w) \/ Reads(w) \/ Writes(w) \/ Marks(w)
      PROVE  OneHolder'
  <2>1. UNCHANGED lockVars /\ Holds(w)
    BY <1>5 DEF TakesRows, Checks, Reads, Writes, Marks, Holds, Holding
  <2>2. \E t : /\ task' = [task EXCEPT ![w] = t] /\ t.pc # "wait"
               /\ t.lock = task[w].lock \/ (t.lock = 0 /\ t.pc = "idle")
    <3>1. CASE TakesRows(w)
      <4>1. PICK t : /\ task' = [task EXCEPT ![w] = t]
                     /\ t = NoTask \/ (t.pc \in {"check", "seed"} /\ t.lock = task[w].lock)
        BY <3>1 DEF TakesRows
      <4>2. NoTask.pc = "idle" /\ NoTask.lock = 0
        BY DEF NoTask
      <4> QED
        BY <4>1, <4>2
    <3>2. CASE Checks(w)
      BY <3>2 DEF Checks
    <3>3. CASE Reads(w)
      <4>1. PICK t : /\ task' = [task EXCEPT ![w] = t] /\ t.lock = task[w].lock
                     /\ t.pc \in {"after", "check", "write"}
        BY <3>3 DEF Reads
      <4> QED
        BY <4>1
    <3>4. CASE Writes(w)
      BY <3>4 DEF Writes
    <3>5. CASE Marks(w)
      BY <3>5 DEF Marks, NoTask
    <3> QED
      BY <1>5, <3>1, <3>2, <3>3, <3>4, <3>5
  <2>3. PICK t : /\ task' = [task EXCEPT ![w] = t] /\ t.pc # "wait"
                 /\ t.lock = task[w].lock \/ (t.lock = 0 /\ t.pc = "idle")
    BY <2>2
  <2>4. t.pc \in Holding => Holds(w) /\ t.lock = task[w].lock
    BY <2>1, <2>3 DEF Holding
  <2>5. t.lock \in {0, task[w].lock}
    BY <2>3
  <2> QED
    BY <2>1, <2>3, <2>4, <2>5, HolderMoves
<1>6. ASSUME NEW w \in Workers, LookLock(w)
      PROVE  OneHolder'
  <2>1. UNCHANGED lockVars
    BY <1>6 DEF LookLock
  <2>2. CASE userLock = 0
    <3>1. PICK t : task' = [task EXCEPT ![w] = t] /\ t.pc = "make" /\ t.lock = task[w].lock
      BY <1>6, <2>2, GoesShape DEF LookLock
    <3> QED
      BY <2>1, <3>1, HolderMoves DEF Holding
  <2>3. CASE userLock # 0
    <3> DEFINE t == [task[w] EXCEPT !.lock = userLock, !.pc = "wait"]
    <3>1. task' = [task EXCEPT ![w] = t] /\ t.pc = "wait" /\ t.lock = userLock
      BY <1>a, <1>6, <2>3 DEF LookLock, Goes, TasteTasks
    <3> HIDE DEF t
    <3>2. task'[w] = t /\ \A g \in Workers : g # w => task'[g] = task[g]
      BY <1>a, <3>1
    <3> QED
      BY <2>1, <2>3, <3>1, <3>2 DEF OneHolder, Holds, Holding, lockVars
  <2> QED
    BY <2>2, <2>3
<1>7. ASSUME NEW w \in Workers, MakeLock(w)
      PROVE  OneHolder'
  <2> DEFINE t == [task[w] EXCEPT !.lock = mutexes + 1, !.pc = "wait"]
  <2>1. task' = [task EXCEPT ![w] = t] /\ t.pc = "wait" /\ t.lock = mutexes + 1 /\ userLock' = mutexes + 1
    BY <1>a, <1>7 DEF MakeLock, Goes, TasteTasks
  <2>2. ~split' => ~split /\ userLock = 0
    BY <1>7, Zenon DEF MakeLock
  <2> HIDE DEF t
  <2>3. task'[w] = t /\ \A g \in Workers : g # w => task'[g] = task[g]
    BY <1>a, <2>1
  <2> QED
    BY <1>a, <2>1, <2>2, <2>3 DEF OneHolder, Holds, Holding
<1>8. ASSUME NEW w \in Workers, TakeLock(w)
      PROVE  OneHolder'
  <2>1. /\ task[w].pc = "wait" /\ LockFree(task[w].lock) /\ Goes(w, task[w], Begins[task[w].role])
        /\ UNCHANGED lockVars
    BY <1>8 DEF TakeLock
  <2>2. PICK t : task' = [task EXCEPT ![w] = t] /\ t.lock = task[w].lock
    BY <2>1, GoesShape
  <2>3. task'[w] = t /\ \A g \in Workers : g # w => task'[g] = task[g]
    BY <1>a, <2>2
  <2>4. \A g \in Workers : Holds(g) => task[g].lock # task[w].lock
    BY <2>1 DEF LockFree, Holds, Holding
  <2> QED
    BY <2>1, <2>2, <2>3, <2>4 DEF OneHolder, Holds, lockVars
<1>9. CASE UNCHANGED tasteVars
  BY <1>1, <1>9 DEF tasteVars, lockVars
<1> QED
  BY <1>2, <1>3, <1>4, <1>5, <1>6, <1>7, <1>8, <1>9, Shapes
LEMMA SplitStays ==
    ASSUME TasteBase, TasteNext
    PROVE  split => split'
<1>1. ForgetLock => (split => split')
  BY Zenon DEF ForgetLock
<1>2. Elsewhere => (split => split')
  BY <1>1 DEF Elsewhere, lockVars
<1>3. ASSUME NEW w \in Workers, LookLock(w) \/ MakeLock(w) \/ TakeLock(w)
      PROVE  split => split'
  BY <1>3, LockShape DEF Locks
<1> QED
  BY <1>2, <1>3, Shapes DEF Restarts, Starts, TakesRows, Checks, Reads, Writes, Marks, Stops, lockVars

(* One holder at a time, unless there are two locks. *)
LEMMA AloneWithLock ==
    ASSUME OneHolder, ~split, NEW w \in Workers, NEW g \in Workers, Holds(w), Holds(g)
    PROVE  w = g
BY DEF OneHolder, Holds

LEMMA TaskKept ==
    ASSUME TasteBase, NEW w \in Workers, NEW t, task' = [task EXCEPT ![w] = t]
    PROVE  /\ task'[w] = t /\ \A g \in Workers : g # w => task'[g] = task[g]
           /\ \A g \in Workers : task'[g].todo = task[g].todo => Current(g)' = Current(g)
BY DEF TasteBase, TasteTypeOK, Current

-----------------------------------------------------------------------------
(* An event is in one hand. *)
LEMMA OneHandStep == TasteBase /\ OneHand /\ [TasteNext]_tasteVars => OneHand'
<1> SUFFICES ASSUME TasteBase, OneHand, [TasteNext]_tasteVars
             PROVE  OneHand'
  OBVIOUS
<1>a. \A g \in Workers : task[g].todo \subseteq Written
  BY DEF TasteBase, TaskInOrder
<1>1. ASSUME rows' = rows, relisted \subseteq relisted', \A g \in Workers : task'[g].todo \subseteq task[g].todo
      PROVE  OneHand'
  BY <1>1 DEF OneHand, Held
<1>2. ASSUME NEW w \in Workers, NEW t, task' = [task EXCEPT ![w] = t], rows' = rows, relisted' = relisted,
             t.todo \subseteq task[w].todo
      PROVE  OneHand'
  BY <1>1, <1>2, TaskKept
<1>3. ASSUME NEW w \in Workers, Starts(w)
      PROVE  OneHand'
  <2>1. rows' = rows
    BY <1>3 DEF Starts
  <2>2. CASE task' = task /\ relisted' = relisted
    BY <1>1, <2>1, <2>2
  <2>3. ASSUME NEW t, task' = [task EXCEPT ![w] = t], relisted' = relisted \cup (t.todo \cap InHand),
               \A e \in t.todo : ~rows[e].applied
        PROVE  OneHand'
    <3>1. task'[w] = t /\ \A g \in Workers : g # w => task'[g] = task[g]
      BY <2>3, TaskKept
    <3>2. \A e, g : e \in t.todo /\ g \in Workers /\ e \in task[g].todo => e \in relisted'
      BY <2>3 DEF InHand
    <3> QED
      BY <2>1, <2>3, <3>1, <3>2 DEF OneHand, Held
  <2> QED
    BY <1>3, <2>2, <2>3 DEF Starts
<1>4. ASSUME NEW w \in Workers, LookLock(w) \/ MakeLock(w) \/ TakeLock(w)
      PROVE  OneHand'
  BY <1>2, <1>4, LockShape DEF Locks
<1>5. ASSUME NEW w \in Workers, TakesRows(w)
      PROVE  OneHand'
  <2>1. PICK t : /\ task' = [task EXCEPT ![w] = t] /\ t.todo \cap Written = {}
                 /\ t.todo \subseteq Written'
    BY <1>5 DEF TakesRows
  <2>2. task'[w] = t /\ \A g \in Workers : g # w => task'[g] = task[g]
    BY <2>1, TaskKept
  <2>3. relisted' = relisted /\ \A e \in Written : rows'[e] = rows[e]
    BY <1>5 DEF TakesRows
  <2>4. \A e \in t.todo : ~rows'[e].applied
    <3>1. CASE UNCHANGED tasteVars
      BY <2>1, <3>1 DEF tasteVars, Written
    <3>2. CASE TasteNext
      BY <2>1, <3>2, TasksAndRowsKeep DEF RowsWell, RowsKept
    <3> QED
      BY <3>1, <3>2
  <2> QED
    BY <1>a, <2>1, <2>2, <2>3, <2>4 DEF OneHand, Held
<1>6. ASSUME NEW w \in Workers, Checks(w) \/ Reads(w) \/ Writes(w)
      PROVE  OneHand'
  <2>1. rows' = rows /\ relisted' = relisted
    BY <1>6 DEF Checks, Reads, Writes
  <2>2. \E t : task' = [task EXCEPT ![w] = t] /\ t.todo \subseteq task[w].todo
    BY <1>6 DEF Checks, Reads, Writes
  <2> QED
    BY <1>2, <2>1, <2>2
<1>7. ASSUME NEW w \in Workers, Marks(w)
      PROVE  OneHand'
  <2>1. relisted' = relisted
    BY <1>7 DEF Marks
  <2>2. PICK t : /\ task' = [task EXCEPT ![w] = t] /\ t.todo \subseteq task[w].todo \ {Current(w)}
                 /\ rows' = rows \/ rows' = [rows EXCEPT ![Current(w)].applied = TRUE]
    BY <1>7 DEF Marks, NoTask
  <2>3. CASE rows' = rows
    BY <1>2, <2>1, <2>2, <2>3
  <2>4. CASE rows' = [rows EXCEPT ![Current(w)].applied = TRUE]
    <3>1. task'[w] = t /\ \A g \in Workers : g # w => task'[g] = task[g]
      BY <2>2, TaskKept
    <3>2. Current(w) \in task[w].todo /\ Current(w) \in Rows
      <4>1. task[w].todo # {}
        BY <1>7 DEF Marks, TasteBase, TaskInOrder, Handling
      <4> QED
        BY <4>1, CurrentInHand
    <3>3. \A e \in Rows : e # Current(w) => rows'[e] = rows[e]
      BY <2>4 DEF TasteBase, TasteTypeOK
    <3> QED
      BY <2>1, <2>2, <3>1, <3>2, <3>3 DEF OneHand, Held
  <2> QED
    BY <2>2, <2>3, <2>4
<1>8. ASSUME NEW w \in Workers, Stops(w)
      PROVE  OneHand'
  BY <1>2, <1>8 DEF Stops, NoTask
<1>9. CASE Elsewhere
  BY <1>1, <1>9 DEF Elsewhere
<1>10. CASE Restarts
  <2>1. rows' = rows /\ relisted' = relisted /\ task' = [w \in Workers |-> NoTask]
    BY <1>10 DEF Restarts, bookVars
  <2> QED
    BY <1>1, <2>1 DEF NoTask
<1>11. CASE UNCHANGED tasteVars
  BY <1>1, <1>11 DEF tasteVars
<1> QED
  BY <1>3, <1>4, <1>5, <1>6, <1>7, <1>8, <1>9, <1>10, <1>11, Shapes

-----------------------------------------------------------------------------
(* What was read stays true until it is written. *)
LEMMA BasesTrueStep == TasteBase /\ OneHolder /\ BasesTrue /\ [TasteNext]_tasteVars => BasesTrue'
<1> SUFFICES ASSUME TasteBase, OneHolder, BasesTrue, [TasteNext]_tasteVars, ~split'
             PROVE  \A g \in Workers : task'[g].pc = "write" => task'[g].base = taste'
  BY DEF BasesTrue
<1>1. CASE UNCHANGED <<task, taste, split>>
  BY <1>1 DEF BasesTrue
<1>2. ASSUME ~split, NEW w \in Workers, NEW t, task' = [task EXCEPT ![w] = t], taste' = taste,
             t.pc = "write" => t.base = taste
      PROVE  \A g \in Workers : task'[g].pc = "write" => task'[g].base = taste'
  BY <1>2, TaskKept DEF BasesTrue
<1>3. SUFFICES ASSUME TasteNext, ~split
               PROVE  \A g \in Workers : task'[g].pc = "write" => task'[g].base = taste'
  BY <1>1, SplitStays DEF tasteVars
<1>4. ASSUME NEW w \in Workers, \/ LookLock(w) \/ MakeLock(w) \/ TakeLock(w) \/ Starts(w) \/ TakesRows(w)
                                \/ Checks(w) \/ Reads(w) \/ Marks(w) \/ Stops(w)
      PROVE  \A g \in Workers : task'[g].pc = "write" => task'[g].base = taste'
  <2>1. CASE task' = task /\ taste' = taste
    BY <1>3, <2>1 DEF BasesTrue
  <2>2. taste' = taste
    BY <1>4, LockShape DEF Locks, Starts, TakesRows, Checks, Reads, Marks, Stops
  <2>3. task' = task \/ \E t : task' = [task EXCEPT ![w] = t] /\ (t.pc = "write" => t.base = taste)
    <3>1. CASE LookLock(w) \/ MakeLock(w) \/ TakeLock(w) \/ Starts(w)
      BY <3>1, LockShape DEF Locks, Starts
    <3>2. CASE TakesRows(w) \/ Checks(w) \/ Reads(w)
      BY <3>2 DEF TakesRows, Checks, Reads, NoTask
    <3>3. CASE Marks(w)
      <4>1. PICK t : task' = [task EXCEPT ![w] = t] /\ (t = NoTask \/ t.pc \in {"after", "check"})
        BY <3>3 DEF Marks
      <4>2. t.pc # "write"
        BY <4>1 DEF NoTask
      <4> QED
        BY <4>1, <4>2
    <3>4. CASE Stops(w)
      <4>1. task' = [task EXCEPT ![w] = NoTask]
        BY <3>4 DEF Stops
      <4>2. NoTask.pc # "write"
        BY DEF NoTask
      <4> QED
        BY <4>1, <4>2
    <3> QED
      BY <1>4, <3>1, <3>2, <3>3, <3>4
  <2> QED
    BY <1>2, <1>3, <2>1, <2>2, <2>3
<1>5. ASSUME NEW w \in Workers, Writes(w)
      PROVE  \A g \in Workers : task'[g].pc = "write" => task'[g].base = taste'
  <2>1. PICK t : task' = [task EXCEPT ![w] = t] /\ t.pc # "write"
    BY <1>5 DEF Writes
  <2>2. task'[w] = t /\ \A g \in Workers : g # w => task'[g] = task[g]
    BY <2>1, TaskKept
  <2>3. \A g \in Workers : g # w => task[g].pc # "write"
    BY <1>3, <1>5, AloneWithLock DEF Writes, Holds, Holding
  <2> QED
    BY <2>1, <2>2, <2>3
<1>6. CASE Elsewhere
  BY <1>3, <1>6 DEF Elsewhere, BasesTrue
<1>7. CASE Restarts
  BY <1>7 DEF Restarts, NoTask
<1> QED
  BY <1>3, <1>4, <1>5, <1>6, <1>7, Shapes

-----------------------------------------------------------------------------
(* A write adds to what the taste is, not to what it was: it counts one    *)
(* event, once, and loses none.                                            *)
LEMMA WriteCounts ==
    ASSUME TasteBase, BasesTrue, ~split, NEW w \in Workers, Writes(w)
    PROVE  /\ \A b \in Branches, d \in Rows :
                /\ taste'[b][d] >= taste[b][d] /\ taste'[b][d] <= taste[b][d] + 1
                /\ d # Current(w) => taste'[b][d] = taste[b][d]
           /\ \E t : /\ task' = [task EXCEPT ![w] = t]
                     /\ \/ /\ t.pc # "mark" /\ t.todo \subseteq task[w].todo
                           /\ \A b \in Branches, d \in Rows : taste'[b][d] = taste[b][d]
                        \/ t.pc = "mark" /\ t.todo = task[w].todo /\ Counted(Current(w))'
<1>0. PICK t : \E bs \in SUBSET task[w].reach :
        /\ task' = [task EXCEPT ![w] = t]
        /\ taste' = [b \in Branches |->
                      IF b \in bs THEN [task[w].base[b] EXCEPT ![Current(w)] = (IF @ < 2 THEN @ + 1 ELSE @)]
                      ELSE taste[b]]
        /\ \/ bs = {} /\ t.pc \in {"after", "check"} /\ t.todo \subseteq task[w].todo
           \/ bs # {} /\ t.pc = "mark" /\ t.todo = task[w].todo
  BY DEF Writes
<1>1. PICK bs \in SUBSET task[w].reach :
        /\ task' = [task EXCEPT ![w] = t]
        /\ taste' = [b \in Branches |->
                      IF b \in bs THEN [task[w].base[b] EXCEPT ![Current(w)] = (IF @ < 2 THEN @ + 1 ELSE @)]
                      ELSE taste[b]]
        /\ \/ bs = {} /\ t.pc \in {"after", "check"} /\ t.todo \subseteq task[w].todo
           \/ bs # {} /\ t.pc = "mark" /\ t.todo = task[w].todo
  BY <1>0
<1> DEFINE e == Current(w)
           One(n) == IF n < 2 THEN n + 1 ELSE n
<1>2. task[w].base = taste
  BY DEF BasesTrue, Writes
<1>3. e \in Rows /\ e \in task[w].todo
  <2>1. task[w].todo # {}
    BY DEF Writes, TasteBase, TaskInOrder, Handling
  <2> QED
    BY <2>1, CurrentInHand
<1>4. taste \in Tastes /\ task[w].reach \subseteq Branches
  BY DEF TasteBase, TasteTypeOK, TasteTasks
<1>5. \A b \in Branches :
        taste'[b] = IF b \in bs THEN [taste[b] EXCEPT ![e] = One(taste[b][e])] ELSE taste[b]
  BY <1>1, <1>2
<1>6. \A b \in Branches, d \in Rows : taste[b][d] \in Nat
  BY <1>4 DEF Tastes
<1>7. \A b \in Branches, d \in Rows :
        taste'[b][d] = IF b \in bs /\ d = e THEN One(taste[b][d]) ELSE taste[b][d]
  BY <1>3, <1>4, <1>5 DEF Tastes
<1>8. \A n \in Nat : One(n) >= n /\ One(n) <= n + 1 /\ One(n) > 0
  OBVIOUS
<1>9. bs # {} => \E b \in Branches : taste'[b][e] > 0
  BY <1>3, <1>4, <1>6, <1>7, <1>8
<1>10. bs # {} => Counted(Current(w))'
  <2> SUFFICES ASSUME bs # {}
               PROVE  Counted(Current(w))'
    OBVIOUS
  <2>1. t.todo = task[w].todo
    BY <1>1
  <2>2. Current(w)' = Current(w)
    <3>1. task'[w].todo = task[w].todo
      BY <1>1, <2>1, TaskKept
    <3> QED
      BY <3>1 DEF Current
  <2> QED
    BY <1>9, <2>2 DEF Counted
<1> HIDE DEF One
<1>11. \A b \in Branches, d \in Rows :
         /\ taste'[b][d] >= taste[b][d] /\ taste'[b][d] <= taste[b][d] + 1
         /\ d # Current(w) => taste'[b][d] = taste[b][d]
  BY <1>6, <1>7, <1>8
<1>12. bs = {} => \A b \in Branches, d \in Rows : taste'[b][d] = taste[b][d]
  BY <1>7
<1>13. bs = {} => t.pc # "mark" /\ t.todo \subseteq task[w].todo
  BY <1>1
<1>14. bs # {} => t.pc = "mark" /\ t.todo = task[w].todo
  BY <1>1
<1> HIDE DEF e
<1> QED
  BY <1>1, <1>10, <1>11, <1>12, <1>13, <1>14, Zenon

(* Who marks what after a step of one task. *)
LEMMA TaskMarks ==
    ASSUME TasteBase, NEW w \in Workers, NEW t, task' = [task EXCEPT ![w] = t]
    PROVE  /\ \A g \in Workers : g # w => \A e : Marking(g, e)' <=> Marking(g, e)
           /\ t.pc # "mark" => \A e : ~Marking(w, e)'
           /\ t.todo = task[w].todo => Current(w)' = Current(w)
           /\ t.todo = task[w].todo => \A e : Marking(w, e)' => e = Current(w)
           /\ t.todo = task[w].todo /\ t.pc = "mark" => \A e : e \in task[w].todo /\ e = Current(w) => Marking(w, e)'
BY TaskKept, Zenon DEF Marking

(* Most steps neither count nor mark.                                      *)
Quiet ==
  /\ UNCHANGED <<rows, taste, spurned>> /\ relisted \subseteq relisted'
  /\ \A w \in Workers, e \in Rows :
       /\ Marking(w, e)' => Marking(w, e)
       /\ Marking(w, e) => Marking(w, e)' \/ upsets' = upsets + 1

LEMMA QuietSteps ==
    ASSUME TasteBase,
           \/ Elsewhere \/ Restarts \/ UNCHANGED tasteVars
           \/ \E w \in Workers : LookLock(w) \/ MakeLock(w) \/ TakeLock(w) \/ Starts(w) \/ Reads(w) \/ Stops(w)
    PROVE  Quiet
<1>1. ASSUME task' = task
      PROVE  \A w \in Workers, e \in Rows : Marking(w, e)' <=> Marking(w, e)
  BY <1>1 DEF Marking, Current
<1>2. ASSUME NEW w \in Workers, NEW t, task' = [task EXCEPT ![w] = t], t.pc # "mark",
             task[w].pc # "mark" \/ upsets' = upsets + 1
      PROVE  \A g \in Workers, e \in Rows :
               /\ Marking(g, e)' => Marking(g, e)
               /\ Marking(g, e) => Marking(g, e)' \/ upsets' = upsets + 1
  <2>1. \A e : ~Marking(w, e)'
    BY <1>2, TaskMarks
  <2>2. \A g \in Workers : g # w => \A e : Marking(g, e)' <=> Marking(g, e)
    BY <1>2, TaskMarks
  <2>3. \A e : Marking(w, e) => upsets' = upsets + 1
    BY <1>2 DEF Marking
  <2> QED
    BY <2>1, <2>2, <2>3, Zenon
<1>3. NoTask.pc = "idle"
  BY DEF NoTask
<1>4. CASE Elsewhere
  BY <1>1, <1>4 DEF Elsewhere, Quiet
<1>5. CASE UNCHANGED tasteVars
  BY <1>1, <1>5 DEF tasteVars, bookVars, Quiet
<1>6. CASE Restarts
  <2>1. UNCHANGED <<rows, taste, bookVars>> /\ task' = [w \in Workers |-> NoTask] /\ upsets' = upsets + 1
    BY <1>6 DEF Restarts, Upset
  <2>2. \A w \in Workers, e \in Rows : ~Marking(w, e)'
    BY <2>1, <1>3 DEF Marking
  <2> QED
    BY <2>1, <2>2 DEF Quiet, bookVars
<1>7. ASSUME NEW w \in Workers, Starts(w)
      PROVE  Quiet
  <2>1. UNCHANGED <<rows, taste, spurned>> /\ relisted \subseteq relisted'
    BY <1>7 DEF Starts
  <2>2. CASE task' = task
    BY <1>1, <2>1, <2>2 DEF Quiet
  <2>3. CASE \E t : task' = [task EXCEPT ![w] = t] /\ task[w] = NoTask /\ t.pc = "look"
    <3>1. PICK t : task' = [task EXCEPT ![w] = t] /\ task[w].pc = "idle" /\ t.pc = "look"
      BY <1>3, <2>3
    <3> QED
      BY <1>2, <2>1, <3>1 DEF Quiet
  <2> QED
    BY <1>7, <2>2, <2>3 DEF Starts
<1>8. ASSUME NEW w \in Workers, LookLock(w) \/ MakeLock(w) \/ TakeLock(w)
      PROVE  Quiet
  <2>1. Locks(w)
    BY <1>8, LockShape
  <2>2. UNCHANGED <<rows, taste, spurned, relisted>> /\ task[w].pc # "mark"
    BY <2>1 DEF Locks, Asking
  <2>3. PICK t : task' = [task EXCEPT ![w] = t] /\ t.pc # "mark"
    BY <2>1 DEF Locks
  <2> QED
    BY <1>2, <2>2, <2>3 DEF Quiet
<1>9. ASSUME NEW w \in Workers, Reads(w)
      PROVE  Quiet
  <2>1. UNCHANGED <<rows, taste, spurned, relisted>> /\ task[w].pc # "mark"
    BY <1>9 DEF Reads
  <2>2. PICK t : task' = [task EXCEPT ![w] = t] /\ t.pc # "mark"
    BY <1>9 DEF Reads
  <2> QED
    BY <1>2, <2>1, <2>2 DEF Quiet
<1>10. ASSUME NEW w \in Workers, Stops(w)
       PROVE  Quiet
  <2>1. UNCHANGED <<rows, taste, spurned, relisted>> /\ (task[w].pc # "mark" \/ upsets' = upsets + 1)
    BY <1>10 DEF Stops
  <2>2. task' = [task EXCEPT ![w] = NoTask] /\ NoTask.pc # "mark"
    BY <1>3, <1>10 DEF Stops
  <2> QED
    BY <1>2, <2>1, <2>2 DEF Quiet
<1> QED
  BY <1>4, <1>5, <1>6, <1>7, <1>8, <1>9, <1>10

(* What brings rows marks none of them. *)
LEMMA NewRowsUnmarked ==
    ASSUME TasteBase, NEW w \in Workers, TakesRows(w), TasteNext
    PROVE  /\ UNCHANGED <<taste, relisted, spurned>>
           /\ \A e \in Written : rows'[e] = rows[e]
           /\ \A e \in Written' \ Written : ~rows'[e].applied
           /\ \A g \in Workers, e \in Rows : Marking(g, e)' <=> Marking(g, e)
           /\ \A g \in Workers, e \in Rows : Marking(g, e) => e \in Written
<1>1. UNCHANGED <<taste, relisted, spurned>> /\ task[w].pc # "mark" /\ \A e \in Written : rows'[e] = rows[e]
  BY DEF TakesRows
<1>2. PICK t : task' = [task EXCEPT ![w] = t] /\ (t = NoTask \/ t.pc \in {"check", "seed"})
  BY DEF TakesRows
<1>3. t.pc # "mark"
  BY <1>2 DEF NoTask
<1>4. \A e : ~Marking(w, e)' /\ ~Marking(w, e)
  BY <1>1, <1>2, <1>3, TaskMarks DEF Marking
<1>5. \A g \in Workers, e \in Rows : Marking(g, e)' <=> Marking(g, e)
  BY <1>2, <1>4, TaskMarks, Zenon
<1>6. \A e \in Written' \ Written : ~rows'[e].applied
  BY TasksAndRowsKeep DEF RowsWell, RowsKept
<1>7. \A g \in Workers, e \in Rows : Marking(g, e) => e \in Written
  BY DEF Marking, TasteBase, TaskInOrder
<1> QED
  BY <1>1, <1>5, <1>6, <1>7

(* What is marked, or about to be, is in the taste. *)
LEMMA AppliedCountedStep ==
    TasteBase /\ BasesTrue /\ AppliedCounted /\ [TasteNext]_tasteVars => AppliedCounted'
<1> DEFINE Fits(e) == /\ rows[e].applied => Counted(e)
                      /\ \A g \in Workers : Marking(g, e) => Counted(e)
<1> SUFFICES ASSUME TasteBase, BasesTrue, AppliedCounted, [TasteNext]_tasteVars, ~split',
                    NEW e \in Likes', e \notin spurned'
             PROVE  Fits(e)'
  BY DEF AppliedCounted
<1>a. ~split
  BY SplitStays DEF tasteVars, lockVars
<1>b. e \in Rows /\ e \in Written'
  BY DEF Likes, Written, Rows
<1>c. ASSUME rows' = rows
      PROVE  e \in Likes /\ Positive(e)
  BY <1>c DEF Likes, Written, Positive
<1>d. e \in Likes /\ e \notin spurned => Fits(e)
  BY <1>a DEF AppliedCounted
<1> HIDE DEF Fits
<1>1. CASE Quiet
  <2>1. Fits(e) /\ rows' = rows /\ taste' = taste
    BY <1>1, <1>c, <1>d DEF Quiet
  <2>2. Counted(e)' = Counted(e)
    BY <2>1 DEF Counted
  <2> QED
    BY <1>1, <1>b, <2>1, <2>2 DEF Quiet, Fits
<1>2. SUFFICES ASSUME TasteNext
               PROVE  Fits(e)'
  BY <1>1, QuietSteps
<1>3. ASSUME NEW w \in Workers, TakesRows(w)
      PROVE  Fits(e)'
  <2>1. taste' = taste /\ spurned' = spurned
    BY <1>3, <1>2, NewRowsUnmarked
  <2>2. Counted(e)' = Counted(e)
    BY <2>1 DEF Counted
  <2>3. CASE e \in Written
    <3>1. rows'[e] = rows[e]
      BY <1>3, <1>2, <2>3, NewRowsUnmarked
    <3>2. e \in Likes
      BY <2>3, <3>1 DEF Likes, Positive
    <3> QED
      BY <1>3, <1>2, <1>b, <1>d, <2>1, <2>2, <3>1, <3>2, NewRowsUnmarked DEF Fits
  <2>4. CASE e \notin Written
    <3>1. ~rows'[e].applied
      BY <1>2, <1>3, <1>b, <2>4, NewRowsUnmarked
    <3>2. \A g \in Workers : ~Marking(g, e)'
      BY <1>2, <1>3, <1>b, <2>4, NewRowsUnmarked
    <3> QED
      BY <3>1, <3>2 DEF Fits
  <2> QED
    BY <2>3, <2>4
<1>4. ASSUME NEW w \in Workers, Checks(w)
      PROVE  Fits(e)'
  <2>1. rows' = rows /\ taste' = taste /\ spurned \subseteq spurned'
    BY <1>4 DEF Checks
  <2>2. Fits(e) /\ Counted(e)' = Counted(e)
    BY <1>c, <1>d, <2>1 DEF Counted
  <2>3. PICK t : /\ task' = [task EXCEPT ![w] = t] /\ t.todo = task[w].todo
                 /\ t.pc # "mark" \/ ~Positive(Current(w)) \/ Current(w) \in spurned'
    BY <1>4 DEF Checks
  <2>4. ~Marking(w, e)'
    <3>1. CASE t.pc # "mark"
      BY <2>3, <3>1, TaskMarks
    <3>2. CASE e # Current(w)
      BY <2>3, <3>2, TaskMarks
    <3> QED
      BY <1>c, <2>1, <2>3, <3>1, <3>2
  <2>5. \A g \in Workers : Marking(g, e)' => Marking(g, e)
    BY <2>3, <2>4, TaskMarks
  <2> QED
    BY <2>1, <2>2, <2>5 DEF Fits
<1>5. ASSUME NEW w \in Workers, Writes(w)
      PROVE  Fits(e)'
  <2>1. rows' = rows /\ spurned' = spurned
    BY <1>5 DEF Writes
  <2>2. Fits(e)
    BY <1>c, <1>d, <2>1
  <2>3. Counted(e) => Counted(e)'
    <3> SUFFICES ASSUME NEW b \in Branches, taste[b][e] > 0
                 PROVE  taste'[b][e] > 0
      BY DEF Counted
    <3>1. taste[b][e] \in Nat
      BY <1>b DEF TasteBase, TasteTypeOK, Tastes
    <3>2. taste'[b][e] = taste[b][e] \/ taste'[b][e] \in Nat
      BY <1>2, <1>b, TasteBaseStep DEF TasteBase, TasteTypeOK, Tastes
    <3>3. taste'[b][e] >= taste[b][e]
      BY <1>5, <1>a, <1>b, WriteCounts
    <3> QED
      BY <3>1, <3>2, <3>3
  <2>4. PICK t : /\ task' = [task EXCEPT ![w] = t]
                 /\ t.pc # "mark" \/ (t.todo = task[w].todo /\ Counted(Current(w))')
    BY <1>5, <1>a, WriteCounts
  <2>5. Marking(w, e)' => Counted(e)'
    <3>1. CASE t.pc # "mark"
      BY <2>4, <3>1, TaskMarks
    <3>2. CASE t.todo = task[w].todo /\ Counted(Current(w))'
      <4>1. Current(w)' = Current(w)
        BY <2>4, <3>2, TaskMarks
      <4>2. Marking(w, e)' => e = Current(w)
        BY <2>4, <3>2, TaskMarks
      <4>3. e = Current(w) => Counted(e)'
        BY <3>2, <4>1 DEF Counted
      <4> QED
        BY <4>2, <4>3
    <3> QED
      BY <2>4, <3>1, <3>2
  <2>6. \A g \in Workers : g # w => (Marking(g, e)' <=> Marking(g, e))
    BY <2>4, TaskMarks
  <2> QED
    BY <2>1, <2>2, <2>3, <2>5, <2>6 DEF Fits
<1>6. ASSUME NEW w \in Workers, Marks(w)
      PROVE  Fits(e)'
  <2>1. taste' = taste /\ spurned' = spurned /\ task[w].pc = "mark"
    BY <1>6 DEF Marks
  <2>2. PICK t : /\ task' = [task EXCEPT ![w] = t] /\ (t = NoTask \/ t.pc \in {"after", "check"})
                 /\ rows' = rows \/ rows' = [rows EXCEPT ![Current(w)].applied = TRUE]
    BY <1>6 DEF Marks
  <2>3. t.pc # "mark"
    BY <2>2 DEF NoTask
  <2>4. \A g \in Workers : Marking(g, e)' => Marking(g, e)
    BY <2>2, <2>3, TaskMarks
  <2>5. Counted(e)' = Counted(e)
    BY <2>1 DEF Counted
  <2>6. CASE rows' = rows
    BY <1>c, <1>d, <2>1, <2>4, <2>5, <2>6 DEF Fits
  <2>7. CASE rows' = [rows EXCEPT ![Current(w)].applied = TRUE]
    <3>1. Current(w) \in task[w].todo /\ Current(w) \in Written /\ Current(w) \in Rows
      <4>1. task[w].todo # {}
        BY <2>1 DEF TasteBase, TaskInOrder, Handling
      <4> QED
        BY <4>1, CurrentInHand
    <3>2. e \in Likes
      BY <2>7, <3>1, RowMarked, SameLikes DEF RowsWell
    <3>3. Fits(e)
      BY <1>d, <2>1, <3>2
    <3>4. e = Current(w) => Marking(w, e)
      BY <2>1, <3>1 DEF Marking
    <3>5. e # Current(w) => rows'[e] = rows[e]
      BY <1>b, <2>7 DEF TasteBase, TasteTypeOK
    <3> QED
      BY <2>4, <2>5, <3>3, <3>4, <3>5 DEF Fits
  <2> QED
    BY <2>2, <2>6, <2>7
<1> QED
  BY <1>1, <1>2, <1>3, <1>4, <1>5, <1>6, QuietSteps, Shapes

(* What is in the taste is marked, or about to be, and was put there once. *)
LEMMA CountedOnceStep ==
    TasteBase /\ BasesTrue /\ OneHand /\ CountedOnce /\ [TasteNext]_tasteVars => CountedOnce'
<1> DEFINE Noted(e) == Counted(e) => rows[e].applied \/ \E g \in Workers : Marking(g, e)
           Once(e) == \A b \in Branches : taste[b][e] <= 1
<1> SUFFICES ASSUME TasteBase, BasesTrue, OneHand, CountedOnce, [TasteNext]_tasteVars, ~split', upsets' = 0,
                    NEW e \in Rows, e \notin relisted'
             PROVE  Noted(e)' /\ Once(e)'
  BY DEF CountedOnce
<1>a. ~split /\ upsets = 0
  BY SplitStays, UpsetsCount DEF tasteVars, lockVars
<1>b. e \notin relisted => Noted(e) /\ Once(e)
  BY <1>a DEF CountedOnce
<1>c. upsets' # upsets + 1
  BY <1>a
<1>d. \A b \in Branches : taste[b][e] \in Nat
  BY DEF TasteBase, TasteTypeOK, Tastes
<1>e. ASSUME taste' = taste
      PROVE  Counted(e)' = Counted(e) /\ Once(e)' = Once(e)
  BY <1>e DEF Counted
<1> HIDE DEF Noted, Once
<1>1. CASE Quiet
  <2>1. Noted(e) /\ Once(e) /\ rows' = rows /\ taste' = taste
    BY <1>1, <1>b DEF Quiet
  <2>2. \A g \in Workers : Marking(g, e) => Marking(g, e)'
    BY <1>1, <1>c DEF Quiet
  <2> QED
    BY <1>e, <2>1, <2>2 DEF Noted
<1>2. SUFFICES ASSUME TasteNext
               PROVE  Noted(e)' /\ Once(e)'
  BY <1>1, QuietSteps
<1>3. ASSUME NEW w \in Workers, TakesRows(w)
      PROVE  Noted(e)' /\ Once(e)'
  <2>1. taste' = taste /\ relisted' = relisted
    BY <1>2, <1>3, NewRowsUnmarked
  <2>2. Noted(e) /\ Once(e)
    BY <1>b, <2>1
  <2>3. rows[e].applied => rows'[e].applied
    <3>1. CASE e \in Written
      BY <1>2, <1>3, <3>1, NewRowsUnmarked
    <3>2. CASE e \notin Written
      BY <3>2 DEF Written, NoEvent
    <3> QED
      BY <3>1, <3>2
  <2>4. \A g \in Workers : Marking(g, e) => Marking(g, e)'
    BY <1>2, <1>3, NewRowsUnmarked
  <2> QED
    BY <1>e, <2>1, <2>2, <2>3, <2>4 DEF Noted
<1>4. ASSUME NEW w \in Workers, Checks(w)
      PROVE  Noted(e)' /\ Once(e)'
  <2>1. rows' = rows /\ taste' = taste /\ relisted' = relisted /\ task[w].pc = "check"
    BY <1>4 DEF Checks
  <2>2. Noted(e) /\ Once(e)
    BY <1>b, <2>1
  <2>3. PICK t : task' = [task EXCEPT ![w] = t]
    BY <1>4 DEF Checks
  <2>4. \A g \in Workers : Marking(g, e) => Marking(g, e)'
    <3>1. ~Marking(w, e)
      BY <2>1 DEF Marking
    <3> QED
      BY <2>3, <3>1, TaskMarks
  <2> QED
    BY <1>e, <2>1, <2>2, <2>4 DEF Noted
<1>5. ASSUME NEW w \in Workers, Writes(w)
      PROVE  Noted(e)' /\ Once(e)'
  <2>1. rows' = rows /\ relisted' = relisted /\ task[w].pc = "write"
    BY <1>5 DEF Writes
  <2>2. Noted(e) /\ Once(e)
    BY <1>b, <2>1
  <2>3. Current(w) \in task[w].todo
    <3>1. task[w].todo # {}
      BY <2>1 DEF TasteBase, TaskInOrder, Handling
    <3> QED
      BY <3>1, CurrentInHand
  <2>4. PICK t : /\ task' = [task EXCEPT ![w] = t]
                 /\ \/ \A b \in Branches, d \in Rows : taste'[b][d] = taste[b][d]
                    \/ t.pc = "mark" /\ t.todo = task[w].todo
    BY <1>5, <1>a, WriteCounts
  <2>5. \A g \in Workers : Marking(g, e) => Marking(g, e)'
    <3>1. ~Marking(w, e)
      BY <2>1 DEF Marking
    <3> QED
      BY <2>4, <3>1, TaskMarks
  <2>6. CASE \A b \in Branches : taste'[b][e] = taste[b][e]
    <3>1. Counted(e)' <=> Counted(e)
      BY <2>6 DEF Counted
    <3>2. Once(e)' <=> Once(e)
      BY <2>6 DEF Once
    <3> QED
      BY <2>1, <2>2, <2>5, <3>1, <3>2 DEF Noted
  <2>7. CASE e = Current(w) /\ t.pc = "mark" /\ t.todo = task[w].todo
    <3>1. Marking(w, e)'
      BY <2>3, <2>4, <2>7, TaskMarks
    <3>2. ~Counted(e)
      <4>1. ~rows[e].applied
        BY <2>1, <2>3, <2>7 DEF OneHand, Held
      <4>2. \A g \in Workers : ~Marking(g, e)
        BY <2>1, <2>3, <2>7 DEF OneHand, Marking
      <4> QED
        BY <2>2, <4>1, <4>2 DEF Noted
    <3>3. ASSUME NEW b \in Branches
          PROVE  taste'[b][e] <= 1
      <4>1. taste[b][e] = 0
        BY <1>d, <3>2 DEF Counted
      <4>2. taste'[b][e] <= taste[b][e] + 1
        BY <1>5, <1>a, WriteCounts
      <4> QED
        BY <4>1, <4>2
    <3> QED
      BY <3>1, <3>3 DEF Noted, Once
  <2>8. e # Current(w) => \A b \in Branches : taste'[b][e] = taste[b][e]
    BY <1>5, <1>a, WriteCounts
  <2> QED
    BY <2>4, <2>6, <2>7, <2>8
<1>6. ASSUME NEW w \in Workers, Marks(w)
      PROVE  Noted(e)' /\ Once(e)'
  <2>1. /\ taste' = taste /\ relisted' = relisted /\ task[w].pc = "mark"
        /\ rows' = [rows EXCEPT ![Current(w)].applied = TRUE]
    BY <1>6, <1>c DEF Marks
  <2>2. Noted(e) /\ Once(e)
    BY <1>b, <2>1
  <2>3. PICK t : task' = [task EXCEPT ![w] = t]
    BY <1>6 DEF Marks
  <2>4. rows \in [Rows -> EventRows]
    BY DEF TasteBase, TasteTypeOK
  <2>5. e = Current(w) => rows'[e].applied
    BY <2>1, <2>4 DEF EventRows
  <2>6. e # Current(w) => rows'[e] = rows[e]
    BY <2>1, <2>4
  <2>7. e # Current(w) => \A g \in Workers : Marking(g, e) => Marking(g, e)'
    <3>1. Marking(w, e) => e = Current(w)
      BY DEF Marking
    <3> QED
      BY <2>3, <3>1, TaskMarks
  <2> QED
    BY <1>e, <2>1, <2>2, <2>5, <2>6, <2>7 DEF Noted
<1> QED
  BY <1>1, <1>2, <1>3, <1>4, <1>5, <1>6, QuietSteps, Shapes

LEMMA ExactInvStep == TasteBase /\ ExactInv /\ [TasteNext]_tasteVars => ExactInv'
BY OneHolderStep, BasesTrueStep, AppliedCountedStep, OneHandStep, CountedOnceStep DEF ExactInv

(* What is marked as applied is in the taste once: whoever writes it holds *)
(* the user's one lock, so that what he adds to is still the taste, and    *)
(* has the event to himself.                                               *)
THEOREM CountedExactly == TasteSpec => []TasteExact
<1>1. TasteInit => ExactInv
  <2> SUFFICES ASSUME TasteInit
               PROVE  ExactInv
    OBVIOUS
  <2>1. Likes = {} /\ (\A w \in Workers : task[w] = NoTask)
    BY DEF TasteInit, Likes, Written
  <2>2. NoTask.pc = "idle" /\ NoTask.lock = 0 /\ NoTask.todo = {}
    BY DEF NoTask
  <2>3. OneHolder /\ BasesTrue /\ AppliedCounted /\ OneHand
    BY <2>1, <2>2 DEF OneHolder, Holds, Holding, BasesTrue, AppliedCounted, OneHand, Held
  <2>4. \A b \in Branches, e \in Rows : taste[b][e] = 0
    BY DEF TasteInit
  <2>5. CountedOnce
    BY <2>4 DEF CountedOnce, Counted
  <2> QED
    BY <2>3, <2>5 DEF ExactInv
<1>2. TasteBase /\ ExactInv => TasteExact
  <2>1. Likes \subseteq Rows
    BY DEF Likes, Written
  <2>2. ASSUME TasteBase, ExactInv, ~split, NEW e \in Likes, e \notin spurned
        PROVE  /\ rows[e].applied => \E b \in Branches : taste[b][e] > 0
               /\ e \in relisted \/ upsets > 0 \/ \A b \in Branches : taste[b][e] <= 1
    <3>1. upsets = 0 \/ upsets > 0
      BY <2>2 DEF TasteBase, TasteTypeOK
    <3> QED
      BY <2>1, <2>2, <3>1 DEF ExactInv, AppliedCounted, CountedOnce, Counted
  <2> QED
    BY <2>2 DEF TasteExact
<1> QED
  BY TasteBaseInitially, TasteBaseStep, ExactInvStep, <1>1, <1>2, PTL DEF TasteSpec

-----------------------------------------------------------------------------
(* The indexing.  A message about a track stands for what was done before  *)
(* it was sent: the file is stored, and for a DONE the vectors are written. *)
MailOK ==
  /\ mail \subseteq Message
  /\ \A m \in mail : m.song \in stored /\ row[m.song] # "none"
  /\ \A m \in mail : m.kind = "done" => m.song \in vectors

IndexInv ==
  /\ row \in [Recordings -> {"none", "new", "old", "indexed"}]
  /\ triggers \subseteq Recordings /\ looking \subseteq Recordings
  /\ vectors \subseteq stored /\ stored \subseteq Recordings \ Unplayable
  /\ \A s \in triggers : row[s] # "none"
  /\ \A s \in Recordings : row[s] = "indexed" => s \in vectors
  /\ MailOK

LEMMA MessageFacts ==
  /\ \A k \in {"uploaded", "audio", "done"}, s \in Recordings :
        Msg(k, s) \in Message /\ Msg(k, s).song = s /\ Msg(k, s).kind = k
  /\ \A m \in Message : \A n \in Again(m) : n \in Message /\ n.song = m.song /\ n.kind = m.kind
BY IndexingAssumption DEF Message, Msg, Again

(* What a handler may leave in the mail: what was there, and what it sends. *)
LEMMA MailStep ==
    ASSUME IndexInv, NEW m \in mail, NEW out, Handled(m, out) \/ mail' = (mail \ {m}) \cup Again(m),
           out \subseteq Message, stored \subseteq stored', vectors \subseteq vectors',
           \A s \in Recordings : row[s] # "none" => row'[s] # "none",
           \A n \in out : n.song = m.song /\ (n.kind = "done" => m.song \in vectors')
    PROVE  MailOK'
<1>1. \A n \in mail' : n \in mail \/ n \in Again(m) \/ n \in out
  BY DEF Handled
<1>2. m \in Message /\ m.song \in stored /\ row[m.song] # "none" /\ m.song \in Recordings
  BY DEF IndexInv, MailOK, Message
<1>3. ASSUME NEW n \in Again(m)
      PROVE  n \in Message /\ n.song = m.song /\ n.kind = m.kind
  BY <1>2, MessageFacts
<1>4. ASSUME NEW n \in mail'
      PROVE  /\ n \in Message /\ n.song \in stored' /\ row'[n.song] # "none"
             /\ n.kind = "done" => n.song \in vectors'
  <2>1. CASE n \in mail
    BY <2>1 DEF IndexInv, MailOK, Message
  <2>2. CASE n \in Again(m)
    BY <2>2, <1>2, <1>3 DEF IndexInv, MailOK
  <2>3. CASE n \in out
    BY <2>3, <1>2
  <2>4. QED
    BY <1>1, <1>4, <2>1, <2>2, <2>3
<1>5. QED
  BY <1>4 DEF MailOK

(* A message is added for a track that is stored. *)
LEMMA MailSent ==
    ASSUME IndexInv, NEW s \in stored', row[s] # "none", s \in Recordings,
           mail' = mail \cup {Msg("uploaded", s)}, UNCHANGED <<row, vectors>>, stored \subseteq stored'
    PROVE  MailOK'
<1>1. /\ Msg("uploaded", s) \in Message
      /\ Msg("uploaded", s).song = s /\ Msg("uploaded", s).kind # "done"
  BY MessageFacts
<1>2. QED
  BY <1>1 DEF IndexInv, MailOK

LEMMA RowsStay ==
    ASSUME IndexInv, NEW s \in Recordings
    PROVE  /\ Inserted(s) \in [Recordings -> {"none", "new", "old", "indexed"}]
           /\ \A x \in Recordings : /\ row[x] # "none" => Inserted(s)[x] = row[x]
                                    /\ Inserted(s)[x] = "indexed" <=> row[x] = "indexed"
           /\ Inserted(s)[s] # "none"
BY DEF IndexInv, Inserted

LEMMA SeenKeeps ==
    ASSUME IndexInv, NEW s \in Recordings,
           Observe(s) \/ LookFails(s) \/ EnsureTrackIndexed(s) \/ EnsureTrackQueued(s) \/ Ages(s)
    PROVE  IndexInv'
<1>1. CASE Observe(s) \/ LookFails(s)
  BY <1>1 DEF Observe, LookFails, IndexInv, MailOK
<1>2. CASE EnsureTrackQueued(s)
  BY <1>2 DEF EnsureTrackQueued, NotIndexed, IndexInv, MailOK
<1>3. CASE Ages(s)
  <2>1. row' = [row EXCEPT ![s] = "old"] /\ row[s] = "new"
    BY <1>3 DEF Ages
  <2>2. \A x \in Recordings : /\ row[x] # "none" => row'[x] # "none"
                              /\ row'[x] = "indexed" => row[x] = "indexed"
    BY <2>1 DEF IndexInv
  <2>3. \A m \in mail : m.song \in Recordings
    BY DEF IndexInv, MailOK, Message
  <2>4. QED
    BY <1>3, <2>1, <2>2, <2>3 DEF Ages, IndexInv, MailOK
<1>4. CASE EnsureTrackIndexed(s)
  <2>1. row' = Inserted(s) /\ triggers' \subseteq triggers \cup {s} /\ looking' \subseteq looking
        /\ UNCHANGED <<stored, vectors, mail>>
    BY <1>4 DEF EnsureTrackIndexed
  <2>2. \A m \in mail : m.song \in Recordings
    BY DEF IndexInv, MailOK, Message
  <2>3. MailOK'
    BY <2>1, <2>2, RowsStay DEF IndexInv, MailOK
  <2>4. QED
    BY <2>1, <2>3, RowsStay DEF IndexInv
<1>5. QED
  BY <1>1, <1>2, <1>3, <1>4

LEMMA TriggerKeeps ==
    ASSUME IndexInv, NEW s \in Recordings, TriggerStep(s)
    PROVE  IndexInv'
<1>1. CASE TriggerFails(s)
  BY <1>1 DEF TriggerFails, IndexInv, MailOK
<1>2. CASE TriggerCached(s)
  <2>1. MailOK'
    BY <1>2, MailSent DEF TriggerCached, IndexInv
  <2>2. QED
    BY <1>2, <2>1 DEF TriggerCached, IndexInv
<1>3. CASE TranscodeUpload(s)
  <2>1. stored' = stored \cup {s} /\ s \notin Unplayable /\ row[s] # "none"
        /\ UNCHANGED <<row, looking, vectors>> /\ triggers' = triggers \ {s}
    BY <1>3 DEF TranscodeUpload, IndexInv
  <2>2. MailOK'
    <3>1. CASE mail' = mail
      BY <2>1, <3>1 DEF IndexInv, MailOK
    <3>2. CASE mail' = mail \cup {Msg("uploaded", s)}
      BY <2>1, <3>2, MailSent
    <3>3. QED
      BY <1>3, <3>1, <3>2 DEF TranscodeUpload
  <2>3. QED
    BY <2>1, <2>2 DEF IndexInv
<1>4. QED
  BY <1>1, <1>2, <1>3 DEF TriggerStep

LEMMA DeliverKeeps ==
    ASSUME IndexInv, NEW m \in mail, Deliver(m)
    PROVE  IndexInv'
<1> DEFINE s == m.song
<1>1. /\ m \in Message /\ s \in Recordings /\ s \in stored /\ row[s] # "none"
      /\ m.kind = "done" => s \in vectors
  BY DEF IndexInv, MailOK, Message
<1>2. \A k \in {"audio", "done"} : Msg(k, s) \in Message /\ Msg(k, s).song = s /\ Msg(k, s).kind = k
  BY <1>1, MessageFacts
<1> HIDE DEF s
<1>3. CASE StorageUploaded(m)
  <2>1. /\ row' = Inserted(s) /\ UNCHANGED <<looking, triggers, stored, vectors>>
        /\ \E out \in {{}, {Msg("audio", s)}} : Handled(m, out)
    BY <1>3 DEF StorageUploaded, s
  <2>2. PICK out \in {{}, {Msg("audio", s)}} : Handled(m, out)
    BY <2>1
  <2>3. \A n \in out : n \in Message /\ n.song = m.song /\ n.kind # "done"
    BY <1>2 DEF s
  <2>4. \A x \in Recordings : row[x] # "none" => row'[x] # "none"
    BY <1>1, <2>1, RowsStay
  <2>5. MailOK'
    <3>1. out \subseteq Message
      BY <2>3
    <3>2. stored \subseteq stored' /\ vectors \subseteq vectors'
      BY <2>1
    <3>3. QED
      BY <2>2, <2>3, <2>4, <3>1, <3>2, MailStep
  <2>6. QED
    BY <1>1, <2>1, <2>5, RowsStay DEF IndexInv
<1>4. CASE IndexAudio(m)
  <2>1. /\ vectors' = vectors \cup {s} /\ Handled(m, {Msg("done", s)})
        /\ UNCHANGED <<row, looking, triggers, stored>>
    BY <1>4 DEF IndexAudio, s
  <2>2. MailOK'
    <3>1. {Msg("done", s)} \subseteq Message
      BY <1>2
    <3>2. stored \subseteq stored' /\ vectors \subseteq vectors' /\ s \in vectors'
      BY <2>1
    <3>3. \A n \in {Msg("done", s)} : n.song = m.song
      BY <1>2 DEF s
    <3>4. QED
      BY <2>1, <3>1, <3>2, <3>3, MailStep DEF s
  <2>3. QED
    BY <1>1, <2>1, <2>2 DEF IndexInv
<1>5. CASE DoneIndexAudio(m)
  <2>1. /\ m.kind = "done" /\ Handled(m, {})
        /\ row' = [row EXCEPT ![s] = IF @ = "none" THEN @ ELSE "indexed"]
        /\ UNCHANGED <<looking, triggers, stored, vectors>>
    BY <1>5 DEF DoneIndexAudio, s
  <2>2. /\ row' \in [Recordings -> {"none", "new", "old", "indexed"}]
        /\ \A x \in Recordings : row[x] # "none" => row'[x] # "none"
        /\ \A x \in Recordings : row'[x] = "indexed" => row[x] = "indexed" \/ x = s
    BY <1>1, <2>1 DEF IndexInv
  <2>3. MailOK'
    <3>1. stored \subseteq stored' /\ vectors \subseteq vectors'
      BY <2>1
    <3>2. QED
      BY <2>1, <2>2, <3>1, MailStep
  <2>4. QED
    BY <1>1, <2>1, <2>2, <2>3 DEF IndexInv
<1>6. CASE HandlerFails(m)
  <2>1. mail' = (mail \ {m}) \cup Again(m) /\ UNCHANGED <<looking, triggers, stored>>
    BY <1>6 DEF HandlerFails
  <2>2. /\ row' = row \/ row' = Inserted(s)
        /\ vectors' = vectors \/ vectors' = vectors \cup {s}
    BY <1>6 DEF HandlerFails, s
  <2>3. /\ row' \in [Recordings -> {"none", "new", "old", "indexed"}]
        /\ \A x \in Recordings : row[x] # "none" => row'[x] # "none"
        /\ \A x \in Recordings : row'[x] = "indexed" => row[x] = "indexed"
    BY <1>1, <2>2, RowsStay DEF IndexInv
  <2>4. MailOK'
    <3>1. stored \subseteq stored' /\ vectors \subseteq vectors'
      BY <2>1, <2>2
    <3>2. /\ Handled(m, {}) \/ mail' = (mail \ {m}) \cup Again(m)
          /\ {} \subseteq Message
          /\ \A n \in {} : n.song = m.song /\ (n.kind = "done" => m.song \in vectors')
      BY <2>1
    <3>3. QED
      BY <2>3, <3>1, <3>2, MailStep
  <2>5. QED
    BY <1>1, <2>1, <2>2, <2>3, <2>4 DEF IndexInv
<1>7. QED
  BY <1>3, <1>4, <1>5, <1>6 DEF Deliver

LEMMA IndexStep == IndexInv /\ [IndexNext]_indexVars => IndexInv'
<1> SUFFICES ASSUME IndexInv, [IndexNext]_indexVars PROVE IndexInv'
  OBVIOUS
<1>1. ASSUME NEW m \in mail, MessageExpires(m) PROVE IndexInv'
  BY <1>1 DEF MessageExpires, IndexInv, MailOK
<1>2. CASE Reap
  <2>1. PICK S \in Picked : triggers' = triggers \cup S
    BY <1>2 DEF Reap
  <2>2. S \subseteq Recordings /\ \A s \in S : row[s] # "none"
    BY <2>1 DEF Picked, Stuck
  <2>3. QED
    BY <1>2, <2>1, <2>2 DEF Reap, IndexInv, MailOK
<1>3. CASE UNCHANGED indexVars
  BY <1>3 DEF indexVars, IndexInv, MailOK
<1>4. QED
  BY <1>1, <1>2, <1>3, SeenKeeps, TriggerKeeps, DeliverKeeps DEF IndexNext

(* An indexed track really has its vectors and its file, for any number of *)
(* tracks, deliveries and faults: the row is only marked by a message that *)
(* was sent after the vectors were written.                                *)
THEOREM IndexedIsTrue == IndexSpec => []IndexedTruly
<1>1. IndexInit => IndexInv
  BY DEF IndexInit, IndexInv, MailOK
<1>2. IndexInv => IndexedTruly
  BY DEF IndexInv, IndexedTruly
<1>3. QED
  BY <1>1, <1>2, IndexStep, PTL DEF IndexSpec

(* No trigger and no message is about a track without a row.               *)
THEOREM RowsComeFirst == IndexSpec => []RowsFirst
<1>1. IndexInit => IndexInv
  BY DEF IndexInit, IndexInv, MailOK
<1>2. IndexInv => RowsFirst
  BY DEF IndexInv, MailOK, RowsFirst
<1>3. QED
  BY <1>1, <1>2, IndexStep, PTL DEF IndexSpec

-----------------------------------------------------------------------------
(* The enrichment.  A process that enriches holds its track's lock unless  *)
(* its connection was cut, so those without one are no more than the       *)
(* faults, and those with one are alone.                                   *)
Steps == {"idle", "read", "lock", "resolve", "apply", "unlock", "failing", "failed"}
Unguarded == {p \in Enrichers : Enriching(p) /\ Lock(p) \notin locked}

EnrichInv ==
  /\ handling \in [Enrichers -> [pc : Steps, track : Works \cup {NoWork}]]
  /\ \A p \in Enrichers : handling[p].pc # "idle" => handling[p].track \in Works
  /\ locked \subseteq Works \X Enrichers
  /\ \A t \in Works, p \in Enrichers : <<t, p>> \in locked => Enriching(p) /\ Of(p) = t
  /\ \A t \in Works : \A p, q \in Enrichers : <<t, p>> \in locked /\ <<t, q>> \in locked => p = q
  /\ crashes \in Nat
  /\ Cardinality(Unguarded) <= crashes

LEMMA UnguardedSets ==
  /\ Unguarded \subseteq Enrichers /\ Unguarded' \subseteq Enrichers
  /\ IsFiniteSet(Unguarded) /\ IsFiniteSet(Unguarded')
<1>1. Unguarded \subseteq Enrichers /\ Unguarded' \subseteq Enrichers
  BY DEF Unguarded
<1>2. QED
  BY <1>1, FS_Subset, EnrichAssumption

LEMMA OneMoreUnguarded ==
    ASSUME NEW p
    PROVE  /\ Cardinality(Unguarded) \in Nat /\ IsFiniteSet(Unguarded \cup {p})
           /\ Cardinality(Unguarded \cup {p}) \in Nat
           /\ Cardinality(Unguarded \cup {p}) <= Cardinality(Unguarded) + 1
<1>1. Cardinality(Unguarded) \in Nat
  BY UnguardedSets, FS_CardinalityType
<1>2. /\ IsFiniteSet(Unguarded \cup {p})
      /\ Cardinality(Unguarded \cup {p}) =
           IF p \in Unguarded THEN Cardinality(Unguarded) ELSE Cardinality(Unguarded) + 1
  BY UnguardedSets, FS_AddElement
<1>3. QED
  BY <1>1, <1>2

(* The books of the faults: the unguarded grow by one at most, with a fault. *)
LEMMA UnguardedCounted ==
    ASSUME crashes \in Nat, Cardinality(Unguarded) <= crashes,
           \/ Unguarded' \subseteq Unguarded /\ (crashes' = crashes \/ crashes' = crashes + 1)
           \/ crashes' = crashes + 1 /\ \E p \in Enrichers : Unguarded' \subseteq Unguarded \cup {p}
    PROVE  crashes' \in Nat /\ Cardinality(Unguarded') <= crashes'
<1>1. Cardinality(Unguarded) \in Nat /\ Cardinality(Unguarded') \in Nat
  BY UnguardedSets, FS_CardinalityType
<1>2. CASE Unguarded' \subseteq Unguarded /\ (crashes' = crashes \/ crashes' = crashes + 1)
  <2>1. Cardinality(Unguarded') <= Cardinality(Unguarded)
    BY <1>2, UnguardedSets, FS_Subset
  <2>2. QED
    BY <1>1, <1>2, <2>1
<1>3. CASE crashes' = crashes + 1 /\ \E p \in Enrichers : Unguarded' \subseteq Unguarded \cup {p}
  <2>1. PICK p \in Enrichers : Unguarded' \subseteq Unguarded \cup {p}
    BY <1>3
  <2>2. /\ IsFiniteSet(Unguarded \cup {p}) /\ Cardinality(Unguarded \cup {p}) \in Nat
        /\ Cardinality(Unguarded \cup {p}) <= Cardinality(Unguarded) + 1
    BY OneMoreUnguarded
  <2>3. Cardinality(Unguarded') <= Cardinality(Unguarded \cup {p})
    BY <2>1, <2>2, FS_Subset
  <2>4. QED
    BY <1>1, <1>3, <2>2, <2>3
<1>4. QED
  BY <1>2, <1>3

(* What a step changes: the handler of one process, and its lock.          *)
LEMMA OneHandles ==
    ASSUME EnrichInv, NEW p \in Enrichers, NEW h \in [pc : Steps, track : Works \cup {NoWork}],
           h.pc # "idle" => h.track \in Works,
           handling' = [handling EXCEPT ![p] = h],
           locked' \subseteq locked \cup {<<h.track, p>>},
           locked \subseteq locked' \cup {Lock(p)},
           h.pc \notin {"resolve", "apply", "unlock", "failing"} \/ h.track # Of(p) => Lock(p) \notin locked',
           <<h.track, p>> \in locked' \ locked =>
             /\ h.pc \in {"resolve", "apply", "unlock", "failing"} /\ HoldersOf(h.track) = {},
           \/ p \notin Unguarded'
           \/ p \in Unguarded,
           crashes' = crashes \/ crashes' = crashes + 1
    PROVE  EnrichInv'
<1> DEFINE busy == {"resolve", "apply", "unlock", "failing"}
<1>1. /\ handling' \in [Enrichers -> [pc : Steps, track : Works \cup {NoWork}]]
      /\ \A q \in Enrichers : handling'[q] = IF q = p THEN h ELSE handling[q]
  BY DEF EnrichInv
<1>2. \A q \in Enrichers \ {p} :
        /\ Enriching(q)' <=> Enriching(q)
        /\ Of(q)' = Of(q) /\ Lock(q)' = Lock(q) /\ Lock(q)[2] # p
        /\ Lock(q)' \in locked' <=> Lock(q) \in locked
  BY <1>1 DEF Enriching, Of, Lock
<1>3. Enriching(p)' <=> h.pc \in busy
  BY <1>1 DEF Enriching
<1>4. Of(p)' = h.track
  BY <1>1 DEF Of
<1>5. \A t \in Works, q \in Enrichers : <<t, q>> \in locked' => Enriching(q)' /\ Of(q)' = t
  <2> SUFFICES ASSUME NEW t \in Works, NEW q \in Enrichers, <<t, q>> \in locked'
               PROVE  Enriching(q)' /\ Of(q)' = t
    OBVIOUS
  <2>1. CASE q # p
    <3>1. <<t, q>> \in locked
      BY <2>1
    <3>2. QED
      BY <2>1, <3>1, <1>2 DEF EnrichInv
  <2>2. CASE q = p /\ <<t, q>> \in locked
    <3>1. Enriching(p) /\ Of(p) = t /\ <<t, q>> = Lock(p)
      BY <2>2 DEF EnrichInv, Lock
    <3>2. h.pc \in busy /\ h.track = t
      BY <3>1
    <3>3. QED
      BY <2>2, <3>2, <1>3, <1>4
  <2>3. CASE q = p /\ <<t, q>> \notin locked
    <3>1. <<t, q>> = <<h.track, p>> /\ h.pc \in busy
      BY <2>3
    <3>2. QED
      BY <2>3, <3>1, <1>3, <1>4
  <2>4. QED
    BY <2>1, <2>2, <2>3
<1>6. \A t \in Works : \A q, r \in Enrichers : <<t, q>> \in locked' /\ <<t, r>> \in locked' => q = r
  <2> SUFFICES ASSUME NEW t \in Works, NEW q \in Enrichers, NEW r \in Enrichers,
                      <<t, q>> \in locked', <<t, r>> \in locked'
               PROVE  q = r
    OBVIOUS
  <2>1. CASE <<t, q>> \in locked /\ <<t, r>> \in locked
    BY <2>1 DEF EnrichInv
  <2>2. CASE <<t, q>> \notin locked /\ <<t, r>> \in locked
    BY <2>2 DEF HoldersOf
  <2>3. CASE <<t, q>> \in locked /\ <<t, r>> \notin locked
    BY <2>3 DEF HoldersOf
  <2>4. CASE <<t, q>> \notin locked /\ <<t, r>> \notin locked
    BY <2>4
  <2>5. QED
    BY <2>1, <2>2, <2>3, <2>4
<1>7. locked' \subseteq Works \X Enrichers
  <2>1. <<h.track, p>> \in locked' \ locked => h.track \in Works
    BY DEF Steps
  <2>2. QED
    BY <2>1 DEF EnrichInv
<1>8. Unguarded' \subseteq Unguarded
  <2>1. \A q \in Enrichers \ {p} : q \in Unguarded' => q \in Unguarded
    BY <1>2 DEF Unguarded
  <2>2. Unguarded' \subseteq Enrichers
    BY UnguardedSets
  <2>3. QED
    BY <2>1, <2>2
<1>9. crashes' \in Nat /\ Cardinality(Unguarded') <= crashes'
  BY <1>8, UnguardedCounted DEF EnrichInv
<1>10. \A q \in Enrichers : handling'[q].pc # "idle" => handling'[q].track \in Works
  BY <1>1 DEF EnrichInv
<1>11. QED
  BY <1>1, <1>5, <1>6, <1>7, <1>9, <1>10 DEF EnrichInv

LEMMA HandlerTyped ==
    ASSUME EnrichInv, NEW p \in Enrichers
    PROVE  /\ handling[p] \in [pc : Steps, track : Works \cup {NoWork}]
           /\ handling[p].pc # "idle" => Of(p) \in Works
           /\ \A pc \in Steps : /\ [handling[p] EXCEPT !.pc = pc] \in [pc : Steps, track : Works \cup {NoWork}]
                                /\ [handling[p] EXCEPT !.pc = pc].track = Of(p)
                                /\ [handling[p] EXCEPT !.pc = pc].pc = pc
           /\ IdleHandler \in [pc : Steps, track : Works \cup {NoWork}] /\ IdleHandler.pc = "idle"
           /\ Lock(p) \in locked => Enriching(p)
BY DEF EnrichInv, Of, Lock, IdleHandler, Steps

(* A step of the handler that leaves it with a lock it had, or with none.  *)
LEMMA HandlerMoves ==
    ASSUME EnrichInv, NEW p \in Enrichers, NEW h \in [pc : Steps, track : Works \cup {NoWork}],
           h.pc # "idle" => h.track \in Works,
           handling' = [handling EXCEPT ![p] = h],
           locked' = locked \/ locked' = locked \ {Lock(p)},
           crashes' = crashes \/ crashes' = crashes + 1,
           \/ h.pc \notin {"resolve", "apply", "unlock", "failing"} /\ Lock(p) \notin locked'
           \/ /\ h.pc \in {"resolve", "apply", "unlock", "failing"} /\ h.track = Of(p)
              /\ Enriching(p) /\ locked' = locked
    PROVE  EnrichInv'
<1>1. handling'[p] = h
  BY DEF EnrichInv
<1>2. p \notin Unguarded' \/ p \in Unguarded
  <2>1. CASE h.pc \notin {"resolve", "apply", "unlock", "failing"}
    BY <1>1, <2>1 DEF Unguarded, Enriching
  <2>2. CASE h.track = Of(p) /\ Enriching(p) /\ locked' = locked
    BY <1>1, <2>2 DEF Unguarded, Lock, Of
  <2>3. QED
    BY <2>1, <2>2
<1>3. locked \subseteq locked' \cup {Lock(p)} /\ locked' \subseteq locked \cup {<<h.track, p>>}
      /\ <<h.track, p>> \notin locked' \ locked
  <2>1. CASE locked' = locked
    BY <2>1
  <2>2. CASE locked' = locked \ {Lock(p)}
    BY <2>2
  <2>3. QED
    BY <2>1, <2>2
<1>4. h.pc \notin {"resolve", "apply", "unlock", "failing"} \/ h.track # Of(p) => Lock(p) \notin locked'
  OBVIOUS
<1>5. QED
  BY <1>2, <1>3, <1>4, OneHandles

LEMMA MovesKeep ==
    ASSUME EnrichInv, NEW p \in Enrichers,
           ReadRow(p) \/ Resolve(p) \/ Apply(p) \/ ApplyFails(p)
             \/ Unlock(p) \/ UnlockAfterFailure(p) \/ MarkFailed(p) \/ EnricherDies(p)
    PROVE  EnrichInv'
<1> DEFINE At(pc) == [handling[p] EXCEPT !.pc = pc]
<1>1. \A pc : Proceeds(p, pc) => handling' = [handling EXCEPT ![p] = At(pc)]
  BY DEF Proceeds
<1>2. /\ handling[p] \in [pc : Steps, track : Works \cup {NoWork}]
      /\ \A pc \in Steps : At(pc) \in [pc : Steps, track : Works \cup {NoWork}]
                             /\ At(pc).track = Of(p) /\ At(pc).pc = pc
      /\ handling[p].pc # "idle" => Of(p) \in Works
  BY HandlerTyped
<1>3. /\ IdleHandler \in [pc : Steps, track : Works \cup {NoWork}] /\ IdleHandler.pc = "idle"
      /\ Lock(p) \in locked => Enriching(p)
  BY HandlerTyped
<1> HIDE DEF At
<1>4. CASE Rests(p) /\ ((~Enriching(p) /\ locked' = locked) \/ locked' = locked \ {Lock(p)})
            /\ (crashes' = crashes \/ crashes' = crashes + 1)
  <2>1. Lock(p) \notin locked'
    BY <1>3, <1>4
  <2>2. handling' = [handling EXCEPT ![p] = IdleHandler]
    BY <1>4 DEF Rests
  <2>3. QED
    BY <1>3, <1>4, <2>1, <2>2, HandlerMoves
<1>5. CASE /\ locked' = locked /\ (crashes' = crashes \/ crashes' = crashes + 1) /\ Enriching(p)
           /\ \E pc \in {"apply", "unlock", "failing"} : Proceeds(p, pc)
  <2>1. PICK pc \in {"apply", "unlock", "failing"} : Proceeds(p, pc)
    BY <1>5
  <2>2. pc \in Steps /\ handling[p].pc # "idle"
    BY <1>5 DEF Steps, Enriching
  <2>3. QED
    BY <1>1, <1>2, <1>5, <2>1, <2>2, HandlerMoves
<1>6. CASE /\ UNCHANGED crashes /\ (Proceeds(p, "lock") \/ Proceeds(p, "failed"))
           /\ ((~Enriching(p) /\ locked' = locked) \/ locked' = locked \ {Lock(p)})
           /\ handling[p].pc # "idle"
  <2>1. Lock(p) \notin locked'
    BY <1>3, <1>6
  <2>2. PICK pc \in {"lock", "failed"} : Proceeds(p, pc)
    BY <1>6
  <2>3. pc \in Steps /\ pc \notin {"resolve", "apply", "unlock", "failing"}
    BY DEF Steps
  <2>4. QED
    BY <1>1, <1>2, <1>6, <2>1, <2>2, <2>3, HandlerMoves
<1>7. CASE ReadRow(p) \/ MarkFailed(p)
  <2>1. ~Enriching(p) /\ handling[p].pc # "idle" /\ locked' = locked
    BY <1>7 DEF ReadRow, MarkFailed, Enriching
  <2>2. \/ Rests(p) /\ (crashes' = crashes \/ crashes' = crashes + 1)
        \/ Proceeds(p, "lock") /\ crashes' = crashes
    BY <1>7 DEF ReadRow, MarkFailed, NoCrash, Crash
  <2>3. QED
    BY <2>1, <2>2, <1>4, <1>6
<1>8. CASE Resolve(p) \/ Apply(p) \/ ApplyFails(p)
  BY <1>5, <1>8 DEF Resolve, Apply, ApplyFails, Enriching, NoCrash, Crash
<1>9. CASE Unlock(p) \/ EnricherDies(p)
  BY <1>4, <1>9 DEF Unlock, EnricherDies, NoCrash, Crash
<1>10. CASE UnlockAfterFailure(p)
  BY <1>6, <1>10 DEF UnlockAfterFailure, NoCrash
<1>11. QED
  BY <1>7, <1>8, <1>9, <1>10

LEMMA DeliveryKeeps ==
    ASSUME EnrichInv, NEW p \in Enrichers, NEW t \in Works, HandleMessage(p, t)
    PROVE  EnrichInv'
<1> DEFINE h == [pc |-> "read", track |-> t]
<1>1. h \in [pc : Steps, track : Works \cup {NoWork}] /\ h.pc = "read" /\ h.track \in Works
  BY DEF Steps
<1>2. handling' = [handling EXCEPT ![p] = h] /\ handling[p].pc = "idle" /\ locked' = locked
      /\ (crashes' = crashes \/ crashes' = crashes + 1)
  BY DEF HandleMessage, NoCrash, Crash
<1>3. Lock(p) \notin locked
  BY <1>2, HandlerTyped DEF Enriching
<1> HIDE DEF h
<1>4. QED
  BY <1>1, <1>2, <1>3, HandlerMoves

LEMMA TryLockKeeps ==
    ASSUME EnrichInv, NEW p \in Enrichers, TryAdvisoryLock(p)
    PROVE  EnrichInv'
<1> DEFINE h == [handling[p] EXCEPT !.pc = "resolve"]
<1>1. handling[p].pc = "lock" /\ Of(p) \in Works /\ ~Enriching(p) /\ Lock(p) \notin locked
  BY HandlerTyped DEF TryAdvisoryLock, Enriching
<1>2. UNCHANGED crashes
  BY DEF TryAdvisoryLock, NoCrash
<1>3. CASE HoldersOf(Of(p)) # {}
  <2>1. handling' = [handling EXCEPT ![p] = IdleHandler] /\ locked' = locked
    BY <1>3 DEF TryAdvisoryLock, Rests
  <2>2. IdleHandler \in [pc : Steps, track : Works \cup {NoWork}] /\ IdleHandler.pc = "idle"
    BY HandlerTyped
  <2>3. QED
    BY <1>1, <1>2, <2>1, <2>2, HandlerMoves
<1>4. CASE HoldersOf(Of(p)) = {}
  <2>1. handling' = [handling EXCEPT ![p] = h] /\ locked' = locked \cup {Lock(p)}
    BY <1>4 DEF TryAdvisoryLock, Proceeds
  <2>2. h \in [pc : Steps, track : Works \cup {NoWork}] /\ h.track = Of(p) /\ h.pc = "resolve"
    BY HandlerTyped DEF Steps
  <2> HIDE DEF h
  <2>3. handling'[p] = h
    BY <2>1 DEF EnrichInv
  <2>4. p \notin Unguarded'
    BY <2>1, <2>2, <2>3 DEF Unguarded, Lock, Of
  <2>5. Lock(p) = <<h.track, p>>
    BY <2>2 DEF Lock
  <2>6. QED
    BY <1>1, <1>2, <1>4, <2>1, <2>2, <2>4, <2>5, OneHandles
<1>5. QED
  BY <1>3, <1>4

LEMMA LossKeeps ==
    ASSUME EnrichInv, NEW t \in Works, LockConnectionLost(t)
    PROVE  EnrichInv'
<1>1. PICK p \in Enrichers : locked' = locked \ {<<t, p>>} /\ <<t, p>> \in locked
  BY DEF LockConnectionLost, HoldersOf
<1>2. handling' = handling /\ crashes' = crashes + 1
  BY DEF LockConnectionLost, Crash
<1>3. Lock(p) = <<t, p>>
  BY <1>1 DEF EnrichInv, Lock
<1>4. \A q \in Enrichers : (Enriching(q)' <=> Enriching(q)) /\ Of(q)' = Of(q) /\ Lock(q)' = Lock(q)
  BY <1>2 DEF Enriching, Of, Lock
<1>5. Unguarded' \subseteq Unguarded \cup {p}
  <2>1. \A q \in Enrichers \ {p} : Lock(q) \in locked => Lock(q) \in locked'
    BY <1>1 DEF Lock
  <2>2. QED
    BY <1>4, <2>1 DEF Unguarded
<1>6. crashes' \in Nat /\ Cardinality(Unguarded') <= crashes'
  BY <1>2, <1>5, UnguardedCounted DEF EnrichInv
<1>7. locked' \subseteq locked
  BY <1>1
<1>8. QED
  BY <1>2, <1>4, <1>6, <1>7 DEF EnrichInv

(* The steps of other parts only touch the rows and the stream.            *)
LEMMA OutsideKeeps ==
    ASSUME EnrichInv, UNCHANGED <<handling, locked>>, crashes' = crashes \/ crashes' = crashes + 1
    PROVE  EnrichInv'
<1>1. Unguarded' = Unguarded
  BY DEF Unguarded, Enriching, Lock, Of
<1>2. crashes' \in Nat /\ Cardinality(Unguarded') <= crashes'
  BY <1>1, UnguardedCounted DEF EnrichInv
<1>3. QED
  BY <1>2 DEF EnrichInv, Enriching, Of

LEMMA EnrichStep == EnrichInv /\ [EnrichNext]_enrichVars => EnrichInv'
<1> SUFFICES ASSUME EnrichInv, [EnrichNext]_enrichVars PROVE EnrichInv'
  OBVIOUS
<1>1. ASSUME NEW p \in Enrichers, HandlerRuns(p) \/ EnricherDies(p) PROVE EnrichInv'
  BY <1>1, MovesKeep, DeliveryKeeps, TryLockKeeps DEF HandlerRuns
<1>2. ASSUME NEW t \in Works, TrackKnown(t) \/ PublishEnrich(t) \/ MessageLost(t) \/ Backfill(t)
                                \/ BackoffEnds(t) \/ GetsStale(t)
      PROVE  EnrichInv'
  BY <1>2, OutsideKeeps DEF TrackKnown, PublishEnrich, MessageLost, Backfill, BackoffEnds, GetsStale, NoCrash, Crash
<1>3. CASE UNCHANGED enrichVars
  BY <1>3, OutsideKeeps DEF enrichVars
<1>4. QED
  BY <1>1, <1>2, <1>3, LossKeeps DEF EnrichNext

(* A track is enriched by one process at a time, however messages are      *)
(* repeated and processes die, but for one more with every lock that was   *)
(* lost under its holder.                                                  *)
THEOREM EnrichedOnce == EnrichSpec => []EnrichedAlone
<1>1. EnrichInit => EnrichInv
  <2> SUFFICES ASSUME EnrichInit PROVE EnrichInv
    OBVIOUS
  <2>1. \A p \in Enrichers : handling[p] = IdleHandler /\ ~Enriching(p)
    BY DEF EnrichInit, Enriching, IdleHandler
  <2>2. Cardinality(Unguarded) = 0
    BY <2>1, FS_EmptySet DEF Unguarded
  <2>3. QED
    BY <2>1, <2>2 DEF EnrichInit, EnrichInv, IdleHandler, Steps
<1>2. EnrichInv => EnrichedAlone
  <2> SUFFICES ASSUME EnrichInv, NEW t \in Works
               PROVE  Cardinality({p \in Enrichers : Enriching(p) /\ Of(p) = t}) <= 1 + crashes
    BY DEF EnrichedAlone
  <2> DEFINE busy == {p \in Enrichers : Enriching(p) /\ Of(p) = t}
  <2>1. crashes \in Nat /\ Cardinality(Unguarded) \in Nat /\ Cardinality(Unguarded) <= crashes
    BY UnguardedSets, FS_CardinalityType DEF EnrichInv
  <2>2. \A p, q \in busy \ Unguarded : p = q
    BY DEF Unguarded, Lock, EnrichInv
  <2>3. CASE busy \subseteq Unguarded
    <3>1. Cardinality(busy) <= Cardinality(Unguarded) /\ IsFiniteSet(busy)
      BY <2>3, UnguardedSets, FS_Subset
    <3>2. Cardinality(busy) \in Nat
      BY <3>1, FS_CardinalityType
    <3>3. QED
      BY <2>1, <3>1, <3>2
  <2>4. CASE ~(busy \subseteq Unguarded)
    <3>1. PICK p \in busy : p \notin Unguarded
      BY <2>4
    <3>2. busy \subseteq Unguarded \cup {p}
      BY <2>2, <3>1
    <3> HIDE DEF busy
    <3>3. /\ IsFiniteSet(Unguarded \cup {p}) /\ Cardinality(Unguarded \cup {p}) \in Nat
          /\ Cardinality(Unguarded \cup {p}) <= Cardinality(Unguarded) + 1
      BY OneMoreUnguarded
    <3>4. Cardinality(busy) <= Cardinality(Unguarded \cup {p}) /\ IsFiniteSet(busy)
      BY <3>2, <3>3, FS_Subset
    <3>5. Cardinality(busy) \in Nat
      BY <3>4, FS_CardinalityType
    <3>6. Cardinality(busy) <= 1 + crashes
      BY <2>1, <3>3, <3>4, <3>5
    <3>7. QED
      BY <3>6 DEF busy
  <2>5. QED
    BY <2>3, <2>4
<1>3. QED
  BY <1>1, <1>2, EnrichStep, PTL DEF EnrichSpec
=============================================================================
