------------------------------ MODULE Discover ------------------------------
(***************************************************************************)
(* The catalogue of the backend (modules/discover): the aggregates that    *)
(* DiscoverService::refresh_aggregates writes into artists and albums, one *)
(* statement after the other, from tracks, plays and accounts that go on   *)
(* changing; the pages of artists and albums a client walks by cursor; and *)
(* the spotlight, built from what the admin promotes and, if room is left, *)
(* from stars.  Ids, names and genres are numbers in the database's order, *)
(* a date is its days since 1970-01-01, a year is counted from 1970 and    *)
(* has YearDays; the searches by text and the cached totals are left out.  *)
(***************************************************************************)
EXTENDS Integers, FiniteSets, Sequences, SequencesExt

CONSTANTS Artists, Albums,    \* the ids, in 1..n
          Recordings,         \* indexed_tracks
          NameOf,             \* normalized_name, normalized_title
          GenreOf, ReleasedOn, \* genre and release_date of a recording
          MaxTags,            \* the genres an artist keeps (3 in the code)
          LeadOf, ByOf, OwnerOf, \* at first: the artist of a recording, an album, an account
          Accounts,           \* SoundCloud accounts of artists
          AlwaysPremium,      \* SubscriptionsService::always_premium
          YearDays,
          None,               \* SQL's NULL
          Limits,             \* the limits a client asks for
          MaxSpotlight,       \* the clamp of a spotlight (24 in the code)
          MaxChanges,         \* bound: changes of what is counted
          MaxEdits            \* bound: the admin's edits

ASSUME DiscoverAssumption ==
  /\ Artists \subseteq Nat /\ Albums \subseteq Nat /\ YearDays \in Nat \ {0}
  /\ IsFiniteSet(Artists) /\ IsFiniteSet(Albums) /\ IsFiniteSet(Recordings)
  /\ NameOf \in [Artists \cup Albums -> Nat]
  /\ ReleasedOn \in [Recordings -> Nat \cup {None}] /\ GenreOf \in [Recordings -> Nat]
  /\ LeadOf \in [Recordings -> Artists] /\ ByOf \in [Albums -> Artists] /\ OwnerOf \in [Accounts -> Artists]
  /\ None \notin [p : Int, p2 : Int, n : Nat, id : Nat]   \* NULL is no cursor
  /\ AlwaysPremium \in BOOLEAN /\ Limits \subseteq Nat \ {0}
  /\ {MaxTags, MaxSpotlight, MaxChanges, MaxEdits} \subseteq Nat

VARIABLES art, alb,           \* the tables artists and albums
          rec, disc, owner, paying, \* what is counted: tracks, albums, accounts
          changes,
          refresh,            \* the statement at hand; whether something has changed
          fresh,              \* history: a refresh has ended and nothing has changed since it began
          walk,               \* a client's walk over the pages
          promoted, settings, edits, spot
factVars == <<rec, disc, owner, paying, changes>>
adminVars == <<promoted, settings, edits>>
discoverVars == <<art, alb, factVars, refresh, fresh, walk, adminVars, spot>>

NoArtist == [merged |-> FALSE, tracks |-> 0, feats |-> 0, records |-> 0,
             listeners |-> 0, trending |-> 0, tags |-> {}, star |-> FALSE]
NoAlbum == [tracks |-> 0, popularity |-> 0, star |-> FALSE, year |-> None, date |-> None]
NoWalk == [at |-> "idle", what |-> "artists", sort |-> "az", tag |-> None, limit |-> 1,
           cursor |-> None, seen |-> <<>>, undated |-> FALSE, quiet |-> TRUE]
NoSpot == [at |-> "idle", asked |-> 0, rows |-> <<>>, items |-> <<>>, used |-> {},
           show |-> FALSE, strategy |-> "popular"]

(* The tables hold what earlier refreshes left. *)
DiscoverInit(artists, albums) ==
  /\ art \in artists /\ alb \in albums
  /\ rec = [t \in Recordings |-> [lead |-> LeadOf[t], guests |-> {}, plays |-> "none", count |-> 0]]
  /\ disc = [d \in Albums |-> [by |-> ByOf[d], cuts |-> {}]]
  /\ owner = OwnerOf /\ paying = {}
  /\ changes = 0 /\ refresh = [at |-> "idle", clean |-> TRUE] /\ fresh = FALSE
  /\ walk = NoWalk /\ spot = NoSpot
  /\ promoted = {} /\ edits = 0
  /\ settings = [show |-> TRUE, strategy |-> "popular", limit |-> 2]

-----------------------------------------------------------------------------
(* What is counted changes under the refresh: a track is enriched, played  *)
(* or counted, put on an album; a subscription begins or ends; the admin   *)
(* merges two artists.                                                     *)
Changed ==
  /\ changes < MaxChanges /\ changes' = changes + 1
  /\ fresh' = FALSE /\ refresh' = [refresh EXCEPT !.clean = FALSE]
  /\ walk' = [walk EXCEPT !.quiet = FALSE]
  /\ UNCHANGED <<alb, adminVars, spot>>

TrackChanges(t) ==
  /\ Changed /\ UNCHANGED <<art, owner, paying, disc>>
  /\ \/ \E a \in Artists, g \in SUBSET Artists :
           a \notin g /\ rec' = [rec EXCEPT ![t].lead = a, ![t].guests = g]
     \/ \E p \in {"none", "old", "recent"} \ {rec[t].plays} : rec' = [rec EXCEPT ![t].plays = p]
     \/ rec' = [rec EXCEPT ![t].count = 1]

AlbumChanges(d, t) ==
  /\ Changed /\ UNCHANGED <<art, rec, owner, paying>>
  /\ disc' = [disc EXCEPT ![d].cuts = IF t \in @ THEN @ \ {t} ELSE @ \cup {t}]

SubscriptionChanges(u) ==
  /\ Changed /\ UNCHANGED <<art, rec, disc, owner>>
  /\ paying' = IF u \in paying THEN paying \ {u} ELSE paying \cup {u}

(* merge_artists, one transaction: it asks nothing about dst, which may be *)
(* merged itself.                                                          *)
MergeArtists(src, dst) ==
  LET To(a) == IF a = src THEN dst ELSE a
  IN /\ src # dst /\ Changed /\ UNCHANGED paying
     /\ art' = [art EXCEPT ![src].merged = TRUE]
     /\ rec' = [t \in Recordings |-> [rec[t] EXCEPT !.lead = To(@), !.guests = {To(a) : a \in @}]]
     /\ disc' = [d \in Albums |-> [disc[d] EXCEPT !.by = To(@)]]
     /\ owner' = [u \in Accounts |-> To(owner[u])]

-----------------------------------------------------------------------------
(* ORDER BY: tuples by their first difference, and the sequences of some    *)
(* rows in which none comes after one it is before; LIMIT.                  *)
Before(x, y) == \E k \in DOMAIN x : x[k] < y[k] /\ \A j \in 1..(k - 1) : x[j] = y[j]
InOrder(order) ==
  {rows \in [1..Cardinality(DOMAIN order) -> DOMAIN order] :
     \A j, k \in DOMAIN rows :
       j < k => rows[j] # rows[k] /\ ~Before(order[rows[k]], order[rows[j]])}
FirstRows(rows, n) == [k \in 1..(IF Len(rows) < n THEN Len(rows) ELSE n) |-> rows[k]]

LedBy(a) == {t \in Recordings : rec[t].lead = a}
Counts(a) == [tracks |-> Cardinality(LedBy(a)),
              feats |-> Cardinality({t \in Recordings : a \in rec[t].guests}),
              records |-> Cardinality({d \in Albums : disc[d].by = a})]
PlayedIn(a, ages) == Cardinality({t \in LedBy(a) : rec[t].plays \in ages})
(* trending_score, in hundredths *)
Trend(week, month) ==
  LET s == ((week * 3000) \div (7 * (month + 1)) - 50) \div 3
  IN IF s < 0 THEN 0 ELSE IF s > 100 THEN 100 ELSE s
Plays(a) == LET month == PlayedIn(a, {"old", "recent"})
            IN [listeners |-> month, trending |-> Trend(PlayedIn(a, {"recent"}), month)]
Genres(a) == {GenreOf[t] : t \in LedBy(a)}
(* the genres most of the tracks are of, the first by name if level *)
Tags(a) ==
  LET Rank(g) == <<-Cardinality({t \in LedBy(a) : GenreOf[t] = g}), g>>
  IN {g \in Genres(a) : Cardinality({h \in Genres(a) : Before(Rank(h), Rank(g))}) < MaxTags}
IsStar(a) == \E u \in Accounts : owner[u] = a /\ (AlwaysPremium \/ u \in paying)

Earliest(dates) == CHOOSE x \in dates : \A y \in dates : x <= y
Meta(d) == [tracks |-> Cardinality(disc[d].cuts),
            date |-> LET dates == {ReleasedOn[t] : t \in disc[d].cuts} \ {None}
                     IN IF dates = {} THEN alb[d].date ELSE Earliest(dates)]
CountOf(d) == Cardinality({t \in disc[d].cuts : rec[t].count > 0})
(* popularity_score, in hundredths; the logarithms keep the order *)
Popularity(d) ==
  LET most == CHOOSE m \in {CountOf(e) : e \in Albums} : \A e \in Albums : CountOf(e) <= m
  IN IF most = 0 THEN 0 ELSE (100 * CountOf(d)) \div most

Counted(r) == r.tracks > 0 \/ r.feats > 0 \/ r.records > 0
(* Mutant: only what counts now. *)
NowCounted == {a \in Artists : Counted(Counts(a))}
(* Each statement touches what counts for something now, or did before. *)
AffectedByCounts == {a \in Artists : Counted(Counts(a)) \/ Counted(art[a])}
AffectedByPlays == {a \in Artists : Plays(a).listeners > 0 \/ art[a].listeners > 0 \/ art[a].trending > 0}
AffectedByTags == {a \in Artists : Genres(a) # {} \/ art[a].tags # {}}
AffectedByStar == {a \in Artists : IsStar(a) \/ art[a].star}
AffectedByMeta == {d \in Albums : disc[d].cuts # {} \/ alb[d].tracks > 0}
AffectedByPopularity == {d \in Albums : CountOf(d) > 0 \/ alb[d].popularity > 0}
AffectedByAlbumStar == {d \in Albums : alb[d].star \/ art[disc[d].by].star}

(* A row with what a statement sets. *)
WithCounts(r, c) == [r EXCEPT !.tracks = c.tracks, !.feats = c.feats, !.records = c.records]
WithPlays(r, p) == [r EXCEPT !.listeners = p.listeners, !.trending = p.trending]
WithMeta(r, m) == [r EXCEPT !.tracks = m.tracks, !.date = m.date]

Statement(s, then) == refresh.at = s /\ refresh' = [refresh EXCEPT !.at = then]
SetArtists(affected, rows) ==
  /\ art' = [a \in Artists |-> IF a \in affected /\ ~art[a].merged THEN rows[a] ELSE art[a]]
  /\ UNCHANGED alb
SetAlbums(affected, rows) ==
  /\ alb' = [d \in Albums |-> IF d \in affected THEN rows[d] ELSE alb[d]]
  /\ UNCHANGED art

RefreshBegins ==
  /\ refresh.at = "idle" /\ refresh' = [at |-> "counts", clean |-> TRUE]
  /\ UNCHANGED <<art, alb, fresh>>
RefreshArtistCounts ==
  /\ Statement("counts", "plays") /\ UNCHANGED fresh
  /\ SetArtists(AffectedByCounts, [a \in Artists |-> WithCounts(art[a], Counts(a))])
RefreshArtistPlays ==
  /\ Statement("plays", "tags") /\ UNCHANGED fresh
  /\ SetArtists(AffectedByPlays, [a \in Artists |-> WithPlays(art[a], Plays(a))])
RefreshArtistTags ==
  /\ Statement("tags", "star") /\ UNCHANGED fresh
  /\ SetArtists(AffectedByTags, [a \in Artists |-> [art[a] EXCEPT !.tags = Tags(a)]])
RefreshArtistStar ==
  /\ Statement("star", "meta") /\ UNCHANGED fresh
  /\ SetArtists(AffectedByStar, [a \in Artists |-> [art[a] EXCEPT !.star = IsStar(a)]])
RefreshAlbumMeta ==
  /\ Statement("meta", "popularity") /\ UNCHANGED fresh
  /\ SetAlbums(AffectedByMeta, [d \in Albums |-> WithMeta(alb[d], Meta(d))])
RefreshAlbumPopularity ==
  /\ Statement("popularity", "albumStar") /\ UNCHANGED fresh
  /\ SetAlbums(AffectedByPopularity, [d \in Albums |-> [alb[d] EXCEPT !.popularity = Popularity(d)]])
RefreshAlbumStar ==
  /\ refresh.at = "albumStar"
  /\ refresh' = [at |-> "idle", clean |-> TRUE] /\ fresh' = (fresh \/ refresh.clean)
  /\ SetAlbums(AffectedByAlbumStar, [d \in Albums |-> [alb[d] EXCEPT !.star = art[disc[d].by].star]])
(* A statement fails, or the ten minutes are over: the rest waits for the  *)
(* next tick.                                                              *)
RefreshFails ==
  /\ refresh.at # "idle" /\ refresh' = [at |-> "idle", clean |-> TRUE]
  /\ UNCHANGED <<art, alb, fresh>>

RefreshAggregates ==
  /\ \/ RefreshBegins \/ RefreshArtistCounts \/ RefreshArtistPlays \/ RefreshArtistTags
     \/ RefreshArtistStar \/ RefreshAlbumMeta \/ RefreshAlbumPopularity
     \/ RefreshAlbumStar \/ RefreshFails
  /\ walk' = [walk EXCEPT !.quiet = @ /\ <<art', alb'>> = <<art, alb>>]
  /\ UNCHANGED <<factVars, adminVars, spot>>

-----------------------------------------------------------------------------
(* The pages.  The ORDER BY of a sort, the cursor made from the last row   *)
(* of a page, and what the next page's WHERE compares with it.  A date     *)
(* that is not there is 1 January of release_year, and that is 1970 if it  *)
(* is not there either; the cursor of "recent" takes release_date alone.   *)
Bit(b) == IF b THEN 1 ELSE 0
Day(date) == IF date = None THEN 0 ELSE date
ReleaseDay(r) == IF r.date # None THEN r.date
                 ELSE IF r.year # None THEN r.year * YearDays ELSE 0

ArtistKey(sort, r) == CASE sort = "listeners" -> <<-r.listeners, 0>>
                        [] sort = "tracks" -> <<-r.tracks, 0>>
                        [] sort = "star" -> <<-Bit(r.star), -r.trending>>
                        [] sort = "az" -> <<0, 0>>
                        [] OTHER -> <<-r.trending, 0>>
AlbumKey(sort, r) == CASE sort = "popular" -> <<-r.popularity, 0>>
                       [] sort = "tracks" -> <<-r.tracks, 0>>
                       [] sort = "az" -> <<0, 0>>
                       [] OTHER -> <<-ReleaseDay(r), 0>>
OrderOf(w, i) ==
  LET key == IF w.what = "artists" THEN ArtistKey(w.sort, art[i]) ELSE AlbumKey(w.sort, alb[i])
  IN <<key[1], key[2], NameOf[i], i>>

ArtistCursor(sort, i) ==
  LET r == art[i]
  IN [p |-> CASE sort = "listeners" -> r.listeners [] sort = "tracks" -> r.tracks
              [] sort = "star" -> Bit(r.star) [] sort = "az" -> 0 [] OTHER -> r.trending,
      p2 |-> IF sort = "star" THEN r.trending ELSE 0, n |-> NameOf[i], id |-> i]
AlbumCursor(sort, i) ==
  LET r == alb[i]
  IN [p |-> CASE sort = "popular" -> r.popularity [] sort = "tracks" -> r.tracks
              [] sort = "az" -> 0 [] OTHER -> Day(r.year),
      p2 |-> IF sort \in {"popular", "tracks", "az"} THEN 0 ELSE Day(r.date), n |-> NameOf[i], id |-> i]
CursorOf(w, i) == IF w.what = "artists" THEN ArtistCursor(w.sort, i) ELSE AlbumCursor(w.sort, i)
CursorKey(sort, c) == CASE sort = "star" -> <<-c.p, -c.p2>>
                        [] sort = "az" -> <<0, 0>>
                        [] sort = "recent" -> <<-c.p2, 0>>
                        [] OTHER -> <<-c.p, 0>>
(* Mutant: without the id that tells level rows apart. *)
FromCursorNoTies(sort, c) == <<CursorKey(sort, c)[1], CursorKey(sort, c)[2], c.n>>
FromCursor(sort, c) == <<CursorKey(sort, c)[1], CursorKey(sort, c)[2], c.n, c.id>>

Listed(w) ==
  IF w.what = "artists"
  THEN {a \in Artists : /\ ~art[a].merged /\ art[a].tracks + art[a].feats > 0
                        /\ w.tag # None => w.tag \in art[a].tags}
  ELSE {d \in Albums : alb[d].tracks > 0}
After(w) == {i \in Listed(w) : w.cursor # None => Before(FromCursor(w.sort, w.cursor), OrderOf(w, i))}

StartWalk(what, sort, tag, limit) ==
  /\ walk.at = "idle"
  /\ walk' = [NoWalk EXCEPT !.at = "page", !.what = what, !.sort = sort, !.tag = tag, !.limit = limit]
  /\ UNCHANGED <<art, alb, factVars, refresh, fresh, adminVars, spot>>
FetchPage ==
  /\ walk.at = "page"
  /\ \E rows \in InOrder([i \in After(walk) |-> OrderOf(walk, i)]) :
       LET more == Len(rows) > walk.limit
           last == rows[walk.limit]
       IN walk' = [walk EXCEPT !.at = IF more THEN "page" ELSE "end",
                               !.seen = @ \o FirstRows(rows, walk.limit),
                               !.cursor = IF more THEN CursorOf(walk, last) ELSE None,
                               !.undated = \/ @
                                           \/ /\ more /\ walk.what = "albums" /\ walk.sort = "recent"
                                              /\ alb[last].date = None /\ alb[last].year # None]
  /\ UNCHANGED <<art, alb, factVars, refresh, fresh, adminVars, spot>>

-----------------------------------------------------------------------------
(* What the admin promotes, and the settings. *)
Or(value, old) == IF value = None THEN old ELSE value
Entity(p) == <<p.type, p.id>>
Edited ==
  /\ edits < MaxEdits /\ edits' = edits + 1
  /\ UNCHANGED <<art, alb, factVars, refresh, fresh, walk, spot>>
PromotedCreate(type, id, position, active) ==
  LET old == {p \in promoted : Entity(p) = <<type, id>>}
      new == [type |-> type, id |-> id, position |-> Or(position, 0), active |-> Or(active, TRUE),
              created |-> edits]
  IN /\ Edited /\ UNCHANGED settings
     /\ promoted' = (promoted \ old) \cup
          IF old = {} THEN {new}
          ELSE {[p EXCEPT !.position = Or(position, @), !.active = Or(active, @)] : p \in old}
PromotedUpdate(p, position, active) ==
  /\ p \in promoted /\ Edited /\ UNCHANGED settings
  /\ promoted' = (promoted \ {p}) \cup {[p EXCEPT !.position = Or(position, @), !.active = Or(active, @)]}
PromotedDelete(p) ==
  p \in promoted /\ Edited /\ UNCHANGED settings /\ promoted' = promoted \ {p}
SettingsUpdate(show, strategy, limit) ==
  /\ Edited /\ UNCHANGED promoted
  /\ settings' = [show |-> Or(show, settings.show), strategy |-> Or(strategy, settings.strategy),
                  limit |-> Or(limit, settings.limit)]

(* A spotlight: four reads, the admin and the refresh between them. *)
Spot(at, then, s) ==
  /\ spot.at = at /\ spot' = [s EXCEPT !.at = then]
  /\ UNCHANGED <<art, alb, factVars, refresh, fresh, walk, adminVars>>
LoadSettings(limit) ==
  LET asked == IF Or(limit, settings.limit) > MaxSpotlight THEN MaxSpotlight ELSE Or(limit, settings.limit)
  IN Spot("idle", IF asked = 0 THEN "done" ELSE "promoted",
          [NoSpot EXCEPT !.asked = asked, !.show = settings.show, !.strategy = settings.strategy])
ReadPromoted ==
  \E rows \in InOrder([p \in {p \in promoted : p.active} |-> <<p.position, p.created>>]) :
    Spot("promoted", "rows", [spot EXCEPT !.rows = FirstRows(rows, spot.asked)])
(* fetch_artists_by_ids and fetch_albums_by_ids: a merged artist is left out *)
Present == {k \in DOMAIN spot.rows : spot.rows[k].type = "artist" => ~art[spot.rows[k].id].merged}
ReadRows ==
  \E found \in InOrder([k \in Present |-> <<k>>]) :
    LET items == [j \in DOMAIN found |-> Entity(spot.rows[found[j]])]
    IN Spot("rows", IF spot.show /\ Len(items) < spot.asked THEN "stars" ELSE "done",
            [spot EXCEPT !.items = items, !.used = {e[2] : e \in {i \in ToSet(items) : i[1] = "artist"}}])
Stars(exclude) == {a \in Artists \ exclude : /\ ~art[a].merged /\ art[a].star
                                             /\ art[a].tracks + art[a].feats > 0}
(* Mutant: promoted stars are not excluded. *)
AllStars == Stars({})
StarsFor == Stars(spot.used)
(* popular: no star left out beats one taken; random: a sample, and all of *)
(* them if that finds none.                                                *)
Rank(a) == IF spot.strategy = "random" THEN <<>> ELSE <<-art[a].trending, -art[a].listeners, NameOf[a]>>
Chosen(taken, stars, n) ==
  LET whole == Cardinality(taken) = IF Cardinality(stars) < n THEN Cardinality(stars) ELSE n
  IN IF spot.strategy = "random" THEN Cardinality(taken) <= n /\ (taken = {} => stars = {})
     ELSE whole /\ \A a \in taken, b \in stars \ taken : ~Before(Rank(b), Rank(a))
ReadStars ==
  \E taken \in SUBSET StarsFor : \E rows \in InOrder([a \in taken |-> Rank(a)]) :
    /\ Chosen(taken, StarsFor, spot.asked - Len(spot.items))
    /\ Spot("stars", "done",
            [spot EXCEPT !.items = @ \o [k \in DOMAIN rows |-> <<"artist", rows[k]>>]])
SpotFails == Spot(spot.at, "failed", NoSpot) /\ spot.at \in {"promoted", "rows", "stars"}

-----------------------------------------------------------------------------
FactsChange ==
  \/ \E t \in Recordings : TrackChanges(t) \/ \E d \in Albums : AlbumChanges(d, t)
  \/ \E u \in Accounts : SubscriptionChanges(u)
  \/ \E src, dst \in Artists : MergeArtists(src, dst)
WalkNext ==
  \/ \E limit \in Limits :
       \/ \E sort \in {"listeners", "tracks", "star", "az", "trending"},
             tag \in {None} \cup {GenreOf[t] : t \in Recordings} : StartWalk("artists", sort, tag, limit)
       \/ \E sort \in {"popular", "tracks", "az", "recent"} : StartWalk("albums", sort, None, limit)
  \/ FetchPage
AdminNext ==
  \E position \in {None, 0, 1}, active \in {None, TRUE, FALSE} :
    \/ \E a \in Artists : PromotedCreate("artist", a, position, active)
    \/ \E d \in Albums : PromotedCreate("album", d, position, active)
    \/ \E p \in promoted : PromotedUpdate(p, position, active) \/ PromotedDelete(p)
SettingsNext ==
  \E show \in {None, TRUE, FALSE}, strategy \in {None, "popular", "random"}, limit \in {None, 0, 2} :
    SettingsUpdate(show, strategy, limit)
SpotNext ==
  \/ \E limit \in {None} \cup Limits : LoadSettings(limit)
  \/ ReadPromoted \/ ReadRows \/ ReadStars \/ SpotFails
DiscoverNext ==
  FactsChange \/ RefreshAggregates \/ WalkNext \/ AdminNext \/ SettingsNext \/ SpotNext

(* The types of the tables, which begin with anything. *)
ArtistRows == [merged : BOOLEAN, tracks : Nat, feats : Nat, records : Nat, listeners : Nat,
               trending : Nat, tags : SUBSET Nat, star : BOOLEAN]
AlbumRows == [tracks : Nat, popularity : Nat, star : BOOLEAN,
              year : Nat \cup {None}, date : Nat \cup {None}]
DiscoverSpec == DiscoverInit([Artists -> ArtistRows], [Albums -> AlbumRows]) /\ [][DiscoverNext]_discoverVars

-----------------------------------------------------------------------------
(* After a refresh that nothing overtook, every artist that is not merged  *)
(* and every album shows what there is: each statement also reaches the    *)
(* rows whose tracks, plays or subscription are gone, and an album's star  *)
(* is its artist's, however earlier refreshes ended.                       *)
Live == {a \in Artists : ~art[a].merged}
CountsDone == \A a \in Live : art[a] = WithCounts(art[a], Counts(a))
PlaysDone == \A a \in Live : art[a] = WithPlays(art[a], Plays(a))
TagsDone == \A a \in Live : art[a].tags = Tags(a)
StarDone == \A a \in Live : art[a].star = IsStar(a)
MetaDone == \A d \in Albums : alb[d] = WithMeta(alb[d], Meta(d))
PopularityDone == \A d \in Albums : alb[d].popularity = Popularity(d)
AlbumStarDone == \A d \in Albums : alb[d].star = art[disc[d].by].star
AggregatesExact ==
  fresh => /\ CountsDone /\ PlaysDone /\ TagsDone /\ StarDone
           /\ MetaDone /\ PopularityDone /\ AlbumStarDone

(* A client that walks all pages of a catalogue that stands still sees     *)
(* every row once, in the order of the sort, whatever rows are level: the  *)
(* cursor and the WHERE of the next page agree with the ORDER BY.  Exempt  *)
(* is "recent" when a page ended with an album that has a year and no      *)
(* date: its cursor says 1970, and the next page skips what lies between.  *)
PagesComplete ==
  walk.at = "end" /\ walk.quiet /\ ~walk.undated =>
    /\ ToSet(walk.seen) = Listed(walk)
    /\ \A j, k \in DOMAIN walk.seen :
         j < k => Before(OrderOf(walk, walk.seen[j]), OrderOf(walk, walk.seen[k]))
(* A spotlight shows nothing twice and no more than it was asked for,      *)
(* though it is read in four steps and stars may be promoted themselves.   *)
SpotlightDistinct ==
  /\ Len(spot.items) <= spot.asked
  /\ \A j, k \in DOMAIN spot.items : spot.items[j] = spot.items[k] => j = k
(* What a client sees of the catalogue, page by page or in the spotlight,  *)
(* it sees once, and the pages leave nothing out.                          *)
ShownOnce == PagesComplete /\ SpotlightDistinct
=============================================================================
