---------------------------- MODULE MCServices ----------------------------
(***************************************************************************)
(* Instances of the services that fill the backend's catalogue: indexing,  *)
(* enrichment, crawls and wanted rows, lyrics.  They share no state that a *)
(* module keeps, so each is explored on its own: `part' says which moves.  *)
(***************************************************************************)
EXTENDS Indexing, Enrich, Catalogue, Lyrics

(* The first external id of each artist fails with an error whenever it is *)
(* looked up, the second is not on SoundCloud.                             *)
BrokenRows == {<<a, "mb", 0>> : a \in Artists}
AbsentRows == {<<a, "mb", 1>> : a \in Artists}

VARIABLE part
servicesVars == <<part, indexVars, enrichVars, catalogueVars, lyricsVars>>

ServicesInit ==
  /\ part \in {"index", "enrich", "catalogue", "lyrics"}
  /\ IndexInit /\ EnrichInit /\ CatalogueInit /\ LyricsInit
  /\ part = "enrich" \/ nameless = {}
ServicesNext ==
  /\ \/ part = "index" /\ IndexNext /\ UNCHANGED <<enrichVars, catalogueVars, lyricsVars>>
     \/ part = "enrich" /\ EnrichNext /\ UNCHANGED <<indexVars, catalogueVars, lyricsVars>>
     \/ part = "catalogue" /\ CatalogueNext /\ UNCHANGED <<indexVars, enrichVars, lyricsVars>>
     \/ part = "lyrics" /\ LyricsNext /\ UNCHANGED <<indexVars, enrichVars, catalogueVars>>
  /\ UNCHANGED part
ServicesSpec ==
  /\ ServicesInit /\ [][ServicesNext]_servicesVars
  /\ IndexFairness /\ EnrichFairness
  /\ CatalogueFairness /\ LyricsFairness
=============================================================================
