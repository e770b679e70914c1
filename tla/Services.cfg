SPECIFICATION ServicesSpec
CONSTANTS
  Recordings = {s1, s2}
  Unplayable = {s2}
  ReapBatch = 2
  MaxDeliver = 2
  MaxMishaps = 2
  Works = {w1}
  Enrichers = {p1, p2}
  NoWork = NoWork
  MaxAttempts = 2
  MaxPublishes = 1
  MaxCrashes = 1
  Artists = {x1}
  Crawlers = {c1, c2}
  MbPages = 2
  GeniusPages = 1
  PagesPerRun = 1
  MaxCrawls = 2
  MaxRuns = 2
  MaxErrors = 1
  BatchSize = 2
  Absent <- AbsentRows
  Broken <- BrokenRows
  LyricTracks = {y1, y2}
  Ensurers = {e1}
  Whisperers = {h1}
  Timeless = {y2}
  Brief = {y1}
  AlignLimit = 2
  FullLimit = 2
  NoLyrics = NoLyrics
  MaxSlips = 1
INVARIANTS
  NoPageSkipped
PROPERTIES
  KnownGetIndexed
  EnrichEnds
  WantedGetLinked
  LyricsTimed
CHECK_DEADLOCK FALSE
