\* What a client's request meets: nothing need ever move.
SPECIFICATION AccessSpec
CONSTANTS
  Logins = {q1}
  Apps = {a1, a2}
  Links = {k1}
  Claims = {m1, m2}
  EnvApp = env
  MaxAuthRetries = 3
  MaxFaults = 1
  Readers = {r1, r2}
  ListLen = 3
  MaxChunks = 2
  MaxReads = 2
  MaxLocks = 2
  MaxVersion = 1
  NoList = NoList
  Listeners = {b1, b2}
  Nobody = Nobody
  RowIds = {1, 2, 3, 4, 5, 6, 7}
  Threshold = 2
  Asks = 1
  MaxRotations = 1
  MaxTrouble = 1
  Visits = {v1}
  Tunes = {1, 2}
  PrimaryOf <- Primaries
  Poor = {1}
  InStorage = {1}
  PerCluster = 2
  PlayedLimit = 1
  DislikeLimit = 1
  TailMin = 1
  MaxTaste = 2
  MaxStorage = 1
  MaxDbFaults = 1
  Workers = {w1, w2}
  Songs = {s1}
  Branches = {mert, clap}
  Kinds = {"like"}
  LikesLimit = 1
  MaxEvents = 2
  MaxMutexes = 2
  MaxUpsets = 1
  MaxHates = 1
  Artists = {1, 2, 3}
  Albums = {1, 2, 3}
  Recordings = {1, 2}
  NameOf <- NameRanks
  GenreOf <- GenreOfTracks
  MaxTags = 1
  ReleasedOn <- ReleaseDates
  LeadOf <- FirstArtist
  ByOf <- FirstArtistOfAlbums
  Accounts = {u1}
  OwnerOf <- FirstArtistOfAccounts
  AlwaysPremium = FALSE
  YearDays = 10
  None = None
  Limits = {1, 2}
  MaxSpotlight = 2
  MaxChanges = 1
  MaxEdits = 2
  Trainings = {g1, g2}
  Pieces = {u1, u2}
  Ready = {u1}
  Trigger = 2
  MinSessions = 1
  MinExamples = 2
  MaxSessionLen = 2
  MaxLog = 2
  ScoreBatch = 1
  MaxOrders = 1
  MaxSnags = 1
INVARIANTS
  AggregatesExact
  ShownOnce
  CodeFitsApp
  OneSignIn
  NotStale
  OkMeansStored
  UnwantedStaysOut
  ShownWasPresent
  TasteExact
  LikesApplied
  VectorFresh
  OneTraining
CHECK_DEADLOCK FALSE
