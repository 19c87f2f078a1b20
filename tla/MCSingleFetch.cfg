\* The three plugins, every page of the small sets, every host answer, a clock of
\* three seconds that may tick at any time.
CONSTANTS
  a = a
  b = b
  c = c
  d = d
  fragment = fragment
  foreign = foreign
  Missing = Missing
  IllTyped = IllTyped
  Conflict = Conflict
  Urls <- MCUrls
  SafeUrls <- MCSafeUrls
  Candidates = 3
  TitleBytes = 4
  Labels = {"720p", "360p"}
  FormatIds = {"", "mp3", "m4a", "ogg", "wav"}
  MediaDetailEntries = 2
  VariantEntries = 3
  VideoHostUrls <- MCVideoHostUrls
  ThumbnailHostUrls = {d, fragment}
  LabelOf <- MCLabelOf
  UrlListCap = 4
  CdnUrls <- MCCdnUrls
  TrackinfoLimit = 3
  FileLimit = 3
  IdRange = 8
  QueryOf <- MCQueryOf
  Plugins = {"x", "tiktok", "bandcamp"}
  Pages <- MCPages
  MaxClock = 3
SPECIFICATION Spec
INVARIANTS
  TypeOK
  XTakesTheBest
  TikTokKeepsThePage
  BandcampPlaysTheCurrentTrack
PROPERTIES
  KeepsResolveContract
