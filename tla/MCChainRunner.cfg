SPECIFICATION Spec
CONSTANTS
  a = a
  b = b
  c = c
  d = d
  hub = hub
  loader = loader
  payload = payload
  page = page
  empty = empty
  NoUrl = NoUrl
  NoText = NoText
  NoReport = NoReport
  EmptyText = empty
  Urls <- MCUrls
  Texts <- MCTexts
  NotLua <- MCNotLua
  HasLoadstring <- MCHasLoadstring
  mentions <- MCmentions
  literals <- MCliterals
  recover <- MCrecover
  outputBonus <- MCoutputBonus
  Entries <- MCEntries
  MaxDepth = 2
  MAX_DEAD_HOPS = 2
INVARIANTS TypeOK StackIsPath RunOnce Provenance HeaviestFinal
PROPERTIES Termination ImplementsCrawl
