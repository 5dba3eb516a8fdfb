SPECIFICATION Spec
CONSTANTS
  Urls <- MCUrls
  NoUrl = NoUrl
  Hosts <- MCHosts
  NoPort = NoPort
  BadPort = BadPort
  Texts <- MCTexts
INVARIANTS
  DialectFitsEndpoint
  PostsOnlyToLocalBackends
  ThinkingIsHidden
