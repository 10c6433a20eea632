SPECIFICATION MCSpec
CONSTANTS
  h1 = h1
  h2 = h2
  good = good
  bad = bad
  Handlers <- TwoHandlers
  Messages <- AllMessages
  Configs <- AllConfigs
  Models <- GoodAndBad
  Supported <- OnlyGood
  NoModel = NoModel
  plain = plain
  avatar = avatar
  cdn = cdn
  local = local
  name = name
  Absent = Absent
  Urls <- FourUrls
  Names <- OneName
  Refused <- OnlyLocal
  Cdn <- OnlyCdn
  LinkKinds <- ThreeExpressions
  Posts <- SmallPosts
  MaxItems = 3
INVARIANTS
  MCTypeOK
  TriggerTable
  OnlyAdminsChangeThings
  AllImagesTried
  OnlyAcceptableImages
