SPECIFICATION Spec
CONSTANTS
  Users = {u1}
  Clients = {c1}
  Normal = {n1, n2}
  Video = {v1, v2}
  City = {x1}
  Province = {y1}
  Subscribed = {n1}
  Clickable = {v1}
  MaxSet = 2
  MaxVideo = 1
  MaxRegion = 1
  Nums = {0, 1}
  SizeMod = 64
  MayFail = TRUE
  MaxUpdates = 2
INVARIANTS TypeOK WithinLimits NothingRecommendedAgain ProvinceIsSubstitute
