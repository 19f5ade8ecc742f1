SPECIFICATION Spec
CONSTANTS
  Users = {u1}
  Clients = {c1}
  Normal = {n1, n2}
  Video = {v1}
  City = {x1}
  Province = {}
  Subscribed = {n1}
  Clickable = {}
  MaxSet = 1
  MaxVideo = 1
  MaxRegion = 1
  Nums = {0}
  SizeMod = 64
  MayFail = FALSE
  MaxUpdates = 2
INVARIANT WithinLimits
