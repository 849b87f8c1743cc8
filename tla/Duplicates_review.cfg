SPECIFICATION Spec
CONSTANTS
  lake = lake
  hill = hill
  ada = ada
  gem = gem
  NoAddress = NoAddress
  Listings <- MCTwo
  Addresses <- MCAddresses
  Counties <- MCLake
  Limit = 1
  Faults = {"cache", "geocoder", "database"}
  MaxResets = 2
  MaxUpserts = 3
  Decisions = {"same", "different", "dismiss"}
  SourceOf <- MCSource
  CountyOf <- MCCounty
  Looks <- MCLooks
  Near <- MCNear
  SameBroker <- MCBrokers
  SameTitle <- MCTitles
INVARIANTS
  TypeOK
  QuotaKept
  DuplicatesAreFound
PROPERTIES
  RefusedAtLimitOnly
  DecisionsStand
  PointsAreOfTheAddress
