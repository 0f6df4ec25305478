SPECIFICATION FairSpec
CONSTANTS
  m1 = m1
  m2 = m2
  high = high
  Models = {m1, m2}
  Thinkers = {m1}
  Efforts = {high}
  Offered <- MCOffered
  SequencerEffort = high
  Tiers = {core, supp}
  CORE = core
  SUPP = supp
  FAST = supp
  GekaiMd = gekai
  OtherMd = other
  Contents = {plain, orders}
  Directives = {orders}
  MaxAudits = 2
INVARIANTS TypeOK SavedBindingsAreValid WarningsAreOfTheText TurnsRunOnTheSavedTiers
PROPERTIES NoticeSettles
CHECK_DEADLOCK FALSE
