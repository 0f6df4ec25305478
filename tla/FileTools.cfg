SPECIFICATION Spec
CONSTANTS
  Runs = {r1, r2}
  Paths = {h, x}
  Hidden = {h}
  External = {x}
  Forbidden = {red}
  Wide = repo
  Texts = {t, u}
  MaxAsking = 1
INVARIANTS TypeOK GrantsAreKept
PROPERTIES ResultsAreTrue
CHECK_DEADLOCK FALSE
SYMMETRY Symmetry
