\* Two registrations, three slots: both tables run out, and every handle is
\* reused for another object.
SPECIFICATION Spec
CONSTANTS
  hid = hid
  fsp = fsp
  time = time
  hidServer = hidServer
  fspServer = fspServer
  Names <- MCNames
  Services <- MCServices
  MaxSessions = 3
  MaxRegistrations = 2
INVARIANTS
  TableMatchesGuest
PROPERTIES
  FailedCallChangesNothing
  HandleKeepsItsMeaning
