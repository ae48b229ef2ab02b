SPECIFICATION MCSpec
CONSTANTS
  ann = ann
  bob = bob
  cho = cho
  c1 = c1
  c2 = c2
  d1 = d1
  d2 = d2
  o1 = o1
  o2 = o2
  x1 = x1
  x2 = x2
  w1 = w1
  w2 = w2
  i1 = i1
  i2 = i2
  r1 = r1
  r2 = r2
  t1 = t1
  t2 = t2
  k1 = k1
  k2 = k2
  e1 = e1
  e2 = e2
  g1 = g1
  g2 = g2
  Person = {ann, bob, cho}
  Founder = {ann, bob}
  Master = {ann}
  Invitation = {i1, i2}
  Request = {r1, r2}
  Nobody = Nobody
  NoInvitation = NoInvitation
  MaxRequests = 3
  Budgets <- Mixed
  Camper = {c1, c2}
  RosterRow = {n1, n2}
  Entry <- FewEntries
  Sheet <- FewSheets
  SlackAccount = {s1, s2}
  Task = {t1, t2}
  NoCamper = NoCamper
  NoRow = NoRow
  NoAccount = NoAccount
  MaxTemplates = 3
  Content <- FewContents
  NoContent = NoContent
  Call = {k1, k2}
  Table <- FewTables
  Fallback <- Defaults
  Numeric <- Counted
  Upload <- FewUploads
  SavedEvent <- FewEvents
  NoEvent = NoEvent
  MaxRows = 2
  MaxLine = 3
  Data = {d1, d2}
  NoData = NoData
  PageSize = 1
  CamperSheet <- FewCamperSheets
  RosterCall = {e1, e2}
  Enrolment <- FewEnrolments
  Org = {o1, o2}
  NoOrg = NoOrg
  Label = {c1, c2}
  NoLabel = NoLabel
  Token = {x1, x2}
  NoToken = NoToken
  Space = {w1, w2}
  NoSpace = NoSpace
  SpaceOf <- Spaces
  OrgCall = {g1, g2}
  OrgTable <- OneOrganization
  Home = o1
  Clerk = ann
  Desks <- OneDesk
SYMMETRY Symmetric
CHECK_DEADLOCK FALSE
INVARIANTS
  BackofficeTypeOK
  LastAdminKept
  OnePendingEach
  PromotedOncePerInvitation
  OnlyDemotedAreShutOut
  RevokedGaveNothing
  RosterConsistent
  FirstLoginSucceeds
  NobodyWaitsInVain
  AdminPageFollows
  ListsTheTable
  RosterPageFollows
  SavesStand
  OneWorkspace
  SchemaFitsSlots
PROPERTIES
  SlackIdKept
