SPECIFICATION Spec
CONSTANTS
  None = None
  ann = ann
  home = home
  peer = peer
  k1 = k1
  k2 = k2
  kx = kx
  px = px
  s1 = s1
  s2 = s2
  g0 = g0
  g1 = g1
  g2 = g2
  f1 = f1
  x1 = x1
  u1 = u1
  MaxGlobLen = 12
  AclInput <- MCAclInput
  Names <- MCNames
  Scoped <- MCScoped
  HeadOf <- MCHeadOf
  TreeOf <- MCTreeOf
  Actor = {ann}
  RoleInput <- MCRoleInput
  GrantInput <- MCGrantInput
  KeyId = {kx}
  Pub = {px}
  HookInput <- MCHookInput
  Root = {g0, g1, g2, f1, x1, u1}
  ParentOf <- MCParentOf
  HooksOf <- MCHooksOf
  SignedBy <- MCSignedBy
  KnownKinds <- MCKnownKinds
  Replica = {home, peer}
  Home = home
  AnchorsOf <- MCAnchorsOf
  Task = {k1, k2}
  Config <- MCConfig
  Clock = 10
  MaxSkew = 3
  Requests <- MCRequests
  MaxCalls = 2
  Starts <- MCStarts
INVARIANTS
  GlobIsSegmentwise
  LabelIsLeastBound
  ExplainMatchesEnforcement
  HiddenLooksAbsent
  MergeCheckSound
  ReplicasReconcileAlike
PROPERTY
  AdoptionSound
SYMMETRY TaskSymmetry
CHECK_DEADLOCK FALSE
