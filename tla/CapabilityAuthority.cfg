SPECIFICATION Spec
CONSTANTS
  Keys = {"k1", "k2", "k3"}
  Ops = {"o1", "o2"}
  ExtensionOps = {"o1"}
  Perms = {"p1", "p2"}
  None = None
  Mutations <- MCMutations
  Definitions = {"p1", "p2"}
  Baseline = {"p1"}
  Manifests = {"m1", "m2"}
  Declares <- MCDeclares
  RuntimePerms <- MCRuntimePerms
  ReceivePerms = {"p2"}
  NodePerms = {"p1"}
  MaxRank = 1
  MaxRevisions = 3
  MaxCrashes = 1
INVARIANTS
  AuthorityInv
PROPERTIES
  ImplementsRights
CHECK_DEADLOCK FALSE
