CONSTANTS
  Sessions = {s1, s2}
  Doors <- MCDoors
  Modules <- MCModules
  Grants <- MCGrants
  Maps = {"shared"}
  Values = {"v"}
  Cuts = {192}
  MaxId = 1
  Libraries <- MCLibraries
  Describe <- MCDescribe
  Denylist = {}  Allowlist = {}
  RegistryMax = 2
  UserThreads = {u1}
  TaskMax = 1  MaxTasks = 2
SYMMETRY Symmetry
SPECIFICATION BoardSpec
INVARIANTS HostInv PluginsInv
PROPERTY StoresConfined
