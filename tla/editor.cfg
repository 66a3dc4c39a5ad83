SPECIFICATION Spec
CONSTANTS
  Connections = {c1, c2}
  Hosts = {"h1", "h2"}
  MaxHosts = 2
  MaxVersions = 3
INVARIANT AtMostOneModule
INVARIANT FactoryIsLoaded
PROPERTY ListedHostIsSaved
\* The editor may crash.
CHECK_DEADLOCK FALSE
