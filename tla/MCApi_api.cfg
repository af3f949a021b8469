SPECIFICATION MCSpec
CONSTANTS
  a = a
  b = b
  n1 = n1
  n2 = n2
  s1 = s1
  file1 = file1
  other = other
  p1 = p1
  p2 = p2
  t1 = t1
  t2 = t2
  None = None
  Absent = Absent
  Cases <- MCCases
  Hosts = {a, b}
  Names = {n1, n2}
  Secrets = {s1}
  Paths = {file1, other}
  CAs = {p1, p2}
  MaxList = 2
  Tabs = {t1, t2}
  e1 = e1
  e2 = e2
  v1 = v1
  v2 = v2
  v3 = v3
  c1 = c1
  c2 = c2
  Servers <- MCServers
  Initial <- MCInitial
  Callers = {c1, c2}
  SysEnvs = {e2}
  SysLimit = 1
  PageSize = 1
  MaxPerServer = 3
  MaxRows = 3
  TTL = 2
  Timeout = 1
  MaxEntries = 1
  Outages = {{}, {v2}}
  Churning = {v1}
  MaxCid = 3
SYMMETRY ApiSymmetry
INVARIANTS    NotPoisoned
 
