SPECIFICATION Spec
CONSTANTS
  Ctl = {c1, c2}
  Name = {n1, n2}
  NoName = NoName
  Pxy = {p1, p2, p3}
  NoPxy = NoPxy
  Port = {1, 2}
  Want = {0, 1}
  MaxTry = 1
  MaxPorts = 2
  UDP = TRUE
  Dashboard = FALSE
SYMMETRY Symmetry
INVARIANTS PortsPartitioned ServedIsRegistered NoGhostName NoPortLeak QuotaExact
  WithinQuota
PROPERTY NamesAreOwned
CHECK_DEADLOCK FALSE
