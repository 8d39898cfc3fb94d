SPECIFICATION Spec
CONSTANTS
  Users = {"u1"}
  Groups = {"g1", "g2"}
  SysUsers = {"s1", "s2", "s3"}
  Hosts = {"h1"}
  HostGroups = {"k1", "k2"}
  Rules = {"r1", "r2"}
  Proxies = {"p1"}
  Admins = {a1, a2}
  RuleForms <- MCRuleForms
  HostForms <- MCHostForms
  StartGroups = {"g1"}
  StartSysUsers = {"s1", "s2"}
  StartHostGroups = {"k1"}
  StartRules <- MCStartRules
  MaxEdits = 2
  Clients = {"c1"}
  Tickets = {"t1"}
  StartOnline = {"p1"}
  StartProxy = "p1"
SYMMETRY MCSymmetry
INVARIANTS OpenedByGrant NeverAroundProxy GrantsSound
PROPERTIES AssignmentRevokes
