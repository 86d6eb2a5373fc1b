CONSTANTS
  Tabs = {tab1, tab2}
  Tokens = {s1, s2}
  Companies = {vivat}
  Home = vivat
  None = None
  SessionCache = 2
  MaxTime = 2
SPECIFICATION Spec
PROPERTIES ServedFresh OutageIsNoLogout
CHECK_DEADLOCK FALSE
SYMMETRY Interchangeable
