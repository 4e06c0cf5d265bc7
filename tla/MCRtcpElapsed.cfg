SPECIFICATION Spec
CONSTANTS
  Proc = {p1, p2}
  Page = {a, b}
  Timeout <- MCTimeout
  MsPerJiffy = 10
  U32 = 65536
  None = None
INVARIANT
  ReportsElapsed
