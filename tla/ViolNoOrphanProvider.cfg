SPECIFICATION Spec
CONSTANTS
  g1 = g1
  g2 = g2
  r1 = r1
  r2 = r2
  c1 = c1
  c2 = c2
  None = None
  Groups = {g1, g2}
  Routes = {r1, r2}
  Cfgs = {c1, c2}
  Specs <- SafetySpecs
  Adopted = {FALSE}
  MaxEdits = 0
  MaxFaults = 0
  MaxOutside = 0
INVARIANT NoOrphanProvider
CHECK_DEADLOCK FALSE
