SPECIFICATION FairSpec
CONSTANTS
  a1 = a1
  a2 = a2
  b1 = b1
  ta = ta
  tb = tb
  Slots = {s1, s2}
  Jobs = {a1, a2, b1}
  Tenants = {ta, tb}
  TenantOf <- MCTenantOf
  Attempts = 2
  MaxBackoff = 1
  MaxFaults = 1
INVARIANTS TenantsReserved
PROPERTIES JobsServed
