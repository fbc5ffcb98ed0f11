SPECIFICATION Spec
CONSTANTS
  MaxClients = 2
  Addrs = {"a1", "b1"}
  Ip <- MCIp
  MaxClientsPerIp = 1
  ReservedSlots = 1
  Codes = {"code"}
  None = None
  MaxReloads = 1
INVARIANTS SlotsConsistent SlotBelongs PerIpLimit
PROPERTIES  IdentityNotInherited
