SPECIFICATION FairActivatorSpec
CONSTANTS
  Index = {1, 2}
  Name <- MCName
  NoName = NoName
  Ip4Info <- MCIp4Info
  Ip6Address = {}
  NoAddr = NoAddr
  InitDev <- MCInitDev
  SockCap = 3
  MaxChanges = 1
  Configured <- MCConfigured
  AddressFor <- MCAddressFor
  crIN = crIN
  crOUT = crOUT
  eth0 = eth0
INVARIANTS AbortExplained
PROPERTIES RightDevice Activated
CHECK_DEADLOCK FALSE
