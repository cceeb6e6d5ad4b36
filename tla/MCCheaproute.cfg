SPECIFICATION FairProgramSpec
CONSTANTS
  Index = {1, 2}
  Name <- MCName
  NoName = NoName
  Ip4Info <- MCIp4Info
  Ip6Address = {}
  NoAddr = NoAddr
  InitDev <- MCInitDev
  SockCap = 2
  MaxChanges = 1
  Configured <- MCName
  AddressFor <- MCAddressFor
  In = 1
  Out = 2
  QueueCap = 2
  MaxPackets = 2
  crIN = crIN
  crOUT = crOUT
INVARIANTS NothingSkipped ForwardedAsLogged ProgramAbortExplained
PROPERTIES PacketsDrain
CHECK_DEADLOCK FALSE
