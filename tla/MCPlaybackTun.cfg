SPECIFICATION FairPlaybackSpec
CONSTANTS
  Index = {1}
  Name = {tun0}
  NoName = NoName
  Ip4Info <- MCIp4Info
  Ip6Address = {}
  NoAddr = NoAddr
  InitDev <- MCInitDev
  SockCap = 3
  MaxChanges = 2
  Configured = {tun0}
  AddressFor <- MCAddressFor
  Tun = 1
  Packet <- MCPacket
  Logs <- MCLogs
  tun0 = tun0
  p1 = p1
  p2 = p2
INVARIANTS PlaysTheLog PlaybackAbortExplained
PROPERTIES RoundsGoOn
CHECK_DEADLOCK FALSE
