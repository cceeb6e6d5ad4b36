SPECIFICATION FairSpec
CONSTANTS
  Index = {1}
  Name = {eth0, tun0}
  NoName = NoName
  Ip4Info <- MCIp4Info
  Ip6Address = {ip6}
  NoAddr = NoAddr
  InitDev <- MCInitDev
  SockCap = 3
  MaxChanges = 2
INVARIANTS NeverBusy CaughtUp
PROPERTIES AnswersInOrder ListenerSpec ComesToRest
CHECK_DEADLOCK FALSE
