\* Three threads and a pool of three blocks; eight seconds, of two ticks each, for
\* an era; the DNS server with its own numbers; three networks for a list of two.
CONSTANTS
  Wifi = Wifi
  Others = {Web, Usb}
  Pcbs = {u1, u2, u3}
  NoUdp = NoUdp
  NtpServers = {s1, s2}
  NoServer = NoServer
  Ticks = 2
  Half = 4
  Delta = 5
  Boots = {2, 5}
  HandTimes = {0, 5}
  MaxNow = 13
  MaxAnswers = 1
  Datagrams = {11, 12, 13, 40, 290, 299, 300, 301}
  Labels = {1, 30, 62, 63, 64, 255}
  BufferSize = 300
  Header = 12
  MaxLabel = 63
  MaxName = 255
  Networks = {n1, n2, n3}
  NoName = NoName
  MaxWifis = 2
  Timeout = 0
  Rescan = 3
  Wrap = 16
  MaxSecs = 2
SPECIFICATION Spec
INVARIANTS TypeOK ApUpWhenActive ClockTracks DnsReplyFits ListIsRecent
PROPERTIES ApComesUp
