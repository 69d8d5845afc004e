SPECIFICATION SerialSpec
CONSTANTS
  Starts = {s1, s2, s3}
  Stops = {t1, t2}
  BootId = BootId
  Nobody = Nobody
  ip = ip
  host = host
  host2 = host2
  Confs = {ip, host, host2}
  NoConf = NoConf
  Hostname = {host, host2}
  Addr <- MCAddr
  ForwardHa = {TRUE, FALSE}
INVARIANTS TypeOK DownMeansQuiet ConfAgreement ListenersOwned
PROPERTIES ForwardClosesFirst
