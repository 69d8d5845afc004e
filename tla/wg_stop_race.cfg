SPECIFICATION Spec
CONSTANTS
  Starts = {s1, s2}
  Stops = {t1}
  BootId = BootId
  Nobody = Nobody
  ip = ip
  host = host
  host2 = host2
  Confs = {ip, host, host2}
  NoConf = NoConf
  Hostname = {host, host2}
  Addr <- MCAddr
  ForwardHa = {TRUE, FALSE}
PROPERTIES ForwardClosesFirst
