CONSTANTS
  MaxFailures = 3
  Grace = 4
  LivezGrace = 3
  Fresh = 2
  CpuPolls = 2
  KubeletPolls = 2
  BootPolls = 1
  BootMax = 2
  MaxTroubles = 3
SPECIFICATION FairSpec
PROPERTIES
    BootLeftAlone
    
