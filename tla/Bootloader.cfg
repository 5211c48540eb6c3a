SPECIFICATION FairSpec
CONSTANTS
  Image = {m1, m2}
  Packets = 3
  AppSize = 4
  StartCounts = {0, 4}
  HostAddrs = {65, 255}
  Resumes = {"start", "execute"}
  MaxMishaps = 4
INVARIANTS
  TypeOK
  ExecMeansWhole
  BootsOnlyWhole
  NeverHangs
PROPERTY
  RecoversByUpgrade
