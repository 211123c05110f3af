SPECIFICATION Spec
CONSTANTS
  Upper <- MCUpper
  MaxLength = 5
  Threads = {t1, t2}
  Extensions <- MCExtensions
  Main = "7z.dll"
  Codecs = {"codec.dll"}
  Plugins = {"a.dll", "b.dll"}
  Offers <- MCOffers
  None = None
  Objects = {o1, o2}
  Items <- MCItems
  HostStats <- MCHostStats
  MaximumFileSize = 1
  MAXULONGLONG = 3
SYMMETRY Symmetry
INVARIANTS FirstWins OneAnswer
