SPECIFICATION FairSpec
CONSTANTS
  Report = report
  Urls = {report, other}
  MaxChanges = 1
  MaxWrites = 2
INVARIANTS TypeOK
PROPERTIES KeptWithoutDeployment ShellCatchesUp CatalogueCatchesUp
