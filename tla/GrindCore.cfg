SPECIFICATION Spec
CONSTANTS
  damage = damage
  core = core
  c1 = c1
  NoTheme = NoTheme
  Themes <- MCThemes
  AutoThemes <- MCAutoThemes
  Cards <- MCCards
  RuleCounts <- MCRules
  Options <- MCOptions
  StopAfter = 2
  MaxCommits = 2
  MaxRepairs = 1
  LowValueStop = 2
  RepairAttempts = 1
INVARIANTS
  TypeOK
  StartsFromHead
  ThemesKeepTheirBudgets
  BudgetsEndThePhase
PROPERTIES
  CommitsPassTheirGates
  PassingNeverDrops
