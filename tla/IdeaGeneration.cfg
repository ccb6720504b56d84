\* All answers of up to three candidates in synthesis and repair, every cost, every
\* failure.
SPECIFICATION Spec
CONSTANTS
  None = None
  Pool <- MCPool
  Packages <- MCPackages
  Trends <- MCTrends
  MaxPrepared = 3
  MaxOutput = 3
  ResultCount = 2
  Budget = 6
  ResearchCosts <- MCResearchCosts
  MaxResearch = 2
  Digests <- MCDigests
  RepairCost = 2
  TotalTime = 1
  MinRepairTime = 1
INVARIANTS
  TypeOK
  BudgetKept
  SelectionCorrect
CHECK_DEADLOCK FALSE
