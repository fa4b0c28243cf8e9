SPECIFICATION MarketFairSpec
CONSTANTS
  std_table_size = 4
  BlankLines <- OneBlank
  quality <- MCQuality
  speed <- MCSpeed
  monney <- MCMonney
  HomeworkFiles <- MCFiles
  initial_money = 6
INVARIANTS MoneyConserved TokensMatchFlags OneHandover HomeworksSolved
PROPERTY ProgramEnds
CHECK_DEADLOCK FALSE
