CONSTANTS
  LimbBits = 2
  Limbs = 4
  ValueSize = 40
  MaxValueDepth = 2
  MaxListLength = 2
  StrongKeys = {0,1}
  Byte = 2
  MaxScriptNodes = 3
  CostMax = 1000000
  MaxEvalDepth = 3
  MaxScriptSteps = 100000
  MaxScriptMemory = 100000
  Leaves <- MCLeaves
  Rounds = {2}
  MaxBuilt = 4
  InputValues <- MCInputs
  WitnessValues <- MCWitness
  Context <- MCContext
  Tokens = {0,1,2,4,5,8,14}
  MaxTokens = 6
  U64Max = 15
  Dust = 1
  Maturity = 1
  FeePerInput = 1
  FeePerOutput = 1
  FeeDivisor = 3
  BaseReward = 2
  DecayComponent = 4
  HalfLife = 2
  LutSize = 3
  LutK = 11
  One = 16
  MaxSpent = 2
  OutValues = {0, 1, 3, 9}
  MaxTxHeight = 3
  Depth = 4
  SetOutPoint = {0,1,2,4,7,8,12,15}
  SetScript <- MCSetScript
  SetValue <- MCSetValue
  EntryHeight = {1}
  SetMaturity = 1
  ValueMax = 12
SPECIFICATION Spec
INVARIANTS
  MoneyConserved
  PathsAgree
  StateRootExact
  
  EncodingExact
  ArithmeticExact
\* The numbers run out.
CHECK_DEADLOCK FALSE
