SPECIFICATION PluginSpec
CONSTANTS
  Fields = {sport}
  Values = {x, y}
  Unset = Unset
  Sizes = {0, 2}
  PduValues <- MCPduValues
  Files = {f1, f2}
  Answers <- MCAnswers
  NoOutput = NoOutput
  Leftovers <- MCLeftovers
  IoSectors = {0, 7, 4103, 65535}
  IntLimit = 2048
  U64Mod = 65536
  MaxRecords = 1
  MaxFiles = 3
SYMMETRY MCSymmetry
INVARIANTS
  PcapWellFormed
  ReportsExact
