SPECIFICATION FWSpec
CONSTANTS
  MaxPackets = 2
  Words = 3
  NumTables = 2
  HTRows = 1
  Addresses <- REGTEST0
  Values = {85}
  Lines <- Typed
  MaxLines = 2
  Leftover <- Junk
INVARIANTS TablesUnseen RunsBetweenCommands LoaderLinesObeyed CountExact ModeAsSent
PROPERTIES PauseEnds
CHECK_DEADLOCK FALSE
