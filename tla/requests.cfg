SPECIFICATION Spec
CONSTANTS
  MaxHeaders = 3
  Wires <- EditedTexts
  BUF_SIZE = 16
  MinChunks = {1, 4}
  HOST <- HostName
  CONNECTION <- ConnectionName
  FIT_URL <- FitUrl
CHECK_DEADLOCK FALSE
INVARIANTS SentOnIsTheRequest WellFormedIsTaken StaysWithItsPage
