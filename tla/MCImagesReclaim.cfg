SPECIFICATION Spec
CONSTANTS
  p1 = p1
  p2 = p2
  w1 = w1
  w2 = w2
  Cover = p1
  Photos <- TwoPhotos
  Workers <- TwoWorkers
  Modes <- OneMode
  WhiteMode = "white"
  XlMode = "xl"
  MaxRequests = 2
  MaxPolls = 1
  MaxWaiting = 1
  MaxFaults = 1
  MaxEdits = 1

PROPERTIES FinalizationReclaimed
CHECK_DEADLOCK FALSE
