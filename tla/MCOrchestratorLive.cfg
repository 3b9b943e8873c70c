\* Two listings of different marketplaces and accounts, fair worker and sweep; the
\* broker may fail to take a message.
SPECIFICATION FairSpec
CONSTANTS
  Jobs = {j1, j2}
  Workers = {w1}
  Targets <- MixedTargets
  Requestable <- ContentOps
  BrokerMayFail = TRUE
  None = None
 
PROPERTIES JobsFinish VerdictTruthful
CHECK_DEADLOCK FALSE
