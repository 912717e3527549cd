SPECIFICATION Spec
CONSTANTS
  NULL = NULL
  n1 = n1
  n2 = n2
  Node <- TwoNodes
  MaxEpochs = 1
  MaxConnections = 2
SYMMETRY NodesSwap
INVARIANTS
  HandshakeTypeOK
  StoredIsProcessedOnce
  ConnectorUsesKeysSent
  SecretsAgreeWithinEpoch
