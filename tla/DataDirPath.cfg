SPECIFICATION PathSpec
CONSTANTS
  Chars = {"a", "2", "0", "space", "%", "u:"}
  MaxLength = 3
  MaxClusters = 1
INVARIANT OwnCluster
INVARIANT PlainInSelectedDir
