CONSTANTS
  aa = aa AA = AA bb = bb bad = bad
  None = None
  Width = 4
  MacTexts <- MCMacTexts
  Lower <- MCLower
  Identifiers = {"A", "B", "Unknown"}
  Files <- MCFiles
SPECIFICATION Spec
INVARIANTS PolicyIsSound LayoutIsSound HostsBelong DaemonAgrees
CHECK_DEADLOCK FALSE
