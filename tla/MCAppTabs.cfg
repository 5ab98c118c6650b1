SPECIFICATION Spec
CONSTANTS
  Files <- MCFiles
  Example <- MCExample
  MaxNew = 2
  MaxOpens = 3
INVARIANTS PanicsOnlyWithoutTabs NeverBlocks TextsMatchNames ReadInOrderIsOpened LinksAreOpen SavesShownProof
PROPERTIES FirstProofAppears
CHECK_DEADLOCK FALSE
