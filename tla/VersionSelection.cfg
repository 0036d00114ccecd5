\* Every option, on its own and two together, for both providers. The selection ends.
SPECIFICATION SelectionSpec
CONSTANTS
  Catalogues <- MCCatalogues
  Requests <- MCRequests
  None = None
CHECK_DEADLOCK FALSE
INVARIANTS  UpgradeFollowsAnEdge
