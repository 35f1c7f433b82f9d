CONSTANTS
  Inserter = {s1, s2}
  Creator = Creator
  Nobody = Nobody
  Sizes = {2, 8}
  MaxExt = 3
  Unit = 1
  DelSlots = 4
  MaxSearch = 2
  MaxRec = 8
  MinRec = 1
  Small = 4
  Meta = 1
  PageSize = 4
  SegmentPages = 4
  PerExtent = 2
  BestUp = 12
  Session = {s1, s2}
  Name = {"a", "b"}
  UniqueID = {anID}
  NoID = NoID
  Slots = 2
  Pages = 4
  MaxCrash = 1
  SegNum = 3
  SegPages = 2
  Factor = 2
  Scanner = {"scanner"}
  MaxDeaths = 2
SPECIFICATION MCSpec
SYMMETRY SessionSymmetry
INVARIANTS
  RecordsExact ChainSound ScanComplete Kept
  CatalogueExact PagesOwned VisibleWhole
CHECK_DEADLOCK FALSE
