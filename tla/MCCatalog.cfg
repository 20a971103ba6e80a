SPECIFICATION SpecQueries
CONSTANTS
  c1 = c1
  c2 = c2
  i1 = i1
  i2 = i2
  w1 = w1
  w2 = w2
  r1 = r1
  NoCategory = NoCategory
  Scale = 2
  MaxPrice = 10
  TextLength = 4
  CategoryIds <- MCCategoryIds
  ItemIds <- MCItemIds
  Requests <- MCRequests
  Readers <- MCReaders
  CategoryBodies <- MCCategoryBodies
  ItemBodies <- MCItemBodies
  InitialRows <- MCInitialRows
  CategoryQueries <- MCCategoryQueries
  ItemQueries <- MCItemQueries
  Height <- MCHeight
  MaxHeight = 3
  Limits <- MCLimits
  Offsets <- MCOffsets
SYMMETRY MCSymmetry
CHECK_DEADLOCK FALSE
INVARIANTS
  TypeOK
  AnswersAreHonest
  SlugsAreUrlSafe
  NextPageIsTrue
  DriftIsBounded
  SearchIsExact
PROPERTIES
  EventsTellRows
