SPECIFICATION FilesSpec
CONSTANTS
  p1 = p1
  p2 = p2
  Pages = {p1, p2}
  Names = {1, 2, 3}
  NoText = 0
  Listing <- MCListing
  Patterns = {{}, {2, 3}}
  itemNumber = 2
  MaxClicks = 3
  Files = {1, 2, 3, 4}
  Printed <- MCPrinted
  ZeroSize = {2}
  NoFile = 0
  numberPerPage = 2
  MaxRequests = 3
INVARIANTS
  TypeOK
  ListingIsTrue
  StaysUpWhenCareful
  OwnText
  
  
  ShownOnce
SYMMETRY SamePages
CHECK_DEADLOCK FALSE
