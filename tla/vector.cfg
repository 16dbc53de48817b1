\* Four numbers; the array starts with one cell and has to grow twice.
CONSTANTS
  Elems = {0, 1, 2, 3}
  DEF_CAPACITY_OF_BUCKET = 1
  Junk = Junk
SPECIFICATION FairSpec
INVARIANT IInv
INVARIANT InBounds
INVARIANT Ordered
INVARIANT CountsAgree
PROPERTY ImplementsSet
PROPERTY CallReturns
