SPECIFICATION FairSpec
CONSTANTS
  Calls = {c1, c2, c3}
  sku1 = sku1
  sku2 = sku2
  Skus = {sku1, sku2}
  Unknown = unknown
  Stock <- SmallStock
  Quantities = {1, 2}
PROPERTIES
  EveryCallReplied
  ImplementsLedger
