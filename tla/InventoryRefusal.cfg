SPECIFICATION Spec
CONSTANTS
  Calls = {c1, c2}
  sku1 = sku1
  sku2 = sku2
  Skus = {sku1}
  Unknown = unknown
  Stock <- OneStock
  Quantities = {1, 5}
INVARIANTS
  RefusalReportsNothing
