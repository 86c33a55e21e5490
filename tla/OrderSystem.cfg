SPECIFICATION Spec
CONSTANTS
  Orders = {o1}
  Items = {i1, i2}
  OneSku = sku
  InitialStock = 2
  Quantities <- LineQuantities
  MaxRestarts = 2
INVARIANTS
  AnswerAgreesWithStock
  LostReservationsAreErrors
  StockBacksReservations
PROPERTIES
  ImplementsVolatileLedger
