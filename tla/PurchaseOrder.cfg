SPECIFICATION OrderSpec
CONSTANTS
  cement = cement
  steel = steel
  manager = manager
  owner = owner
  Items = {cement, steel}
  Rate <- Rates
  MaxQuantity = 2
  Users = {manager, owner}
  Limit <- Limits
  Invoices = {i1, i2}
  Bills <- OneOrMore
  Markups = {0, 1}
  Tolerances = {0, 5000}
INVARIANT WithinLimit
INVARIANT WhatCameFits
INVARIANT PaidForWhatCame
INVARIANT MoneyInOnePlace
CHECK_DEADLOCK FALSE
