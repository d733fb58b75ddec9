SPECIFICATION ChatSpec
CONSTANTS
  front = front
  orders = orders
  mail = mail
  number = number
  found = found
  Flow = {front, orders, mail}
  Root = front
  Saves <- ShopSaves
  Name = {number, found}
  Nothing = Nothing
  Option = {"look", "leave", "other"}
  Turn = {v1}
  MaxInternalHops = 8
  MaxCallDepth = 3
  MaxMessages = 4
  MaxEdits = 2
  MaxLosses = 1
INVARIANTS
  CompletedIsOutside
CHECK_DEADLOCK FALSE
