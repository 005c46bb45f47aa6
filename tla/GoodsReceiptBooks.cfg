SPECIFICATION MCSpec
CONSTANTS
  Requests = {r1, r2}
  Pos = {p1, p2}
  Grns = {g1, g2, g3}
  Serials = {s1}
  Quantities = {1}
  Ordered = 2
  MaxActive = 2
  g1 = g1
  g2 = g2
  g3 = g3
  p1 = p1
  p2 = p2
  s1 = s1
  NoSerial = NoSerial
  Before = Before
  PoOf <- MCPoOf
  SerialOf <- MCSerialOf
  Printed <- MCPrinted
INVARIANTS BooksAgree
