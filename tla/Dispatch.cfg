SPECIFICATION MCSpec
CONSTANTS
  Requests = {r1, r2, r3}
  Orders = {o1, o2}
  Shipments = {s1, s2, s3}
  Manifests = {m1, m2}
  NoOrder = NoOrder
  NoManifest = NoManifest
  Copies = {1, 2}
  MaxSequence = 3
  MaxScanned = 1
SYMMETRY Symmetry
INVARIANTS TypeOK AwbAhead SerialManifestsAgree SerialDeductedOnce
