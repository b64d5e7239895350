SPECIFICATION Spec
CONSTANTS
  ann = ann  bob = bob
  a1 = a1  a2 = a2  a3 = a3  b1 = b1
  Users = {ann, bob}
  Uploads = {a1, a2, a3, b1}
  OwnerOf <- MCOwnerOf
  Size <- MCSize
  MaxFileSize = 2
  UserQuota = 2
  TotalQuota = 3
  SingleWriter = TRUE
INVARIANT UserQuotaHolds
