SPECIFICATION Spec
CONSTANTS
  Addresses <- SomeAddresses
  Servers <- SomeServers
  Owner <- SomeOwner
  Options <- SomeOptions
  a1 = a1
  a2 = a2
  b1 = b1
  sa = sa
  sb = sb
  None = None
  DefaultLease = 8
  Second = 2
  Wrap = 7
  MaxPass = 3
  Timeout = 1
  Calm = FALSE
PROPERTY RetriesAfterFailure
