SPECIFICATION Spec
CONSTANTS
  a1 = a1
  a2 = a2
  i1 = i1
  x = x
  NoRef = NoRef
  Free = Free
  Attempts = {a1, a2}
  Invoices = {i1}
  InvoiceOf <- MCInvoiceOf
  Refs = {x}
  StoredRef <- MCRef
  CallbackRef <- MCRef
  Chatty = {a2}
  Async = {a1}
  Handlers = {1, 2}
  DeletePattern = TRUE
  MaxExtra = 2
  MaxErrors = 1
  MaxCrashes = 1
CHECK_DEADLOCK FALSE
INVARIANTS
  TypeOK
  PaidMeansCharged
  AnnouncedIsPaid
PROPERTIES
  ChargedBecomesPaid
