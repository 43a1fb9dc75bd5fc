SPECIFICATION Spec
CONSTANTS
  a1 = a1
  a2 = a2
  i1 = i1
  x = x
  NoRef = NoRef
  Free = Free
  Attempts = {a1, a2}
  Invoices = {i1}
  InvoiceOf <- MCInvoiceOf
  Refs = {x}
  StoredRef <- MCRef
  CallbackRef <- MCRef
  Chatty = {a2}
  Async = {}
  Handlers = {1, 2}
  DeletePattern = FALSE
  MaxExtra = 0
  MaxErrors = 0
  MaxCrashes = 0
CHECK_DEADLOCK FALSE
PROPERTIES
  ProcessedIsAnnounced
