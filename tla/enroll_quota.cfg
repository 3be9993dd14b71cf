\* Two tokens, one or two uses each, two requests in flight.
CONSTANTS
  Tokens = {t1, t2}
  Handlers = {h1, h2}
  Requested <- MCRequested
  NodeCap = 4
SPECIFICATION Spec
INVARIANTS TypeOK Accounting BoundedOvershoot
PROPERTIES KeepsQuota
