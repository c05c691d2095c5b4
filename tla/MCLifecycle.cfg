\* 10 s to drain, 15 s for a request, in ticks of 5 s; two requests at a time,
\* so that one can end while another is cut.
CONSTANTS
  Conn = {k1, k2}
  DrainTicks = 2
  RequestTicks = 3
  MaxCalls = 2
SPECIFICATION Spec
INVARIANTS
  TypeOK
  CutRequestsHadTheirTime
PROPERTIES
  ShutdownEnds
  HandlersEnd
