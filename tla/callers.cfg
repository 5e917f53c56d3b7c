CONSTANTS
  Devices = {d1, d2}
  Threads = {main, r1, r2, s1}
  NoThread = noThread
  Main = main
  RtCallers = {r1, r2}
  ServiceCallers = {s1}
  TimeoutEnabled = TRUE
  HooksMayThrow = TRUE
  HooksCommunicate = FALSE
  EscDiagnostics = TRUE
  PortDiagnostics = TRUE
  MailboxDiagnostics = FALSE
SPECIFICATION Spec
INVARIANT IInv
INVARIANT OneFrameAtATime
PROPERTY ImplementsContract
PROPERTY NoTransferIsCutOff
SYMMETRY Symmetry
