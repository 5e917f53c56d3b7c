CONSTANTS
  Devices = {d1}
  Threads = {main, rt, service}
  NoThread = noThread
  Main = main
  Rt = rt
  Service = service
  ClientCalls = {}
  TimeoutEnabled = TRUE
  HooksMayThrow = FALSE
  HooksCommunicate = FALSE
  EscDiagnostics = FALSE
  PortDiagnostics = FALSE
  MailboxDiagnostics = TRUE
SPECIFICATION Spec
INVARIANT RtUsesLiveBus
