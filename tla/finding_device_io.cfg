CONSTANTS
  Devices = {d1}
  Threads = {main, rt, service, c1}
  NoThread = noThread
  Main = main
  Rt = rt
  Service = service
  ClientCalls = {"reg.check", "od.check"}
  TimeoutEnabled = FALSE
  HooksMayThrow = FALSE
  HooksCommunicate = FALSE
  EscDiagnostics = FALSE
  PortDiagnostics = FALSE
  MailboxDiagnostics = TRUE
SPECIFICATION Spec
INVARIANT DeviceIoOnOpenPort
