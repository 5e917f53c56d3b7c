CONSTANTS
  Devices = {d1}
  Threads = {main, rt, service, c1}
  NoThread = noThread
  Main = main
  Rt = rt
  Service = service
  ClientCalls = {"mbx.lock", "od.check", "reg.check", "state.set"}
  TimeoutEnabled = FALSE
  HooksMayThrow = TRUE
  HooksCommunicate = TRUE
  EscDiagnostics = TRUE
  PortDiagnostics = TRUE
  MailboxDiagnostics = TRUE
SPECIFICATION Spec
INVARIANT IInv
INVARIANT MailboxIoOnOpenPort
INVARIANT BusIoOnOpenPort
INVARIANT RtUsesLiveBus
PROPERTY ImplementsContract
