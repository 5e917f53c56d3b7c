CONSTANTS
  Devices = {d1}
  Threads = {main, rt, service, c1}
  NoThread = noThread
  Main = main
  Rt = rt
  Service = service
  ClientCalls = {"mbx.lock"}
  TimeoutEnabled = TRUE
  HooksMayThrow = FALSE
  HooksCommunicate = TRUE
  EscDiagnostics = TRUE
  PortDiagnostics = FALSE
  MailboxDiagnostics = FALSE
SPECIFICATION FairSpec
INVARIANT LifecycleIsExclusive
INVARIANT OperationalIsConfirmed
PROPERTY StopTerminates
PROPERTY ActivationResolves
PROPERTY ServiceFailureStopsRt
PROPERTY ShutdownCompletes
