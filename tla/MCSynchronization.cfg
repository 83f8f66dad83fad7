CONSTANTS
  Threads = {t1, t2, t3}
  MaxReaders = 2
  Clients = {c1, c2, c3}
  s1 = s1
  s2 = s2
  Sockets = {s1, s2}
  NoSocket = NoSocket
  Size <- SmallBuffers
  MaxWrite = 2
  MaxBytes = 2
  a = a
  b = b
  c = c
  d = d
  Main = Main
  Callers = {Main, w}
  Singletons = {a, b, c, d}
  Guard = Guard
  destructionPriority <- SomePriorities
  CtorUses <- SomeCtorUses
  DtorUses <- SomeDtorUses
SPECIFICATION AllSpec
INVARIANTS
  Exclusion
  SlotsAccounted
  LateOnce
  NoLostSignal
  BytesAccounted
  JoinSettles
  OneAlive
  DestroyedByPriority
PROPERTIES
  ImplementsEvent
  CallsReturn
  WrittenIsSent
