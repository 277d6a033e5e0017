SPECIFICATION Spec
CONSTANTS
  Cpus = {c1, c2, c3}
  Modulus = 4
  MaxTickets = 5
  RwCpus = {c1, c2, c3}
  SeqReaders = {r1}
  SeqWriters = {w1, w2}
  MaxWrites = 3
  IrqCpus = {c1, c2}
  RcuCpus = {c1, c2, c3}
  MaxPeriods = 3
  Kinds = {"ticket", "rw", "seq", "irq", "rcu"}
INVARIANTS
    TicketOrder
    RwExcludes
    SeqConsistent
PROPERTIES
    LocksProgress
CHECK_DEADLOCK FALSE
