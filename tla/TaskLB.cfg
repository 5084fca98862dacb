CONSTANTS
  w1 = w1
  w2 = w2
  c1 = c1
  c2 = c2
  Empty = Empty
  Nil = Nil
  Workers <- MCWorkers
  Clients <- MCClients
  MaxAdminOps <- MCMaxAdminOps
SPECIFICATION Spec
PROPERTY RentGetsPooledWorker
CHECK_DEADLOCK FALSE
