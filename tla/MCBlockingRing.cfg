CONSTANTS
  N = 2
  Values = {a, b}
  Default = none
  Producers = {p}
  Consumers = {c}
  CanClear = TRUE
  PushOps <- AllPush
  PopOps <- AllPop
SPECIFICATION FairSpec
INVARIANT TypeOK
PROPERTIES ImplementsQueue OnlyClearMisses PushCompletes
