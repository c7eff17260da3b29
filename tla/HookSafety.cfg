SPECIFICATION Spec
CONSTANTS
  Consumers <- MCConsumers
  Type <- MCType
  Prio <- MCPrio
  MAX_HOOK_COUNTS <- MCMax
  Nil = Nil
  MaxCalls = 2
  MaxGone = 1
INVARIANTS ConsumersOK
PROPERTIES EachCalledOnce LowestGoes
