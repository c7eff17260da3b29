--------------------------- MODULE MCHookProvider ---------------------------
(* A small instance of HookProvider: three listeners compete for two places. *)
EXTENDS HookProvider
MCConsumers == {"s", "m", "l1", "l2", "l3"}
MCType == [c \in MCConsumers |-> IF c = "s" THEN 1 ELSE IF c = "m" THEN 2 ELSE 4]
MCPrio == [c \in MCConsumers |-> IF c = "l1" THEN 2 ELSE IF c = "l2" THEN 1 ELSE IF c = "l3" THEN 0 ELSE 1]
MCMax == <<1, 1, 1, 2>>
=============================================================================
