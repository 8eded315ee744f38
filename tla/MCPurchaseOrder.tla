-------------------------- MODULE MCPurchaseOrder --------------------------
(* An instance of PurchaseOrder: two materials of different rates, a manager with a limit and an *)
(* owner with none to speak of, two invoices, a match that is exact and one that lets half more by. *)
EXTENDS PurchaseOrder, TLC

CONSTANTS cement, steel, manager, owner

Rates == cement :> 2 @@ steel :> 3
Limits == manager :> 5 @@ owner :> 100
OneOrMore == {[l \in Items |-> IF l = cement THEN c ELSE s] : c \in 0..2, s \in 0..1} \ {Nothing}
=============================================================================
