----------------------------- MODULE MCBilling -----------------------------
(* Small instances of Billing: two prices of ours and one that is not. *)
EXTENDS Billing

MCPlanForPrice == [p \in Prices |-> CASE p = "price_pro" -> "pro"
                                      [] p = "price_enterprise" -> "enterprise"
                                      [] OTHER -> None]

Symmetry == Permutations(Workers) \cup Permutations(Threads) \cup Permutations(Customers)
              \cup Permutations(Subs)
=============================================================================
