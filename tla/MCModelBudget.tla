--------------------------- MODULE MCModelBudget ---------------------------
(* An instance of ModelBudget for TLC: k1 and k2 are made by the text      *)
(* model's proxy, k3 by the vision model's; two days of one month, then    *)
(* another.  On a clock that steps back, k1 and k3 are enough.             *)
EXTENDS ModelBudget

CONSTANTS k1, k2, k3, text, image

Owner == [c \in Call |-> IF c = k3 THEN image ELSE text]
Cost == [c \in Call |-> IF c = k2 THEN 1 ELSE 2]
Calendar == [d \in Day |-> IF d < 2 THEN 10 ELSE 11]

BudgetNext == Next /\ (clock = "stepped" => pc'[k2] = "new")

BudgetSpec == Init /\ [][BudgetNext]_vars
============================================================================
