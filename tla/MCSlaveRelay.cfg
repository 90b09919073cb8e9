SPECIFICATION Spec
CONSTANTS
    N = 2
    Budgets <- MCBudgets
INVARIANTS RelayInv
PROPERTIES PowerComes
