SPECIFICATION Spec
CONSTANTS
    f1 = f1
    f2 = f2
    b1 = b1
    b2 = b2
    b3 = b3
    Root = Root
    Folders = {f1, f2}
    Bookmarks = {b1, b2, b3}
    FirstTree <- MCFirstTree
    Budgets <- MCBudgets
PROPERTY IntoAppends
CHECK_DEADLOCK FALSE
