CONSTANTS
    c1 = c1  c2 = c2
    LessonCount = 3
    Sub = {1, 2}
    Total <- MCTotal
    Plan <- MCPlan
    Connection = {c1, c2}
    MaxCommands = 4
SPECIFICATION Spec
SYMMETRY Symmetric
INVARIANTS TypeOK NeverOverdrawn EarliestFirst
CHECK_DEADLOCK FALSE
