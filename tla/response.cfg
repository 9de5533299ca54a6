\* Two readers, three tasks, one waiting partial result per task.
CONSTANTS
    r1 = r1
    r2 = r2
    a = a
    b = b
    c = c
    Readers = {r1, r2}
    Tasks = {a, b, c}
    IdTasks <- MCIdTasks
    MaxPartials = 1
SPECIFICATION LSpec
INVARIANTS
    CompleteAnswer
PROPERTIES
    EveryReaderLeaves
\* Every request may be over.
CHECK_DEADLOCK FALSE
