\* A batch of two files, a file that is trashed and restored, or a rename,
\* beside KIO, the user of the desktop and two recorders.
SPECIFICATION Spec
CONSTANTS
    t1 = t1
    t2 = t2
    t3 = t3
    m1 = m1
    Trash <- AllTrash
    Rename <- OneRename
    Plans <- AllPlans
    Restorable <- OneRestore
    Recorders = {"c1", "c2"}
    Watched <- Looks
    Attempts = 2
    UserMoves = 2
    MaxEvents = 2
CHECK_DEADLOCK FALSE
INVARIANTS
    TypeOK
    DisplacedIsRecorded
    NothingLeftOpen
    AppliedBacked
    TrashNamed
    VerdictHolds
    AnswersTrue
PROPERTIES
    NothingDestroyed
