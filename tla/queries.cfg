SPECIFICATION Spec
CONSTANTS
    a = a
    b = b
    c = c
    r = r
    s = s
    t = t
    EventIds = {a, b, c}
    MatrixEvents = {}
    Kinds <- FilesAndTopics
    Rooms = {r, s}
    Times = {1, 2, 3}
    Tokens = {t}
    Limit = 1
    MaxContext = 2
    MaxWrites = 1
SYMMETRY Symmetry
INVARIANTS
    QueriesInv
    FilePages
    ContextAdjacent
    AnswersTrue
