SPECIFICATION Spec
CONSTANTS
    Publisher = {p1, p2, p3}
    Content = {a, b}
    None = None
INVARIANTS
    PostedOnce
    ReceiptsAreTrue
PROPERTY ImplementsMonthlyPost
