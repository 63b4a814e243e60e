SPECIFICATION Spec
CONSTANTS
    a1 = a1  a2 = a2  a3 = a3  b1 = b1  b2 = b2
    A = A  B = B
    Objects = {a1, a2, a3, b1, b2}
    ClientOf <- ClientOfAll
    TypeOf <- TypeOfAll
    NumContexts = 3
    Careless = {B}
    Garbage = {0, 1, 2, 3, 5}
    None = None
INVARIANTS ContextsAccounted ContextOfItsOwner
PROPERTY OthersUntouched
