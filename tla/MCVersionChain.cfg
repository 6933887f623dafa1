\* Insertions and removals in every order.
SPECIFICATION Spec
CONSTANTS
    MaxVid = 6
    Null = Null
INVARIANTS WellLinked
PROPERTIES ImplementsVersionSet
