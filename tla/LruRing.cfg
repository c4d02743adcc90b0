CONSTANT Capacity = 5
SPECIFICATION Spec
INVARIANTS RingWhole LastIsVictim
PROPERTY ImplementsLruOrder
