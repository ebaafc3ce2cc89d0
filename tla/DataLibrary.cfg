SPECIFICATION Spec
CONSTANT MaxId = 3
INVARIANTS
    TypeOK
    
    
