CONSTANTS
    b1 = b1
    b2 = b2
    None = None
    Foreign = Foreign
    Books = {b1, b2}
    Docx = {b1}
    MaxChanges = 1
    MaxFaults = 1
SPECIFICATION Spec
INVARIANTS
    PublishedIsOneLibrary
    
PROPERTIES
    NothingIsReplaced
