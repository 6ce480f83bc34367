\* Three uploads, two of them of the same file, that may fail, and a client.
SPECIFICATION Spec
CONSTANTS
    u1 = u1
    u2 = u2
    u3 = u3
    f1 = f1
    f2 = f2
    b1 = b1
    b2 = b2
    b3 = b3
    Upload = {u1, u2, u3}
    File = {f1, f2}
    Blob = {b1, b2, b3}
    FileOf <- FilesOf
    Cut <- Cuts
    None = None
INVARIANTS
    FileIsWhole
    ServedIsWhole
PROPERTIES
    ImplementsCatalog
CHECK_DEADLOCK FALSE
