SPECIFICATION Spec
CONSTANTS
    Workers = {w1, w2}
    Namespaces = {"t1", "t2"}
    Texts = {"p", "q"}
    Documents <- MCDocuments
    Uploads <- MCUploads
    Stores = {"sqlite", "pgvector"}
    Faults = {"embed", "store", "crash"}
    MaxRestored = 1
SYMMETRY WorkerSymmetry
INVARIANTS
    TypeOK
    IndexedIsStored
    NoBloat
