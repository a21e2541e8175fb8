CONSTANTS
    Bytes <- TwoAndOne
    CopyBytes <- TwoAndOne
    GpuBudget = 5
    Target = 4
    DiskBudget = 3
SPECIFICATION Spec
PROPERTIES
    WriteAheadSettles
