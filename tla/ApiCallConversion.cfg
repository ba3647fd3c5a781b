SPECIFICATION Spec
CONSTANTS
    Values = {"negative", "small", "huge", "float", "string", "boolean", "numbers", "mixed"}
    MaxExtra = 1
    Missing = Missing
    None = None
INVARIANT ExecuteReturns
