CONSTANTS
    Id = {"i1", "i2"}
    Type = {"Intent", "Reasoning"}
    Size = {1, 2}
    MaxSize = 4
    MaxStores = 4
SPECIFICATION Spec
INVARIANT QuerySound
