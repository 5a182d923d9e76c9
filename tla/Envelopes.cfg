SPECIFICATION Spec
CONSTANTS
    Records <- SmallRecords
    Fields <- SmallFields
    TombstoneField <- SmallTombstoneField
    Domains = {0, 1}
    Keys = {k1, k2}
    NoKey = NoKey
    MaxBytes = 0
    Nothing = Nothing
SYMMETRY Symmetry
PROPERTIES
    OpensExactlyWhereSealed
