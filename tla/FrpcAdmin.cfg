SPECIFICATION Spec
CONSTANTS
    tab1 = tab1
    none = none
    Tab <- MCTab
    NoTab = none
    MaxReq = 2
    Text <- MCText
    Typed <- MCTyped
    Original = "template"
    Empty = "empty"
    ErrText = "bare"
    Garbled = "garbled"
    Broken <- MCBroken
    Rendered <- MCRendered
    HasCommon <- MCHasCommon
    Valid <- MCValid
    Row <- MCRow
    RowsOf <- MCRowsOf
INVARIANTS FileIntact
PROPERTIES SuccessMeansApplied
