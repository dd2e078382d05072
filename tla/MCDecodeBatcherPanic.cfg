SPECIFICATION BatcherFairSpec
CONSTANTS
    noIndex = noIndex
    noResult = noResult
    SlotIndices <- MCThree
    Width = 4
    Outcomes <- MCOk
    NoIndex <- noIndex
    NoResult <- noResult
PROPERTY
    PanicCostsOne
