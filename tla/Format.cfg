SPECIFICATION FormatSpec
CONSTANTS
    WordBits <- MCWordBits
    BufferSize <- MCBufferSize
    Formats <- MCFormats
INVARIANTS
    CountTrue
    OnlyWidthOverruns
PROPERTIES
    PrintfSteps
    ShownToTheEnd
CHECK_DEADLOCK FALSE
