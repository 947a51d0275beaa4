SPECIFICATION Spec
CONSTANTS
    Machines <- MCMachines
    BusNumbers <- MCBusNumbers
    DevicesPerBus <- MCDevicesPerBus
    FunctionsPerDevice <- MCFunctionsPerDevice
    PagesPerTable <- MCPagesPerTable
    AreaFrames <- MCAreaFrames
    FISPage <- MCFISPage
    TablesPage <- MCTablesPage
    FifoSize <- MCFifoSize
    StackFrames <- MCStackFrames
INVARIANTS
    NothingLost
    SoundMachineBoots
    MissingIsReported
    ReportsCause
    ShownWhenHalted
    VisitsExactly
PROPERTY Halts
CHECK_DEADLOCK FALSE
