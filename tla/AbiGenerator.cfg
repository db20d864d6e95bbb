\* Five contracts that are accepted, and drafts that are not.
SPECIFICATION Spec
CONSTANTS
    Width <- MCWidth
    InterfaceIdSize <- MCInterfaceIdSize
    ResourceSize <- MCResourceSize
    Text <- MCText
    ParameterNames <- MCParameterNames
    CapabilityNames <- MCCapabilityNames
    CallbackNames <- MCCallbackNames
    FunctionNames <- MCFunctionNames
    RakuNames <- MCRakuNames
    Contracts <- MCContracts
    Missing = Missing
    Abort = Abort
    Other = Other
INVARIANTS
    ExitCodeIsHonest
    OutputsAgree
    HandshakeIsSafe
