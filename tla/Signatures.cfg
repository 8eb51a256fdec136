\* Two digits for bytes, and the shortest signature that can be made.
CONSTANTS
    Base = 2
    MinLength = 3
SPECIFICATION Spec
INVARIANT FreshSignatureVerifies
CHECK_DEADLOCK FALSE
