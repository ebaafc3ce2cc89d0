SPECIFICATION Spec
CONSTANTS
    NumInst = 2
    MaxDeaths = 3
    MaxKeys = 3
INVARIANTS
    TypeOK
    AttachesToOwn
    OneServer
PROPERTY ServersComeBack
