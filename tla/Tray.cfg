SPECIFICATION FairSpec
INVARIANT LockDiscipline
INVARIANT ThreadEndsBeforeFree
PROPERTY FaultOnlyInWindow
PROPERTY TeardownEnds
PROPERTY LockIsGranted
CHECK_DEADLOCK FALSE
