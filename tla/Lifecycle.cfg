\* The module has no constants: both modes, every failure, a signal at any time.
SPECIFICATION FairSpec
INVARIANTS UsersGoFirst NothingLeft 
PROPERTY SignalEndsProcess
