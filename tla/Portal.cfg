CONSTANT MaxInbox = 1
SPECIFICATION Spec
INVARIANTS TimeoutFinal CooperationSucceeds LockedIsLocked
