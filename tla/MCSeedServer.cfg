CONSTANT ListenMayFail = TRUE
SPECIFICATION Spec
PROPERTY ServerNeverStuck
CHECK_DEADLOCK FALSE
