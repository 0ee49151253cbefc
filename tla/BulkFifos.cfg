SPECIFICATION FifoSpec
CONSTANT Orders = {"toPayload", "toAndroid"}
INVARIANTS FifoTypeOK NothingLeft EofAtEnd
PROPERTIES NobodyWaits CleanupEnds
CHECK_DEADLOCK FALSE
