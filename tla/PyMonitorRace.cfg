SPECIFICATION PySpec
INVARIANTS MonitorSparesHooks
\* A node that has left run leaves nothing to do.
CHECK_DEADLOCK FALSE
