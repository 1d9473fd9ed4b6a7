--------------------------- MODULE MCTaskAttempt ---------------------------
EXTENDS TaskAttempt
============================================================================
