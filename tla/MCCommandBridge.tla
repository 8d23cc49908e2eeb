--------------------------- MODULE MCCommandBridge ---------------------------
\* CommandBridge with a few calls of one page and its successors.
EXTENDS CommandBridge
=============================================================================
