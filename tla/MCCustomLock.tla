---------------------------- MODULE MCCustomLock ----------------------------
\* CustomLock on a small set of threads.
EXTENDS CustomLock
=============================================================================
