---------------------------- MODULE MCReenterLock ----------------------------
\* CustomReenterLock on a small set of threads.
EXTENDS CustomReenterLock
=============================================================================
