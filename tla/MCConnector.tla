----------------------------- MODULE MCConnector -----------------------------
\* MainProcessConnector with two web views and two deaths of the main process.
EXTENDS MainProcessConnector
=============================================================================
