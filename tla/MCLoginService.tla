--------------------------- MODULE MCLoginService ---------------------------
\* LoginService with two clicks and two deaths of the service.
EXTENDS LoginService
=============================================================================
