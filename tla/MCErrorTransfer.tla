-------------------------- MODULE MCErrorTransfer --------------------------
EXTENDS ErrorTransfer
=============================================================================
