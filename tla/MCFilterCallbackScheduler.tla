--------------------- MODULE MCFilterCallbackScheduler ---------------------
EXTENDS FilterCallbackScheduler
=============================================================================
