-------------------------- MODULE MCFrontendDevice --------------------------
EXTENDS FrontendDevice
=============================================================================
