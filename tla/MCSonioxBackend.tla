---------------------------- MODULE MCSonioxBackend ----------------------------
EXTENDS SonioxBackend
===============================================================================
