---------------------------- MODULE MCRemoteWrite ----------------------------
EXTENDS RemoteWrite
=============================================================================
