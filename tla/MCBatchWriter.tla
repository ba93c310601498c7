---------------------------- MODULE MCBatchWriter ----------------------------
EXTENDS BatchWriter
=============================================================================
