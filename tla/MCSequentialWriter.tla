------------------------- MODULE MCSequentialWriter -------------------------
EXTENDS SequentialWriter
=============================================================================
