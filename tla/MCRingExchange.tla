---------------------------- MODULE MCRingExchange ----------------------------
EXTENDS RingExchange
=============================================================================
