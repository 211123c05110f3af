------------------------------ MODULE MCStreams -----------------------------
EXTENDS Streams
=============================================================================
