--------------------------- MODULE MCCachedChunk ----------------------------
EXTENDS CachedChunk
=============================================================================
