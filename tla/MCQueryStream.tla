--------------------------- MODULE MCQueryStream ---------------------------
EXTENDS QueryStream
=============================================================================
