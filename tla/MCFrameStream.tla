--------------------------- MODULE MCFrameStream ---------------------------
EXTENDS FrameStream
=============================================================================
