--------------------------- MODULE MCVideoSources ---------------------------
EXTENDS VideoSources
=============================================================================
