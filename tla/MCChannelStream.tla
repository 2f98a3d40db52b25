--------------------------- MODULE MCChannelStream ---------------------------
EXTENDS ChannelStream
=============================================================================
