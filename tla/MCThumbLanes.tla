---------------------------- MODULE MCThumbLanes ----------------------------
EXTENDS ThumbLanes
=============================================================================
