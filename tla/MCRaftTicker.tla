---------------------------- MODULE MCRaftTicker ----------------------------
EXTENDS RaftTicker, TLC
=============================================================================
