---------------------------- MODULE MCInputPath ----------------------------
EXTENDS InputPath
=============================================================================
