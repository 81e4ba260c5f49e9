----------------------- MODULE MCEmulatorSubprocess -----------------------
EXTENDS EmulatorSubprocess
=============================================================================
