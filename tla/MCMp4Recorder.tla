---------------------------- MODULE MCMp4Recorder ----------------------------
EXTENDS Mp4Recorder
=============================================================================
