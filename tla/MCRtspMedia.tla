----------------------------- MODULE MCRtspMedia -----------------------------
EXTENDS RtspMedia
=============================================================================
