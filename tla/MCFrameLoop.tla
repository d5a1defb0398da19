---------------------------- MODULE MCFrameLoop -----------------------------
EXTENDS FrameLoop
=============================================================================
