------------------------------- MODULE MCService -------------------------------
EXTENDS RenderService
=============================================================================
