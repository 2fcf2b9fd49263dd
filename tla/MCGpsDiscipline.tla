--------------------------- MODULE MCGpsDiscipline ---------------------------
EXTENDS GpsDiscipline
=============================================================================
