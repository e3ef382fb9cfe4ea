--------------------------- MODULE MCFeatureStrip ---------------------------
EXTENDS FeatureStrip
=============================================================================
