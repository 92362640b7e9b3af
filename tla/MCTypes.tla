------------------------------- MODULE MCTypes -------------------------------
EXTENDS Types
==============================================================================
