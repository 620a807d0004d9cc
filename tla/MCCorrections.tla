---------------------------- MODULE MCCorrections ----------------------------
EXTENDS GpuCorrections
=============================================================================
