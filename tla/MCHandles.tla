------------------------------ MODULE MCHandles ------------------------------
EXTENDS Handles
CONSTANTS main, dev, i1, i2
=============================================================================
