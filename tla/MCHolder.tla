------------------------------ MODULE MCHolder ------------------------------
EXTENDS Holder

CONSTANTS i1, i2       \* two random identifiers
=============================================================================
