-------------------------- MODULE MCClassRegister --------------------------
EXTENDS ClassRegister

CONSTANTS e1, e2, p1
=============================================================================
