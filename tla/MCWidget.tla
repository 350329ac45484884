------------------------------ MODULE MCWidget ------------------------------
EXTENDS Widget
=============================================================================
