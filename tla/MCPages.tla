------------------------------ MODULE MCPages -------------------------------
EXTENDS Pages
=============================================================================
