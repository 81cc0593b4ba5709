------------------------------ MODULE MCLaunch ------------------------------
EXTENDS Launch

\* A secret that overlaps with itself, and another one.
XXY == <<"x", "x", "y">>
YX  == <<"y", "x">>
=============================================================================
