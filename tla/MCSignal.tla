------------------------------ MODULE MCSignal ------------------------------
EXTENDS Signal
CONSTANTS s1, s2, s3
MCPlaces == {<<s1, 1, TRUE>>, <<s2, 1, FALSE>>, <<s3, 2, FALSE>>}
=============================================================================
