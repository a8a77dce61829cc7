------------------------------ MODULE MCServer ------------------------------
EXTENDS Server

MCTargets == {<<"v6", "v4">>, <<"v4">>}
=============================================================================
