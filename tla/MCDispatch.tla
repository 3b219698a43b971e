----------------------------- MODULE MCDispatch -----------------------------
EXTENDS CrossRepoDispatch

CONSTANTS p, q

MCApplies == {p, q}
=============================================================================
