-------------------------- MODULE MCStaffSessions --------------------------
EXTENDS StaffSessions, TLC

CONSTANTS ana, nobody

MCNames == {ana, nobody}
MCStaff == {ana}

Interchangeable == Permutations(Requests)
=============================================================================
