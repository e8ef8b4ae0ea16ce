------------------------------ MODULE MCRecovery ------------------------------
EXTENDS Recovery, TLC

\* Devices and codes are interchangeable.
Interchangeable == Permutations(Device) \cup Permutations(Code)
=============================================================================
