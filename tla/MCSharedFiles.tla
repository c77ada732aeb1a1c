--------------------------- MODULE MCSharedFiles ---------------------------
(* An instance of SharedFiles for TLC: three processes, two slots and two     *)
(* addresses, two roles, and an inode for every name and open file.         *)
EXTENDS SharedFiles, TLC

CONSTANTS p, q, r

ThreeProcesses == {p, q, r}
Alike == Permutations(ThreeProcesses)
TwoSlots == {1, 2}
TwoAddresses == {1, 2}
TwoRoles == {0, 2}
SomeInodes == 1 .. 10

=============================================================================
