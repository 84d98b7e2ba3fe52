------------------------------ MODULE MCTransfer ------------------------------
(***************************************************************************)
(* Small instances of Transfer for TLC.                                    *)
(***************************************************************************)
EXTENDS Transfer

CONSTANTS v1, v2

OneVersion  == {v1}
TwoVersions == {v1, v2}

\* Three one-byte chunks of a single version; two versions of different sizes,
\* so that a read can run past or fall short of the announced size.
SizeOfOne == [v \in OneVersion |-> 3]
SizeOfTwo == [v \in TwoVersions |-> IF v = v1 THEN 2 ELSE 3]

NoFile   == {}
AllFiles == File
=============================================================================
