--------------------------- MODULE MCRegistration ---------------------------
EXTENDS Registration, TLC

\* A Win32 code, a value that is missing, a full transaction log.
MCThrown == {[category |-> "registry", value |-> 5],
             [category |-> "registry", value |-> value_missing],
             [category |-> "system", value |-> 6707]}

Symmetric == Permutations(Extensions)
=============================================================================
