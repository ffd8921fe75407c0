--------------------------- MODULE MC_TorControl ---------------------------
(* Instances of TorControl for TLC: two services, daemon versions on both  *)
(* sides of 0.2.7.                                                          *)
EXTENDS TorControl

CONSTANTS s1, s2

MCServices == {s1, s2}
MCOneService == {s1}

\* Both services file-based with a key file: both go into the SETCONF.
MCHasDataPath   == [s \in MCServices |-> TRUE]
MCKeyLoaded     == [s \in MCServices |-> s = s1]
MCKeyFileExists == [s \in MCServices |-> TRUE]

\* s2 is ephemeral (key loaded, no key file): legacy Tor skips it.
MCKeyFileMissing == [s \in MCServices |-> s = s1]
MCKeyLoadedAll   == [s \in MCServices |-> TRUE]

\* 0.2.6 (legacy), 0.4.8 (ADD_ONION), 0.2.7 exactly.
MCAllVersions    == {<<0, 2, 6>>, <<0, 4, 8>>, <<0, 2, 7>>}
MCLegacyVersions == {<<0, 2, 6>>}
MCNewVersions    == {<<0, 4, 8>>}
\* Every non-empty set of methods; null authentication alone.
MCAllMethods  == (SUBSET AuthMethods) \ {{}}
MCNullMethods == {{"Null"}}
=============================================================================
