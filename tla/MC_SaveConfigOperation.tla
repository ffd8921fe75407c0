------------------------ MODULE MC_SaveConfigOperation ------------------------
(* Two candidate paths, one named torrc and one not, each present or not. *)
EXTENDS SaveConfigOperation

CONSTANTS f1, f2

MCFiles == {f1, f2}
MCIsTorrc == [f \in MCFiles |-> f = f1]
MCKeys == {"SocksPort", "DataDirectory", "HiddenServicePort"}
MCInitialLines == {<<"SocksPort">>, <<"SocksPort", "DataDirectory">>}
=============================================================================
