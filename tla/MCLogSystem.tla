---------------------------- MODULE MCLogSystem ----------------------------
(* CLogSystem for TLC: what logging.cfg may hold.                          *)
EXTENDS LogSystem

(* No file, or a file whose default comes after an override.               *)
MCConfigs == {<<>>} \cup {<<<<c, Levels>>, <<"default", {}>>>> : c \in Channels}

(* No definition tells one channel from another.                           *)
ChannelSymmetry == Permutations(Channels)
=============================================================================
