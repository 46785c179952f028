--------------------------- MODULE MCRakutenOrder ---------------------------
(* TLC instance of RakutenOrder and GigaOutbound: one phase live at a time. *)
EXTENDS GigaOutbound, TLC

CONSTANTS pushA, pushB  \* two payloads

MCStarts == {[live |-> {ConfirmKey}, rms |-> "100"],
             [live |-> {CloseKey}, rms |-> "300"],
             [live |-> GigaKey, rms |-> "300"]}
MCMoves == {<<"100", "300">>, <<"600", "300">>, <<"300", "500">>,
            <<"100", "900">>, <<"300", "900">>}
MCEdits == {<<pushA, pushB>>}
MCMaxReleases == [k \in Key |-> IF k \in GigaKey THEN 0 ELSE 1]
RunSymmetry == Permutations(Run)
=============================================================================
