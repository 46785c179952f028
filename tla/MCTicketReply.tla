---------------------------- MODULE MCTicketReply ----------------------------
(* TLC instance of TicketReply: two operators confirm the same template, one
   as a terminal and one as a holding reply. *)
EXTENDS TicketReply, TLC

CONSTANTS k1, k2

MCText == k1 :> "template" @@ k2 :> "template"
MCIntent == k1 :> "terminal" @@ k2 :> "holding"
RunSymmetry == Permutations(Run)
=============================================================================
