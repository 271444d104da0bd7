--------------------------- MODULE MCEffectReplay ---------------------------
(***************************************************************************)
(* Two users beside the funding account and the sponsor, one entry of each *)
(* type.                                                                   *)
(***************************************************************************)
EXTENDS EffectReplay

CONSTANTS root, backer, ann, bob, extra

MCAccounts  == {root, backer, ann, bob}
MCSigners   == << ann, backer, bob, extra, root >>
MCCredit    == [kind |-> "alphanum4"]
MCStarts    == {{}, {ann, bob}}
MCPoolShare == [kind |-> "pool_share"]
=============================================================================
