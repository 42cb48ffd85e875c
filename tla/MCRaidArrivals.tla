-------------------------- MODULE MCRaidArrivals --------------------------
(***************************************************************************)
(* RaidArrivals on a small instance: one source, a partner and a streamer  *)
(* outside the partner programme.                                          *)
(***************************************************************************)
EXTENDS RaidArrivals

CONSTANTS anna, partner, stranger

OneSource  == {anna}
TwoTargets == {partner, stranger}
OnePartner == {partner}
=============================================================================
