---------------------------- MODULE MCTokenSearch ----------------------------
(***************************************************************************)
(* TokenSearch for TLC: three slots, of which two are there at the start,  *)
(* two tokens with different labels and numbers of mechanisms.             *)
(***************************************************************************)
EXTENDS TokenSearch, TLC

CONSTANTS k1, k2, m1, m2, card, stick

MCTokens     == {k1, k2}
MCLabel      == k1 :> card @@ k2 :> stick
MCMechanisms == k1 :> {m1, m2} @@ k2 :> {m2}
MCFilters    == {{m2}}
MCAtStart    == <<k1, NoToken>>
=============================================================================
