---------------------------- MODULE MCSettlement ----------------------------
(***************************************************************************)
(* An instance of Settlement: two bids on one request, by auction or as an *)
(* instant rent, decided for either, both or none.                         *)
(***************************************************************************)
EXTENDS Settlement

CONSTANTS operator, maker   \* accounts; the maker also bids

\* One minute costs 1 by auction and 2 at once.
MCRequestExtraInputs == {<<0, 1, 1, 1, 2, 7>>}
MCOfferExtraInputs   == {<<0, 1, Auction, 3>>, <<0, 1, InstantRent, 4, 5>>}

MCOfferLists == {<< >>, <<1>>, <<2>>, <<1, 2>>}
=============================================================================
