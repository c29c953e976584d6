--------------------------- MODULE MCMarketplace ---------------------------
(***************************************************************************)
(* Instances of Marketplace.  Extras are the smallest that make an auction *)
(* and an instant rent acceptable at one price and refused at a lower one; *)
(* RentQuotes explores the arithmetic.                                     *)
(***************************************************************************)
EXTENDS Marketplace, TLC

CONSTANTS operator, maker, renter   \* accounts

\* One minute costs 1 by auction and 2 at once.
MCRequestExtraInputs == {<<0, 1, 1, 1, 2, 7>>}
AuctionBid  == <<0, 1, Auction, 3>>
RentNow     == <<0, 1, InstantRent, 4, 5>>
MCOfferExtraInputs == {AuctionBid, RentNow}
MCAuctionInputs    == {AuctionBid}

\* Lists of up to two offers: the order of a list is only the order of the
\* payload.  One list has an offer twice, one an offer that never exists.
MCOfferLists ==
  {<< >>, <<1, 1>>} \cup {<<o>> : o \in OfferID}
    \cup {<<o, o + 1>> : o \in 1 .. MaxOffers - 1}

\* With two requests: one offer alone, or both, which may mix the requests.
MCShortOfferLists == {<<o>> : o \in OfferID} \cup {<<1, 2>>}

Symmetry == Permutations(Account \ {Deployer})
=============================================================================
