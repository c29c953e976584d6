---------------------------- MODULE MCRentQuotes ----------------------------
(***************************************************************************)
(* Instances of RentQuotes: a word of 16 values and minutes of two seconds *)
(* make every overflow of the contract happen with one-digit inputs.       *)
(***************************************************************************)
EXTENDS RentQuotes

\* start, duration, auction price, at most two rules, the key of the locker;
\* seven minutes from 5 end past the last word;
\* ill-formed arrays (odd rules, too short) are offered too.
MCRequestExtraInputs ==
  LET head == {<<start, duration, 2>> : start \in {0, 5}, duration \in {3, 5, 7}}
      rules == {<< >>, <<1, 3>>, <<1>>}
                 \cup {<<1, 4, m, p>> : m \in {1, 3, 5}, p \in {2, 6}}
  IN  {<<1, 2>>} \cup {h \o r \o <<7>> : h \in head, r \in rules}

\* So do seven minutes from 5 or 6.
MCOfferExtraInputs ==
  {<<start, duration, type, 9>> :
     start \in {0, 5, 6}, duration \in {1, 2, 3, 4, 7}, type \in 0 .. 2}
  \cup {<<5, 2, InstantRent, 9, 8>>, <<5, 2, Auction>>}

MCPayments == {2, 4, 8, 12}
=============================================================================
