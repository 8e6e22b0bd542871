----------------------------- MODULE MCListings -----------------------------
EXTENDS Listings
MCAsk == {0, 2, 3}
MCKey == 1..2
=============================================================================
