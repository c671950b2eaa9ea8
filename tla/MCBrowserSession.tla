-------------------------- MODULE MCBrowserSession --------------------------
(* Small instances of BrowserSession for TLC.                              *)
EXTENDS BrowserSession, TLC

\* connections, shares, tokens, requests and rights are interchangeable
SessionSymmetry ==
    UNION {Permutations(S) : S \in {Conn, Share, Token, Request, Rights}}

\* A property speaks of one record, and no step on a user looks at a share: the
\* behaviours with users and those with shares are explored apart.
Apart == User \cap born' = {} \/ Share \cap born' = {}
ApartSpec == Init /\ [][Next /\ Apart]_vars
FairApartSpec == ApartSpec /\ Fairness
=============================================================================
