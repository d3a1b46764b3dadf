---------------------------- MODULE MCBrowserAuth ----------------------------
(* Instances of BrowserAuth for TLC.                                       *)
EXTENDS BrowserAuth, TLC

CONSTANTS c1, c2, c3, ann, bob, t1, t2

SlotsTabs == Permutations({c1, c2, c3}) \union Permutations({t1, t2})
SlotsTabsUsers == SlotsTabs \union Permutations({ann, bob})
=============================================================================
