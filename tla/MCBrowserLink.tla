--------------------------- MODULE MCBrowserLink ---------------------------
(* The tab's generations: two connections the player starts, then the page is left. *)
EXTENDS BrowserLink
MCTwoConnections == 3
=============================================================================
