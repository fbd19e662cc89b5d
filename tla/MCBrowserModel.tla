--------------------------- MODULE MCBrowserModel ---------------------------
(* BrowserModel and its session file with a few ids: enough for three open *)
(* tabs with closed ones behind them, a full closed stack and every        *)
(* reordering of three.                                                    *)
EXTENDS SavedSession
=============================================================================
