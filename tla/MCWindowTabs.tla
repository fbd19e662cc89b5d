---------------------------- MODULE MCWindowTabs ----------------------------
(* WindowTabs with few windows and tabs.  Where a configuration has fewer  *)
(* addresses than tabs, addresses are used again.                          *)
EXTENDS WindowTabs, TabStrip, TLC

(* No address is distinguished in Init or Next. *)
Symmetry == Permutations(Addrs)

(* The layout of the tab strip, for strips from nothing to twelve tabs of  *)
(* the minimum width and somewhat more tabs than that.                     *)
ASSUME LayoutIsSound ==
  \A available \in 0..(12 * kTabMinimumWidth), count \in 1..14 :
    /\ TabsFit(available, count)
    /\ \A active \in 0..(count - 1) :
         /\ ActiveIsVisible(available, count, active)
         /\ NoneHiddenNeedlessly(available, count, active)
=============================================================================
