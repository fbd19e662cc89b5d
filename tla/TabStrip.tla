------------------------------ MODULE TabStrip ------------------------------
(***************************************************************************)
(* How tab_box_allocate (src/src/native_app.cpp) shares the width of the   *)
(* tab strip: tabs become narrower as there are more of them, down to a    *)
(* minimum, and then only as many as fit are shown, the active one among   *)
(* them.  Places are counted from 0.                                       *)
(***************************************************************************)
EXTENDS Integers

kTabMinimumWidth == 44
kTabNaturalWidth == 184

Least(a, b) == IF a <= b THEN a ELSE b
Greatest(a, b) == IF a >= b THEN a ELSE b

(* std::clamp.                                                             *)
Clamp(x, low, high) == IF x < low THEN low ELSE IF high < x THEN high ELSE x

(* The width that is left beside the placeholder of a tab that is dragged. *)
Available(width, placeholder) == Greatest(0, width - placeholder)

Overflows(available, count) == available < count * kTabMinimumWidth

VisibleCount(available, count) ==
  IF Overflows(available, count)
  THEN Least(Greatest(1, available \div kTabMinimumWidth), count)
  ELSE count

FirstVisible(available, count, active) ==
  IF Overflows(available, count)
  THEN Clamp(active - VisibleCount(available, count) + 1, 0,
             count - VisibleCount(available, count))
  ELSE 0

(* What tab_width becomes for `visible` tabs.                              *)
TabWidth(available, visible) ==
  IF visible > 0 /\ available < visible * kTabNaturalWidth
  THEN Greatest(kTabMinimumWidth, available \div visible)
  ELSE kTabNaturalWidth

IsVisible(place, available, count, active) ==
  /\ FirstVisible(available, count, active) <= place
  /\ place < FirstVisible(available, count, active) + VisibleCount(available, count)

-----------------------------------------------------------------------------
(* The active tab is always among those that are shown.                    *)
ActiveIsVisible(available, count, active) == IsVisible(active, available, count, active)

(* The shown tabs fit into the strip; but one tab is shown in any case.    *)
TabsFit(available, count) ==
  LET visible == VisibleCount(available, count)
  IN  visible * TabWidth(available, visible) <= available \/ visible = 1

(* No tab is hidden that there would be room for, and those that are shown *)
(* are in the strip.                                                       *)
NoneHiddenNeedlessly(available, count, active) ==
  LET visible == VisibleCount(available, count)
      first == FirstVisible(available, count, active)
  IN  /\ 0 <= first /\ first + visible <= count
      /\ visible < count => available < (visible + 1) * kTabMinimumWidth
=============================================================================
