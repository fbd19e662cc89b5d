---------------------------- MODULE MCPreferences ----------------------------
(* Three processes and four settings, one of them not a domain's.          *)
EXTENDS Preferences, TLC

(* No process and no domain is distinguished in PreferencesInit or         *)
(* PreferencesNext.                                                        *)
Symmetry == Permutations(Procs) \cup Permutations(Domains)

(* OneSettingAtATime says nothing of what comes after processes have met.  *)
NotMet == ~overlapped
=============================================================================
