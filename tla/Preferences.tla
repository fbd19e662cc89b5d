----------------------------- MODULE Preferences -----------------------------
(***************************************************************************)
(* The preferences file (src/src/preferences.cpp), which every process of  *)
(* the browser and `vant settings` read, change and replace: the new       *)
(* contents go to preferences.conf.new, which is renamed.  There is no     *)
(* lock, and one temporary name for all.                                   *)
(*                                                                         *)
(* A setting is a key that is on or off: a domain with Dark Mode, or Video *)
(* for compatibility rendering; no file means that all are off.  Opening   *)
(* the temporary file empties it; the text, shorter than the stream's      *)
(* buffer, is written by the flush.  Between system calls another process  *)
(* may act, or this one may crash and be launched again.  Nobody notices   *)
(* that the file could not be opened or read: it counts as empty.          *)
(*                                                                         *)
(* An operator marked "Mutant" is not part of the model: it is a way the   *)
(* code could plausibly be wrong, kept to show which property notices.     *)
(***************************************************************************)
EXTENDS Naturals, FiniteSets

CONSTANTS
  Procs,     \* processes that may change preferences
  Domains,
  Video,     \* compatibility_video_rendering_v3
  NoKey

ASSUME PreferencesAssumption ==
  /\ IsFiniteSet(Procs)
  /\ Video \notin Domains /\ NoKey \notin Domains \cup {Video}

Keys == Domains \cup {Video}

(* Enough inodes: each process may hold one open, and there are two names. *)
Inodes == 1..(Cardinality(Procs) + 2)

VARIABLES
  file,       \* the inode that preferences.conf names, or 0
  temporary,  \* the inode that preferences.conf.new names, or 0
  content,    \* content[i]: the keys that are on in inode i
  pc,         \* pc[p]: where p is in a setter
  task,       \* task[p]: the setting p makes
  rest,       \* rest[p]: domains that "disable all" has still to come to
  values,     \* values[p]: what p has read, then what it will write
  output,     \* output[p]: the inode p writes
  misread,    \* history: setters that read less than was stored
  overlapped  \* history: two processes have been in a setter at once

disk == <<file, temporary, content>>
preferencesVars == <<disk, pc, task, rest, values, output, misread, overlapped>>

(* What the file says: without a file, nothing.                            *)
Stored == IF file = 0 THEN {} ELSE content[file]

(* read_preferences: without a stream there is no preference, and after a  *)
(* failure none of those that would still come.                            *)
Readings == SUBSET Stored

Setting == [key : Keys, on : BOOLEAN]
NoSetting == [key |-> NoKey, on |-> FALSE]

Apply(keys, setting) ==
  IF setting.on THEN keys \cup {setting.key} ELSE keys \ {setting.key}

Steps == {"idle", "merge", "open", "flush", "rename"}

PreferencesTypeOK ==
  /\ file \in Inodes \cup {0}
  /\ temporary \in Inodes \cup {0}
  /\ content \in [Inodes -> SUBSET Keys]
  /\ pc \in [Procs -> Steps]
  /\ task \in [Procs -> Setting \cup {NoSetting}]
  /\ rest \in [Procs -> SUBSET Domains]
  /\ values \in [Procs -> SUBSET Keys]
  /\ output \in [Procs -> Inodes \cup {0}]
  /\ overlapped \in BOOLEAN
  /\ misread \subseteq {p \in Procs : pc[p] # "idle"}
  /\ \A p \in Procs :
       /\ pc[p] = "idle" <=> task[p] = NoSetting
       /\ pc[p] \in {"flush", "rename"} <=> output[p] # 0
  /\ file = 0 \/ file # temporary

PreferencesInit ==
  /\ file = 0 /\ temporary = 0
  /\ content = [i \in Inodes |-> {}]
  /\ pc = [p \in Procs |-> "idle"]
  /\ task = [p \in Procs |-> NoSetting]
  /\ rest = [p \in Procs |-> {}]
  /\ values = [p \in Procs |-> {}]
  /\ output = [p \in Procs |-> 0]
  /\ misread = {}
  /\ overlapped = FALSE

(* Leaving the setter: it returns, throws, or the process crashes.  What   *)
(* no name and no process refers to any more is gone.                      *)
Leave(p) ==
  /\ content' = [i \in Inodes |-> IF i \in {file', temporary'} \cup {output[q] : q \in Procs \ {p}}
                                THEN content[i] ELSE {}]
  /\ pc' = [pc EXCEPT ![p] = "idle"]
  /\ task' = [task EXCEPT ![p] = NoSetting]
  /\ values' = [values EXCEPT ![p] = {}]
  /\ output' = [output EXCEPT ![p] = 0]
  /\ misread' = misread \ {p}
  /\ UNCHANGED overlapped

(* A setter begins: it reads what is stored.                               *)
Begin(p, setting) ==
  /\ pc' = [pc EXCEPT ![p] = IF setting.key = Video THEN "open" ELSE "merge"]
  /\ task' = [task EXCEPT ![p] = setting]
  /\ \E keys \in Readings :
       /\ values' = [values EXCEPT ![p] = IF setting.key = Video THEN Apply(keys, setting) ELSE keys]
       /\ misread' = IF keys = Stored THEN misread ELSE misread \cup {p}
  /\ overlapped' = (overlapped \/ \E q \in Procs \ {p} : pc[q] # "idle")
  /\ UNCHANGED <<disk, output>>

(* set_compatibility_video_rendering and set_dark_mode_enabled_for_domain. *)
Set(p, setting) ==
  /\ pc[p] = "idle" /\ rest[p] = {}
  /\ Begin(p, setting)
  /\ UNCHANGED rest

(* "Disable all" (vantage:dark-mode-disable-all): the domains are read and *)
(* disabled one by one.                                                    *)
DisableAll(p) ==
  /\ pc[p] = "idle" /\ rest[p] = {}
  /\ \E keys \in Readings : rest' = [rest EXCEPT ![p] = keys \cap Domains]
  /\ UNCHANGED <<disk, pc, task, values, output, misread, overlapped>>

DisableNext(p) ==
  /\ pc[p] = "idle"
  /\ \E d \in rest[p] :
       /\ Begin(p, [key |-> d, on |-> FALSE])
       /\ rest' = [rest EXCEPT ![p] = @ \ {d}]

(* Mutant: the other preferences are not kept. *)
MergeDomainsOnly(p) ==
  /\ pc[p] = "merge"
  /\ pc' = [pc EXCEPT ![p] = "open"]
  /\ values' = [values EXCEPT ![p] = Apply(Stored \cap Domains, task[p])]
  /\ UNCHANGED <<disk, task, rest, output, misread, overlapped>>

(* The domains are read again, by dark_mode_enabled_domains; all else is   *)
(* from the first reading.                                                 *)
MergeDomains(p) ==
  /\ pc[p] = "merge"
  /\ pc' = [pc EXCEPT ![p] = "open"]
  /\ \E keys \in Readings :
       /\ values' = [values EXCEPT ![p] = Apply((@ \ Domains) \cup (keys \cap Domains), task[p])]
       /\ misread' = IF keys = Stored THEN misread ELSE misread \cup {p}
  /\ UNCHANGED <<disk, task, rest, output, overlapped>>

(* An inode that nothing names and nobody writes.                          *)
Unused(i) == i \notin {file, temporary} /\ \A p \in Procs : output[p] # i

(* write_preferences: an ofstream with ios::trunc at the temporary name.   *)
OpenTemporary(p) ==
  /\ pc[p] = "open"
  /\ \E i \in Inodes :
       /\ IF temporary # 0 THEN i = temporary
          ELSE Unused(i) /\ \A j \in Inodes : Unused(j) => i <= j
       /\ temporary' = i
       /\ content' = [content EXCEPT ![i] = {}]
       /\ output' = [output EXCEPT ![p] = i]
  /\ pc' = [pc EXCEPT ![p] = "flush"]
  /\ UNCHANGED <<file, task, rest, values, misread, overlapped>>

Flush(p) ==
  /\ pc[p] = "flush"
  /\ content' = [content EXCEPT ![output[p]] = values[p]]
  /\ pc' = [pc EXCEPT ![p] = "rename"]
  /\ UNCHANGED <<file, temporary, task, rest, values, output, misread, overlapped>>

(* rename takes whatever the temporary name stands for by now.             *)
Rename(p) ==
  /\ pc[p] = "rename" /\ temporary # 0
  /\ file' = temporary
  /\ temporary' = 0
  /\ Leave(p)
  /\ UNCHANGED rest

(* Opening, writing or renaming fails and the setter throws, leaving the   *)
(* temporary file as it is; "disable all" ends there, too.                 *)
Throw(p) ==
  /\ pc[p] \in {"open", "flush", "rename"}
  /\ UNCHANGED <<file, temporary>>
  /\ Leave(p)
  /\ rest' = [rest EXCEPT ![p] = {}]

(* The process ends anywhere, and is launched again.                       *)
Crash(p) ==
  /\ pc[p] # "idle" \/ rest[p] # {}
  /\ UNCHANGED <<file, temporary>>
  /\ Leave(p)
  /\ rest' = [rest EXCEPT ![p] = {}]

(* A browser, or `vant settings`, which makes one setting and ends.        *)
Process(p) ==
  \/ \E key \in Keys, on \in BOOLEAN : Set(p, [key |-> key, on |-> on])
  \/ DisableAll(p) \/ DisableNext(p)
  \/ MergeDomains(p) \/ OpenTemporary(p) \/ Flush(p) \/ Rename(p)
  \/ Throw(p) \/ Crash(p)

PreferencesNext == \E p \in Procs : Process(p)

PreferencesSpec == PreferencesInit /\ [][PreferencesNext]_preferencesVars

-----------------------------------------------------------------------------
(* What p may store: what is stored now with its setting made; if it has   *)
(* misread, other settings may be missing, but none is added.              *)
Makes(p, keys) ==
  /\ keys = Apply(keys, task[p])
  /\ keys \subseteq Apply(Stored, task[p])
  /\ p \notin misread => keys = Apply(Stored, task[p])

(* "setters preserve unrelated preferences" (tests/preferences.cpp): what  *)
(* is stored changes by one whole setting at a time, which a process then  *)
(* makes, and by nothing else: no failure to write, no crash, no left-over *)
(* file.  Other settings are lost only by a setter that could not read the *)
(* file, and once two processes have been in a setter at once, from when   *)
(* on the file may also be found empty.                                    *)
OneSettingAtATime ==
  [][~overlapped' =>
       \/ Stored' = Stored
       \/ \E p \in Procs : pc[p] = "rename" /\ pc'[p] = "idle" /\ Makes(p, Stored')]_preferencesVars
=============================================================================
