--------------------------- MODULE SettingsProofs ---------------------------
(***************************************************************************)
(* Proofs about what the user settles: the camera and microphone prompts,  *)
(* for every number of prompts, windows and calls of the portal, and the   *)
(* preferences, for every number of processes and domains.                 *)
(***************************************************************************)
EXTENDS MediaPermission, Preferences, FiniteSetTheorems, TLAPS

(* A call that still has a subscription was made for a prompt whose Allow  *)
(* was clicked, and is the latest one made for it or was replaced.         *)
SubscriptionsOK ==
  \A k \in Calls : subscribed[k] # Nil =>
    /\ k \in 1..called /\ subscribed[k] \in clicked
    /\ \/ k = current[subscribed[k]]
       \/ \E later \in (k + 1)..called : asker[later] = subscribed[k]

(* What was allowed is done with: nothing the portal says changes it.      *)
AllowedAreFreed ==
  \A p \in Prompts : answer[p] = "allowed" => Freed(p)

(* Only a prompt that has been asked for can be clicked.                   *)
ClickedWereAsked ==
  \A p \in clicked : dialog[p] # "none"

MediaInv ==
  /\ ClickedWereAsked
  /\ TypeOK /\ SubscriptionsOK /\ AllowedAreFreed /\ AnswersAreMeant /\ AskedIsShown

LEMMA MediaInitially ==
  Init => MediaInv
BY MediaPermissionAssumption DEF Init, MediaInv, TypeOK, SubscriptionsOK, ClickedWereAsked, AllowedAreFreed,
  AnswersAreMeant, AskedIsShown, Calls, Freed

-----------------------------------------------------------------------------
LEMMA RequestedKeeps ==
  ASSUME MediaInv, NEW p \in Prompts, NEW w \in Windows, PermissionRequested(p, w)
  PROVE  MediaInv'
<1>1. TypeOK /\ p \notin {q \in Prompts : Freed(q)} /\ w # Nil
  BY MediaPermissionAssumption DEF MediaInv, PermissionRequested, Freed
<1>2. TypeOK'
  BY <1>1 DEF PermissionRequested, TypeOK, Freed, portal
<1>3. SubscriptionsOK'
  BY DEF MediaInv, SubscriptionsOK, PermissionRequested, portal
<1>4. AllowedAreFreed' /\ AnswersAreMeant' /\ AskedIsShown'
  BY <1>1 DEF MediaInv, TypeOK, PermissionRequested, AllowedAreFreed, AnswersAreMeant,
    AskedIsShown, Freed
<1>5. ClickedWereAsked'
  BY <1>1 DEF MediaInv, TypeOK, PermissionRequested, ClickedWereAsked
<1>6. QED
  BY <1>2, <1>3, <1>4, <1>5 DEF MediaInv

(* However the prompt ends, only its latest subscription is given up.      *)
LEMMA FinishKeeps ==
  ASSUME MediaInv, NEW p \in Prompts, NEW allow \in BOOLEAN,
         FinishMediaPermission(p, allow), dialog[p] \in {"shown", "destroyed"},
         UNCHANGED <<closed, window, video, called, asker>>,
         running' \in BOOLEAN, awaited' \subseteq awaited,
         clicked' \in {clicked, clicked \cup {p}},
         \E said \in {"nothing", "unavailable", "yes", "no"} : heard' = [heard EXCEPT ![p] = said],
         allow => p \in clicked' /\ (p \in video => heard'[p] \in {"yes", "unavailable"})
  PROVE  MediaInv'
<1>1. /\ TypeOK
      /\ dialog' = [dialog EXCEPT ![p] = "freed"]
      /\ answer' = [answer EXCEPT ![p] = IF allow THEN "allowed" ELSE "denied"]
      /\ subscribed' = [k \in Calls |-> IF k = current[p] THEN Nil ELSE subscribed[k]]
      /\ current' = [current EXCEPT ![p] = 0]
  BY DEF MediaInv, FinishMediaPermission, CleanupMediaPrompt
<1>2. TypeOK'
  BY <1>1 DEF TypeOK, Freed
<1>3. SubscriptionsOK'
  <2>1. ASSUME NEW k \in Calls, subscribed'[k] # Nil
        PROVE  /\ k \in 1..called /\ subscribed'[k] \in clicked'
               /\ \/ k = current'[subscribed'[k]]
                  \/ \E later \in (k + 1)..called : asker[later] = subscribed'[k]
    <3>1. subscribed'[k] = subscribed[k] /\ k # current[p] /\ subscribed[k] \in Prompts
      BY <1>1, <2>1 DEF TypeOK
    <3>2. /\ k \in 1..called /\ subscribed[k] \in clicked
          /\ \/ k = current[subscribed[k]]
             \/ \E later \in (k + 1)..called : asker[later] = subscribed[k]
      BY <2>1, <3>1 DEF MediaInv, SubscriptionsOK
    <3>3. k = current[subscribed[k]] => current'[subscribed[k]] = current[subscribed[k]]
      BY <1>1, <3>1 DEF TypeOK
    <3>4. QED
      BY <3>1, <3>2, <3>3
  <2>2. QED
    BY <2>1 DEF SubscriptionsOK
<1>4. AllowedAreFreed'
  BY <1>1 DEF MediaInv, TypeOK, AllowedAreFreed, Freed
<1>5. AnswersAreMeant'
  BY <1>1 DEF MediaInv, TypeOK, AnswersAreMeant
<1>6. AskedIsShown'
  BY <1>1 DEF MediaInv, TypeOK, AskedIsShown
<1>7. ClickedWereAsked'
  BY <1>1 DEF MediaInv, TypeOK, ClickedWereAsked
<1>8. QED
  BY <1>2, <1>3, <1>4, <1>5, <1>6, <1>7 DEF MediaInv

LEMMA UserKeeps ==
  ASSUME MediaInv, running, NEW p \in Prompts,
         DenyMediaPermission(p) \/ DialogClosed(p) \/ AllowAtOnce(p)
  PROVE  MediaInv'
<1>1. heard \in [Prompts -> {"nothing", "unavailable", "yes", "no"}] /\ running \in BOOLEAN
  BY DEF MediaInv, TypeOK
<1>2. CASE DenyMediaPermission(p) \/ DialogClosed(p)
  <2>1. heard' = [heard EXCEPT ![p] = heard[p]] /\ heard[p] \in {"nothing", "unavailable", "yes", "no"}
    BY <1>1, <1>2 DEF DenyMediaPermission, DialogClosed
  <2>2. QED
    BY <1>1, <1>2, <2>1, FinishKeeps DEF DenyMediaPermission, DialogClosed
<1>3. CASE AllowAtOnce(p)
  <2>1. PICK said \in {"nothing", "unavailable", "yes", "no"} :
          heard' = [heard EXCEPT ![p] = said] /\ (p \in video => said = "unavailable")
    <3>1. CASE p \in video
      BY <1>3, <3>1 DEF AllowAtOnce
    <3>2. CASE p \notin video
      <4>1. heard' = [heard EXCEPT ![p] = heard[p]]
        BY <1>1, <1>3, <3>2 DEF AllowAtOnce
      <4>2. QED
        BY <1>1, <3>2, <4>1
    <3>3. QED
      BY <3>1, <3>2
  <2>2. p \in clicked' /\ (p \in video => heard'[p] \in {"yes", "unavailable"})
    BY <1>1, <1>3, <2>1 DEF AllowAtOnce
  <2>3. QED
    BY <1>1, <1>3, <2>1, <2>2, FinishKeeps DEF AllowAtOnce
<1>4. QED
  BY <1>2, <1>3

LEMMA AskPortalKeeps ==
  ASSUME MediaInv, NEW p \in Prompts, AskPortal(p)
  PROVE  MediaInv'
<1>1. /\ TypeOK /\ called < MaxCalls /\ called' = called + 1 /\ called' \in Calls
      /\ called \in Nat /\ MaxCalls \in Nat
      /\ subscribed' = [subscribed EXCEPT ![called'] = p]
      /\ asker' = [asker EXCEPT ![called'] = p]
      /\ current' = [current EXCEPT ![p] = called']
      /\ clicked' = clicked \cup {p} /\ p \notin {q \in Prompts : Freed(q)}
      /\ UNCHANGED <<running, closed, dialog, window, video, answer, heard>>
  BY MediaPermissionAssumption DEF MediaInv, AskPortal, TypeOK, Calls, Freed
<1>2. awaited' \subseteq 1..called'
  BY <1>1 DEF AskPortal, TypeOK
<1>3. TypeOK'
  BY <1>1, <1>2 DEF TypeOK, Freed
<1>4. SubscriptionsOK'
  <2>1. ASSUME NEW k \in Calls, subscribed'[k] # Nil
        PROVE  /\ k \in 1..called' /\ subscribed'[k] \in clicked'
               /\ \/ k = current'[subscribed'[k]]
                  \/ \E later \in (k + 1)..called' : asker'[later] = subscribed'[k]
    <3>1. CASE k = called'
      BY <1>1, <3>1 DEF TypeOK
    <3>2. CASE k # called'
      <4>1. subscribed'[k] = subscribed[k] /\ subscribed[k] \in Prompts
        BY <1>1, <2>1, <3>2 DEF TypeOK
      <4>2. /\ k \in 1..called /\ subscribed[k] \in clicked
            /\ \/ k = current[subscribed[k]]
               \/ \E later \in (k + 1)..called : asker[later] = subscribed[k]
        BY <2>1, <4>1 DEF MediaInv, SubscriptionsOK
      <4>3. k \in 1..called' /\ called' \in (k + 1)..called'
        BY <1>1, <4>2
      <4>4. CASE subscribed[k] = p
        <5>1. asker'[called'] = p
          BY <1>1 DEF TypeOK
        <5>2. QED
          BY <1>1, <4>1, <4>3, <4>4, <5>1
      <4>5. CASE subscribed[k] # p /\ k = current[subscribed[k]]
        <5>1. current'[subscribed[k]] = current[subscribed[k]]
          BY <1>1, <4>1, <4>5 DEF TypeOK
        <5>2. QED
          BY <1>1, <4>1, <4>2, <4>3, <4>5, <5>1
      <4>6. CASE \E later \in (k + 1)..called : asker[later] = subscribed[k]
        <5>1. PICK later \in (k + 1)..called : asker[later] = subscribed[k]
          BY <4>6
        <5>2. later \in (k + 1)..called' /\ later # called' /\ later \in Calls
          BY <1>1, <4>2, <5>1 DEF Calls
        <5>3. asker'[later] = asker[later]
          BY <1>1, <5>2 DEF TypeOK
        <5>4. QED
          BY <1>1, <4>1, <4>2, <4>3, <5>1, <5>2, <5>3
      <4>7. QED
        BY <4>2, <4>4, <4>5, <4>6
    <3>3. QED
      BY <3>1, <3>2
  <2>2. QED
    BY <2>1 DEF SubscriptionsOK
<1>5. AllowedAreFreed' /\ AnswersAreMeant' /\ AskedIsShown'
  BY <1>1 DEF MediaInv, AllowedAreFreed, AnswersAreMeant, AskedIsShown, Freed
<1>6. ClickedWereAsked'
  BY DEF MediaInv, AskPortal, ClickedWereAsked
<1>7. QED
  BY <1>3, <1>4, <1>5, <1>6 DEF MediaInv

LEMMA ResponseKeeps ==
  ASSUME MediaInv, running, NEW k \in Calls, NEW response \in 0..2,
         CameraPortalResponse(k, response)
  PROVE  MediaInv'
<1>1. PICK p \in Prompts : p = subscribed[k]
  BY DEF MediaInv, TypeOK, CameraPortalResponse
<1>2. /\ p # Nil /\ ~Freed(p) /\ FinishMediaPermission(p, response = 0)
      /\ heard' = [heard EXCEPT ![p] = IF response = 0 THEN "yes" ELSE "no"]
      /\ running' \in BOOLEAN /\ awaited' \subseteq awaited
      /\ UNCHANGED <<closed, window, video, called, asker, clicked>>
  BY <1>1 DEF CameraPortalResponse
<1>3. p \in clicked
  BY <1>1, <1>2 DEF MediaInv, SubscriptionsOK
<1>4. dialog[p] \in {"shown", "destroyed"}
  BY <1>2, <1>3 DEF MediaInv, TypeOK, ClickedWereAsked, Freed
<1>5. heard \in [Prompts -> {"nothing", "unavailable", "yes", "no"}]
  BY DEF MediaInv, TypeOK
<1>6. CASE response = 0
  <2>1. FinishMediaPermission(p, TRUE)
    BY <1>2, <1>6 DEF FinishMediaPermission
  <2>2. heard' = [heard EXCEPT ![p] = "yes"] /\ heard'[p] = "yes"
    BY <1>2, <1>5, <1>6
  <2>3. QED
    BY <1>2, <1>3, <1>4, <2>1, <2>2, FinishKeeps
<1>7. CASE response # 0
  <2>1. FinishMediaPermission(p, FALSE)
    BY <1>2, <1>7 DEF FinishMediaPermission
  <2>2. heard' = [heard EXCEPT ![p] = "no"]
    BY <1>2, <1>7
  <2>3. QED
    BY <1>2, <1>4, <2>1, <2>2, FinishKeeps
<1>8. QED
  BY <1>6, <1>7

LEMMA DestroyedKeeps ==
  ASSUME MediaInv, NEW w \in Windows, WindowDestroyed(w)
  PROVE  MediaInv'
<1>1. TypeOK /\ closed' = closed \cup {w}
      /\ dialog' = [p \in Prompts |->
           IF dialog[p] = "shown" /\ window[p] = w THEN "destroyed" ELSE dialog[p]]
      /\ UNCHANGED <<running, window, video, answer, current, portal, clicked, heard>>
  BY DEF MediaInv, WindowDestroyed
<1>2. \A p \in Prompts : Freed(p)' <=> Freed(p)
  BY <1>1 DEF Freed
<1>3. TypeOK'
  BY <1>1, <1>2 DEF TypeOK, portal
<1>4. SubscriptionsOK' /\ AllowedAreFreed' /\ AnswersAreMeant'
  BY <1>1, <1>2 DEF MediaInv, SubscriptionsOK, AllowedAreFreed, AnswersAreMeant, portal
<1>5. AskedIsShown'
  BY <1>1 DEF MediaInv, AskedIsShown
<1>6. ClickedWereAsked'
  BY <1>1 DEF MediaInv, TypeOK, ClickedWereAsked
<1>7. QED
  BY <1>3, <1>4, <1>5, <1>6 DEF MediaInv

LEMMA MediaStepKeeps ==
  ASSUME MediaInv, [Next]_vars
  PROVE  MediaInv'
<1>1. CASE UNCHANGED vars
  BY <1>1 DEF vars, prompts, portal, MediaInv, TypeOK, SubscriptionsOK, ClickedWereAsked, AllowedAreFreed,
    AnswersAreMeant, AskedIsShown, Freed
<1>2. ASSUME UNCHANGED <<closed, prompts, subscribed, called, asker, clicked, heard>>,
             running' \in BOOLEAN, awaited' \subseteq awaited
      PROVE  MediaInv'
  BY <1>2 DEF prompts, MediaInv, TypeOK, SubscriptionsOK, ClickedWereAsked, AllowedAreFreed,
    AnswersAreMeant, AskedIsShown, Freed
<1>3. ASSUME NEW k \in Calls, PortalUnheard(k) \/ CameraPortalResponseDangling(k)
      PROVE  MediaInv'
  <2>1. running \in BOOLEAN
    BY DEF MediaInv, TypeOK
  <2>2. QED
    BY <1>2, <1>3, <2>1 DEF PortalUnheard, CameraPortalResponseDangling
<1>4. QED
  BY <1>1, <1>3, RequestedKeeps, UserKeeps, AskPortalKeeps, ResponseKeeps, DestroyedKeeps
  DEF Next, User

LEMMA MediaAlways ==
  Spec => []MediaInv
BY MediaInitially, MediaStepKeeps, PTL DEF Spec

(* The prompts' state stays of its type: a prompt that is freed is         *)
(* answered, and nothing is subscribed for it as its latest call.          *)
THEOREM PromptsTypeCorrect == Spec => []TypeOK
BY MediaAlways, PTL DEF MediaInv

(* However prompts are clicked, closed, answered late, or lose their       *)
(* window: no request is allowed without Allow and the portal's consent.   *)
THEOREM AllowedIsMeant == Spec => []AnswersAreMeant
BY MediaAlways, PTL DEF MediaInv

(* However many prompts there are: a request that is not answered has its  *)
(* dialog, unless the dialog went with its window.                         *)
THEOREM AskedKeepsItsDialog == Spec => []AskedIsShown
BY MediaAlways, PTL DEF MediaInv

(* However often Allow is clicked: an answer of the portal is for the      *)
(* prompt that asked, unless a later call for that prompt replaced it.     *)
THEOREM AnswersReachTheirPrompt == Spec => []CallbacksFindTheirPrompt
<1>1. MediaInv => CallbacksFindTheirPrompt
  <2> SUFFICES ASSUME MediaInv, NEW k \in awaited, subscribed[k] # Nil,
                      ~ \E later \in (k + 1)..called : asker[later] = subscribed[k]
               PROVE  k = current[subscribed[k]] /\ ~Freed(subscribed[k])
    BY DEF CallbacksFindTheirPrompt
  <2>1. k \in Calls /\ k # 0
    BY MediaPermissionAssumption DEF MediaInv, TypeOK, Calls
  <2>2. k = current[subscribed[k]] /\ subscribed[k] \in Prompts
    BY <2>1 DEF MediaInv, TypeOK, SubscriptionsOK
  <2>3. QED
    BY <2>1, <2>2 DEF MediaInv, TypeOK
<1>2. QED
  BY MediaAlways, <1>1, PTL

-----------------------------------------------------------------------------
(* The preferences.                                                        *)

(* What a setter alone at work has in hand is what is stored, or less if   *)
(* it has misread, with its setting made as soon as the domains were read  *)
(* again, and the temporary name stands for the file it writes.            *)
InHand(p) ==
  /\ pc[p] = "merge" => values[p] \subseteq Stored /\ (p \notin misread => values[p] = Stored)
  /\ pc[p] \in {"open", "flush", "rename"} => Makes(p, values[p])
  /\ pc[p] \in {"flush", "rename"} => temporary # 0 /\ output[p] = temporary
  /\ pc[p] = "rename" => content[temporary] = values[p]

(* Until two processes have met in a setter.                               *)
AloneInSetter ==
  ~overlapped => \A p \in Procs : pc[p] # "idle" =>
    /\ InHand(p)
    /\ \A q \in Procs \ {p} : pc[q] = "idle"

PreferencesInv == PreferencesTypeOK /\ AloneInSetter

-----------------------------------------------------------------------------
LEMMA NoInodeIsZero == 0 \notin Inodes
<1>1. Cardinality(Procs) \in Nat
  BY PreferencesAssumption, FS_CardinalityType
<1> QED
  BY <1>1 DEF Inodes

LEMMA PreferencesInitially == PreferencesInit => PreferencesInv
<1> SUFFICES ASSUME PreferencesInit PROVE PreferencesInv
  OBVIOUS
<1>1. PreferencesTypeOK
  BY DEF PreferencesInit, PreferencesTypeOK, Steps
<1>2. AloneInSetter
  BY DEF PreferencesInit, AloneInSetter
<1> QED
  BY <1>1, <1>2 DEF PreferencesInv

(* The domains and all else are everything.                                *)
LEMMA MergeIsWhole ==
  ASSUME NEW keys PROVE (keys \ Domains) \cup (keys \cap Domains) = keys
  OBVIOUS

(* What is made of a reading that is the whole, or of less.                *)
LEMMA MakesOfReading ==
  ASSUME NEW setting \in Setting, NEW keys, NEW from, from \subseteq keys
  PROVE  /\ Apply(from, setting) = Apply(Apply(from, setting), setting)
         /\ Apply(from, setting) \subseteq Apply(keys, setting)
  BY DEF Apply

LEMMA BeginKeeps ==
  ASSUME PreferencesInv, NEW p \in Procs, pc[p] = "idle",
         NEW setting \in [key : Keys, on : BOOLEAN],
         Begin(p, setting), rest' \in [Procs -> SUBSET Domains]
  PROVE  PreferencesInv'
<1>0. PICK keys \in Readings :
        /\ values' = [values EXCEPT ![p] = IF setting.key = Video THEN Apply(keys, setting) ELSE keys]
        /\ misread' = IF keys = Stored THEN misread ELSE misread \cup {p}
  BY DEF Begin
<1>1. /\ Stored \in SUBSET Keys /\ keys \subseteq Stored
      /\ keys \in SUBSET Keys /\ Apply(keys, setting) \in SUBSET Keys
  BY DEF PreferencesInv, PreferencesTypeOK, Stored, Readings, Apply
<1>2. setting \in Setting /\ setting # NoSetting
  BY PreferencesAssumption DEF Setting, NoSetting, Keys
<1>2a. /\ pc' = [pc EXCEPT ![p] = IF setting.key = Video THEN "open" ELSE "merge"]
       /\ task' = [task EXCEPT ![p] = setting]
       /\ overlapped' = (overlapped \/ \E q \in Procs \ {p} : pc[q] # "idle")
       /\ UNCHANGED <<file, temporary, content, output>>
  BY DEF Begin, disk
<1>3. PreferencesTypeOK'
  BY <1>0, <1>1, <1>2, <1>2a DEF PreferencesInv, PreferencesTypeOK, Steps
<1>4. AloneInSetter'
  <2> SUFFICES ASSUME ~overlapped' PROVE (\A q \in Procs : pc[q] # "idle" =>
                   InHand(q) /\ \A r \in Procs \ {q} : pc[r] = "idle")'
    BY DEF AloneInSetter
  <2>1. ~overlapped /\ \A q \in Procs \ {p} : pc[q] = "idle"
    BY <1>2a DEF PreferencesInv, PreferencesTypeOK
  <2>2. /\ pc'[p] = IF setting.key = Video THEN "open" ELSE "merge"
        /\ Stored' = Stored /\ task'[p] = setting
        /\ values'[p] = IF setting.key = Video THEN Apply(keys, setting) ELSE keys
        /\ p \notin misread' => keys = Stored
    BY <1>0, <1>2a DEF Stored, PreferencesInv, PreferencesTypeOK
  <2>3. InHand(p)'
    <3>1. CASE setting.key = Video
      BY <1>1, <1>2, <2>2, <3>1, MakesOfReading DEF InHand, Makes
    <3>2. CASE setting.key # Video
      BY <1>1, <2>2, <3>2 DEF InHand
    <3> QED
      BY <3>1, <3>2
  <2> QED
    BY <1>2a, <2>1, <2>3 DEF PreferencesInv, PreferencesTypeOK
<1> QED
  BY <1>3, <1>4 DEF PreferencesInv

LEMMA DisableAllKeeps ==
  ASSUME PreferencesInv, NEW p \in Procs, DisableAll(p)
  PROVE  PreferencesInv'
<1>1. PreferencesTypeOK'
  BY DEF PreferencesInv, PreferencesTypeOK, DisableAll, disk
<1>2. AloneInSetter'
  BY DEF PreferencesInv, AloneInSetter, InHand, Makes, DisableAll, disk, Stored, Apply
<1> QED
  BY <1>1, <1>2 DEF PreferencesInv

(* A step of a setter alone at work: the others stay idle.                 *)
LEMMA AloneStep ==
  ASSUME PreferencesInv, NEW p \in Procs, pc[p] # "idle",
         NEW to \in Steps, pc' = [pc EXCEPT ![p] = to],
         overlapped' = overlapped, ~overlapped /\ InHand(p) => to = "idle" \/ InHand(p)'
  PROVE  AloneInSetter'
  BY DEF PreferencesInv, AloneInSetter, PreferencesTypeOK

LEMMA MergeDomainsKeeps ==
  ASSUME PreferencesInv, NEW p \in Procs, MergeDomains(p)
  PROVE  PreferencesInv'
<1> USE DEF PreferencesInv, PreferencesTypeOK
<1> DEFINE from(keys) == (values[p] \ Domains) \cup (keys \cap Domains)
<1>0. PICK keys \in Readings :
        /\ values' = [values EXCEPT ![p] = Apply(from(keys), task[p])]
        /\ misread' = IF keys = Stored THEN misread ELSE misread \cup {p}
  BY DEF MergeDomains
<1>1. /\ pc[p] = "merge" /\ pc' = [pc EXCEPT ![p] = "open"]
      /\ UNCHANGED <<file, temporary, content, task, rest, output, overlapped>>
  BY DEF MergeDomains, disk
<1>2. /\ Stored \in SUBSET Keys /\ Stored' = Stored /\ task[p] \in Setting
      /\ keys \subseteq Stored
  BY <1>1 DEF Stored, Readings
<1>3. PreferencesTypeOK'
  <2>1. Apply(from(keys), task[p]) \in SUBSET Keys
    BY <1>2 DEF Apply, Setting, Keys
  <2> QED
    BY <1>0, <1>1, <2>1 DEF Steps
<1>4. AloneInSetter'
  <2>1. ASSUME InHand(p) PROVE InHand(p)'
    <3>1. from(keys) \subseteq Stored
      BY <1>1, <1>2, <2>1 DEF InHand
    <3>2. p \notin misread' => from(keys) = Stored
      BY <1>0, <1>1, <2>1, MergeIsWhole DEF InHand
    <3>3. values'[p] = Apply(from(keys), task[p]) /\ task'[p] = task[p] /\ pc'[p] = "open"
      BY <1>0, <1>1
    <3> HIDE DEF from
    <3>4. Makes(p, values[p])'
      BY <1>2, <3>1, <3>2, <3>3, MakesOfReading DEF Makes
    <3> QED
      BY <3>3, <3>4 DEF InHand
  <2> QED
    BY <1>1, <2>1, AloneStep DEF Steps
<1> QED
  BY <1>3, <1>4

(* A temporary file that is opened is not the file that is read.           *)
LEMMA OpenTemporaryKeeps ==
  ASSUME PreferencesInv, NEW p \in Procs, OpenTemporary(p)
  PROVE  PreferencesInv'
<1> USE DEF PreferencesInv, PreferencesTypeOK
<1>1. PICK i \in Inodes :
         /\ IF temporary # 0 THEN i = temporary ELSE Unused(i)
         /\ temporary' = i
         /\ content' = [content EXCEPT ![i] = {}]
         /\ output' = [output EXCEPT ![p] = i]
  BY DEF OpenTemporary
<1>2. i # 0 /\ i # file
  BY <1>1, NoInodeIsZero DEF Unused
<1>3. pc[p] = "open" /\ pc' = [pc EXCEPT ![p] = "flush"]
      /\ UNCHANGED <<file, task, rest, values, misread, overlapped>>
  BY DEF OpenTemporary
<1>4. PreferencesTypeOK'
  BY <1>1, <1>2, <1>3 DEF Steps
<1>5. AloneInSetter'
  <2>1. Stored' = Stored
    BY <1>1, <1>2, <1>3 DEF Stored
  <2>2. InHand(p) => InHand(p)'
    BY <1>1, <1>2, <1>3, <2>1 DEF InHand, Makes, Apply
  <2> QED
    BY <1>3, <2>2, AloneStep DEF Steps
<1> QED
  BY <1>4, <1>5

LEMMA FlushKeeps ==
  ASSUME PreferencesInv, NEW p \in Procs, Flush(p)
  PROVE  PreferencesInv'
<1> USE DEF PreferencesInv, PreferencesTypeOK
<1>1. pc[p] = "flush" /\ pc' = [pc EXCEPT ![p] = "rename"] /\ output[p] \in Inodes
      /\ content' = [content EXCEPT ![output[p]] = values[p]]
      /\ UNCHANGED <<file, temporary, task, rest, values, output, misread, overlapped>>
  BY DEF Flush
<1>2. PreferencesTypeOK'
  BY <1>1 DEF Steps
<1>3. AloneInSetter'
  <2>1. InHand(p) => InHand(p)'
    BY <1>1 DEF InHand, Makes, Apply, Stored
  <2> QED
    BY <1>1, <2>1, AloneStep DEF Steps
<1> QED
  BY <1>2, <1>3

(* Leaving a setter keeps what the names stand for.                        *)
LEMMA LeaveKeeps ==
  ASSUME PreferencesInv, NEW p \in Procs, Leave(p),
         \/ pc[p] # "idle"
         \/ UNCHANGED <<file, temporary>>,
         file' \in Inodes \cup {0}, temporary' \in Inodes \cup {0}, file' = 0 \/ file' # temporary',
         rest' \in [Procs -> SUBSET Domains]
  PROVE  /\ PreferencesInv'
         /\ file' # 0 => content'[file'] = content[file']
<1> USE DEF PreferencesInv, PreferencesTypeOK
<1>1. PreferencesTypeOK'
  BY DEF Leave, Steps
<1>2. file' # 0 => content'[file'] = content[file']
  BY DEF Leave
<1>3. AloneInSetter'
  <2>1. CASE pc[p] # "idle"
    <3>1. pc' = [pc EXCEPT ![p] = "idle"] /\ overlapped' = overlapped
      BY DEF Leave
    <3> QED
      BY <2>1, <3>1, AloneStep DEF Steps
  <2>2. CASE pc[p] = "idle" /\ UNCHANGED <<file, temporary>>
    <3> SUFFICES ASSUME ~overlapped, NEW q \in Procs, pc'[q] # "idle"
                 PROVE  InHand(q)' /\ \A r \in Procs \ {q} : pc'[r] = "idle"
      BY DEF AloneInSetter, Leave
    <3>1. /\ q # p /\ pc'[q] = pc[q] /\ values'[q] = values[q] /\ task'[q] = task[q]
          /\ output'[q] = output[q] /\ (q \in misread' <=> q \in misread)
      BY DEF Leave
    <3>2. InHand(q) /\ \A r \in Procs \ {q} : pc[r] = "idle"
      BY <3>1 DEF AloneInSetter
    <3>3. Stored' = Stored
      BY <1>2, <2>2 DEF Stored
    <3>4. temporary # 0 => content'[temporary] = content[temporary]
      BY <2>2 DEF Leave
    <3>5. InHand(q)'
      BY <2>2, <3>1, <3>2, <3>3, <3>4 DEF InHand, Makes, Apply
    <3> QED
      BY <3>2, <3>5 DEF Leave
  <2> QED
    BY <2>1, <2>2
<1> QED
  BY <1>1, <1>2, <1>3

(* What is renamed by a process alone is its setting, made.                *)
LEMMA RenameKeeps ==
  ASSUME PreferencesInv, NEW p \in Procs, Rename(p)
  PROVE  /\ PreferencesInv'
         /\ ~overlapped' => Makes(p, Stored')
<1>1. /\ pc[p] = "rename" /\ temporary # 0 /\ file' = temporary /\ temporary' = 0
      /\ Leave(p) /\ UNCHANGED rest /\ overlapped' = overlapped
  BY DEF Rename, Leave
<1>2. PreferencesInv' /\ (file' # 0 => content'[file'] = content[file'])
  BY <1>1, LeaveKeeps DEF PreferencesInv, PreferencesTypeOK
<1>3. ASSUME ~overlapped PROVE Makes(p, Stored')
  <2>1. Makes(p, values[p]) /\ content[temporary] = values[p]
    BY <1>1, <1>3 DEF PreferencesInv, AloneInSetter, InHand
  <2>2. Stored' = values[p]
    BY <1>1, <1>2, <2>1 DEF Stored
  <2> QED
    BY <2>1, <2>2
<1> QED
  BY <1>1, <1>2, <1>3

LEMMA ThrowKeeps ==
  ASSUME PreferencesInv, NEW p \in Procs, Throw(p) \/ Crash(p)
  PROVE  PreferencesInv' /\ Stored' = Stored
<1>1. UNCHANGED <<file, temporary>> /\ Leave(p) /\ rest' = [rest EXCEPT ![p] = {}]
  BY DEF Throw, Crash
<1>2. PreferencesInv' /\ (file' # 0 => content'[file'] = content[file'])
  BY <1>1, LeaveKeeps DEF PreferencesInv, PreferencesTypeOK
<1> QED
  BY <1>1, <1>2 DEF Stored

(* The steps that leave what is stored as it is, and the one that does not.*)
LEMMA PreferencesStep ==
  ASSUME PreferencesInv, [PreferencesNext]_preferencesVars
  PROVE  /\ PreferencesInv'
         /\ ~overlapped' =>
              \/ Stored' = Stored
              \/ \E p \in Procs : pc[p] = "rename" /\ pc'[p] = "idle" /\ Makes(p, Stored')
<1>1. ASSUME NEW p \in Procs, NEW key \in Keys, NEW on \in BOOLEAN, Set(p, [key |-> key, on |-> on])
      PROVE  PreferencesInv' /\ Stored' = Stored
  <2>1. [key |-> key, on |-> on] \in [key : Keys, on : BOOLEAN]
    OBVIOUS
  <2>2. pc[p] = "idle" /\ Begin(p, [key |-> key, on |-> on]) /\ rest' = rest
    BY <1>1 DEF Set
  <2>3. PreferencesInv'
    BY <2>1, <2>2, BeginKeeps DEF PreferencesInv, PreferencesTypeOK
  <2> QED
    BY <2>2, <2>3 DEF Begin, disk, Stored
<1>2. ASSUME NEW p \in Procs, DisableAll(p)
      PROVE  PreferencesInv' /\ Stored' = Stored
  BY <1>2, DisableAllKeeps DEF DisableAll, disk, Stored
<1>3. ASSUME NEW p \in Procs, DisableNext(p)
      PROVE  PreferencesInv' /\ Stored' = Stored
  <2>1. PICK d \in rest[p] : Begin(p, [key |-> d, on |-> FALSE]) /\ rest' = [rest EXCEPT ![p] = @ \ {d}]
    BY <1>3 DEF DisableNext
  <2>2. [key |-> d, on |-> FALSE] \in [key : Keys, on : BOOLEAN]
    BY DEF PreferencesInv, PreferencesTypeOK, Keys
  <2>3. pc[p] = "idle" /\ rest' \in [Procs -> SUBSET Domains]
    BY <1>3, <2>1 DEF DisableNext, PreferencesInv, PreferencesTypeOK
  <2>4. PreferencesInv'
    BY <2>1, <2>2, <2>3, BeginKeeps
  <2> QED
    BY <2>1, <2>4 DEF Begin, disk, Stored
<1>4. ASSUME NEW p \in Procs, MergeDomains(p)
      PROVE  PreferencesInv' /\ Stored' = Stored
  BY <1>4, MergeDomainsKeeps DEF MergeDomains, disk, Stored
<1>5. ASSUME NEW p \in Procs, OpenTemporary(p)
      PROVE  PreferencesInv' /\ Stored' = Stored
  <2>1. PreferencesInv'
    BY <1>5, OpenTemporaryKeeps
  <2>2. PICK i \in Inodes : /\ IF temporary # 0 THEN i = temporary ELSE Unused(i)
                            /\ content' = [content EXCEPT ![i] = {}]
    BY <1>5 DEF OpenTemporary
  <2> QED
    BY <1>5, <2>1, <2>2, NoInodeIsZero DEF OpenTemporary, Unused, Stored, PreferencesInv, PreferencesTypeOK
<1>6. ASSUME NEW p \in Procs, Flush(p)
      PROVE  PreferencesInv' /\ (~overlapped' => Stored' = Stored)
  BY <1>6, FlushKeeps
  DEF Flush, Stored, PreferencesInv, PreferencesTypeOK, AloneInSetter, InHand
<1>7. ASSUME NEW p \in Procs, Rename(p)
      PROVE  /\ PreferencesInv' /\ pc[p] = "rename" /\ pc'[p] = "idle"
             /\ ~overlapped' => Makes(p, Stored')
  BY <1>7, RenameKeeps DEF Rename, Leave, PreferencesInv, PreferencesTypeOK
<1>8. ASSUME UNCHANGED preferencesVars
      PROVE  PreferencesInv' /\ Stored' = Stored
  <2>1. Stored' = Stored
    BY <1>8 DEF preferencesVars, disk, Stored
  <2>2. PreferencesTypeOK'
    BY <1>8 DEF preferencesVars, disk, PreferencesInv, PreferencesTypeOK
  <2>3. AloneInSetter'
    BY <1>8, <2>1 DEF preferencesVars, disk, PreferencesInv, AloneInSetter, InHand, Makes, Apply
  <2> QED
    BY <2>1, <2>2, <2>3 DEF PreferencesInv
<1> QED
  BY <1>1, <1>2, <1>3, <1>4, <1>5, <1>6, <1>7, <1>8, ThrowKeeps DEF PreferencesNext, Process

-----------------------------------------------------------------------------
(* Until two processes meet in a setter, the one at work writes what is    *)
(* stored with its setting made, or less if it could not read the file.    *)
THEOREM PreferencesAreSafe == PreferencesSpec => []PreferencesInv
<1>1. PreferencesInv /\ [PreferencesNext]_preferencesVars => PreferencesInv'
  BY PreferencesStep
<1> QED
  BY <1>1, PreferencesInitially, PTL DEF PreferencesSpec

(* The file, its temporary and what each process has in hand keep their    *)
(* types.                                                                  *)
THEOREM PreferencesTypeCorrect == PreferencesSpec => []PreferencesTypeOK
<1>1. PreferencesInv => PreferencesTypeOK
  BY DEF PreferencesInv
<1> QED
  BY <1>1, PreferencesAreSafe, PTL

(* One setting at a time: whatever fails to be written, crashes or is left *)
(* over, for any number of processes and domains, until two processes meet *)
(* in a setter; only a setter that could not read the file loses others'.  *)
THEOREM SettingsAreMadeOneAtATime == PreferencesSpec => OneSettingAtATime
<1>1. PreferencesInv /\ [PreferencesNext]_preferencesVars =>
        [~overlapped' =>
           \/ Stored' = Stored
           \/ \E p \in Procs : pc[p] = "rename" /\ pc'[p] = "idle" /\ Makes(p, Stored')]_preferencesVars
  BY PreferencesStep
<1> QED
  BY <1>1, PreferencesAreSafe, PTL DEF PreferencesSpec, OneSettingAtATime
=============================================================================
