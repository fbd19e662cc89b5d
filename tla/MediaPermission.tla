--------------------------- MODULE MediaPermission ---------------------------
(***************************************************************************)
(* Camera and microphone prompts (src/src/native_app.cpp): each request of *)
(* a page has a dialog, and a camera that is allowed there is asked for    *)
(* once more at the desktop's camera portal, whose answer comes as a D-Bus *)
(* signal while the dialog stays open.                                     *)
(*                                                                         *)
(* Outside the code: the portal answers each call once, perhaps before the *)
(* program has subscribed to the answer; a dialog is destroyed with the    *)
(* window it belongs to, without "close-request"; the first answer to a    *)
(* WebKitPermissionRequest counts.                                         *)
(*                                                                         *)
(* An operator marked "Mutant" is not part of the model: it is a way the   *)
(* code could plausibly be wrong, kept to show which property notices.     *)
(***************************************************************************)
EXTENDS Naturals

CONSTANTS
  Prompts,   \* requests for a camera or a microphone, each with its prompt
  Windows,
  MaxCalls,  \* bound: how often the portal is called
  Nil

ASSUME MediaPermissionAssumption == MaxCalls \in Nat /\ Nil \notin Prompts \cup Windows

Calls == 1..MaxCalls

VARIABLES
  running,      \* the process has not crashed
  closed,       \* windows that were destroyed
  dialog,       \* dialog[p]: "none" before the request, "shown", "destroyed"
                \* with its window, or "freed" together with the prompt
  window,       \* window[p]: the dialog's transient-for
  video,        \* prompts for a camera
  answer,       \* answer[p]: what the request was answered
  current,      \* current[p]: the call of p's portal_subscription, or 0
  subscribed,   \* subscribed[k]: the prompt that call k's answer is passed to
  called,       \* how many calls the portal has had
  awaited,      \* calls that the portal has not answered
  asker,        \* history: asker[k]: the prompt that made call k
  clicked,      \* history: prompts whose Allow was clicked
  heard         \* history: heard[p]: what the portal said of p

prompts == <<dialog, window, video, answer, current>>
portal == <<subscribed, called, awaited, asker>>
vars == <<running, closed, prompts, portal, clicked, heard>>

Freed(p) == dialog[p] = "freed"

TypeOK ==
  /\ running \in BOOLEAN
  /\ closed \subseteq Windows
  /\ dialog \in [Prompts -> {"none", "shown", "destroyed", "freed"}]
  /\ window \in [Prompts -> Windows \cup {Nil}]
  /\ video \subseteq Prompts
  /\ answer \in [Prompts -> {"none", "asked", "allowed", "denied"}]
  /\ current \in [Prompts -> 0..called]
  /\ called \in 0..MaxCalls
  /\ subscribed \in [Calls -> Prompts \cup {Nil}]
  /\ awaited \subseteq 1..called
  /\ asker \in [Calls -> Prompts \cup {Nil}]
  /\ clicked \subseteq Prompts
  /\ heard \in [Prompts -> {"nothing", "unavailable", "yes", "no"}]
  /\ \A p \in Prompts :
       /\ dialog[p] = "none" <=> window[p] = Nil
       /\ Freed(p) => answer[p] \in {"allowed", "denied"} /\ current[p] = 0

Init ==
  /\ running = TRUE
  /\ closed = {}
  /\ dialog = [p \in Prompts |-> "none"]
  /\ window = [p \in Prompts |-> Nil]
  /\ video = {}
  /\ answer = [p \in Prompts |-> "none"]
  /\ current = [p \in Prompts |-> 0]
  /\ subscribed = [k \in Calls |-> Nil]
  /\ called = 0
  /\ awaited = {}
  /\ asker = [k \in Calls |-> Nil]
  /\ clicked = {}
  /\ heard = [p \in Prompts |-> "nothing"]

(* permission_requested, for a microphone, a camera or both.               *)
PermissionRequested(p, w) ==
  /\ dialog[p] = "none" /\ w \notin closed
  /\ dialog' = [dialog EXCEPT ![p] = "shown"]
  /\ window' = [window EXCEPT ![p] = w]
  /\ \/ video' = video \cup {p}
     \/ UNCHANGED video
  /\ answer' = [answer EXCEPT ![p] = "asked"]
  /\ UNCHANGED <<running, closed, current, portal, clicked, heard>>

(* Mutant: the subscription outlives the prompt. *)
CleanupNothing(p) ==
  /\ current' = [current EXCEPT ![p] = 0]
  /\ UNCHANGED subscribed

(* cleanup_media_prompt: the latest subscription is given up.              *)
CleanupMediaPrompt(p) ==
  /\ subscribed' = [k \in Calls |-> IF k = current[p] THEN Nil ELSE subscribed[k]]
  /\ current' = [current EXCEPT ![p] = 0]

(* The request is answered, the dialog destroyed and the prompt freed:     *)
(* finish_media_permission, and the handler of "close-request".            *)
FinishMediaPermission(p, allow) ==
  /\ answer' = [answer EXCEPT ![p] = IF allow THEN "allowed" ELSE "denied"]
  /\ CleanupMediaPrompt(p)
  /\ dialog' = [dialog EXCEPT ![p] = "freed"]

DenyMediaPermission(p) ==
  /\ dialog[p] = "shown"
  /\ FinishMediaPermission(p, FALSE)
  /\ UNCHANGED <<running, closed, window, video, called, awaited, asker, clicked, heard>>

(* Mutant: the dialog is closed and nobody tells the page. *)
DialogClosedUnanswered(p) ==
  /\ dialog[p] = "shown"
  /\ CleanupMediaPrompt(p)
  /\ dialog' = [dialog EXCEPT ![p] = "destroyed"]
  /\ UNCHANGED <<running, closed, window, video, answer, called, awaited, asker, clicked, heard>>

DialogClosed(p) ==
  /\ dialog[p] = "shown"
  /\ FinishMediaPermission(p, FALSE)
  /\ UNCHANGED <<running, closed, window, video, called, awaited, asker, clicked, heard>>

(* allow_media_permission, where nobody else is to be asked: a microphone, *)
(* or no session bus or no portal, which counts as permission.             *)
AllowAtOnce(p) ==
  /\ dialog[p] = "shown"
  /\ FinishMediaPermission(p, TRUE)
  /\ heard' = IF p \in video THEN [heard EXCEPT ![p] = "unavailable"] ELSE heard
  /\ clicked' = clicked \cup {p}
  /\ UNCHANGED <<running, closed, window, video, called, awaited, asker>>

(* The portal takes the call.  A second click on Allow calls it again, and *)
(* the new subscription takes the old one's place in the prompt only.      *)
AskPortal(p) ==
  /\ dialog[p] = "shown" /\ p \in video /\ called < MaxCalls
  /\ called' = called + 1
  /\ subscribed' = [subscribed EXCEPT ![called + 1] = p]
  /\ asker' = [asker EXCEPT ![called + 1] = p]
  /\ current' = [current EXCEPT ![p] = called + 1]
  /\ \E early \in BOOLEAN : awaited' = IF early THEN awaited ELSE awaited \cup {called + 1}
  /\ clicked' = clicked \cup {p}
  /\ UNCHANGED <<running, closed, dialog, window, video, answer, heard>>

(* A portal's answer nobody is subscribed to any more.                     *)
PortalUnheard(k) ==
  /\ k \in awaited /\ subscribed[k] = Nil
  /\ awaited' = awaited \ {k}
  /\ UNCHANGED <<running, closed, prompts, subscribed, called, asker, clicked, heard>>

(* Mutant: only a refusal (1) is a refusal, and not an end (2). *)
CameraPortalResponseLenient(k, response) ==
  LET p == subscribed[k] IN
  /\ k \in awaited /\ p # Nil /\ ~Freed(p)
  /\ FinishMediaPermission(p, response # 1)
  /\ heard' = [heard EXCEPT ![p] = IF response = 0 THEN "yes" ELSE "no"]
  /\ running' \in {TRUE, dialog[p] = "shown"}
  /\ awaited' = awaited \ {k}
  /\ UNCHANGED <<closed, window, video, called, asker, clicked>>

(* camera_portal_response.  The answer is passed on before the dialog is   *)
(* touched; a dialog that is gone may take the process with it.            *)
CameraPortalResponse(k, response) ==
  LET p == subscribed[k] IN
  /\ k \in awaited /\ p # Nil /\ ~Freed(p)
  /\ FinishMediaPermission(p, response = 0)
  /\ heard' = [heard EXCEPT ![p] = IF response = 0 THEN "yes" ELSE "no"]
  /\ running' \in {TRUE, dialog[p] = "shown"}
  /\ awaited' = awaited \ {k}
  /\ UNCHANGED <<closed, window, video, called, asker, clicked>>

(* The same with a prompt that was freed: the memory may look like a       *)
(* prompt that is done with, or the process may crash.                     *)
CameraPortalResponseDangling(k) ==
  /\ k \in awaited /\ subscribed[k] # Nil /\ Freed(subscribed[k])
  /\ running' \in BOOLEAN
  /\ awaited' = awaited \ {k}
  /\ UNCHANGED <<closed, prompts, subscribed, called, asker, clicked, heard>>

(* A window is destroyed, and its dialogs with it.                         *)
WindowDestroyed(w) ==
  /\ w \notin closed
  /\ closed' = closed \cup {w}
  /\ dialog' = [p \in Prompts |->
                  IF dialog[p] = "shown" /\ window[p] = w THEN "destroyed" ELSE dialog[p]]
  /\ UNCHANGED <<running, window, video, answer, current, portal, clicked, heard>>

User(p) ==
  \/ DenyMediaPermission(p) \/ DialogClosed(p) \/ AllowAtOnce(p) \/ AskPortal(p)

Next ==
  /\ running
  /\ \/ \E p \in Prompts : User(p) \/ \E w \in Windows : PermissionRequested(p, w)
     \/ \E w \in Windows : WindowDestroyed(w)
     \/ \E k \in Calls :
          \/ PortalUnheard(k) \/ CameraPortalResponseDangling(k)
          \/ \E response \in 0..2 : CameraPortalResponse(k, response)

Spec == Init /\ [][Next]_vars

-----------------------------------------------------------------------------
(* Nothing is allowed that the user did not allow here, nor a camera that  *)
(* the portal refused, whatever was clicked, closed or answered meanwhile. *)
AnswersAreMeant ==
  \A p \in Prompts : answer[p] = "allowed" =>
    /\ p \in clicked
    /\ p \in video => heard[p] \in {"yes", "unavailable"}

(* "Closing this prompt denies access" (the dialog's text): as long as a   *)
(* request is unanswered, the user has a dialog to answer it with, also    *)
(* when the portal's answer was missed; unless the dialog went with its    *)
(* window, where nothing answers the request.                              *)
AskedIsShown ==
  \A p \in Prompts : answer[p] = "asked" => dialog[p] = "shown" \/ window[p] \in closed

(* The portal's answer finds the prompt it is for, or is not passed on;    *)
(* except to a subscription that a second click on Allow replaced.         *)
CallbacksFindTheirPrompt ==
  \A k \in awaited : LET p == subscribed[k] IN
    p # Nil =>
      \/ k = current[p] /\ ~Freed(p)
      \/ \E later \in (k + 1)..called : asker[later] = p
=============================================================================
