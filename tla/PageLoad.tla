------------------------------ MODULE PageLoad ------------------------------
(***************************************************************************)
(* What one tab loads (src/src/native_app.cpp): requests of the user, the  *)
(* agent and the page, the policy decision on each, WebKit's load events,  *)
(* and the fields of TabState by which the shell knows what the tab shows. *)
(*                                                                         *)
(* WebKit runs in processes of its own, so a load is under way for a while *)
(* at each stage, and other requests come in between: a load is asked for, *)
(* its policy question waits in the main loop, it is allowed, started,     *)
(* committed and finished.  A newer request makes the questions before it  *)
(* stale: decide_policy still runs for them, and its answer is for nothing.*)
(*                                                                         *)
(* A load is what the view's URI becomes (`uri`) and what is then seen     *)
(* (`page`): a web page under its own URI, a page of the shell under       *)
(* about:blank, the source of a page or an error page under that page's.   *)
(*                                                                         *)
(* An operator marked "Mutant" is not part of the model: it is a way the   *)
(* code could plausibly be wrong, kept to show which property notices.     *)
(***************************************************************************)
EXTENDS Integers, FiniteSets, SequencesExt

CONSTANTS
  Web,           \* http(s) URIs; not `file:`, though NavigationPolicy takes it for the web
  Pages,         \* pages of the shell a user can ask for, "vantage:new" among them
  MaxRequests,   \* bound: requests the tab is given
  MaxBlanks      \* bound: how often WebKit commits about:blank in place of a page

Special == {"vantage:source", "vantage:image", "about:blank", "error", "none"}

ASSUME PageLoadAssumption ==
  /\ "vantage:new" \in Pages
  /\ Web \cap (Pages \cup Special) = {}
  /\ Pages \cap Special = {}
  /\ MaxRequests \in Nat /\ MaxBlanks \in Nat

Blank == "about:blank"
None == "none"

(* What internal_uri may be: about:blank typed by the user is a page of    *)
(* the shell, too.                                                         *)
Internal == Pages \cup {"vantage:source", "vantage:image", Blank}

VARIABLES
  tab,        \* the fields of TabState that say what is loaded
  shown,      \* state->view == tab->view: the tab is the one its window shows
  doc,        \* the document the view has committed
  current,    \* the load WebKit has started and not ended, or NoLoad
  allowed,    \* the load whose policy was allowed and that is to start next
  questions,  \* loads whose policy question is on its way, oldest first
  entries,    \* web URIs in the view's back-forward list
  source,     \* the page whose source page_action is fetching into this tab
  asked,      \* history: what the tab was last told to show, or NoPromise
              \* if that was stopped, or met one of the races below
  missed,     \* history: internal_uri was kept where a web page came in
  requests,   \* how many requests the tab was given
  blanks      \* how often WebKit committed about:blank instead

views == <<doc, current, allowed, questions, entries>>
vars == <<tab, shown, views, source, asked, missed, requests, blanks>>

TabFields == [internal_uri : Internal \cup {None}, display_uri : Web \cup {None},
              pending_web_uri : Web \cup {None}, recovering : BOOLEAN,
              user_stopped : BOOLEAN, can_return : BOOLEAN]

Document == [uri : Web \cup Internal, page : Web \cup Internal \cup {"error"}]

Load == [uri : Web \cup Internal, page : Web \cup Internal \cup {"error"},
         api : BOOLEAN, live : BOOLEAN, committed : BOOLEAN]

NoLoad == [uri |-> None, page |-> None, api |-> FALSE, live |-> FALSE, committed |-> FALSE]

NoPromise == [uri |-> None, page |-> None]

TypeOK ==
  /\ tab \in TabFields
  /\ shown \in BOOLEAN
  /\ doc \in Document
  /\ current \in Load \cup {NoLoad}
  /\ allowed \in Load \cup {NoLoad}
  /\ questions \in Seq(Load)
  /\ entries \subseteq Web
  /\ source \in Web \cup {None}
  /\ asked \in Document \cup {NoPromise}
  /\ missed \in BOOLEAN
  /\ requests \in Nat /\ blanks \in Nat

-----------------------------------------------------------------------------
(* WebKit's view.                                                          *)

(* A load that is still to be: `api` if the program asked for it, `live`   *)
(* unless it was superseded.                                               *)
LoadToBe(uri, page, api, live) ==
  [uri |-> uri, page |-> page, api |-> api, live |-> live, committed |-> FALSE]

(* A load the program asks for, and one that a link or a script does.      *)
ByProgram(uri, page) == LoadToBe(uri, page, TRUE, TRUE)
ByPage(uri) == LoadToBe(uri, uri, FALSE, TRUE)

(* Of a load that a newer one has overtaken there remains the question on  *)
(* its URI; an error page was not to be asked about.                       *)
Overtaken(uri) == LoadToBe(uri, uri, FALSE, FALSE)

Stale(qs) ==
  LET asking == IF qs # <<>> /\ Last(qs).page = "error" THEN Front(qs) ELSE qs
  IN  [i \in DOMAIN asking |-> Overtaken(asking[i].uri)]

(* A new load makes the ones that wait for their policy decision stale, so *)
(* that the newest alone may be live, and alone an error page.             *)
Issue(load) == questions' = Append(Stale(questions), load)

(* What the program asked for last is still to be decided.                 *)
Requested == questions # <<>> /\ Last(questions).live /\ Last(questions).api

(* webkit_web_view_get_uri: what the program last asked for, until that is *)
(* refused or has ended; what is being loaded; what is there.              *)
ActiveUri ==
  IF Requested THEN Last(questions).uri
  ELSE IF allowed.api /\ allowed.live THEN allowed.uri
  ELSE IF current # NoLoad /\ ~current.committed THEN current.uri
  ELSE doc.uri

IsLoading == Requested \/ allowed # NoLoad \/ current # NoLoad

AtRest == questions = <<>> /\ allowed = NoLoad /\ current = NoLoad

-----------------------------------------------------------------------------
(* The shell's handlers, as what they make of the tab's fields.            *)

(* load_decision: the fields, and the load it asks for; a target outside   *)
(* of Web and Internal stands for one the policy rejects or hands over.    *)
Decided(t, target) ==
  LET left == [t EXCEPT !.can_return =
                 target # "vantage:new" /\ (@ \/ t.internal_uri = "vantage:new")]
  IN  IF target \notin Web \cup Internal THEN left
      ELSE [left EXCEPT
              !.internal_uri = IF target \in Web THEN None ELSE target,
              !.pending_web_uri = IF target \in Web THEN target ELSE None,
              !.display_uri = None, !.recovering = FALSE]

LoadOf(target) == ByProgram(IF target \in Web THEN target ELSE Blank, target)

(* Mutant: only an empty internal_uri is followed. *)
FollowedNever(t) == t

(* uri_changed, which WebKit calls whenever the active URI changes: in the *)
(* tab that is shown, a URI that is not about:blank ends an internal page. *)
Followed(t) ==
  IF shown /\ ActiveUri' # ActiveUri /\ ActiveUri' # Blank
     /\ t.internal_uri # "vantage:source"
  THEN [t EXCEPT !.internal_uri = None] ELSE t

(* load_changed at WEBKIT_LOAD_FINISHED: the load waited for has come.     *)
Finished(t) ==
  IF ActiveUri' \in Web THEN [t EXCEPT !.pending_web_uri = None, !.recovering = FALSE] ELSE t

-----------------------------------------------------------------------------
(* Requests.                                                               *)

Asked(load) == asked' = [uri |-> load.uri, page |-> load.page]

(* `reason`: what has just kept the tab from showing what it was asked.    *)
Excused(reason) == asked' = IF reason THEN NoPromise ELSE asked

(* load_decision on a target that is loaded.                               *)
LoadDecision(target) ==
  /\ requests < MaxRequests
  /\ requests' = requests + 1
  /\ Issue(LoadOf(target))
  /\ UNCHANGED <<doc, current, allowed, entries, shown, source, blanks>>
  /\ tab' = Followed(Decided(tab, target))
  /\ Asked(LoadOf(target))

(* submit_address, a URI dropped on the page, the buttons for pages of the *)
(* shell; nothing but can_return_to_new_tab changes if the policy rejects. *)
SubmitAddress(target) ==
  /\ shown
  /\ IF target \in Web \cup Internal THEN LoadDecision(target)
     ELSE /\ tab' = Decided(tab, target)
          /\ UNCHANGED <<shown, views, source, asked, requests, blanks>>

(* browser.navigate, which may also reach a tab that is not shown.         *)
AgentNavigate(target) == LoadDecision(target)

(* webkit_web_view_go_back, _go_forward and _reload: WebKit asks for the   *)
(* URI again; HTML that the program once gave it is not kept.              *)
Request(uri) ==
  /\ requests < MaxRequests
  /\ requests' = requests + 1
  /\ Issue(ByProgram(uri, uri))
  /\ UNCHANGED <<doc, current, allowed, entries, shown, source, blanks>>
  /\ tab' = Followed(tab)

Revisit(uri) == Request(uri) /\ Asked(ByProgram(uri, uri))

(* A reload is for what is there: it asks for nothing new, and ends what   *)
(* is under way.  The HTML of a page of the shell is not there any more.   *)
Reload ==
  /\ Request(doc.uri)
  /\ Excused(~AtRest \/ doc.page # doc.uri)

Back == entries \ {doc.uri}

(* go_back: the new tab page is not in the list, the shell goes there.     *)
GoBack ==
  /\ shown
  /\ \/ \E uri \in Back : Revisit(uri)
     \/ Back = {} /\ tab.can_return /\ LoadDecision("vantage:new")

(* go_forward, browser.back and browser.forward.                           *)
GoAlong == \E uri \in Back : Revisit(uri)

(* webkit_web_view_stop_loading.                                           *)
Halt(t) ==
  /\ questions' = Stale(questions)
  /\ allowed' = [allowed EXCEPT !.live = FALSE]
  /\ current' = [current EXCEPT !.live = FALSE]
  /\ UNCHANGED <<doc, entries, shown, source, requests, blanks>>
  /\ Excused(TRUE)
  /\ tab' = Followed(t)

(* reload_or_stop, and Escape.                                             *)
ReloadOrStop ==
  /\ shown
  /\ IF IsLoading THEN Halt([tab EXCEPT !.user_stopped = TRUE])
     ELSE IF tab.internal_uri # None THEN LoadDecision(tab.internal_uri)
     ELSE Reload

(* browser.stop and browser.reload, which leave the fields alone.          *)
AgentStop == IsLoading /\ Halt(tab)
AgentReload == Reload

(* A link or a script of the page.  Its question may be ahead of those for *)
(* requests that the page's process has not received.                      *)
PageNavigates(target, i) ==
  /\ requests < MaxRequests
  /\ requests' = requests + 1
  /\ doc.page # Blank
  /\ questions' = IF i = Len(questions) + 1 THEN Append(Stale(questions), ByPage(target))
                  ELSE InsertAt(questions, i, Overtaken(target))
  /\ UNCHANGED <<doc, current, allowed, entries, shown, source, blanks>>
  /\ tab' = Followed(tab)
  /\ Excused(i = Len(questions) + 1 /\ Requested)

(* source_loaded: the fetched source goes into the tab, wherever the tab   *)
(* has gone since; a tab that has left its window is not found.            *)
SourceLoaded(found) ==
  /\ source # None
  /\ source' = None
  /\ IF found THEN Issue(ByProgram(source, "vantage:source")) ELSE UNCHANGED questions
  /\ UNCHANGED <<doc, current, allowed, entries, shown, requests, blanks>>
  /\ tab' = Followed(tab)
  /\ Excused(found /\ asked # [uri |-> source, page |-> "vantage:source"])

(* select_tab, of this tab or of another.                                  *)
Select(show) ==
  /\ shown # show
  /\ shown' = show
  /\ UNCHANGED <<tab, views, source, asked, requests, blanks>>

-----------------------------------------------------------------------------
(* WebKit's callbacks.                                                     *)

(* What decide_policy makes of a question, in the order of its tests.      *)
(* "own" means that the shell loads the page itself, through load_decision.*)
Verdict(q) ==
  CASE q.page = "error" -> "allow"
    [] q.page # "error" /\ q.uri = Blank /\ tab.internal_uri # None -> "allow"
    [] q.page # "error" /\ q.uri = Blank /\ tab.internal_uri = None
         /\ (tab.pending_web_uri # None \/ ActiveUri \in Web) -> "ignore"
    [] q.page # "error" /\ q.uri \in Web -> "allow"
    [] OTHER -> "own"

(* A page's own navigation may come to nothing here: the policy rejects it *)
(* or would hand it over, or it opens a tab of its own (a middle click, a  *)
(* new window).  Any URI of the web stands for the target.                 *)
LeadsElsewhere(q) == ~q.api /\ q.page \in Web

(* The fields after a navigation to the web was allowed; in a tab that     *)
(* shows a source they stay.                                               *)
Navigated(t, q) ==
  IF q.page = "error" \/ q.uri \notin Web \/ t.internal_uri = "vantage:source" THEN t
  ELSE [t EXCEPT !.internal_uri = None, !.display_uri = None,
                 !.pending_web_uri = q.uri, !.recovering = FALSE]

(* An answer to the oldest question, and what the shell does with it.      *)
Answer(q, verdict) ==
  LET waiting == Tail(questions)
      starts == q.live /\ verdict = "allow"
  IN  /\ starts => allowed = NoLoad
      /\ questions' = IF verdict = "own" THEN Append(Stale(waiting), LoadOf(q.uri)) ELSE waiting
      /\ allowed' = IF starts THEN q ELSE allowed
      /\ UNCHANGED <<doc, current, entries, shown, source, requests, blanks>>
      /\ tab' = Followed(CASE verdict = "allow" -> Navigated(tab, q)
                           [] verdict = "ignore" -> tab
                           [] OTHER -> Decided(tab, q.uri))
      /\ IF verdict = "own" THEN Asked(LoadOf(q.uri))
         ELSE IF starts /\ ~q.api THEN Asked(q)
         ELSE Excused(\/ ~q.live /\ q.uri \in Web /\ verdict = "allow"
                      \/ q.live /\ verdict = "ignore" /\ q.page = Blank)

DecidePolicy ==
  /\ questions # <<>>
  /\ LET q == Head(questions)
     IN  Answer(q, Verdict(q)) \/ (LeadsElsewhere(q) /\ Answer(q, "ignore"))

(* load_changed at WEBKIT_LOAD_STARTED.                                    *)
LoadStarted ==
  /\ allowed # NoLoad /\ current = NoLoad
  /\ current' = [allowed EXCEPT !.api = FALSE]
  /\ allowed' = NoLoad
  /\ UNCHANGED <<doc, questions, entries, shown, source, asked, requests, blanks>>
  /\ tab' = Followed([tab EXCEPT !.user_stopped = FALSE])

(* Mutant: only a tab that has shown nothing yet is taken to need it. *)
RecoversNewTabs(uri) == uri = Blank /\ doc.uri = Blank /\ tab.pending_web_uri # None
                        /\ ~Requested /\ ~tab.recovering

(* Whether the shell, as `uri` is committed, asks for the page once more.  *)
Recovers(uri) ==
  /\ ~Requested /\ ~(allowed.api /\ allowed.live)
  /\ uri = Blank
  /\ tab.pending_web_uri # None /\ ~tab.recovering

(* load_changed at WEBKIT_LOAD_COMMITTED; `blank` is when WebKit commits   *)
(* about:blank in place of the page.                                       *)
LoadCommitted(blank) ==
  LET committed == IF blank THEN [uri |-> Blank, page |-> Blank]
                   ELSE [uri |-> current.uri, page |-> current.page]
      recovers == Recovers(committed.uri)
  IN  /\ current # NoLoad /\ ~current.committed
      /\ blank => current.page \in Web /\ blanks < MaxBlanks
      /\ blanks' = IF blank THEN blanks + 1 ELSE blanks
      /\ doc' = committed
      /\ current' = [current EXCEPT !.committed = TRUE, !.uri = committed.uri]
      /\ entries' = IF committed.uri \in Web /\ committed.page # "vantage:source"
                    THEN entries \cup {committed.uri} ELSE entries
      /\ IF recovers THEN Issue(ByProgram(tab.pending_web_uri, tab.pending_web_uri))
         ELSE UNCHANGED questions
      /\ UNCHANGED <<allowed, shown, source, requests>>
      /\ Excused(blank /\ tab.pending_web_uri = None)
      /\ tab' = Followed([tab EXCEPT !.recovering = @ \/ recovers])

(* The end of a load clears what the load of a link, allowed meanwhile, is *)
(* known by until it starts.                                               *)
ClearsNewer == allowed # NoLoad /\ ~allowed.api

(* load_changed at WEBKIT_LOAD_FINISHED.                                   *)
LoadFinished ==
  /\ current # NoLoad /\ current.committed
  /\ current' = NoLoad
  /\ UNCHANGED <<doc, allowed, questions, entries, shown, source, requests, blanks>>
  /\ tab' = Followed(Finished(tab))
  /\ Excused(ClearsNewer)

(* load_failed shows nothing for a load that was cancelled, unless the     *)
(* user has stopped it.                                                    *)
ShowsError(cancelled) == ~cancelled \/ tab.user_stopped

(* Policy interrupts a load that becomes a download, or is of a type that  *)
(* cannot be shown, and load_failed takes it for a cancelled one.          *)
MayBeInterrupted == current.live /\ ~current.committed /\ current.page \in Web

(* Whether the view goes back to what it showed, and the shell keeps still.*)
FallsBack(cancelled) ==
  cancelled /\ MayBeInterrupted /\ ~ShowsError(cancelled) /\ ~Requested /\ allowed = NoLoad

(* What the tab is to show then: the web page that is there.  On a page of *)
(* the shell pending_web_uri keeps what became the download.               *)
FallenBack == IF asked # NoPromise /\ doc.page \in Web
              THEN [uri |-> doc.uri, page |-> doc.page] ELSE NoPromise

(* A load ends without success: load_failed, and FINISHED at once after.   *)
(* The error page is a load of its own, and supersedes what is waiting.    *)
LoadFails(cancelled) ==
  /\ current # NoLoad
  /\ IF cancelled THEN ~current.live \/ allowed # NoLoad \/ MayBeInterrupted
     ELSE current.page \in Web
  /\ current' = NoLoad
  /\ IF ShowsError(cancelled) THEN Issue(ByProgram(current.uri, "error"))
     ELSE UNCHANGED questions
  /\ UNCHANGED <<doc, allowed, entries, shown, source, requests, blanks>>
  /\ tab' = Followed(Finished(tab))
  /\ IF FallsBack(cancelled) THEN asked' = FallenBack
     ELSE Excused(ClearsNewer \/ (ShowsError(cancelled) /\ (Requested \/ allowed # NoLoad)))

(* web_process_terminated: the fields stay; the view has lost its page.    *)
WebProcessTerminated ==
  /\ doc.page # Blank
  /\ doc' = [doc EXCEPT !.page = Blank]
  /\ current' = NoLoad /\ allowed' = NoLoad /\ questions' = <<>>
  /\ UNCHANGED <<entries, shown, source, requests, blanks>>
  /\ tab' = Followed(tab)
  /\ Excused(TRUE)

-----------------------------------------------------------------------------
NewTab == [internal_uri |-> None, display_uri |-> None, pending_web_uri |-> None,
           recovering |-> FALSE, user_stopped |-> FALSE, can_return |-> FALSE]

(* new_tab with an address; page_action, for the source of a page; and     *)
(* context_open, for an image.                                             *)
Init ==
  /\ shown = TRUE
  /\ doc = [uri |-> Blank, page |-> Blank]
  /\ current = NoLoad /\ allowed = NoLoad
  /\ entries = {}
  /\ missed = FALSE
  /\ requests = 0 /\ blanks = 0
  /\ \/ \E target \in Web \cup {"vantage:new"} :
          /\ tab = Decided(NewTab, target)
          /\ questions = <<LoadOf(target)>>
          /\ source = None
     \/ \E page \in Web :
          /\ tab = [NewTab EXCEPT !.internal_uri = "vantage:source", !.display_uri = page]
          /\ questions = <<ByProgram(page, "vantage:source")>>
          /\ source = page
     \/ \E image \in Web :
          /\ tab = [Decided(NewTab, "vantage:new") EXCEPT
                      !.internal_uri = "vantage:image", !.display_uri = image]
          /\ questions = <<Overtaken(Blank),
                           ByProgram(Blank, "vantage:image")>>
          /\ source = None
  /\ asked = [uri |-> Last(questions).uri, page |-> Last(questions).page]

Requests ==
  \/ \E target \in Web \cup Pages \cup {Blank, None} : SubmitAddress(target)
  \/ \E target \in Web \cup Pages \cup {Blank} : AgentNavigate(target)
  \/ GoBack \/ GoAlong \/ ReloadOrStop \/ AgentStop \/ AgentReload
  \/ \E target \in Web \cup Pages \cup {Blank}, i \in 1..(Len(questions) + 1) :
       PageNavigates(target, i)
  \/ \E found \in BOOLEAN : SourceLoaded(found)
  \/ \E show \in BOOLEAN : Select(show)

WebKit ==
  \/ DecidePolicy \/ LoadStarted \/ LoadFinished \/ WebProcessTerminated
  \/ \E blank \in BOOLEAN : LoadCommitted(blank)
  \/ \E cancelled \in BOOLEAN : LoadFails(cancelled)

(* Since when internal_uri is what it was: a change of the URI that        *)
(* uri_changed would have followed if the tab were shown; a web page that  *)
(* decide_policy has let into a tab that shows a source.                   *)
Missing ==
  \/ missed /\ tab'.internal_uri = tab.internal_uri
  \/ /\ ~shown /\ ActiveUri' # ActiveUri /\ ActiveUri' # Blank
     /\ tab'.internal_uri \notin {None, "vantage:source"}
  \/ /\ allowed' # allowed /\ allowed'.page \in Web
     /\ tab'.internal_uri = "vantage:source"

Next == (Requests \/ WebKit) /\ missed' = Missing

Spec == Init /\ [][Next]_vars

-----------------------------------------------------------------------------
(* The address bar is honest: once nothing is loading, the tab that is     *)
(* shown goes by the name of an internal page only while that page (or an  *)
(* error in its place) is what one sees, and a web page goes by its own.   *)
(* internal_uri also decides which pages may act on the profile.  Where    *)
(* the code lets a web page in under an internal name (`missed`), it does  *)
(* not hold: in a tab that was not shown, and in a tab with a source that  *)
(* is reloaded, or sent back or forward.                                   *)
AddressIsHonest ==
  AtRest /\ shown =>
    /\ doc.page \in Web /\ ~missed => tab.internal_uri = None
    /\ asked # NoPromise /\ tab.internal_uri \in Pages =>
         doc.page \in {tab.internal_uri, Blank, "error"}

(* The newest request wins: once nothing is loading, the tab shows what it *)
(* was last told to show, or says that this failed; or still the web page  *)
(* that it showed, if what was asked for became a download.                *)
LastRequestIsShown ==
  AtRest /\ asked # NoPromise =>
    /\ doc.uri = asked.uri
    /\ asked.page \in Internal => doc.page \in {asked.page, "error"}

(* Mutant: only what the tab shows is looked at. *)
RestoreUriAsShown == IF tab.internal_uri # None THEN tab.internal_uri
                     ELSE IF ActiveUri = Blank THEN "vantage:new" ELSE ActiveUri

(* close_tab: the URI a closed tab is opened with again.                   *)
RestoreUri ==
  LET uri == IF tab.display_uri # None THEN tab.display_uri
             ELSE IF tab.internal_uri # None THEN tab.internal_uri
             ELSE IF tab.pending_web_uri # None THEN tab.pending_web_uri
             ELSE ActiveUri
  IN  IF uri = Blank THEN "vantage:new" ELSE uri

(* What a reader of the tab strip would say the tab was; a page of the     *)
(* shell that goes to about:blank by itself keeps its name.                *)
Named(load) ==
  IF load.uri \in Web THEN load.uri
  ELSE IF load.page # Blank THEN load.page
  ELSE IF tab.internal_uri \in Pages THEN tab.internal_uri ELSE "vantage:new"

(* "Closing a tab while still loading lost the URI in the restore path"    *)
(* (docs/evidence/a17-native-certification.md): once the policy on it is   *)
(* decided, and however far it has come, a tab that is closed comes back   *)
(* as what it was told to show.  A source and an image keep their name.    *)
(* Nothing is said of a page of the shell, or an error page, from which a  *)
(* link was followed that became a download: it comes back as that.        *)
ClosedTabComesBack ==
  /\ questions = <<>> /\ asked # NoPromise
  /\ tab.internal_uri \notin {"vantage:source", "vantage:image"}
  => RestoreUri = Named(asked)
=============================================================================
