# A verification of Vant

This directory holds TLA+ specifications of the Vant browser (`src/`), configurations that check them with
TLC, and proofs that TLAPS checks. Each definition translates a part of the source; `PROJECT.json` says which
lines (`map`), what each run shows, and which slip of the code each property would notice (`mutants`).

## The system

Vant is a GTK program around WebKitGTK, in C++. Every launch is a process of its own
(`G_APPLICATION_NON_UNIQUE`) that shares a profile on disk with the others. In a process, the GTK main loop
runs every callback of the shell to its end; beside it there are only the threads of the agent's socket. Pages
run in processes of WebKit's, which answer the shell by callbacks.

| component | state | operations | what makes it correct |
|---|---|---|---|
| tab model (`browser_model.cpp`) | tabs in order, active id, closed tabs, next id | new, activate, close, reopen, duplicate, move, discard | ids unique and never reused, the active tab exists, discarding and moving do what they say |
| session store (`session_store.cpp`) | tabs table, clean-exit mark, open transaction | save, mark, open, close | a failure or a crash leaves the old or the new tabs |
| agent socket (`agent_rpc.cpp` start, stop) | the pathname and who listens behind it | probe, unlink, bind, listen, stop, in several processes | a server keeps the name until it stops; a stale file is no obstacle |
| agent RPC (`agent_rpc.cpp`, `run_native`) | acceptor and connection threads, main context, requests under way | accept, read, invoke, reply, time out, stop | one request at a time, honest answers, nothing executed twice, no thread left behind |
| agent events (`AgentEventLog`, `events.*`, `vant agent watch`) | numbered ring, cursors of clients | publish, clear, since, watch | no event twice, none passed over that is still there, losses visible |
| windows and tabs (`native_app.cpp`) | windows with their TabStates, selection, drag state, idle callbacks; the strip's layout | by user, by agent and by deferred callbacks | each tab in one place, windows show a tab, privacy follows tabs, handles stay what they were; the active tab is visible |
| load lifecycle (`native_app.cpp`) | fields of TabState that say what is shown, WebKit's loads | requests, navigation policy, load events, stop, reload, source view | the address bar is honest, the newest request wins, a closed tab comes back as what it was |
| find in page (`native_app.cpp`) | each window's bar, the marks in pages, answers under way | search, next, close, JavaScript and native counts | the bar says what is true of the page it is about |
| agent in pages (`native_app.cpp`) | references of snapshots, waits, a response that is read | snapshot, interact, wait, fetch | references are not retargeted, waits end and are honest, truncation is marked |
| downloads (`native_app.cpp`, `user_data.cpp`) | DownloadContexts, rows of the downloads table | WebKit's signals, cancel, remove, reconcile | rows tell the truth, cancels hit what was meant, private downloads leave no row |
| media permission (`native_app.cpp`) | prompt, dialog, portal subscription | ask, allow, deny, close, portal's answer | nothing allowed that was not meant, every request can be answered, answers find their prompt |
| preferences (`preferences.cpp`) | a key=value file and its temporary twin | read, change, replace, in several processes | the stored settings change by one whole setting at a time |
| bookmarks, history, favicons, permissions | tables of the profile | add, update, remove | nothing written in private mode |
| navigation policy, launch options, automation | none, or a cancel flag | pure functions; three host functions behind capabilities | classification is total; no effect without a capability |

They meet in few places. The agent's connection threads hand requests to the main loop
(`g_main_context_invoke`) and wait for a reply, which handlers or WebKit callbacks give. The handlers of
windows, tabs and downloads publish into the event log, which clients read through the RPC. The find bars and
the agent run scripts in the same documents, and each sees what the other does to them. Windows share the
downloads and the profile; processes share the socket's pathname and the profile's files. The tab model and
the session store are used by tests and benchmarks, not by the native shell, which keeps its own tabs.

Hard to test are: the order of system calls of two processes at one pathname; the agent acting between a click
and the idle callback the click left behind; memory that pointers in such callbacks outlive; requests made
before the main loop runs or after it ended; load events of a load that another has overtaken; answers of a
page that has been changed, moved or left since the question; a portal's answer that comes after the prompt
was answered otherwise; a process that dies between two statements, or reconciles rows another is writing.
`PROJECT.json` lists these under `hazards`, at their lines.

## Modules

Each module is parameterised by CONSTANTS. `MC*.tla` instantiates a module for TLC, `*Proofs.tla` holds its
theorems. An operator marked "Mutant" in a module is not part of the model.

**BrowserModel** is class BrowserModel, one action per member function. `tabs` and `closed` are its vectors,
`active` and `next_id` its fields; ids are never reused in the code, so the model counts them up to `MaxId` (a
bound). **SessionStore** is the session file: `file` is what is committed, `transaction` what the connection
would commit, one action per statement of save_tabs, each of which may fail, and `Die` at any of them. `saved`
and `started` are history. **SavedSession** composes the two: what is saved are the model's tabs (`Rows`),
nothing else happens to the model meanwhile, and it is gone when its process ends.

**AgentSocket** is start() and stop(), one action per system call, for any number of processes. `pc[p]` is the
call p makes next, `sock[p]` its descriptor, `path` what the pathname leads to. A process may die anywhere
(`Crash`), and if `Shortage`, `socket()` and `listen()` may fail in any call; a listen() that fails has the
socket closed, and then the name unlinked. `early` and `littered` are history: who was under way when p began
to listen, and whether a file was there at first or a process died.

**AgentRpc** is one process: an acceptor, one thread per connection (`conn[c]` is where it is), the main
context (`owner`), requests in the main loop's queue, with WebKit (`pending`), and replied. What a method does
is reduced to replying at once or from a callback (`Dispatch`), since the protocol does not depend on more. It
composes with the event log and the windows only through that reply. The 30 seconds may pass at any time, and
a client may keep silent. A thread that has waited looks at the flag, and writes `reply`, without the lock,
while a callback may still be storing a late answer there through references to the thread's frame. That is
undefined behaviour, and `Reply` and `Dies` choose among what it can do: what is sent is the time-out, the
reply, or neither (`torn`), or the process ends. When the thread has ended, its stack stays until stop() joins
it, so that a reply is lost there without harm. `late` is history.

**AgentEvents** is the log (`events`, `next`, `dropped`) and its clients: `Followers` advance their cursor to
the last event they got, as docs/AGENT-REFERENCE.md tells clients to, `Watchers` to the newest number, as
`vant agent watch` does. `base` and `read` are history. **OrderedFeed** is the abstract specification: readers
are given events in order and pass over none that is still there. AgentEvents implements it for followers
(`ImplementsFeed`).

**WindowTabs** is the native shell: every signal handler, idle callback and agent method that opens, selects,
moves or closes. Tabs are known by address as in the code, and a freed address may be used again: that is how
the model shows what a bare pointer in a `g_idle_add` callback can hit. Closed windows stay in the list, as
they do in the code. Handlers run to their end, so each is one step; a handler that defers work puts a
callback into `idle`. **TabStrip** is the arithmetic of tab_box_allocate: how wide tabs are and which are
shown.

**PageLoad** is one tab's loads. `tab` holds the fields of TabState; `questions`, `allowed`, `current` and
`doc` are the stages of loads in WebKit (waiting for decide_policy, to be started, under way, committed).
Every handler is an action: the requests of user, agent and page, `DecidePolicy`, `LoadStarted`,
`LoadCommitted` with the recovery from a blank page, `LoadFinished`, `LoadFails`, `WebProcessTerminated`,
`SourceLoaded`. `uri_changed`, which WebKit calls inside other calls, is part of each step that changes the
active URI (`Followed`). A load that is under way may become a download, or be of a type that cannot be shown
(`MayBeInterrupted`): then the view goes back to what it showed (`FallsBack`). A navigation of the page's may
also be rejected, handed over, or open a tab of its own (`LeadsElsewhere`). `asked` and `missed` are history:
what the tab was last told to show (`NoPromise` after the races listed below, in which the code does not
promise it), and whether internal_uri was kept where a web page came in. `Web` is http(s); `file:` is not
modelled, see the weaknesses.

**Pages** is what find bar and agent have in common: tabs in windows, their documents and what is in them, and
the events that select, move, close, navigate and change them. **FindInPage** adds the find bars: `bar` is
each window's fields, `found` what the scripts have left in a document, `toPage` and `toShell` the messages to
and from a page's process, in order: scripts, and answers of scripts or of WebKit's own search (`Counted`),
which counts when the script fails (`Mute` are such documents; that a script without a listener has ended is
`Unheard`). `fresh` and `misled` are history: whether the document was looked through since it changed, and
whether the bar took the count of a tab it does not show. **AgentPage** adds the agent's requests: `refs` is
`__vantageAgentState` of a document, `handles` the references that clients hold, `waits` the AgentWaitStates
and `fetch` the AgentFetchResult, whose probe for one more byte may fail (`unprobed`). **PageScripts**
composes all three; that a search marks matches in the document is what the agent's MutationObserver sees
(`Mark`).

**Downloads** is the DownloadContexts of several processes and the table they share. A signal handler is one
step; reconcile_downloads, which reads the newest `Limit` rows (500 in the code) and settles them one by one,
is a step per row and file (`Launch`, `ReconcileLook`, `ReconcileWrite`), because processes share the database
statement by statement. Any number of the newest places may be taken by rows that are not modelled, so that a
launch may read any number of the newest rows. A file counts as complete only if it is whole, but a whole one
may not: it is empty, or shorter than the total that was announced. `left` is history: rows of processes that
ended and that no launch has read since. `Exit` is a crash or an end of the process: in both nothing is
written. The row ids that SQLite gives are modelled (`NextRow`): the id of the last row is used again when
that row is removed.

**MediaPermission** is the prompt for camera and microphone, one action per handler. `dialog[p]` is what has
become of the dialog and with it of the `MediaPermissionPrompt`, `current[p]` its `portal_subscription`,
`subscribed` what the bus connection has subscribed, with the prompt's pointer. The two differ: a second click
on Allow overwrites the former and leaves the latter. A callback with a dangling pointer may crash or find
memory that looks answered. `clicked` and `heard` are history.

**Preferences** is the two setters and "disable all", one action per system call, in several processes with
the two pathnames and the inodes behind them. A name that is renamed away while another process writes to its
inode is what makes inodes necessary. Nobody notices that the file could not be opened or read, so a reading
may give any part of what is stored (`Readings`). `misread` and `overlapped` are history.

External behaviour that the models assume: closing a socket or dying leaves its pathname behind;
`g_main_context_invoke` runs the function at once if no thread owns the context; WebKit asks for a policy
decision before each load but that of an error page, asks on for loads that a newer one has overtaken and
ignores the answer, and may commit about:blank in place of a page; scripts run in a page in the order they
were sent, and fail if the page is replaced; WebKit reports the end of a failed download through `failed` and
at once `finished`, and of a cancelled one nothing but its end; GTK destroys a dialog with its parent without
`close-request`; the portal answers a call once, perhaps before anyone has subscribed; a stream's buffer holds
the whole preferences file until it is flushed; SQLite keeps exactly what was committed.

## What is checked

| run | instance | shows |
|---|---|---|
| browser_model | 3 ids, closed limit 2, with the session file | identity, selection and discarding under every sequence of calls; a saved session survives failures and crashes |
| agent_socket | 2 processes, crashes, failing socket() and listen() | a server that started undisturbed keeps the name; a start that gives up leaves nothing behind; a stale file is recovered from |
| agent_rpc | 3 connections, whose clients may keep silent | who executes requests, honest answers, every thread joined, what ends and what only a silent client holds up |
| agent_events | ring of 3, limits 1 and 2, 6 events, a follower and a watcher | overflow, delivery, refinement of OrderedFeed |
| window_tabs | 2 windows, 4 tabs at 3 addresses, 1 waiting callback | where tabs live, what windows show, what handles mean |
| window_tabs_click | 1 window, 3 tabs at 2 addresses | violated: only the tab whose button was clicked closes |
| page_load | 2 web pages, 2 pages of the shell, 2 requests, 1 blank page | the address bar, the newest request and the closed tab through every order of load events |
| find_in_page | 2 windows, 3 tabs, 2 texts, 2 pages of which 1 is mute, 5 operations | a bar at rest tells the truth about the page it is about |
| page_scripts | 2 windows, 2 tabs, 1 text, 3 operations, responses up to 3 bytes | references, waits and fetches while pages change, move and close |
| downloads | 2 processes, 2 downloads, the 2 newest rows | what the rows of the downloads table can be relied on for |
| media_permission | 2 requests, 2 windows, 3 calls of the portal | answers are what user and portal meant, prompts can be answered |
| preferences | 3 processes, 3 domains and the video setting, up to where two setters meet (CONSTRAINT NotMet) | settings change one at a time until two setters overlap, and by whole settings unless the file could not be read |

`LayoutIsSound`, an assumption of MCWindowTabs that TLC evaluates, is the bounded check of what
WindowTabsProofs proves: all widths up to twelve tabs, up to fourteen tabs, every active one.

**Type invariants** of all modules were checked while the modules were written. None is in a run, because
those of AgentSocket, BrowserModel, AgentEvents, AgentRpc, MediaPermission, Preferences, WindowTabs, PageLoad,
FindInPage and PageScripts are proved for every instance, as parts of their inductive invariants.

**Bounds.** Two processes are enough for AgentSocket to show each race (a race needs one that looked and one
that acts), and the theorems hold for any number. The ring of the log is smaller than the number of events,
and the limits smaller than the ring, so that overflow, clearing and a client that lags behind all happen, in
several orders. In window_tabs there are fewer addresses than tabs, so an address is used again while a
callback, a drag or a pending detachment may still hold it; two windows are what a move takes; `MaxIdle` is
how many callbacks wait at once. `MaxRequests` counts the requests of a tab after its first: three loads let
one be overtaken while it overtakes another, and a blank page be committed for any of them. It takes two pages
of the shell to tell a tab that is named after the right one from a tab that is named after some one. In
find_in_page five operations are enough to type two texts, go to another tab, move it and come back, and three
tabs leave each window one to go to; one of the two pages is mute, so that WebKit's count comes late there,
for the tab that is shown and for one that is not; in page_scripts three operations are a snapshot, a search
or a change, and what is asked then; the buffer (2), the limit (2) and the longest response (3) meet, fall
short of and exceed each other. Two downloads are enough for a row id to be used again, for two contexts
without a record, and for a save dialog to outlive its download; two processes, for one that reconciles what
the other is writing. Three calls of the portal let one prompt be clicked twice while the other waits. With as
many newest rows as downloads, and other rows that may take their places, a launch reads all, the newer, or
none of them. In preferences OneSettingAtATime says nothing of what follows once two setters have met, so
NotMet ends the runs there; until then one process acts at a time, and three of them, with a crash of each and
what it leaves under the temporary name, follow each other in every order.

**Fairness.** In AgentSocket, a process that has begun start() or stop() goes on (`WF` of its steps): no call
in them blocks. In AgentEvents each client keeps polling, which is what a client is. In AgentRpc each thread
goes on and the acceptor is not starved; stop(), once begun, goes on. Nothing is assumed of clients, which may
keep silent for ever: `EveryConnectionEnds` is about those that sent something, and `StopReturns` says that
stop() gets as far as the connections' threads whatever clients do, and to its end if none keeps silent.
Nothing is assumed of the user: the application need not end. The main loop is not assumed to be fair either,
which makes `EveryConnectionEnds` say that the limit of 30 seconds does its work. In PageScripts, `WaitsEnd`
assumes that the timers of the main loop fire and that time passes, and nothing of the page's process: it is
about waits whose page does not keep a question for ever. The other runs check safety only.

**Deadlock** is checked in the runs of BrowserModel, AgentSocket, AgentEvents, Downloads and Preferences. The
other systems may stop: all windows closed, the server stopped with every connection closed, every request
answered, or every bounded request or operation made and nothing under way.

**Mutants.** For each property of a passing run, PROJECT.json names a plausible slip (a dropped guard, an id
computed from a count, a missing reset, a join too few) that makes TLC find the property violated.

## What the violation says, and other weaknesses

docs/handover/AGENT-NATIVE-BROWSER.md:97 has it verified that "human and agent actions interleave safely".
OnlyTheClickedTabCloses is violated: an idle callback may close a tab that took the address of the one that
was clicked (`findings` in PROJECT.json).

The properties of the other runs say how far the code keeps its promises, and where it does not they have an
exception. The weaknesses behind these exceptions, and some that no model shows, are:

*Agent.* A start() that probed before another process began to listen unlinks that process's name, and so does
its stop() (`early` in ServerKeepsName). stop() waits for a client that keeps silent (agent_rpc.cpp:190; the
condition of StopReturns), against docs/handover/AGENT-NATIVE-BROWSER.md:88. A reply that comes after the 30
seconds is stored through references into the frame of the thread that gave up, which reads and writes the
same string without the lock (agent_rpc.cpp:187): the client may be sent a mixture, or the process may end
(`late` in AnswersAreHonest). Threads of finished connections are kept until stop(), and a failing accept() is
tried again at once (agent_rpc.cpp:187). `vant agent watch` goes on from the newest number although a reply
holds at most 256 events, and so skips some when more wait (agent_rpc.cpp:200). Handles of tabs lead into
windows that have been closed (native_app.cpp:4226), against docs/AGENT-REFERENCE.md:114. References are "@e",
a generation and a place; generations start at 1 in each document, so a reference from an earlier document may
name another element ("same document" in RefsAreNotRetargeted; docs/AGENT-GUIDE.md:56 has no such exception).
page.wait holds the view without a reference between two looks, so a tab that is closed meanwhile leaves a
dangling pointer ("lost" in AgentPage). Its deadline is looked at only when the page answers
(native_app.cpp:4471), so that a page that hangs keeps the wait for as long as it does (the condition of
WaitsEnd). When the read that probes for one more byte fails, the error is cleared and `truncated` is false,
bytes being left or not (native_app.cpp:4404; "unprobed" in FetchIsMarkedTruncated), although "`truncated` is
true when the response body exceeded `max_bytes`" (docs/AGENT-REFERENCE.md:82).

*Windows and tabs.* A callback or a drag whose window or tab has been freed is modelled as finding nothing, or
the tab that has the address by now; that it reads freed memory no property notices. "Open in new window" from
a private window opens one that is not private (native_app.cpp:555). The event "tab.closed" carries a URI that
was moved from (native_app.cpp:2008). In the tab model, close_tab and reopen_closed activate a tab without
clearing `discarded` (browser_model.cpp:66).

*Loads* (the cases of `Excused` and `Missing` in PageLoad). A stop by the agent, or a question of an overtaken
load that is answered late, changes the fields although another page is shown. The end of an abandoned load
clears what a newer load is known by. An error page supersedes a newer request. source_loaded writes its text
over whatever the tab has gone to. uri_changed ignores tabs that are not shown, and decide_policy leaves the
fields of a tab that shows a source (native_app.cpp:1504, :1665): after a reload, or on the way back or
forward, such a tab shows a web page under the name vantage:source (`missed` in AddressIsHonest). A page in a
tab with an internal name may act on the profile (native_app.cpp:1565), although "ordinary web pages cannot
call them" (docs/SECURITY.md:8-11). decide_policy resets `recovering_blank_navigation`, so that the recovery
is not limited to one. A reload of an internal page or a source loses its HTML. A link to a download that is
followed from a page of the shell, or from an error page, leaves its address in pending_web_uri, and the tab
comes back as that when it was closed. Failed pages are recorded in the history. NavigationPolicy takes
`file:` for the web (navigation.cpp:59), although it is said to be rejected (docs/SECURITY.md:15-17,
docs/AGENT-REFERENCE.md:20); load_changed forgets pending_web_uri for http(s) only (native_app.cpp:1462), so
that a tab with a file keeps it. No model has files.

*Find.* A native count that comes late is shown although the text is empty by then; marks stay in tabs that
one has left; after the bar is reopened, numbers of another tab may show. find_counted is connected to the
window a tab is in (native_app.cpp:2091, :3444) and does not ask whether the window shows it, so the count of
a tab that one has left may replace that of the one shown (`misled`): "Enter advances to the next match"
(docs/SHORTCUTS.md:27) then goes round a wrong number, or does nothing when that is 0. BarTellsTheTruth says
when a bar can be believed.

*Prompts.* A second click on Allow leaves a subscription behind whose answer may reach a freed prompt (the
exception in CallbacksFindTheirPrompt); a permission dialog that is destroyed with its window leaves its
request unanswered, and a portal answer then touches the destroyed dialog (the exception in AskedIsShown).

*Files.* Two processes in a preferences setter at once lose settings or leave an empty file, although
tests/preferences.cpp:50 has "setters preserve unrelated preferences" for one process; and so does a single
setter that cannot open or read the file, since a reading that fails counts as an empty or a shorter file
(preferences.cpp:21-29) and is written back (the exceptions in OneSettingAtATime). The DELETE of save_tabs is
outside its `try`: when it fails, the transaction stays open and every later save of that connection fails. A
download without a record (a private one, or one that has no destination yet) cannot be told from another by
cancel_download, and a private download whose tab is closed before `download-started` is recorded:
CancelsAreMeant and PrivateLeavesNoRow say exactly up to where the code keeps its promises ("download-record
writes from private windows" are said to be suppressed without an exception, docs/SECURITY.md:21). A save
dialog that outlives its download points to freed memory (`struck`). A row that is removed while its download
goes on may give its id to another, which the first then writes to (`removed` in RecordsAreOwn).
reconcile_downloads reads the 500 newest rows (user_data.h:37): one that a crash left "downloading" behind
newer ones stays so (`left` in NoRowIsForgotten). A process that reconciles may overwrite what a running one
has just written (the exception in SettledIsKept). update_bookmark deletes and inserts without a transaction;
ids of history rows are used again, so that a history page that is out of date may remove another visit.

## What is proved

The theorems hold for every value of the constants. They rest on the named ASSUMEs of the modules (constants
that stand for "none" are not elements, bounds are natural numbers), which TLC evaluates in the runs.

**BrowserModelProofs.** `IInv` joins the types with: ids are unique and below `next_id`, and the active id is
that of an open tab. Uniqueness alone is not inductive (a new id must be new), hence the bound. The lemmas on
sequences (RemoveAt, InsertAt) carry close_tab and move_tab. Proved: TypeCorrect, IdsStayUnique,
ActiveStaysOpen, NoIdReuse.

The second half carries the last over to the model with its session file (NoIdReuseInSessions) and proves
SessionIsKept. That the committed rows are those of the last save is not inductive; what an open transaction
holds (nothing yet, or a prefix of the rows being saved) is added. DiscardStaysExact is a counting argument
about one step: discard_to_limit takes the first of the tabs it may take (FirstOnes), so it stops at the limit
or when there are none left.

**AgentEventsProofs.** `IInv` says that the log is the interval of numbers that ends at the newest, and that
what a follower's cursor passed it read or lost. From it: GaplessLog, DroppedIsExact, NoSilentGap, OnceEach,
and RefinesFeed, the refinement of OrderedFeed for every capacity, set of limits and set of clients.

**AgentRpcProofs.** `ThreadInv` says who owns the main context, which connection the acceptor holds, and what
each call of stop() has left behind; `RequestInv`, that a request is in one place (queue, WebKit, replied) and
is known only after its thread handed it over. Proved: TypeCorrect, StopLeavesNoThread, OneDispatcherAtATime,
HonestAnswers, NothingExecutedTwice, for any number of connections. HonestAnswers is about a request whose
reply came, if at all, while its thread waited or before it looked at the flag again: of a later one the code
leaves open what is sent.

The second half is about the socket's name. `SocketInv` is SocketTypeOK with NamesAreHeld (a name that leads
to a process is that of a socket it holds) and ThreatsAreEarly: whoever is past its probe while a server is
reachable was around when that server began to listen. Each system call is a step of the proof. NameIsKept
follows: a step that makes a server unreachable is the server's own, that of a process in `early`, or of one
that could not probe.

**PageLoadProofs.** All three properties of the run, for every set of web pages and of pages of the shell and
any number of requests. What the fields of a tab should say depends on loads that are still in WebKit, so the
invariant `PageLoadInv` follows where the view is heading (`Destiny`: what was asked for last and waits for
its policy, else what was allowed, is under way, or is committed). It says that of the questions at WebKit
only the newest is for a load that may still be (`QuestionsOK`); which fields exclude each other (`Proper`: a
page of the shell is not waited for); that the destiny is what was asked for last (`PromiseIsDestiny`); and
that from the policy decision on the fields name it (`PromiseIsNamed`). AddressIsHonest needs besides that a
page of the shell goes with about:blank while nothing was missed (`InternalIsBlank`), and that a tab with a
source shows no web page then (`SourceShowsNoPage`). Each handler is a lemma. While proving
ClosedTabComesBack, an instance with a second page of the shell showed what the bound had hidden: a page of
the shell that goes to about:blank by itself keeps its name and comes back as what it was (`Named`).

**PageScriptsProofs.** StepKinds sorts the steps of the composition by what they mean to tabs and agent, so
that the find bar's many actions are looked at once. Then one invariant per request: a reference given in the
same document is of a generation the document has reached, and of its present elements if that is the latest
(ReferencesStay); a wait that is not answered has seen what there is to see now (AnswersAreHonest); what was
read and what is left make up the response, and there is room while it is read (TruncationIsMarked, for every
length, limit and buffer; the response whose probe failed is the exception).

The second half is about the find bars, which any number of searches may have left with answers on the way.
`FindInv` says that no search has a later number than its window's bar (`NotAhead`), and follows each bar that
looks through the document it stands over (`Followed`): its search is still to be run and is the last thing
its page was told (`Awaited`); it has run and its answer is the last to come (`Run`); the marks are shown
(`MarksShown`); WebKit's count is asked for or on the way (`Counts`), or shown (`CountShown`). A message is
the bar's `Own` if it has its window and number, which is why find_evaluated can tell it from the others. The
page makes the steps of find_next and find_previous later than the bar counts them: `Leads` is the way that
the current mark still has to go to the one the bar shows, longer by one with each click, shorter with each
script that runs. One lemma for each handler says that it leads from one phase to another; when nothing is
under way, only MarksShown and CountShown are left, and they are BarsTellTheTruth. Before the proof, the
property did not know `misled`: the instance had a search script that never failed, and the case of WebKit's
count for a tab that is not shown was found when the phases were written down. BarsTellTheTruthToo carries
this over to PageScripts, and PagesAreTyped joins the types of all its parts.

**DownloadsProofs.** All six properties of the run, for any number of processes and downloads and any `Limit`,
from one invariant `DownloadsInv`: who added a row knows its id until its end; a row that was added and is
gone was removed, so that an id is given out again only after that; what reconcile_downloads has read is about
the row's own download; a cancelled download has left no row "downloading". CancelsStayMeant also needs that
ids are given out from 1 on, so that there is one for every download (a pigeonhole argument), and
SettledStaysKept that active_downloads holds the downloads under way, each once.

**SettingsProofs.** `MediaInv` adds to the properties that a subscription is the latest of its prompt or was
replaced by a later call, that what was allowed is done with, and that what was clicked had been asked.
Proved: PromptsTypeCorrect, AllowedIsMeant, AskedKeepsItsDialog, AnswersReachTheirPrompt.

The second half proves OneSettingAtATime of Preferences, for any number of processes and domains. The rename
is the only step that changes what is stored, so the invariant `AloneInSetter` says what a setter that has not
met another has in hand at each call: what it read is what is stored, or less of it if it misread, and what it
wrote is that with its one setting (`InHand`). It holds only until two setters overlap, which is all that the
code promises.

**WindowTabsProofs.** All five properties of the run, for any number of windows, tabs, addresses and
callbacks. `Good` says that the tabs in a window's list are those that point to it, none of them twice, that
open windows show one of theirs, and that ids are unique and below `next_tab_id`. That an --app launch never
drags or queues a callback (in `Queues`) is needed besides: it is why its windows keep their one tab. What
erase and insert do to a list (Erased, Inserted) is proved once; then what an operation makes of one window;
then of all windows; the handlers are cases of these. A callback that leads to the wrong tab breaks none of
this: it closes or moves that tab as a click would, which is why the finding of window_tabs_click needs a
property of its own. The same module has the layout of the strip: ActiveStaysVisible, HidesOnlyOverflow and
ShownTabsFit, for every width and number of tabs, about the operators of TabStrip.

Only model-checked are the liveness properties (StaleIsRecovered, RetainedIsDelivered, EveryConnectionEnds,
StopReturns, WaitsEnd), since fairness and ENABLED are out of the prover's reach.

## What is not modelled

Drawing, style sheets, generated pages, widgets and focus; the texts of messages; byte counts and file names
of downloads; `tools/`, packaging and vendored code; the JS++ interpreter. A request's own effects are in
AgentRpc only as "replied at once" or "replied later"; the effects of `browser.*`, `events.*`, `downloads.*`,
of page.snapshot, page.wait and net.fetch are in the modules of those components.

The library of the profile (bookmarks, history, favicons, permissions) consists of operations of one SQL
statement each, atomic by themselves, without state in the program; the two exceptions are among the
weaknesses above. Navigation policy and launch options read the characters of an address or an argument and
keep no state: PageLoad has the classes of addresses that the policy tells apart. The inspector is a widget of
WebKit's. Application commands are a profile name and a counter that nothing in the shell reads. Automation
runs three host functions to their end in one thread, behind a capability check.

## What is left

AgentRpc as an implementation of "one atomic call per request". OnlyTheClickedTabCloses is violated and so has
no theorem.
