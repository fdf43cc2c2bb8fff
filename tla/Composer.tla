------------------------------ MODULE Composer ------------------------------
(***************************************************************************)
(* What the user types and where it goes: the thread on screen, its        *)
(* composer and its draft (agent-workspace.tsx, assistant-thread-          *)
(* surface.tsx, app/standalone-agent-workspace.tsx).  The browser keeps    *)
(* one draft per stored thread and one for the thread that was not sent    *)
(* yet; the composer loads and saves them in two effects of the same       *)
(* render, and its view is mounted again when the thread, its revision or  *)
(* its recovery changes.                                                   *)
(*                                                                         *)
(* One step is one action of the user, one event that the view renders, or *)
(* a reload.  React runs the effects of a render before the next input.    *)
(* A text is a number, 0 for the empty one.  Saving the threads is         *)
(* Workspace's; sending is ThreadView's.                                   *)
(***************************************************************************)
EXTENDS Naturals, FiniteSets

CONSTANTS
  MaxTasks,   \* bound: threads created
  Texts,      \* what can be typed
  NoKey

Tasks == 1..MaxTasks
New == 0      \* the draft of the thread that was not sent yet
Keys == Tasks \cup {New}

ASSUME ComposerAssumption == MaxTasks \in Nat \ {0} /\ Texts \subseteq Nat \ {0} /\ NoKey \notin Keys

VARIABLES
  tasks,      \* the threads of the page
  made,       \* threads created so far
  unsent,     \* ephemeralThreadIds
  saved,      \* the threads of the collection a reload finds
  shown,      \* the active thread
  agentView,  \* whether a sub-agent of it is shown instead
  path,       \* the thread of the address, New for the root, and whether an agent's
  composer,   \* the mounted composer and the drafts in localStorage
  meant,      \* history: what the user last left in each place
  working,    \* threads whose turn is running
  asks,       \* threads whose agent waits for an answer
  stopRequested

composerVars ==
  <<tasks, made, unsent, saved, shown, agentView, path, composer, meant, working, asks, stopRequested>>

ComposerTypeOK ==
  /\ tasks \subseteq 1..made /\ made \in Tasks /\ shown \in tasks
  /\ unsent \subseteq tasks /\ saved \subseteq Tasks
  /\ working \subseteq tasks \ unsent /\ asks \subseteq tasks \ (unsent \cup working)
  /\ agentView \in BOOLEAN /\ stopRequested \in BOOLEAN
  /\ path \in [task: Keys, agent: BOOLEAN]
  /\ composer \in [text: Texts \cup {0}, loaded: [key: Keys \cup {NoKey}, text: Texts \cup {0}],
                   previous: Keys \cup {NoKey}, drafts: [Keys -> Texts \cup {0}]]
  /\ meant \in [Keys -> Texts \cup {0}]

-----------------------------------------------------------------------------
(* The composer's effects.                                                 *)

NotLoaded == [key |-> NoKey, text |-> 0]

\* Mutant: every thread uses the draft of a new one.
SharedKey(t, fresh) == New
DraftKey(t, fresh) == IF t \in fresh THEN New ELSE t

\* The effect on the key: the draft of the key that was left goes, the other one is loaded.
LoadDraft(c, key) ==
  LET drafts == [k \in Keys |-> IF k = c.previous /\ k # key THEN 0 ELSE c.drafts[k]] IN
  [text |-> drafts[key], loaded |-> [key |-> key, text |-> drafts[key]],
   previous |-> key, drafts |-> drafts]

\* The effect on the text and the key: what was rendered is stored, unless the draft
\* just loaded has not been rendered yet.
SaveDraft(c, key, rendered) ==
  IF c.loaded.key = key /\ rendered # c.loaded.text THEN c
  ELSE [c EXCEPT !.loaded = IF @.key = key THEN NotLoaded ELSE @, !.drafts[key] = rendered]

\* A render with another key, and the one its loaded text causes.
RenderKey(c, key) ==
  LET first == SaveDraft(LoadDraft(c, key), key, c.text) IN
  IF first.text = c.text THEN first ELSE SaveDraft(first, key, first.text)

MountComposer(key) ==
  composer' = RenderKey([composer EXCEPT !.text = 0, !.loaded = NotLoaded, !.previous = NoKey], key)

TypedText(c, key, x) == SaveDraft([c EXCEPT !.text = x], key, x)

Disabled == stopRequested \/ shown \in asks
ShownKey == DraftKey(shown, unsent)

-----------------------------------------------------------------------------
(* The workspace.                                                          *)

\* The address of a thread, of a sub-agent of it, or the root.
Address(task, agent) == [task |-> task, agent |-> agent]

\* The effect that tells the page what is shown.
TellPath(task, fresh, agent) ==
  path' = IF task \in fresh THEN Address(New, FALSE) ELSE Address(task, agent)

\* Shows a thread: its view is mounted with the draft of its key.
Show(t, fresh) ==
  /\ shown' = t /\ unsent' = fresh /\ agentView' = FALSE /\ stopRequested' = FALSE
  /\ TellPath(t, fresh, FALSE) /\ MountComposer(DraftKey(t, fresh))

ComposerInit ==
  /\ tasks = {1} /\ made = 1 /\ unsent = {1} /\ saved = {} /\ shown = 1
  /\ agentView = FALSE /\ path = Address(New, FALSE)
  /\ composer = [text |-> 0, loaded |-> NotLoaded, previous |-> New, drafts |-> [k \in Keys |-> 0]]
  /\ meant = [k \in Keys |-> 0]
  /\ working = {} /\ asks = {} /\ stopRequested = FALSE

\* createThread: an untouched new thread stays instead of making way for another one.
NewTask ==
  /\ shown \notin unsent /\ made < MaxTasks
  /\ made' = made + 1 /\ tasks' = tasks \cup {made + 1}
  /\ Show(made + 1, unsent \cup {made + 1})
  /\ UNCHANGED <<saved, meant, working, asks>>

SelectTask ==
  /\ \E t \in tasks : (t # shown \/ agentView) /\ Show(t, unsent)
  /\ UNCHANGED <<tasks, made, saved, meant, working, asks>>

\* deleteThread, once the service agreed; the draft of the thread stays in the browser.
DeleteTask ==
  /\ \E t \in tasks :
       IF tasks = {t}
         THEN /\ made < MaxTasks /\ made' = made + 1 /\ tasks' = {made + 1}
              /\ Show(made + 1, {made + 1})
         ELSE /\ tasks' = tasks \ {t} /\ UNCHANGED made
              /\ IF t = shown
                   THEN \E u \in tasks \ {t} : Show(u, unsent \ {t})
                   ELSE /\ unsent' = unsent \ {t}
                        /\ UNCHANGED <<shown, agentView, path, composer, stopRequested>>
  /\ saved' = saved \cap tasks' /\ working' = working \cap tasks' /\ asks' = asks \cap tasks'
  /\ UNCHANGED meant

\* openSubagent and closeSubagent: the thread's view is unmounted meanwhile.
ShowAgent ==
  /\ ~agentView /\ shown \notin unsent
  /\ agentView' = TRUE /\ TellPath(shown, unsent, TRUE)
  /\ UNCHANGED <<tasks, made, unsent, saved, shown, composer, meant, working, asks, stopRequested>>
CloseAgent ==
  /\ agentView /\ Show(shown, unsent)
  /\ UNCHANGED <<tasks, made, saved, meant, working, asks>>

\* The view's key changes: a recovery begins or ends, or an edit raised the revision.
RemountComposer ==
  /\ ~agentView /\ shown \notin unsent /\ Show(shown, unsent)
  /\ UNCHANGED <<tasks, made, saved, meant, working, asks>>

SaveTasks ==
  /\ saved' = tasks \ unsent /\ saved' # saved
  /\ UNCHANGED <<tasks, made, unsent, shown, agentView, path, composer, meant, working, asks, stopRequested>>

\* The page is loaded at its address: a stored thread, a thread of that id when none
\* is stored, or at the root a new one before the stored ones.
ReloadPage ==
  IF path.task = New
  THEN /\ made < MaxTasks /\ made' = made + 1
       /\ tasks' = saved \cup {made + 1} /\ Show(made + 1, {made + 1})
       /\ working' = working \cap saved /\ asks' = asks \cap saved
       /\ UNCHANGED <<saved, meant>>
  ELSE /\ tasks' = saved \cup {path.task}
       /\ shown' = path.task /\ unsent' = {} /\ stopRequested' = FALSE
       /\ agentView' = (path.agent /\ path.task \in saved)
       /\ TellPath(path.task, {}, agentView')
       /\ MountComposer(path.task)
       /\ working' = working \cap saved /\ asks' = asks \cap saved
       /\ UNCHANGED <<made, saved, meant>>

-----------------------------------------------------------------------------
(* The composer on screen.                                                 *)

\* Typing, or one of the suggestions of an empty thread.
Type ==
  /\ ~agentView /\ ~Disabled
  /\ \E x \in (Texts \cup {0}) \ {composer.text} :
       /\ composer' = TypedText(composer, ShownKey, x)
       /\ meant' = [meant EXCEPT ![IF shown \in unsent THEN New ELSE shown] = x]
  /\ UNCHANGED <<tasks, made, unsent, saved, shown, agentView, path, working, asks, stopRequested>>

\* send, or a follow-up while the turn runs: the text leaves the composer, and the
\* first message of a new thread makes it a stored one, under the draft key of its own.
SendText ==
  /\ ~agentView /\ ~Disabled /\ composer.text # 0
  /\ LET sent == TypedText(composer, ShownKey, 0) IN
     composer' = IF shown \in unsent THEN RenderKey(sent, DraftKey(shown, unsent \ {shown})) ELSE sent
  /\ meant' = [meant EXCEPT ![IF shown \in unsent THEN New ELSE shown] = 0]
  /\ unsent' = unsent \ {shown} /\ working' = working \cup {shown}
  /\ TellPath(shown, unsent \ {shown}, FALSE)
  /\ UNCHANGED <<tasks, made, saved, shown, agentView, asks, stopRequested>>

\* The button stops the turn when there is nothing to queue.
Control == IF stopRequested \/ (shown \in working /\ composer.text = 0) THEN "stop"
           ELSE IF shown \in working THEN "queue" ELSE "send"
PressStop ==
  /\ ~agentView /\ Control = "stop" /\ ~stopRequested
  /\ stopRequested' = TRUE
  /\ UNCHANGED <<tasks, made, unsent, saved, shown, agentView, path, composer, meant, working, asks>>
TurnSettles ==
  /\ \E t \in working : working' = working \ {t} /\ stopRequested' = (stopRequested /\ t # shown)
  /\ UNCHANGED <<tasks, made, unsent, saved, shown, agentView, path, composer, meant, asks>>

\* The turn stops at a question; its answer continues the session.
TurnAsks ==
  /\ \E t \in working : working' = working \ {t} /\ asks' = asks \cup {t}
                          /\ stopRequested' = (stopRequested /\ t # shown)
  /\ UNCHANGED <<tasks, made, unsent, saved, shown, agentView, path, composer, meant>>
Answer ==
  /\ ~agentView /\ shown \in asks
  /\ asks' = asks \ {shown} /\ working' = working \cup {shown}
  /\ UNCHANGED <<tasks, made, unsent, saved, shown, agentView, path, composer, meant, stopRequested>>

ComposerNext ==
  \/ NewTask \/ SelectTask \/ DeleteTask \/ ShowAgent \/ CloseAgent \/ RemountComposer \/ SaveTasks \/ ReloadPage
  \/ Type \/ SendText \/ PressStop \/ TurnSettles \/ TurnAsks \/ Answer

ComposerSpec == ComposerInit /\ [][ComposerNext]_composerVars

-----------------------------------------------------------------------------
(* Properties.                                                             *)

\* However threads are switched, sent, recovered, deleted and reloaded, the composer
\* shows what the user left in that thread, or in the new one, and no draft of
\* another; a draft outlives the view (assistant-thread-surface.tsx:319-349,
\* agent-workspace.tsx:601-604).
DraftsStayApart ==
  /\ ~agentView => composer.text = meant[IF shown \in unsent THEN New ELSE shown]
  /\ \A t \in tasks \ unsent : composer.drafts[t] = meant[t]
=============================================================================
