------------------------------ MODULE QuickSearch ------------------------------
(***************************************************************************)
(* The quick-search window (extension/src/quick-search): a query typed,    *)
(* debounced and answered by the browser's own search out of order, the    *)
(* scope toggle and its stored preference, the highlight, and the opening  *)
(* of a result.                                                            *)
(*                                                                         *)
(* The answers of the browser to a query are fixed by Answer (a search may *)
(* also fail).  Abstracted: titles, URLs, layout and the hints.            *)
(***************************************************************************)
EXTENDS Naturals, Sequences, FiniteSets

CONSTANTS
  Queries, Nothing,  \* what may be in the input; Nothing is the empty query
  Folders,           \* bookmark nodes that have no URL
  Answer,            \* chrome.bookmarks.search: the nodes of each query, in order
  Workspaces, Managed, \* the nodes of the projection of each workspace
  Cap,               \* RESULT_CAP
  MaxSteps,          \* bound: what the user does
  None

VARIABLES
  signedIn, selected, preferred,  \* the worker: session, selectedWorkspaceIds, quickSearchScope
  messages,                       \* set-scope messages on their way to it
  boot,                           \* the session/get of the page: "asked", "answered" or "failed"
  open, input, latest, timer,     \* the window, its input, the sequencer, the debouncer
  searches,                       \* chrome.bookmarks.search calls under way
  persistedScope, workspaceEnabled, managedChromeIds,
  shown, highlightIndex,          \* currentResults with the query they answer
  opening, tabs,                  \* openResult calls under way; what was opened
  early,                          \* history: something was typed or chosen before the page knew its scope
  steps

worker == <<signedIn, selected, preferred, messages>>
typing == <<input, latest, timer, searches>>
scope == <<boot, persistedScope, workspaceEnabled, managedChromeIds>>
list == <<shown, highlightIndex>>
vars == <<worker, typing, scope, list, open, opening, tabs, early, steps>>

Scopes == {"workspace", "global"}
Acts == open /\ steps < MaxSteps /\ steps' = steps + 1

-----------------------------------------------------------------------------
(* The pipeline of a search.                                                *)
\* What stands at some places of a sequence, in its order.
Place(places, k) == CHOOSE i \in places : Cardinality({j \in places : j < i}) = k - 1
Keep(s, places) == [k \in 1 .. Cardinality(places) |-> s[Place(places, k)]]

toResultViews(nodes) == Keep(nodes, {i \in DOMAIN nodes : nodes[i] \notin Folders})

filterByScope(views, effective, ids) ==
  IF effective = "global" THEN views ELSE Keep(views, {i \in DOMAIN views : views[i] \in ids})

capResults(views) == IF Len(views) <= Cap THEN views ELSE SubSeq(views, 1, Cap)

pipeline(nodes, effective, ids) == capResults(filterByScope(toResultViews(nodes), effective, ids))

collectManagedChromeIds == UNION {Managed[w] : w \in selected}

resolveScopeAvailability(enabled, persisted) == IF enabled THEN persisted ELSE "global"

nextHighlightIndex(current, key, length) ==
  IF key = "ArrowDown" THEN (current % length) + 1
  ELSE ((current - 2 + length) % length) + 1

-----------------------------------------------------------------------------
Init ==
  /\ signedIn \in BOOLEAN /\ selected \in SUBSET Workspaces /\ preferred \in Scopes
  /\ messages = <<>> /\ boot = "asked"
  /\ open = TRUE /\ input = Nothing /\ latest = 0 /\ timer = None /\ searches = {}
  /\ persistedScope = "workspace" /\ workspaceEnabled = FALSE /\ managedChromeIds = {}
  /\ shown = [query |-> Nothing, results |-> <<>>, failed |-> FALSE] /\ highlightIndex = 0
  /\ opening = {} /\ tabs = <<>> /\ early = FALSE /\ steps = 0

render(q, results, failed) ==
  /\ shown' = [query |-> q, results |-> results, failed |-> failed]
  /\ highlightIndex' = IF Len(results) > 0 THEN 1 ELSE 0

renderEmpty == render(Nothing, <<>>, FALSE)

\* A keystroke.  The token is taken here, not when the timer fires.
onInput(q) ==
  /\ Acts /\ q # input /\ input' = q /\ latest' = latest + 1
  /\ early' = (early \/ (boot = "asked" /\ q # Nothing))
  /\ IF q = Nothing
     THEN timer' = None /\ renderEmpty
     ELSE timer' = [query |-> q, token |-> latest + 1] /\ UNCHANGED list
  /\ UNCHANGED <<worker, scope, searches, open, opening, tabs>>

runSearch(s) == searches' = searches \cup {s}

debounceElapses ==
  /\ open /\ timer # None /\ timer' = None /\ runSearch(timer)
  /\ UNCHANGED <<worker, scope, list, input, latest, open, opening, tabs, early, steps>>

\* Any answer is shown, the latest or not.
searchAnswersAny(s) ==
  /\ open /\ s \in searches /\ searches' = searches \ {s}
  /\ \E failed \in BOOLEAN :
       render(s.query, pipeline(IF failed THEN <<>> ELSE Answer[s.query],
                                resolveScopeAvailability(workspaceEnabled, persistedScope), managedChromeIds), failed)
  /\ UNCHANGED <<worker, scope, input, latest, timer, open, opening, tabs, early, steps>>

\* A search that fails shows nothing.
searchAnswersOrStays(s) ==
  /\ open /\ s \in searches /\ searches' = searches \ {s}
  /\ \E failed \in BOOLEAN :
       IF s.token = latest /\ ~failed
       THEN render(s.query, pipeline(Answer[s.query],
                     resolveScopeAvailability(workspaceEnabled, persistedScope), managedChromeIds), failed)
       ELSE UNCHANGED list
  /\ UNCHANGED <<worker, scope, input, latest, timer, open, opening, tabs, early, steps>>

\* The browser answers, or refuses, and the page shows the answer if nothing was begun since.
searchAnswers(s) ==
  /\ open /\ s \in searches /\ searches' = searches \ {s}
  /\ \E failed \in BOOLEAN :
       IF s.token = latest
       THEN render(s.query, pipeline(IF failed THEN <<>> ELSE Answer[s.query],
                     resolveScopeAvailability(workspaceEnabled, persistedScope), managedChromeIds), failed)
       ELSE UNCHANGED list
  /\ UNCHANGED <<worker, scope, input, latest, timer, open, opening, tabs, early, steps>>

rerunCurrentSearch ==
  /\ timer' = None /\ latest' = latest + 1
  /\ IF input = Nothing THEN renderEmpty /\ UNCHANGED searches
     ELSE runSearch([query |-> input, token |-> latest + 1]) /\ UNCHANGED list

\* A click on the toggle: shown at once, stored by a message nobody waits for.
selectScope(s) ==
  /\ Acts /\ (s = "workspace" => workspaceEnabled)
  /\ persistedScope' = s /\ messages' = Append(messages, s)
  /\ early' = (early \/ boot = "asked")
  /\ rerunCurrentSearch
  /\ UNCHANGED <<signedIn, selected, preferred, boot, workspaceEnabled, managedChromeIds, input, open, opening, tabs>>

\* The worker stores the preference; its updates are applied one after the other.
setQuickSearchScope ==
  /\ messages # <<>> /\ preferred' = Head(messages) /\ messages' = Tail(messages)
  /\ UNCHANGED <<signedIn, selected, typing, scope, list, open, opening, tabs, early, steps>>

\* The answer to session/get, or its failure, which leaves the defaults.
bootstrap ==
  /\ open /\ boot = "asked"
  /\ \/ /\ boot' = "answered" /\ persistedScope' = preferred
        /\ workspaceEnabled' = (signedIn /\ selected # {}) /\ managedChromeIds' = collectManagedChromeIds
     \/ boot' = "failed" /\ UNCHANGED <<persistedScope, workspaceEnabled, managedChromeIds>>
  /\ UNCHANGED <<worker, typing, list, open, opening, tabs, early, steps>>

moveHighlight(key) ==
  /\ Acts /\ shown.results # <<>>
  /\ highlightIndex' = nextHighlightIndex(highlightIndex, key, Len(shown.results))
  /\ UNCHANGED <<worker, typing, scope, shown, open, opening, tabs, early>>

\* Enter, or a click on a result: the result is read before anything is awaited.
openResult(i) ==
  /\ Acts /\ i \in DOMAIN shown.results /\ Cardinality(opening) < 2
  /\ opening' = opening \cup {[bookmark |-> shown.results[i], call |-> Cardinality(opening)]}
  /\ UNCHANGED <<worker, typing, scope, list, open, tabs, early>>

\* The tab is made, in the target window or in one of its own, and the search window closes.
resultOpens(o) ==
  /\ o \in opening /\ opening' = opening \ {o} /\ tabs' = Append(tabs, o.bookmark) /\ open' = FALSE
  /\ UNCHANGED <<worker, typing, scope, list, early, steps>>

escape ==
  /\ Acts /\ open' = FALSE
  /\ UNCHANGED <<worker, typing, scope, list, opening, tabs, early>>

Next ==
  \/ \E q \in Queries \cup {Nothing} : onInput(q)
  \/ debounceElapses
  \/ \E s \in searches : searchAnswers(s)
  \/ \E s \in Scopes : selectScope(s)
  \/ setQuickSearchScope
  \/ bootstrap
  \/ \E key \in {"ArrowUp", "ArrowDown"} : moveHighlight(key)
  \/ \E i \in 1..Cap : openResult(i)
  \/ \E o \in opening : resultOpens(o)
  \/ escape

Spec == Init /\ [][Next]_vars

\* The timer fires, the browser and the worker answer.
Fairness ==
  /\ WF_vars(debounceElapses) /\ WF_vars(\E s \in searches : searchAnswers(s))
  /\ WF_vars(bootstrap) /\ WF_vars(setQuickSearchScope) /\ WF_vars(\E o \in opening : resultOpens(o))

FairSpec == Spec /\ Fairness

-----------------------------------------------------------------------------
TypeOK ==
  /\ preferred \in Scopes /\ persistedScope \in Scopes /\ boot \in {"asked", "answered", "failed"}
  /\ input \in Queries \cup {Nothing} /\ latest \in 0..MaxSteps
  /\ \A s \in searches : s.token \in 1..latest /\ s.query \in Queries
  /\ shown.query \in Queries \cup {Nothing} /\ highlightIndex \in 0..Len(shown.results)

Rest == timer = None /\ \A s \in searches : s.token # latest

\* The scope a user who sees the toggle expects.
ScopeInForce == IF boot = "answered" /\ signedIn /\ selected # {} THEN persistedScope ELSE "global"

InScope(n) == n \notin Folders /\ (ScopeInForce = "workspace" => \E w \in selected : n \in Managed[w])

Matches == LET nodes == Answer[input]
           IN  {i \in DOMAIN nodes : InScope(nodes[i])}

\* What the list must hold: the first Cap matches in scope, in the browser's order.
IsAnswer(results) ==
  /\ Len(results) = IF Cardinality(Matches) < Cap THEN Cardinality(Matches) ELSE Cap
  /\ \A k \in DOMAIN results :
       \E i \in Matches : Answer[input][i] = results[k] /\ Cardinality({j \in Matches : j < i}) = k - 1

(* Once nothing of the latest query is under way, the list is its answer    *)
(* in the scope the toggle shows: no older answer has overtaken it, no      *)
(* match of a workspace is hidden behind personal ones, and the highlight   *)
(* is on a result whenever there is one (quick-search.ts).                  *)
RestIsAnswer ==
  (Rest /\ ~early) =>
    /\ shown.query = input
    /\ input # Nothing => shown.failed \/ IsAnswer(shown.results)
    /\ (shown.results # <<>>) = (highlightIndex \in 1..Len(shown.results))

(* The same, whenever it was typed (quick-search.ts:62-70: the answer to    *)
(* session/get does not run the search again).                              *)
AnswerInScope == Rest /\ boot = "answered" /\ input # Nothing => shown.failed \/ IsAnswer(shown.results)

(* When no message is under way the toggle shows the stored preference.     *)
ToggleIsStored == boot = "answered" /\ messages = <<>> => preferred = persistedScope

(* A result chosen is opened once (quick-search.ts:212: nothing marks that  *)
(* an opening is under way).                                                *)
OpenedOnce == Len(tabs) <= 1

(* What is typed is searched for and shown, unless the input changes or the *)
(* window closes, though searches fail (quick-search.ts:129-134).           *)
Answered ==
  \A q \in Queries : (open /\ input = q) ~> (~open \/ input # q \/ (shown.query = q /\ Rest))
================================================================================
