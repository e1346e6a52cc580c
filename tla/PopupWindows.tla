------------------------------ MODULE PopupWindows ------------------------------
(***************************************************************************)
(* The extension's own windows: the quick search, opened by a shortcut the *)
(* worker handles, and create-secret, opened by a button of the toolbar    *)
(* popup.  Each is tracked by an id in session storage so that a second    *)
(* opening focuses it, and the search remembers the browser window its     *)
(* results are opened in.  Every chrome call is awaited: openings overlap, *)
(* and the toolbar popup, with the opening it runs, goes when it loses the *)
(* focus.                                                                  *)
(***************************************************************************)
EXTENDS Naturals, FiniteSets

CONSTANTS
  Windows,     \* bound: ids of windows
  Browser,     \* the browser window open at first
  Calls,       \* bound: openings under way at once
  MaxSteps,    \* bound: what the user does
  None

VARIABLES
  kind,        \* of each window: "normal", one of Kinds, "unused" or "closed"
  focus,
  tracked,     \* session storage: the window of each kind,
  target,      \* and the browser window of the search
  calls,       \* openOrFocus...Window
  removals,    \* onRemoved calls that have read the storage: the key each will remove
  closing,     \* windows.onRemoved events to be handled
  result,      \* openResult of the search window
  calm,        \* history: no two of these were ever under way at once, and none was cut off
  steps

vars == <<kind, focus, tracked, target, calls, removals, closing, result, calm, steps>>

Kinds == {"quick-search", "create-secret"}   \* TRACKED_WINDOW_ID_KEYS
Idle == [pc |-> "idle", key |-> None, stored |-> None, host |-> None]
NoResult == [pc |-> "none", window |-> None]
Alive(w) == w # None /\ kind[w] \notin {"unused", "closed"}
Quiet == (\A c \in Calls : calls[c] = Idle) /\ removals = {} /\ closing = {}
Acts == steps < MaxSteps /\ steps' = steps + 1

Init ==
  /\ kind = [w \in Windows |-> IF w = Browser THEN "normal" ELSE "unused"]
  /\ focus = Browser /\ tracked = [k \in Kinds |-> None] /\ target = None
  /\ calls = [c \in Calls |-> Idle] /\ removals = {} /\ closing = {} /\ result = NoResult
  /\ calm = TRUE /\ steps = 0

-----------------------------------------------------------------------------
(* The shortcut, or the button of the popup (which opens over a browser     *)
(* window).                                                                 *)
open(c, key) ==
  /\ Acts /\ calls[c] = Idle
  /\ key = "create-secret" => Alive(focus) /\ kind[focus] = "normal"
  /\ calls' = [calls EXCEPT ![c] = [Idle EXCEPT !.key = key, !.pc = IF key = "quick-search" THEN "host" ELSE "read"]]
  /\ calm' = (calm /\ Quiet)
  /\ UNCHANGED <<kind, focus, tracked, target, removals, closing, result>>

\* Any window last focused is the host.
resolveAnyWindow == IF Alive(focus) THEN focus ELSE None

resolveTabHostWindow == IF Alive(focus) /\ kind[focus] = "normal" THEN focus ELSE None

openOrFocusQuickSearchWindow(c) ==
  \/ /\ calls[c].pc = "host"
     /\ calls' = [calls EXCEPT ![c].host = resolveTabHostWindow,
                               ![c].pc = IF resolveTabHostWindow = None THEN "read" ELSE "target"]
     /\ UNCHANGED target
  \/ /\ calls[c].pc = "target" /\ target' = calls[c].host
     /\ calls' = [calls EXCEPT ![c].pc = "read"]

hostStep(c) ==
  /\ openOrFocusQuickSearchWindow(c)
  /\ UNCHANGED <<kind, focus, tracked, removals, closing, result, calm, steps>>

getStoredWindowId(c) ==
  /\ calls[c].pc = "read"
  /\ calls' = [calls EXCEPT ![c].stored = tracked[calls[c].key],
                            ![c].pc = IF tracked[calls[c].key] = None THEN "create" ELSE "focus"]
  /\ UNCHANGED <<kind, focus, tracked, target, removals, closing, result, calm, steps>>

\* chrome.windows.update rejects when the window is gone: one is created then.
tryFocusWindow(c) ==
  /\ calls[c].pc = "focus"
  /\ IF Alive(calls[c].stored)
     THEN focus' = calls[c].stored /\ calls' = [calls EXCEPT ![c] = Idle]
     ELSE calls' = [calls EXCEPT ![c].pc = "create"] /\ UNCHANGED focus
  /\ UNCHANGED <<kind, tracked, target, removals, closing, result, calm, steps>>

createWindow(c) ==
  /\ calls[c].pc = "create"
  /\ \E w \in Windows :
       /\ kind[w] = "unused" /\ kind' = [kind EXCEPT ![w] = calls[c].key] /\ focus' = w
       /\ calls' = [calls EXCEPT ![c].pc = "store", ![c].stored = w]
  /\ UNCHANGED <<tracked, target, removals, closing, result, calm, steps>>

storeWindowId(c) ==
  /\ calls[c].pc = "store"
  /\ tracked' = [tracked EXCEPT ![calls[c].key] = calls[c].stored] /\ calls' = [calls EXCEPT ![c] = Idle]
  /\ UNCHANGED <<kind, focus, target, removals, closing, result, calm, steps>>

(* The toolbar popup goes with what it had under way: the focus has left it. *)
popupGone(c) ==
  /\ calls[c].key = "create-secret" /\ calls' = [calls EXCEPT ![c] = Idle]
  /\ calm' = FALSE
  /\ UNCHANGED <<kind, focus, tracked, target, removals, closing, result, steps>>

-----------------------------------------------------------------------------
\* The user focuses another window, or closes one.
focuses(w) ==
  /\ Acts /\ Alive(w) /\ w # focus /\ focus' = w
  /\ UNCHANGED <<kind, tracked, target, calls, removals, closing, result, calm>>

Closes(w) ==
  /\ kind' = [kind EXCEPT ![w] = "closed"] /\ closing' = closing \cup {w}
  /\ focus' \in {None} \cup {v \in Windows \ {w} : Alive(v)}
  /\ calm' = (calm /\ Quiet)

closes(w) ==
  /\ Acts /\ Alive(w) /\ Closes(w)
  /\ UNCHANGED <<tracked, target, calls, removals, result>>

\* Every key is forgotten, not the one of the window.
onRemovedAll(w) ==
  /\ w \in closing /\ closing' = closing \ {w}
  /\ removals' = removals \cup {k \in Kinds : tracked[k] # None}
  /\ UNCHANGED <<kind, focus, tracked, target, calls, result, calm, steps>>

\* windows.onRemoved: the key that holds the window is looked for, and removed by a second call.
onRemoved(w) ==
  /\ w \in closing /\ closing' = closing \ {w}
  /\ removals' = removals \cup {k \in Kinds : tracked[k] = w}
  /\ UNCHANGED <<kind, focus, tracked, target, calls, result, calm, steps>>

removeKey(k) ==
  /\ k \in removals /\ removals' = removals \ {k} /\ tracked' = [tracked EXCEPT ![k] = None]
  /\ UNCHANGED <<kind, focus, target, calls, closing, result, calm, steps>>

-----------------------------------------------------------------------------
(* openResult: the tab in the target window, or a window of its own.        *)
getTargetWindowId ==
  /\ Acts /\ result = NoResult /\ \E w \in Windows : kind[w] = "quick-search"
  /\ result' = [pc |-> "create", window |-> target]
  /\ UNCHANGED <<kind, focus, tracked, target, calls, removals, closing, calm>>

resultTab ==
  /\ result.pc = "create" /\ Alive(result.window) /\ result' = [result EXCEPT !.pc = "focus"]
  /\ UNCHANGED <<kind, focus, tracked, target, calls, removals, closing, calm, steps>>

resultFocus ==
  /\ result.pc = "focus" /\ Alive(result.window)
  /\ focus' = result.window /\ result' = [result EXCEPT !.pc = "opened"]
  /\ UNCHANGED <<kind, tracked, target, calls, removals, closing, calm, steps>>

resultWindow ==
  /\ result.pc \in {"create", "focus"} /\ ~Alive(result.window)
  /\ \E w \in Windows : /\ kind[w] = "unused" /\ kind' = [kind EXCEPT ![w] = "normal"] /\ focus' = w
                        /\ result' = [pc |-> "opened", window |-> w]
  /\ UNCHANGED <<tracked, target, calls, removals, closing, calm, steps>>

\* The search window closes itself.
resultDone ==
  /\ result.pc = "opened" /\ result' = NoResult
  /\ IF \E w \in Windows : kind[w] = "quick-search"
     THEN \E w \in Windows : kind[w] = "quick-search" /\ Closes(w)
     ELSE UNCHANGED <<kind, closing, focus, calm>>
  /\ UNCHANGED <<tracked, target, calls, removals, steps>>

Next ==
  \/ \E c \in Calls, k \in Kinds : open(c, k)
  \/ \E c \in Calls : hostStep(c)
  \/ \E c \in Calls : getStoredWindowId(c)
  \/ \E c \in Calls : tryFocusWindow(c)
  \/ \E c \in Calls : createWindow(c)
  \/ \E c \in Calls : storeWindowId(c)
  \/ \E c \in Calls : popupGone(c)
  \/ \E w \in Windows : focuses(w)
  \/ \E w \in Windows : closes(w)
  \/ \E w \in Windows : onRemoved(w)
  \/ \E k \in Kinds : removeKey(k)
  \/ getTargetWindowId
  \/ resultTab
  \/ resultFocus
  \/ resultWindow
  \/ resultDone

Spec == Init /\ [][Next]_vars

-----------------------------------------------------------------------------
TypeOK ==
  /\ kind \in [Windows -> Kinds \cup {"normal", "unused", "closed"}]
  /\ tracked \in [Kinds -> Windows \cup {None}] /\ target \in Windows \cup {None}
  /\ removals \subseteq Kinds /\ closing \subseteq Windows

OfKind(k) == {w \in Windows : kind[w] = k}

(* While no two of the chrome calls overlap there is one window of each     *)
(* kind, and it is the tracked one: closing the other, or finding a stale   *)
(* id, does not lose it (service-worker.ts:68-106, popup.ts:65-80).         *)
OneWindowIfCalm ==
  (calm /\ Quiet) => \A k \in Kinds : Cardinality(OfKind(k)) <= 1 /\ (OfKind(k) # {} => tracked[k] \in OfKind(k))

(* The same, whatever overlaps: "instead of letting repeated clicks pile up *)
(* popups" (popup.ts:65-67).                                                *)
OneWindow == \A k \in Kinds : Cardinality(OfKind(k)) <= 1

(* A result is opened in a window that holds tabs, never in the search or   *)
(* the secret window, though the shortcut may be pressed over those and the *)
(* target may be closed in between (service-worker.ts:108-121).             *)
ResultsHaveTabs == result.pc \in {"focus", "opened"} => kind[result.window] \in {"normal", "closed"}
================================================================================
