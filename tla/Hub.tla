--------------------------------- MODULE Hub ---------------------------------
(***************************************************************************)
(* The daemon's hub (bridge/daemon.py): the registry of editor windows,    *)
(* the routing of one request to one window, the per-window write lock,    *)
(* the table of forwarded calls, and the ways a call can end.              *)
(*                                                                         *)
(* The daemon is one asyncio loop.  An action below is what it does        *)
(* between two awaits; whatever another coroutine may do meanwhile is      *)
(* another action.  The editor pages and their sockets are the             *)
(* environment: a page holds at most one link it believes in, a socket may *)
(* die without the page or the daemon noticing, and a page answers a       *)
(* request on whichever link it has by then (connector/src/transport.ts).  *)
(***************************************************************************)
EXTENDS Naturals, Sequences

CONSTANTS
  Pages,      \* editor page contexts; a page's instance id lives as long as it does
  Calls,      \* requests made by CLI connections, each call once
  Projects,   \* what a window can name: a project, by name or uuid
  Unnamed,    \* the claim of a window that named no project
  Allowed,    \* the claims design writes may land in (every claim for "*")
  MaxConns    \* bound: connector sockets accepted in one behaviour

Claims == Projects \cup {Unnamed}

ASSUME HubAssumption ==
  /\ MaxConns \in Nat
  /\ Unnamed \notin Projects
  /\ Allowed \subseteq Claims

Conns == 1 .. MaxConns          \* connector sockets, in the order they registered
None == 0                       \* no socket
Closed == MaxConns + 1          \* the link of a page that is no more
Keys == Pages \X Conns          \* hub keys: <<p, 1>> is the bare id, <<p, n>> is "p~n"

\* "nav": the writes that are no design writes (doc.open, doc.focus, self-update).
Risks == {"read", "nav", "design"}

VARIABLES
  arrived,    \* how many connectors have registered
  sock,       \* sock[w]: the websocket as the daemon sees it; "gone": handler done
  key,        \* key[w]: WindowConnection.key; its page is the claimed instance id
  project,    \* project[w]: project_name / project_uuid, the window's last claim
  registered, \* the values of BridgeDaemon.windows
  lockq,      \* lockq[w]: holder of the write lock, then those parked on it
  pc,         \* pc[c]: where the handler serving call c is suspended
  risk,       \* risk[c]: what the action catalogue says of the call's action
  win,        \* win[c]: the window routed to
  fut,        \* fut[c]: the future of its PendingCall, while there is one
  outcome,    \* outcome[c]: how the caller was answered
  editor,     \* editor[c]: the request on the editor's side of the wire
  via,        \* via[c]: the socket that carries the answer, until it arrives
  link        \* link[p]: the socket page p believes in

hubVars == <<arrived, sock, key, project, registered>>
callVars == <<pc, risk, win, fut, outcome>>
editorVars == <<editor, via, link>>
vars == <<hubVars, lockq, callVars, editorVars>>

\* "local": the daemon answered by itself (a ping, or a refusal); "unknown":
\* TIMEOUT or DISCONNECTED; "internal": INTERNAL.
Outcomes == {"none", "local", "answered", "unknown", "internal"}

\* Every variable holds a value of its kind.
TypeOK ==
  /\ arrived \in 0 .. MaxConns
  /\ sock \in [Conns -> {"new", "open", "dead", "gone"}]
  /\ key \in [Conns -> Keys \cup {<<>>}]
  /\ project \in [Conns -> Claims]
  /\ registered \subseteq Conns
  /\ lockq \in [Conns -> Seq(Calls)]
  /\ pc \in [Calls -> {"idle", "parked", "sending", "flight", "done"}]
  /\ risk \in [Calls -> Risks]
  /\ win \in [Calls -> Conns \cup {None}]
  /\ fut \in [Calls -> {"wait", "frame", "lost"}]
  /\ outcome \in [Calls -> Outcomes]
  /\ editor \in [Calls -> {"none", "wire", "running", "replied", "over"}]
  /\ via \in [Calls -> Conns \cup {None}]
  /\ link \in [Pages -> 0 .. MaxConns + 1]

Init ==
  /\ arrived = 0
  /\ sock = [w \in Conns |-> "new"]
  /\ key = [w \in Conns |-> <<>>]
  /\ project = [w \in Conns |-> Unnamed]
  /\ registered = {}
  /\ lockq = [w \in Conns |-> <<>>]
  /\ pc = [c \in Calls |-> "idle"]
  /\ risk = [c \in Calls |-> "read"]
  /\ win = [c \in Calls |-> None]
  /\ fut = [c \in Calls |-> "wait"]
  /\ outcome = [c \in Calls |-> "none"]
  /\ editor = [c \in Calls |-> "none"]
  /\ via = [c \in Calls |-> None]
  /\ link = [p \in Pages |-> None]

------------------------------------------------------------------------------
(* The registry. *)

PageOf(w) == key[w][1]                       \* the instance id the window claimed
InUse(k) == \E w \in registered : key[w] = k
Live == {w \in registered : sock[w] = "open"}

\* Which suffix a newcomer claiming page p gets: its bare id when that is free
\* or held by a dead socket, else the first unused ~n.
ClaimsSuffix(p, n) ==
  IF \E w \in Live : key[w] = <<p, 1>>
    THEN /\ n > 1
         /\ ~InUse(<<p, n>>)
         /\ \A m \in 2 .. n - 1 : InUse(<<p, m>>)
    ELSE n = 1

\* A dict entry of the same key is displaced.
Put(w, k) == {v \in registered : key[v] # k} \cup {w}

\* An authenticated connector is registered, with the claim its hello made.
Register(p) ==
  LET w == arrived + 1 IN
  /\ link[p] = None
  /\ arrived < MaxConns
  /\ arrived' = w
  /\ sock' = [sock EXCEPT ![w] = "open"]
  /\ \E n \in Conns :
       /\ ClaimsSuffix(p, n)
       /\ key' = [key EXCEPT ![w] = <<p, n>>]
       /\ registered' = Put(w, <<p, n>>)
  /\ \E q \in Claims : project' = [project EXCEPT ![w] = q]
  /\ link' = [link EXCEPT ![p] = w]
  /\ UNCHANGED <<lockq, callVars, editor, via>>

\* The daemon's end of the socket leaves OPEN; its handler still drains frames.
SocketDies(w) ==
  /\ sock[w] = "open"
  /\ sock' = [sock EXCEPT ![w] = "dead"]
  /\ UNCHANGED <<arrived, key, project, registered, lockq, callVars, editorVars>>

\* (Mutant of Unregister: by key, so a takeover's window can go instead.)
UnregisterByKey(w) == {v \in registered : key[v] # key[w]}

\* By identity: the key may be another window's by now.
Unregister(w) == registered \ {w}

IsWrite(c) == risk[c] # "read"

\* The calls in BridgeDaemon.pending.
Pending == {c \in Calls : pc[c] \in {"sending", "flight"}}

\* The futures once this socket's calls are failed, and nobody else's.
FailCallsOf(w) ==
  [c \in Calls |-> IF c \in Pending /\ win[c] = w /\ fut[c] = "wait"
                     THEN "lost" ELSE fut[c]]

\* The finally of the socket's handler.  The window object leaves with its claim.
HandlerEnds(w) ==
  /\ sock[w] = "dead"
  /\ sock' = [sock EXCEPT ![w] = "gone"]
  /\ registered' = Unregister(w)
  /\ project' = [project EXCEPT ![w] = Unnamed]
  /\ fut' = FailCallsOf(w)
  /\ UNCHANGED <<arrived, key, lockq, pc, risk, win, outcome, editorVars>>

------------------------------------------------------------------------------
(* Routing. *)

Only(S) == {w \in S : S = {w}}               \* the one element of S, if it has one

\* An instance hint: by hub key, else a bare id names the oldest window claiming it.
ByInstance(k) ==
  LET exact == {w \in Live : key[w] = k}
      same == {w \in Live : k[2] = 1 /\ PageOf(w) = k[1]}
  IN IF exact # {} THEN exact ELSE {w \in same : \A v \in same : w <= v}

ByProject(q) == Only({w \in Live : project[w] = q})

\* What route() can answer, over the hints a caller can give (none included):
\* a window, or nobody for each of its refusals.
Routes == {Only(Live)} \cup {ByProject(q) : q \in Projects} \cup {ByInstance(k) : k \in Keys}

\* The project gate: a design write needs a project on the list.
MayWrite(r, w) == r = "design" => project[w] \in Allowed

------------------------------------------------------------------------------
(* A request's way through the daemon. *)

\* The call leaves the pending table and its caller is answered.
Finish(c, how) ==
  /\ pc' = [pc EXCEPT ![c] = "done"]
  /\ fut' = [fut EXCEPT ![c] = "wait"]
  /\ outcome' = [outcome EXCEPT ![c] = how]

\* Leaving `async with write_lock`: the first waiter is woken, and runs later.
Release(c) ==
  IF IsWrite(c) THEN [lockq EXCEPT ![win[c]] = Tail(@)] ELSE lockq

\* A request answered without the editor: a ping, an unknown action, a missing
\* confirmation (each whatever the windows are), a routing refusal or the gate.
AnswerLocally(c) ==
  /\ pc[c] = "idle"
  /\ Finish(c, "local")
  /\ UNCHANGED <<hubVars, lockq, risk, win, editorVars>>

\* A read is forwarded at once.
RequestRead(c) ==
  /\ pc[c] = "idle"
  /\ \E target \in Routes : \E w \in target : win' = [win EXCEPT ![c] = w]
  /\ pc' = [pc EXCEPT ![c] = "sending"]
  /\ UNCHANGED <<hubVars, lockq, risk, fut, outcome, editorVars>>

\* (Mutant of RequestWrite: the lock is never waited for.)
RequestWriteAtOnce(c) ==
  /\ pc[c] = "idle"
  /\ \E r \in Risks \ {"read"}, target \in Routes : \E w \in target :
       /\ MayWrite(r, w)
       /\ risk' = [risk EXCEPT ![c] = r]
       /\ win' = [win EXCEPT ![c] = w]
       /\ pc' = [pc EXCEPT ![c] = "sending"]
       /\ lockq' = [lockq EXCEPT ![w] = Append(@, c)]
  /\ UNCHANGED <<hubVars, fut, outcome, editorVars>>

\* (Mutant of RequestWrite: a released lock is taken past the waiter just woken.)
RequestWriteBarging(c) ==
  /\ pc[c] = "idle"
  /\ \E r \in Risks \ {"read"}, target \in Routes : \E w \in target :
       LET held == \E d \in Pending : IsWrite(d) /\ win[d] = w IN
       /\ MayWrite(r, w)
       /\ risk' = [risk EXCEPT ![c] = r]
       /\ win' = [win EXCEPT ![c] = w]
       /\ pc' = [pc EXCEPT ![c] = IF held THEN "parked" ELSE "sending"]
       /\ lockq' = [lockq EXCEPT ![w] = IF held THEN Append(@, c) ELSE <<c>> \o @]
  /\ UNCHANGED <<hubVars, fut, outcome, editorVars>>

\* A write passes the gate and takes its window's lock: without a suspension
\* when nobody holds it or waits for it.
RequestWrite(c) ==
  /\ pc[c] = "idle"
  /\ \E r \in Risks \ {"read"}, target \in Routes : \E w \in target :
       /\ MayWrite(r, w)
       /\ risk' = [risk EXCEPT ![c] = r]
       /\ win' = [win EXCEPT ![c] = w]
       /\ pc' = [pc EXCEPT ![c] = IF lockq[w] = <<>> THEN "sending" ELSE "parked"]
       /\ lockq' = [lockq EXCEPT ![w] = Append(@, c)]
  /\ UNCHANGED <<hubVars, fut, outcome, editorVars>>

Holder(w) == {c \in Calls : lockq[w] # <<>> /\ Head(lockq[w]) = c}

\* (Mutant of Acquire: the window's liveness is not read again.)
AcquireUnchecked(c) ==
  /\ pc[c] = "parked"
  /\ c \in Holder(win[c])
  /\ pc' = [pc EXCEPT ![c] = "sending"]
  /\ UNCHANGED <<hubVars, lockq, risk, win, fut, outcome, editorVars>>

\* A parked write got the lock: its window's liveness is read again first.
Acquire(c) ==
  /\ pc[c] = "parked"
  /\ c \in Holder(win[c])
  /\ IF sock[win[c]] = "open"
       THEN /\ pc' = [pc EXCEPT ![c] = "sending"]
            /\ UNCHANGED <<lockq, fut, outcome>>
       ELSE /\ Finish(c, "unknown")
            /\ lockq' = Release(c)
  /\ UNCHANGED <<hubVars, risk, win, editorVars>>

\* websocket.send() of _forward returned: the frame is on the wire.
Send(c) ==
  /\ pc[c] = "sending"
  /\ sock[win[c]] = "open"
  /\ pc' = [pc EXCEPT ![c] = "flight"]
  /\ editor' = [editor EXCEPT ![c] = "wire"]
  /\ UNCHANGED <<hubVars, lockq, risk, win, fut, outcome, via, link>>

\* (Mutant of SendRaises: a write's failure is reported like a read's.)
SendRaisesInternal(c) ==
  /\ pc[c] = "sending"
  /\ sock[win[c]] # "open"
  /\ \E e \in {"none", "wire"} : editor' = [editor EXCEPT ![c] = e]
  /\ Finish(c, "internal")
  /\ lockq' = Release(c)
  /\ UNCHANGED <<hubVars, risk, win, via, link>>

\* (Mutant of SendRaises: reported as a window that is not connected.)
SendRaisesRefused(c) ==
  /\ pc[c] = "sending"
  /\ sock[win[c]] # "open"
  /\ \E e \in {"none", "wire"} : editor' = [editor EXCEPT ![c] = e]
  /\ Finish(c, "local")
  /\ lockq' = Release(c)
  /\ UNCHANGED <<hubVars, risk, win, via, link>>

\* websocket.send() raised, before or after the frame was written.  Only the
\* write path calls that DISCONNECTED.
SendRaises(c) ==
  /\ pc[c] = "sending"
  /\ sock[win[c]] # "open"
  /\ \E e \in {"none", "wire"} : editor' = [editor EXCEPT ![c] = e]
  /\ Finish(c, IF IsWrite(c) THEN "unknown" ELSE "internal")
  /\ lockq' = Release(c)
  /\ UNCHANGED <<hubVars, risk, win, via, link>>

\* The awaiting coroutine wakes on its future and answers.
Resume(c) ==
  /\ pc[c] = "flight"
  /\ fut[c] # "wait"
  /\ Finish(c, IF fut[c] = "frame" THEN "answered" ELSE "unknown")
  /\ lockq' = Release(c)
  /\ UNCHANGED <<hubVars, risk, win, editorVars>>

\* (Mutant of Timeout: the write lock is not released.)
TimeoutKeepsLock(c) ==
  /\ pc[c] = "flight"
  /\ Finish(c, "unknown")
  /\ UNCHANGED <<hubVars, lockq, risk, win, editorVars>>

\* The action's timeout fires; it can still win over a future already done.
Timeout(c) ==
  /\ pc[c] = "flight"
  /\ Finish(c, "unknown")
  /\ lockq' = Release(c)
  /\ UNCHANGED <<hubVars, risk, win, editorVars>>

\* (Mutant of Merged: a context that could not be read is merged too.)
MergedBlindly(w, q) == [project EXCEPT ![w] = IF q = Unnamed THEN None ELSE q]

\* Only non-empty claims of a response's context are merged.
Merged(w, q) == IF q = Unnamed THEN project ELSE [project EXCEPT ![w] = q]

\* The identity check: a registered window answers only its own calls.
Resolves(c, w) ==
  /\ c \in Pending
  /\ fut[c] = "wait"
  /\ w \in registered => win[c] = w

\* The answer to c arrives, with some claim, on a socket whose handler still reads.
OnResponse(c) ==
  LET w == via[c] IN
  /\ editor[c] = "replied"
  /\ sock[w] \in {"open", "dead"}
  /\ \E q \in Claims : project' = IF w \in registered THEN Merged(w, q) ELSE project
  /\ fut' = IF Resolves(c, w) THEN [fut EXCEPT ![c] = "frame"] ELSE fut
  /\ editor' = [editor EXCEPT ![c] = "over"]
  /\ via' = [via EXCEPT ![c] = None]
  /\ UNCHANGED <<arrived, sock, key, registered, lockq, pc, risk, win, outcome, link>>

------------------------------------------------------------------------------
(* The editor's side. *)

\* The request arrives on the link the page believes in, and is started at once:
\* the connector has no queue.
Receive(c) ==
  /\ editor[c] = "wire"
  /\ link[PageOf(win[c])] = win[c]
  /\ editor' = [editor EXCEPT ![c] = "running"]
  /\ UNCHANGED <<hubVars, lockq, callVars, via, link>>

\* The action is done: the answer goes out on the link of that moment, or nowhere.
Reply(c) ==
  LET l == link[PageOf(win[c])] IN
  /\ editor[c] = "running"
  /\ IF l \in Conns
       THEN /\ editor' = [editor EXCEPT ![c] = "replied"]
            /\ via' = [via EXCEPT ![c] = l]
       ELSE /\ editor' = [editor EXCEPT ![c] = "over"]
            /\ UNCHANGED via
  /\ UNCHANGED <<hubVars, lockq, callVars, link>>

\* The page gives its link up (heartbeat, watchdog, reconnect): the daemon may
\* go on seeing an open socket.
DropLink(p) ==
  /\ link[p] \in Conns
  /\ link' = [link EXCEPT ![p] = None]
  /\ UNCHANGED <<hubVars, lockq, callVars, editor, via>>

\* The page is closed or reloaded: what it ran ends unheard.
PageCloses(p) ==
  /\ link[p] # Closed
  /\ link' = [link EXCEPT ![p] = Closed]
  /\ editor' = [c \in Calls |-> IF editor[c] = "running" /\ PageOf(win[c]) = p
                                  THEN "over" ELSE editor[c]]
  /\ UNCHANGED <<hubVars, lockq, callVars, via>>

------------------------------------------------------------------------------

\* What the daemon does for one call without waiting for anybody else.
CallStep(c) == Acquire(c) \/ Send(c) \/ SendRaises(c) \/ Resume(c) \/ Timeout(c)

Next ==
  \/ \E c \in Calls : \/ AnswerLocally(c) \/ RequestRead(c) \/ RequestWrite(c)
                      \/ CallStep(c) \/ OnResponse(c)
                      \/ Receive(c) \/ Reply(c)
  \/ \E w \in Conns : SocketDies(w) \/ HandlerEnds(w)
  \/ \E p \in Pages : Register(p) \/ DropLink(p) \/ PageCloses(p)

Spec == Init /\ [][Next]_vars

\* The loop runs what is ready, sends return or raise, and timeouts fire.
Fairness == \A c \in Calls : WF_vars(CallStep(c))

FairSpec == Spec /\ Fairness

------------------------------------------------------------------------------
(* Properties. *)

\* Writes serialise per window as long as the daemon waits for them: two calls
\* never hold one window's write slot at once (the write lock of handle_request).
OneWritePerWindow ==
  \A c, d \in Pending : IsWrite(c) /\ IsWrite(d) /\ win[c] = win[d] => c = d

\* No call is left waiting for a socket whose handler has finished: the finally
\* that fails the socket's calls misses none, those sent during it included.
NoStrandedCall ==
  \A c \in Pending : sock[win[c]] = "gone" => fut[c] # "wait"

\* A window can be reached exactly as long as its socket is up: a takeover or a
\* dying predecessor never unregisters a live window, and none outlives its handler.
LiveIsRegistered ==
  \A w \in Conns : /\ sock[w] = "open" => w \in registered
                   /\ sock[w] \in {"new", "gone"} => w \notin registered

\* INTERNAL and the refusals read as "nothing was written": a write whose frame may
\* be on the wire is never answered with one of them.
WriteNeverReportedSafe ==
  \A c \in Calls : IsWrite(c) /\ editor[c] # "none" => outcome[c] \notin {"local", "internal"}

\* A write that was parked first is sent first: a newcomer never passes it, not
\* even between the holder's release and the waiter's wake-up.
ParkedWritesKeepTurn ==
  [][\A c, d \in Calls :
       /\ pc[c] = "parked" /\ pc'[c] = "parked"
       /\ risk'[d] # "read" /\ win'[d] = win[c]
       /\ pc[d] # "sending" /\ pc'[d] = "sending"
       => \E i, j \in DOMAIN lockq[win[c]] :
            i < j /\ lockq[win[c]][i] = d /\ lockq[win[c]][j] = c]_vars

\* Every request is answered, those queued behind a silent window included.
EveryRequestIsAnswered ==
  \A c \in Calls : pc[c] \in {"parked", "sending", "flight"} ~> pc[c] = "done"

\* What bridge.md says of the editor itself: one window never runs two writes at once.
EditorRunsOneWrite ==
  \A c, d \in Calls :
    /\ IsWrite(c) /\ IsWrite(d)
    /\ editor[c] = "running" /\ editor[d] = "running"
    /\ PageOf(win[c]) = PageOf(win[d])
    => c = d

\* What the project gate promises: a design write is only ever handed to a window
\* whose project, as the daemon knows it then, is on the list.
DesignWritesLandInAllowed ==
  [][\A c \in Calls :
       /\ risk'[c] = "design" /\ pc[c] # "sending" /\ pc'[c] = "sending"
       => project[win'[c]] \in Allowed]_vars

\* How a call stands for its holder (the refinement mapping to CallPromise).
Status(c) ==
  CASE pc[c] = "idle" -> "unsent"
    [] pc[c] \in {"parked", "sending", "flight"} -> "open"
    [] pc[c] = "done" /\ outcome[c] = "local" -> "turnedDown"
    [] pc[c] = "done" /\ outcome[c] = "answered" -> "answered"
    [] OTHER -> "unknown"

Promise == INSTANCE CallPromise WITH
  status <- [c \in Calls |-> Status(c)],
  ran <- {c \in Calls : editor[c] \in {"running", "replied", "over"}}

\* The hub implements what it promises the holder of a call.
KeepsPromise == Promise!Spec

==============================================================================
