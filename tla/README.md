# The boardwise bridge, in TLA+

boardwise lets a command line (or an agent that drives it) work inside a PCB
editor. Between the two sits a *bridge*: a daemon on the loopback interface, a
connector extension in every editor page, and the commands that talk to both.
This directory holds TLA+ models of that bridge, the TLC configurations that
check them on small instances, and proofs, checked by TLAPS, of the safety
properties for every instance.

The reference is the code. Each definition names the lines it stands for in
`PROJECT.json` (`map`); this file says why the model looks the way it does.

Contents: [the system](#the-system), [the modules](#the-modules),
[the runs](#the-runs), [fairness](#fairness), [the proofs](#the-proofs),
[where code and documentation disagree](#where-code-and-documentation-disagree),
[what is left out](#what-is-left-out), [the plan](#the-plan).

## The system

```
 CLI process ──ws──┐                        ┌──ws── editor page (connector)
 CLI process ──ws──┤  daemon (one asyncio   ├──ws── editor page (connector)
   │ starts it     │  loop, one process)    │          │ worker: watchdog
   └─ stamp file   └────────────────────────┘          └ host storage
```

| Component | State it keeps | Operations | What makes it hard |
|---|---|---|---|
| Hub (`bridge/daemon.py`) | `windows` by hub key, `pending` by request id, a `write_lock` per window, each window's claimed project | register, unregister, route, gate, forward, resolve, fail a socket's calls | coroutines interleave at every `await`; windows die, reload and take keys over while calls are parked or in flight; answers come late or on another socket |
| Handshake and pairing (`bridge/daemon.py`) | token file, pairing record, per-connection role | `hello`, first pairing, re-pairing, `revoke` from another process | the record is a file two processes write; "nobody attached" changes under the decision |
| Protocol (`bridge/protocol.py`) | none; the action catalogue with its risks | encode, decode, `merge_context` | risk decides lock, gate and confirmation |
| On-demand start (`bridge/autostart.py`) | a stamp file created with `O_EXCL`, the port | `ensure` | several processes, each can be killed anywhere; daemons die |
| Transport and watchdog (`connector/src/transport.ts`, `watchdog.ts`) | `state`, `socketId`, `greeted`, `missed`, two timers, a pending project read, the worker's clock | start, stop, connect, ensureHello, onMessage, heartbeat, reconnect ladder, wake, refusal, reply | the editor host never says that a socket died; page timers are throttled; a read settles after its attempt was replaced |
| Controller (`connector/src/index.ts`, the registry of `transport.ts`) | the transport slot, `connectEpoch`, the one-shot claim, the watchdog, the bootstrap's timers, the record on the editor's object | bootstrap, activate, self-arm, openTransport, reconnect, stop, re-pair, deactivate | the bundle is evaluated more than once in a page, before or after the editor binds its global; two opens interleave at their awaits |
| Self-update (`connector/src/self-update.ts`) | two records of the host's IndexedDB | write bundle, bump version, reload | two transactions; the reload races the answer |
| Client (`bridge/client.py`) | one socket, one request at a time | connect, request | a dead transport has to become `DISCONNECTED`, not "failed" |
| Command flows (`cli.py`) | what was sent and what came back | edit and draw apply, update-connector | a flow of several writes breaks in the middle; the verdict must not claim more, or less, than the page holds |
| Engines, parsers, compilers, Rust port | none across a run | pure functions over large inputs | size, not concurrency |

How they interact: a command calls `autostart.ensure` and opens a socket to the
daemon; the daemon's handler of that socket awaits `handle_request`, which routes
the request to one window's `WindowConnection`, takes that window's lock for a
write, puts a `PendingCall` in a table and sends the frame on the *window's*
socket; the window's own handler reads the answer and completes the future. The
connector's transport delivers the request to the controller's `onRequest` at
once (there is no queue on the editor's side), and sends the answer on whichever
socket it has when the action is done. The watchdog's worker shares nothing with
the page but messages.

The properties that make each part correct:

* **Hub.** Writes serialise per window while the daemon waits for them; the
  registry is exactly the windows whose sockets are up or draining; no call waits
  for an answer nobody can give; each call ends, and what its ending *says* is
  true: only a call the editor ran is answered, a call that was turned down never
  runs, and everything else is reported as unknown.
* **Start.** The stamp marks a start in flight, one command starts at a time, a
  dead start does not park later commands.
* **Transport.** One socket at a time, one hello per socket, timers that belong
  to the attempt, always something pending that takes it further, recovery.
* **Pairing.** Only a connector that nobody live displaces may write the record.
* **Controller.** Only the newest open keeps a transport; a transport that runs is
  watched; one evaluation's controller serves all; an editor that binds its global
  late is found.
* **Self-update.** The version that is announced is the bundle that is stored;
  the answer precedes the reload.
* **Flows.** What a flow reports as done is on the page, what it reports as
  untouched is not.

## The modules

| Module | What it is |
|---|---|
| `CallPromise` | the abstract specification: what the bridge promises the holder of one call |
| `Hub` | the daemon's registry, routing, gate, lock and pending table, with the pages and sockets around it |
| `Autostart` | `ensure()` run by several processes over one stamp file and one port |
| `Transport` | one transport of the connector, its timers, and the worker that wakes it |
| `Controller` | the controllers of one page: evaluations of the bundle, who claims, opens and stops the transport |
| `Pairing` | the one pairing record of the daemon, the token of every editor, `bridge revoke` |
| `Update` | `bridge update-connector` against pages that reload, over one bundle store |
| `EditApply` | `edit apply` against a page that a person has open |
| `Drawing` | `draw apply` and `draw discard`, one after the other on one page |
| `MCHub`, `MCPairing`, `MCUpdate`, `MCDrawing` | small instances, symmetry sets and kinds of plan for TLC |
| `HubProofs`, `AutostartProofs`, `TransportProofs`, `ControllerProofs`, `PairingProofs`, `UpdateProofs`, `EditProofs`, `DrawingProofs` | inductive invariants and theorems |

### CallPromise and Hub

`CallPromise` has two variables: how far the caller got with each call, and which
calls the editor has started. It allows at most one run per call, none after the
call was turned down, an answer only for a call that ran, and leaves everything
open after "unknown". It is what every command flow of `cli.py` is written
against (`UNKNOWN_OUTCOME_CODES`).

In `Hub` an action is what the daemon's loop does between two awaits:

| Code | Action |
|---|---|
| `_serve` after an accepted hello, `register`, `_claim_key` | `Register` (authentication and registration happen without an await between them) |
| the socket leaves `OPEN` | `SocketDies` |
| the handler's `finally`: `_drop_socket`, `unregister`, failing the calls | `HandlerEnds` |
| `handle_request` up to its first wait | `AnswerLocally`, `RequestRead`, `RequestWrite` |
| `async with write_lock` granted to a waiter, `is_open` re-check | `Acquire` |
| `websocket.send` returning or raising | `Send`, `SendRaises` |
| `wait_for` ending by the future or by the timeout | `Resume`, `Timeout` |
| `_on_frame` with an answer: `apply_response_context`, then `resolve_connector_response` | `OnResponse` |
| the connector: `onRequest`, `reply`, a lost link, a closed page | `Receive`, `Reply`, `DropLink`, `PageCloses` |

A window is identified by its socket (`Conns`, in order of arrival), because the
daemon compares identities, not keys, wherever it matters; the hub key is the pair
of the claimed instance and the suffix number (`inst-x~2` is `<<x, 2>>`). The
identity check of `unregister`, the sweep of `_drop_socket` and `window_of` are
three forms of one fact, that a socket's handler removes its own entry and no
other's; `Unregister` is that fact, and `LiveIsRegistered` is what goes wrong
without it. `asyncio.Lock` is a FIFO queue whose head holds it: a released lock is
not taken by a newcomer while a woken waiter has yet to run, which is the
difference `RequestWrite` and its barging mutant show.

A timeout that fires when the future is already done may win (Python's `wait_for`
can raise either way across versions), so `Timeout` has no guard on the future.
`send` of a dying socket may raise after the frame was written; the model takes
both outcomes. An answer may arrive on another socket of the same page, and after
its call was given up; `Resolves` decides what that does. When the answer's own
socket is no longer registered, `resolve_connector_response` gets no window and
compares none: `Resolves` keeps that.

Abstractions. A request id is the call itself (ids are random). A project is what
`_project_hint_matches` and the gate can tell apart, after normalisation; a
window's name and uuid are one claim. All refusals, pings and other local answers
are one outcome, `local`, since what a caller concludes from them is the same:
nothing was sent. Counters (`routed`, `last_seen`), the audit log, error texts and
the wording of the status are left out. A CLI connection that goes away changes
nothing in the hub (its handler runs on until its call ends), so it has no
action. Requests of role connector are refused and change nothing. All pages
claim an instance id; a build without one gets a random key and meets nobody.

### Autostart

One action per system call or poll of `ensure()`, so that processes interleave
between `probe`, `_claim`, `_wait_for`, `_stale`, `_release` and the second
`_claim`. `stamp` is the file together with who created it, which the code does
not know and the properties need. `Kill` ends a process anywhere and leaves its
stamp; `DaemonBinds` and `DaemonDies` are the daemons. Time appears as `Age`: a
stamp gets older than `STALE_START_SECONDS` (30 s) only if its creator is gone,
because a live creator releases it after at most `READY_TIMEOUT` (5 s) and the
time to spawn. That is an assumption about a machine that schedules processes
within 25 s, and it is the only place where the model leans on durations.

Not in the model: the opt-out (it returns before touching anything), an unwritable
home (every `_claim` fails, nobody starts anything), an `unlink` that fails, and
what the outcome says in words.

### Transport

One action per callback of the page. `session` is the daemon's end of the socket
that `socketId` names, so "the page believes in a socket that is dead" is
`state = "connected" /\ session = "dead"`. `lost` counts sockets that stay open with no
name left to close them by; `reads` tells the project read of the current attempt
from those of replaced ones. `stopped` is set and cleared with `state` and is
merged into it. `onConnected` is kept although the real host never calls it; the
variant with a project reader is modelled (a build without one says hello in the
same callback). Backoff durations are abstracted to "the ladder's timer runs".

`network` turns from `rough` to `calm` once and for all. While it is calm the
daemon accepts, greets and answers *promptly*: before a heartbeat limit, the read
deadline or the worker's timeout runs out (`Prompt`). That is the assumption under
which `Recovers` is stated; without it a daemon slow enough to be declared dead
every time is a system that never recovers, and rightly so. The host delivers no
frame of a socket that was closed by name.

The worker is assumed to exist. Where a page cannot create one, a transport in
`connecting` whose socket silently never opens has nothing that would wake it: no
page timer runs in that state (`NeverUnattended` says so, it starts with the
first frame). `start` is modelled as idempotent, as the code is, although
`openTransport` calls it once per transport.

### Controller

An action is what the page runs between two awaits. Every evaluation of the
bundle has module state of its own; it may own a controller (`uses[e] = e`) or use
another's, so a controller is named by its evaluation, and each variable of the
module (`transport`, `watchdog`, `connectionAttempted`, ...) is a function or a
set of controllers. A transport is named by the attempt that built it. `newest`
says which attempt holds the current `connectEpoch`; a stop bumps the number
without an attempt, so then nobody does.

| Code | Action |
|---|---|
| module scope: `runtime()`, `runBootstrap` | `Evaluate` |
| the timers of `scheduleBootstrapRetry`, `scheduleNextMacrotaskAttempt` | `Knock`, `NextMacrotask` |
| `activate`, `about` with `runSelfArm` behind it, `reconnect`, `stopConnection`, `deactivate`, `toggleAutoConnect` | `Activate`, `About`, `Reconnect`, `Stop`, `Deactivate`, `ToggleAutoConnect` |
| `rePair` before and after the token is forgotten | `RePair`, `RePaired` |
| `openTransport` up to, between and after its awaits | `Opens` or `OpenThrows` (inside the actions above), `Settle`, `Started` |
| `onHandshakeRefused` | `Refused` |
| the editor binding `eda` | `Bind` |

`Lookup` is `runtime()` together with the `republishSharedRuntime` of a
`connectOnce` that follows it; `Replaced` is what `adoptPublishedRuntime` stops on the
way. `BootstrapAttempt` and `SelfArm` have one disjunct per way they go: no editor,
claim lost, connected or standing down, failed.

Abstractions. One build of the connector: the retiring of another build's record is
left out, and the editor's object takes the record. Storage fails by throwing at
once, not by rejecting after the await. A `setTimeout(0)` that is pending twice for
one controller is one. What a running transport does is module `Transport`; here it
is on the wire until somebody stops it or the daemon refuses it (`Refused`, which
`Transport` shows to stop the transport). `called` is `activation`, `armed` is
`selfArm`; their outcomes and the status are wording. The editor calls the
extension's entry points only once its global is bound, and none of an evaluation
that it has deactivated (`gone`).

`calm` turns to yes once and for all: from then on storage works, nobody
calls, refuses or evaluates. `LateEditorIsFound` is about that time.

### Pairing

The daemon trusts one connector at a time and keeps its token in a file. Every
editor profile keeps a token in the extension storage that its windows share. The
module is about who may change the file, and when an editor that kept its token
could be turned away.

| Code | Action |
|---|---|
| `resolveConfig`, `connectableConfig`, `ensureConnectorToken` up to its await | `StartStored`, `StartEmpty` with `Generate` |
| `ensureConnectorToken` after its await | `StoreLands`, `StoreRefused` |
| reload, Stop, Reconnect, Re-pair | `Restart`, `RePair` |
| a connection lost or given up by a transport that goes on | `LinkLost` |
| `_handshake`, `_authenticate_connector`, `_pair`, `register` | `Hello`, by `Verdict` and `Trusted` |
| the daemon noticing that a socket has closed | `DyingCloses` |
| `bridge revoke` | `Revoke` |
| another daemon; a daemon that dies while `_write_secret` has emptied the file | `DaemonRestarts`, `DaemonDiesPairing` |
| the editor resetting a storage on sideload | `Sideload` |

A hello is one step, since nothing is awaited between the record being read and
the window being registered. `live_windows` counts sockets by their state, so a
window that has left its socket may count for a while: `dying`. `withdrawn` and
`lossy` are history: what a revoke or a torn write took off the record, and the
editors whose storage gave them a reason to come with another token. Two windows of one
editor that start for the first time together each generate a token, and so does a
page that is superseded while it stores: that is in the model, and the reason why
`RePairHasAReason` excepts it.

Abstractions. A token is compared and never looked into. The version of a hello is
ours or not; the origin is an editor's or a web page's. Clients of role `cli` have no token and
keep no state. The daemon reads the record from the file at each hello, as the code does.

### Update

One `bridge update-connector`, alone, from its reading of the window table to
its exit code, and the editor profile it updates.

| Code | Action |
|---|---|
| `_cmd_bridge_update_connector` up to the first write | `ReadsTable`, by `Refuses` |
| one request of `sys.self_update` and its ending | `Asks` with `Picked`; `Answers`, `Leaves`, `NoAnswer` with `Heard` |
| the verdict after the writes | `EndsWrites` |
| `_await_verdicts`, `_table_verdicts`, `_one_verdict` | `Polls`, `PollsInVain`, by `Judges` and `PoolOK` |
| exit code | `Concludes` |
| `sysSelfUpdate`: checks, first put, second put | `HandlerRefuses`, `PutFile`, `PutLabel`, `PutLabelFails` |
| the reload's timer | `TimerFires` |
| the daemon's registry | `Connects`, `Leaves` |
| the user | `UserReloads`, `UserOpens`, `UserCloses` |

A window's instance id belongs to one load of its page, so it is the pair of the
window and the number of the load; the command can only compare ids it saw before the
write with those it sees after. `quiet` is history: nobody but the update has
moved a page, and no live window fell off the table, since the table was read. A page
that reloads may run the build it had already evaluated, which the source reports of the
host.

Abstractions. There are two builds. A session that starts on the expected build, which the command
answers without writing, is left out, and so is a table in which one window is listed
twice under suffixes. Polling rounds are not counted: the budget may end at any time.

### EditApply

`edit apply` with a plan that sets one attribute (`kind = "value"`) or places a part and
connects it (`kind = "add"`), run several times. The bridge is `CallPromise` seen
from the holder: a write that was sent is in `flying` until it lands or fails, and
the flow may stop waiting for it at any time.

| Code | Action |
|---|---|
| the page guard and the identity check | `ChecksFocus` |
| the first `sch.geometry` | `ReadsPage` (it fails), `ReadsValue`, `ReadsParts` |
| the project file, the idempotence probe, the designator and the spot | `ReadsModel` with `MayPlace` |
| the answer to the write | `HearsWrite`, `ReadsWhetherPlaced` |
| the connections, one after the other | `Connects`, `HearsJoin` |
| the read-back, the range and the netlist | `ReadsBack`, `ReadsRange` |
| the save; the rule run again | `HearsSave`, `Reviews` |
| the process interrupted | `Killed` |
| the write in the editor | `Lands` by `Effect`, `Fails` |
| the person | `Touches` |

A part is named by who put it there (`Makers`), which the code cannot see and the properties need. The designator is
what the code goes by. `sch.place_component` may place a part and then fail to name it (`actions.ts:3868`):
`Fails` does that, and the part has the designator `Unnumbered`, which `component_origins` does not
list. A host may answer ok to a write and do nothing, but for the save.

Abstractions. Other pages have no content: a write that lands while another one is in front does nothing to
the plan's page. The page guard of each write is checked when its handler starts, and
the write takes effect later, so it excludes nothing here. Files, fingerprints and anchors that are wrong end in a refusal at the
first reading. `flags` of a connection are checked by a step that may fail. What
the rule reports in the end is open.

### Drawing

A sequence of commands, each `draw apply` or `draw discard` of the same plan on the same
page. A plan has parts, and lines: the first `MaxWires` of these are wires, the others flags.
The bridge is the one of `EditApply`.

| Code | Action |
|---|---|
| `_cmd_draw_apply`, `_cmd_draw_discard` | `Begins`, `Killed`, `ChecksFocus` |
| the first `sch.geometry`, `guard_problems` | `ReadsPage` |
| the probe (`postcondition_problems`), the parts already there, the census | `Probes` |
| the designator pool | `ReadsPool` |
| the placements | `HearsPlace`, `ReadsWhetherPlaced` with `PlacesNext` |
| the primitive ids, the values | `FindsIds`, `WritesValue`, `HearsValue` |
| the value rows that are not printed (5c) | `ReadsText`, `HearsHide`, `ReadsTextBack` |
| the pin read-back | `ChecksParts` |
| the wires and the flags | `HearsLine` |
| the verification, the range and the findings | `Verifies`, `Judges` |
| `discard_selection` | `Selects`, by `Discardable` (parts, flags and wires) and `Targets` |
| the deletes | `HearsCut`, by `CutsFrom` |
| the read-back after the deletes | `ReadsBack`, by `Discarded` |
| the save, with apply and with `--save` | `HearsSave` |
| the write in the editor | `Lands` by `Effect`, `Fails` |

A primitive is named by the command that drew it and the item of the plan, which stands for
its id and its place at once; the code sees an id and a place, and compares places. The
designator is a value of its own, since the host gives another one when the plan's is taken.
Two flags at one place are two primitives; two wires at one place become one. `held` is what a command has read and
its write goes by: the document that is written back, or the ids that are deleted. It
outlives the command as long as such a write is under way. `fresh` is history: no write of an earlier
command could still land when this one began.

`sch.place_component` may place a part and not name it, a delete may do some of its
ids, a host may answer ok and do nothing (but for the save), and a write whose answer was
lost lands at any later time, or never.

Wires that meet. The host makes one primitive of wires that touch (`docs/pits.md:39`), and `discard_selection` goes by
primitives, so who meets whom is chosen by `Init`, with the plan, and never changes: `meets` are the pairs of the plan's own wires that do,
`others` the wires of somebody else's that are on the page from the start and meet a planned wire (a wire that
meets none is nothing to either command). `Primitive(pg, x)` is what is one with `x`, closed under `Meet`. A wire is the
plan's if its primitive is the wire alone (`Lone`): `Targets` deletes only those. Two wires of the plan that were joined are a
mismatch and nothing is deleted (`WiresKnown`). One that was joined to somebody else's is a mismatch too, or is passed over,
namely when the primitive goes by a name that the planned wire cannot have (`belongs_to`); which of the two depends on the name that the host
gave it, so the model leaves both open: any selection may refuse, and `WiresKnown` does not ask for it. A delete takes
the whole primitive that its id stands for by then, or finds the id gone (`Removes`). A planned wire
that ends on a page's existing wire makes `draw apply` end in `range_out_of_scope`, since the primitive of the first reading changed
(`Keeps`), and leaves the page to a discard that takes off the rest at most.

Abstractions. Where `draw apply` compares coordinates, nets and pins, a thing is at the plan's place or it is not.
The parts of `fits` that come from the project export (nothing vanished elsewhere) are what
`Fits` says of this page. A finding that stops the save is a step that may be taken whenever the
netlist is right. Left out: the person at the page, whom `EditApply` has; a page that the command makes
(`--new-page`), and finding a plan's page by its position; `--expect-census`; a phase of a discard in several
batches; a plan without value keys; parts and flags on the page that are not the plan's; a wire of somebody else's
that meets two planned ones, or that comes while the commands run. Two wires meet here only if each reaches beyond the other: a
wire that lies on a planned one with all its points is taken for the plan's by the code, whoever drew it.

## The runs

| Run | Instance | Question |
|---|---|---|
| `hub` | 2 pages, 2 sockets, 2 calls | Through takeovers, reconnects, deaths, timeouts, late answers: are registry, lock, pending table and every ending right, and do they implement `CallPromise`? |
| `hub_queue` | 1 page, 1 socket, 3 calls | Do parked writes keep their turn, and is every request answered? |
| `hub_serial` | 1 page, 2 calls | Finding: two writes in one editor after a timeout. |
| `hub_gate` | 1 page, 2 projects, 2 calls | Finding: a parked design write after the project changed. |
| `autostart` | 3 processes | What does the stamp file guarantee, kills included? |
| `transport` | heartbeat limit 3 (the shipped value) | Sockets, hellos, timers, and recovery. |
| `controller` | 2 evaluations, 2 attempts, 1 call, 2 retries | One slot, one alarm, one shared connection, and a late editor is found. |
| `pairing` | 2 windows of one editor, 1 of another, 3 tokens | Who may write the pairing record, and is an editor that keeps its token ever turned away? |
| `update` | 2 windows, 2 loads each | What does the store hold, and may the command say what it says? |
| `update_answer` | the same | Finding: the reload takes the page before the answer is sent. |
| `edit` | 2 runs, 2 connections, 2 touches | Are exit codes true, and what may a rerun do to the page? |
| `drawing` | 3 commands, 2 parts, 2 wires, 1 flag, 3 kinds of plan | Is exit 0 true of the page and the file, is half a drawing ever saved, and do somebody else's wires stay? |

Why these bounds are enough. The hub's hazards are between *two* parties of a
kind: a window and its successor on one key (two sockets of one page), a window
and another (two pages), the call that holds a lock and the one parked on it. One
more call shows a newcomer passing the parked one (`hub_queue`). Two sockets and two
pages include every order of registering, dying, taking over and cleaning up
of a pair; a third socket adds suffixes above `~2`. The proofs hold for any number of all of
them. Three processes are what the takeover race needs: one that is killed and two
that find its stamp. The transport has one socket at a time by construction of
what it wants to show, and its counters are bounded by the limit. `hub` takes pages and calls
for symmetric; `hub_queue` lets design writes into every project, so that its writes
all reach the lock. Two
controllers, one of them too early for the editor, are what publishing and adopting are
about; two attempts are what overlaps at an await, and with the page's own two
timers and a retry per evaluation every order of a call with them is explored. The ladder has 2
rungs instead of 7: enough for one knock that misses the editor and one that finds it.

Two windows that share a storage meet on the storage, a third window on the pairing record; three
tokens are one for each and one to come with after that. In `update`, two windows are what one piece of evidence
can be wrongly used for twice, and two loads are one reload by the update or by the user, and none after it. In `edit`,
two runs are a run and a rerun, with whatever the first left in flight; a part with two connections can be
half connected; two touches are a change and another, or a turn of the page and back. The
same properties hold with three runs, one connection and no touches. In `drawing`, three commands are what leftovers
need: one that loses a write, one that meets it (an apply, a discard, or both), and one that has to be
right all the same. Two parts are a drawing that stops half-way between its parts; two wires can meet each other, or one of them
somebody else's while the other is deleted; a flag is the other way lines behave. `MCDrawing` takes three kinds of plan, since one run explores
each choice of `hides`, `bound`, `meets` and `others` beside every other: hidden rows with the census, wires that meet each other, and
a wire that meets somebody else's, with the census. That is 4 million states, and a few minutes.

`CHECK_DEADLOCK FALSE` in all runs but the transport's: their calls, sockets, processes,
attempts, tokens, loads, runs and commands are finite, and a behaviour that has used them up stops. The
transport never may, and its run checks it.

Each property of a passing run has a mutant: a definition of the module changed
the way a plausible bug would change the code, under which TLC reports that
property. The mutants stand beside the definitions they change, marked
`(Mutant of ...)`, and are used by nothing else.

`Autostart!TypeOK` is proved but not run on its own; it is a conjunct of the proved
invariant.

## Fairness

* **Hub**: weak fairness of `CallStep(c)`, for each call: what the daemon does for
  a call without anybody else. The event loop runs ready coroutines; `wait_for`
  has a timeout for every action; `send` returns or raises. The last is an
  assumption: a peer that stops reading while its socket stays open blocks `send`
  once the buffers are full, and the window's lock with it (see the hazard at
  `daemon.py:1862`). No fairness is given to windows or pages: they may fall silent.
* **Autostart**: weak fairness of each process's own steps, which may be cut short
  by `Kill`. Every wait of `ensure` has a timeout. Daemons need not come up.
* **Transport**: timers fire, however late; the project read has a deadline; the
  worker counts; and a daemon that is calm accepts, sends its banner, and welcomes.
* **Controller**: weak fairness of the page's timers (`Knock`, `NextMacrotask`), of the
  storage's promise (`Settle`) and of `Bind`. A host that discards timers, as the
  source reports of some contexts (`index.ts:1357-1360`), is one where
  `LateEditorIsFound` is not promised. It ends in "or the ladder is used up", since the code gives up
  there on purpose.

* **Pairing**, **Update**, **EditApply**, **Drawing**: none. They are about what may not happen, and what they wait for need
  never come: a table that stays as it is, a person, an answer.

## The proofs

`tlapm` checks eight modules to the last leaf. In each, the argument is an inductive invariant
`IInv` (`Inv` in `ControllerProofs` and `DrawingProofs`), with `Init => IInv`, `IInv /\ [Next]_vars
=> IInv'` by one lemma or step per action, and `IInv => P` for each property.

**HubProofs** (for any pages, calls, projects and any number of sockets). `OneWritePerWindow` says
nothing about the queue, so it is not inductive: `IInv` adds that each pending write is the *head*
of its window's queue, that a parked write is somewhere in it, and that a queue has no duplicates
and only the window's own unfinished writes. `NoStrandedCall` needs that a call whose window is gone
is either still being sent, where `send` will raise, or has a lost or answered future.
`LiveIsRegistered` needs that registered keys are distinct, and that a key a newcomer takes over
belongs to a dead socket. `WriteNeverReportedSafe` and the refinement need how far the editor's side
can be for each place of the call. The refinement theorem `HubKeepsPromise` shows that each step of
`Hub` is a step of `CallPromise` or a stutter: lemmas `Stutters` and `Moves` split the work. What a
caller may conclude from the contract is stated beside it in `CallPromise` and carried over
(`VerdictsAreTruthful`, `VerdictsStand`): a call reported as turned down has not run, an answered
one has, and no verdict is taken back.

The order of the queues has an invariant of its own (`Queues`, proved as `QueuesHold` on top of
`IInv`): the entries of a window's queue are unanswered writes of that window, each there once, and
every parked call stands in its window's queue. With what a step does to a queue (`JoinsQueue` at
the end, `LeavesQueue` at the head, nothing else) it gives `ParkedWritesSentInTurn`, the sharper
`QueuesDrainInOrder` (a parked write keeps its place or, when the head is answered, comes exactly
one place nearer), and `ParkedBehindSomebodyAlive` (the head is never a call that was answered, so
nobody waits for a lock that nobody will release). The last one is what liveness has to add fairness
to: `EveryRequestIsAnswered` itself stays with TLC.

Two theorems say what *does* hold where a run refutes a sentence of the documentation.
`OverlapIsAnnounced`: two writes run in one window only if the caller of one of them was told that
its outcome is unknown; a caller that stops there never makes a window run two.
`GateIsLostByAnswers`: while a write is parked behind the gate, its window leaves the list of
allowed projects only because another call's answer named the new project, or because it went.

**AutostartProofs** (for any number of commands). The invariant: the stamp's creator is in its start
or was killed, and before the first takeover a process in its start owns the stamp.

**TransportProofs** (for any heartbeat limit). The invariant ties `state`, `session`, `greeted`,
`reads` and `timers` to one another: for instance a current read means a greeted attempt that has
not said hello yet, which is what makes `OneHelloPerSocket` hold. Over it, `BothEndsAgree` (the page
calls itself connected exactly while the daemon serves its socket, but for a wire that has died
since) and `StopStays` (nothing but `start()` takes a stopped transport further, whatever settles,
arrives or fires late).

**ControllerProofs** (for any number of evaluations, attempts, calls and retries). The invariant has
three parts that hardly touch. *Slots*: a slot holds the transport of its controller's newest
attempt; the newest attempt, while it awaits its config, finds the slot empty and the watchdog up;
what is on the wire is in its slot. The middle one is what the epoch is for: it is why filling the
slot forgets no transport, and why a stop that takes the watchdog leaves no attempt to run without
it. All ways of emptying slots (stop, adopt, open, throw, stand down) go through one lemma,
`EmptyingKeeps`. *Registry*: a controller that holds itself for the shared one is the published one.
*Gates*: types. `OneShared` joins the first two.

**PairingProofs** (for any windows, editors and tokens). With `LiveTokensAreOnFile` the invariant
says that windows offer, and storages hold, tokens of their own editor (`OffersOwnToken`,
`StoresOwnToken`), and that an editor that is not `lossy` has generated one token at most, which is
in its storage or on the way there (`OneTokenEach`). Whatever such an editor's windows offer is then
the token that was on file, which is what `PairedEditorIsNotLockedOut` and `RePairHasAReason` need.

**UpdateProofs** (for any windows and loads). `ReportedIsStored` is about an exit code that comes
long after the puts; the invariant carries it there: a handler past a put has stored what it put
(`HandlersHavePut`), a window that answered ok has stored both (`WrittenIsStored`), and the command
loses track of no window it set out to write to (`Tracked`), so that an exit without a failure had
an answer.

`QuietVerdicts` proves `QuietVerdictIsTrue`, where the command judges windows by connections that do
not carry their names. Four invariants on top of `IInv`, in the order they build on each other.
`Book`: no id is ahead of its page (`Ages`), nothing is under way before the table is read
(`Begins`), one id is asked at a time (`Plan`), and what is pending has no verdict yet
(`VerdictsSoFar`). `Calm`, while nothing but the update moves a page: an open page is one that was
online before, or one that was asked and has come back exactly once (`Moved`), and a newcomer in the
table is such a page. `Evidence`: what the verdicts so far say is so. `Outcome`: the exit code too.
The step that matters is `EnoughNewcomers`: the windows written to that have come back map *onto*
the newcomers, so as many newcomers on the new build as windows asked about leave no window without
one (`FS_Surjection`, counting finite sets; hence `IsFiniteSet(Windows)` in `UpdateAssumption`,
which an editor with its windows satisfies). TLC checked the four as invariants before they were
proved.

`LostAnswersWereOk` stands beside run `update_answer`: the reload may come before the answer, but
then the window had an ok to give and the bundle is stored with its version (`Answering`). The
command reports a failure that did not happen, never a success that did not.

**EditProofs** (for any number of runs, connections and touches). The core is `FlyingIsAccounted`: a
write in flight is the one the current run waits for, or of a run that does not know its outcome, or
a connection. Since "one run does not know" is stable, so is the exception that the properties make.
Under it, the part on the page is the only one (`OneAtATime`), what the run was told to save has
passed the range and the netlist (`SavedIsVetted`), and a run that reports exit 0 has seen what it
reports (`ZeroInv`). `RefusedTheorem` is the other exit code: a run that ended with 4, or found the
change there, has no part on the page or in the file and no write under way, then and ever after
(`UnwrittenInv`), whatever the person does.

**DrawingProofs** (for any number of commands, parts, wires and flags). The invariant is `TypeOK`,
`Order` (what holds of any command: nobody has drawn who has not begun, a write of a later command
is not under way) and `FreshInv`, which speaks of a command that began with nothing under way. All
writes in flight are then its own, and each names a step it has passed (`MayFly`). From there the
invariant goes along the steps: while parts are placed the page has only this command's parts on it,
in their places (`EarlyPage`, `PartsPage`, with `OwnNames` for the ids that get values); what the
document was when it was read to be written back (`HeldPage`); after the read-back of the pins no
part can change any more, and lines only come (`LinesPage`), so that the count of flags shows that
no leftover is under them; a discard deletes what it has selected and nothing else comes
(`CutPage`); a save waits for a page that was read whole or clean, and only wires the host is late
with can land before it, which leaves it so (`SavePage`). `LastPage` carries that past the end of
the command, where its late writes still land. This is why exit 0 stays true: every late write of
the command that said so adds what is already there or deletes what is already gone.

`OthersTheorem` needs one thing more of the writes under way (`TheirsKept`): a delete goes by a reading that has every
line of the page, so that nothing was joined since to what it selected, which was a primitive by itself (`LinesCut`); and
a document that is written back has all of somebody else's lines. `OnlyWiresTheorem` says how far a discard can go after exit 2: with `PartsKnown` and
`FlagsSingle` two of the three legs of `discard_selection` find no mismatch, and the third finds one only where wires were joined. It says no more,
because the code does not (see below).

Two theorems go beyond a command that began with nothing under way. `RefusedTheorem`: a command that
refuses, or finds nothing to do, has drawn nothing and has nothing under way, although late writes
of *earlier* commands go on landing; `BeforeIt` adds that what a command writes back, or deletes by,
is older than the next command, which is why a late rewrite brings none of its items.
`HandOverTheorem`: after a command that ended as `refused`, `already`, `nothing`, `discarded` or
`cleared` the next one begins with nothing under way if it did itself. The proviso `fresh` of the
checked properties so carries over from command to command until one ends in doubt, is killed, stops
or fails, or has applied a drawing whose wires the host is late with.

Properties that are not in a `.cfg` file because they are proved: those of the theorems named in
this section that no run lists. Each was checked by TLC on the instance of its module's run before
it was proved.

Only model-checked: the liveness properties (`EveryRequestIsAnswered`, `AbandonedStartIsMadeAgain`,
`Recovers`, `LateEditorIsFound`), since the prover does no liveness under fairness. Every invariant
and every action property of a passing run is proved.

Assumed: the `ASSUME`s of the modules (`HubAssumption`, `AutostartAssumption`,
`TransportAssumption`, `ControllerAssumption`, `PairingAssumption`, `UpdateAssumption`,
`EditAssumption`, `DrawingAssumption`), which say that constants are of their kind and that the
markers for "nobody" and "unnamed" are not members of the sets they stand beside.

## Where code and documentation disagree

With a run that shows it:

1. **Writes per window** (`hub_serial`). `docs/bridge.md` says writes serialise per
   window because two in one editor make a half-drawn page. The lock is released when the *wait* ends;
   after `TIMEOUT` the editor may still be running the first write when the second
   arrives.
2. **The project gate** (`hub_gate`). The gate is documented as deciding before
   the frame is forwarded. It decides before the wait for the lock, and the
   answer of the write ahead may tell the daemon, meanwhile, that the window has another
   project open. The parked write is sent all the same.
3. **Answer before reload** (`update_answer`). `docs/bridge.md:1098` says that the answer to
   `sys.self_update` leaves before the page does. The reload's timer is set before the handler returns, and the answer first waits for a
   reading of the page's context that may take longer than the timer.

Met while modelling, without a run of their own:

* *One controller connected.* `index.ts:256` says that two controllers connected to one daemon are what the shared record exists to prevent.
  A controller whose evaluation was too early for the editor's global finds, when its timer fires, that another one is
  published; it logs that it "stays local" (`index.ts:295`) and connects all the same. Nothing stops it until an entry point
  of that evaluation is called and adopts the published one. `docs/bridge.md:1841` relies on both
  naming their first socket `boardwise-1`, so that the host ignores the second registration;
  that is outside this code, and their later sockets have different names. `OneConnection` says what does hold.
* *The context of a reply.* `context_for_frame` is documented to
  return the answering window's context. It looks the window up by key after the call, when
  the key may be its successor's (`daemon.py:1717`).
* *Starting once.* The docstring of `autostart.py` promises that a
  start in flight is waited for, not duplicated. A process that judged the stamp
  abandoned unlinks whatever stamp is there by the time it gets to it. The cost is
  small: the second daemon loses the bind and exits. `StartsOverlapOnlyByTakeover` says how far the promise holds.
* *About as a safety net.* The comment says that the
  arm behind About does nothing unless the bootstrap skipped for want of an editor.
  It takes an empty slot to mean that auto-connect is off; the slot is also empty after Stop and
  while an attempt awaits its config. It gives the claim back, and the next About
  connects, against a Stop if there was one.
* *A reload reuses the token* (`docs/bridge.md:1016`). Not if two windows generated one each: the last write wins, and the other
  window's next reload comes with a token that is not on file.
* *An unknown outcome is exit 3* (`cli.py:21347`, `cli.py:27636`). The add flow does not look at how a connection ended. One that timed out, with a
  netlist that does not show it yet, makes the run end in exit 2 while the wire may still land.
  `SettledRunWritesNoMore` excepts exactly these.
* *"The placement was refused"* (exit 2) is also said of a part that was placed and could not be named. It stays on the page; since
  `component_origins` leaves unnumbered designators out (`addcomponent.py:173`), a rerun places a second one there. `DuplicateHasAReason`
  excepts it.
* *A rerun after a save that was refused* finds the change on the page, says "already applied" with exit 0, and saves nothing.
* *Cleaning up after half a run.* `draw discard` is "the explicit cleanup verb" (`cli.py:13330`) and has a note for "a run that stopped
  half-way" (`cli.py:13540`). `draw apply` writes the values when *all* parts are placed, so a placement that was
  refused, or an interruption between two, leaves parts without a value. `draw apply` then answers `part_present_unfinished`,
  and `draw discard` takes the parts for somebody else's and deletes nothing (`identity_mismatch`). Both exit 4. A part that could not be named is not seen by `draw discard` at all.
* *Taking off what apply landed.* "`draw discard` takes a landed page back off" (`README.md:56`), and a page that `draw apply` refused to save is to be cleaned
  with it (`docs/pits.md:46`). Not if two wires of the plan touch: the host has made one primitive of them, which lies on neither planned wire
  with every point, so that an applied page is refused whole (`identity_mismatch`, exit 4, `drawapply.py:4391`), and so is one
  that apply left with exit 2. `OnlyWiresTheorem` says what holds.
* *"A mismatch, never a partial delete"* (`drawapply.py:4257`, of a wire that was merged with somebody else's). A merged
  primitive that goes by a name the planned wire cannot have is not a mismatch but passed over: the rest is deleted, and the
  planned wire stays in it after `discarded`, exit 0. This is the exception in `Cleared`. That it is never deleted (`docs/draw.md:604`) is `OthersAreLeftAlone`.
* *Nothing to discard.* `draw discard` makes sure once that its page is in front, and then reads whichever page is. A person who turns the page in between
  (`docs/pits.md:51`) makes it say `nothing_to_discard`, exit 0, of another page. `Drawing` has no person; `EditApply` has one, and its flow looks again.
* *The pool of evidence.* `_await_verdicts` compares the newcomers with the windows still without a verdict, not with all that were written to
  (`cli.py:20717`): after one verdict the same newcomers are counted for the others. In `update` it is without effect
  while nobody else moves a page, since the pool is first filled for all.
* *A window that connects between the table and the write* is taken for one that came back on the old build, and the command says that the update failed; and
  exit 0 is said of a window that merely dropped while another one came back. `quiet` is the condition under which the verdict is true.

## What is left out

* Of pairing: the files' permissions, the texts of a refusal, the port.
* Of the self-update: the checks of the payload and the search for the database and its record, which are one refusal.
* Of the flows: `edit apply` for a pin's net, for a part put into a net and for a part that is moved; a page that `draw apply` makes; flows that only read.
* Of the client: connecting again, and the frames.
* Of the controller: other builds' records, an object that refuses the record,
  storage that rejects late, the texts of the About box. That a bootstrap timer may
  undo a Stop (neither `runStop` nor `deactivate` clears it) is in the model and
  contradicts no promise of the source that names it.
* The connector's actions and the facade: one translation of the editor's API per
  action, with no state shared between actions that the bridge depends on.
* Compilers, review engines, rules, parsers, the Rust port: sequential and pure.
  Their hazards are geometric and lexical, over inputs far larger than a model checker enumerates.
* The plugin for another host, packaging, tools.

## The plan

Done: `CallPromise`, `Hub`, `Autostart`, `Transport`, `Controller`, `Pairing`, `Update`, `EditApply`, `Drawing`, with proofs of
every invariant and action property that a passing run checks. Next, in this order:

1. The other three kinds of `edit apply`. They share the writes and the read-backs of `EditApply`, and each adds deletes, which it has not.
2. A person at the page of `Drawing`, and a page that the command makes.
3. `ControllerWire`: `Controller` composed with `Transport`, so that what
   `Refused`, `Drop` and the watchdog stand for there is shown by a refinement.
4. `EditApply` and `Drawing` over `CallPromise` itself, so that `HubKeepsPromise` puts the hub in its place.
5. Pure algorithms against reference definitions: `merge_context`, the suffixes of
   `_claim_key`, `route` with both hints.
