------------------------------ MODULE Transport ------------------------------
(***************************************************************************)
(* One connector transport (connector/src/transport.ts) with the worker    *)
(* that wakes it (connector/src/watchdog.ts): connecting, the handshake,   *)
(* heartbeats, reconnecting and stopping, on an editor host that never     *)
(* says when a socket died, and whose page timers may be throttled.        *)
(*                                                                         *)
(* An action is one callback of the page: a timer, an inbound frame, a     *)
(* wake of the worker, a settled read or a call of index.ts.  The host     *)
(* delivers no frame of a socket that was closed by name.                  *)
(***************************************************************************)
EXTENDS Naturals

CONSTANT MissLimit    \* heartbeatMissLimit: unanswered pings that declare a socket dead

ASSUME TransportAssumption == MissLimit \in Nat \ {0}

VARIABLES
  state,    \* Transport.state; `stopped` is set and cleared with it
  greeted,  \* hello was sent, or is about to be, on this attempt
  timers,   \* the timers that run: "retry" (reconnectTimer), "beat" (heartbeatTimer)
  missed,   \* heartbeats since the last frame
  reads,    \* project reads under way: for the current attempt, or for older ones
  worker,   \* the watchdog's worker counts the silence, or wakes the page because of it
  session,  \* the daemon's end of the socket that socketId names; "none": no socketId
  hellos,   \* hellos sent on the current socket
  lost,     \* how many sockets were left open that no id names any more
  network   \* "calm": from now on daemon, wire and host do their part

attemptVars == <<state, greeted, timers, reads, session, hellos, lost>>
vars == <<attemptVars, missed, worker, network>>

Opened == {"greeting", "asked", "serving"}     \* frames can come in
Alive == {"opening"} \cup Opened

\* A calm daemon at the other end answers before a timer or the worker runs out.
Prompt == network = "calm" /\ session \in Alive

\* Every variable holds a value of its kind.
TypeOK ==
  /\ state \in {"idle", "connecting", "handshaking", "connected", "reconnecting", "stopped"}
  /\ greeted \in {"no", "yes"}
  /\ timers \subseteq {"retry", "beat"}
  /\ worker \in {"counts", "wakes"}
  /\ lost \in Nat
  /\ network \in {"rough", "calm"}
  /\ missed \in 0 .. MissLimit
  /\ reads \subseteq {"mine", "stale"}
  /\ session \in {"none", "dead"} \cup Alive
  /\ hellos \in 0 .. 2

Init ==
  /\ state = "idle" /\ session = "none"
  /\ greeted = "no" /\ timers = {} /\ missed = 0
  /\ reads = {} /\ hellos = 0 /\ lost = 0
  /\ worker = "counts" /\ network = "rough"

------------------------------------------------------------------------------
(* The attempt on the wire. *)

\* Reads that are pending when their attempt is given up are nobody's.
Orphaned(pending) == IF pending = {} THEN {} ELSE {"stale"}

\* clearTimers, and the socket is closed by name and forgotten.
DropAttempt(pending) ==
  /\ session' = "none"
  /\ hellos' = 0
  /\ reads' = Orphaned(pending)
  /\ UNCHANGED lost

\* scheduleReconnect: the next rung of the backoff ladder.
ScheduleReconnect(pending) ==
  /\ DropAttempt(pending)
  /\ state' = "reconnecting"
  /\ timers' = {"retry"}

\* connect, over whatever is on the wire (`old`) and beside the timers that go on:
\* the host registers a socket, or has no facade or throws, and the ladder takes over.
Connect(old, running) ==
  /\ greeted' = "no"
  /\ worker' = "counts"
  /\ \/ /\ state' = "connecting"
        /\ session' = "opening"
        /\ hellos' = 0
        /\ reads' = Orphaned(reads)
        /\ lost' = IF old = "none" THEN lost ELSE lost + 1
        /\ timers' = running
     \/ /\ network # "calm"
        /\ ScheduleReconnect(reads)

\* The timer of the ladder.
RetryFires ==
  /\ "retry" \in timers
  /\ Connect(session, timers \ {"retry"})
  /\ UNCHANGED <<missed, network>>

IsLive == state \in {"connecting", "handshaking", "connected"}

\* (Mutant of Start: an attempt on the wire is not noticed.)
StartAgain ==
  /\ Connect(session, timers \ {"retry"})
  /\ UNCHANGED <<missed, network>>

\* start: idempotent, and it supersedes the ladder.
Start ==
  /\ ~IsLive
  /\ Connect(session, timers \ {"retry"})
  /\ UNCHANGED <<missed, network>>

\* (Mutant of Teardown: the timers are left running.)
TeardownKeepsTimers ==
  /\ DropAttempt(reads)
  /\ state' = "stopped"
  /\ UNCHANGED timers

\* teardown, and the state it ends in.
Teardown ==
  /\ DropAttempt(reads)
  /\ state' = "stopped"
  /\ timers' = {}

Stop ==
  /\ Teardown
  /\ UNCHANGED <<greeted, missed, worker, network>>

------------------------------------------------------------------------------
(* The handshake. *)

\* ensureHello: once per attempt, by reading the project first.
EnsureHello ==
  IF session # "none" /\ greeted = "no"
    THEN /\ greeted' = "yes"
         /\ state' = "handshaking"
         /\ reads' = reads \cup {"mine"}
    ELSE UNCHANGED <<greeted, state, reads>>

\* The editor's connect callback: advisory, and the real host never calls it.
OnConnected ==
  /\ session \in Opened
  /\ EnsureHello
  /\ missed' = IF greeted = "yes" THEN missed ELSE 0
  /\ UNCHANGED <<timers, worker, session, hellos, lost, network>>

\* Any frame but the answers to hello: the banner, a pong, a request.
OnMessage ==
  /\ session \in Opened
  /\ EnsureHello
  /\ missed' = 0
  /\ worker' = "counts"
  /\ UNCHANGED <<timers, session, hellos, lost, network>>

\* (Mutant of SendHello: the heartbeat is not started.)
SendHelloOnly(r) ==
  \/ /\ hellos' = hellos + 1
     /\ session' = IF session = "greeting" THEN "asked" ELSE session
     /\ reads' = reads \ {r}
     /\ UNCHANGED <<state, greeted, lost, timers>>
  \/ /\ ~Prompt
     /\ greeted' = "no"
     /\ ScheduleReconnect(reads \ {r})

\* sendHello, when read r has settled: the frame leaves and the heartbeat starts, or
\* send() throws.
SendHello(r) ==
  \/ /\ hellos' = hellos + 1
     /\ session' = IF session = "greeting" THEN "asked" ELSE session
     /\ timers' = timers \cup {"beat"}
     /\ reads' = reads \ {r}
     /\ UNCHANGED <<state, greeted, lost>>
  \/ /\ ~Prompt
     /\ greeted' = "no"
     /\ ScheduleReconnect(reads \ {r})

\* (Mutant of ReadSettles: it is not asked whether the attempt is still the same.)
ReadSettlesForAny(r) ==
  /\ r \in reads
  /\ IF session # "none"
       THEN SendHello(r)
       ELSE /\ reads' = reads \ {r}
            /\ UNCHANGED <<state, greeted, session, hellos, lost, timers>>
  /\ UNCHANGED <<missed, worker, network>>

\* The project read settles or its deadline passes: only the attempt that asked
\* for it says hello.
ReadSettles(r) ==
  /\ r \in reads
  /\ IF r = "mine"
       THEN SendHello(r)
       ELSE /\ reads' = reads \ {r}
            /\ UNCHANGED <<state, greeted, session, hellos, lost, timers>>
  /\ UNCHANGED <<missed, worker, network>>

\* The daemon's answer to hello.
OnWelcome ==
  /\ session = "asked"
  /\ session' = "serving"
  /\ state' = "connected"
  /\ missed' = 0
  /\ worker' = "counts"
  /\ UNCHANGED <<greeted, timers, reads, hellos, lost, network>>

\* A refusal, with or without an id: reported and stopped, never retried.  The
\* banner came before it on the same socket.
OnRefusal ==
  /\ session \in {"greeting", "asked"}
  /\ greeted = "yes"
  /\ Teardown
  /\ UNCHANGED greeted
  /\ missed' = 0
  /\ worker' = "counts"
  /\ UNCHANGED network

------------------------------------------------------------------------------
(* Signs of life. *)

\* A ping goes out, or send() throws.
SendPing ==
  /\ missed' = missed + 1
  /\ \/ UNCHANGED attemptVars
     \/ /\ ~Prompt
        /\ ScheduleReconnect(reads)
        /\ UNCHANGED greeted

\* (Mutant of Tick: it only ever pings.)
TickForever ==
  /\ "beat" \in timers
  /\ SendPing
  /\ worker' = "counts"
  /\ UNCHANGED network

\* One tick of the heartbeat.
Tick ==
  /\ "beat" \in timers
  /\ IF missed >= MissLimit
       THEN /\ ~Prompt      \* a calm daemon answers within the limit
            /\ ScheduleReconnect(reads)
            /\ UNCHANGED <<greeted, missed, worker>>
       ELSE /\ SendPing
            /\ worker' = "counts"
  /\ UNCHANGED network

\* The worker has counted its timeout of silence.
Silence ==
  /\ worker = "counts"
  /\ ~Prompt                \* a calm daemon is heard sooner
  /\ worker' = "wakes"
  /\ UNCHANGED <<attemptVars, missed, network>>

\* (Mutant of Wake: a handshake under way is left to itself.)
WakeSparesHandshake ==
  /\ worker = "wakes"
  /\ state # "stopped"
  /\ IF state = "connected" /\ missed = 0
       THEN SendPing /\ UNCHANGED worker
       ELSE IF state \in {"connecting", "handshaking"}
         THEN worker' = "counts" /\ UNCHANGED <<attemptVars, missed>>
         ELSE Connect("none", {}) /\ UNCHANGED missed
  /\ UNCHANGED network

\* wake: a connected socket is probed, then replaced like a silent handshake, by
\* closing it and connecting without a timer; with nothing on the wire, the ladder
\* is cut short.
Wake ==
  /\ worker = "wakes"
  /\ state # "stopped"
  /\ \/ /\ state = "connected" /\ missed = 0
        /\ SendPing
        /\ UNCHANGED worker
     \/ /\ IsLive /\ ~(state = "connected" /\ missed = 0)
        /\ Connect("none", {})
        /\ UNCHANGED missed
     \/ /\ ~IsLive
        /\ Connect(session, timers \ {"retry"})
        /\ UNCHANGED missed
  /\ UNCHANGED network

------------------------------------------------------------------------------
(* The daemon and the wire. *)

\* The socket opens: the daemon accepts it and sends its banner.
Opens ==
  /\ session = "opening"
  /\ session' = "greeting"
  /\ UNCHANGED <<state, greeted, timers, reads, hellos, lost, missed, worker, network>>

\* The daemon goes, or the wire half-opens: nobody tells the page.
SessionDies ==
  /\ session \in Alive
  /\ network # "calm"
  /\ session' = "dead"
  /\ UNCHANGED <<state, greeted, timers, reads, hellos, lost, missed, worker, network>>

CalmsDown ==
  /\ network # "calm"
  /\ network' = "calm"
  /\ UNCHANGED <<attemptVars, missed, worker>>

------------------------------------------------------------------------------

Next ==
  \/ Start \/ Stop \/ RetryFires \/ Tick \/ Silence \/ Wake
  \/ OnConnected \/ OnMessage \/ OnWelcome \/ OnRefusal
  \/ \E r \in {"mine", "stale"} : ReadSettles(r)
  \/ Opens \/ SessionDies \/ CalmsDown

Spec == Init /\ [][Next]_vars

\* Timers, however throttled, fire; the read has a deadline; the worker's clock is
\* not the page's; and a calm daemon does its part.
Fairness ==
  /\ WF_vars(RetryFires) /\ WF_vars(Tick) /\ WF_vars(ReadSettles("mine"))
  /\ WF_vars(Silence) /\ WF_vars(Wake)
  /\ WF_vars(Prompt /\ Opens) /\ WF_vars(Prompt /\ OnMessage) /\ WF_vars(Prompt /\ OnWelcome)

FairSpec == Spec /\ Fairness

------------------------------------------------------------------------------
(* Properties. *)

\* Replacing is not forgetting: no start, retry or wake, in any order, leaves a
\* second socket open behind the transport's back.
NoSocketLeftOpen == lost = 0

\* The daemon answers a second hello with PROTOCOL_VIOLATION: however triggers and
\* slow project reads of replaced attempts fall, a socket carries at most one.
OneHelloPerSocket == hellos <= 1

\* A timer never outlives what it was set for: no ladder beside an attempt, no
\* heartbeat without a greeted socket, and nothing at all once stopped.
TimersBelong ==
  /\ "retry" \in timers => state = "reconnecting"
  /\ "beat" \in timers => state \in {"handshaking", "connected"} /\ session # "none"
  /\ state = "stopped" => session = "none"

\* From the first frame on, a transport always has a timer or a read with a deadline
\* that will take it further: a dead wire never parks it for the worker alone to find.
NeverUnattended ==
  /\ state = "reconnecting" => "retry" \in timers
  /\ state = "handshaking" => "beat" \in timers \/ "mine" \in reads
  /\ state = "connected" => "beat" \in timers

\* Once the daemon stays up, a started transport gets back to a served connection,
\* from a half-open socket, a silent registration or any rung of the ladder.
Recovers ==
  network = "calm" /\ state # "idle" ~> state = "stopped" \/ (state = "connected" /\ session = "serving")

==============================================================================
