--------------------------- MODULE TransportProofs ---------------------------
(***************************************************************************)
(* Proofs about one connector transport, for any miss limit.               *)
(***************************************************************************)
EXTENDS Transport, TLAPS

\* There is a socket exactly while an attempt is on the wire.
SocketIffAttempt ==
  /\ session # "none" <=> IsLive
  /\ session = "none" => hellos = 0

\* How far an attempt has got with its hello.
HelloStages ==
  /\ state = "connecting" => greeted = "no"
  /\ state \in {"handshaking", "connected"} => greeted = "yes"
  /\ state = "connecting" => hellos = 0 /\ session \notin {"asked", "serving"}
  /\ "mine" \in reads => state = "handshaking" /\ hellos = 0 /\ "beat" \notin timers
  /\ hellos > 0 => "beat" \in timers
  /\ session \in {"asked", "serving"} => hellos > 0 /\ "mine" \notin reads

IInv ==
  /\ TypeOK
  /\ NoSocketLeftOpen
  /\ OneHelloPerSocket
  /\ TimersBelong
  /\ NeverUnattended
  /\ SocketIffAttempt
  /\ HelloStages

\* An untouched transport has no socket, no timer and no read.
LEMMA InitIInv == Init => IInv
  BY TransportAssumption
     DEF Init, IInv, TypeOK, NoSocketLeftOpen, OneHelloPerSocket, TimersBelong, NeverUnattended,
         SocketIffAttempt, HelloStages, IsLive, Alive, Opened

\* A connect with nothing on the wire and no heartbeat: the old socket is closed or
\* was never there.
LEMMA ConnectKeeps ==
  ASSUME IInv, Connect("none", {}), UNCHANGED <<missed, network>>
  PROVE  IInv'
  BY DEF IInv, TypeOK, NoSocketLeftOpen, OneHelloPerSocket, TimersBelong, NeverUnattended,
         SocketIffAttempt, HelloStages, IsLive, Alive, Opened, Connect, ScheduleReconnect,
         DropAttempt, Orphaned

\* A failure on the way puts the transport on the ladder.
LEMMA LadderKeeps ==
  ASSUME IInv, NEW pending, ScheduleReconnect(pending),
         greeted' \in {"no", "yes"}, worker' \in {"counts", "wakes"},
         network' \in {"rough", "calm"}, missed' \in 0 .. MissLimit
  PROVE  IInv'
  BY DEF IInv, TypeOK, NoSocketLeftOpen, OneHelloPerSocket, TimersBelong, NeverUnattended,
         SocketIffAttempt, HelloStages, IsLive, Alive, Opened, ScheduleReconnect, DropAttempt,
         Orphaned

\* Stopping, by the user or because the daemon refused.
LEMMA TeardownKeeps ==
  ASSUME IInv, Teardown, UNCHANGED <<greeted, network>>, worker' \in {"counts", "wakes"},
         missed' \in 0 .. MissLimit
  PROVE  IInv'
  BY DEF IInv, TypeOK, NoSocketLeftOpen, OneHelloPerSocket, TimersBelong, NeverUnattended,
         SocketIffAttempt, HelloStages, IsLive, Alive, Opened, Teardown, DropAttempt, Orphaned

\* A ping that goes out, or puts the transport on the ladder.
LEMMA PingKeeps ==
  ASSUME IInv, SendPing, IsLive, missed < MissLimit, UNCHANGED network,
         worker' \in {"counts", "wakes"}
  PROVE  IInv'
<1>1. missed' \in 0 .. MissLimit
  BY TransportAssumption DEF IInv, TypeOK, SendPing
<1>2. CASE UNCHANGED attemptVars
  BY <1>1, <1>2
     DEF attemptVars, IInv, TypeOK, NoSocketLeftOpen, OneHelloPerSocket, TimersBelong,
         NeverUnattended, SocketIffAttempt, HelloStages, IsLive, Alive, Opened
<1>3. CASE ScheduleReconnect(reads) /\ UNCHANGED greeted
  BY <1>1, <1>3, LadderKeeps DEF IInv, TypeOK
<1> QED  BY <1>2, <1>3 DEF SendPing

\* The first frame, or the advisory callback, starts the handshake of its attempt.
LEMMA GreetKeeps ==
  ASSUME IInv, EnsureHello, session \in Opened, missed' \in 0 .. MissLimit, worker' \in {"counts", "wakes"},
         UNCHANGED <<timers, session, hellos, lost, network>>
  PROVE  IInv'
  BY DEF IInv, TypeOK, NoSocketLeftOpen, OneHelloPerSocket, TimersBelong, NeverUnattended,
         SocketIffAttempt, HelloStages, IsLive, Alive, Opened, EnsureHello

\* Only the current attempt's read says hello, and it does so once.
LEMMA ReadKeeps ==
  ASSUME IInv, NEW r \in {"mine", "stale"}, ReadSettles(r)
  PROVE  IInv'
<1>1. CASE r = "mine"
  <2>1. state = "handshaking" /\ hellos = 0 /\ greeted = "yes"
    BY <1>1 DEF IInv, HelloStages, ReadSettles
  <2>2. CASE hellos' = hellos + 1
    <3>1. /\ hellos' = 1 /\ state' = "handshaking" /\ greeted' = "yes"
          /\ timers' = timers \cup {"beat"} /\ reads' = reads \ {"mine"}
          /\ session' = IF session = "greeting" THEN "asked" ELSE session
          /\ UNCHANGED <<lost, missed, worker, network>>
      BY <1>1, <2>1, <2>2 DEF ReadSettles, SendHello, ScheduleReconnect, DropAttempt
    <3> QED
      BY <2>1, <3>1
         DEF IInv, TypeOK, NoSocketLeftOpen, OneHelloPerSocket, TimersBelong, NeverUnattended,
             SocketIffAttempt, HelloStages, IsLive, Alive, Opened
  <2>3. CASE ScheduleReconnect(reads \ {r}) /\ greeted' = "no"
    BY <1>1, <2>3, LadderKeeps DEF IInv, TypeOK, ReadSettles
  <2> QED  BY <1>1, <2>2, <2>3 DEF ReadSettles, SendHello
<1>2. CASE r # "mine"
  BY <1>2
     DEF IInv, TypeOK, NoSocketLeftOpen, OneHelloPerSocket, TimersBelong, NeverUnattended,
         SocketIffAttempt, HelloStages, IsLive, Alive, Opened, ReadSettles
<1> QED  BY <1>1, <1>2

\* The invariant is inductive.
LEMMA NextKeepsIInv == IInv /\ [Next]_vars => IInv'
<1> SUFFICES ASSUME IInv, [Next]_vars PROVE IInv'
  OBVIOUS
<1>1. ASSUME ~IsLive PROVE session = "none" /\ timers \ {"retry"} = {}
  BY <1>1 DEF IInv, TypeOK, TimersBelong, SocketIffAttempt, IsLive
<1>2. ASSUME Start \/ RetryFires PROVE IInv'
  <2>1. ~IsLive
    BY <1>2 DEF Start, RetryFires, IInv, TimersBelong, IsLive
  <2> QED  BY <1>1, <1>2, <2>1, ConnectKeeps DEF Start, RetryFires
<1>3. ASSUME Wake PROVE IInv'
  <2>1. CASE state = "connected" /\ missed = 0 /\ SendPing /\ UNCHANGED worker
    BY <1>3, <2>1, PingKeeps, TransportAssumption DEF Wake, IInv, TypeOK, IsLive
  <2>2. CASE Connect("none", {}) /\ UNCHANGED missed
    BY <1>3, <2>2, ConnectKeeps DEF Wake
  <2>3. CASE ~IsLive /\ Connect(session, timers \ {"retry"}) /\ UNCHANGED missed
    BY <1>1, <1>3, <2>3, ConnectKeeps DEF Wake
  <2> QED  BY <1>3, <2>1, <2>2, <2>3 DEF Wake
<1>4. ASSUME Tick PROVE IInv'
  <2>1. IsLive
    BY <1>4 DEF Tick, IInv, TimersBelong, IsLive
  <2>2. CASE missed >= MissLimit
    BY <1>4, <2>2, LadderKeeps DEF Tick, IInv, TypeOK
  <2>3. CASE ~(missed >= MissLimit)
    <3>1. missed < MissLimit
      BY <2>3, TransportAssumption DEF IInv, TypeOK
    <3> QED  BY <1>4, <2>1, <2>3, <3>1, PingKeeps DEF Tick, IInv, TypeOK
  <2> QED  BY <2>2, <2>3
<1>5. ASSUME Stop \/ OnRefusal PROVE IInv'
  BY <1>5, TeardownKeeps, TransportAssumption DEF Stop, OnRefusal, IInv, TypeOK
<1>6. ASSUME OnConnected \/ OnMessage PROVE IInv'
  BY <1>6, GreetKeeps, TransportAssumption DEF OnConnected, OnMessage, IInv, TypeOK
<1>7. ASSUME OnWelcome \/ Opens \/ SessionDies PROVE IInv'
  <2>1. CASE OnWelcome
    BY <2>1, TransportAssumption
       DEF OnWelcome, IInv, TypeOK, NoSocketLeftOpen, OneHelloPerSocket, TimersBelong,
           NeverUnattended, SocketIffAttempt, HelloStages, IsLive, Alive, Opened
  <2>2. CASE Opens
    BY <2>2
       DEF Opens, IInv, TypeOK, NoSocketLeftOpen, OneHelloPerSocket, TimersBelong,
           NeverUnattended, SocketIffAttempt, HelloStages, IsLive, Alive, Opened
  <2>3. CASE SessionDies
    BY <2>3
       DEF SessionDies, IInv, TypeOK, NoSocketLeftOpen, OneHelloPerSocket, TimersBelong,
           NeverUnattended, SocketIffAttempt, HelloStages, IsLive, Alive, Opened
  <2> QED  BY <1>7, <2>1, <2>2, <2>3
<1>8. ASSUME Silence \/ CalmsDown \/ UNCHANGED vars PROVE IInv'
  BY <1>8
     DEF Silence, CalmsDown, vars, attemptVars, IInv, TypeOK, NoSocketLeftOpen,
         OneHelloPerSocket, TimersBelong, NeverUnattended, SocketIffAttempt, HelloStages, IsLive,
         Alive, Opened
<1> QED
  BY <1>1, <1>2, <1>3, <1>4, <1>5, <1>6, <1>7, <1>8, ReadKeeps DEF Next

\* The strengthened invariant holds in every behaviour.
LEMMA IInvHolds == Spec => []IInv
  BY InitIInv, NextKeepsIInv, PTL DEF Spec

------------------------------------------------------------------------------

\* Every state of the transport is well typed: no more heartbeats are missed than the
\* limit allows.
THEOREM TypeCorrect == Spec => []TypeOK
<1>1. IInv => TypeOK
  BY DEF IInv
<1> QED  BY <1>1, IInvHolds, PTL

\* Start, retry and wake in any order never leave a second socket open (connect).
THEOREM NoSecondSocket == Spec => []NoSocketLeftOpen
<1>1. IInv => NoSocketLeftOpen
  BY DEF IInv
<1> QED  BY <1>1, IInvHolds, PTL

\* One hello per socket, however slow project reads and reconnects interleave
\* (ensureHello and the guard of sendHelloWithProject).
THEOREM HelloOnce == Spec => []OneHelloPerSocket
<1>1. IInv => OneHelloPerSocket
  BY DEF IInv
<1> QED  BY <1>1, IInvHolds, PTL

\* No timer outlives the attempt it was set for, and a stopped transport has none.
THEOREM TimersAreBound == Spec => []TimersBelong
<1>1. IInv => TimersBelong
  BY DEF IInv
<1> QED  BY <1>1, IInvHolds, PTL

\* A transport that has heard its first frame, or is on the ladder, has a timer that
\* takes it further.
THEOREM AlwaysAttended == Spec => []NeverUnattended
<1>1. IInv => NeverUnattended
  BY DEF IInv
<1> QED  BY <1>1, IInvHolds, PTL

------------------------------------------------------------------------------
(* What the page and the daemon say of one connection. *)

\* The page calls itself connected exactly while the daemon serves its socket, unless the wire is
\* dead: no late read, advisory callback or wake leaves one of them behind the other (OnWelcome
\* of transport.ts; status() reports `connected`).
EndsAgree ==
  /\ state = "connected" => session \in {"serving", "dead"}
  /\ session = "serving" => state = "connected"

LEMMA EndsAgreeInit == Init => EndsAgree
BY DEF Init, EndsAgree

LEMMA EndsAgreeStep == ASSUME IInv, EndsAgree, [Next]_vars  PROVE EndsAgree'
<1> USE DEF EndsAgree
<1>1. \A old, running : Connect(old, running) => EndsAgree'
  BY DEF Connect, ScheduleReconnect, DropAttempt
<1>2. \A pending : ScheduleReconnect(pending) => EndsAgree'
  BY DEF ScheduleReconnect, DropAttempt
<1>3. CASE Start \/ RetryFires
  BY <1>1, <1>3 DEF Start, RetryFires
<1>4. SendPing => EndsAgree'
  BY <1>2 DEF SendPing, attemptVars
<1>5. CASE Wake \/ Tick
  BY <1>1, <1>2, <1>4, <1>5 DEF Wake, Tick
<1>6. CASE Stop \/ OnRefusal
  BY <1>6 DEF Stop, OnRefusal, Teardown, DropAttempt
<1>7. CASE OnConnected \/ OnMessage
  BY <1>7 DEF OnConnected, OnMessage, EnsureHello, IInv, HelloStages, Opened
<1>8. ASSUME NEW r \in {"mine", "stale"}, ReadSettles(r)  PROVE EndsAgree'
  BY <1>2, <1>8 DEF ReadSettles, SendHello, IInv, HelloStages
<1>9. CASE OnWelcome \/ Opens \/ SessionDies
  BY <1>9 DEF OnWelcome, Opens, SessionDies, Alive, Opened
<1>10. CASE Silence \/ CalmsDown \/ UNCHANGED vars
  BY <1>10 DEF Silence, CalmsDown, vars, attemptVars
<1> QED  BY <1>3, <1>5, <1>6, <1>7, <1>8, <1>9, <1>10 DEF Next

\* It holds for any miss limit.
THEOREM BothEndsAgree == Spec => []EndsAgree
BY IInvHolds, EndsAgreeInit, EndsAgreeStep, PTL DEF Spec

\* Only start() ends a stop: a read that settles late, the worker's wake, a frame that was under
\* way and every timer leave a stopped transport without a socket and without a timer.
StopIsStop ==
  [][state = "stopped" => Start \/ (state' = "stopped" /\ session' = "none" /\ timers' = {})]_vars

\* It holds for any miss limit.
THEOREM StopStays == Spec => StopIsStop
<1>1. ASSUME IInv, [Next]_vars, state = "stopped", ~Start
      PROVE  state' = "stopped" /\ session' = "none" /\ timers' = {}
  <2>1. session = "none" /\ timers = {} /\ "mine" \notin reads
    BY <1>1 DEF IInv, TypeOK, TimersBelong, HelloStages
  <2> QED
    BY <1>1, <2>1
    DEF Next, vars, attemptVars, Stop, Teardown, DropAttempt, RetryFires, Tick, Silence, Wake,
        OnConnected, OnMessage, OnWelcome, OnRefusal, ReadSettles, Opens, SessionDies, CalmsDown,
        Opened, Alive
<1>2. IInv /\ [Next]_vars =>
        [state = "stopped" => Start \/ (state' = "stopped" /\ session' = "none" /\ timers' = {})]_vars
  BY <1>1
<1> QED  BY <1>2, IInvHolds, PTL DEF Spec, StopIsStop

==============================================================================
