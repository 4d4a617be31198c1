------------------------------ MODULE HubProofs ------------------------------
(***************************************************************************)
(* Theorems about the hub, for any number of pages, calls and sockets.     *)
(*                                                                         *)
(* IInv is the inductive invariant.  Beside the properties it is there     *)
(* for, it says where a call is on its way (CallStages), that the active   *)
(* write of a window is the head of the window's lock queue (LockHeld),    *)
(* and which sockets have a window at all (Accepted).                      *)
(***************************************************************************)
EXTENDS Hub, SequenceTheorems, TLAPS

\* The sockets numbered up to arrived are those that registered, each under a key.
Accepted ==
  \A w \in Conns : /\ w > arrived <=> sock[w] = "new"
                   /\ sock[w] # "new" => key[w] \in Keys

\* The write that is being sent or in flight holds its window's lock.
LockHeld ==
  \A c \in Pending : IsWrite(c) => /\ lockq[win[c]] # <<>>
                                   /\ Head(lockq[win[c]]) = c

\* What a call's stage says of the rest of its state.
Stage(c) ==
  /\ pc[c] = "idle" => risk[c] = "read" /\ win[c] = None
  /\ pc[c] \in {"parked", "sending", "flight"} =>
       win[c] \in Conns /\ sock[win[c]] # "new"
  /\ pc[c] # "done" => outcome[c] = "none"
  /\ pc[c] = "parked" => IsWrite(c)
  /\ pc[c] # "done" /\ editor[c] # "none" => pc[c] = "flight"
  /\ fut[c] # "wait" => pc[c] \in {"sending", "flight"}
  /\ fut[c] = "frame" => pc[c] = "flight" /\ editor[c] = "over"
  /\ outcome[c] = "local" => pc[c] = "done" /\ editor[c] = "none"
  /\ outcome[c] = "answered" => pc[c] = "done" /\ editor[c] = "over"
  /\ outcome[c] = "internal" => ~IsWrite(c)
  /\ editor[c] # "none" => win[c] \in Conns /\ sock[win[c]] # "new"
  /\ editor[c] = "replied" => via[c] \in Conns

CallStages == \A c \in Calls : Stage(c)

IInv ==
  /\ TypeOK
  /\ Accepted
  /\ LiveIsRegistered
  /\ LockHeld
  /\ CallStages
  /\ NoStrandedCall

------------------------------------------------------------------------------

\* Whatever hint a caller gives, routing only ever answers a live window.
LEMMA RouteIsLive ==
  ASSUME NEW target \in Routes, NEW w \in target
  PROVE  w \in Live
<1>1. CASE target = Only(Live)
  BY <1>1 DEF Only
<1>2. CASE \E q \in Projects : target = ByProject(q)
  BY <1>2 DEF ByProject, Only
<1>3. CASE \E k \in Keys : target = ByInstance(k)
  BY <1>3 DEF ByInstance
<1>4. QED  BY <1>1, <1>2, <1>3 DEF Routes

\* A freshly started daemon, with nothing registered and nothing pending, satisfies
\* the invariant.
LEMMA InitIInv == Init => IInv
<1> USE HubAssumption
<1> SUFFICES ASSUME Init PROVE IInv
  OBVIOUS
<1>1. TypeOK
  <2>1. lockq \in [Conns -> Seq(Calls)]
    BY DEF Init
  <2>2. link \in [Pages -> 0 .. MaxConns + 1]
    BY DEF Init, None
  <2> QED  BY <2>1, <2>2 DEF Init, TypeOK, Claims, Outcomes, Risks
<1>2. Accepted /\ LiveIsRegistered
  BY DEF Init, Accepted, LiveIsRegistered, Conns
<1>3. LockHeld /\ NoStrandedCall
  BY DEF Init, LockHeld, NoStrandedCall, Pending
<1>4. CallStages
  BY DEF Init, CallStages, Stage, IsWrite, None
<1> QED  BY <1>1, <1>2, <1>3, <1>4 DEF IInv

------------------------------------------------------------------------------
(* The environment's steps and the registry. *)

\* A hello that registers a window (register, _claim_key) preserves it, under a free
\* key, a suffixed key or the key of a dead predecessor.
LEMMA RegisterKeeps ==
  ASSUME IInv, NEW p \in Pages, Register(p)
  PROVE  IInv'
<1> USE HubAssumption DEF IInv
<1> DEFINE w == arrived + 1
<1>1. w \in Conns /\ sock[w] = "new" /\ w \notin registered
  BY DEF Register, TypeOK, Conns, Accepted, LiveIsRegistered
<1>2. PICK n \in Conns : /\ ClaimsSuffix(p, n)
                         /\ key' = [key EXCEPT ![w] = <<p, n>>]
                         /\ registered' = Put(w, <<p, n>>)
  BY DEF Register
<1>3. <<p, n>> \in Keys
  BY DEF Keys
<1>4. \A v \in Live : key[v] # <<p, n>>
  BY <1>2 DEF ClaimsSuffix, InUse, Live
<1>5. TypeOK'
  <2>1. /\ arrived' \in 0 .. MaxConns
        /\ sock' \in [Conns -> {"new", "open", "dead", "gone"}]
        /\ project' \in [Conns -> Claims]
        /\ link' \in [Pages -> 0 .. MaxConns + 1]
    BY <1>1 DEF TypeOK, Register, Conns
  <2>2. registered' \subseteq Conns
    BY <1>1, <1>2 DEF TypeOK, Put
  <2>3. key' \in [Conns -> Keys \cup {<<>>}]
    BY <1>1, <1>2, <1>3 DEF TypeOK
  <2>4. UNCHANGED <<lockq, callVars, editor, via>>
    BY DEF Register
  <2> QED  BY <2>1, <2>2, <2>3, <2>4 DEF TypeOK, callVars
<1>6. Accepted'
  <2>1. sock' = [sock EXCEPT ![w] = "open"] /\ arrived' = w
    BY DEF Register
  <2>2. ASSUME NEW v \in Conns PROVE v > arrived' <=> sock'[v] = "new"
    BY <1>1, <2>1 DEF Accepted, TypeOK, Conns
  <2>3. ASSUME NEW v \in Conns, sock'[v] # "new" PROVE key'[v] \in Keys
    BY <1>1, <1>2, <1>3, <2>1, <2>3 DEF Accepted, TypeOK
  <2> QED  BY <2>2, <2>3 DEF Accepted
<1>7. LiveIsRegistered'
  <2>1. sock' = [sock EXCEPT ![w] = "open"]
    BY DEF Register
  <2>2. ASSUME NEW v \in Conns, sock'[v] = "open" PROVE v \in registered'
    BY <1>2, <1>4, <2>1, <2>2 DEF LiveIsRegistered, Live, Put, TypeOK
  <2>3. ASSUME NEW v \in Conns, sock'[v] \in {"new", "gone"} PROVE v \notin registered'
    BY <1>1, <1>2, <2>1, <2>3 DEF LiveIsRegistered, Put, TypeOK
  <2> QED  BY <2>2, <2>3 DEF LiveIsRegistered
<1>8. LockHeld'
  BY DEF Register, LockHeld, Pending, IsWrite, callVars
<1>9. CallStages' /\ NoStrandedCall'
  <2>1. UNCHANGED <<callVars, editor, via>> /\ sock' = [sock EXCEPT ![w] = "open"]
    BY DEF Register
  <2>2. CallStages'
    BY <1>1, <2>1 DEF CallStages, Stage, IsWrite, callVars, TypeOK
  <2>3. NoStrandedCall'
    BY <1>1, <2>1 DEF CallStages, Stage, NoStrandedCall, Pending, callVars, TypeOK
  <2> QED  BY <2>2, <2>3
<1> QED  BY <1>5, <1>6, <1>7, <1>8, <1>9

\* A socket that dies before its handler ends preserves it: the window stays in the
\* table, draining.
LEMMA SocketDiesKeeps ==
  ASSUME IInv, NEW w \in Conns, SocketDies(w)
  PROVE  IInv'
<1> USE HubAssumption DEF IInv, SocketDies
<1>1. TypeOK'
  BY DEF TypeOK, callVars, editorVars
<1>2. Accepted'
  BY DEF Accepted, TypeOK
<1>3. LiveIsRegistered'
  BY DEF LiveIsRegistered, TypeOK
<1>4. LockHeld'
  BY DEF LockHeld, Pending, IsWrite, callVars
<1>5. CallStages'
  BY DEF CallStages, Stage, IsWrite, callVars, editorVars, TypeOK
<1>6. NoStrandedCall'
  BY DEF NoStrandedCall, CallStages, Stage, Pending, callVars, TypeOK
<1> QED  BY <1>1, <1>2, <1>3, <1>4, <1>5, <1>6

\* The handler's finally preserves it: the window leaves the table and its pending
\* calls fail together.
LEMMA HandlerEndsKeeps ==
  ASSUME IInv, NEW w \in Conns, HandlerEnds(w)
  PROVE  IInv'
<1> USE HubAssumption DEF IInv, HandlerEnds
<1>1. TypeOK'
  BY DEF TypeOK, FailCallsOf, Unregister, editorVars, Claims
<1>2. Accepted'
  BY DEF Accepted, TypeOK
<1>3. LiveIsRegistered'
  BY DEF LiveIsRegistered, Unregister, TypeOK
<1>4. LockHeld'
  BY DEF LockHeld, Pending, IsWrite
<1>5. CallStages'
  BY DEF CallStages, Stage, FailCallsOf, Pending, IsWrite, editorVars, TypeOK
<1>6. NoStrandedCall'
  BY DEF NoStrandedCall, CallStages, Stage, FailCallsOf, Pending, TypeOK
<1> QED  BY <1>1, <1>2, <1>3, <1>4, <1>5, <1>6

\* Steps that touch only the editor's side of calls that are on it already.
LEMMA EditorKeeps ==
  ASSUME IInv, NEW c \in Calls, Receive(c) \/ Reply(c)
  PROVE  IInv'
<1> USE HubAssumption DEF IInv
<1>1. /\ UNCHANGED <<hubVars, lockq, callVars, link>>
      /\ editor[c] \in {"wire", "running"}
      /\ \E e \in {"running", "replied", "over"} :
           /\ editor' = [editor EXCEPT ![c] = e]
           /\ e = "replied" => \E l \in Conns : via' = [via EXCEPT ![c] = l]
           /\ e # "replied" => via' = via
  BY DEF Receive, Reply
<1>2. TypeOK'
  <2>1. editor' \in [Calls -> {"none", "wire", "running", "replied", "over"}]
    BY <1>1 DEF TypeOK
  <2>2. via' \in [Calls -> Conns \cup {None}]
    BY <1>1 DEF TypeOK
  <2> QED  BY <1>1, <2>1, <2>2 DEF TypeOK, hubVars, callVars
<1>3. Accepted' /\ LiveIsRegistered' /\ LockHeld' /\ NoStrandedCall'
  BY <1>1 DEF Accepted, LiveIsRegistered, LockHeld, NoStrandedCall, Pending, IsWrite,
              hubVars, callVars
<1>4. CallStages'
  BY <1>1 DEF CallStages, Stage, IsWrite, hubVars, callVars, TypeOK
<1> QED  BY <1>2, <1>3, <1>4

\* An editor page that closes, or loses its link, preserves it.
LEMMA PageKeeps ==
  ASSUME IInv, NEW p \in Pages, DropLink(p) \/ PageCloses(p)
  PROVE  IInv'
<1> USE HubAssumption DEF IInv
<1>1. /\ UNCHANGED <<hubVars, lockq, callVars, via>>
      /\ \E l \in {None, Closed} : link' = [link EXCEPT ![p] = l]
      /\ editor' \in [Calls -> {"none", "wire", "running", "replied", "over"}]
      /\ \A c \in Calls : editor'[c] = editor[c] \/ (editor[c] = "running" /\ editor'[c] = "over")
  BY DEF DropLink, PageCloses, TypeOK
<1>2. TypeOK'
  BY <1>1 DEF TypeOK, hubVars, callVars, None, Closed
<1>3. Accepted' /\ LiveIsRegistered' /\ LockHeld' /\ NoStrandedCall'
  BY <1>1 DEF Accepted, LiveIsRegistered, LockHeld, NoStrandedCall, Pending, IsWrite,
              hubVars, callVars
<1>4. CallStages'
  BY <1>1 DEF CallStages, Stage, IsWrite, hubVars, callVars, TypeOK
<1> QED  BY <1>2, <1>3, <1>4

------------------------------------------------------------------------------
(* A call's steps in the daemon. *)

\* A request answered or refused before it is forwarded preserves it.
LEMMA AnswerLocallyKeeps ==
  ASSUME IInv, NEW c \in Calls, AnswerLocally(c)
  PROVE  IInv'
<1> USE HubAssumption DEF IInv, AnswerLocally, Finish
<1>1. TypeOK'
  BY DEF TypeOK, hubVars, editorVars, Outcomes
<1>2. Accepted' /\ LiveIsRegistered' /\ LockHeld' /\ NoStrandedCall'
  BY DEF Accepted, LiveIsRegistered, LockHeld, NoStrandedCall, Pending, IsWrite,
         hubVars, TypeOK
<1>3. CallStages'
  BY DEF CallStages, Stage, IsWrite, hubVars, editorVars, TypeOK
<1> QED  BY <1>1, <1>2, <1>3

\* A routed read, which takes no lock, preserves it.
LEMMA RequestReadKeeps ==
  ASSUME IInv, NEW c \in Calls, RequestRead(c)
  PROVE  IInv'
<1> USE HubAssumption DEF IInv, RequestRead
<1>1. PICK w \in Live : win' = [win EXCEPT ![c] = w]
  BY RouteIsLive
<1>2. w \in Conns /\ sock[w] = "open"
  BY <1>1 DEF Live, TypeOK
<1>3. TypeOK'
  BY <1>1, <1>2 DEF TypeOK, hubVars, editorVars
<1>4. Accepted' /\ LiveIsRegistered'
  BY DEF Accepted, LiveIsRegistered, hubVars
<1>5. LockHeld'
  BY <1>1 DEF LockHeld, CallStages, Stage, Pending, IsWrite, TypeOK
<1>6. CallStages'
  <2> SUFFICES ASSUME NEW d \in Calls PROVE Stage(d)'
    BY DEF CallStages
  <2>1. CASE d = c
    BY <1>1, <1>2, <2>1 DEF CallStages, Stage, IsWrite, hubVars, editorVars, TypeOK
  <2>2. CASE d # c
    BY <1>1, <1>2, <2>2 DEF CallStages, Stage, IsWrite, hubVars, editorVars, TypeOK
  <2> QED  BY <2>1, <2>2
<1>7. NoStrandedCall'
  BY <1>1, <1>2 DEF NoStrandedCall, Pending, hubVars, TypeOK
<1> QED  BY <1>3, <1>4, <1>5, <1>6, <1>7

\* A routed write preserves it, whether it gets the lock at once or is parked.
LEMMA RequestWriteKeeps ==
  ASSUME IInv, NEW c \in Calls, RequestWrite(c)
  PROVE  IInv'
<1> USE HubAssumption DEF IInv
<1>1. PICK r \in Risks \ {"read"}, w \in Live :
        /\ risk' = [risk EXCEPT ![c] = r]
        /\ win' = [win EXCEPT ![c] = w]
        /\ pc' = [pc EXCEPT ![c] = IF lockq[w] = <<>> THEN "sending" ELSE "parked"]
        /\ lockq' = [lockq EXCEPT ![w] = Append(@, c)]
  BY RouteIsLive DEF RequestWrite
<1>2. /\ pc[c] = "idle"
      /\ UNCHANGED <<hubVars, fut, outcome, editorVars>>
  BY DEF RequestWrite
<1>3. w \in Conns /\ sock[w] = "open" /\ lockq[w] \in Seq(Calls)
  BY <1>1 DEF Live, TypeOK
<1>4. /\ Append(lockq[w], c) \in Seq(Calls)
      /\ Append(lockq[w], c) # <<>>
      /\ Head(Append(lockq[w], c)) = IF lockq[w] = <<>> THEN c ELSE Head(lockq[w])
  BY <1>3, AppendProperties, HeadTailAppend
<1>5. TypeOK'
  BY <1>1, <1>2, <1>3, <1>4 DEF TypeOK, hubVars, editorVars
<1>6. Accepted' /\ LiveIsRegistered'
  BY <1>2 DEF Accepted, LiveIsRegistered, hubVars
<1>7. LockHeld'
  <2> SUFFICES ASSUME NEW d \in Calls, pc'[d] \in {"sending", "flight"}, risk'[d] # "read"
               PROVE  lockq'[win'[d]] # <<>> /\ Head(lockq'[win'[d]]) = d
    BY DEF LockHeld, Pending, IsWrite
  <2>1. CASE d = c
    BY <1>1, <1>3, <1>4, <2>1 DEF TypeOK
  <2>2. CASE d # c
    BY <1>1, <1>2, <1>3, <1>4, <2>2 DEF TypeOK, LockHeld, Pending, IsWrite
  <2> QED  BY <2>1, <2>2
<1>8. CallStages'
  <2> SUFFICES ASSUME NEW d \in Calls PROVE Stage(d)'
    BY DEF CallStages
  <2>1. CASE d = c
    BY <1>1, <1>2, <1>3, <2>1 DEF CallStages, Stage, IsWrite, hubVars, editorVars, TypeOK
  <2>2. CASE d # c
    BY <1>1, <1>2, <1>3, <2>2 DEF CallStages, Stage, IsWrite, hubVars, editorVars, TypeOK
  <2> QED  BY <2>1, <2>2
<1>9. NoStrandedCall'
  BY <1>1, <1>2, <1>3 DEF NoStrandedCall, Pending, hubVars, TypeOK
<1> QED  BY <1>5, <1>6, <1>7, <1>8, <1>9

\* Answering a call and letting its lock go leaves every other write holding its own.
LEMMA FinishKeeps ==
  ASSUME IInv, NEW c \in Calls, NEW how \in Outcomes,
         pc[c] \in {"parked", "sending", "flight"},
         IsWrite(c) => lockq[win[c]] # <<>> /\ Head(lockq[win[c]]) = c,
         Finish(c, how), lockq' = Release(c),
         UNCHANGED <<hubVars, risk, win>>
  PROVE  /\ lockq' \in [Conns -> Seq(Calls)]
         /\ fut' \in [Calls -> {"wait", "frame", "lost"}]
         /\ Accepted' /\ LiveIsRegistered' /\ LockHeld' /\ NoStrandedCall'
<1> USE HubAssumption DEF IInv, Finish
<1>1. win[c] \in Conns /\ lockq[win[c]] \in Seq(Calls)
  BY DEF CallStages, Stage, TypeOK
<1>2. lockq' \in [Conns -> Seq(Calls)]
  BY <1>1, HeadTailProperties DEF Release, TypeOK
<1>3. fut' \in [Calls -> {"wait", "frame", "lost"}] /\ Accepted' /\ LiveIsRegistered'
  BY DEF TypeOK, Accepted, LiveIsRegistered, hubVars
<1>4. LockHeld'
  <2> SUFFICES ASSUME NEW d \in Calls, pc'[d] \in {"sending", "flight"}, risk[d] # "read"
               PROVE  lockq'[win[d]] # <<>> /\ Head(lockq'[win[d]]) = d
    BY DEF LockHeld, Pending, IsWrite
  <2>1. d # c /\ pc[d] \in {"sending", "flight"}
    BY DEF TypeOK
  <2>2. lockq[win[d]] # <<>> /\ Head(lockq[win[d]]) = d
    BY <2>1 DEF LockHeld, Pending, IsWrite
  <2>3. IsWrite(c) => win[d] # win[c]
    BY <2>1, <2>2
  <2> QED  BY <1>1, <2>2, <2>3 DEF Release, TypeOK
<1>5. NoStrandedCall'
  BY DEF NoStrandedCall, Pending, hubVars, TypeOK
<1> QED  BY <1>2, <1>3, <1>4, <1>5

\* A parked write whose turn comes preserves it, window still up or gone.
LEMMA AcquireKeeps ==
  ASSUME IInv, NEW c \in Calls, Acquire(c)
  PROVE  IInv'
<1> USE HubAssumption DEF IInv
<1>1. /\ pc[c] = "parked" /\ IsWrite(c) /\ win[c] \in Conns /\ editor[c] = "none"
      /\ lockq[win[c]] # <<>> /\ Head(lockq[win[c]]) = c
      /\ UNCHANGED <<hubVars, risk, win, editorVars>>
  BY DEF Acquire, Holder, CallStages, Stage
<1>2. CASE sock[win[c]] = "open"
  <2>1. pc' = [pc EXCEPT ![c] = "sending"] /\ UNCHANGED <<lockq, fut, outcome>>
    BY <1>2 DEF Acquire
  <2>2. TypeOK'
    BY <1>1, <2>1 DEF TypeOK, hubVars, editorVars
  <2>3. Accepted' /\ LiveIsRegistered'
    BY <1>1 DEF Accepted, LiveIsRegistered, hubVars
  <2>4. LockHeld' /\ NoStrandedCall'
    BY <1>1, <1>2, <2>1 DEF LockHeld, NoStrandedCall, Pending, IsWrite, hubVars, TypeOK
  <2>5. CallStages'
    BY <1>1, <1>2, <2>1 DEF CallStages, Stage, IsWrite, hubVars, editorVars, TypeOK
  <2> QED  BY <2>2, <2>3, <2>4, <2>5
<1>3. CASE sock[win[c]] # "open"
  <2>1. Finish(c, "unknown") /\ lockq' = Release(c)
    BY <1>3 DEF Acquire
  <2>2. /\ lockq' \in [Conns -> Seq(Calls)]
        /\ fut' \in [Calls -> {"wait", "frame", "lost"}]
        /\ Accepted' /\ LiveIsRegistered' /\ LockHeld' /\ NoStrandedCall'
    BY <1>1, <2>1, FinishKeeps DEF Outcomes
  <2>3. TypeOK'
    BY <1>1, <2>1, <2>2 DEF Finish, TypeOK, Outcomes, hubVars, editorVars
  <2>4. CallStages'
    BY <1>1, <2>1 DEF Finish, CallStages, Stage, IsWrite, hubVars, editorVars, TypeOK
  <2> QED  BY <2>2, <2>3, <2>4
<1> QED  BY <1>2, <1>3

\* A send that gets through preserves it.
LEMMA SendKeeps ==
  ASSUME IInv, NEW c \in Calls, Send(c)
  PROVE  IInv'
<1> USE HubAssumption DEF IInv, Send
<1>1. TypeOK'
  BY DEF TypeOK, hubVars
<1>2. Accepted' /\ LiveIsRegistered'
  BY DEF Accepted, LiveIsRegistered, hubVars
<1>3. LockHeld' /\ NoStrandedCall'
  BY DEF LockHeld, NoStrandedCall, Pending, IsWrite, hubVars, TypeOK
<1>4. CallStages'
  BY DEF CallStages, Stage, IsWrite, hubVars, TypeOK
<1> QED  BY <1>1, <1>2, <1>3, <1>4

\* The three ways a forwarded call ends.
LEMMA EndKeeps ==
  ASSUME IInv, NEW c \in Calls, SendRaises(c) \/ Resume(c) \/ Timeout(c)
  PROVE  IInv'
<1> USE HubAssumption DEF IInv
<1>1. /\ pc[c] \in {"sending", "flight"} /\ win[c] \in Conns
      /\ IsWrite(c) => lockq[win[c]] # <<>> /\ Head(lockq[win[c]]) = c
  BY DEF SendRaises, Resume, Timeout, CallStages, Stage, LockHeld, Pending
<1>2. PICK how \in {"answered", "unknown", "internal"} :
        /\ Finish(c, how)
        /\ how = "internal" => ~IsWrite(c)
        /\ how = "answered" => editor[c] = "over" /\ editor' = editor
  BY DEF SendRaises, Resume, Timeout, CallStages, Stage, editorVars
<1>3. /\ lockq' = Release(c)
      /\ UNCHANGED <<hubVars, risk, win, via, link>>
      /\ editor' = editor \/ \E e \in {"none", "wire"} : editor' = [editor EXCEPT ![c] = e]
  BY DEF SendRaises, Resume, Timeout, editorVars
<1>4. /\ lockq' \in [Conns -> Seq(Calls)]
      /\ fut' \in [Calls -> {"wait", "frame", "lost"}]
      /\ Accepted' /\ LiveIsRegistered' /\ LockHeld' /\ NoStrandedCall'
  BY <1>1, <1>2, <1>3, FinishKeeps DEF Outcomes
<1>5. TypeOK'
  <2>1. editor' \in [Calls -> {"none", "wire", "running", "replied", "over"}]
    BY <1>3 DEF TypeOK
  <2> QED  BY <1>2, <1>3, <1>4, <2>1 DEF Finish, TypeOK, Outcomes, hubVars
<1>6. CallStages'
  <2> SUFFICES ASSUME NEW d \in Calls PROVE Stage(d)'
    BY DEF CallStages
  <2>1. CASE d = c
    BY <1>1, <1>2, <1>3, <2>1 DEF Finish, CallStages, Stage, IsWrite, hubVars, TypeOK
  <2>2. CASE d # c
    BY <1>2, <1>3, <2>2 DEF Finish, CallStages, Stage, IsWrite, hubVars, TypeOK
  <2> QED  BY <2>1, <2>2
<1> QED  BY <1>4, <1>5, <1>6

\* An answer read from a socket (_on_frame) preserves it, matched to a call or not.
LEMMA OnResponseKeeps ==
  ASSUME IInv, NEW c \in Calls, OnResponse(c)
  PROVE  IInv'
<1> USE HubAssumption DEF IInv, OnResponse
<1>1. TypeOK'
  <2>1. project' \in [Conns -> Claims]
    BY DEF TypeOK, Merged
  <2>2. fut' \in [Calls -> {"wait", "frame", "lost"}]
    BY DEF TypeOK
  <2>3. editor' \in [Calls -> {"none", "wire", "running", "replied", "over"}]
        /\ via' \in [Calls -> Conns \cup {None}]
    BY DEF TypeOK
  <2> QED  BY <2>1, <2>2, <2>3 DEF TypeOK
<1>2. Accepted' /\ LiveIsRegistered' /\ LockHeld'
  BY DEF Accepted, LiveIsRegistered, LockHeld, Pending, IsWrite
<1>3. NoStrandedCall'
  BY DEF NoStrandedCall, Pending, TypeOK
<1>4. CallStages'
  <2> SUFFICES ASSUME NEW d \in Calls PROVE Stage(d)'
    BY DEF CallStages
  <2>1. CASE d = c
    BY <2>1 DEF CallStages, Stage, IsWrite, Resolves, Pending, TypeOK
  <2>2. CASE d # c
    BY <2>2 DEF CallStages, Stage, IsWrite, TypeOK
  <2> QED  BY <2>1, <2>2
<1> QED  BY <1>1, <1>2, <1>3, <1>4

------------------------------------------------------------------------------

\* Every step of the hub preserves the invariant.
LEMMA NextKeepsIInv == IInv /\ [Next]_vars => IInv'
<1> SUFFICES ASSUME IInv, [Next]_vars PROVE IInv'
  OBVIOUS
<1>1. CASE UNCHANGED vars
  BY <1>1 DEF vars, hubVars, callVars, editorVars, IInv, TypeOK, Accepted, LiveIsRegistered,
              LockHeld, CallStages, Stage, NoStrandedCall, Pending, IsWrite
<1>2. ASSUME NEW c \in Calls,
             \/ AnswerLocally(c) \/ RequestRead(c) \/ RequestWrite(c) \/ CallStep(c)
             \/ OnResponse(c) \/ Receive(c) \/ Reply(c)
      PROVE  IInv'
  BY <1>2, AnswerLocallyKeeps, RequestReadKeeps, RequestWriteKeeps, AcquireKeeps, SendKeeps,
     EndKeeps, OnResponseKeeps, EditorKeeps DEF CallStep
<1>3. ASSUME NEW w \in Conns, SocketDies(w) \/ HandlerEnds(w)
      PROVE  IInv'
  BY <1>3, SocketDiesKeeps, HandlerEndsKeeps
<1>4. ASSUME NEW p \in Pages, Register(p) \/ DropLink(p) \/ PageCloses(p)
      PROVE  IInv'
  BY <1>4, RegisterKeeps, PageKeeps
<1> QED  BY <1>1, <1>2, <1>3, <1>4 DEF Next

\* The invariant holds in every reachable state of the hub.
LEMMA IInvHolds == Spec => []IInv
  BY InitIInv, NextKeepsIInv, PTL DEF Spec

\* Every state of the hub is well typed (all the daemon's tables and queues).
THEOREM TypeCorrect == Spec => []TypeOK
<1>1. IInv => TypeOK  BY DEF IInv
<1> QED  BY <1>1, IInvHolds, PTL

\* The write lock of handle_request: however calls time out, fail, are parked or lose
\* their window, one window never has two writes waiting for its answer.
THEOREM WritesSerialise == Spec => []OneWritePerWindow
<1>1. IInv => OneWritePerWindow
  BY DEF IInv, LockHeld, OneWritePerWindow, Pending
<1> QED  BY <1>1, IInvHolds, PTL

\* The finally of a window's handler strands no call: none keeps waiting on a future
\* that nobody will complete.
THEOREM NoCallStranded == Spec => []NoStrandedCall
<1>1. IInv => NoStrandedCall  BY DEF IInv
<1> QED  BY <1>1, IInvHolds, PTL

\* Registration, takeover and cleanup in any order keep exactly the windows whose
\* socket is up reachable.
THEOREM LiveWindowsReachable == Spec => []LiveIsRegistered
<1>1. IInv => LiveIsRegistered  BY DEF IInv
<1> QED  BY <1>1, IInvHolds, PTL

\* A write whose frame may have left the daemon is never reported as not done.
THEOREM WritesNeverReportedSafe == Spec => []WriteNeverReportedSafe
<1>1. IInv => WriteNeverReportedSafe
  BY DEF IInv, CallStages, Stage, WriteNeverReportedSafe
<1> QED  BY <1>1, IInvHolds, PTL

------------------------------------------------------------------------------
(* The hub implements CallPromise. *)

Sent == {c \in Calls : editor[c] \in {"running", "replied", "over"}}
StatusOf == [c \in Calls |-> Status(c)]

\* The hub starts in an initial state of the promise.
LEMMA InitPromise == Init => Promise!Init
  BY DEF Init, Promise!Init, Status

\* A step that leaves every call's standing and the editor's runs alone is a stutter.
LEMMA Stutters ==
  ASSUME \A d \in Calls : Status(d)' = Status(d),
         \A d \in Calls : editor'[d] \in {"running", "replied", "over"}
                          <=> editor[d] \in {"running", "replied", "over"}
  PROVE  UNCHANGED Promise!vars
<1>1. StatusOf' = StatusOf  BY DEF StatusOf
<1>2. Sent' = Sent  BY DEF Sent
<1> QED  BY <1>1, <1>2 DEF StatusOf, Sent, Promise!vars

\* A step that moves one call from one standing to another, and runs nothing.
LEMMA Moves ==
  ASSUME NEW c \in Calls, NEW new,
         Status(c)' = new,
         \A d \in Calls \ {c} : Status(d)' = Status(d),
         \A d \in Calls : editor'[d] \in {"running", "replied", "over"}
                          <=> editor[d] \in {"running", "replied", "over"}
  PROVE  StatusOf' = [StatusOf EXCEPT ![c] = new] /\ Sent' = Sent
  BY DEF StatusOf, Sent

\* Every step of the hub is a step of the promise, or a stutter of it.
LEMMA StepPromise ==
  ASSUME IInv, [Next]_vars
  PROVE  [Promise!Next]_(Promise!vars)
<1> USE DEF IInv
<1>1. ASSUME NEW c \in Calls, AnswerLocally(c)
      PROVE  Promise!TurnDown(c)
  <2>1. Status(c) = "unsent" /\ Status(c)' = "turnedDown" /\ c \notin Sent
    BY <1>1 DEF AnswerLocally, Finish, Status, Sent, CallStages, Stage, TypeOK
  <2>2. \A d \in Calls \ {c} : Status(d)' = Status(d)
    BY <1>1 DEF AnswerLocally, Finish, Status, TypeOK
  <2>3. StatusOf' = [StatusOf EXCEPT ![c] = "turnedDown"] /\ Sent' = Sent
    BY <1>1, <2>1, <2>2, Moves DEF AnswerLocally, editorVars
  <2> QED  BY <2>1, <2>3 DEF Promise!TurnDown, StatusOf, Sent
<1>2. ASSUME NEW c \in Calls, RequestRead(c) \/ RequestWrite(c)
      PROVE  Promise!Submit(c)
  <2>1. pc[c] = "idle" /\ \E s \in {"sending", "parked"} : pc' = [pc EXCEPT ![c] = s]
    BY <1>2 DEF RequestRead, RequestWrite
  <2>2. UNCHANGED <<outcome, editor>>
    BY <1>2 DEF RequestRead, RequestWrite, editorVars
  <2>3. Status(c) = "unsent" /\ Status(c)' = "open"
    BY <2>1 DEF Status, TypeOK
  <2>4. \A d \in Calls \ {c} : Status(d)' = Status(d)
    BY <2>1, <2>2 DEF Status, TypeOK
  <2>5. StatusOf' = [StatusOf EXCEPT ![c] = "open"] /\ Sent' = Sent
    BY <2>2, <2>3, <2>4, Moves
  <2> QED  BY <2>3, <2>5 DEF Promise!Submit, StatusOf, Sent
<1>3. ASSUME NEW c \in Calls, pc[c] \in {"parked", "sending", "flight"},
             NEW how \in {"answered", "unknown", "internal"}, Finish(c, how),
             how = "answered" => editor[c] = "over",
             \A d \in Calls : editor'[d] \in {"running", "replied", "over"}
                              <=> editor[d] \in {"running", "replied", "over"}
      PROVE  Promise!Answer(c) \/ Promise!GiveUp(c)
  <2> DEFINE new == IF how = "answered" THEN "answered" ELSE "unknown"
  <2>1. Status(c) = "open" /\ Status(c)' = new
    BY <1>3 DEF Finish, Status, TypeOK
  <2>2. \A d \in Calls \ {c} : Status(d)' = Status(d)
    BY <1>3 DEF Finish, Status, TypeOK
  <2>3. StatusOf' = [StatusOf EXCEPT ![c] = new] /\ Sent' = Sent
    BY <1>3, <2>1, <2>2, Moves
  <2>4. CASE how = "answered"
    BY <1>3, <2>1, <2>3, <2>4 DEF Promise!Answer, StatusOf, Sent
  <2>5. CASE how # "answered"
    BY <2>1, <2>3, <2>5 DEF Promise!GiveUp, StatusOf, Sent
  <2> QED  BY <2>4, <2>5
<1>4. ASSUME NEW c \in Calls, SendRaises(c) \/ Resume(c) \/ Timeout(c)
      PROVE  Promise!Answer(c) \/ Promise!GiveUp(c)
  <2>1. PICK how \in {"answered", "unknown", "internal"} :
          Finish(c, how) /\ (how = "answered" => editor[c] = "over")
    BY <1>4 DEF SendRaises, Resume, Timeout, CallStages, Stage
  <2>2. \A d \in Calls : editor'[d] \in {"running", "replied", "over"}
                         <=> editor[d] \in {"running", "replied", "over"}
    BY <1>4 DEF SendRaises, Resume, Timeout, editorVars, CallStages, Stage, TypeOK
  <2> QED  BY <1>3, <1>4, <2>1, <2>2 DEF SendRaises, Resume, Timeout
<1>5. ASSUME NEW c \in Calls, Acquire(c)
      PROVE  UNCHANGED Promise!vars \/ Promise!Answer(c) \/ Promise!GiveUp(c)
  <2>1. CASE sock[win[c]] = "open"
    BY <1>5, <2>1, Stutters DEF Acquire, Status, editorVars, TypeOK
  <2>2. CASE sock[win[c]] # "open"
    BY <1>3, <1>5, <2>2 DEF Acquire, editorVars
  <2> QED  BY <2>1, <2>2
<1>6. ASSUME NEW c \in Calls, Send(c) \/ OnResponse(c) \/ Reply(c)
      PROVE  UNCHANGED Promise!vars
  <2>1. \A d \in Calls : editor'[d] \in {"running", "replied", "over"}
                         <=> editor[d] \in {"running", "replied", "over"}
    BY <1>6 DEF Send, OnResponse, Reply, CallStages, Stage, TypeOK
  <2>2. \A d \in Calls : Status(d)' = Status(d)
    BY <1>6 DEF Send, OnResponse, Reply, callVars, Status, TypeOK
  <2> QED  BY <2>1, <2>2, Stutters
<1>7. ASSUME NEW c \in Calls, Receive(c)
      PROVE  Promise!Run(c)
  <2>1. Status(c) \in {"open", "unknown"} /\ c \notin Sent
    BY <1>7 DEF Receive, Status, Sent, CallStages, Stage, TypeOK
  <2>2. StatusOf' = StatusOf
    BY <1>7 DEF Receive, callVars, StatusOf, Status
  <2>3. Sent' = Sent \cup {c}
    BY <1>7 DEF Receive, Sent, TypeOK
  <2> QED  BY <2>1, <2>2, <2>3 DEF Promise!Run, StatusOf, Sent
<1>8. ASSUME UNCHANGED <<pc, outcome, editor>>
      PROVE  UNCHANGED Promise!vars
  BY <1>8, Stutters DEF Status
<1>9. ASSUME NEW p \in Pages, PageCloses(p)
      PROVE  UNCHANGED Promise!vars
  BY <1>9, Stutters DEF PageCloses, callVars, Status
<1>10. ASSUME NEW w \in Conns, SocketDies(w) \/ HandlerEnds(w)
       PROVE  UNCHANGED Promise!vars
  BY <1>8, <1>10 DEF SocketDies, HandlerEnds, callVars, editorVars
<1>11. ASSUME NEW p \in Pages, Register(p) \/ DropLink(p)
       PROVE  UNCHANGED Promise!vars
  BY <1>8, <1>11 DEF Register, DropLink, callVars, editorVars
<1>12. CASE UNCHANGED vars
  BY <1>8, <1>12 DEF vars, callVars, editorVars
<1> QED
  BY <1>1, <1>2, <1>4, <1>5, <1>6, <1>7, <1>9, <1>10, <1>11, <1>12 DEF Next, CallStep, Promise!Next

\* The hub keeps its promise to the holder of a call: at most one run in the editor,
\* none for a call that was turned down, and an answer only for a call that ran.
THEOREM HubKeepsPromise == Spec => KeepsPromise
<1>1. IInv /\ [Next]_vars => [Promise!Next]_(Promise!vars)
  BY StepPromise
<1> QED  BY InitPromise, IInvHolds, <1>1, PTL DEF Spec, KeepsPromise, Promise!Spec

------------------------------------------------------------------------------
(* The queue of the write lock. *)

\* The calls that wait for a window's write slot or hold it, each once, in lockq;
\* nobody is parked anywhere else.
Queued(c) == \E i \in DOMAIN lockq[win[c]] : lockq[win[c]][i] = c

Entry(w, i) ==
  /\ win[lockq[w][i]] = w
  /\ IsWrite(lockq[w][i])
  /\ pc[lockq[w][i]] \in {"parked", "sending", "flight"}

Queues ==
  /\ \A w \in Conns : \A i \in DOMAIN lockq[w] : Entry(w, i)
  /\ \A w \in Conns : \A i, j \in DOMAIN lockq[w] : lockq[w][i] = lockq[w][j] => i = j
  /\ \A c \in Calls : pc[c] = "parked" => Queued(c)

\* Only calls stand in a queue.
LEMMA EntriesAreCalls ==
  ASSUME TypeOK
  PROVE  \A v \in Conns : \A i \in DOMAIN lockq[v] : lockq[v][i] \in Calls
<1> SUFFICES ASSUME NEW v \in Conns, NEW i \in DOMAIN lockq[v]
             PROVE  lockq[v][i] \in Calls
  OBVIOUS
<1>1. lockq[v] \in Seq(Calls)
  BY DEF TypeOK
<1>2. lockq[v] \in [1 .. Len(lockq[v]) -> Calls]
  BY <1>1, LenProperties
<1> QED  BY <1>2

\* A write that goes to the end of its window's queue: everybody keeps its place.
LEMMA JoinsQueue ==
  ASSUME NEW q \in Seq(Calls), NEW c \in Calls
  PROVE  /\ DOMAIN Append(q, c) = 1 .. Len(q) + 1
         /\ DOMAIN q = 1 .. Len(q)
         /\ Len(q) \in Nat
         /\ \A i \in DOMAIN q : Append(q, c)[i] = q[i]
         /\ Append(q, c)[Len(q) + 1] = c
         /\ q = <<>> <=> Len(q) = 0
<1>1. Len(q) \in Nat /\ DOMAIN q = 1 .. Len(q)
  BY LenProperties
<1>2. q = <<>> <=> Len(q) = 0
  BY EmptySeq
<1> QED  BY <1>1, <1>2, AppendProperties

\* The head leaves: everybody behind it comes one place nearer.
LEMMA LeavesQueue ==
  ASSUME NEW q \in Seq(Calls), q # <<>>
  PROVE  /\ Len(q) \in Nat \ {0}
         /\ DOMAIN q = 1 .. Len(q)
         /\ DOMAIN Tail(q) = 1 .. Len(q) - 1
         /\ \A i \in DOMAIN Tail(q) : i + 1 \in DOMAIN q /\ Tail(q)[i] = q[i + 1]
         /\ Head(q) = q[1]
<1>1. Len(q) \in Nat \ {0} /\ DOMAIN q = 1 .. Len(q)
  BY LenProperties, EmptySeq
<1>2. Tail(q) \in Seq(Calls) /\ Len(Tail(q)) = Len(q) - 1 /\ Head(q) = q[1]
      /\ \A i \in 1 .. Len(Tail(q)) : Tail(q)[i] = q[i + 1]
  BY HeadTailProperties
<1>3. DOMAIN Tail(q) = 1 .. Len(q) - 1
  BY <1>2, LenProperties
<1> QED  BY <1>1, <1>2, <1>3

\* A write that asks for its window's lock keeps the queues in order: it comes last,
\* and it stands in no queue yet.
LEMMA RequestWriteKeepsQueues ==
  ASSUME IInv, Queues, NEW c \in Calls, RequestWrite(c)
  PROVE  Queues'
<1> USE DEF IInv
<1>1. PICK r \in Risks \ {"read"}, w \in Live :
        /\ risk' = [risk EXCEPT ![c] = r]
        /\ win' = [win EXCEPT ![c] = w]
        /\ pc' = [pc EXCEPT ![c] = IF lockq[w] = <<>> THEN "sending" ELSE "parked"]
        /\ lockq' = [lockq EXCEPT ![w] = Append(@, c)]
  BY RouteIsLive DEF RequestWrite
<1>2. pc[c] = "idle" /\ w \in Conns /\ lockq[w] \in Seq(Calls)
  BY <1>1 DEF RequestWrite, Live, TypeOK
<1> DEFINE n == Len(lockq[w]) + 1
<1>3. /\ lockq'[w] = Append(lockq[w], c)
      /\ \A v \in Conns \ {w} : lockq'[v] = lockq[v]
  BY <1>1, <1>2 DEF TypeOK
<1>4. /\ DOMAIN lockq'[w] = DOMAIN lockq[w] \cup {n} /\ n \notin DOMAIN lockq[w]
      /\ \A i \in DOMAIN lockq[w] : lockq'[w][i] = lockq[w][i]
      /\ lockq'[w][n] = c
  BY <1>2, <1>3, JoinsQueue
<1>5. \A v \in Conns : \A i \in DOMAIN lockq[v] : lockq[v][i] # c /\ lockq[v][i] \in Calls
  BY <1>2, EntriesAreCalls DEF Queues, Entry
<1>6. ASSUME NEW v \in Conns, NEW i \in DOMAIN lockq'[v]
      PROVE  Entry(v, i)'
  <2>1. CASE v = w /\ i = n
    BY <1>1, <1>2, <1>4, <2>1 DEF Entry, IsWrite, TypeOK
  <2>2. CASE ~(v = w /\ i = n)
    <3>1. i \in DOMAIN lockq[v] /\ lockq'[v][i] = lockq[v][i]
      BY <1>3, <1>4, <1>6, <2>2
    <3> QED  BY <1>1, <1>5, <3>1 DEF Entry, IsWrite, Queues, TypeOK
  <2> QED  BY <2>1, <2>2
<1>7. ASSUME NEW v \in Conns, NEW i \in DOMAIN lockq'[v], NEW j \in DOMAIN lockq'[v],
             lockq'[v][i] = lockq'[v][j]
      PROVE  i = j
  <2>1. CASE v # w
    BY <1>3, <1>7, <2>1 DEF Queues
  <2>2. CASE v = w /\ i # n /\ j # n
    BY <1>2, <1>4, <1>7, <2>2 DEF Queues
  <2>3. CASE v = w /\ (i = n \/ j = n)
    BY <1>2, <1>4, <1>5, <1>7, <2>3
  <2> QED  BY <2>1, <2>2, <2>3
<1>8. ASSUME NEW d \in Calls, pc'[d] = "parked"
      PROVE  Queued(d)'
  <2>1. CASE d = c
    BY <1>1, <1>2, <1>4, <2>1 DEF Queued, TypeOK
  <2>2. CASE d # c
    <3>1. pc[d] = "parked" /\ win'[d] = win[d] /\ win[d] \in Conns
      BY <1>1, <1>8, <2>2 DEF TypeOK, CallStages, Stage
    <3>2. PICK i \in DOMAIN lockq[win[d]] : lockq[win[d]][i] = d
      BY <3>1 DEF Queues, Queued
    <3>3. i \in DOMAIN lockq'[win[d]] /\ lockq'[win[d]][i] = d
      BY <1>3, <1>4, <3>1, <3>2
    <3> QED  BY <3>1, <3>3 DEF Queued
  <2> QED  BY <2>1, <2>2
<1> QED  BY <1>6, <1>7, <1>8 DEF Queues

\* A call that is answered gives its place up, and only the head of a queue ever is.
LEMMA FinishKeepsQueues ==
  ASSUME IInv, Queues, NEW c \in Calls, NEW how,
         pc[c] \in {"parked", "sending", "flight"},
         IsWrite(c) => lockq[win[c]] # <<>> /\ Head(lockq[win[c]]) = c,
         Finish(c, how), lockq' = Release(c), UNCHANGED <<risk, win>>
  PROVE  Queues'
<1> USE DEF IInv
<1>1. pc' = [pc EXCEPT ![c] = "done"]
  BY DEF Finish
<1>2. win[c] \in Conns /\ lockq[win[c]] \in Seq(Calls)
  BY DEF CallStages, Stage, TypeOK
<1>3. CASE ~IsWrite(c)
  <2>1. lockq' = lockq
    BY <1>3 DEF Release
  <2>2. \A v \in Conns : \A i \in DOMAIN lockq[v] : lockq[v][i] # c /\ lockq[v][i] \in Calls
    BY <1>3, EntriesAreCalls DEF Queues, Entry
  <2>3. \A v \in Conns : \A i \in DOMAIN lockq[v] : Entry(v, i)'
    BY <1>1, <2>1, <2>2 DEF Queues, Entry, IsWrite, TypeOK
  <2>4. ASSUME NEW d \in Calls, pc'[d] = "parked"
        PROVE  Queued(d)'
    <3>1. pc[d] = "parked"
      BY <1>1, <2>4 DEF TypeOK
    <3>2. Queued(d)
      BY <3>1 DEF Queues
    <3> QED  BY <2>1, <3>2 DEF Queued
  <2> QED  BY <2>1, <2>3, <2>4 DEF Queues
<1>4. CASE IsWrite(c)
  <2> DEFINE w == win[c]
  <2>1. /\ lockq'[w] = Tail(lockq[w])
        /\ \A v \in Conns \ {w} : lockq'[v] = lockq[v]
    BY <1>2, <1>4 DEF Release, TypeOK
  <2>2. /\ Len(lockq[w]) \in Nat \ {0}
        /\ DOMAIN lockq[w] = 1 .. Len(lockq[w])
        /\ DOMAIN lockq'[w] = 1 .. Len(lockq[w]) - 1
        /\ \A i \in DOMAIN lockq'[w] : i + 1 \in DOMAIN lockq[w] /\ lockq'[w][i] = lockq[w][i + 1]
        /\ lockq[w][1] = c
    BY <1>2, <1>4, <2>1, LeavesQueue
  <2>3. ASSUME NEW v \in Conns, NEW i \in DOMAIN lockq'[v]
        PROVE  /\ v # w => i \in DOMAIN lockq[v] /\ lockq'[v][i] = lockq[v][i]
               /\ v = w => i + 1 \in DOMAIN lockq[w] /\ lockq'[v][i] = lockq[w][i + 1]
               /\ lockq'[v][i] # c /\ lockq'[v][i] \in Calls
    <3>1. CASE v # w
      BY <2>1, <2>3, <3>1 DEF Queues, Entry, TypeOK
    <3>2. CASE v = w
      <4>1. i \in 1 .. Len(lockq[w]) - 1 /\ i + 1 \in DOMAIN lockq[w] /\ 1 \in DOMAIN lockq[w]
            /\ lockq'[w][i] = lockq[w][i + 1]
        BY <2>2, <2>3, <3>2
      <4>2. lockq[w][i + 1] # c
        BY <1>2, <2>2, <4>1 DEF Queues
      <4>3. lockq[w][i + 1] \in Calls
        BY <1>2, <4>1 DEF TypeOK
      <4> QED  BY <3>2, <4>1, <4>2, <4>3
    <3> QED  BY <3>1, <3>2
  <2>4. ASSUME NEW v \in Conns, NEW i \in DOMAIN lockq'[v]
        PROVE  Entry(v, i)'
    <3>1. CASE v # w
      <4>1. i \in DOMAIN lockq[v] /\ lockq'[v][i] = lockq[v][i] /\ lockq[v][i] # c
        BY <2>3, <2>4, <3>1
      <4>2. Entry(v, i) /\ lockq[v][i] \in Calls
        BY <4>1, EntriesAreCalls DEF Queues
      <4> QED  BY <1>1, <4>1, <4>2 DEF Entry, IsWrite, TypeOK
    <3>2. CASE v = w
      <4>1. /\ i + 1 \in DOMAIN lockq[w] /\ lockq'[v][i] = lockq[w][i + 1]
            /\ lockq[w][i + 1] # c
        BY <2>3, <2>4, <3>2
      <4>2. Entry(w, i + 1) /\ lockq[w][i + 1] \in Calls
        BY <1>2, <4>1, EntriesAreCalls DEF Queues
      <4> QED  BY <1>1, <3>2, <4>1, <4>2 DEF Entry, IsWrite, TypeOK
    <3> QED  BY <3>1, <3>2
  <2>5. ASSUME NEW v \in Conns, NEW i \in DOMAIN lockq'[v], NEW j \in DOMAIN lockq'[v],
               lockq'[v][i] = lockq'[v][j]
        PROVE  i = j
    <3>1. CASE v # w
      BY <2>3, <2>5, <3>1 DEF Queues
    <3>2. CASE v = w
      <4>1. i + 1 = j + 1
        BY <1>2, <2>3, <2>5, <3>2 DEF Queues
      <4> QED  BY <2>2, <3>2, <4>1
    <3> QED  BY <3>1, <3>2
  <2>6. ASSUME NEW d \in Calls, pc'[d] = "parked"
        PROVE  Queued(d)'
    <3>1. pc[d] = "parked" /\ d # c /\ win'[d] = win[d] /\ win[d] \in Conns
      BY <1>1, <2>6 DEF TypeOK, CallStages, Stage
    <3>2. PICK i \in DOMAIN lockq[win[d]] : lockq[win[d]][i] = d
      BY <3>1 DEF Queues, Queued
    <3>3. CASE win[d] # w
      BY <2>1, <3>1, <3>2, <3>3 DEF Queued
    <3>4. CASE win[d] = w
      <4>1. i # 1 /\ i \in 1 .. Len(lockq[w])
        BY <2>2, <3>1, <3>2, <3>4
      <4>2. i - 1 \in DOMAIN lockq'[w] /\ (i - 1) + 1 = i
        BY <2>2, <4>1
      <4>3. lockq'[w][i - 1] = d
        BY <2>2, <3>2, <3>4, <4>2
      <4> QED  BY <3>1, <3>4, <4>2, <4>3 DEF Queued
    <3> QED  BY <3>3, <3>4
  <2> QED  BY <2>4, <2>5, <2>6 DEF Queues
<1> QED  BY <1>3, <1>4

\* How a forwarded call ends, seen from its queue.
LEMMA EndsAtHead ==
  ASSUME IInv, NEW c \in Calls,
         \/ SendRaises(c) \/ Resume(c) \/ Timeout(c)
         \/ Acquire(c) /\ sock[win[c]] # "open"
  PROVE  /\ pc[c] \in {"parked", "sending", "flight"}
         /\ IsWrite(c) => lockq[win[c]] # <<>> /\ Head(lockq[win[c]]) = c
         /\ \E how : Finish(c, how)
         /\ lockq' = Release(c)
         /\ UNCHANGED <<risk, win>>
<1> USE DEF IInv
<1>1. CASE SendRaises(c)
  BY <1>1 DEF SendRaises, LockHeld, Pending
<1>2. CASE Resume(c)
  BY <1>2 DEF Resume, LockHeld, Pending
<1>3. CASE Timeout(c)
  BY <1>3 DEF Timeout, LockHeld, Pending
<1>4. CASE Acquire(c) /\ sock[win[c]] # "open"
  BY <1>4 DEF Acquire, Holder
<1> QED  BY <1>1, <1>2, <1>3, <1>4

\* Every step keeps the queues in order.
LEMMA NextKeepsQueues ==
  ASSUME IInv, Queues, [Next]_vars
  PROVE  Queues'
<1> USE DEF IInv
<1>1. CASE UNCHANGED <<lockq, pc, risk, win>>
  BY <1>1 DEF Queues, Queued, Entry, IsWrite
<1>2. ASSUME NEW c \in Calls, pc[c] = "idle", UNCHANGED <<lockq, risk>>,
             \E s \in {"sending", "done"} : pc' = [pc EXCEPT ![c] = s],
             \E w \in Conns \cup {None} : win' = [win EXCEPT ![c] = w]
      PROVE  Queues'
  <2>1. \A v \in Conns : \A i \in DOMAIN lockq[v] : lockq[v][i] # c /\ lockq[v][i] \in Calls
    BY <1>2, EntriesAreCalls DEF Queues, Entry
  <2>2. \A v \in Conns : \A i \in DOMAIN lockq[v] : Entry(v, i)'
    BY <1>2, <2>1 DEF Queues, Entry, IsWrite, TypeOK
  <2>3. \A d \in Calls : pc'[d] = "parked" => pc[d] = "parked" /\ win'[d] = win[d]
    BY <1>2 DEF TypeOK
  <2> QED  BY <1>2, <2>2, <2>3 DEF Queues, Queued
<1>3. ASSUME NEW c \in Calls, AnswerLocally(c)
      PROVE  Queues'
  <2>1. win' = [win EXCEPT ![c] = win[c]] /\ win[c] \in Conns \cup {None}
    BY <1>3 DEF AnswerLocally, TypeOK
  <2> QED  BY <1>2, <1>3, <2>1 DEF AnswerLocally, Finish
<1>4. ASSUME NEW c \in Calls, RequestRead(c)
      PROVE  Queues'
  <2>1. \E w \in Conns \cup {None} : win' = [win EXCEPT ![c] = w]
    BY <1>4, RouteIsLive DEF RequestRead, Live, TypeOK
  <2> QED  BY <1>2, <1>4, <2>1 DEF RequestRead
<1>5. ASSUME NEW c \in Calls, pc[c] \in {"parked", "sending"}, UNCHANGED <<lockq, risk, win>>,
             \E s \in {"sending", "flight"} : pc' = [pc EXCEPT ![c] = s]
      PROVE  Queues'
  <2>1. \A v \in Conns : \A i \in DOMAIN lockq[v] : Entry(v, i)' /\ lockq'[v] = lockq[v]
    BY <1>5 DEF Queues, Entry, IsWrite, TypeOK
  <2>2. \A d \in Calls : pc'[d] = "parked" => pc[d] = "parked"
    BY <1>5 DEF TypeOK
  <2> QED  BY <1>5, <2>1, <2>2 DEF Queues, Queued
<1>6. ASSUME NEW c \in Calls, CallStep(c)
      PROVE  Queues'
  <2>1. CASE \/ Send(c)
             \/ Acquire(c) /\ sock[win[c]] = "open"
    BY <1>5, <2>1 DEF Send, Acquire
  <2>2. CASE \/ SendRaises(c) \/ Resume(c) \/ Timeout(c)
             \/ Acquire(c) /\ sock[win[c]] # "open"
    <3>1. PICK how : Finish(c, how)
      BY <2>2, EndsAtHead
    <3> QED  BY <2>2, <3>1, EndsAtHead, FinishKeepsQueues
  <2>3. CASE Acquire(c)
    BY <2>1, <2>2, <2>3
  <2> QED  BY <1>6, <2>1, <2>2, <2>3 DEF CallStep
<1>7. ASSUME NEW c \in Calls, OnResponse(c) \/ Receive(c) \/ Reply(c)
      PROVE  Queues'
  BY <1>1, <1>7 DEF OnResponse, Receive, Reply, callVars
<1>8. ASSUME NEW w \in Conns, SocketDies(w) \/ HandlerEnds(w)
      PROVE  Queues'
  BY <1>1, <1>8 DEF SocketDies, HandlerEnds, callVars
<1>9. ASSUME NEW p \in Pages, Register(p) \/ DropLink(p) \/ PageCloses(p)
      PROVE  Queues'
  BY <1>1, <1>9 DEF Register, DropLink, PageCloses, callVars
<1>10. CASE UNCHANGED vars
  BY <1>1, <1>10 DEF vars, callVars
<1> QED
  BY <1>3, <1>4, <1>6, <1>7, <1>8, <1>9, <1>10, RequestWriteKeepsQueues DEF Next

\* No queue holds a call twice or a call of another window, and whoever is parked
\* stands in the queue of its window.
LEMMA QueuesHold == Spec => []Queues
<1>1. Init => Queues
  BY DEF Init, Queues, Queued
<1>2. IInv /\ Queues /\ [Next]_vars => Queues'
  BY NextKeepsQueues
<1> QED  BY <1>1, <1>2, IInvHolds, PTL DEF Spec


\* Nobody is parked behind a call that cannot move by itself: at the head of its window's
\* queue is a call of that window that has not been answered, and whose next step (the
\* wake-up, the send or the timeout) waits for no window, editor or other call.
NobodyWaitsInVain ==
  \A c \in Calls : pc[c] = "parked" =>
    \E h \in Holder(win[c]) :
      /\ win[h] = win[c] /\ IsWrite(h)
      /\ pc[h] \in {"parked", "sending", "flight"}

\* The lock of a window is never left with a call that was answered, so that a silent
\* window holds nobody up for longer than its holder's timeout: the safety half of
\* EveryRequestIsAnswered.
THEOREM ParkedBehindSomebodyAlive == Spec => []NobodyWaitsInVain
<1>1. ASSUME IInv, Queues PROVE NobodyWaitsInVain
  <2> SUFFICES ASSUME NEW c \in Calls, pc[c] = "parked"
               PROVE  \E h \in Holder(win[c]) :
                        /\ win[h] = win[c] /\ IsWrite(h)
                        /\ pc[h] \in {"parked", "sending", "flight"}
    BY DEF NobodyWaitsInVain
  <2>1. win[c] \in Conns /\ lockq[win[c]] \in Seq(Calls)
    BY <1>1 DEF IInv, CallStages, Stage, TypeOK
  <2>2. PICK i \in DOMAIN lockq[win[c]] : lockq[win[c]][i] = c
    BY <1>1 DEF Queues, Queued
  <2>3. lockq[win[c]] # <<>>
    BY <2>1, <2>2, LenProperties, EmptySeq
  <2>4. 1 \in DOMAIN lockq[win[c]] /\ Head(lockq[win[c]]) = lockq[win[c]][1]
    BY <2>1, <2>3, LeavesQueue
  <2>5. Head(lockq[win[c]]) \in Holder(win[c])
    BY <2>1, <2>3, HeadTailProperties DEF Holder
  <2>6. Entry(win[c], 1)
    BY <1>1, <2>1, <2>4 DEF Queues
  <2> QED  BY <2>4, <2>5, <2>6 DEF Entry
<1> QED  BY <1>1, IInvHolds, QueuesHold, PTL

\* While a write stays parked its place in the queue changes only by the head being
\* answered, and then it comes exactly one place nearer.
TurnsComeUp ==
  [][\A c \in Calls :
       pc[c] = "parked" /\ pc'[c] = "parked" =>
         \A i \in DOMAIN lockq[win[c]] :
           lockq[win[c]][i] = c =>
             \/ i \in DOMAIN lockq'[win[c]] /\ lockq'[win[c]][i] = c
             \/ /\ i > 1
                /\ lockq'[win[c]][i - 1] = c
                /\ pc'[lockq[win[c]][1]] = "done"]_vars

\* What one step does to the place of a parked write.
LEMMA PlaceOfParked ==
  ASSUME IInv, Queues, [Next]_vars, NEW c \in Calls,
         pc[c] = "parked", pc'[c] = "parked",
         NEW i \in DOMAIN lockq[win[c]], lockq[win[c]][i] = c
  PROVE  \/ i \in DOMAIN lockq'[win[c]] /\ lockq'[win[c]][i] = c
         \/ /\ i > 1
            /\ lockq'[win[c]][i - 1] = c
            /\ pc'[lockq[win[c]][1]] = "done"
<1> USE DEF IInv
<1> DEFINE w == win[c]
<1>1. w \in Conns /\ lockq[w] \in Seq(Calls)
  BY DEF CallStages, Stage, TypeOK
<1>2. CASE UNCHANGED lockq
  BY <1>2
<1>3. ASSUME NEW d \in Calls, RequestWrite(d)
      PROVE  i \in DOMAIN lockq'[w] /\ lockq'[w][i] = c
  <2>1. \E v \in Conns : lockq' = [lockq EXCEPT ![v] = Append(@, d)]
    BY <1>3, RouteIsLive DEF RequestWrite, Live, TypeOK
  <2>2. \/ lockq'[w] = lockq[w]
        \/ lockq'[w] = Append(lockq[w], d)
    BY <1>1, <2>1 DEF TypeOK
  <2> QED  BY <1>1, <2>2, JoinsQueue
<1>4. ASSUME NEW d \in Calls, lockq' = Release(d), pc[d] \in {"parked", "sending", "flight"},
             IsWrite(d) => lockq[win[d]] # <<>> /\ Head(lockq[win[d]]) = d,
             pc'[d] = "done"
      PROVE  \/ i \in DOMAIN lockq'[w] /\ lockq'[w][i] = c
             \/ i > 1 /\ lockq'[w][i - 1] = c /\ pc'[lockq[w][1]] = "done"
  <2>1. CASE ~IsWrite(d) \/ win[d] # w
    <3>1. lockq'[w] = lockq[w]
      BY <1>1, <1>4, <2>1 DEF Release, TypeOK
    <3> QED  BY <3>1
  <2>2. CASE IsWrite(d) /\ win[d] = w
    <3>1. lockq'[w] = Tail(lockq[w]) /\ lockq[w] # <<>> /\ Head(lockq[w]) = d
      BY <1>1, <1>4, <2>2 DEF Release, TypeOK
    <3>2. /\ Len(lockq[w]) \in Nat \ {0} /\ DOMAIN lockq[w] = 1 .. Len(lockq[w])
          /\ DOMAIN lockq'[w] = 1 .. Len(lockq[w]) - 1
          /\ \A j \in DOMAIN lockq'[w] : lockq'[w][j] = lockq[w][j + 1]
          /\ lockq[w][1] = d
      BY <1>1, <3>1, LeavesQueue
    <3>3. i # 1 /\ i \in 1 .. Len(lockq[w])
      BY <1>4, <3>2
    <3>4. i - 1 \in DOMAIN lockq'[w] /\ (i - 1) + 1 = i /\ i > 1
      BY <3>2, <3>3
    <3> QED  BY <1>4, <3>2, <3>4
  <2> QED  BY <2>1, <2>2
<1>5. ASSUME NEW d \in Calls, CallStep(d), ~UNCHANGED lockq
      PROVE  \/ i \in DOMAIN lockq'[w] /\ lockq'[w][i] = c
             \/ i > 1 /\ lockq'[w][i - 1] = c /\ pc'[lockq[w][1]] = "done"
  <2>1. \/ SendRaises(d) \/ Resume(d) \/ Timeout(d)
        \/ Acquire(d) /\ sock[win[d]] # "open"
    BY <1>5 DEF CallStep, Send, Acquire
  <2>2. /\ pc[d] \in {"parked", "sending", "flight"}
        /\ IsWrite(d) => lockq[win[d]] # <<>> /\ Head(lockq[win[d]]) = d
        /\ \E how : Finish(d, how)
        /\ lockq' = Release(d)
    BY <2>1, EndsAtHead
  <2>3. pc'[d] = "done"
    BY <2>2 DEF Finish, TypeOK
  <2> QED  BY <1>4, <2>2, <2>3
<1>6. \/ UNCHANGED lockq
      \/ \E d \in Calls : RequestWrite(d) \/ CallStep(d)
  BY DEF Next, AnswerLocally, RequestRead, OnResponse, Receive, Reply, SocketDies, HandlerEnds,
         Register, DropLink, PageCloses, vars
<1> QED  BY <1>2, <1>3, <1>5, <1>6

\* A queue in front of a silent window drains: each write parked in it moves up whenever
\* its head is answered, and by nothing else.
THEOREM QueuesDrainInOrder == Spec => TurnsComeUp
<1> DEFINE Place ==
      \A c \in Calls :
        pc[c] = "parked" /\ pc'[c] = "parked" =>
          \A i \in DOMAIN lockq[win[c]] :
            lockq[win[c]][i] = c =>
              \/ i \in DOMAIN lockq'[win[c]] /\ lockq'[win[c]][i] = c
              \/ /\ i > 1
                 /\ lockq'[win[c]][i - 1] = c
                 /\ pc'[lockq[win[c]][1]] = "done"
<1>1. IInv /\ Queues /\ [Next]_vars => [Place]_vars
  BY PlaceOfParked
<1> QED  BY <1>1, IInvHolds, QueuesHold, PTL DEF Spec, TurnsComeUp

\* The write of a call that was parked while another took the slot: the taker is the
\* head of the queue, and it has waited longer.
LEMMA TurnIsKept ==
  ASSUME IInv, Queues, [Next]_vars, NEW c \in Calls, NEW d \in Calls,
         pc[c] = "parked", pc'[c] = "parked", risk'[d] # "read", win'[d] = win[c],
         pc[d] # "sending", pc'[d] = "sending"
  PROVE  \E i, j \in DOMAIN lockq[win[c]] :
           i < j /\ lockq[win[c]][i] = d /\ lockq[win[c]][j] = c
<1> USE DEF IInv
<1>1. win[c] \in Conns /\ lockq[win[c]] \in Seq(Calls)
  BY DEF CallStages, Stage, TypeOK
<1>2. PICK j \in DOMAIN lockq[win[c]] : lockq[win[c]][j] = c
  BY DEF Queues, Queued
<1>3. /\ Len(lockq[win[c]]) \in Nat \ {0}
      /\ DOMAIN lockq[win[c]] = 1 .. Len(lockq[win[c]])
      /\ Head(lockq[win[c]]) = lockq[win[c]][1]
  BY <1>1, <1>2, EmptySeq, LeavesQueue
<1>4. d # c
  BY DEF TypeOK
<1>5. Acquire(d)
  <2>1. pc' # pc
    OBVIOUS
  <2>2. ~RequestWrite(d)
    <3>1. ASSUME RequestWrite(d) PROVE lockq[win'[d]] = <<>>
      BY <3>1, RouteIsLive DEF RequestWrite, Live, TypeOK
    <3> QED  BY <1>2, <1>3, <3>1, EmptySeq
  <2>3. ASSUME NEW e \in Calls, UNCHANGED risk,
               \E s \in {"sending", "parked", "done", "flight"} : pc' = [pc EXCEPT ![e] = s]
        PROVE  e = d /\ risk[d] # "read"
    BY <2>3 DEF TypeOK
  <2>4. ~RequestRead(d)
    BY DEF RequestRead, CallStages, Stage
  <2>5. ASSUME NEW e \in Calls, RequestWrite(e) PROVE FALSE
    <3>1. e = d
      BY <2>5 DEF RequestWrite, TypeOK
    <3> QED  BY <2>2, <2>5, <3>1
  <2>6. ASSUME NEW e \in Calls, AnswerLocally(e) \/ SendRaises(e) \/ Resume(e) \/ Timeout(e)
                                \/ Send(e)
        PROVE  FALSE
    <3>1. \E s \in {"done", "flight"} : pc' = [pc EXCEPT ![e] = s]
      BY <2>6 DEF AnswerLocally, SendRaises, Resume, Timeout, Send, Finish
    <3> QED  BY <3>1 DEF TypeOK
  <2>7. ASSUME NEW e \in Calls, RequestRead(e) PROVE FALSE
    <3>1. e = d
      BY <2>7 DEF RequestRead, TypeOK
    <3> QED  BY <2>4, <2>7, <3>1
  <2>8. ASSUME NEW e \in Calls, Acquire(e) PROVE Acquire(d)
    <3>1. e = d
      BY <2>8 DEF Acquire, Finish, TypeOK
    <3> QED  BY <2>8, <3>1
  <2>9. ~(\E e \in Calls : OnResponse(e) \/ Receive(e) \/ Reply(e))
    BY <2>1 DEF OnResponse, Receive, Reply, callVars
  <2>10. ~(\E w \in Conns : SocketDies(w) \/ HandlerEnds(w))
    BY <2>1 DEF SocketDies, HandlerEnds, callVars
  <2>11. ~(\E p \in Pages : Register(p) \/ DropLink(p) \/ PageCloses(p))
    BY <2>1 DEF Register, DropLink, PageCloses, callVars
  <2>12. ~UNCHANGED vars
    BY <2>1 DEF vars, callVars
  <2> QED
    BY <2>5, <2>6, <2>7, <2>8, <2>9, <2>10, <2>11, <2>12 DEF Next, CallStep
<1>6. win[d] = win[c] /\ Head(lockq[win[c]]) = d
  BY <1>5 DEF Acquire, Holder
<1>7. 1 \in DOMAIN lockq[win[c]] /\ lockq[win[c]][1] = d /\ 1 < j
  BY <1>2, <1>3, <1>4, <1>6
<1> QED  BY <1>2, <1>7

\* First parked, first sent: between the holder's release and the waiter's wake-up no
\* newcomer gets a window's write lock (asyncio.Lock as handle_request uses it).
THEOREM ParkedWritesSentInTurn == Spec => ParkedWritesKeepTurn
<1> DEFINE Turn ==
      \A c, d \in Calls :
        /\ pc[c] = "parked" /\ pc'[c] = "parked"
        /\ risk'[d] # "read" /\ win'[d] = win[c]
        /\ pc[d] # "sending" /\ pc'[d] = "sending"
        => \E i, j \in DOMAIN lockq[win[c]] :
             i < j /\ lockq[win[c]][i] = d /\ lockq[win[c]][j] = c
<1>1. IInv /\ Queues /\ [Next]_vars => Turn
  BY TurnIsKept
<1>2. IInv /\ Queues /\ [Next]_vars => [Turn]_vars
  BY <1>1
<1> QED  BY <1>2, IInvHolds, QueuesHold, PTL DEF Spec, ParkedWritesKeepTurn

------------------------------------------------------------------------------
(* What is true of the two claims that the runs refute. *)

\* A call that was answered was answered somehow.
Answered == \A c \in Calls : pc[c] = "done" => outcome[c] # "none"

\* A window's page only ever runs two of the window's writes at once when the daemon has
\* told the caller of one of them that it does not know what became of it: the lock is
\* let go by the daemon's timeout, not by the editor (EditorRunsOneWrite).
EditorSerialUntilUnknown ==
  \A c, d \in Calls :
    /\ IsWrite(c) /\ IsWrite(d) /\ win[c] = win[d] /\ c # d
    /\ editor[c] = "running" /\ editor[d] = "running"
    => "unknown" \in {outcome[c], outcome[d]}

\* Two writes run side by side in one window only after a TIMEOUT or DISCONNECTED, so a
\* caller that stops at either of these never makes a window run two.
THEOREM OverlapIsAnnounced == Spec => []EditorSerialUntilUnknown
<1>1. Init => Answered
  BY DEF Init, Answered
<1>2. IInv /\ Answered /\ [Next]_vars => Answered'
  <2> SUFFICES ASSUME IInv, Answered, [Next]_vars PROVE Answered'
    OBVIOUS
  <2> USE DEF IInv, Answered
  <2>1. ASSUME UNCHANGED <<pc, outcome>> PROVE Answered'
    BY <2>1
  <2>2. ASSUME NEW c \in Calls, UNCHANGED outcome,
               \E s \in {"parked", "sending", "flight"} : pc' = [pc EXCEPT ![c] = s]
        PROVE  Answered'
    BY <2>2 DEF TypeOK
  <2>3. ASSUME NEW c \in Calls, \E how \in Outcomes \ {"none"} : Finish(c, how)
        PROVE  Answered'
    BY <2>3 DEF Finish, TypeOK
  <2>4. ASSUME NEW c \in Calls, RequestRead(c) \/ RequestWrite(c) \/ Send(c)
        PROVE  Answered'
    BY <2>2, <2>4 DEF RequestRead, RequestWrite, Send
  <2>5. ASSUME NEW c \in Calls, AnswerLocally(c) \/ SendRaises(c) \/ Resume(c) \/ Timeout(c)
        PROVE  Answered'
    BY <2>3, <2>5 DEF AnswerLocally, SendRaises, Resume, Timeout, Outcomes
  <2>6. ASSUME NEW c \in Calls, Acquire(c)
        PROVE  Answered'
    BY <2>2, <2>3, <2>6 DEF Acquire, Outcomes
  <2>7. ASSUME NEW c \in Calls, OnResponse(c) \/ Receive(c) \/ Reply(c)
        PROVE  Answered'
    BY <2>1, <2>7 DEF OnResponse, Receive, Reply, callVars
  <2>8. ASSUME NEW w \in Conns, SocketDies(w) \/ HandlerEnds(w)
        PROVE  Answered'
    BY <2>1, <2>8 DEF SocketDies, HandlerEnds, callVars
  <2>9. ASSUME NEW p \in Pages, Register(p) \/ DropLink(p) \/ PageCloses(p)
        PROVE  Answered'
    BY <2>1, <2>9 DEF Register, DropLink, PageCloses, callVars
  <2>10. CASE UNCHANGED vars
    BY <2>1, <2>10 DEF vars, callVars
  <2> QED
    BY <2>4, <2>5, <2>6, <2>7, <2>8, <2>9, <2>10 DEF Next, CallStep
<1>3. IInv /\ Answered => EditorSerialUntilUnknown
  <2> SUFFICES ASSUME IInv, Answered, NEW c \in Calls, NEW d \in Calls,
                      IsWrite(c), IsWrite(d), win[c] = win[d], c # d,
                      editor[c] = "running", editor[d] = "running",
                      outcome[c] # "unknown", outcome[d] # "unknown"
               PROVE  FALSE
    BY DEF EditorSerialUntilUnknown
  <2>1. ASSUME NEW e \in Calls, IsWrite(e), editor[e] = "running", outcome[e] # "unknown"
        PROVE  pc[e] = "flight"
    <3>1. Stage(e) /\ outcome[e] \in Outcomes /\ (pc[e] = "done" => outcome[e] # "none")
      BY DEF IInv, Answered, CallStages, TypeOK
    <3> QED  BY <2>1, <3>1 DEF Stage, Outcomes
  <2>2. c \in Pending /\ d \in Pending
    BY <2>1 DEF Pending
  <2> QED  BY <2>2 DEF IInv, LockHeld
<1> QED  BY <1>1, <1>2, <1>3, IInvHolds, PTL DEF Spec

\* While a design write is parked, its window leaves the list of allowed projects in two
\* ways only: the answer to another call names another project, or the window is gone.
GateLostOnlyByAnswer ==
  [][\A c \in Calls :
       /\ pc[c] = "parked" /\ project[win[c]] \in Allowed
       /\ project'[win[c]] \notin Allowed
       => \/ sock'[win[c]] = "gone"
          \/ /\ project'[win[c]] \in Projects
             /\ \E d \in Calls \ {c} : /\ via[d] = win[c]
                                       /\ editor[d] = "replied" /\ editor'[d] = "over"]_vars

\* Where the promise of the gate is lost (DesignWritesLandInAllowed): the write passed it
\* when it was parked, and what revoked that is an answer that named a project off the
\* list; neither a silent window nor a new one can do it.
THEOREM GateIsLostByAnswers == Spec => GateLostOnlyByAnswer
<1> DEFINE Lost ==
      \A c \in Calls :
        /\ pc[c] = "parked" /\ project[win[c]] \in Allowed
        /\ project'[win[c]] \notin Allowed
        => \/ sock'[win[c]] = "gone"
           \/ /\ project'[win[c]] \in Projects
              /\ \E d \in Calls \ {c} : /\ via[d] = win[c]
                                        /\ editor[d] = "replied" /\ editor'[d] = "over"
<1>1. ASSUME IInv, [Next]_vars PROVE Lost
  <2> SUFFICES ASSUME NEW c \in Calls, pc[c] = "parked",
                      project[win[c]] \in Allowed, project'[win[c]] \notin Allowed
               PROVE  \/ sock'[win[c]] = "gone"
                      \/ /\ project'[win[c]] \in Projects
                         /\ \E d \in Calls \ {c} : /\ via[d] = win[c]
                                                   /\ editor[d] = "replied" /\ editor'[d] = "over"
    OBVIOUS
  <2> USE <1>1 DEF IInv
  <2>1. win[c] \in Conns /\ sock[win[c]] # "new" /\ editor[c] = "none"
    BY DEF CallStages, Stage
  <2>2. project' # project
    OBVIOUS
  <2>3. ASSUME NEW p \in Pages, Register(p) PROVE FALSE
    <3>1. arrived + 1 \in Conns /\ sock[arrived + 1] = "new"
      BY <2>3, HubAssumption DEF Register, TypeOK, Accepted, Conns
    <3>2. win[c] # arrived + 1
      BY <2>1, <3>1
    <3>3. \E q \in Claims : project' = [project EXCEPT ![arrived + 1] = q]
      BY <2>3 DEF Register
    <3>4. project'[win[c]] = project[win[c]]
      BY <2>1, <3>1, <3>2, <3>3 DEF TypeOK
    <3> QED  BY <3>4
  <2>4. ASSUME NEW w \in Conns, HandlerEnds(w) PROVE sock'[win[c]] = "gone"
    <3>1. w = win[c]
      BY <2>1, <2>4 DEF HandlerEnds, TypeOK
    <3> QED  BY <2>1, <2>4, <3>1 DEF HandlerEnds, TypeOK
  <2>5. ASSUME NEW d \in Calls, OnResponse(d)
        PROVE  /\ project'[win[c]] \in Projects
               /\ d # c /\ via[d] = win[c]
               /\ editor[d] = "replied" /\ editor'[d] = "over"
    <3>1. d # c /\ editor[d] = "replied" /\ editor'[d] = "over"
      BY <2>1, <2>5 DEF OnResponse, TypeOK
    <3>2. PICK q \in Claims : project' = Merged(via[d], q)
      BY <2>2, <2>5 DEF OnResponse
    <3>3. q # Unnamed /\ project' = [project EXCEPT ![via[d]] = q]
      BY <2>2, <3>2 DEF Merged
    <3>4. via[d] = win[c]
      BY <2>1, <3>3 DEF TypeOK
    <3>5. project'[win[c]] = q
      BY <2>1, <3>3, <3>4 DEF TypeOK
    <3> QED  BY <3>1, <3>2, <3>3, <3>4, <3>5 DEF Claims
  <2>6. ~(\E d \in Calls : AnswerLocally(d) \/ RequestRead(d) \/ RequestWrite(d))
    BY <2>2 DEF AnswerLocally, RequestRead, RequestWrite, hubVars
  <2>7. ~(\E d \in Calls : CallStep(d))
    BY <2>2 DEF CallStep, Acquire, Send, SendRaises, Resume, Timeout, hubVars
  <2>8. ~(\E d \in Calls : Receive(d) \/ Reply(d))
    BY <2>2 DEF Receive, Reply, hubVars
  <2>9. ~(\E w \in Conns : SocketDies(w)) /\ ~(\E p \in Pages : DropLink(p) \/ PageCloses(p))
    BY <2>2 DEF SocketDies, DropLink, PageCloses, hubVars
  <2>10. ~UNCHANGED vars
    BY <2>2 DEF vars, hubVars
  <2> QED  BY <2>3, <2>4, <2>5, <2>6, <2>7, <2>8, <2>9, <2>10 DEF Next
<1>2. IInv /\ [Next]_vars => [Lost]_vars
  BY <1>1
<1> QED  BY <1>2, IInvHolds, PTL DEF Spec, GateLostOnlyByAnswer

\* What a caller may conclude from the promise alone: the verdict it was given is true
\* of the editor, then and in every later state.
LEMMA PromiseIsTruthful == Promise!Spec => [](Promise!TypeOK /\ Promise!Truthful)
<1>1. Promise!Init => Promise!TypeOK /\ Promise!Truthful
  BY DEF Promise!Init, Promise!TypeOK, Promise!Truthful
<1>2. Promise!TypeOK /\ Promise!Truthful /\ [Promise!Next]_(Promise!vars)
      => (Promise!TypeOK /\ Promise!Truthful)'
  BY DEF Promise!TypeOK, Promise!Truthful, Promise!Next, Promise!vars, Promise!Submit,
         Promise!Run, Promise!TurnDown, Promise!Answer, Promise!GiveUp, Promise!Endings
<1> QED  BY <1>1, <1>2, PTL DEF Promise!Spec

\* The caller's view of the daemon is true: a refused call has not run in the editor and
\* never will, an answered one did.
THEOREM VerdictsAreTruthful == Spec => []Promise!Truthful
  BY HubKeepsPromise, PromiseIsTruthful, PTL DEF KeepsPromise

\* A verdict is given once: no later frame, timeout or disconnect changes what a caller
\* was told, and no later step takes back a run.
THEOREM VerdictsStand == Spec => Promise!VerdictsAreFinal
<1> DEFINE Final == /\ \A c \in Calls : StatusOf[c] \in Promise!Endings => StatusOf'[c] = StatusOf[c]
                    /\ Sent \subseteq Sent'
<1>1. Promise!TypeOK /\ [Promise!Next]_(Promise!vars) => [Final]_(Promise!vars)
  BY DEF Promise!TypeOK, Promise!Next, Promise!vars, Promise!Submit, Promise!Run,
         Promise!TurnDown, Promise!Answer, Promise!GiveUp, Promise!Endings, StatusOf, Sent
<1>2. Promise!Spec => [][Final]_(Promise!vars)
  BY <1>1, PromiseIsTruthful, PTL DEF Promise!Spec
<1>3. [][Final]_(Promise!vars) => Promise!VerdictsAreFinal
  BY PTL DEF Promise!VerdictsAreFinal, StatusOf, Sent
<1> QED  BY <1>2, <1>3, HubKeepsPromise DEF KeepsPromise

==============================================================================
