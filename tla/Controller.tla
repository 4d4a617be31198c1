------------------------------ MODULE Controller ------------------------------
(***************************************************************************)
(* The connector's controllers (connector/src/index.ts, and the registry   *)
(* of connector/src/transport.ts): who opens the page's transport, and     *)
(* when.  The editor evaluates the bundle again and again in one page;     *)
(* each evaluation has module state of its own, its timers go on when the  *)
(* next one is evaluated, and one record on the editor's object tells them *)
(* which evaluation's controller is everybody's.                           *)
(*                                                                         *)
(* An action is what the page runs between two awaits.  A controller is    *)
(* named by its evaluation, a transport by the attempt that built it; what *)
(* a running transport does is module Transport.                           *)
(***************************************************************************)
EXTENDS Naturals

CONSTANTS
  MaxEvals,     \* bound: evaluations of the bundle
  MaxTries,     \* bound: attempts to open a transport
  MaxCalls,     \* bound: what the editor's user does
  MaxRetries    \* BOOTSTRAP_RETRY_DELAYS_MS.length

ASSUME ControllerAssumption ==
  MaxEvals \in Nat /\ MaxTries \in Nat /\ MaxCalls \in Nat /\ MaxRetries \in Nat

VARIABLES
  bound,      \* "yes": the editor's global is bound
  auto,       \* the auto-connect setting
  calm,       \* "yes": from now on storage works and nobody interferes
  published,  \* the record on the editor's object; 0: none
  loaded,     \* evaluations so far
  calls,      \* calls of the editor so far
  gone,       \* those among them that the editor has deactivated
  uses,       \* uses[e]: shared.runtime; 0: shared is undefined
  pub,        \* evaluations with shared.published
  claimed,    \* controllers with connectionAttempted
  booted,     \* bootstrappedFromModuleLoad
  called,     \* activation: the editor dispatched activate() to it
  armed,      \* selfArm, running or over
  macro,      \* nextMacrotaskTimer runs
  knocks,     \* knocks[e]: retry timers that run
  retries,    \* bootstrapRetries
  repairs,    \* evaluations whose rePair awaits the storage
  slot,       \* transport; 0: none
  newest,     \* the attempt that holds connectEpoch; 0: it was a stop
  dog,        \* controllers with a watchdog
  at,         \* at[t]: where attempt t is
  of,         \* of[t]: the controller whose attempt it is
  arming,     \* attempts of a self-arm
  wire        \* transports that were started and not stopped

registry == <<published, uses, pub>>
gates == <<claimed, booted, called, armed>>
timers == <<macro, knocks, retries>>
attempts == <<at, of, arming>>
connection == <<slot, newest, dog, wire>>
editor == <<bound, auto, calm, loaded, gone>>   \* without the calls
vars == <<editor, calls, registry, gates, timers, repairs, connection, attempts>>

Evals == 1 .. MaxEvals
Tries == 1 .. MaxTries

\* Every variable holds a value of its kind.
TypeOK ==
  /\ bound \in {"no", "yes"} /\ auto \in {"off", "on"} /\ calm \in {"no", "yes"}
  /\ loaded \in 0 .. MaxEvals /\ gone \in 0 .. loaded /\ calls \in 0 .. MaxCalls
  /\ published \in 0 .. loaded
  /\ uses \in [Evals -> 0 .. loaded]
  /\ pub \subseteq 1 .. loaded /\ repairs \subseteq 1 .. loaded
  /\ claimed \subseteq Evals /\ booted \subseteq Evals
  /\ called \subseteq Evals /\ armed \subseteq Evals
  /\ macro \subseteq Evals /\ dog \subseteq Evals
  /\ knocks \in [Evals -> Nat] /\ retries \in [Evals -> 0 .. MaxRetries]
  /\ slot \in [Evals -> 0 .. MaxTries] /\ newest \in [Evals -> 0 .. MaxTries]
  /\ at \in [Tries -> {"unused", "config", "starting", "over"}]
  /\ of \in [Tries -> 0 .. MaxEvals]
  /\ arming \subseteq Tries /\ wire \subseteq Tries

Init ==
  /\ bound = "no" /\ auto = "on" /\ calm = "no"
  /\ published = 0 /\ loaded = 0 /\ gone = 0 /\ calls = 0
  /\ uses = [e \in Evals |-> 0] /\ pub = {}
  /\ claimed = {} /\ booted = {} /\ called = {} /\ armed = {}
  /\ macro = {} /\ repairs = {} /\ dog = {}
  /\ knocks = [e \in Evals |-> 0] /\ retries = [e \in Evals |-> 0]
  /\ slot = [e \in Evals |-> 0] /\ newest = [e \in Evals |-> 0]
  /\ at = [t \in Tries |-> "unused"] /\ of = [t \in Tries |-> 0]
  /\ arming = {} /\ wire = {}

------------------------------------------------------------------------------
(* The registry. *)

Published == bound = "yes" /\ published # 0

\* runtime(): the published controller, else the one this evaluation uses, else a new one.
Owner(e) == IF Published THEN published ELSE IF uses[e] # 0 THEN uses[e] ELSE e

\* adoptPublishedRuntime stops the controller it replaces.
Replaced(e) == {uses[e]} \ {0, Owner(e)}

\* runtime() in evaluation e: a controller that it creates is published at once if the
\* editor is there, and one that never was is published by its first connectOnce.
Lookup(e, connects) ==
  /\ uses' = [uses EXCEPT ![e] = Owner(e)]
  /\ IF bound = "yes" /\ published = 0 /\ (uses[e] = 0 \/ (connects /\ Owner(e) \notin pub))
       THEN published' = Owner(e) /\ pub' = pub \cup {Owner(e)}
       ELSE published' = published /\ pub' = IF Published THEN pub \cup {e} ELSE pub

\* (Mutant of Republish: it takes the place of what is there.)
RepublishOver(d) ==
  /\ UNCHANGED uses
  /\ IF bound = "yes" /\ uses[d] = d /\ d \notin pub
       THEN published' = d /\ pub' = pub \cup {d}
       ELSE UNCHANGED <<published, pub>>

\* republishSharedRuntime, when no lookup came before it: a timer of controller d.
Republish(d) ==
  /\ UNCHANGED uses
  /\ IF bound = "yes" /\ published = 0 /\ uses[d] = d /\ d \notin pub
       THEN published' = d /\ pub' = pub \cup {d}
       ELSE UNCHANGED <<published, pub>>

------------------------------------------------------------------------------
(* The slot.  Each of these also stops the controllers `others`. *)

\* The transports of these controllers are stopped and forgotten.
Drop(ds) ==
  /\ wire' = wire \ {slot[d] : d \in ds}
  /\ slot' = [d \in Evals |-> IF d \in ds THEN 0 ELSE slot[d]]

\* (Mutant of Halt: attempts in flight are not invalidated.)
HaltSlotOnly(ds) ==
  /\ Drop(ds)
  /\ dog' = dog \ ds
  /\ UNCHANGED <<newest, attempts>>

\* runStop: it takes the epoch and the watchdog too.
Halt(ds) ==
  /\ Drop(ds)
  /\ newest' = [d \in Evals |-> IF d \in ds THEN 0 ELSE newest[d]]
  /\ dog' = dog \ ds
  /\ UNCHANGED attempts

\* openTransport up to its await, on controller d with its alarm up.
Opens(d, others, byArm) == \E t \in Tries :
  /\ at[t] = "unused" /\ \A u \in 1 .. t - 1 : at[u] # "unused"
  /\ Drop(others \cup {d})
  /\ newest' = [x \in Evals |-> IF x = d THEN t ELSE IF x \in others THEN 0 ELSE newest[x]]
  /\ dog' = (dog \ others) \cup {d}
  /\ at' = [at EXCEPT ![t] = "config"]
  /\ of' = [of EXCEPT ![t] = d]
  /\ arming' = IF byArm THEN arming \cup {t} ELSE arming

\* The storage throws inside openTransport ...
OpenThrows(d, others) ==
  /\ calm = "no"
  /\ Drop(others \cup {d})
  /\ newest' = [x \in Evals |-> IF x \in others \cup {d} THEN 0 ELSE newest[x]]
  /\ dog' = (dog \ others) \cup {d}
  /\ UNCHANGED attempts

\* ... or connectOnce leaves before it: the setting is off, or it throws at once.
ConnectsNothing(d, others) ==
  /\ Drop(others \cup {d})
  /\ newest' = [x \in Evals |-> IF x \in others THEN 0 ELSE newest[x]]
  /\ dog' = dog \ others
  /\ UNCHANGED attempts

\* The three ways connectOnce goes once it has the claim.
StandsDown(d, others) == auto = "off" /\ ConnectsNothing(d, others)
Throws(d, others) ==
  \/ calm = "no" /\ ConnectsNothing(d, others)
  \/ auto = "on" /\ OpenThrows(d, others)
Connects(d, others, byArm) == auto = "on" /\ Opens(d, others, byArm)

------------------------------------------------------------------------------
(* The bootstrap. *)

\* (Mutant of ScheduleRetry: one delay too many.)
ScheduleRetryOnceMore(d, fired) ==
  IF retries[d] <= MaxRetries
    THEN /\ knocks' = [knocks EXCEPT ![d] = @ - fired + 1]
         /\ retries' = [retries EXCEPT ![d] = @ + 1]
    ELSE knocks' = [knocks EXCEPT ![d] = @ - fired] /\ UNCHANGED retries

\* scheduleBootstrapRetry, `fired` timers having gone off.
ScheduleRetry(d, fired) ==
  IF retries[d] < MaxRetries
    THEN /\ knocks' = [knocks EXCEPT ![d] = @ - fired + 1]
         /\ retries' = [retries EXCEPT ![d] = @ + 1]
    ELSE knocks' = [knocks EXCEPT ![d] = @ - fired] /\ UNCHANGED retries

NoRetry(d, fired) ==
  knocks' = [knocks EXCEPT ![d] = @ - fired] /\ UNCHANGED retries

\* bootstrapAttempt: no editor, a lost claim, a connection, or a failure that gives
\* the claim back; the first and the last knock again.
BootstrapAttempt(d, fired) ==
  \/ /\ bound = "no"
     /\ ScheduleRetry(d, fired)
     /\ UNCHANGED <<claimed, connection, attempts>>
  \/ /\ bound = "yes" /\ d \in claimed
     /\ NoRetry(d, fired)
     /\ UNCHANGED <<claimed, connection, attempts>>
  \/ /\ bound = "yes" /\ d \notin claimed
     /\ claimed' = claimed \cup {d}
     /\ NoRetry(d, fired)
     /\ StandsDown(d, {}) \/ Connects(d, {}, FALSE)
  \/ /\ bound = "yes" /\ d \notin claimed
     /\ UNCHANGED claimed
     /\ ScheduleRetry(d, fired)
     /\ Throws(d, {})

\* The module scope: runtime(), and runBootstrap unless that controller did it already.
Evaluate == LET e == loaded + 1  d == Owner(e) IN
  /\ calm = "no" /\ loaded < MaxEvals
  /\ loaded' = e
  /\ Lookup(e, FALSE)
  /\ IF d \in booted
       THEN UNCHANGED <<booted, claimed, timers, connection, attempts>>
       ELSE /\ BootstrapAttempt(d, 0)
            /\ booted' = IF bound = "yes" THEN booted \cup {d} ELSE booted
            /\ macro' = macro \cup {d}
  /\ UNCHANGED <<calls, bound, auto, calm, gone, called, armed, repairs>>

\* (Mutant of Knock: an editor that is still not there is not waited for.)
KnockOnce(d) ==
  /\ knocks[d] > 0
  /\ IF bound = "yes" THEN BootstrapAttempt(d, 1)
                      ELSE NoRetry(d, 1) /\ UNCHANGED <<claimed, connection, attempts>>
  /\ IF bound = "yes" /\ d \notin claimed THEN Republish(d) ELSE UNCHANGED registry
  /\ UNCHANGED <<editor, calls, booted, called, armed, macro, repairs>>

\* The retry timer.
Knock(d) ==
  /\ knocks[d] > 0
  /\ BootstrapAttempt(d, 1)
  /\ IF bound = "yes" /\ d \notin claimed THEN Republish(d) ELSE UNCHANGED registry
  /\ UNCHANGED <<calls, editor, booted, called, armed, macro, repairs>>

\* The next macrotask: another look, if nobody has taken a hand.
NextMacrotask(d) ==
  /\ d \in macro
  /\ macro' = macro \ {d}
  /\ IF bound = "yes" /\ d \notin claimed \cup called \cup armed
       THEN BootstrapAttempt(d, 0) /\ Republish(d)
       ELSE UNCHANGED <<registry, claimed, knocks, retries, connection, attempts>>
  /\ UNCHANGED <<calls, editor, booted, called, armed, repairs>>

------------------------------------------------------------------------------
(* The editor's calls into an evaluation.  It makes them once its global is *)
(* bound, and none into an extension it has deactivated.                    *)

Called(e) ==
  /\ calm = "no" /\ bound = "yes"
  /\ e \in gone + 1 .. loaded
  /\ calls < MaxCalls
  /\ calls' = calls + 1

\* activate(): runStart, and no second try if it fails.
Activate(e) == LET d == Owner(e) IN
  /\ Called(e)
  /\ Lookup(e, d \notin claimed)
  /\ called' = called \cup {d}
  /\ claimed' = claimed \cup {d}
  /\ IF d \in claimed
       THEN Halt(Replaced(e))
       ELSE \/ StandsDown(d, Replaced(e))
            \/ Connects(d, Replaced(e), FALSE)
            \/ Throws(d, Replaced(e))
  /\ UNCHANGED <<editor, booted, armed, timers, repairs>>

\* runSelfArm, from About: its connectOnce opens something, fails, or returns with
\* the slot empty, and then arm and claim are given back.
SelfArm(d, others) ==
  \/ /\ d \in claimed
     /\ Halt(others)
     /\ IF slot[d] # 0
          THEN armed' = armed \cup {d} /\ UNCHANGED claimed
          ELSE claimed' = claimed \ {d} /\ UNCHANGED armed
  \/ /\ d \notin claimed
     /\ StandsDown(d, others)
     /\ UNCHANGED <<armed, claimed>>
  \/ /\ d \notin claimed
     /\ Connects(d, others, TRUE) \/ Throws(d, others)
     /\ armed' = armed \cup {d}
     /\ claimed' = claimed \cup {d}

About(e) == LET d == Owner(e)  arms == d \notin called \cup armed IN
  /\ Called(e)
  /\ Lookup(e, arms /\ d \notin claimed)
  /\ IF arms THEN SelfArm(d, Replaced(e)) ELSE Halt(Replaced(e)) /\ UNCHANGED <<armed, claimed>>
  /\ UNCHANGED <<editor, booted, called, timers, repairs>>

\* runReconnect: whatever is there is replaced.
Reconnects(e) == LET d == Owner(e) IN
  /\ Lookup(e, FALSE)
  /\ claimed' = claimed \cup {d}
  /\ Opens(d, Replaced(e), FALSE) \/ OpenThrows(d, Replaced(e))
  /\ UNCHANGED <<editor, booted, called, armed, timers>>

Reconnect(e) == Called(e) /\ Reconnects(e) /\ UNCHANGED repairs

\* rePair: this evaluation's own transport stops, and when the token is forgotten ...
RePair(e) ==
  /\ Called(e)
  /\ wire' = wire \ {slot[e]}
  /\ repairs' = repairs \cup {e}
  /\ UNCHANGED <<editor, registry, gates, timers, slot, newest, dog, attempts>>

\* ... it reconnects.
RePaired(e) ==
  /\ e \in repairs
  /\ repairs' = repairs \ {e}
  /\ Reconnects(e)
  /\ UNCHANGED calls

Stop(e) ==
  /\ Called(e)
  /\ Lookup(e, FALSE)
  /\ Halt(Replaced(e) \cup {Owner(e)})
  /\ UNCHANGED <<editor, gates, timers, repairs>>

\* deactivate: the controller this evaluation uses is stopped and un-published.
Deactivate(e) ==
  /\ Called(e)
  /\ uses[e] # 0
  /\ Halt({uses[e]})
  /\ published' = IF published = uses[e] THEN 0 ELSE published
  /\ uses' = [uses EXCEPT ![e] = 0]
  /\ gone' = loaded
  /\ UNCHANGED <<bound, auto, calm, loaded, pub, gates, timers, repairs>>

ToggleAutoConnect ==
  /\ \E e \in Evals : Called(e)
  /\ auto' = IF auto = "on" THEN "off" ELSE "on"
  /\ UNCHANGED <<bound, calm, loaded, gone, registry, gates, timers, repairs, connection, attempts>>

------------------------------------------------------------------------------
(* The attempts. *)

\* (Mutant of Settle: nobody asks whether the attempt is still the newest.)
SettleAnyway(t) == LET d == of[t] IN
  /\ at[t] = "config"
  /\ at' = [at EXCEPT ![t] = "starting"]
  /\ slot' = [slot EXCEPT ![d] = t]
  /\ wire' = wire \cup {t}
  /\ UNCHANGED <<calls, editor, registry, gates, timers, repairs, newest, dog, of, arming>>

\* What follows a self-arm's connectOnce.
ArmEnds(t) == LET d == of[t] IN
  /\ arming' = arming \ {t}
  /\ IF t \in arming /\ slot[d] = 0
    THEN armed' = armed \ {d} /\ claimed' = claimed \ {d}
    ELSE UNCHANGED <<armed, claimed>>

\* connectableConfig is there: only the newest attempt builds and starts a transport.
Settle(t) == LET d == of[t] IN
  /\ at[t] = "config"
  /\ IF newest[d] = t
       THEN /\ at' = [at EXCEPT ![t] = "starting"]
            /\ slot' = [slot EXCEPT ![d] = t]
            /\ wire' = wire \cup {t}
            /\ UNCHANGED <<armed, claimed, arming>>
       ELSE /\ at' = [at EXCEPT ![t] = "over"]
            /\ ArmEnds(t)
            /\ UNCHANGED <<slot, wire>>
  /\ UNCHANGED <<calls, editor, registry, booted, called, timers, repairs, newest, dog, of>>

\* start() has returned.
Started(t) ==
  /\ at[t] = "starting"
  /\ at' = [at EXCEPT ![t] = "over"]
  /\ wire' = IF newest[of[t]] = t THEN wire ELSE wire \ {t}
  /\ ArmEnds(t)
  /\ UNCHANGED <<calls, editor, registry, booted, called, timers, repairs, slot, newest, dog, of>>

\* onHandshakeRefused: the transport has stopped itself, and the alarm goes with it.
Refused(t) ==
  /\ calm = "no"
  /\ t \in wire
  /\ wire' = wire \ {t}
  /\ dog' = dog \ {of[t]}
  /\ UNCHANGED <<calls, editor, registry, gates, timers, repairs, slot, newest, attempts>>

------------------------------------------------------------------------------
(* The editor. *)

Bind ==
  /\ bound = "no"
  /\ bound' = "yes"
  /\ UNCHANGED <<calls, auto, calm, loaded, gone, registry, gates, timers, repairs, connection, attempts>>

CalmsDown ==
  /\ calm = "no"
  /\ calm' = "yes"
  /\ UNCHANGED <<calls, bound, auto, loaded, gone, registry, gates, timers, repairs, connection, attempts>>

------------------------------------------------------------------------------

Next ==
  \/ Evaluate \/ Bind \/ ToggleAutoConnect \/ CalmsDown
  \/ \E d \in Evals : Knock(d) \/ NextMacrotask(d)
  \/ \E e \in Evals : \/ Activate(e) \/ About(e) \/ Reconnect(e) \/ Stop(e)
                       \/ RePair(e) \/ RePaired(e) \/ Deactivate(e)
  \/ \E t \in Tries : Settle(t) \/ Started(t) \/ Refused(t)

Spec == Init /\ [][Next]_vars

\* A pending timer fires, a promise of the storage settles, and a calm editor gets
\* round to binding its global.
Fairness ==
  /\ WF_vars(Bind)
  /\ \A d \in Evals : WF_vars(Knock(d)) /\ WF_vars(NextMacrotask(d))
  /\ \A t \in Tries : WF_vars(Settle(t))

FairSpec == Spec /\ Fairness

------------------------------------------------------------------------------
(* Properties. *)

\* Replacing is not forgetting: however many attempts of one controller overlap, the
\* transport in its slot is the only one of its transports that runs.
OnlySlotOnWire == \A t \in wire : slot[of[t]] = t

\* No transport runs without its controller's alarm: neither a stop nor a refusal,
\* wherever it falls between an attempt's awaits, leaves one behind.
WireIsWatched == \A t \in wire : of[t] \in dog

\* A controller that reached the editor's object, and has neither been adopted away
\* nor deactivated.
Shared(d) == uses[d] = d /\ d \in pub /\ d > gone

\* However often the bundle is evaluated, and however late the editor binds its global,
\* the controllers that reached the editor's object never have two transports running.
OneConnection == \A t, u \in wire : Shared(of[t]) /\ Shared(of[u]) => t = u

\* The bounds leave every controller an attempt.
Unbounded == \A t \in Tries : t > MaxTries - MaxEvals => at[t] = "unused"

\* Still knocking, with the claim free and nobody interfering.
Knocking(d) ==
  /\ calm = "yes" /\ auto = "on" /\ repairs = {} /\ Unbounded
  /\ knocks[d] > 0 /\ d \notin claimed

\* A bootstrap that is still knocking connects once the editor is there, or has used up
\* its retries.
LateEditorIsFound ==
  \A d \in Evals : Knocking(d) ~> retries[d] = MaxRetries \/ \E t \in wire : of[t] = d

==============================================================================
