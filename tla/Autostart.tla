------------------------------ MODULE Autostart ------------------------------
(***************************************************************************)
(* Starting the daemon on demand (bridge/autostart.py): what happens when  *)
(* several CLI processes find the daemon's port closed at the same time.   *)
(*                                                                         *)
(* The processes share one stamp file, created exclusively, and the port.  *)
(* Every step below is one system call or one poll of one process; a       *)
(* process may be killed between any two, and leaves its stamp behind.     *)
(***************************************************************************)
EXTENDS Naturals

CONSTANTS
  Clis,     \* the processes that need the bridge, each once
  NoCli     \* nobody: no stamp file

ASSUME AutostartAssumption == NoCli \notin Clis

VARIABLES
  pc,       \* pc[c]: where ensure() is
  stamp,    \* who created the stamp file, while there is one
  aged,     \* it is older than STALE_START_SECONDS
  took,     \* took[c]: this call took a start over
  daemon,   \* daemon[c]: the daemon that c spawned
  ok        \* ok[c]: StartOutcome.ok

vars == <<pc, stamp, aged, took, daemon, ok>>

\* From the claim to the release: these own a start, or believe they do.
Starting == {"spawn", "watch", "release"}

\* Every variable holds a value of its kind.
TypeOK ==
  /\ pc \in [Clis -> {"probe", "claim", "wait", "stale", "unlink", "reclaim", "done", "killed"}
                     \cup Starting]
  /\ stamp \in Clis \cup {NoCli}
  /\ aged \in BOOLEAN
  /\ took \in [Clis -> BOOLEAN]
  /\ daemon \in [Clis -> {"none", "starting", "up", "over"}]
  /\ ok \in [Clis -> BOOLEAN]

Init ==
  /\ pc = [c \in Clis |-> "probe"]
  /\ stamp = NoCli
  /\ aged = FALSE
  /\ took = [c \in Clis |-> FALSE]
  /\ daemon = [c \in Clis |-> "none"]
  /\ ok = [c \in Clis |-> FALSE]

\* Something accepts connections on the port.
PortOpen == \E c \in Clis : daemon[c] = "up"

Go(c, from, to) == pc[c] = from /\ pc' = [pc EXCEPT ![c] = to]

\* Nobody's start, or a probe that gets through: the call is over.
Probe(c) ==
  /\ Go(c, "probe", IF PortOpen THEN "done" ELSE "claim")
  /\ ok' = [ok EXCEPT ![c] = PortOpen]
  /\ UNCHANGED <<stamp, aged, took, daemon>>

\* (Mutant of CreateStamp: opened without O_EXCL.)
CreateStampAnyway(c, lost) ==
  /\ pc' = [pc EXCEPT ![c] = "spawn"]
  /\ stamp' = c
  /\ aged' = FALSE

\* _claim: O_EXCL creates the file for one process, and the others go to `lost`.
CreateStamp(c, lost) ==
  IF stamp = NoCli
    THEN /\ pc' = [pc EXCEPT ![c] = "spawn"]
         /\ stamp' = c
         /\ aged' = FALSE
    ELSE /\ pc' = [pc EXCEPT ![c] = lost]
         /\ UNCHANGED <<stamp, aged>>

Claim(c) ==
  /\ pc[c] = "claim"
  /\ CreateStamp(c, "wait")
  /\ UNCHANGED <<took, daemon, ok>>

\* _release: unlinks whatever file is there.
RemoveStamp == stamp' = NoCli /\ aged' = FALSE

\* _wait_for: the port answered, or the timeout went by without it.
WaitForOther(c) ==
  /\ Go(c, "wait", IF PortOpen THEN "done" ELSE "stale")
  /\ ok' = [ok EXCEPT ![c] = PortOpen]
  /\ UNCHANGED <<stamp, aged, took, daemon>>

\* (Mutant of StaleStamp: only a stamp that is gone counts as abandoned.)
StaleStampGone == stamp = NoCli

\* _stale: too old, or gone.
StaleStamp == stamp = NoCli \/ aged

\* A start in flight is reported; an abandoned one is taken over.
LookAtStamp(c) ==
  /\ Go(c, "stale", IF StaleStamp THEN "unlink" ELSE "done")
  /\ UNCHANGED <<stamp, aged, took, daemon, ok>>

Unlink(c) ==
  /\ Go(c, "unlink", "reclaim")
  /\ took' = [took EXCEPT ![c] = TRUE]
  /\ RemoveStamp
  /\ UNCHANGED <<daemon, ok>>

Reclaim(c) ==
  /\ pc[c] = "reclaim"
  /\ CreateStamp(c, "done")
  /\ UNCHANGED <<took, daemon, ok>>

\* (Mutant of Spawn: a failed spawn returns past the finally.)
SpawnForgetsStamp(c) ==
  /\ \/ /\ Go(c, "spawn", "watch")
        /\ daemon' = [daemon EXCEPT ![c] = "starting"]
     \/ /\ Go(c, "spawn", "done")
        /\ UNCHANGED daemon
  /\ UNCHANGED <<stamp, aged, took, ok>>

\* The detached daemon is started, or Popen raises OSError.
Spawn(c) ==
  /\ \/ /\ Go(c, "spawn", "watch")
        /\ daemon' = [daemon EXCEPT ![c] = "starting"]
     \/ /\ Go(c, "spawn", "release")
        /\ UNCHANGED daemon
  /\ UNCHANGED <<stamp, aged, took, ok>>

\* _wait_for on the own daemon: any listener on the port will do.
WaitForOwn(c) ==
  /\ Go(c, "watch", "release")
  /\ ok' = [ok EXCEPT ![c] = PortOpen]
  /\ UNCHANGED <<stamp, aged, took, daemon>>

\* The finally.
Finally(c) ==
  /\ Go(c, "release", "done")
  /\ RemoveStamp
  /\ UNCHANGED <<took, daemon, ok>>

------------------------------------------------------------------------------
(* The machine. *)

\* A CLI is killed anywhere in ensure().
Kill(c) ==
  /\ pc[c] \notin {"done", "killed"}
  /\ pc' = [pc EXCEPT ![c] = "killed"]
  /\ UNCHANGED <<stamp, aged, took, daemon, ok>>

\* Time passes.  READY_TIMEOUT is far below STALE_START_SECONDS: a stamp gets
\* old only when the process that created it is gone.
Age ==
  /\ stamp # NoCli
  /\ pc[stamp] \notin Starting
  /\ ~aged
  /\ aged' = TRUE
  /\ UNCHANGED <<pc, stamp, took, daemon, ok>>

\* A starting daemon gets the port if it is free, and exits if it is not.
DaemonBinds(c) ==
  /\ daemon[c] = "starting"
  /\ daemon' = [daemon EXCEPT ![c] = IF PortOpen THEN "over" ELSE "up"]
  /\ UNCHANGED <<pc, stamp, aged, took, ok>>

\* A daemon dies, before or after it listens.
DaemonDies(c) ==
  /\ daemon[c] \in {"starting", "up"}
  /\ daemon' = [daemon EXCEPT ![c] = "over"]
  /\ UNCHANGED <<pc, stamp, aged, took, ok>>

------------------------------------------------------------------------------

Ensure(c) ==
  Probe(c) \/ Claim(c) \/ WaitForOther(c) \/ LookAtStamp(c) \/ Unlink(c) \/ Reclaim(c)
    \/ Spawn(c) \/ WaitForOwn(c) \/ Finally(c)

Next ==
  \/ \E c \in Clis : Ensure(c) \/ Kill(c) \/ DaemonBinds(c) \/ DaemonDies(c)
  \/ Age

Spec == Init /\ [][Next]_vars

\* A process that is not killed runs on: no step of ensure() waits without a timeout.
FairSpec == Spec /\ \A c \in Clis : WF_vars(Ensure(c))

------------------------------------------------------------------------------
(* Properties. *)

\* A stamp never outlives its start, however that start ended (bound, failed,
\* spawn raised, taken over): only a kill leaves one behind.
StampMarksAStart ==
  stamp # NoCli => pc[stamp] \in Starting \cup {"killed"}

\* Without a takeover O_EXCL is a lock: two calls own a start at once only after
\* one of the processes took an abandoned one over.
StartsOverlapOnlyByTakeover ==
  \A c, d \in Clis :
    pc[c] \in Starting /\ pc[d] \in Starting /\ c # d => \E e \in Clis : took[e]

\* A killed start cannot park the later commands: a command that waits on a stamp
\* that got old ends with the port open, is killed, or sees a start made again.
AbandonedStartIsMadeAgain ==
  \A c \in Clis :
    pc[c] = "wait" /\ aged ~> \/ ok[c] \/ pc[c] = "killed"
                              \/ \E d \in Clis : pc[d] \in Starting

==============================================================================
