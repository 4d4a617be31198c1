----------------------------- MODULE CallPromise -----------------------------
(***************************************************************************)
(* What the bridge promises the holder of one call, whatever happens to    *)
(* windows, sockets, locks and timers in between:                          *)
(*                                                                         *)
(*   - the editor runs a call at most once;                                *)
(*   - a call the daemon turned down by itself has not run and never will; *)
(*   - an answer is only given for a call the editor ran;                  *)
(*   - every other ending (TIMEOUT, DISCONNECTED, INTERNAL) is "unknown":  *)
(*     the call may have run, and it may still run later.                  *)
(***************************************************************************)
CONSTANT Calls              \* the calls the bridge is ever asked to make

VARIABLES status,           \* status[c]: how far the caller has got with c
          ran               \* the calls the editor has started to run

vars == <<status, ran>>

Endings == {"turnedDown", "answered", "unknown"}

TypeOK ==
  /\ status \in [Calls -> {"unsent", "open"} \cup Endings]
  /\ ran \subseteq Calls

Init ==
  /\ status = [c \in Calls |-> "unsent"]
  /\ ran = {}

Submit(c) ==
  /\ status[c] = "unsent"
  /\ status' = [status EXCEPT ![c] = "open"]
  /\ UNCHANGED ran

\* The editor runs the call: also after the caller was told "unknown".
Run(c) ==
  /\ status[c] \in {"open", "unknown"}
  /\ c \notin ran
  /\ ran' = ran \cup {c}
  /\ UNCHANGED status

TurnDown(c) ==
  /\ status[c] \in {"unsent", "open"}
  /\ c \notin ran
  /\ status' = [status EXCEPT ![c] = "turnedDown"]
  /\ UNCHANGED ran

Answer(c) ==
  /\ status[c] = "open"
  /\ c \in ran
  /\ status' = [status EXCEPT ![c] = "answered"]
  /\ UNCHANGED ran

GiveUp(c) ==
  /\ status[c] = "open"
  /\ status' = [status EXCEPT ![c] = "unknown"]
  /\ UNCHANGED ran

Next == \E c \in Calls : Submit(c) \/ Run(c) \/ TurnDown(c) \/ Answer(c) \/ GiveUp(c)

Spec == Init /\ [][Next]_vars

------------------------------------------------------------------------------
(* What a caller may conclude from it. *)

\* A call that was turned down has not run, and one that was answered has.
Truthful ==
  \A c \in Calls : /\ status[c] = "turnedDown" => c \notin ran
                   /\ status[c] = "answered" => c \in ran

\* Whatever a caller was told stays what it was told, and a run is never undone.
VerdictsAreFinal ==
  [][/\ \A c \in Calls : status[c] \in Endings => status'[c] = status[c]
     /\ ran \subseteq ran']_vars

==============================================================================
