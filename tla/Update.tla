-------------------------------- MODULE Update --------------------------------
(***************************************************************************)
(* `bridge update-connector`: the CLI sends a new bundle to one window or  *)
(* to all of them (sys.self_update); the window writes it into the storage *)
(* all windows of the editor share and schedules its own reload; the CLI   *)
(* then reads the daemon's window table until the table tells what became  *)
(* of every window it wrote to.  cli.py (_cmd_bridge_update_connector,     *)
(* _update_all_windows, _table_verdicts, _await_verdicts) and              *)
(* self-update.ts.                                                         *)
(*                                                                         *)
(* The windows are editor pages.  A page that reloads gets a new instance  *)
(* id (its load), and the daemon may list the socket of the load before    *)
(* for a while.  What the user does to the pages goes on all the time.     *)
(***************************************************************************)
EXTENDS Naturals, FiniteSets

CONSTANTS
  Windows,   \* editor windows of one editor profile: one storage
  MaxLoads   \* how often a window is loaded: a bound for TLC

ASSUME UpdateAssumption == MaxLoads \in Nat \ {0} /\ IsFiniteSet(Windows)

VARIABLES
  file,      \* the build in the storage's file record
  label,     \* the version in its index record
  page,      \* page[w]: how often it was loaded, and the build it runs
  table,     \* the daemon's window table: an instance id and the build it announced
  step,      \* step[w]: where the page's sys.self_update handler is
  timer,     \* windows whose page has its reload scheduled
  mode,      \* what the command was told to write to
  how,       \* ... and whether to reload and to verify
  pc,        \* where the command is
  before,    \* the ids that were online before the write, if they could be read
  todo,      \* the ids it has still to write to
  asked,     \* the id whose answer it is waiting for, if any
  written,   \* the ids that answered ok
  failed,    \* the ids that answered with an error, or not at all
  pending,   \* the ids without a verdict
  verdict,   \* the last verdict of every id
  exit,      \* the exit code, and 9 while the command runs
  quiet      \* nothing but the update itself has moved a page since `before` was read

storageVars == <<file, label>>
pageVars == <<page, table, step, timer>>
optionVars == <<mode, how>>
cliVars == <<pc, before, todo, asked, written, failed, pending, verdict, exit>>
vars == <<storageVars, pageVars, optionVars, cliVars, quiet>>

Builds == {"old", "new"}
Ids == [win : Windows, load : 1..MaxLoads]
Entries == [id : Ids, ver : Builds]

\* A window that the command does not know by name: the daemon picks it.
Unhinted == [win |-> "any", load |-> 0]
Targets == Ids \cup {Unhinted}

\* What `before` is when the table could not be read.
Unread == {Unhinted}

Verdicts == {"verified", "mismatch", "pending", "unconfirmed"}

\* Every variable holds a value of its kind.
TypeOK ==
  /\ file \in Builds /\ label \in Builds
  /\ page \in [Windows -> [load : 1..MaxLoads, ver : Builds \cup {"closed"}]]
  /\ table \subseteq Entries
  /\ step \in [Windows -> {"none", "begun", "half", "ok", "error"}]
  /\ timer \subseteq Windows
  /\ mode \in {"single", "named", "all"}
  /\ how \in {"verify", "no-verify", "no-reload"}
  /\ pc \in {"snapshot", "write", "verify", "done"}
  /\ before \in (SUBSET Ids) \cup {Unread}
  /\ todo \subseteq Targets
  /\ asked \subseteq Ids
  /\ written \subseteq Ids
  /\ failed \subseteq Targets
  /\ pending \subseteq Targets
  /\ verdict \in [Targets -> Verdicts]
  /\ exit \in {0, 1, 2, 3, 9}
  /\ quiet \in BOOLEAN

Id(w) == [win |-> w, load |-> page[w].load]
Open(w) == page[w].ver # "closed"
Online == {e.id : e \in table}

Init ==
  /\ file = "old" /\ label = "old"
  /\ page \in [Windows -> [load : {1}, ver : {"old", "closed"}]]
  /\ table \in SUBSET {[id |-> Id(w), ver |-> "old"] : w \in {v \in Windows : Open(v)}}
  /\ step = [w \in Windows |-> "none"]
  /\ timer = {}
  /\ mode \in {"single", "named", "all"}
  /\ how \in {"verify", "no-verify", "no-reload"}
  /\ pc = "snapshot"
  /\ before = Unread
  /\ todo = {} /\ asked = {} /\ written = {} /\ failed = {} /\ pending = {}
  /\ verdict = [t \in Targets |-> "pending"]
  /\ exit = 9
  /\ quiet = FALSE

------------------------------------------------------------------------------
(* The pages and the daemon's table. *)

\* The page of w goes, with its handler and its timer, and another one comes.
Load(w, build) ==
  /\ page[w].load < MaxLoads
  /\ page' = [page EXCEPT ![w] = [load |-> @.load + 1, ver |-> build]]
  /\ step' = [step EXCEPT ![w] = "none"]
  /\ timer' = timer \ {w}
  /\ UNCHANGED <<table, storageVars, optionVars, cliVars>>

\* A reload runs the stored bundle, unless the host keeps the one it has evaluated.
TimerFires(w) ==
  /\ w \in timer
  /\ \E build \in {file, page[w].ver} : Load(w, build)
  /\ UNCHANGED quiet

UserReloads(w) ==
  /\ Open(w)
  /\ \E build \in {file, page[w].ver} : Load(w, build)
  /\ quiet' = FALSE

UserOpens(w) ==
  /\ ~Open(w)
  /\ Load(w, file)
  /\ quiet' = FALSE

UserCloses(w) ==
  /\ Open(w)
  /\ page' = [page EXCEPT ![w].ver = "closed"]
  /\ step' = [step EXCEPT ![w] = "none"]
  /\ timer' = timer \ {w}
  /\ quiet' = FALSE
  /\ UNCHANGED <<table, storageVars, optionVars, cliVars>>

\* The page's connector says hello, for the first time or again.
Connects(w) ==
  /\ Open(w) /\ Id(w) \notin Online
  /\ table' = table \cup {[id |-> Id(w), ver |-> page[w].ver]}
  /\ UNCHANGED <<page, step, timer, storageVars, optionVars, cliVars, quiet>>

\* The command heard the outcome for t, and goes on with the next window.
Heard(t, ok) ==
  /\ asked' = {}
  /\ written' = IF ok THEN written \cup {t} ELSE written
  /\ failed' = IF ok THEN failed ELSE failed \cup {t}

\* The daemon takes a socket off its table, of a page that has gone or of one that has
\* not, and fails the call it had sent there.
Leaves(e) ==
  /\ e \in table
  /\ table' = table \ {e}
  /\ IF e.id \in asked THEN Heard(e.id, FALSE) ELSE UNCHANGED <<asked, written, failed>>
  /\ quiet' = (quiet /\ ~(Open(e.id.win) /\ e.id = Id(e.id.win)))
  /\ UNCHANGED <<page, step, timer, storageVars, optionVars, pc, before, todo, pending,
                 verdict, exit>>

------------------------------------------------------------------------------
(* sys.self_update in the page. *)

\* A bad request, a missing global, database, store or record, and the first put itself
\* can fail: all of them before anything is written.
HandlerRefuses(w) ==
  /\ step[w] = "begun"
  /\ step' = [step EXCEPT ![w] = "error"]
  /\ UNCHANGED <<page, table, timer, storageVars, optionVars, cliVars, quiet>>

\* (Mutant of PutFile: the index record is put first.)
PutLabelFirst(w) ==
  /\ step[w] = "begun"
  /\ step' = [step EXCEPT ![w] = "half"]
  /\ label' = "new"
  /\ UNCHANGED <<file, page, table, timer, optionVars, cliVars, quiet>>

\* The file record is put, in a transaction of its own.
PutFile(w) ==
  /\ step[w] = "begun"
  /\ step' = [step EXCEPT ![w] = "half"]
  /\ file' = "new"
  /\ UNCHANGED <<label, page, table, timer, optionVars, cliVars, quiet>>

\* The index record, in a second one, and the reload is scheduled.
PutLabel(w) ==
  /\ step[w] = "half"
  /\ step' = [step EXCEPT ![w] = "ok"]
  /\ label' = "new"
  /\ timer' = IF how = "no-reload" THEN timer ELSE timer \cup {w}
  /\ UNCHANGED <<file, page, table, optionVars, cliVars, quiet>>

PutLabelFails(w) ==
  /\ step[w] = "half"
  /\ step' = [step EXCEPT ![w] = "error"]
  /\ UNCHANGED <<page, table, timer, storageVars, optionVars, cliVars, quiet>>

\* The answer leaves when the window's context has been read, or its deadline is over;
\* by then nobody may be waiting for it.
Answers(w) ==
  /\ step[w] \in {"ok", "error"}
  /\ step' = [step EXCEPT ![w] = "none"]
  /\ IF Id(w) \in asked
       THEN Heard(Id(w), step[w] = "ok")
       ELSE UNCHANGED <<asked, written, failed>>
  /\ UNCHANGED <<page, table, timer, storageVars, optionVars, pc, before, todo, pending,
                 verdict, exit, quiet>>

------------------------------------------------------------------------------
(* The command. *)

\* The command is over.
Stops(code) == pc' = "done" /\ exit' = code

\* Which window tables the command does not write to.
Refuses(ids) ==
  \/ mode = "all" /\ ids \in {Unread, {}}
  \/ mode = "single" /\ Cardinality(ids) > 1

\* _online_windows before the write, and what follows from it.  A window may be named
\* by an id that it has had before.
ReadsTable ==
  /\ pc = "snapshot"
  /\ before' \in {Online, Unread}
  /\ quiet' = (\A w \in Windows : Open(w) => Id(w) \in Online)
  /\ IF Refuses(before')
       THEN Stops(2) /\ UNCHANGED todo
       ELSE /\ pc' = "write"
            /\ UNCHANGED exit
            /\ \/ mode = "all" /\ todo' = before'
               \/ mode = "single" /\ todo' = {Unhinted}
               \/ /\ mode = "named"
                  /\ \E w \in Windows, n \in 1..MaxLoads :
                       n <= page[w].load /\ todo' = {[win |-> w, load |-> n]}
  /\ UNCHANGED <<storageVars, pageVars, optionVars, asked, written, failed, pending, verdict>>

\* (Mutant of Picked: without a hint the call goes to no window in particular.)
PickedAsNamed(t) == {t}

\* The windows that a call for t could go to.
Picked(t) == {id \in Online : t \in {id, Unhinted}}

\* sys.self_update is sent if there is exactly one; its page may have gone.
Asks(t) ==
  /\ pc = "write" /\ asked = {}
  /\ t \in todo
  /\ todo' = todo \ {t}
  /\ IF Cardinality(Picked(t)) = 1
       THEN /\ asked' = Picked(t)
            /\ step' = [w \in Windows |->
                          IF Open(w) /\ Id(w) \in Picked(t) THEN "begun" ELSE step[w]]
            /\ UNCHANGED failed
       ELSE failed' = failed \cup {t} /\ UNCHANGED <<asked, step>>
  /\ UNCHANGED <<page, table, timer, storageVars, optionVars, pc, before, written, pending,
                 verdict, exit, quiet>>

\* TIMEOUT, or the connection to the daemon is lost: the handler goes on all the same.
NoAnswer ==
  /\ \E t \in asked : Heard(t, FALSE)
  /\ UNCHANGED <<storageVars, pageVars, optionVars, pc, before, todo, pending, verdict, exit, quiet>>

\* What the verification is about: the ids written to, or the one that was online.
Aims ==
  IF mode = "single"
    THEN IF Cardinality(before) = 1 THEN before ELSE {Unhinted}
    ELSE IF written = {} THEN {Unhinted} ELSE written

\* (Mutant of EndsWrites: a write without an answer is taken for done.)
EndsWritesAnyway ==
  /\ pc = "write" /\ asked = {} /\ todo = {}
  /\ IF how # "verify"
       THEN Stops(0) /\ UNCHANGED pending
       ELSE pc' = "verify" /\ pending' = Aims /\ UNCHANGED exit
  /\ UNCHANGED <<storageVars, pageVars, optionVars, before, todo, asked, written, failed,
                 verdict, quiet>>

\* The writes are over.  An error ends the command, with --all only after its verdicts.
EndsWrites ==
  /\ pc = "write" /\ asked = {} /\ todo = {}
  /\ IF how # "verify" \/ (failed # {} /\ mode # "all")
       THEN Stops(IF failed = {} THEN 0 ELSE 1) /\ UNCHANGED pending
       ELSE pc' = "verify" /\ pending' = Aims /\ UNCHANGED exit
  /\ UNCHANGED <<storageVars, pageVars, optionVars, before, todo, asked, written, failed,
                 verdict, quiet>>

\* The connections that were not online before the write.
Newcomers == {e \in table : e.id \notin before}
ExpectedNewcomers == {e \in Newcomers : e.ver = "new"}

\* (Mutant of PoolOK: one connection on the new build is evidence for every window.)
PoolOfOne == TRUE

\* One connection is evidence for one window: there must be as many as windows still asked about.
PoolOK == Cardinality(pending) < 2 \/ Cardinality(ExpectedNewcomers) >= Cardinality(pending)

\* _one_verdict.
Judges(t) ==
  IF before = Unread \/ (t # Unhinted /\ (t \in Online \/ t \notin before)) THEN "pending"
  ELSE IF ExpectedNewcomers # {} THEN IF PoolOK THEN "verified" ELSE "unconfirmed"
  ELSE IF Newcomers # {} THEN "mismatch"
  ELSE "pending"

\* One round of _await_verdicts: verified and mismatch are final.
Polls ==
  /\ pc = "verify" /\ pending # {}
  /\ verdict' = [t \in Targets |-> IF t \in pending THEN Judges(t) ELSE verdict[t]]
  /\ pending' = {t \in pending : verdict'[t] \in {"pending", "unconfirmed"}}
  /\ UNCHANGED <<storageVars, pageVars, optionVars, pc, before, todo, asked, written, failed,
                 exit, quiet>>

\* A round that could not read the table.
PollsInVain ==
  /\ pc = "verify" /\ pending # {}
  /\ verdict' = [t \in Targets |-> IF t \in pending THEN "pending" ELSE verdict[t]]
  /\ UNCHANGED <<storageVars, pageVars, optionVars, pc, before, todo, asked, written, failed,
                 pending, exit, quiet>>

\* Every id has its verdict, or the budget is spent.
Concludes ==
  /\ pc = "verify"
  /\ Stops(IF failed # {} \/ \E t \in Aims : verdict[t] = "mismatch" THEN 1
           ELSE IF \E t \in Aims : verdict[t] # "verified" THEN 3
           ELSE 0)
  /\ UNCHANGED <<storageVars, pageVars, optionVars, before, todo, asked, written, failed,
                 pending, verdict, quiet>>

------------------------------------------------------------------------------

Next ==
  \/ \E w \in Windows :
       \/ TimerFires(w) \/ UserReloads(w) \/ UserOpens(w) \/ UserCloses(w) \/ Connects(w)
       \/ HandlerRefuses(w) \/ PutFile(w) \/ PutLabel(w) \/ PutLabelFails(w) \/ Answers(w)
  \/ \E e \in table : Leaves(e)
  \/ \E t \in todo : Asks(t)
  \/ ReadsTable \/ NoAnswer \/ EndsWrites \/ Polls \/ PollsInVain \/ Concludes

Spec == Init /\ [][Next]_vars

------------------------------------------------------------------------------
(* Properties. *)

\* The version in the index record is never that of a bundle that is not stored, wherever
\* the handler fails or its page goes away, and however many handlers write at a time:
\* what the editor says is installed is at least what a reload would run.
LabelNeverAhead == label = "new" => file = "new"

\* Success (exit 0) and "unknown, not failed" (exit 3) are said only of a bundle that is
\* stored with its version, whichever answers were lost or late: a lost one counts as an
\* error (exit 1).
ReportedIsStored == exit \in {0, 3} => file = "new" /\ label = "new"

\* While nothing but the update moves a page: a verified run means that every window
\* written to has reloaded and runs the new build, though the table cannot tell which new
\* connection belongs to which window; and a mismatch means that one of them came back
\* on the old build.
Reloaded(t, build) == page[t.win].load > t.load /\ page[t.win].ver = build
QuietVerdictIsTrue ==
  quiet /\ how = "verify" /\ pc = "done" =>
    /\ exit = 0 => \A t \in written : Reloaded(t, "new")
    /\ exit = 1 /\ failed = {} => \E t \in written : Reloaded(t, "old")

\* docs/bridge.md:1098: "the CLI always learns the outcome before the page and socket go
\* away".  The reload that the update scheduled never takes the page while the command
\* waits for its answer.
AnswerPrecedesReload ==
  [][\A w \in timer : quiet' /\ page'[w].load > page[w].load => Id(w) \notin asked]_vars

==============================================================================
