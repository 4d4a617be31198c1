---------------------------- MODULE UpdateProofs ----------------------------
(***************************************************************************)
(* Proofs about the connector update, for any number of windows and loads. *)
(***************************************************************************)
EXTENDS Update, FiniteSetTheorems, TLAPS

(***************************************************************************)
(* What has happened so far: a handler past a put has stored what it put,  *)
(* a window that answered ok has stored both, and the command has lost     *)
(* track of no window it was to write to.                                  *)
(***************************************************************************)
HandlersHavePut ==
  /\ \A w \in Windows : step[w] \in {"half", "ok"} => file = "new"
  /\ \A w \in Windows : step[w] = "ok" => label = "new"

WrittenIsStored == written # {} => label = "new"

Tracked == pc \in {"write", "verify"} => todo \cup asked \cup written \cup failed # {}

AllHeard == pc # "write" => todo = {} /\ asked = {}

ExitIsFinal ==
  /\ exit = 9 <=> pc # "done"
  /\ exit \in {0, 3} => failed = {} /\ written # {}

IInv ==
  TypeOK /\ LabelNeverAhead /\ HandlersHavePut /\ WrittenIsStored /\ Tracked /\ AllHeard /\ ExitIsFinal

LEMMA InitIInv == Init => IInv
<1> SUFFICES ASSUME Init  PROVE IInv
  OBVIOUS
<1> USE UpdateAssumption DEF Init
<1>1. TypeOK
  <2>1. \A w \in Windows : Id(w) \in Ids
    BY DEF Id, Ids
  <2>2. table \subseteq Entries
    BY <2>1 DEF Entries, Builds
  <2>3. page \in [Windows -> [load : 1..MaxLoads, ver : Builds \cup {"closed"}]]
    BY DEF Builds
  <2>4. verdict \in [Targets -> Verdicts] /\ before \in (SUBSET Ids) \cup {Unread}
    BY DEF Verdicts, Unread
  <2> QED  BY <2>2, <2>3, <2>4 DEF TypeOK, Builds
<1>2. LabelNeverAhead /\ HandlersHavePut /\ WrittenIsStored
  BY DEF LabelNeverAhead, HandlersHavePut, WrittenIsStored
<1>3. Tracked /\ AllHeard /\ ExitIsFinal
  BY DEF Tracked, AllHeard, ExitIsFinal
<1> QED  BY <1>1, <1>2, <1>3 DEF IInv

------------------------------------------------------------------------------
(* Type correctness. *)

LEMMA HeardTypes ==
  ASSUME TypeOK, NEW t \in Ids, NEW ok \in BOOLEAN, Heard(t, ok)
  PROVE  asked' \subseteq Ids /\ written' \subseteq Ids /\ failed' \subseteq Targets
BY DEF TypeOK, Heard, Targets

LEMMA IdIsId == ASSUME TypeOK, NEW w \in Windows  PROVE Id(w) \in Ids
BY DEF TypeOK, Id, Ids

LEMMA LoadTypes ==
  ASSUME TypeOK, NEW w \in Windows, NEW build \in Builds \cup {"closed"}, Load(w, build), quiet' \in BOOLEAN
  PROVE  TypeOK'
<1>1. page' \in [Windows -> [load : 1..MaxLoads, ver : Builds \cup {"closed"}]]
  <2>1. page[w].load + 1 \in 1..MaxLoads
    BY UpdateAssumption DEF TypeOK, Load
  <2>2. page' = [page EXCEPT ![w] = [load |-> page[w].load + 1, ver |-> build]]
    BY DEF Load
  <2> QED  BY <2>1, <2>2 DEF TypeOK
<1>2. step' \in [Windows -> {"none", "begun", "half", "ok", "error"}] /\ timer' \subseteq Windows
  BY DEF TypeOK, Load
<1> QED  BY <1>1, <1>2 DEF TypeOK, Load, storageVars, optionVars, cliVars

LEMMA TypeStep == TypeOK /\ [Next]_vars => TypeOK'
<1> SUFFICES ASSUME TypeOK, [Next]_vars  PROVE TypeOK'
  OBVIOUS
<1> USE DEF storageVars, pageVars, optionVars, cliVars
<1>0. \A w \in Windows : page[w].ver \in Builds \cup {"closed"} /\ (Open(w) => page[w].ver \in Builds)
  BY DEF TypeOK, Open
<1>1. ASSUME NEW w \in Windows, TimerFires(w) \/ UserReloads(w) \/ UserOpens(w) \/ UserCloses(w)
      PROVE  TypeOK'
  <2>1. CASE UserCloses(w)
    <3>1. page' \in [Windows -> [load : 1..MaxLoads, ver : Builds \cup {"closed"}]]
      BY <2>1 DEF TypeOK, UserCloses
    <3> QED  BY <2>1, <3>1 DEF TypeOK, UserCloses
  <2>2. CASE UserOpens(w)
    BY <2>2, LoadTypes DEF TypeOK, UserOpens
  <2>3. CASE UserReloads(w)
    BY <2>3, <1>0, LoadTypes DEF TypeOK, UserReloads
  <2>4. CASE TimerFires(w)
    BY <2>4, <1>0, LoadTypes DEF TypeOK, TimerFires
  <2> QED  BY <1>1, <2>1, <2>2, <2>3, <2>4
<1>2. ASSUME NEW w \in Windows, Connects(w)  PROVE TypeOK'
  <2>1. [id |-> Id(w), ver |-> page[w].ver] \in Entries
    BY <1>0, <1>2, IdIsId DEF Connects, Entries
  <2> QED  BY <1>2, <2>1 DEF TypeOK, Connects
<1>3. ASSUME NEW e \in table, Leaves(e)  PROVE TypeOK'
  <2>1. e.id \in Ids
    BY DEF TypeOK, Entries
  <2>2. asked' \subseteq Ids /\ written' \subseteq Ids /\ failed' \subseteq Targets
    BY <1>3, <2>1, HeardTypes DEF TypeOK, Leaves
  <2>3. quiet' \in BOOLEAN
    BY <1>3 DEF Leaves
  <2>4. table' \subseteq Entries
    BY <1>3 DEF TypeOK, Leaves
  <2> QED  BY <1>3, <2>2, <2>3, <2>4 DEF TypeOK, Leaves
<1>4. ASSUME NEW w \in Windows,
             HandlerRefuses(w) \/ PutFile(w) \/ PutLabel(w) \/ PutLabelFails(w)
      PROVE  TypeOK'
  <2>1. step' \in [Windows -> {"none", "begun", "half", "ok", "error"}]
    BY <1>4 DEF TypeOK, HandlerRefuses, PutFile, PutLabel, PutLabelFails
  <2>2. file' \in Builds /\ label' \in Builds /\ timer' \subseteq Windows
    BY <1>4 DEF TypeOK, HandlerRefuses, PutFile, PutLabel, PutLabelFails, Builds
  <2> QED  BY <1>4, <2>1, <2>2 DEF TypeOK, HandlerRefuses, PutFile, PutLabel, PutLabelFails
<1>5. ASSUME NEW w \in Windows, Answers(w)  PROVE TypeOK'
  <2>1. asked' \subseteq Ids /\ written' \subseteq Ids /\ failed' \subseteq Targets
    <3>1. (step[w] = "ok") \in BOOLEAN
      OBVIOUS
    <3>2. CASE Id(w) \in asked
      <4>1. Heard(Id(w), step[w] = "ok")
        BY <1>5, <3>2 DEF Answers
      <4> QED  BY <4>1, <3>1, IdIsId, HeardTypes
    <3>3. CASE Id(w) \notin asked
      BY <1>5, <3>3 DEF Answers, TypeOK
    <3> QED  BY <3>2, <3>3
  <2>2. step' \in [Windows -> {"none", "begun", "half", "ok", "error"}]
    BY <1>5 DEF TypeOK, Answers
  <2> QED  BY <1>5, <2>1, <2>2 DEF TypeOK, Answers
<1>6. CASE ReadsTable
  <2>1. before' \in (SUBSET Ids) \cup {Unread} /\ quiet' \in BOOLEAN
    BY <1>6 DEF TypeOK, ReadsTable, Online, Entries
  <2>2. todo' \subseteq Targets
    <3>1. \A w \in Windows, n \in 1..MaxLoads : [win |-> w, load |-> n] \in Ids
      BY DEF Ids
    <3>2. before' \subseteq Targets
      BY <2>1 DEF Targets, Unread
    <3>3. \/ UNCHANGED todo
          \/ todo' = before'
          \/ todo' = {Unhinted}
          \/ \E w \in Windows, n \in 1..MaxLoads : todo' = {[win |-> w, load |-> n]}
      BY <1>6 DEF ReadsTable, TypeOK
    <3> QED  BY <3>1, <3>2, <3>3 DEF TypeOK, Targets
  <2>3. pc' \in {"snapshot", "write", "verify", "done"} /\ exit' \in {0, 1, 2, 3, 9}
    BY <1>6 DEF TypeOK, ReadsTable, Stops
  <2> QED  BY <1>6, <2>1, <2>2, <2>3 DEF TypeOK, ReadsTable
<1>7. ASSUME NEW t \in todo, Asks(t)  PROVE TypeOK'
  <2>1. Picked(t) \subseteq Ids
    BY DEF TypeOK, Picked, Online, Entries
  <2>2. asked' \subseteq Ids /\ failed' \subseteq Targets
    BY <1>7, <2>1 DEF TypeOK, Asks
  <2>3. step' \in [Windows -> {"none", "begun", "half", "ok", "error"}]
    BY <1>7 DEF TypeOK, Asks
  <2> QED  BY <1>7, <2>2, <2>3 DEF TypeOK, Asks
<1>8. CASE NoAnswer
  <2>1. asked' \subseteq Ids /\ written' \subseteq Ids /\ failed' \subseteq Targets
    BY <1>8, HeardTypes DEF TypeOK, NoAnswer
  <2> QED  BY <1>8, <2>1 DEF TypeOK, NoAnswer
<1>9. CASE EndsWrites \/ Concludes
  <2>1. pending' \subseteq Targets
    BY <1>9 DEF TypeOK, EndsWrites, Concludes, Aims, Targets, Unread
  <2>2. pc' \in {"snapshot", "write", "verify", "done"} /\ exit' \in {0, 1, 2, 3, 9}
    BY <1>9 DEF TypeOK, EndsWrites, Concludes, Stops
  <2> QED  BY <1>9, <2>1, <2>2 DEF TypeOK, EndsWrites, Concludes
<1>10. CASE Polls \/ PollsInVain
  <2>1. \A t \in Targets : Judges(t) \in Verdicts
    BY DEF Judges, Verdicts
  <2>2. verdict' \in [Targets -> Verdicts]
    BY <1>10, <2>1 DEF TypeOK, Polls, PollsInVain, Verdicts
  <2>3. pending' \subseteq Targets
    BY <1>10 DEF TypeOK, Polls, PollsInVain
  <2> QED  BY <1>10, <2>2, <2>3 DEF TypeOK, Polls, PollsInVain
<1>11. CASE UNCHANGED vars
  BY <1>11 DEF TypeOK, vars
<1> QED  BY <1>1, <1>2, <1>3, <1>4, <1>5, <1>6, <1>7, <1>8, <1>9, <1>10, <1>11 DEF Next

\* Every variable keeps its type.
THEOREM TypeCorrect == Spec => []TypeOK
<1>1. Init => TypeOK
  BY InitIInv DEF IInv
<1> QED  BY <1>1, TypeStep, PTL DEF Spec

------------------------------------------------------------------------------
(* The invariant. *)

\* A window that answered "ok" has put both records.
LEMMA HeardKeeps ==
  ASSUME TypeOK, NEW t \in Ids, NEW ok \in BOOLEAN, Heard(t, ok), WrittenIsStored,
         UNCHANGED label, ok => label = "new"
  PROVE  WrittenIsStored'
BY DEF TypeOK, Heard, WrittenIsStored

LEMMA IInvStep == IInv /\ [Next]_vars => IInv'
<1> SUFFICES ASSUME IInv, [Next]_vars  PROVE IInv'
  OBVIOUS
<1>0. TypeOK /\ TypeOK'
  BY TypeStep DEF IInv
<1> USE DEF storageVars, pageVars, optionVars, cliVars
<1> DEFINE Stored == LabelNeverAhead /\ HandlersHavePut /\ WrittenIsStored
           Run == Tracked /\ AllHeard /\ ExitIsFinal
<1>a. Stored /\ Run
  BY DEF IInv
<1>b. SUFFICES Stored' /\ Run'
  BY <1>0, <1>b DEF IInv
<1>1. ASSUME NEW w \in Windows,
             TimerFires(w) \/ UserReloads(w) \/ UserOpens(w) \/ UserCloses(w) \/ Connects(w)
      PROVE  Stored' /\ Run'
  <2>1. \A v \in Windows : step'[v] \in {step[v], "none"}
    BY <1>0, <1>1 DEF TypeOK, TimerFires, UserReloads, UserOpens, UserCloses, Connects, Load
  <2>2. UNCHANGED <<storageVars, cliVars>>
    BY <1>1 DEF TimerFires, UserReloads, UserOpens, UserCloses, Connects, Load
  <2> QED
    BY <1>a, <2>1, <2>2
       DEF LabelNeverAhead, HandlersHavePut, WrittenIsStored, Tracked, AllHeard, ExitIsFinal
<1>2. ASSUME NEW w \in Windows,
             HandlerRefuses(w) \/ PutFile(w) \/ PutLabel(w) \/ PutLabelFails(w)
      PROVE  Stored' /\ Run'
  <2>1. UNCHANGED cliVars
    BY <1>2 DEF HandlerRefuses, PutFile, PutLabel, PutLabelFails
  <2>2. Run'
    BY <1>a, <2>1 DEF Tracked, AllHeard, ExitIsFinal
  <2>3. CASE HandlerRefuses(w) \/ PutLabelFails(w)
    <3>1. \A v \in Windows : step'[v] \in {step[v], "error"}
      BY <1>0, <2>3 DEF TypeOK, HandlerRefuses, PutLabelFails
    <3>2. UNCHANGED storageVars
      BY <2>3 DEF HandlerRefuses, PutLabelFails
    <3> QED
      BY <1>a, <2>1, <2>2, <3>1, <3>2 DEF LabelNeverAhead, HandlersHavePut, WrittenIsStored
  <2>4. CASE PutFile(w)
    <3>1. \A v \in Windows : step'[v] \in {step[v], "half"}
      BY <1>0, <2>4 DEF TypeOK, PutFile
    <3>2. file' = "new" /\ label' = label
      BY <2>4 DEF PutFile
    <3> QED
      BY <1>a, <2>1, <2>2, <3>1, <3>2 DEF LabelNeverAhead, HandlersHavePut, WrittenIsStored
  <2>5. CASE PutLabel(w)
    <3>1. file = "new" /\ file' = "new" /\ label' = "new"
      BY <1>a, <2>5 DEF PutLabel, HandlersHavePut
    <3> QED
      BY <1>a, <2>1, <2>2, <3>1 DEF LabelNeverAhead, HandlersHavePut, WrittenIsStored
  <2> QED  BY <1>2, <2>2, <2>3, <2>4, <2>5
<1>3. ASSUME NEW t \in Ids, NEW ok \in BOOLEAN, Heard(t, ok), t \in asked, ok => label = "new",
             UNCHANGED <<storageVars, pc, todo, exit>>,
             \A v \in Windows : step'[v] \in {step[v], "none"}
      PROVE  Stored' /\ Run'
  <2>1. Stored'
    BY <1>0, <1>a, <1>3, HeardKeeps DEF LabelNeverAhead, HandlersHavePut
  <2>2. pc = "write" /\ exit = 9
    BY <1>a, <1>3 DEF AllHeard, ExitIsFinal
  <2>3. written' \cup failed' # {}
    BY <1>3 DEF Heard
  <2>4. Run'
    BY <1>3, <2>2, <2>3 DEF Tracked, AllHeard, ExitIsFinal
  <2> QED  BY <2>1, <2>4
<1>4. ASSUME NEW e \in table, Leaves(e)  PROVE Stored' /\ Run'
  <2>1. CASE e.id \in asked
    <3>1. e.id \in Ids /\ Heard(e.id, FALSE)
      BY <1>0, <1>4, <2>1 DEF TypeOK, Entries, Leaves
    <3>2. \A v \in Windows : step'[v] \in {step[v], "none"}
      BY <1>4 DEF Leaves
    <3>3. UNCHANGED <<storageVars, pc, todo, exit>>
      BY <1>4 DEF Leaves
    <3> QED  BY <1>3, <2>1, <3>1, <3>2, <3>3
  <2>2. CASE e.id \notin asked
    BY <1>a, <1>4, <2>2
       DEF Leaves, LabelNeverAhead, HandlersHavePut, WrittenIsStored, Tracked, AllHeard, ExitIsFinal
  <2> QED  BY <2>1, <2>2
<1>5. ASSUME NEW w \in Windows, Answers(w)  PROVE Stored' /\ Run'
  <2>0. \A v \in Windows : step'[v] \in {step[v], "none"}
    BY <1>0, <1>5 DEF TypeOK, Answers
  <2>1. CASE Id(w) \in asked
    <3>1. Heard(Id(w), step[w] = "ok") /\ (step[w] = "ok") \in BOOLEAN
      BY <1>5, <2>1 DEF Answers
    <3>2. step[w] = "ok" => label = "new"
      BY <1>a DEF HandlersHavePut
    <3>3. Id(w) \in Ids /\ UNCHANGED <<storageVars, pc, todo, exit>>
      BY <1>0, <1>5, IdIsId DEF Answers
    <3> QED  BY <1>3, <2>0, <2>1, <3>1, <3>2, <3>3
  <2>2. CASE Id(w) \notin asked
    BY <1>a, <1>5, <2>0, <2>2
       DEF Answers, LabelNeverAhead, HandlersHavePut, WrittenIsStored, Tracked, AllHeard, ExitIsFinal
  <2> QED  BY <2>1, <2>2
<1>6. CASE NoAnswer
  <2>1. PICK t \in asked : Heard(t, FALSE)
    BY <1>6 DEF NoAnswer
  <2>2. t \in Ids /\ UNCHANGED <<storageVars, pc, todo, exit>> /\ UNCHANGED step
    BY <1>0, <1>6 DEF TypeOK, NoAnswer
  <2> QED  BY <1>3, <2>1, <2>2
<1>7. CASE ReadsTable
  <2>1. Stored'
    BY <1>a, <1>7 DEF ReadsTable, LabelNeverAhead, HandlersHavePut, WrittenIsStored
  <2>2. exit = 9 /\ todo = {} /\ asked = {}
    BY <1>a, <1>7 DEF ReadsTable, ExitIsFinal, AllHeard
  <2>3. CASE Refuses(before')
    BY <1>7, <2>1, <2>2, <2>3 DEF ReadsTable, Stops, Tracked, AllHeard, ExitIsFinal
  <2>4. CASE ~Refuses(before')
    <3>1. pc' = "write" /\ exit' = 9 /\ todo' # {}
      BY <1>7, <2>2, <2>4 DEF ReadsTable, Refuses
    <3> QED  BY <2>1, <3>1 DEF Tracked, AllHeard, ExitIsFinal
  <2> QED  BY <2>3, <2>4
<1>8. ASSUME NEW t \in todo, Asks(t)  PROVE Stored' /\ Run'
  <2>1. \A v \in Windows : step'[v] \in {step[v], "begun"}
    BY <1>0, <1>8 DEF TypeOK, Asks
  <2>2. Stored'
    BY <1>a, <1>8, <2>1 DEF Asks, LabelNeverAhead, HandlersHavePut, WrittenIsStored
  <2>3. asked' \cup failed' # {}
    <3>1. Cardinality({}) = 0
      BY FS_EmptySet
    <3>2. CASE Cardinality(Picked(t)) = 1
      BY <1>8, <3>1, <3>2 DEF Asks
    <3>3. CASE Cardinality(Picked(t)) # 1
      BY <1>8, <3>3 DEF Asks
    <3> QED  BY <3>2, <3>3
  <2>4. pc' = "write" /\ exit' = 9
    BY <1>a, <1>8 DEF Asks, ExitIsFinal
  <2>5. Run'
    BY <2>3, <2>4 DEF Tracked, AllHeard, ExitIsFinal
  <2> QED  BY <2>2, <2>5
<1>9. CASE EndsWrites
  <2>1. Stored'
    BY <1>a, <1>9 DEF EndsWrites, LabelNeverAhead, HandlersHavePut, WrittenIsStored
  <2>2. failed = {} => written # {}
    BY <1>a, <1>9 DEF EndsWrites, Tracked
  <2>3. Run'
    BY <1>a, <1>9, <2>2 DEF EndsWrites, Stops, Tracked, AllHeard, ExitIsFinal
  <2> QED  BY <2>1, <2>3
<1>10. CASE Polls \/ PollsInVain
  BY <1>a, <1>10
     DEF Polls, PollsInVain, LabelNeverAhead, HandlersHavePut, WrittenIsStored, Tracked, AllHeard,
         ExitIsFinal
<1>11. CASE Concludes
  <2>1. Stored'
    BY <1>a, <1>11 DEF Concludes, LabelNeverAhead, HandlersHavePut, WrittenIsStored
  <2>2. failed = {} => written # {}
    BY <1>a, <1>11 DEF Concludes, Tracked, AllHeard
  <2>3. pc' = "done" /\ todo' = {} /\ asked' = {} /\ exit' \in {0, 1, 3}
        /\ UNCHANGED <<failed, written>> /\ (exit' \in {0, 3} => failed = {})
    BY <1>a, <1>11 DEF Concludes, Stops, AllHeard
  <2> QED  BY <2>1, <2>2, <2>3 DEF Tracked, AllHeard, ExitIsFinal
<1>12. CASE UNCHANGED vars
  BY <1>a, <1>12
     DEF vars, LabelNeverAhead, HandlersHavePut, WrittenIsStored, Tracked, AllHeard, ExitIsFinal
<1> QED
  BY <1>1, <1>2, <1>4, <1>5, <1>6, <1>7, <1>8, <1>9, <1>10, <1>11, <1>12 DEF Next

THEOREM IInvariant == Spec => []IInv
BY InitIInv, IInvStep, PTL DEF Spec

\* LabelNeverAhead, for any number of windows whose handlers write at a time.
THEOREM LabelNeverAheadTheorem == Spec => []LabelNeverAhead
<1>1. IInv => LabelNeverAhead
  BY DEF IInv
<1> QED  BY <1>1, IInvariant, PTL

\* ReportedIsStored: the last window of the command's list that answered ok has stored both
\* records, and a window that did not answer is an error.
THEOREM ReportedIsStoredTheorem == Spec => []ReportedIsStored
<1>1. IInv => ReportedIsStored
  BY DEF IInv, ExitIsFinal, WrittenIsStored, LabelNeverAhead, ReportedIsStored
<1> QED  BY <1>1, IInvariant, PTL

------------------------------------------------------------------------------
(***************************************************************************)
(* The verdict of a run that nothing else disturbed.  Book is what always  *)
(* holds of ids, tables and verdicts; Calm is what a quiet run adds: every *)
(* open page is one that was online before or has moved once, because of   *)
(* a write, and no newcomer in the table is anything but such a page.      *)
(***************************************************************************)

\* The ids that the command has sent sys.self_update to, or failed to.
Tried == asked \cup written \cup failed

\* An id is never ahead of its page, and the table tells the build of a page that is there.
Ages ==
  /\ before # Unread => \A i \in before : i.load <= page[i.win].load
  /\ \A e \in table : e.id.load <= page[e.id.win].load
  /\ \A e \in table : Open(e.id.win) /\ e.id = Id(e.id.win) => e.ver = page[e.id.win].ver
  /\ \A w \in Windows : ~Open(w) => step[w] = "none" /\ w \notin timer

\* Nothing is under way before the table is read.
Begins ==
  pc = "snapshot" => /\ \A w \in Windows : step[w] = "none"
                     /\ timer = {} /\ asked = {} /\ written = {} /\ failed = {}
                     /\ ~quiet

\* Whom the command asks: one at a time, with --all from the list that it read.
Plan ==
  /\ \A a, b \in asked : a = b
  /\ mode = "all" /\ pc = "write" => before # Unread /\ todo \subseteq before
  /\ mode # "all" => \A a, b \in todo : a = b
  /\ mode # "all" /\ Tried # {} => todo = {}
  /\ mode = "single" /\ pc \in {"write", "verify"} => ~(Cardinality(before) > 1)
  /\ IsFiniteSet(written)

\* What the verification keeps of its verdicts.
VerdictsSoFar ==
  /\ pc \in {"snapshot", "write"} \/ before = Unread => \A t \in Targets : verdict[t] = "pending"
  /\ pc = "verify" => how = "verify" /\ pending \subseteq Aims /\ (mode # "all" => failed = {})
  /\ pc = "verify" => \A t \in Aims : t \in pending <=> verdict[t] \in {"pending", "unconfirmed"}

Book == Ages /\ Begins /\ Plan /\ VerdictsSoFar

Known == quiet /\ before # Unread

\* The page of w has come back once since the table was read, and will not move again.
Moved(w) ==
  /\ step[w] = "none" /\ w \notin timer /\ Id(w) \notin before
  /\ \E t \in Tried : t.win = w /\ t.load + 1 = page[w].load

Calm ==
  Known =>
    /\ \A w \in Windows : Open(w) => Id(w) \in before \/ Moved(w)
    /\ \A w \in Windows : step[w] # "none" \/ w \in timer => Id(w) \in Tried
    /\ \A e \in Newcomers : Open(e.id.win) /\ e.id = Id(e.id.win)
    /\ \A t \in written : /\ t \in before /\ Open(t.win)
                          /\ \/ t = Id(t.win)
                             \/ page[t.win].load = t.load + 1 /\ Id(t.win) \notin before

\* The name the command has for no window in particular is no instance id.
LEMMA UnhintedIsNoId == Unhinted \notin Ids
BY UpdateAssumption DEF Unhinted, Ids

\* A list that could be read is a list of ids.
LEMMA ReadIds == ASSUME TypeOK, before # Unread PROVE before \subseteq Ids
BY DEF TypeOK

LEMMA AimsAreTargets == ASSUME TypeOK PROVE Aims \subseteq Targets /\ written \subseteq Targets
BY DEF TypeOK, Aims, Targets, Unread

------------------------------------------------------------------------------
(* Book is inductive. *)

LEMMA InitBook == Init => Book
<1> SUFFICES ASSUME Init PROVE Book
  OBVIOUS
<1>1. Ages
  <2>1. \A e \in table : e.id \in {Id(w) : w \in Windows} /\ e.ver = "old"
    BY DEF Init
  <2>2. \A w \in Windows : page[w].load = 1 /\ page[w].ver \in {"old", "closed"}
    BY DEF Init
  <2>3. \A e \in table : e.id.win \in Windows /\ e.id.load = 1
    BY <2>1, <2>2 DEF Id
  <2> QED  BY <2>1, <2>2, <2>3 DEF Init, Ages, Open, Id
<1>2. Begins /\ VerdictsSoFar
  BY DEF Init, Begins, VerdictsSoFar
<1>3. Plan
  BY FS_EmptySet DEF Init, Plan, Tried
<1> QED  BY <1>1, <1>2, <1>3 DEF Book

\* A page only ever goes forward, and at most one page moves at a time.
LEMMA PagesGrow ==
  ASSUME TypeOK, [Next]_vars
  PROVE  /\ \A w \in Windows : page'[w].load \in Nat /\ page[w].load \in Nat
         /\ \A w \in Windows : page[w].load <= page'[w].load
<1> USE DEF TypeOK
<1>1. TypeOK'
  BY TypeStep
<1>2. \A w \in Windows : page'[w].load \in Nat /\ page[w].load \in Nat
  BY <1>1
<1>3. ASSUME NEW v \in Windows,
             TimerFires(v) \/ UserReloads(v) \/ UserOpens(v) \/ UserCloses(v)
      PROVE  \A w \in Windows : page[w].load <= page'[w].load
  BY <1>2, <1>3 DEF TimerFires, UserReloads, UserOpens, UserCloses, Load
<1>4. ASSUME UNCHANGED page
      PROVE  \A w \in Windows : page[w].load <= page'[w].load
  BY <1>2, <1>4
<1>5. \/ UNCHANGED page
      \/ \E v \in Windows : TimerFires(v) \/ UserReloads(v) \/ UserOpens(v) \/ UserCloses(v)
  BY DEF Next, Connects, HandlerRefuses, PutFile, PutLabel, PutLabelFails, Answers, Leaves, Asks,
         ReadsTable, NoAnswer, EndsWrites, Polls, PollsInVain, Concludes, pageVars, vars
<1> QED  BY <1>2, <1>3, <1>4, <1>5

\* What a page's move does to ids and handlers; w is the page that moves.
LEMMA MoveFacts ==
  ASSUME TypeOK, NEW w \in Windows,
         TimerFires(w) \/ UserReloads(w) \/ UserOpens(w) \/ UserCloses(w)
  PROVE  /\ \A v \in Windows \ {w} : page'[v] = page[v] /\ step'[v] = step[v]
                                     /\ (v \in timer' <=> v \in timer)
         /\ step'[w] = "none" /\ w \notin timer'
         /\ \/ page'[w].load = page[w].load /\ page'[w].ver = "closed" /\ UserCloses(w)
            \/ page'[w].load = page[w].load + 1
         /\ UNCHANGED <<table, storageVars, optionVars, cliVars>>
<1>1. CASE UserCloses(w)
  BY <1>1 DEF UserCloses, TypeOK
<1>2. CASE \E build \in Builds \cup {"closed"} : Load(w, build)
  BY <1>2 DEF Load, TypeOK
<1>3. \A build : Load(w, build) /\ build \in {file, page[w].ver} => build \in Builds \cup {"closed"}
  BY DEF TypeOK
<1>4. CASE ~UserCloses(w)
  <2>1. \E build \in {file, page[w].ver} : Load(w, build)
    BY <1>4 DEF TimerFires, UserReloads, UserOpens
  <2> QED  BY <1>2, <1>3, <2>1
<1> QED  BY <1>1, <1>4

\* An id that the table lists is one that its page has had.
LEMMA AgesStep ==
  ASSUME TypeOK, TypeOK', Ages, Begins, [Next]_vars
  PROVE  Ages'
<1> USE DEF TypeOK, storageVars, pageVars, optionVars, cliVars
<1>0. /\ \A e \in table : e.id \in Ids /\ e.id.win \in Windows /\ e.id.load \in Nat
      /\ \A w \in Windows : page[w].load \in Nat /\ page'[w].load \in Nat
                            /\ page[w].load <= page'[w].load
  <2>1. \A e \in table : e.id \in Ids /\ e.id.win \in Windows /\ e.id.load \in Nat
    BY DEF Entries, Ids
  <2> QED  BY <2>1, PagesGrow
<1>1. before' # Unread => \A i \in before' : i.load <= page'[i.win].load
  <2>1. CASE UNCHANGED before
    <3> SUFFICES ASSUME before # Unread, NEW i \in before PROVE i.load <= page'[i.win].load
      BY <2>1
    <3>1. i.win \in Windows /\ i.load \in Nat
      BY DEF Ids
    <3>2. i.load <= page[i.win].load
      BY DEF Ages
    <3> QED  BY <1>0, <3>1, <3>2
  <2>2. CASE ReadsTable
    <3> SUFFICES ASSUME before' # Unread, NEW i \in before' PROVE i.load <= page[i.win].load
      BY <2>2 DEF ReadsTable
    <3>1. PICK e \in table : i = e.id
      BY <2>2 DEF ReadsTable, Online
    <3> QED  BY <3>1 DEF Ages
  <2>3. UNCHANGED before \/ ReadsTable
    BY DEF Next, TimerFires, UserReloads, UserOpens, UserCloses, Load, Connects, HandlerRefuses,
           PutFile, PutLabel, PutLabelFails, Answers, Leaves, Asks, NoAnswer, EndsWrites, Polls,
           PollsInVain, Concludes, vars
  <2> QED  BY <2>1, <2>2, <2>3
<1> DEFINE Entry ==
      /\ \A e \in table : e.id.load <= page[e.id.win].load
      /\ \A e \in table : Open(e.id.win) /\ e.id = Id(e.id.win) => e.ver = page[e.id.win].ver
           Still == \A w \in Windows : ~Open(w) => step[w] = "none" /\ w \notin timer
<1>2. Entry'
  <2>1. CASE table' \subseteq table /\ UNCHANGED page
    BY <2>1 DEF Ages, Open, Id
  <2>2. ASSUME NEW w \in Windows,
               TimerFires(w) \/ UserReloads(w) \/ UserOpens(w) \/ UserCloses(w)
        PROVE  Entry'
    <3>1. /\ \A v \in Windows \ {w} : page'[v] = page[v]
          /\ \/ page'[w].load = page[w].load /\ page'[w].ver = "closed"
             \/ page'[w].load = page[w].load + 1
          /\ table' = table
      BY <2>2, MoveFacts
    <3>2. \A e \in table : e.id.load <= page'[e.id.win].load
      BY <1>0 DEF Ages
    <3>3. ASSUME NEW e \in table, e.id.win = w, page'[w].ver # "closed"
          PROVE  e.id.load < page'[w].load
      BY <1>0, <3>1, <3>3 DEF Ages
    <3>4. ASSUME NEW e \in table, Open(e.id.win)', e.id = Id(e.id.win)'
          PROVE  e.ver = page'[e.id.win].ver
      <4>1. e.id.load = page'[e.id.win].load /\ page'[e.id.win].ver # "closed"
        BY <3>4 DEF Open, Id
      <4>2. e.id.win # w
        BY <1>0, <3>3, <4>1
      <4>3. page'[e.id.win] = page[e.id.win]
        BY <1>0, <3>1, <4>2
      <4> QED  BY <3>4, <4>3 DEF Ages, Open, Id
    <3> QED  BY <3>1, <3>2, <3>4
  <2>3. ASSUME NEW w \in Windows, Connects(w) PROVE Entry'
    <3>1. table' = table \cup {[id |-> Id(w), ver |-> page[w].ver]} /\ page' = page
      BY <2>3 DEF Connects
    <3>2. Id(w).win = w /\ Id(w).load = page[w].load
      BY DEF Id
    <3>3. \A v \in Windows : (Open(v)' <=> Open(v)) /\ Id(v)' = Id(v)
      BY <3>1 DEF Open, Id
    <3> QED  BY <1>0, <3>1, <3>2, <3>3 DEF Ages
  <2>4. ASSUME NEW e \in table, Leaves(e) PROVE Entry'
    BY <2>1, <2>4 DEF Leaves
  <2>5. ASSUME UNCHANGED <<table, page>> PROVE Entry'
    BY <2>1, <2>5
  <2>6. \/ UNCHANGED <<table, page>>
        \/ \E e \in table : Leaves(e)
        \/ \E w \in Windows : Connects(w)
        \/ \E w \in Windows : TimerFires(w) \/ UserReloads(w) \/ UserOpens(w) \/ UserCloses(w)
    BY DEF Next, HandlerRefuses, PutFile, PutLabel, PutLabelFails, Answers, Asks, ReadsTable,
           NoAnswer, EndsWrites, Polls, PollsInVain, Concludes, vars
  <2> QED  BY <2>2, <2>3, <2>4, <2>5, <2>6
<1>3. Still'
  <2>0. Still
    BY DEF Ages
  <2>1. ASSUME NEW w \in Windows,
               TimerFires(w) \/ UserReloads(w) \/ UserOpens(w) \/ UserCloses(w)
        PROVE  Still'
    <3>1. /\ \A v \in Windows \ {w} : page'[v] = page[v] /\ step'[v] = step[v]
                                      /\ (v \in timer' <=> v \in timer)
          /\ step'[w] = "none" /\ w \notin timer'
      BY <2>1, MoveFacts
    <3> QED  BY <2>0, <3>1 DEF Open
  <2>2. ASSUME UNCHANGED <<page, step, timer>> PROVE Still'
    BY <2>0, <2>2 DEF Open
  <2>3. ASSUME NEW w \in Windows,
               HandlerRefuses(w) \/ PutFile(w) \/ PutLabel(w) \/ PutLabelFails(w) \/ Answers(w)
        PROVE  Still'
    <3>1. /\ step[w] # "none" /\ page' = page
          /\ \A v \in Windows \ {w} : step'[v] = step[v] /\ (v \in timer' => v \in timer)
      BY <2>3 DEF HandlerRefuses, PutFile, PutLabel, PutLabelFails, Answers
    <3> QED  BY <2>0, <3>1 DEF Open
  <2>4. ASSUME NEW t \in todo, Asks(t) PROVE Still'
    <3>1. /\ \A v \in Windows : ~Open(v) => step'[v] = step[v]
          /\ page' = page /\ timer' = timer
      BY <2>4 DEF Asks
    <3> QED  BY <2>0, <3>1 DEF Open
  <2>5. \/ UNCHANGED <<page, step, timer>>
        \/ \E t \in todo : Asks(t)
        \/ \E w \in Windows : \/ HandlerRefuses(w) \/ PutFile(w) \/ PutLabel(w) \/ PutLabelFails(w)
                              \/ Answers(w)
        \/ \E w \in Windows : TimerFires(w) \/ UserReloads(w) \/ UserOpens(w) \/ UserCloses(w)
    BY DEF Next, Connects, Leaves, ReadsTable, NoAnswer, EndsWrites, Polls, PollsInVain, Concludes,
           vars
  <2> QED  BY <2>1, <2>2, <2>3, <2>4, <2>5
<1> QED  BY <1>1, <1>2, <1>3 DEF Ages

\* There are only so many ids.
LEMMA IdsAreFinite == IsFiniteSet(Ids)
<1> DEFINE P == Windows \X (1..MaxLoads)
           f == [p \in P |-> [win |-> p[1], load |-> p[2]]]
<1>1. IsFiniteSet(1..MaxLoads)
  BY UpdateAssumption, FS_Interval
<1>2. IsFiniteSet(P)
  BY <1>1, UpdateAssumption, FS_Product
<1>3. f \in Surjection(P, Ids)
  <2>1. f \in [P -> Ids]
    BY DEF Ids
  <2>2. ASSUME NEW i \in Ids PROVE \E p \in P : f[p] = i
    <3>1. <<i.win, i.load>> \in P /\ i = [win |-> i.win, load |-> i.load]
      BY DEF Ids
    <3> QED  BY <3>1
  <2> QED  BY <2>1, <2>2 DEF Surjection
<1> QED  BY <1>2, <1>3, FS_Surjection

\* Until the table is read no page has a handler, a timer or an answer on its way.
LEMMA BeginsStep ==
  ASSUME IInv, Begins, [Next]_vars
  PROVE  Begins'
<1> SUFFICES ASSUME pc' = "snapshot"
             PROVE  /\ \A w \in Windows : step'[w] = "none"
                    /\ timer' = {} /\ asked' = {} /\ written' = {} /\ failed' = {}
                    /\ ~quiet'
  BY DEF Begins
<1> USE DEF storageVars, pageVars, optionVars, cliVars
<1>1. pc = "snapshot"
  BY DEF Next, TimerFires, UserReloads, UserOpens, UserCloses, Load, Connects, HandlerRefuses,
         PutFile, PutLabel, PutLabelFails, Answers, Leaves, Asks, NoAnswer, EndsWrites, Polls,
         PollsInVain, Concludes, ReadsTable, Stops, vars
<1>2. /\ \A w \in Windows : step[w] = "none"
      /\ timer = {} /\ asked = {} /\ written = {} /\ failed = {} /\ ~quiet /\ todo = {}
  BY <1>1 DEF Begins, IInv, AllHeard
<1>3. ASSUME NEW w \in Windows, UserReloads(w) \/ UserOpens(w) \/ UserCloses(w)
      PROVE  Begins'
  <2>1. \A v \in Windows : step'[v] = "none"
    BY <1>2, <1>3 DEF UserReloads, UserOpens, UserCloses, Load, IInv, TypeOK
  <2>2. timer' = {} /\ UNCHANGED cliVars /\ ~quiet'
    BY <1>2, <1>3 DEF UserReloads, UserOpens, UserCloses, Load
  <2> QED  BY <1>2, <2>1, <2>2 DEF Begins
<1>4. ASSUME NEW w \in Windows, Connects(w) PROVE Begins'
  BY <1>2, <1>4 DEF Connects, Begins
<1>5. ASSUME NEW e \in table, Leaves(e) PROVE Begins'
  BY <1>2, <1>5 DEF Leaves, Begins
<1>6. ~ReadsTable
  BY <1>1 DEF ReadsTable, Stops
<1>7. ~(\E w \in Windows : \/ TimerFires(w) \/ HandlerRefuses(w) \/ PutFile(w) \/ PutLabel(w)
                           \/ PutLabelFails(w) \/ Answers(w))
  BY <1>2 DEF TimerFires, HandlerRefuses, PutFile, PutLabel, PutLabelFails, Answers
<1>8. ~(\E t \in todo : Asks(t)) /\ ~NoAnswer
  BY <1>2 DEF NoAnswer
<1>9. ~(EndsWrites \/ Polls \/ PollsInVain \/ Concludes)
  BY <1>1 DEF EndsWrites, Polls, PollsInVain, Concludes
<1>10. CASE UNCHANGED vars
  BY <1>2, <1>10 DEF vars
<1> QED  BY <1>2, <1>3, <1>4, <1>5, <1>6, <1>7, <1>8, <1>9, <1>10 DEF Next, Begins

\* The command asks one window at a time, each only once, and remembers all of them.
LEMMA PlanStep ==
  ASSUME IInv, Begins, Plan, [Next]_vars
  PROVE  Plan'
<1> USE DEF storageVars, pageVars, optionVars, cliVars
<1>0. TypeOK /\ UNCHANGED mode
  BY DEF IInv, Next, TimerFires, UserReloads, UserOpens, UserCloses, Load, Connects, HandlerRefuses,
         PutFile, PutLabel, PutLabelFails, Answers, Leaves, Asks, NoAnswer, EndsWrites, Polls,
         PollsInVain, Concludes, ReadsTable, Stops, vars
<1>1. ASSUME UNCHANGED <<pc, before, todo, asked, written, failed>> PROVE Plan'
  BY <1>0, <1>1 DEF Plan, Tried
<1>2. ASSUME NEW t \in asked, NEW ok \in BOOLEAN, Heard(t, ok), UNCHANGED <<pc, before, todo>>
      PROVE  Plan'
  <2>1. IsFiniteSet(written')
    BY <1>2, FS_AddElement DEF Heard, Plan
  <2> QED  BY <1>0, <1>2, <2>1 DEF Plan, Tried, Heard
<1>3. ASSUME NEW w \in Windows,
             \/ TimerFires(w) \/ UserReloads(w) \/ UserOpens(w) \/ UserCloses(w) \/ Connects(w)
             \/ HandlerRefuses(w) \/ PutFile(w) \/ PutLabel(w) \/ PutLabelFails(w)
      PROVE  Plan'
  BY <1>1, <1>3 DEF TimerFires, UserReloads, UserOpens, UserCloses, Load, Connects, HandlerRefuses,
                    PutFile, PutLabel, PutLabelFails
<1>4. ASSUME NEW w \in Windows, Answers(w) PROVE Plan'
  <2>1. (step[w] = "ok") \in BOOLEAN
    OBVIOUS
  <2> QED  BY <1>1, <1>2, <1>4, <2>1 DEF Answers
<1>5. ASSUME NEW e \in table, Leaves(e) PROVE Plan'
  BY <1>1, <1>2, <1>5 DEF Leaves
<1>6. CASE NoAnswer
  BY <1>2, <1>6 DEF NoAnswer
<1>7. CASE ReadsTable
  <2>1. /\ asked = {} /\ written = {} /\ failed = {} /\ todo = {}
        /\ UNCHANGED <<asked, written, failed>>
    BY <1>7 DEF ReadsTable, Begins, IInv, AllHeard
  <2>2. CASE Refuses(before')
    BY <1>0, <1>7, <2>1, <2>2 DEF ReadsTable, Stops, Plan, Tried
  <2>3. CASE ~Refuses(before')
    <3>1. /\ pc' = "write"
          /\ mode = "all" => todo' = before' /\ before' # Unread
          /\ mode = "single" => ~(Cardinality(before') > 1)
      BY <1>7, <2>3 DEF ReadsTable, Refuses
    <3>2. mode # "all" => \A a, b \in todo' : a = b
      BY <1>7, <2>3 DEF ReadsTable
    <3> QED  BY <1>0, <2>1, <3>1, <3>2 DEF Plan, Tried
  <2> QED  BY <2>2, <2>3
<1>8. ASSUME NEW t \in todo, Asks(t) PROVE Plan'
  <2>1. ASSUME Cardinality(Picked(t)) = 1 PROVE \A a, b \in Picked(t) : a = b
    <3>1. Picked(t) \in SUBSET Ids
      BY <1>0 DEF TypeOK, Picked, Online, Entries
    <3>2. IsFiniteSet(Picked(t))
      BY <3>1, IdsAreFinite, FS_Subset
    <3> QED  BY <2>1, <3>2, FS_Singleton
  <2>2. \A a, b \in asked' : a = b
    BY <1>8, <2>1 DEF Asks
  <2>3. mode # "all" => todo' = {}
    BY <1>8 DEF Asks, Plan
  <2>4. todo' \subseteq todo /\ UNCHANGED <<pc, before, written>>
    BY <1>8 DEF Asks
  <2> QED  BY <1>0, <2>2, <2>3, <2>4 DEF Plan, Tried
<1>9. CASE EndsWrites \/ Polls \/ PollsInVain \/ Concludes
  <2>1. /\ UNCHANGED <<before, todo, asked, written, failed>>
        /\ pc' \in {"write", "verify"} => pc \in {"write", "verify"}
        /\ pc' # "write"
    BY <1>9 DEF EndsWrites, Polls, PollsInVain, Concludes, Stops
  <2> QED  BY <1>0, <2>1 DEF Plan, Tried
<1>10. CASE UNCHANGED vars
  BY <1>1, <1>10 DEF vars
<1> QED  BY <1>3, <1>4, <1>5, <1>6, <1>7, <1>8, <1>9, <1>10 DEF Next

\* A verdict is what the last round made of it, and a final one is not asked again.
LEMMA VerdictsStep ==
  ASSUME IInv, Plan, VerdictsSoFar, [Next]_vars
  PROVE  VerdictsSoFar'
<1> USE DEF storageVars, pageVars, optionVars, cliVars
<1>0. /\ TypeOK /\ UNCHANGED <<mode, how>>
      /\ pc = "verify" => asked = {}
  BY DEF IInv, AllHeard, Next, TimerFires, UserReloads, UserOpens, UserCloses, Load, Connects,
         HandlerRefuses, PutFile, PutLabel, PutLabelFails, Answers, Leaves, Asks, NoAnswer,
         EndsWrites, Polls, PollsInVain, Concludes, ReadsTable, Stops, vars
<1>1. ASSUME UNCHANGED <<pc, before, pending, verdict>>,
             pc = "verify" => UNCHANGED <<written, failed>>
      PROVE  VerdictsSoFar'
  <2>1. pc = "verify" => Aims' = Aims
    BY <1>0, <1>1 DEF Aims
  <2> QED  BY <1>0, <1>1, <2>1 DEF VerdictsSoFar
<1>2. ASSUME NEW w \in Windows,
             \/ TimerFires(w) \/ UserReloads(w) \/ UserOpens(w) \/ UserCloses(w) \/ Connects(w)
             \/ HandlerRefuses(w) \/ PutFile(w) \/ PutLabel(w) \/ PutLabelFails(w) \/ Answers(w)
      PROVE  VerdictsSoFar'
  <2>1. UNCHANGED <<pc, before, pending, verdict>>
    BY <1>2 DEF TimerFires, UserReloads, UserOpens, UserCloses, Load, Connects, HandlerRefuses,
                PutFile, PutLabel, PutLabelFails, Answers
  <2>2. asked = {} => UNCHANGED <<written, failed>>
    BY <1>2 DEF TimerFires, UserReloads, UserOpens, UserCloses, Load, Connects, HandlerRefuses,
                PutFile, PutLabel, PutLabelFails, Answers
  <2> QED  BY <1>0, <1>1, <2>1, <2>2
<1>3. ASSUME NEW e \in table, Leaves(e) PROVE VerdictsSoFar'
  BY <1>0, <1>1, <1>3 DEF Leaves
<1>4. CASE NoAnswer
  BY <1>0, <1>1, <1>4 DEF NoAnswer
<1>5. CASE ReadsTable
  <2>1. /\ \A t \in Targets : verdict[t] = "pending"
        /\ verdict' = verdict /\ pc' # "verify"
    BY <1>5 DEF ReadsTable, Stops, VerdictsSoFar
  <2> QED  BY <2>1 DEF VerdictsSoFar
<1>6. ASSUME NEW t \in todo, Asks(t) PROVE VerdictsSoFar'
  BY <1>1, <1>6 DEF Asks
<1>7. CASE EndsWrites
  <2>1. /\ \A t \in Targets : verdict[t] = "pending"
        /\ verdict' = verdict
    BY <1>7 DEF EndsWrites, VerdictsSoFar
  <2>2. /\ Aims' = Aims /\ pc' \in {"verify", "done"}
        /\ pc' = "verify" => how = "verify" /\ pending' = Aims /\ (mode # "all" => failed = {})
        /\ UNCHANGED <<failed, before>>
    BY <1>0, <1>7 DEF EndsWrites, Stops, Aims
  <2> QED  BY <1>0, <2>1, <2>2, AimsAreTargets DEF VerdictsSoFar
<1>8. CASE Polls \/ PollsInVain
  <2>1. /\ Aims' = Aims /\ pc = "verify" /\ pc' = "verify" /\ UNCHANGED <<before, failed>>
        /\ pending' \subseteq pending
    BY <1>0, <1>8 DEF Polls, PollsInVain, Aims
  <2>2. before = Unread => \A t \in Targets : verdict'[t] = "pending"
    BY <1>8 DEF Polls, PollsInVain, Judges, VerdictsSoFar
  <2>3. \A t \in Aims : t \in pending' <=> verdict'[t] \in {"pending", "unconfirmed"}
    <3> SUFFICES ASSUME NEW t \in Aims
                 PROVE  t \in pending' <=> verdict'[t] \in {"pending", "unconfirmed"}
      OBVIOUS
    <3>1. t \in Targets /\ (t \in pending <=> verdict[t] \in {"pending", "unconfirmed"})
      BY <1>0, <2>1, AimsAreTargets DEF VerdictsSoFar
    <3>2. CASE t \in pending
      BY <1>8, <3>1, <3>2 DEF Polls, PollsInVain
    <3>3. CASE t \notin pending
      BY <1>8, <2>1, <3>1, <3>3 DEF Polls, PollsInVain
    <3> QED  BY <3>2, <3>3
  <2> QED  BY <1>0, <2>1, <2>2, <2>3 DEF VerdictsSoFar
<1>9. CASE Concludes
  BY <1>9 DEF Concludes, Stops, VerdictsSoFar
<1>10. CASE UNCHANGED vars
  BY <1>1, <1>10 DEF vars
<1> QED  BY <1>2, <1>3, <1>4, <1>5, <1>6, <1>7, <1>8, <1>9, <1>10 DEF Next

\* All of it together.
LEMMA BookStep == IInv /\ Book /\ [Next]_vars => Book'
<1>1. IInv => TypeOK
  BY DEF IInv
<1>2. IInv /\ [Next]_vars => TypeOK'
  BY <1>1, TypeStep
<1> QED  BY <1>1, <1>2, AgesStep, BeginsStep, PlanStep, VerdictsStep DEF Book

------------------------------------------------------------------------------
(* Calm is inductive: while nobody else moves a page, pages move once and as told. *)

\* A page that has a handler or a timer was online before, and has not moved since.
LEMMA BusyWasOnline ==
  ASSUME Ages, Calm, Known, NEW w \in Windows, step[w] # "none" \/ w \in timer
  PROVE  Open(w) /\ Id(w) \in before /\ Id(w) \in Tried
BY DEF Ages, Calm, Moved

\* Hearing the outcome for the one that was asked loses no id.
LEMMA HeardKeepsTried ==
  ASSUME Plan, NEW t \in asked, NEW ok \in BOOLEAN, Heard(t, ok)
  PROVE  Tried' = Tried /\ written \subseteq written' /\ written' \subseteq written \cup {t}
         /\ (~ok => written' = written)
<1>1. asked = {t}
  BY DEF Plan
<1> QED  BY <1>1 DEF Heard, Tried

\* The reload that the update scheduled: the page was online before, and moves once.
LEMMA TimerKeepsCalm ==
  ASSUME TypeOK, Ages, Calm, Known, NEW w \in Windows, TimerFires(w)
  PROVE  Calm'
<1> USE DEF storageVars, pageVars, optionVars, cliVars
<1>1. Open(w) /\ Id(w) \in before /\ Id(w) \in Tried
  BY BusyWasOnline DEF TimerFires
<1>2. /\ \A v \in Windows \ {w} : page'[v] = page[v] /\ step'[v] = step[v]
                                  /\ (v \in timer' <=> v \in timer)
      /\ step'[w] = "none" /\ w \notin timer'
      /\ page'[w].load = page[w].load + 1 /\ page[w].load \in Nat
      /\ UNCHANGED <<table, cliVars>>
  <2>1. page'[w].load = page[w].load + 1 /\ page[w].load \in Nat
    BY DEF TimerFires, Load, TypeOK
  <2> QED  BY <2>1, MoveFacts
<1>3. page'[w].ver # "closed"
  BY <1>1 DEF TimerFires, Load, TypeOK, Open, Builds
<1>4. \A v \in Windows \ {w} : Id(v)' = Id(v) /\ (Open(v)' <=> Open(v)) /\ (Moved(v)' <=> Moved(v))
  BY <1>2 DEF Id, Open, Moved, Tried
<1>5. Id(w)' \notin before
  <2> SUFFICES ASSUME Id(w)' \in before PROVE FALSE
    OBVIOUS
  <2>1. Id(w)'.win = w /\ Id(w)'.load = page[w].load + 1
    BY <1>2 DEF Id
  <2>2. Id(w)'.load <= page[w].load
    BY <2>1 DEF Ages, Known
  <2> QED  BY <1>2, <2>1, <2>2
<1>6. Open(w)' /\ Moved(w)'
  <2>1. Id(w) \in Tried' /\ Id(w).win = w /\ Id(w).load + 1 = page'[w].load
    BY <1>1, <1>2 DEF Tried, Id
  <2> QED  BY <1>2, <1>3, <1>5, <2>1 DEF Open, Moved
<1>7. \A v \in Windows : Open(v)' => Id(v)' \in before' \/ Moved(v)'
  BY <1>2, <1>4, <1>6 DEF Calm
<1>8. \A v \in Windows : step'[v] # "none" \/ v \in timer' => Id(v)' \in Tried'
  BY <1>2, <1>4 DEF Calm, Tried
<1>9. \A e \in Newcomers' : Open(e.id.win)' /\ e.id = Id(e.id.win)'
  <2> SUFFICES ASSUME NEW e \in Newcomers PROVE Open(e.id.win)' /\ e.id = Id(e.id.win)'
    BY <1>2 DEF Newcomers
  <2>1. e.id.win \in Windows /\ e.id \notin before
    BY DEF Newcomers, TypeOK, Entries, Ids
  <2>2. Open(e.id.win) /\ e.id = Id(e.id.win)
    BY DEF Calm
  <2>3. e.id.win # w
    BY <1>1, <2>1, <2>2
  <2> QED  BY <1>4, <2>1, <2>2, <2>3
<1>10. ASSUME NEW t \in written
       PROVE  /\ t \in before /\ Open(t.win)'
              /\ t = Id(t.win)' \/ (page'[t.win].load = t.load + 1 /\ Id(t.win)' \notin before)
  <2>1. t.win \in Windows
    BY DEF TypeOK, Ids
  <2>2. /\ t \in before /\ Open(t.win)
        /\ t = Id(t.win) \/ (page[t.win].load = t.load + 1 /\ Id(t.win) \notin before)
    BY DEF Calm
  <2>3. CASE t.win # w
    BY <1>2, <1>4, <2>1, <2>2, <2>3
  <2>4. CASE t.win = w
    <3>1. t.load = page[w].load
      BY <1>1, <2>2, <2>4 DEF Id
    <3> QED  BY <1>2, <1>5, <1>6, <2>2, <2>4, <3>1
  <2> QED  BY <2>3, <2>4
<1> QED  BY <1>2, <1>7, <1>8, <1>9, <1>10 DEF Calm

\* A step of the page's handler: it was asked, so its page was online before.
LEMMA HandlerKeepsCalm ==
  ASSUME TypeOK, Ages, Calm, Known, NEW w \in Windows,
         HandlerRefuses(w) \/ PutFile(w) \/ PutLabel(w) \/ PutLabelFails(w)
  PROVE  Calm'
<1> USE DEF storageVars, pageVars, optionVars, cliVars
<1>1. /\ step[w] # "none"
      /\ \A v \in Windows \ {w} : step'[v] = step[v] /\ (v \in timer' <=> v \in timer)
      /\ UNCHANGED <<page, table, cliVars>>
  <2>1. CASE HandlerRefuses(w) \/ PutLabelFails(w)
    BY <2>1 DEF HandlerRefuses, PutLabelFails, TypeOK
  <2>2. CASE PutFile(w)
    BY <2>2 DEF PutFile, TypeOK
  <2>3. CASE PutLabel(w)
    BY <2>3 DEF PutLabel, TypeOK
  <2> QED  BY <2>1, <2>2, <2>3
<1>2. Id(w) \in before /\ Id(w) \in Tried
  BY <1>1, BusyWasOnline
<1>3. \A v \in Windows : Id(v)' = Id(v) /\ (Open(v)' <=> Open(v))
  BY <1>1 DEF Id, Open
<1>4. \A v \in Windows \ {w} : Moved(v)' <=> Moved(v)
  BY <1>1, <1>3 DEF Moved, Tried
<1>5. \A v \in Windows : Open(v)' => Id(v)' \in before' \/ Moved(v)'
  BY <1>1, <1>2, <1>3, <1>4 DEF Calm
<1>6. \A v \in Windows : step'[v] # "none" \/ v \in timer' => Id(v)' \in Tried'
  BY <1>1, <1>2, <1>3 DEF Calm, Tried
<1>7. Newcomers' = Newcomers /\ UNCHANGED <<page, written, before>>
  BY <1>1 DEF Newcomers
<1> QED  BY <1>5, <1>6, <1>7 DEF Calm, Open, Id

\* Whatever changes neither pages nor handlers and forgets no id keeps the calm.
LEMMA BystanderKeepsCalm ==
  ASSUME TypeOK, Calm, Known' => Known, Tried \subseteq Tried',
         UNCHANGED <<page, step, timer, before, written>>,
         \A e \in table' : e \in table \/ (\E w \in Windows : Open(w) /\ e.id = Id(w))
  PROVE  Calm'
<1> SUFFICES ASSUME Known, Known' PROVE Calm'
  BY DEF Calm
<1>1. \A v \in Windows : Id(v)' = Id(v) /\ (Open(v)' <=> Open(v)) /\ (Moved(v) => Moved(v)')
  BY DEF Id, Open, Moved
<1>2. ASSUME NEW e \in Newcomers' PROVE Open(e.id.win)' /\ e.id = Id(e.id.win)'
  <2>1. CASE e \in table
    BY <2>1 DEF Newcomers, Calm, Open, Id
  <2>2. CASE \E w \in Windows : Open(w) /\ e.id = Id(w)
    BY <2>2 DEF Open, Id
  <2> QED  BY <1>2, <2>1, <2>2 DEF Newcomers
<1>3. \A v \in Windows : Open(v)' => Id(v)' \in before' \/ Moved(v)'
  BY <1>1 DEF Calm
<1>4. \A v \in Windows : step'[v] # "none" \/ v \in timer' => Id(v)' \in Tried'
  BY <1>1 DEF Calm
<1> QED  BY <1>2, <1>3, <1>4 DEF Calm, Open, Id

\* A page answers: if somebody still waits for it, it is a page that was online before.
LEMMA AnswerKeepsCalm ==
  ASSUME TypeOK, Ages, Plan, Calm, Known, NEW w \in Windows, Answers(w)
  PROVE  Calm'
<1> USE DEF storageVars, pageVars, optionVars, cliVars
<1>1. /\ step[w] # "none"
      /\ step' = [step EXCEPT ![w] = "none"]
      /\ UNCHANGED <<page, table, timer, before>>
  BY DEF Answers
<1>2. Open(w) /\ Id(w) \in before /\ Id(w) \in Tried
  BY <1>1, BusyWasOnline
<1>3. Tried' = Tried /\ written' \subseteq written \cup {Id(w)}
  <2>1. (step[w] = "ok") \in BOOLEAN
    OBVIOUS
  <2>2. CASE Id(w) \in asked
    BY <2>1, <2>2, HeardKeepsTried DEF Answers
  <2>3. CASE Id(w) \notin asked
    BY <2>3 DEF Answers, Tried
  <2> QED  BY <2>2, <2>3
<1>4. \A v \in Windows : Id(v)' = Id(v) /\ (Open(v)' <=> Open(v))
  BY <1>1 DEF Id, Open
<1>5. \A v \in Windows \ {w} : step'[v] = step[v] /\ (Moved(v)' <=> Moved(v))
  BY <1>1, <1>3, <1>4 DEF Moved, TypeOK
<1>6. \A v \in Windows : Open(v)' => Id(v)' \in before' \/ Moved(v)'
  BY <1>1, <1>2, <1>4, <1>5 DEF Calm
<1>7. \A v \in Windows : step'[v] # "none" \/ v \in timer' => Id(v)' \in Tried'
  BY <1>1, <1>2, <1>3, <1>4, <1>5 DEF Calm
<1>8. \A e \in Newcomers' : Open(e.id.win)' /\ e.id = Id(e.id.win)'
  BY <1>1 DEF Newcomers, Calm, Open, Id
<1>9. \A t \in written' : /\ t \in before' /\ Open(t.win)'
                          /\ t = Id(t.win)' \/ (page'[t.win].load = t.load + 1 /\ Id(t.win)' \notin before')
  <2> SUFFICES ASSUME NEW t \in written'
               PROVE  /\ t \in before /\ Open(t.win)
                      /\ t = Id(t.win) \/ (page[t.win].load = t.load + 1 /\ Id(t.win) \notin before)
    BY <1>1 DEF Open, Id
  <2>1. CASE t \in written
    BY <2>1 DEF Calm
  <2>2. CASE t = Id(w)
    <3>1. t.win = w
      BY <2>2 DEF Id
    <3> QED  BY <1>2, <2>2, <3>1
  <2> QED  BY <1>3, <2>1, <2>2
<1> QED  BY <1>6, <1>7, <1>8, <1>9 DEF Calm

\* The command asks the next window: never one that has moved already.
LEMMA AskKeepsCalm ==
  ASSUME TypeOK, Plan, Calm, Known, NEW t \in todo, Asks(t)
  PROVE  Calm'
<1> USE DEF storageVars, pageVars, optionVars, cliVars
<1>1. UNCHANGED <<page, table, timer, before, written>> /\ pc = "write"
  BY DEF Asks
<1>2. Tried \subseteq Tried'
  BY DEF Asks, Tried
<1>3. \A v \in Windows : Id(v)' = Id(v) /\ (Open(v)' <=> Open(v))
  BY <1>1 DEF Id, Open
<1>4. \A v \in Windows : \/ step'[v] = step[v]
                         \/ Id(v) \in Picked(t) /\ Id(v) \in Tried'
  BY DEF Asks, Tried
<1>5. ASSUME NEW v \in Windows, Moved(v) PROVE Moved(v)'
  <2>1. Id(v) \notin Picked(t)
    <3>1. Tried # {} /\ Id(v) \notin before
      BY <1>5 DEF Moved
    <3>2. mode = "all" /\ t \in before
      BY <1>1, <3>1 DEF Plan
    <3>3. t # Unhinted
      BY <3>2, ReadIds, UnhintedIsNoId DEF Known
    <3> QED  BY <3>1, <3>2, <3>3 DEF Picked
  <2>2. step'[v] = step[v]
    BY <1>4, <2>1
  <2> QED  BY <1>1, <1>2, <1>3, <1>5, <2>2 DEF Moved
<1>6. \A v \in Windows : Open(v)' => Id(v)' \in before' \/ Moved(v)'
  BY <1>1, <1>3, <1>5 DEF Calm
<1>7. \A v \in Windows : step'[v] # "none" \/ v \in timer' => Id(v)' \in Tried'
  BY <1>1, <1>2, <1>3, <1>4 DEF Calm
<1> QED  BY <1>1, <1>6, <1>7 DEF Calm, Newcomers, Open, Id

\* The list is read, and everything that is there is on it: the calm begins.
LEMMA ReadsKeepsCalm ==
  ASSUME TypeOK, Begins, ReadsTable
  PROVE  Calm'
<1> USE DEF storageVars, pageVars, optionVars, cliVars
<1> SUFFICES ASSUME Known' PROVE Calm'
  BY DEF Calm
<1>1. /\ before' = Online
      /\ \A w \in Windows : Open(w) => Id(w) \in Online
      /\ UNCHANGED <<page, table, step, timer, asked, written, failed>>
  BY DEF ReadsTable, Known
<1>2. (\A w \in Windows : step[w] = "none") /\ timer = {} /\ written = {}
  BY DEF ReadsTable, Begins
<1>3. Newcomers' = {}
  BY <1>1 DEF Newcomers, Online
<1>4. \A v \in Windows : Open(v)' => Id(v)' \in before'
  BY <1>1 DEF Open, Id
<1> QED  BY <1>1, <1>2, <1>3, <1>4 DEF Calm

\* While nobody else moves a page, every step keeps the calm.
LEMMA CalmStep ==
  ASSUME TypeOK, Ages, Begins, Plan, Calm, [Next]_vars
  PROVE  Calm'
<1> USE DEF storageVars, pageVars, optionVars, cliVars
<1> SUFFICES ASSUME Known' PROVE Calm'
  BY DEF Calm
<1>1. CASE ReadsTable
  BY <1>1, ReadsKeepsCalm
<1>2. CASE ~ReadsTable
  <2>1. Known /\ UNCHANGED before
    <3>1. UNCHANGED before
      BY <1>2 DEF Next, TimerFires, UserReloads, UserOpens, UserCloses, Load, Connects, Leaves,
             HandlerRefuses, PutFile, PutLabel, PutLabelFails, Answers, Asks, NoAnswer, EndsWrites,
             Polls, PollsInVain, Concludes, vars
    <3>2. quiet' => quiet
      BY <1>2 DEF Next, TimerFires, UserReloads, UserOpens, UserCloses, Load, Connects, Leaves,
             HandlerRefuses, PutFile, PutLabel, PutLabelFails, Answers, Asks, NoAnswer, EndsWrites,
             Polls, PollsInVain, Concludes, vars
    <3> QED  BY <3>1, <3>2 DEF Known
  <2>2. ASSUME NEW w \in Windows, TimerFires(w) PROVE Calm'
    BY <2>1, <2>2, TimerKeepsCalm
  <2>3. ASSUME NEW w \in Windows, UserReloads(w) \/ UserOpens(w) \/ UserCloses(w) PROVE Calm'
    BY <2>3 DEF UserReloads, UserOpens, UserCloses, Known
  <2>4. ASSUME NEW w \in Windows, Connects(w) PROVE Calm'
    <3>1. UNCHANGED <<page, step, timer, before, asked, written, failed>>
      BY <2>4 DEF Connects
    <3>2. \A e \in table' : e \in table \/ (Open(w) /\ e.id = Id(w))
      BY <2>4 DEF Connects
    <3> QED  BY <2>1, <3>1, <3>2, BystanderKeepsCalm DEF Tried
  <2>5. ASSUME NEW w \in Windows,
               HandlerRefuses(w) \/ PutFile(w) \/ PutLabel(w) \/ PutLabelFails(w)
        PROVE  Calm'
    BY <2>1, <2>5, HandlerKeepsCalm
  <2>6. ASSUME NEW w \in Windows, Answers(w) PROVE Calm'
    BY <2>1, <2>6, AnswerKeepsCalm
  <2>7. ASSUME NEW e \in table, Leaves(e) PROVE Calm'
    <3>1. UNCHANGED <<page, step, timer, before>> /\ table' \subseteq table
      BY <2>7 DEF Leaves
    <3>2. Tried' = Tried /\ written' = written
      <4>1. CASE e.id \in asked
        BY <2>7, <4>1, HeardKeepsTried DEF Leaves
      <4>2. CASE e.id \notin asked
        BY <2>7, <4>2 DEF Leaves, Tried
      <4> QED  BY <4>1, <4>2
    <3> QED  BY <2>1, <3>1, <3>2, BystanderKeepsCalm
  <2>8. ASSUME NEW t \in todo, Asks(t) PROVE Calm'
    BY <2>1, <2>8, AskKeepsCalm
  <2>9. CASE NoAnswer
    <3>1. UNCHANGED <<page, step, timer, table, before>>
      BY <2>9 DEF NoAnswer
    <3>2. Tried' = Tried /\ written' = written
      BY <2>9, HeardKeepsTried DEF NoAnswer
    <3> QED  BY <2>1, <3>1, <3>2, BystanderKeepsCalm
  <2>10. CASE EndsWrites \/ Polls \/ PollsInVain \/ Concludes \/ UNCHANGED vars
    <3>1. UNCHANGED <<page, step, timer, table, before, asked, written, failed>>
      BY <2>10 DEF EndsWrites, Polls, PollsInVain, Concludes, vars
    <3> QED  BY <2>1, <3>1, BystanderKeepsCalm DEF Tried
  <2> QED
    BY <1>2, <2>2, <2>3, <2>4, <2>5, <2>6, <2>7, <2>8, <2>9, <2>10 DEF Next
<1> QED  BY <1>1, <1>2

------------------------------------------------------------------------------
(* What the newcomers in the table are evidence of. *)

\* The windows the command wants a verdict about, when nothing failed: those written to.
LEMMA AimsAreWritten ==
  ASSUME IInv, Plan, Calm, Known, pc = "verify", failed = {}
  PROVE  Aims = written /\ written # {} /\ Tried = written
<1>1. written # {} /\ Tried = written
  BY DEF IInv, Tracked, AllHeard, Tried
<1>2. CASE mode # "single"
  BY <1>1, <1>2 DEF Aims
<1>3. CASE mode = "single"
  <2>1. before \in SUBSET Ids /\ IsFiniteSet(before)
    BY ReadIds, IdsAreFinite, FS_Subset DEF IInv, Known
  <2>2. written \subseteq before
    BY DEF Calm
  <2>3. Cardinality(before) \in Nat /\ Cardinality(before) # 0 /\ ~(Cardinality(before) > 1)
    BY <1>1, <1>3, <2>1, <2>2, FS_CardinalityType, FS_EmptySet DEF Plan
  <2>4. Cardinality(before) = 1
    BY <2>3
  <2>5. PICK x : before = {x}
    BY <2>1, <2>4, FS_Singleton
  <2> QED  BY <1>1, <1>3, <2>2, <2>4, <2>5 DEF Aims
<1> QED  BY <1>1, <1>2, <1>3

\* There is always something that the verification is about.
LEMMA AimsSomewhere == ASSUME TypeOK PROVE Aims # {}
<1>1. CASE mode # "single"
  BY <1>1 DEF Aims
<1>2. CASE mode = "single" /\ Cardinality(before) # 1
  BY <1>2 DEF Aims
<1>3. CASE mode = "single" /\ Cardinality(before) = 1
  <2>1. before # {}
    BY <1>3, FS_EmptySet
  <2> QED  BY <1>3, <2>1 DEF Aims
<1> QED  BY <1>1, <1>2, <1>3

\* A newcomer is the page of a window that was written to, and it came back.
LEMMA NewcomerCameBack ==
  ASSUME TypeOK, Ages, Calm, Known, Tried = written, NEW e \in Newcomers
  PROVE  /\ e.id.win \in Windows /\ e = [id |-> Id(e.id.win), ver |-> e.ver]
         /\ \E t \in written : t.win = e.id.win
         /\ \A t \in written : t.win = e.id.win => Reloaded(t, e.ver)
<1>1. e \in table /\ e \in Entries /\ e.id \in Ids /\ e.id.win \in Windows /\ e.id \notin before
  BY DEF Newcomers, TypeOK, Entries, Ids
<1>2. Open(e.id.win) /\ e.id = Id(e.id.win)
  BY DEF Calm
<1>3. e.ver = page[e.id.win].ver
  BY <1>1, <1>2 DEF Ages
<1>4. e = [id |-> Id(e.id.win), ver |-> e.ver]
  BY <1>1, <1>2 DEF Entries
<1>5. Moved(e.id.win)
  BY <1>1, <1>2 DEF Calm
<1>6. ASSUME NEW t \in written, t.win = e.id.win PROVE Reloaded(t, e.ver)
  <2>1. t.load \in Nat /\ t \in before
    BY DEF TypeOK, Ids, Calm
  <2>2. page[t.win].load = t.load + 1
    BY <1>1, <1>2, <1>6, <2>1 DEF Calm
  <2> QED  BY <1>3, <1>6, <2>1, <2>2 DEF Reloaded
<1> QED  BY <1>1, <1>4, <1>5, <1>6 DEF Moved

\* As many newcomers on the new build as windows written to: each of them has come back
\* on it, though no newcomer says whose it is.
LEMMA EnoughNewcomers ==
  ASSUME TypeOK, Ages, Calm, Known, Tried = written, IsFiniteSet(written),
         ExpectedNewcomers # {},
         Cardinality(written) < 2 \/ Cardinality(ExpectedNewcomers) >= Cardinality(written)
  PROVE  \A t \in written : Reloaded(t, "new")
<1> DEFINE M == {t \in written : \E e \in ExpectedNewcomers : e.id.win = t.win}
           f == [t \in M |-> [id |-> Id(t.win), ver |-> "new"]]
<1>1. ASSUME NEW e \in ExpectedNewcomers
      PROVE  /\ e = [id |-> Id(e.id.win), ver |-> "new"]
             /\ \E t \in written : t.win = e.id.win
             /\ \A t \in written : t.win = e.id.win => Reloaded(t, "new")
  BY NewcomerCameBack DEF ExpectedNewcomers
<1>2. \A t \in M : Reloaded(t, "new")
  BY <1>1
<1>3. f \in Surjection(M, ExpectedNewcomers)
  <2>1. f \in [M -> ExpectedNewcomers]
    BY <1>1
  <2>2. ASSUME NEW e \in ExpectedNewcomers PROVE \E t \in M : f[t] = e
    <3>1. PICK t \in written : t.win = e.id.win
      BY <1>1
    <3> QED  BY <1>1, <3>1
  <2> QED  BY <2>1, <2>2 DEF Surjection
<1>4. M \in SUBSET written /\ IsFiniteSet(M) /\ M # {}
  BY <1>1, FS_Subset
<1>5. /\ Cardinality(M) \in Nat /\ Cardinality(written) \in Nat
      /\ Cardinality(ExpectedNewcomers) \in Nat
      /\ Cardinality(ExpectedNewcomers) <= Cardinality(M)
      /\ Cardinality(M) <= Cardinality(written)
  <2>1. IsFiniteSet(ExpectedNewcomers) /\ Cardinality(ExpectedNewcomers) <= Cardinality(M)
    BY <1>3, <1>4, FS_Surjection
  <2>2. Cardinality(M) <= Cardinality(written)
    BY <1>4, FS_Subset
  <2> QED  BY <1>4, <2>1, <2>2, FS_CardinalityType
<1>6. Cardinality(M) # 0
  BY <1>4, FS_EmptySet
<1>7. Cardinality(written) = Cardinality(M)
  BY <1>5, <1>6
<1>8. written = M
  BY <1>4, <1>7, FS_Subset
<1> QED  BY <1>2, <1>8

\* A window that was written to and came back stays as it is.
LEMMA StaysReloaded ==
  ASSUME TypeOK, Ages, Calm, Known, Known', [Next]_vars, ~ReadsTable,
         NEW t \in written, NEW build, Reloaded(t, build)
  PROVE  Reloaded(t, build)'
<1> USE DEF storageVars, pageVars, optionVars, cliVars
<1>0. t.win \in Windows
  BY DEF TypeOK, Ids
<1>1. ASSUME NEW w \in Windows, TimerFires(w) PROVE page'[t.win] = page[t.win]
  <2>1. Id(w) \in before
    BY <1>1, BusyWasOnline DEF TimerFires
  <2>2. t.win # w
    <3>1. ASSUME t.win = w PROVE FALSE
      <4>1. t = Id(w)
        BY <2>1, <3>1 DEF Calm
      <4>2. t.load = page[w].load /\ page[w].load > t.load
        BY <3>1, <4>1 DEF Id, Reloaded
      <4> QED  BY <4>2 DEF TypeOK
    <3> QED  BY <3>1
  <2> QED  BY <1>0, <1>1, <2>2, MoveFacts
<1>2. ~(\E w \in Windows : UserReloads(w) \/ UserOpens(w) \/ UserCloses(w))
  BY DEF UserReloads, UserOpens, UserCloses, Known
<1>3. UNCHANGED page \/ \E w \in Windows : TimerFires(w)
  BY <1>2 DEF Next, Connects, HandlerRefuses, PutFile, PutLabel, PutLabelFails, Answers, Leaves, Asks,
              ReadsTable, NoAnswer, EndsWrites, Polls, PollsInVain, Concludes, vars
<1>4. page'[t.win] = page[t.win]
  BY <1>1, <1>3
<1> QED  BY <1>4 DEF Reloaded

------------------------------------------------------------------------------
(* The verdicts while they are collected, and the exit code. *)

\* Once the writes are over, no step changes what was written, and a late answer is for
\* nobody.
LEMMA AfterWrites ==
  ASSUME [Next]_vars, pc \in {"verify", "done"}, asked = {}, todo = {}
  PROVE  /\ UNCHANGED <<before, written, failed>> /\ (quiet' => quiet)
         /\ pc = "done" => UNCHANGED exit
<1> USE DEF storageVars, pageVars, optionVars, cliVars
<1>1. ASSUME NEW w \in Windows,
             \/ TimerFires(w) \/ UserReloads(w) \/ UserOpens(w) \/ UserCloses(w) \/ Connects(w)
             \/ HandlerRefuses(w) \/ PutFile(w) \/ PutLabel(w) \/ PutLabelFails(w)
      PROVE  UNCHANGED cliVars /\ (quiet' => quiet)
  BY <1>1 DEF TimerFires, UserReloads, UserOpens, UserCloses, Load, Connects, HandlerRefuses,
              PutFile, PutLabel, PutLabelFails
<1>2. ASSUME NEW w \in Windows, Answers(w)
      PROVE  UNCHANGED <<before, written, failed, exit, quiet>>
  BY <1>2 DEF Answers
<1>3. ASSUME NEW e \in table, Leaves(e)
      PROVE  UNCHANGED <<before, written, failed, exit>> /\ (quiet' => quiet)
  BY <1>3 DEF Leaves
<1>4. ~(\E t \in todo : Asks(t)) /\ ~NoAnswer /\ ~ReadsTable /\ ~EndsWrites
  BY DEF NoAnswer, ReadsTable, EndsWrites
<1>5. CASE Polls \/ PollsInVain \/ Concludes \/ UNCHANGED vars
  BY <1>5 DEF Polls, PollsInVain, Concludes, vars
<1> QED  BY <1>1, <1>2, <1>3, <1>4, <1>5 DEF Next

Evidence ==
  Known /\ failed = {} /\ pc = "verify" =>
    /\ (\E t \in written : verdict[t] = "verified") /\ (\A t \in written : verdict[t] # "mismatch")
         => \A t \in written : Reloaded(t, "new")
    /\ (\E t \in written : verdict[t] = "mismatch") => \E t \in written : Reloaded(t, "old")

Outcome ==
  quiet /\ how = "verify" /\ pc = "done" =>
    /\ exit = 0 => before # Unread /\ \A t \in written : Reloaded(t, "new")
    /\ exit = 1 /\ failed = {} => before # Unread /\ \E t \in written : Reloaded(t, "old")

\* One round of verdicts.
LEMMA PollKeepsEvidence ==
  ASSUME IInv, Ages, Plan, VerdictsSoFar, Calm, Evidence, Known, failed = {}, Polls
  PROVE  Evidence'
<1> USE DEF storageVars, pageVars, optionVars, cliVars
<1>1. pc = "verify" /\ UNCHANGED <<page, table, before, written, failed, quiet, pc>> /\ TypeOK
  BY DEF Polls, IInv
<1>2. Aims = written /\ written # {} /\ Tried = written /\ written \subseteq Targets
  BY <1>1, AimsAreWritten, AimsAreTargets
<1>3. \A t \in written : /\ t \in pending <=> verdict[t] \in {"pending", "unconfirmed"}
                         /\ t \in pending => verdict'[t] = Judges(t)
                         /\ t \notin pending => verdict'[t] = verdict[t]
  BY <1>1, <1>2 DEF Polls, VerdictsSoFar
<1>4. pending \subseteq written
  BY <1>1, <1>2 DEF VerdictsSoFar
<1>5. \A t, b : Reloaded(t, b)' <=> Reloaded(t, b)
  BY <1>1 DEF Reloaded
<1>6. ASSUME NEW t \in written, verdict'[t] = "mismatch"
      PROVE  \E u \in written : Reloaded(u, "old")
  <2>1. CASE t \notin pending
    BY <1>1, <1>3, <1>6, <2>1 DEF Evidence
  <2>2. CASE t \in pending
    <3>1. ExpectedNewcomers = {} /\ Newcomers # {}
      BY <1>3, <1>6, <2>2 DEF Judges
    <3>2. PICK e \in Newcomers : e \notin ExpectedNewcomers
      BY <3>1
    <3>3. e.ver = "old"
      BY <1>1, <3>2 DEF ExpectedNewcomers, Newcomers, TypeOK, Entries, Builds
    <3>4. PICK u \in written : u.win = e.id.win
      BY <1>1, <1>2, NewcomerCameBack
    <3>5. Reloaded(u, "old")
      BY <1>1, <1>2, <3>3, <3>4, NewcomerCameBack
    <3> QED  BY <3>5
  <2> QED  BY <2>1, <2>2
<1>7. ASSUME NEW t \in written, verdict'[t] = "verified",
             \A u \in written : verdict'[u] # "mismatch"
      PROVE  \A u \in written : Reloaded(u, "new")
  <2>1. \A u \in written : verdict[u] # "mismatch"
    BY <1>3, <1>7
  <2>2. CASE \E u \in written : verdict[u] = "verified"
    BY <1>1, <2>1, <2>2 DEF Evidence
  <2>3. CASE \A u \in written : verdict[u] # "verified"
    <3>1. \A u \in written : verdict[u] \in {"pending", "unconfirmed"}
      BY <1>1, <1>2, <2>1, <2>3 DEF TypeOK, Verdicts
    <3>2. pending = written
      BY <1>3, <1>4, <3>1
    <3>3. Judges(t) = "verified"
      BY <1>3, <1>7, <3>2
    <3>4. ExpectedNewcomers # {} /\ PoolOK
      BY <3>3 DEF Judges
    <3>5. Cardinality(written) < 2 \/ Cardinality(ExpectedNewcomers) >= Cardinality(written)
      BY <3>2, <3>4 DEF PoolOK
    <3>6. IsFiniteSet(written)
      BY DEF Plan
    <3> QED  BY <1>1, <1>2, <3>4, <3>5, <3>6, EnoughNewcomers
  <2> QED  BY <2>2, <2>3
<1> QED  BY <1>1, <1>5, <1>6, <1>7 DEF Evidence

\* What the verdicts say so far stays true of the pages, and later rounds add to it.
LEMMA EvidenceStep ==
  ASSUME IInv, Book, Calm, Evidence, [Next]_vars
  PROVE  Evidence'
<1> USE DEF storageVars, pageVars, optionVars, cliVars, Book
<1> SUFFICES ASSUME Known', failed' = {}, pc' = "verify" PROVE Evidence'
  BY DEF Evidence
<1>0. TypeOK
  BY DEF IInv
<1>1. CASE EndsWrites
  <2>1. \A t \in written' : verdict'[t] = "pending"
    BY <1>0, <1>1, AimsAreTargets DEF EndsWrites, VerdictsSoFar
  <2> QED  BY <2>1 DEF Evidence
<1>2. CASE ~EndsWrites
  <2>1. pc = "verify" /\ ~ReadsTable /\ asked = {} /\ todo = {}
    BY <1>2 DEF IInv, AllHeard, Next, TimerFires, UserReloads, UserOpens, UserCloses, Load, Connects,
         Leaves, HandlerRefuses, PutFile, PutLabel, PutLabelFails, Answers, Asks, NoAnswer,
         ReadsTable, Polls, PollsInVain, Concludes, Stops, vars
  <2>2. UNCHANGED <<before, written, failed>> /\ (quiet' => quiet)
    BY <2>1, AfterWrites
  <2>3. Known /\ failed = {}
    BY <2>2 DEF Known
  <2>4. CASE Polls
    BY <2>3, <2>4, PollKeepsEvidence
  <2>5. CASE ~Polls
    <3>1. Aims = written /\ written \subseteq Targets
      BY <1>0, <2>1, <2>3, AimsAreWritten, AimsAreTargets
    <3>2. \A t \in written : \/ verdict'[t] = verdict[t]
                             \/ /\ verdict'[t] = "pending"
                                /\ verdict[t] \in {"pending", "unconfirmed"}
      <4>1. CASE PollsInVain
        BY <2>1, <3>1, <4>1 DEF PollsInVain, VerdictsSoFar
      <4>2. CASE ~PollsInVain
        <5>1. UNCHANGED verdict
          BY <1>2, <2>5, <4>2 DEF Next, TimerFires, UserReloads, UserOpens, UserCloses, Load, Connects,
             Leaves, HandlerRefuses, PutFile, PutLabel, PutLabelFails, Answers, Asks, NoAnswer,
             ReadsTable, Concludes, vars
        <5> QED  BY <5>1
      <4> QED  BY <4>1, <4>2
    <3>3. \A t \in written : \A b \in Builds : Reloaded(t, b) => Reloaded(t, b)'
      BY <1>0, <2>1, <2>3, StaysReloaded
    <3> QED  BY <2>1, <2>2, <2>3, <3>2, <3>3 DEF Evidence, Builds
  <2> QED  BY <2>4, <2>5
<1> QED  BY <1>1, <1>2

\* The exit code says what the verdicts say, and stays true.
LEMMA OutcomeStep ==
  ASSUME IInv, Book, Calm, Evidence, Outcome, [Next]_vars
  PROVE  Outcome'
<1> USE DEF storageVars, pageVars, optionVars, cliVars, Book
<1> SUFFICES ASSUME quiet', how' = "verify", pc' = "done" PROVE Outcome'
  BY DEF Outcome
<1>0. TypeOK
  BY DEF IInv
<1>1. CASE ReadsTable \/ EndsWrites
  <2>1. CASE ReadsTable
    <3>1. exit' = 2
      BY <2>1 DEF ReadsTable, Stops
    <3> QED  BY <3>1 DEF Outcome
  <2>2. CASE EndsWrites
    <3>1. how = "verify"
      BY <2>2 DEF EndsWrites
    <3>2. exit' = 1 /\ failed' # {}
      BY <2>2, <3>1 DEF EndsWrites, Stops
    <3> QED  BY <3>2 DEF Outcome
  <2> QED  BY <1>1, <2>1, <2>2
<1>2. CASE Concludes
  <2>1. /\ pc = "verify" /\ quiet /\ UNCHANGED <<before, written, failed, page>>
        /\ exit' = 0 => failed = {} /\ \A t \in Aims : verdict[t] = "verified"
        /\ exit' = 1 /\ failed = {} => \E t \in Aims : verdict[t] = "mismatch"
    BY <1>2 DEF Concludes, Stops
  <2>2. CASE before = Unread
    <3>1. Aims # {} /\ \A t \in Aims : verdict[t] = "pending"
      BY <1>0, <2>2, AimsSomewhere, AimsAreTargets DEF VerdictsSoFar
    <3> QED  BY <2>1, <3>1 DEF Outcome
  <2>3. CASE before # Unread /\ failed = {}
    <3>1. Known /\ Aims = written /\ written # {}
      BY <2>1, <2>3, AimsAreWritten DEF Known
    <3>2. exit' = 0 => \A t \in written : Reloaded(t, "new")
      BY <2>1, <2>3, <3>1 DEF Evidence
    <3>3. exit' = 1 => \E t \in written : Reloaded(t, "old")
      BY <2>1, <2>3, <3>1 DEF Evidence
    <3> QED  BY <2>1, <2>3, <3>2, <3>3 DEF Outcome, Reloaded
  <2>4. CASE failed # {}
    BY <2>1, <2>4 DEF Outcome
  <2> QED  BY <2>2, <2>3, <2>4
<1>3. CASE ~(ReadsTable \/ EndsWrites \/ Concludes)
  <2>1. pc = "done" /\ how = "verify" /\ asked = {} /\ todo = {}
    BY <1>3 DEF IInv, AllHeard, Next, TimerFires, UserReloads, UserOpens, UserCloses, Load, Connects,
         Leaves, HandlerRefuses, PutFile, PutLabel, PutLabelFails, Answers, Asks, NoAnswer,
         Polls, PollsInVain, vars
  <2>2. UNCHANGED <<before, written, failed, exit>> /\ (quiet' => quiet)
    BY <2>1, AfterWrites
  <2>3. ASSUME before # Unread
        PROVE  \A t \in written : \A b \in Builds : Reloaded(t, b) => Reloaded(t, b)'
    BY <1>0, <1>3, <2>2, <2>3, StaysReloaded DEF Known
  <2> QED  BY <2>1, <2>2, <2>3 DEF Outcome, Builds
<1> QED  BY <1>1, <1>2, <1>3

\* QuietVerdictIsTrue: newcomers carry no names, but with nobody else moving pages, as
\* many of them on the new build as windows were written to means every one of these
\* windows, and a newcomer on the old build is one of these windows.
THEOREM QuietVerdicts == Spec => []QuietVerdictIsTrue
<1> DEFINE Quiet == Book /\ Calm /\ Evidence /\ Outcome
<1>1. Init => Quiet
  <2>1. Init => Calm /\ Evidence /\ Outcome
    BY DEF Init, Calm, Evidence, Outcome, Known
  <2> QED  BY <2>1, InitBook
<1>2. IInv /\ Quiet /\ [Next]_vars => Quiet'
  <2>1. IInv => TypeOK
    BY DEF IInv
  <2>2. IInv /\ Book /\ Calm /\ [Next]_vars => Calm'
    BY <2>1, CalmStep DEF Book
  <2> QED  BY <2>2, BookStep, EvidenceStep, OutcomeStep
<1>3. Quiet => QuietVerdictIsTrue
  BY DEF Outcome, QuietVerdictIsTrue
<1> QED  BY <1>1, <1>2, <1>3, IInvariant, PTL DEF Spec

------------------------------------------------------------------------------
(* What a reload that comes before the answer can take away. *)

\* A handler or a timer belongs to an id that was asked, and no id is asked twice; a page whose
\* reload is scheduled, and whose answer is still awaited, has an ok to give.
Answering ==
  /\ \A w \in Windows : step[w] # "none" \/ w \in timer => Id(w) \in Tried
  /\ \A w \in timer : label = "new" /\ (Id(w) \in asked => step[w] = "ok")
  /\ todo \cap Tried = {}

LEMMA AnsweringInit == Init => Answering
BY DEF Init, Answering

LEMMA AnsweringStep ==
  ASSUME IInv, Begins, Plan, Answering, [Next]_vars
  PROVE  Answering'
<1> USE DEF storageVars, pageVars, optionVars, cliVars
<1>0. TypeOK
  BY DEF IInv
<1>1. ASSUME NEW w \in Windows, Load(w, page'[w].ver) \/ UserCloses(w)
      PROVE  Answering'
  <2>1. \A v \in Windows \ {w} : Id(v)' = Id(v) /\ step'[v] = step[v] /\ (v \in timer' => v \in timer)
    BY <1>0, <1>1 DEF Load, UserCloses, Id, TypeOK
  <2>2. step'[w] = "none" /\ w \notin timer'
    BY <1>0, <1>1 DEF Load, UserCloses, TypeOK
  <2>3. UNCHANGED <<label, todo, asked, written, failed>> /\ timer' \subseteq Windows
    BY <1>0, <1>1 DEF Load, UserCloses, TypeOK
  <2> QED  BY <2>1, <2>2, <2>3 DEF Answering, Tried
<1>2. ASSUME NEW w \in Windows, TimerFires(w) \/ UserReloads(w) \/ UserOpens(w) \/ UserCloses(w)
      PROVE  Answering'
  <2>1. \A b : Load(w, b) => page'[w].ver = b
    BY <1>0 DEF Load, TypeOK
  <2> QED  BY <1>1, <1>2, <2>1 DEF TimerFires, UserReloads, UserOpens
<1>3. ASSUME NEW w \in Windows, HandlerRefuses(w) \/ PutFile(w) \/ PutLabel(w) \/ PutLabelFails(w)
      PROVE  Answering'
  <2>1. \A v \in Windows : Id(v)' = Id(v) /\ (v # w => step'[v] = step[v])
    BY <1>0, <1>3 DEF HandlerRefuses, PutFile, PutLabel, PutLabelFails, Id, TypeOK
  <2>2. UNCHANGED <<todo, asked, written, failed>> /\ step[w] # "none" /\ label' \in {label, "new"}
    BY <1>3 DEF HandlerRefuses, PutFile, PutLabel, PutLabelFails
  <2>3. CASE PutLabel(w)
    <3>1. step'[w] = "ok" /\ label' = "new" /\ timer' \subseteq timer \cup {w} /\ timer' \subseteq Windows
      BY <1>0, <2>3 DEF PutLabel, TypeOK
    <3> QED  BY <2>1, <2>2, <3>1 DEF Answering, Tried
  <2>4. CASE ~PutLabel(w)
    <3>1. timer' = timer /\ step[w] \in {"begun", "half"} /\ timer \subseteq Windows
      BY <1>0, <1>3, <2>4 DEF HandlerRefuses, PutFile, PutLabelFails, TypeOK
    <3>2. w \notin timer \/ Id(w) \notin asked
      BY <3>1 DEF Answering
    <3> QED  BY <2>1, <2>2, <3>1, <3>2 DEF Answering, Tried
  <2> QED  BY <2>3, <2>4
<1>4. ASSUME NEW w \in Windows, Connects(w)
      PROVE  Answering'
  BY <1>4 DEF Connects, Answering, Tried, Id
<1>5. ASSUME NEW t \in asked, NEW ok \in BOOLEAN, Heard(t, ok),
             UNCHANGED <<page, timer, label, todo>>, \A v \in Windows : step'[v] \in {step[v], "none"}
      PROVE  Answering'
  <2>1. Tried' = Tried /\ asked' = {}
    BY <1>5, HeardKeepsTried DEF Heard
  <2> QED  BY <1>5, <2>1 DEF Answering, Id
<1>6. ASSUME NEW w \in Windows, Answers(w)
      PROVE  Answering'
  <2>1. UNCHANGED <<page, timer, label, todo>> /\ \A v \in Windows : step'[v] \in {step[v], "none"}
    BY <1>0, <1>6 DEF Answers, TypeOK
  <2>2. CASE Id(w) \in asked
    <3>1. (step[w] = "ok") \in BOOLEAN
      OBVIOUS
    <3> QED  BY <1>5, <1>6, <2>1, <2>2, <3>1 DEF Answers
  <2>3. CASE Id(w) \notin asked
    <3>1. UNCHANGED <<asked, written, failed>> /\ \A v \in Windows \ {w} : step'[v] = step[v]
      BY <1>0, <1>6, <2>3 DEF Answers, TypeOK
    <3> QED  BY <1>0, <2>1, <2>3, <3>1 DEF Answering, Tried, Id, TypeOK
  <2> QED  BY <2>2, <2>3
<1>7. ASSUME NEW e \in table, Leaves(e)
      PROVE  Answering'
  <2>1. UNCHANGED <<page, timer, label, todo, step>>
    BY <1>7 DEF Leaves
  <2>2. CASE e.id \in asked
    BY <1>5, <1>7, <2>1, <2>2 DEF Leaves
  <2>3. CASE e.id \notin asked
    BY <1>7, <2>1, <2>3 DEF Leaves, Answering, Tried, Id
  <2> QED  BY <2>2, <2>3
<1>8. CASE NoAnswer
  BY <1>5, <1>8 DEF NoAnswer
<1>9. CASE ReadsTable
  BY <1>9 DEF ReadsTable, Begins, Answering, Tried, Id
<1>10. ASSUME NEW t \in todo, Asks(t)
       PROVE  Answering'
  <2>1. UNCHANGED <<page, timer, label, before, mode, written>> /\ pc = "write" /\ asked = {}
    BY <1>10 DEF Asks
  <2>2. \A v \in Windows : Id(v)' = Id(v)
    BY <2>1 DEF Id
  <2>3. mode = "all" => t \in Ids /\ Picked(t) \subseteq {t}
    <3>1. mode = "all" => t \in Ids
      BY <1>0, <2>1, ReadIds DEF Plan
    <3> QED  BY <3>1, UnhintedIsNoId DEF Picked
  <2>4. mode # "all" => Tried = {} /\ todo' = {}
    BY <1>10 DEF Asks, Plan
  <2>5. todo' \cap Tried' = {}
    BY <1>10, <2>1, <2>3, <2>4 DEF Asks, Tried, Answering
  <2>6. Tried \subseteq Tried'
    BY <1>10, <2>1 DEF Asks, Tried
  <2>7. \A v \in Windows : step'[v] = step[v] \/ Id(v) \in asked'
    BY <1>0, <1>10 DEF Asks, TypeOK
  <2>8. \A v \in timer : Id(v) \notin asked'
    <3> SUFFICES ASSUME NEW v \in timer, Id(v) \in asked'  PROVE FALSE
      OBVIOUS
    <3>1. Id(v) \in Picked(t) /\ Id(v) \in Tried
      BY <1>0, <1>10, <2>1 DEF Asks, Answering, TypeOK
    <3>2. mode = "all" /\ Id(v) = t
      BY <2>3, <2>4, <3>1
    <3> QED  BY <3>1, <3>2 DEF Answering
  <2>9. asked' \subseteq Tried'
    BY DEF Tried
  <2> QED  BY <1>0, <2>1, <2>2, <2>5, <2>6, <2>7, <2>8, <2>9 DEF Answering, TypeOK
<1>11. CASE EndsWrites \/ Polls \/ PollsInVain \/ Concludes \/ UNCHANGED vars
  BY <1>11 DEF EndsWrites, Polls, PollsInVain, Concludes, vars, Answering, Tried, Id
<1> QED
  BY <1>2, <1>3, <1>4, <1>6, <1>7, <1>8, <1>9, <1>10, <1>11 DEF Next

\* The reload can come before the answer (docs/bridge.md:1098 says that it cannot), but what it
\* takes away then is the word and not the thing: the window had an ok to give, and the bundle is
\* stored with its version.  The command reports a failure that did not happen, and no success
\* that did not.
OnlyTheAnswerIsLost ==
  [][\A w \in timer :
       page'[w].load > page[w].load /\ Id(w) \in asked =>
         step[w] = "ok" /\ file = "new" /\ label = "new"]_vars

\* It holds for any number of windows and of loads.
THEOREM LostAnswersWereOk == Spec => OnlyTheAnswerIsLost
<1>1. IInv /\ Answering => \A w \in timer : Id(w) \in asked =>
                             step[w] = "ok" /\ file = "new" /\ label = "new"
  BY DEF IInv, Answering, LabelNeverAhead
<1>2. IInv /\ Answering /\ [Next]_vars =>
        [\A w \in timer : page'[w].load > page[w].load /\ Id(w) \in asked =>
           step[w] = "ok" /\ file = "new" /\ label = "new"]_vars
  BY <1>1
<1>3. Book => Begins /\ Plan
  BY DEF Book
<1> QED
  BY <1>2, <1>3, InitBook, BookStep, AnsweringInit, AnsweringStep, IInvariant, PTL
  DEF Spec, OnlyTheAnswerIsLost

=============================================================================
