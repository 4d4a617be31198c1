------------------------------ MODULE EditApply ------------------------------
(***************************************************************************)
(* `edit apply`: the CLI carries out a change plan on the page a person    *)
(* has open in the editor, one bridge call after the other, and states by  *)
(* its exit code what has become of the page.  cli.py, _edit_apply_flow    *)
(* (set one attribute) and _edit_apply_add_flow (place a part and connect  *)
(* it).                                                                    *)
(*                                                                         *)
(* A call ends in an answer, in an error, or in TIMEOUT or DISCONNECTED;   *)
(* after those the write may still reach the page, however late (see       *)
(* CallPromise).  The person goes on editing, and runs the plan again when *)
(* it did not go through.                                                  *)
(***************************************************************************)
EXTENDS Naturals

CONSTANTS
  MaxRuns,   \* how often the plan is run: a bound for TLC
  MaxConns,  \* the connections that the plan declares for its part
  MaxTouches \* what the person does besides: a bound for TLC

ASSUME EditAssumption ==
  MaxRuns \in Nat \ {0} /\ MaxConns \in Nat \ {0} /\ MaxTouches \in Nat

Runs == 1..MaxRuns
Conns == 1..MaxConns

\* Who can have put a part on the page: a run, or the person.
Hand == 0
Makers == Runs \cup {Hand}

\* The writes of a run: the attribute or the part, its connections, the save.
Writes == Runs \X {"write", "join", "save"} \X Conns

\* The designators, and which of them is the plan's.  0 stands for no part, Unnumbered for
\* the "C?" that component_origins leaves out.
Planned == 1
Names == 1..(MaxRuns + 1)
Unnumbered == MaxRuns + 2

Values == {"before", "after", "odd"}

VARIABLES
  kind,      \* the plan's change: "value" or "add"
  focus,     \* the page in front: the plan's or another
  value,     \* the attribute on the plan's page; "odd" if it, or its part, is another one
  part,      \* part[m]: the designator of the part that m put there
  joined,    \* the connections of these parts
  disk,      \* the page as it was saved
  run,       \* the run that is on, or was the last
  pc,        \* where it is
  taken,     \* what its first reading of the page found in the way of its part
  base,      \* the designators in the project when it read that
  mine,      \* mine[r]: the maker of the part that run r connects
  conn,      \* the connection it is at
  answer,    \* what the editor has answered to the write it waits for
  flying,    \* writes that were sent and can still reach the page
  outcome,   \* outcome[r]: how run r ended
  touched    \* how often the person has touched the page, or the focus

pageVars == <<value, part, joined>>
editorVars == <<focus, pageVars, disk, touched>>
readVars == <<taken, base, mine, conn>>
callVars == <<answer, flying>>
vars == <<kind, editorVars, run, pc, readVars, callVars, outcome>>

\* Exit codes 0 (applied, already), 4, 2 and 3; a killed run has none.
Outcomes == {"none", "applied", "already", "refused", "failed", "unknown", "killed"}

\* The steps in which the flow waits for the answer to a write.
Waiting == {"write", "join", "save"}

Steps == {"idle", "focus", "read", "model", "doubt", "missed", "connect", "back", "range",
          "review"} \cup Waiting

\* Every variable holds a value of its kind.
TypeOK ==
  /\ kind \in {"value", "add"}
  /\ focus \in {"plan", "other"}
  /\ value \in Values
  /\ part \in [Makers -> Names \cup {0, Unnumbered}]
  /\ joined \subseteq Makers \X Conns
  /\ disk \in [value : Values, part : [Makers -> Names \cup {0, Unnumbered}],
               joined : SUBSET (Makers \X Conns)]
  /\ run \in Runs \cup {0}
  /\ pc \in Steps /\ (pc # "idle" => run \in Runs)
  /\ taken \subseteq {"designator", "spot"} /\ base \subseteq Names
  /\ mine \in [Runs -> Makers] /\ conn \in Conns
  /\ answer \in {"pending", "ok", "error"}
  /\ flying \subseteq Writes
  /\ outcome \in [Runs -> Outcomes]
  /\ touched \in 0..MaxTouches

Init ==
  /\ kind \in {"value", "add"}
  /\ focus \in {"plan", "other"}
  /\ value \in Values /\ part = [m \in Makers |-> 0] /\ joined = {}
  /\ disk = [value |-> value, part |-> part, joined |-> joined]
  /\ run = 0 /\ pc = "idle"
  /\ taken = {} /\ base = {} /\ mine = [r \in Runs |-> r] /\ conn = 1
  /\ answer = "pending" /\ flying = {}
  /\ outcome = [r \in Runs |-> "none"]
  /\ touched = 0

NamesOn == {part[m] : m \in Makers} \cap Names
OnPage(m) == part[m] # 0

\* What sch.geometry shows of the plan's page: nothing while another one is in front.
Visible == IF focus = "plan" THEN NamesOn ELSE {}

\* The pins of m's part are on the nets of all connections.
Connected(m) == OnPage(m) /\ \A k \in Conns : <<m, k>> \in joined

------------------------------------------------------------------------------
(* The editor: writes that reach the page, and the person at it. *)

\* A part is put on the page under one of these names.
Puts(m, names) ==
  /\ ~OnPage(m)
  /\ \E n \in names \ NamesOn : part' = [part EXCEPT ![m] = n]
  /\ UNCHANGED <<value, joined, disk>>

\* The name the plan gives it, unless that is taken: then the host renumbers it.
PlacedNames == IF Planned \in NamesOn THEN Names ELSE {Planned}

Joins(c) ==
  /\ OnPage(mine[c[1]])
  /\ joined' = joined \cup {<<mine[c[1]], c[3]>>}
  /\ UNCHANGED <<value, part, disk>>

\* sch.doc.save saves the page in front.
Saves ==
  /\ disk' = [value |-> value, part |-> part, joined |-> joined]
  /\ UNCHANGED pageVars

\* What write c does to the plan's page.  With another page in front it does nothing to it, and
\* but for the save a host may have answered ok and done nothing.
Effect(c) ==
  \/ /\ focus = "other" \/ c[2] # "save"
     /\ UNCHANGED <<pageVars, disk>>
  \/ /\ focus = "plan" /\ c[2] = "write" /\ kind = "value"
     /\ value' = "after" /\ UNCHANGED <<part, joined, disk>>
  \/ focus = "plan" /\ c[2] = "write" /\ kind = "add" /\ Puts(c[1], PlacedNames)
  \/ focus = "plan" /\ c[2] = "join" /\ Joins(c)
  \/ focus = "plan" /\ c[2] = "save" /\ Saves

\* The write the flow waits for.
Awaited == <<run, pc, conn>>

\* The write is over; the flow hears of it if it still waits for this one.
Over(c, result) ==
  /\ flying' = flying \ {c}
  /\ answer' = IF c = Awaited THEN result ELSE answer

Lands(c) ==
  /\ c \in flying
  /\ Effect(c)
  /\ Over(c, "ok")
  /\ UNCHANGED <<kind, focus, touched, run, pc, readVars, outcome>>

\* The daemon, guardPage or the host refuses, and nothing was written; or sch.place_component
\* placed the part and could not name it.
Fails(c) ==
  /\ c \in flying
  /\ \/ UNCHANGED <<pageVars, disk>>
     \/ focus = "plan" /\ c[2] = "write" /\ kind = "add" /\ Puts(c[1], {Unnumbered})
  /\ Over(c, "error")
  /\ UNCHANGED <<kind, focus, touched, run, pc, readVars, outcome>>

\* The person edits the attribute, places such a part, connected or not, takes one away,
\* saves, or turns to another page.
Touches ==
  /\ touched < MaxTouches
  /\ \/ /\ kind = "value" /\ value' \in Values
        /\ UNCHANGED <<focus, part, joined, disk>>
     \/ /\ kind = "add" /\ Puts(Hand, Names) /\ UNCHANGED focus
     \/ /\ kind = "add" /\ OnPage(Hand)
        /\ joined' = joined \cup ({Hand} \X Conns)
        /\ UNCHANGED <<focus, value, part, disk>>
     \/ /\ kind = "add"
        /\ \E m \in Makers : /\ OnPage(m)
                             /\ part' = [part EXCEPT ![m] = 0]
                             /\ joined' = joined \ ({m} \X Conns)
        /\ UNCHANGED <<focus, value, disk>>
     \/ Saves /\ UNCHANGED focus
     \/ focus' \in {"plan", "other"} /\ UNCHANGED <<pageVars, disk>>
  /\ touched' = touched + 1
  /\ UNCHANGED <<kind, run, pc, readVars, callVars, outcome>>

------------------------------------------------------------------------------
(* The flow. *)

Begins ==
  /\ pc = "idle" /\ run < MaxRuns
  /\ run' = run + 1
  /\ pc' = "focus"
  /\ UNCHANGED <<kind, editorVars, readVars, callVars, outcome>>

\* The run is over, and what it knew with it.
Ends(o) ==
  /\ pc' = "idle"
  /\ outcome' = [outcome EXCEPT ![run] = o]
  /\ taken' = {} /\ base' = {} /\ conn' = 1 /\ answer' = "pending"
  /\ UNCHANGED <<kind, editorVars, run, mine, flying>>

Goes(step) ==
  /\ pc' = step
  /\ UNCHANGED <<kind, editorVars, run, readVars, callVars, outcome>>

\* The flow sends a write and waits for its answer.
Sends(what, k) ==
  /\ pc' = what
  /\ conn' = k
  /\ answer' = "pending"
  /\ flying' = flying \cup {<<run, what, k>>}
  /\ UNCHANGED <<kind, editorVars, run, mine, outcome>>

\* The process is interrupted; what it has sent is not.
Killed == pc # "idle" /\ Ends("killed")

\* doc.list and sys.identity: a page that is known to be another is refused, but neither
\* call has to answer.
ChecksFocus ==
  /\ pc = "focus"
  /\ \/ Goes("read")
     \/ focus = "other" /\ Ends("refused")

\* The first sch.geometry: the target, or the anchor, has to be on the page in front.
ReadsPage ==
  /\ pc = "read"
  /\ Ends("refused") \/ Ends("unknown")

\* The value the plan asks for, or one it does not expect: nothing is written.
ReadsValue ==
  /\ pc = "read" /\ kind = "value" /\ focus = "plan"
  /\ \/ value = "after" /\ Ends("already")
     \/ value = "odd" /\ Ends("refused")
     \/ value = "before" /\ Sends("write", 1) /\ UNCHANGED <<taken, base>>

\* The parts of the runs are at the plan's spot, one of the person's may be.
ReadsParts ==
  /\ pc = "read" /\ kind = "add" /\ focus = "plan"
  /\ pc' = "model"
  /\ taken' \in SUBSET {"designator", "spot"}
  /\ "designator" \in taken' <=> Planned \in NamesOn
  /\ (\E m \in Runs : part[m] \in Names) => "spot" \in taken'
  /\ "spot" \in taken' => NamesOn # {}
  /\ UNCHANGED <<kind, editorVars, run, base, mine, conn, callVars, outcome>>

\* (Mutant of MayPlace: neither is looked for.)
MayPlaceAnyway == TRUE

\* The plan's designator is free on the page and in the project, and the spot too.
MayPlace == taken = {} /\ Planned \notin NamesOn

\* The project file: is the part there already?
ReadsModel ==
  /\ pc = "model"
  /\ \/ Ends("refused")
     \/ (\E m \in Makers : Connected(m)) /\ Ends("already")
     \/ /\ ~\E m \in Makers : Connected(m)
        /\ MayPlace
        /\ base' = NamesOn
        /\ Sends("write", 1) /\ UNCHANGED taken

\* (Mutant of HearsWrite: no answer counts as a refusal.)
HearsWriteOrFails ==
  /\ pc = "write"
  /\ \/ answer = "ok" /\ kind = "value" /\ Goes("back")
     \/ /\ answer = "ok" /\ kind = "add"
        /\ pc' = "connect" /\ conn' = 1 /\ mine' = [mine EXCEPT ![run] = run]
        /\ UNCHANGED <<kind, editorVars, run, taken, base, callVars, outcome>>
     \/ answer # "ok" /\ kind = "value" /\ Ends("failed")
     \/ answer # "ok" /\ kind = "add" /\ Goes("missed")

\* The answer to the write.  TIMEOUT and DISCONNECTED leave it open, and in the end only the
\* add flow goes by what the page shows.
HearsWrite ==
  /\ pc = "write"
  /\ \/ answer = "ok" /\ kind = "value" /\ Goes("back")
     \/ /\ answer = "ok" /\ kind = "add"
        /\ pc' = "connect" /\ conn' = 1 /\ mine' = [mine EXCEPT ![run] = run]
        /\ UNCHANGED <<kind, editorVars, run, taken, base, callVars, outcome>>
     \/ answer = "error" /\ kind = "value" /\ Ends("failed")
     \/ answer = "error" /\ kind = "add" /\ Goes("missed")
     \/ answer = "pending" /\ kind = "value" /\ Ends("unknown")
     \/ answer = "pending" /\ kind = "add" /\ Goes("doubt")

\* After an error or no answer: is the part on the page all the same?
ReadsWhetherPlaced ==
  /\ pc \in {"doubt", "missed"}
  /\ \/ Ends(IF pc = "doubt" THEN "unknown" ELSE "failed")
     \/ /\ Planned \in Visible
        /\ pc' = "connect" /\ conn' = 1
        /\ \E m \in Makers : part[m] = Planned /\ mine' = [mine EXCEPT ![run] = m]
        /\ UNCHANGED <<kind, editorVars, run, taken, base, callVars, outcome>>

\* A connection whose pin, rail or way is missing ends the run.
Connects ==
  /\ pc = "connect"
  /\ \/ Ends("failed")
     \/ Sends("join", conn) /\ UNCHANGED <<taken, base>>

\* (Mutant of HearsJoin: it goes one connection too far.)
HearsJoinOneMore ==
  /\ pc = "join"
  /\ \/ conn > MaxConns /\ Goes("back")
     \/ /\ conn <= MaxConns
        /\ pc' = "connect" /\ conn' = conn + 1
        /\ UNCHANGED <<kind, editorVars, run, taken, base, mine, callVars, outcome>>

\* However the connection ends, the next one is made: the netlist will tell.
HearsJoin ==
  /\ pc = "join"
  /\ \/ conn = MaxConns /\ Goes("back")
     \/ /\ conn < MaxConns
        /\ pc' = "connect" /\ conn' = conn + 1
        /\ UNCHANGED <<kind, editorVars, run, taken, base, mine, callVars, outcome>>

\* (Mutant of ReadsBack: what the write's answer says is believed.)
ReadsBackNothing ==
  /\ pc = "back"
  /\ \/ Ends("unknown")
     \/ kind = "value" /\ Sends("save", 1) /\ UNCHANGED <<taken, base>>
     \/ kind = "add" /\ Goes("range")

\* The page as it is after the writes.
ReadsBack ==
  /\ pc = "back"
  /\ \/ Ends("unknown")
     \/ kind = "value" /\ (focus = "other" \/ value # "after") /\ Ends("failed")
     \/ /\ kind = "value" /\ focus = "plan" /\ value = "after"
        /\ Sends("save", 1) /\ UNCHANGED <<taken, base>>
     \/ kind = "add" /\ Planned \notin Visible /\ Ends("failed")
     \/ kind = "add" /\ Planned \in Visible /\ Goes("range")

\* range_diff: exactly the planned part has come.
RangeOK == NamesOn = base \cup {Planned}

\* (Mutant of ReadsRange: the netlist is not asked.)
ReadsRangeOnly ==
  /\ pc = "range"
  /\ \/ Ends("unknown")
     \/ Ends("failed")
     \/ RangeOK /\ Sends("save", 1) /\ UNCHANGED <<taken, base>>

\* The project file once more: the range, the flags and the part's nets.
ReadsRange ==
  /\ pc = "range"
  /\ \/ Ends("unknown")
     \/ Ends("failed")
     \/ /\ RangeOK
        /\ \E m \in Makers : part[m] = Planned /\ Connected(m)
        /\ Sends("save", 1) /\ UNCHANGED <<taken, base>>

HearsSave ==
  /\ pc = "save"
  /\ \/ answer = "ok" /\ Goes("review")
     \/ answer = "error" /\ Ends("failed")
     \/ answer = "pending" /\ Ends("unknown")

\* The rule is run again: it still reports the finding, or not.
Reviews ==
  /\ pc = "review"
  /\ Ends("applied") \/ Ends("failed")

Flow ==
  \/ Begins \/ Killed \/ ChecksFocus \/ ReadsPage \/ ReadsValue \/ ReadsParts \/ ReadsModel
  \/ HearsWrite \/ ReadsWhetherPlaced \/ Connects \/ HearsJoin \/ ReadsBack \/ ReadsRange
  \/ HearsSave \/ Reviews

Next ==
  \/ Flow
  \/ \E c \in Writes : Lands(c) \/ Fails(c)
  \/ Touches

Spec == Init /\ [][Next]_vars

------------------------------------------------------------------------------
(* Properties. *)

\* What exit 0 says of a page: the value is the plan's, or a part is on all its nets.
Achieved(pg) ==
  IF kind = "value" THEN pg.value = "after"
  ELSE \E m \in Makers : pg.part[m] # 0 /\ {m} \X Conns \subseteq pg.joined

\* As long as the person leaves page and focus alone, exit 0 is true: after "applied" the change
\* is on the page and in what was saved, after "already" on the page, although writes of other
\* runs may land late and the host may ignore what it answers ok to (_cmd_edit_apply's exit
\* codes; the read-backs of both flows).
ExitZeroIsTrue ==
  touched = 0 =>
    \A r \in Runs :
      /\ outcome[r] \in {"applied", "already"}
           => Achieved([value |-> value, part |-> part, joined |-> joined])
      /\ outcome[r] = "applied" => Achieved(disk)

\* A run whose outcome is not to be known.
Unsure(r) == outcome[r] \in {"unknown", "killed"}

\* What a run that is over has sent is over too, unless the run says it does not know: exits 0, 2
\* and 4 are final.  But the add flow does not wait for connections, and it may take the part that
\* another run, or the person, put there for the one that it did not hear of.
SettledRunWritesNoMore ==
  \A c \in flying :
    \/ c[1] = run /\ pc # "idle"
    \/ Unsure(c[1])
    \/ kind = "add" /\ c[2] = "join"
    \/ /\ kind = "add" /\ c[2] = "write"
       /\ touched > 0 \/ \E r \in Runs \ {c[1]} : Unsure(r)

\* However often the plan is run, one part comes of it: two runs have each put one on the page only
\* if one of them did not know what became of its own, or a part could not be named (the
\* idempotence probe, the designator and the spot of _edit_apply_add_flow; a part that could
\* not be named is not seen by any of them).
DuplicateHasAReason ==
  touched = 0 =>
    \/ \A r, s \in Runs : OnPage(r) /\ OnPage(s) => r = s
    \/ \E r \in Runs : Unsure(r) \/ part[r] = Unnumbered

\* An accident is not saved: with the same exceptions, every part of a run that was saved has the
\* plan's designator and all its connections (range_diff and the netlist before sch.doc.save).
AccidentIsNotSaved ==
  touched = 0 =>
    \/ \A r \in Runs : disk.part[r] # 0
                         => disk.part[r] = Planned /\ {r} \X Conns \subseteq disk.joined
    \/ \E r \in Runs : Unsure(r) \/ part[r] = Unnumbered

==============================================================================
