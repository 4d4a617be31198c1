------------------------------- MODULE Drawing -------------------------------
(***************************************************************************)
(* `draw apply` and `draw discard`: the CLI lands a compiled drawing on a  *)
(* page (parts, their values, wires and flags), and takes it off again.    *)
(* cli.py, _draw_apply_flow and _cmd_draw_discard; drawapply.py, which     *)
(* judges the page.                                                        *)
(*                                                                         *)
(* The calls are those of EditApply: an answer, an error, or TIMEOUT or    *)
(* DISCONNECTED, after which the write may still reach the page.  Here the *)
(* commands meet each other: a run can be interrupted anywhere, and the    *)
(* next one, of either kind, finds what it has left.                       *)
(***************************************************************************)
EXTENDS Naturals

CONSTANTS
  MaxRuns,  \* how many commands are given: a bound for TLC
  MaxParts, \* the parts of the plan
  MaxLines, \* its wires and its flags
  MaxWires  \* how many of these are wires

ASSUME DrawingAssumption ==
  /\ MaxRuns \in Nat \ {0} /\ MaxParts \in Nat \ {0} /\ MaxLines \in Nat \ {0}
  /\ MaxWires \in 0..MaxLines

Runs == 1..MaxRuns
Parts == 1..MaxParts
Lines == 1..MaxLines
IsWire(l) == l <= MaxWires
Wires == {l \in Lines : IsWire(l)}
FlagPoints == {l \in Lines : ~IsWire(l)}

\* What a run draws for an item of the plan is a primitive of its own, at the item's place.
PartIds == Runs \X Parts
LineIds == Runs \X Lines
NoId == <<0, 0>>

\* A wire of somebody else's that meets wire l of the plan and reaches beyond it: <<0, l>>.
Theirs == {0} \X Wires

\* Designators: those of the plan, and one that is not.  0 is no part.
Odd == MaxParts + 1
Names == 0..Odd

\* The page: the designators of its parts, which of them have their value, the wires and flags,
\* and whether the value rows are left unprinted.
Pages == [name : [PartIds -> Names], valued : SUBSET PartIds,
          lines : SUBSET (LineIds \cup Theirs), shut : BOOLEAN]

EmptyPage == [name |-> [p \in PartIds |-> 0], valued |-> {}, lines |-> {}, shut |-> FALSE]

\* The deletes of a discard: wires, then flags, then parts.
Phases == 1..3

Calls(kinds, items, ids) == [run : Runs, what : kinds, item : items, of : ids]
Writes ==
  UNION {Calls({"place"}, Parts, {NoId}), Calls({"value"}, Parts, PartIds),
         Calls({"line"}, Lines, {NoId}), Calls({"cut"}, Phases, {NoId}),
         Calls({"hide", "save"}, {1}, {NoId})}

VARIABLES
  hides,   \* the plan leaves value rows unprinted
  bound,   \* the plan has the census of its page
  meets,   \* the pairs of its own wires that meet, neither of which lies on the other
  others,  \* somebody else's wires, on the page before the first command
  page,    \* the page
  disk,    \* the page as it was saved
  run,     \* the command that is on, or was the last
  task,    \* which of the two it is
  fresh,   \* no write of an earlier command was under way when it began
  pc,      \* where it is
  at,      \* the item it is at
  seen,    \* the page of apply's first reading
  own,     \* own[i]: the primitive that gets the value of part i
  fits,    \* apply's range is as planned
  held,    \* held[r]: the page that r's rewrite, or its deletes, go by
  answer,  \* what the editor has answered to the write it waits for
  flying,  \* writes that were sent and can still reach the page
  outcome  \* how the last command ended

planVars == <<hides, bound, meets, others>>
pageVars == <<page, disk>>
runVars == <<run, task, fresh>>
readVars == <<seen, own, fits, held>>
vars == <<planVars, pageVars, runVars, pc, at, readVars, answer, flying, outcome>>

\* Exit codes: 0 (applied, already, discarded, cleared with a save, nothing), 4, 2 (stopped at a
\* part, or failed later) and 3; a killed command has none.
Outcomes == {"none", "applied", "already", "discarded", "cleared", "nothing",
             "refused", "stopped", "failed", "unknown", "killed"}

Steps == {"idle", "focus", "guard", "probe", "pool", "place", "doubt", "missed", "ids",
          "values", "value", "text", "hide", "shown", "check", "line", "verify", "nets",
          "select", "cut", "back", "save"}

PartSteps == {"place", "doubt", "missed", "ids", "values", "value"}

\* Every variable holds a value of its kind.
TypeOK ==
  /\ hides \in BOOLEAN /\ bound \in BOOLEAN
  /\ meets \subseteq Wires \X Wires /\ others \subseteq Theirs
  /\ page \in Pages /\ disk \in Pages
  /\ run \in Runs \cup {0} /\ task \in {"apply", "discard"} /\ fresh \in BOOLEAN
  /\ pc \in Steps /\ (pc # "idle" => run \in Runs)
  /\ at \in Parts \cup Lines \cup Phases
  /\ pc \in PartSteps => at \in Parts
  /\ pc = "line" => at \in Lines
  /\ seen \in Pages /\ own \in [Parts -> PartIds \cup {NoId}] /\ fits \in BOOLEAN
  /\ held \in [Runs -> Pages]
  /\ answer \in {"pending", "ok", "error"}
  /\ flying \subseteq Writes
  /\ outcome \in Outcomes

Init ==
  /\ hides \in BOOLEAN /\ bound \in BOOLEAN
  /\ meets \in SUBSET {w \in Wires \X Wires : w[1] < w[2]} /\ others \in SUBSET Theirs
  /\ page = [EmptyPage EXCEPT !.lines = others] /\ disk = page
  /\ run = 0 /\ task = "apply" /\ fresh = TRUE
  /\ pc = "idle" /\ at = 1
  /\ seen = EmptyPage /\ own = [i \in Parts |-> NoId] /\ fits = FALSE
  /\ held = [r \in Runs |-> EmptyPage]
  /\ answer = "pending" /\ flying = {}
  /\ outcome = "none"

------------------------------------------------------------------------------
(* The host makes one primitive of wires that meet (docs/pits.md:39). *)

\* Somebody else's wire <<0, l>> meets wire l of the plan, whichever run has drawn it.
Meet(x, y) ==
  IF x \in Theirs \/ y \in Theirs
    THEN x # y /\ x[2] = y[2]
    ELSE <<x[2], y[2]>> \in meets \/ <<y[2], x[2]>> \in meets

Joined(pg, x) == \E y \in pg.lines : Meet(x, y)

Closed(pg, S) == \A x \in S, y \in pg.lines : Meet(x, y) => y \in S

\* The wires that are one primitive with x.
Primitive(pg, x) ==
  {y \in pg.lines : \A S \in SUBSET pg.lines : x \in S /\ Closed(pg, S) => y \in S}

\* It is somebody else's, or has something of theirs in it.
Merged(pg, x) == Primitive(pg, x) \cap Theirs # {}

\* The plan's lines that are a primitive of their own.
Lone(pg) == {x \in pg.lines \ Theirs : ~Joined(pg, x)}

------------------------------------------------------------------------------
(* How the page is judged. *)

\* The plan's designators that are on the page.
Named(pg) == {pg.name[p] : p \in PartIds} \cap Parts

\* Each part of the plan is on the page, in its place and with its value.
Whole(pg) ==
  \A i \in Parts : \E r \in Runs : pg.name[<<r, i>>] = i /\ <<r, i>> \in pg.valued

\* Each wire and flag is there, whatever primitive it is in.
LinesLie(pg) == \A l \in Lines : \E r \in Runs : <<r, l>> \in pg.lines

\* No flag lies on another one.
FlagsSingle(pg) ==
  \A l \in FlagPoints : \A r, s \in Runs : <<r, l>> \in pg.lines /\ <<s, l>> \in pg.lines => r = s

HasFlags(pg) == \E x \in pg.lines : ~IsWire(x[2])

\* The canvas leg of the postconditions.
Drawn(pg) == Whole(pg) /\ LinesLie(pg) /\ FlagsSingle(pg)

\* The netlist leg: the plan's pins are on their nets.
Netted(pg) == Parts \subseteq Named(pg) /\ LinesLie(pg)

\* Nothing of the plan is on the page, but for what is one primitive with somebody else's wire.
Cleared(pg) == Named(pg) = {} /\ \A x \in pg.lines : Merged(pg, x)

\* The page has the census of the one that the plan was built for.
AsPlanned(pg) == (\A p \in PartIds : pg.name[p] = 0) /\ pg.lines = others

\* What has a designator of the plan is in that part's place, with its value.
PartsKnown(pg) == \A p \in PartIds : pg.name[p] \in Parts => pg.name[p] = p[2] /\ p \in pg.valued

\* A primitive that lies on a wire of the plan only in part is a mismatch: two wires of the plan that
\* were joined always are; one that has somebody else's in it may go by a name that the plan's wire
\* cannot have, and is then passed over (belongs_to).
WiresKnown(pg) == \A x \in pg.lines : Joined(pg, x) => Merged(pg, x)

\* discard_selection may find no mismatch.
Discardable(pg) == PartsKnown(pg) /\ FlagsSingle(pg) /\ WiresKnown(pg)

\* (Mutant of Targets: a wire is the plan's if any of its points is.)
TargetsByOnePoint(pg, phase) ==
  IF phase = 3 THEN {p \in PartIds : pg.name[p] \in Parts}
               ELSE {x \in pg.lines \ Theirs : IsWire(x[2]) <=> phase = 1}

\* What of such a page is deleted in each phase.
Targets(pg, phase) ==
  IF phase = 3 THEN {p \in PartIds : pg.name[p] \in Parts}
               ELSE {x \in Lone(pg) : IsWire(x[2]) <=> phase = 1}

\* Something on the page is still matched by the plan.
Matched(pg) ==
  \/ \E p \in PartIds : pg.name[p] = p[2] /\ p \in pg.valued
  \/ \E x \in Lone(pg) : IsWire(x[2]) \/ \A y \in pg.lines : y[2] = x[2] => y = x

\* census_changes: these lines of the first reading are there, and nothing has been joined to them.
Keeps(lines, before, after) ==
  /\ lines \subseteq after.lines
  /\ \A x \in lines, y \in after.lines : Meet(x, y) => y \in before.lines

\* range_diff and census_changes: the primitives of the first reading are as they were.
Fits(before, after) ==
  /\ \A p \in PartIds : before.name[p] # 0 =>
       after.name[p] = before.name[p] /\ (p \in after.valued <=> p \in before.valued)
  /\ Keeps(before.lines, before, after)

------------------------------------------------------------------------------
(* The editor. *)

\* Part c is put on the page under one of these names.
Puts(c, names) ==
  /\ page.name[<<c.run, c.item>>] = 0
  /\ \E n \in names :
       page' = [page EXCEPT !.name[<<c.run, c.item>>] = n, !.shut = FALSE]

\* The plan's name, unless it is taken: then the host gives it another one that is free.
PlacedNames(i) == IF i \in Named(page) THEN (Parts \ Named(page)) \cup {Odd} ELSE {i}

\* A wire that is drawn over itself is the same wire.
Draws(c) ==
  LET new == <<c.run, c.item>>
      met == {x \in page.lines \ Theirs : IsWire(c.item) /\ x[2] = c.item}
  IN  page' = [page EXCEPT !.lines = (@ \ met) \cup {new}]

\* These primitives are deleted, with all that is in them by then; but the host may have given
\* those that were joined since another id.
Removes(phase, ids) ==
  IF phase = 3
    THEN page' = [page EXCEPT !.name = [p \in PartIds |-> IF p \in ids THEN 0 ELSE page.name[p]],
                              !.valued = @ \ ids]
    ELSE LET there == ids \cap page.lines
         IN  \E kept \in SUBSET (there \ Lone(page)) :
               page' = [page EXCEPT !.lines = @ \ UNION {Primitive(page, x) : x \in there \ kept}]

\* What write c does; but for the save a host may have answered ok and done nothing.
Effect(c) ==
  \/ c.what # "save" /\ UNCHANGED pageVars
  \/ c.what = "place" /\ Puts(c, PlacedNames(c.item)) /\ UNCHANGED disk
  \/ /\ c.what = "value" /\ page.name[c.of] # 0
     /\ page' = [page EXCEPT !.valued = @ \cup {c.of}] /\ UNCHANGED disk
  \/ c.what = "hide" /\ page' = [held[c.run] EXCEPT !.shut = TRUE] /\ UNCHANGED disk
  \/ c.what = "line" /\ Draws(c) /\ UNCHANGED disk
  \/ c.what = "cut" /\ Removes(c.item, Targets(held[c.run], c.item)) /\ UNCHANGED disk
  \/ c.what = "save" /\ disk' = page /\ UNCHANGED page

\* The write the command waits for.
Awaited(c) ==
  pc \in {"place", "value", "hide", "line", "cut", "save"} /\ c.run = run /\ c.what = pc
    /\ c.item = at

\* The write is over; the command hears of it if it still waits for this one.
Over(c, result) ==
  /\ flying' = flying \ {c}
  /\ answer' = IF Awaited(c) THEN result ELSE answer
  /\ UNCHANGED <<planVars, runVars, pc, at, readVars, outcome>>

Lands(c) == c \in flying /\ Effect(c) /\ Over(c, "ok")

\* The write is refused, or a part of it: sch.place_component placed the part and could not name
\* it, or gave the placement up that then came; some ids could not be deleted.
Fails(c) ==
  /\ c \in flying
  /\ UNCHANGED disk
  /\ \/ UNCHANGED page /\ Over(c, "error")
     \/ /\ c.what = "place" /\ Puts(c, {Odd})
        /\ Over(c, "error") \/ Over(c, "pending")
     \/ /\ c.what = "cut"
        /\ \E ids \in SUBSET Targets(held[c.run], c.item) : Removes(c.item, ids)
        /\ Over(c, "error")

------------------------------------------------------------------------------
(* Both commands. *)

Begins ==
  /\ pc = "idle" /\ run < MaxRuns
  /\ run' = run + 1 /\ task' \in {"apply", "discard"} /\ fresh' = (flying = {})
  /\ pc' = "focus" /\ outcome' = "none"
  /\ UNCHANGED <<planVars, pageVars, at, readVars, answer, flying>>

\* The command is over, and what it knew with it, but for what its writes go by.
Ends(o) ==
  /\ pc' = "idle" /\ outcome' = o
  /\ at' = 1 /\ seen' = EmptyPage /\ own' = [i \in Parts |-> NoId] /\ fits' = FALSE
  /\ held' = [r \in Runs |-> IF \E c \in flying : c.run = r /\ c.what \in {"hide", "cut"}
                               THEN held[r] ELSE EmptyPage]
  /\ answer' = "pending"
  /\ UNCHANGED <<planVars, pageVars, runVars, flying>>

Goes(step) ==
  /\ pc' = step /\ at' = 1
  /\ UNCHANGED <<planVars, pageVars, runVars, readVars, answer, flying, outcome>>

\* A write is sent, and its answer waited for.
Sends(what, item, of) ==
  /\ pc' = what /\ at' = item /\ answer' = "pending"
  /\ flying' = flying \cup {[run |-> run, what |-> what, item |-> item, of |-> of]}
  /\ UNCHANGED <<planVars, pageVars, runVars, outcome>>

Killed == pc # "idle" /\ Ends("killed")

\* doc.list, doc.focus and sys.identity: the plan's page has to be in front.
ChecksFocus ==
  /\ pc = "focus"
  /\ \/ Ends("refused")
     \/ Goes(IF task = "apply" THEN "guard" ELSE "select")

HearsSave ==
  /\ pc = "save"
  /\ \/ answer = "ok" /\ Ends(IF task = "apply" THEN "applied" ELSE "cleared")
     \/ answer = "error" /\ Ends("failed")
     \/ answer = "pending" /\ Ends("unknown")

------------------------------------------------------------------------------
(* draw apply. *)

\* The first sch.geometry, and the digests.
ReadsPage ==
  /\ pc = "guard"
  /\ \/ Ends("refused")
     \/ Ends("unknown")
     \/ /\ pc' = "probe" /\ seen' = page
        /\ UNCHANGED <<planVars, pageVars, runVars, at, own, fits, held, answer, flying, outcome>>

\* The postconditions, with the netlist; then the parts of the plan, and the census.
Probes ==
  /\ pc = "probe"
  /\ \/ Drawn(seen) /\ Netted(page) /\ Ends("already")
     \/ Named(seen) # {} /\ Ends("refused")
     \/ Named(seen) = {} /\ bound /\ ~AsPlanned(seen) /\ Ends("refused")
     \/ Named(seen) = {} /\ (bound => AsPlanned(seen)) /\ Goes("pool")

\* The designators of the project, if its export can be read, are free of the plan's.
ReadsPool ==
  /\ pc = "pool"
  /\ \/ Ends("refused")
     \/ Sends("place", 1, NoId) /\ UNCHANGED readVars

\* After part `at`: the next one, or the values.
PlacesNext ==
  /\ UNCHANGED <<seen, fits, held>>
  /\ IF at < MaxParts
       THEN Sends("place", at + 1, NoId)
       ELSE /\ pc' = "ids" /\ at' = 1
            /\ UNCHANGED <<planVars, pageVars, runVars, answer, flying, outcome>>

HearsPlace ==
  /\ pc = "place"
  /\ \/ answer = "ok" /\ own' = [own EXCEPT ![at] = <<run, at>>] /\ PlacesNext
     \/ /\ answer # "ok"
        /\ pc' = IF answer = "error" THEN "missed" ELSE "doubt"
        /\ UNCHANGED <<planVars, pageVars, runVars, at, readVars, answer, flying, outcome>>

\* After an error or no answer: is the part on the page all the same?
ReadsWhetherPlaced ==
  /\ pc \in {"doubt", "missed"}
  /\ \/ Ends(IF pc = "doubt" THEN "unknown" ELSE "stopped")
     \/ at \in Named(page) /\ PlacesNext /\ UNCHANGED own

\* The primitives of the parts whose answer did not come, if the page can be read.
FindsIds ==
  /\ pc = "ids"
  /\ pc' = "values"
  /\ \/ UNCHANGED own
     \/ own' \in [Parts -> PartIds \cup {NoId}]
        /\ \A i \in Parts :
             IF own[i] = NoId /\ i \in Named(page)
               THEN own'[i] # NoId /\ page.name[own'[i]] = i
               ELSE own'[i] = own[i]
  /\ UNCHANGED <<planVars, pageVars, runVars, at, seen, fits, held, answer, flying, outcome>>

\* After the value of part `at`.
ValuesNext ==
  /\ IF at < MaxParts
       THEN pc' = "values" /\ at' = at + 1
       ELSE pc' = (IF hides THEN "text" ELSE "check") /\ at' = 1
  /\ UNCHANGED <<planVars, pageVars, runVars, readVars, answer, flying, outcome>>

WritesValue ==
  /\ pc = "values"
  /\ \/ own[at] # NoId /\ Sends("value", at, own[at]) /\ UNCHANGED readVars
     \/ own[at] = NoId /\ ValuesNext

\* However the write ends, the read-back will tell.
HearsValue == pc = "value" /\ ValuesNext

\* The whole source of the page is read, to be written back with the rows unprinted.
ReadsText ==
  /\ pc = "text"
  /\ \/ Ends("unknown")
     \/ Parts \subseteq Named(page) /\ page.shut /\ Goes("check")
     \/ /\ Parts \subseteq Named(page) /\ ~page.shut
        /\ held' = [held EXCEPT ![run] = page]
        /\ Sends("hide", 1, NoId) /\ UNCHANGED <<seen, own, fits>>

HearsHide == pc = "hide" /\ Goes("shown")

ReadsTextBack ==
  /\ pc = "shown"
  /\ \/ Ends("unknown")
     \/ page.shut /\ Goes("check")

\* The parts, their values and their pins, before the first wire.
ChecksParts ==
  /\ pc = "check"
  /\ \/ Ends("unknown")
     \/ Whole(page) /\ Sends("line", 1, NoId) /\ UNCHANGED readVars

\* (Mutant of HearsLine: it goes one too far.)
HearsLineOneMore ==
  /\ pc = "line"
  /\ \/ at <= MaxLines /\ Sends("line", at + 1, NoId) /\ UNCHANGED readVars
     \/ at > MaxLines /\ Goes("verify")

\* However a wire or a flag ends, the next one is drawn.
HearsLine ==
  /\ pc = "line"
  /\ \/ at < MaxLines /\ Sends("line", at + 1, NoId) /\ UNCHANGED readVars
     \/ at = MaxLines /\ Goes("verify")

\* The page as it is after the writes.  One flag lies at each point, so as many as planned have
\* come if there was none before.
Verifies ==
  /\ pc = "verify"
  /\ \/ Ends("unknown")
     \/ /\ Drawn(page) /\ ~HasFlags(seen)
        /\ pc' = "nets" /\ fits' = Fits(seen, page)
        /\ UNCHANGED <<planVars, pageVars, runVars, at, seen, own, held, answer, flying, outcome>>

\* The netlist; then the range and the findings.
Judges ==
  /\ pc = "nets"
  /\ \/ Ends("unknown")
     \/ Netted(page) /\ Ends("failed")
     \/ Netted(page) /\ fits /\ Sends("save", 1, NoId) /\ UNCHANGED readVars

------------------------------------------------------------------------------
(* draw discard. *)

\* The first phase from k on that has something to delete, or the read-back.
CutsFrom(k, pg) ==
  \/ \E p \in Phases :
       /\ p >= k /\ Targets(pg, p) # {} /\ \A q \in Phases : k <= q /\ q < p => Targets(pg, q) = {}
       /\ Sends("cut", p, NoId)
  \/ /\ \A p \in Phases : p >= k => Targets(pg, p) = {}
     /\ pc' = "back" /\ at' = 1
     /\ UNCHANGED <<planVars, pageVars, runVars, answer, flying, outcome>>

\* One mismatch and nothing is deleted.
Selects ==
  /\ pc = "select"
  /\ \/ Ends("refused")
     \/ Ends("unknown")
     \/ Discardable(page) /\ Cleared(page) /\ Ends("nothing")
     \/ /\ Discardable(page) /\ ~Cleared(page)
        /\ held' = [held EXCEPT ![run] = page]
        /\ CutsFrom(1, page) /\ UNCHANGED <<seen, own, fits>>

HearsCut ==
  /\ pc = "cut"
  /\ \/ answer = "ok" /\ CutsFrom(at + 1, held[run]) /\ UNCHANGED readVars
     \/ answer = "error" /\ Ends("failed")
     \/ answer = "pending" /\ Ends("unknown")

\* The targets are gone, nothing is matched any more, and the rest is as it was.
Discarded ==
  /\ \A p \in Targets(held[run], 3) : page.name[p] = 0
  /\ Lone(held[run]) \cap page.lines = {}
  /\ Keeps(held[run].lines \ Lone(held[run]), held[run], page)
  /\ ~Matched(page)
  /\ \A p \in PartIds : held[run].name[p] = Odd => page.name[p] = Odd

\* (Mutants of ReadsBack: the answers are believed; the lines are not looked for.)
ReadsBackNothing ==
  /\ pc = "back"
  /\ \/ Ends("unknown")
     \/ Ends("discarded")
     \/ Sends("save", 1, NoId) /\ UNCHANGED readVars

ReadsBackParts ==
  /\ pc = "back"
  /\ \/ Ends("unknown")
     \/ /\ \A p \in Targets(held[run], 3) : page.name[p] = 0
        /\ Ends("discarded") \/ (Sends("save", 1, NoId) /\ UNCHANGED readVars)

ReadsBack ==
  /\ pc = "back"
  /\ \/ Ends("unknown")
     \/ ~Discarded /\ Ends("failed")
     \/ Discarded /\ Ends("discarded")
     \/ Discarded /\ Sends("save", 1, NoId) /\ UNCHANGED readVars

------------------------------------------------------------------------------
Apply ==
  \/ ReadsPage \/ Probes \/ ReadsPool \/ HearsPlace \/ ReadsWhetherPlaced \/ FindsIds
  \/ WritesValue \/ HearsValue \/ ReadsText \/ HearsHide \/ ReadsTextBack \/ ChecksParts
  \/ HearsLine \/ Verifies \/ Judges

Discard == Selects \/ HearsCut \/ ReadsBack

Next ==
  \/ Begins \/ Killed \/ ChecksFocus \/ HearsSave \/ Apply \/ Discard
  \/ \E c \in flying : Lands(c) \/ Fails(c)

Spec == Init /\ [][Next]_vars

------------------------------------------------------------------------------
(* Properties. *)

\* Exit 0 is true of the page, although answers were lost and a host did not do what it said: after
\* "applied" and "already" the whole drawing is on it (and after the first no value row is printed
\* that should not be), after "discarded" and "nothing_to_discard" nothing of it, but for wires that
\* are one primitive with somebody else's, and what was saved says the same.  Whatever earlier
\* commands have left on the page; only writes of theirs that are still under way when the command
\* begins can make it false.
LastWordIsTrue ==
  (run \in Runs /\ pc = "idle" /\ fresh) =>
    /\ outcome \in {"applied", "already"} => Drawn(page)
    /\ outcome = "applied" => Drawn(disk) /\ (hides => page.shut /\ disk.shut)
    /\ outcome \in {"discarded", "cleared", "nothing"} => Cleared(page)
    /\ outcome = "cleared" => Cleared(disk)

\* Half a drawing is not saved: with the same exceptions, each save stores the whole drawing or
\* nothing of it, also one that lands after its command was given up.
HalfIsNeverSaved == [][disk' # disk /\ fresh => Drawn(disk') \/ Cleared(disk')]_vars

\* What the host merged with somebody else's wire is never deleted (docs/draw.md:604), and no
\* write takes such a wire off the page otherwise, not even the one of the whole document: with the
\* same exception, somebody else's wires stay on the page.
OthersAreLeftAlone == [][fresh => page'.lines \cap Theirs = page.lines \cap Theirs]_vars

==============================================================================
