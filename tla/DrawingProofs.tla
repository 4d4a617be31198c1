---------------------------- MODULE DrawingProofs ----------------------------
(***************************************************************************)
(* Proofs about landing a drawing and taking it off again, for any number  *)
(* of commands, parts, wires and flags.                                    *)
(***************************************************************************)
EXTENDS Drawing, TLAPS

Early == {"focus", "guard", "probe", "pool", "select"}
Placing == {"place", "doubt", "missed"}
Valuing == {"ids", "values", "value"}
Hiding == {"text", "hide", "shown"}
Lining == {"line", "verify"}

\* The steps of draw apply with a part on the page, or on its way there.
Landing == Placing \cup Valuing \cup Hiding \cup {"check", "nets"} \cup Lining

Landed == task = "apply" /\ pc = "save"

\* On a page, what has a value is a part, and nobody has drawn on it who has not begun.
Tidy(pg) ==
  /\ \A p \in pg.valued : pg.name[p] # 0
  /\ \A p \in PartIds : pg.name[p] # 0 => p[1] <= run
  /\ \A x \in pg.lines : x[1] <= run

\* What holds of any run, whatever else is under way.
Order ==
  /\ Tidy(page) /\ \A r \in Runs : Tidy(held[r])
  /\ \A c \in flying : c.run <= run /\ (c.what # "value" /\ Awaited(c) => answer = "pending")
  /\ pc \in Landing \cup {"guard", "probe", "pool"} => task = "apply"
  /\ pc \in {"select", "cut", "back"} => task = "discard"
  /\ run = 0 => outcome = "none" /\ pc = "idle" /\ flying = {}
  /\ pc # "idle" => outcome = "none"
  /\ pc \in Early \cup {"idle"} => \A i \in Parts : own[i] = NoId
  /\ pc \in {"hide", "save"} => at = 1

\* The names of the plan are those of the run's own parts.
OwnNames(pg) == \A p \in PartIds : pg.name[p] \in Parts => p = <<run, pg.name[p]>>

IsWireWrite(c) == c.what = "line" /\ IsWire(c.item)

\* What can be under way in a run that began with nothing under way.
MayFly(c) ==
  /\ c.run = run
  /\ c.what = "place" =>
       /\ pc \in Placing \cup {"idle"}
       /\ pc # "idle" => c.item = at /\ page.name[<<run, c.item>>] = 0
  /\ c.what = "value" =>
       /\ pc \in Hiding \cup {"values", "value", "check", "idle"}
       /\ pc # "idle" => c.of = <<run, c.item>> /\ c.of \notin page.valued
       /\ pc \in {"values", "value"} => c.item < at \/ (pc = "value" /\ c.item = at)
  /\ c.what = "hide" => pc \in {"hide", "shown", "idle"} /\ (pc # "idle" => ~page.shut)
  /\ c.what = "line" =>
       /\ pc \in Lining \cup {"nets", "save", "idle"}
       /\ pc # "idle" => <<run, c.item>> \notin page.lines
       /\ pc = "line" => c.item <= at
       /\ pc \in {"nets", "save"} => IsWire(c.item)
  /\ c.what = "cut" => pc \in {"cut", "idle"} /\ (pc = "cut" => c.item = at)
  /\ c.what = "save" => pc \in {"save", "idle"}

\* Before the first write the page is as it was, and nothing on it is the run's.
EarlyPage ==
  pc \in Early =>
    /\ \A p \in PartIds : page.name[p] # 0 => p[1] # run
    /\ \A x \in page.lines : x[1] # run
    /\ pc \in {"probe", "pool"} => seen = page
    /\ pc = "pool" => Named(page) = {}

\* The parts of the run, while they come.
PartsPage ==
  /\ pc \in Landing \/ Landed => OwnNames(page)
  /\ pc \in Placing =>
       \A i \in Parts : /\ i > at => page.name[<<run, i>>] = 0
                        /\ <<run, i>> \notin page.valued
  /\ pc = "ids" => \A i \in Parts : <<run, i>> \notin page.valued
  /\ pc \in {"values", "value"} =>
       \A i \in Parts : i > at \/ (pc = "values" /\ i = at) => <<run, i>> \notin page.valued
  /\ pc \in Placing \cup Valuing => \A i \in Parts : own[i] \in {NoId, <<run, i>>}
  /\ hides /\ (pc \in {"check", "nets"} \cup Lining \/ Landed) => page.shut

\* The document that is written back is the page, but for values that may have come since.
HeldPage ==
  \A c \in flying : c.what = "hide" /\ pc # "idle" =>
    /\ OwnNames(held[run])
    /\ held[run].lines = seen.lines
    /\ \A d \in flying : d.what = "value" => d.of \notin held[run].valued

\* The lines on the page: those of the first reading and, in the end, the run's.
LinesPage ==
  /\ pc \in Placing \cup Valuing \cup Hiding \cup {"check"} =>
       page.lines = seen.lines /\ \A x \in page.lines : x[1] # run
  /\ pc \in Lining =>
       \A x \in page.lines : /\ ~IsWire(x[2]) => x[1] = run \/ x \in seen.lines
                             /\ pc = "line" /\ x[1] = run => x[2] <= at

\* From a page on which everything of the plan can be deleted, some has been; what is joined to
\* something is still there.
CutPage ==
  pc \in {"cut", "back"} =>
    /\ Discardable(held[run])
    /\ \A p \in PartIds :
         page.name[p] # 0 => /\ page.name[p] = held[run].name[p]
                             /\ p \in held[run].valued => p \in page.valued
    /\ page.lines \subseteq held[run].lines
    /\ held[run].lines \ Lone(held[run]) \subseteq page.lines

\* The page that is saved, and what is on disk once the answer is there.
SavePage ==
  /\ pc = "nets" => Drawn(page)
  /\ pc = "save" => IF task = "apply"
                      THEN /\ Drawn(page)
                           /\ answer = "ok" => Drawn(disk) /\ (hides => disk.shut)
                      ELSE /\ Cleared(page)
                           /\ \A c \in flying : c.what = "save"
                           /\ answer = "ok" => Cleared(disk)
  /\ \A c \in flying : c.what = "save" =>
       \/ Drawn(page) /\ \A d \in flying : d.what = "save" \/ IsWireWrite(d)
       \/ Cleared(page) /\ \A d \in flying : d.what = "save"

\* The parts and the flags of the plan are such as draw discard takes for the plan's.
Known(pg) == PartsKnown(pg) /\ FlagsSingle(pg)

\* What a run that is over has left.
LastPage ==
  pc = "idle" =>
    /\ outcome \in {"applied", "already"} => Drawn(page)
    /\ outcome = "applied" => Drawn(disk) /\ (hides => page.shut /\ disk.shut)
    /\ outcome \in {"discarded", "cleared", "nothing"} => Cleared(page)
    /\ outcome = "cleared" => Cleared(disk)
    /\ outcome = "failed" => Known(page)
    /\ outcome \in {"applied", "failed"} => \A c \in flying : IsWireWrite(c)
    /\ outcome \in {"already", "discarded", "cleared", "nothing"} => flying = {}

FreshInv ==
  fresh =>
    /\ \A c \in flying : MayFly(c)
    /\ EarlyPage /\ PartsPage /\ HeldPage /\ LinesPage /\ CutPage /\ SavePage /\ LastPage

Inv == TypeOK /\ Order /\ FreshInv

------------------------------------------------------------------------------
(* Type correctness. *)

Kinds == {"place", "value", "line", "cut", "hide", "save"}

Write(what, item, of) == [run |-> run, what |-> what, item |-> item, of |-> of]

\* What a write looks like.
LEMMA WriteShape ==
  ASSUME NEW c \in Writes
  PROVE  /\ c.run \in Runs /\ c.what \in Kinds
         /\ c.what = "place" => c.item \in Parts
         /\ c.what = "value" => c.item \in Parts /\ c.of \in PartIds
         /\ c.what = "line" => c.item \in Lines
         /\ c.what = "cut" => c.item \in Phases
         /\ c.what \in {"hide", "save"} => c.item = 1
         /\ c.what # "value" => c.of = NoId
BY DEF Writes, Calls, Kinds

\* Only writes of values differ in more than their run, their kind and their item.
LEMMA WriteIsItsItem ==
  ASSUME NEW c \in Writes, NEW d \in Writes, c.run = d.run, c.what = d.what, c.item = d.item,
         c.what # "value" \/ c.of = d.of
  PROVE  c = d
BY DEF Writes, Calls

LEMMA WriteTypes ==
  ASSUME run \in Runs
  PROVE  /\ \A i \in Parts : Write("place", i, NoId) \in Writes
         /\ \A i \in Parts, p \in PartIds : Write("value", i, p) \in Writes
         /\ \A l \in Lines : Write("line", l, NoId) \in Writes
         /\ \A k \in Phases : Write("cut", k, NoId) \in Writes
         /\ Write("hide", 1, NoId) \in Writes /\ Write("save", 1, NoId) \in Writes
BY DEF Writes, Calls, Write

LEMMA Units == 1 \in Parts /\ 1 \in Lines /\ 1 \in Phases
BY DrawingAssumption DEF Parts, Lines, Phases

\* Of a line: who has drawn it, and the item it is.
LEMMA LineShape ==
  ASSUME NEW x \in LineIds \cup Theirs
  PROVE  /\ x = <<x[1], x[2]>> /\ x[1] \in Runs \cup {0} /\ x[2] \in Lines
         /\ x \in Theirs <=> x[1] = 0
         /\ x \in Theirs => IsWire(x[2])
BY DEF LineIds, Theirs, Wires, Runs

LEMMA EmptyPageType == EmptyPage \in Pages
BY DrawingAssumption DEF EmptyPage, Pages, Names, Odd

LEMMA TypeInit == Init => TypeOK
<1> SUFFICES ASSUME Init  PROVE TypeOK
  OBVIOUS
<1>1. page \in Pages /\ disk \in Pages
  BY EmptyPageType DEF Init, Pages
<1>2. meets \subseteq Wires \X Wires /\ others \subseteq Theirs
  BY DEF Init
<1> QED  BY <1>1, <1>2, EmptyPageType, Units DEF Init, TypeOK, Steps, PartSteps, Outcomes

LEMMA EndsTypes ==
  ASSUME TypeOK, NEW o \in Outcomes, Ends(o)
  PROVE  TypeOK'
<1>1. held' \in [Runs -> Pages]
  BY EmptyPageType DEF TypeOK, Ends
<1> QED  BY <1>1, EmptyPageType, Units DEF TypeOK, Ends, Steps, PartSteps, planVars, pageVars, runVars

LEMMA GoesTypes ==
  ASSUME TypeOK, run \in Runs, NEW s \in Steps, Goes(s)
  PROVE  TypeOK'
BY Units DEF TypeOK, Goes, planVars, pageVars, runVars, readVars

LEMMA SendsTypes ==
  ASSUME TypeOK, run \in Runs, NEW what \in Kinds, NEW item, NEW of,
         Write(what, item, of) \in Writes, Sends(what, item, of),
         seen' \in Pages, own' \in [Parts -> PartIds \cup {NoId}], fits' \in BOOLEAN,
         held' \in [Runs -> Pages]
  PROVE  TypeOK'
<1> DEFINE c == Write(what, item, of)
<1>1. c.what = what /\ c.item = item
  BY DEF Write
<1>2. /\ item \in Parts \cup Lines \cup Phases
      /\ what \in {"place", "value"} => item \in Parts
      /\ what = "line" => item \in Lines
  BY <1>1, WriteShape, Units DEF Kinds
<1>3. flying' \subseteq Writes
  BY DEF TypeOK, Sends, Write
<1>4. what \notin {"doubt", "missed", "ids", "values", "idle"} /\ what \in Steps
  BY DEF Kinds, Steps
<1> QED  BY <1>2, <1>3, <1>4 DEF TypeOK, Sends, PartSteps, planVars, pageVars, runVars

\* A step that neither sends nor ends anything.
LEMMA StepTypes ==
  ASSUME TypeOK, UNCHANGED <<planVars, pageVars, runVars, held, answer, flying, outcome>>,
         run \in Runs, pc' \in Steps, at' \in Parts \cup Lines \cup Phases,
         pc' \in PartSteps => at' \in Parts, pc' = "line" => at' \in Lines,
         seen' \in Pages, own' \in [Parts -> PartIds \cup {NoId}], fits' \in BOOLEAN
  PROVE  TypeOK'
BY DEF TypeOK, planVars, pageVars, runVars

LEMMA FlowTypes == ASSUME TypeOK, Apply  PROVE TypeOK'
<1> USE DEF Steps, PartSteps, Outcomes, Kinds, readVars
<1>0. pc # "idle" => run \in Runs
  BY DEF TypeOK
<1>0a. \A i \in Parts : i < MaxParts => i + 1 \in Parts
  BY DrawingAssumption DEF Parts
<1>0b. \A l \in Lines : l < MaxLines => l + 1 \in Lines
  BY DrawingAssumption DEF Lines
<1>1. CASE ReadsPage
  <2>1. CASE Ends("refused") \/ Ends("unknown")
    BY <2>1, EndsTypes
  <2>2. CASE pc' = "probe"
    BY <1>0, <1>1, <2>2, StepTypes DEF ReadsPage, TypeOK, Ends
  <2> QED  BY <1>1, <2>1, <2>2 DEF ReadsPage
<1>2. CASE Probes
  BY <1>0, <1>2, EndsTypes, GoesTypes DEF Probes
<1>3. CASE ReadsPool
  BY <1>0, <1>3, EndsTypes, SendsTypes, WriteTypes, Units DEF ReadsPool, TypeOK
<1>4. ASSUME PlacesNext, at \in Parts, run \in Runs, own' \in [Parts -> PartIds \cup {NoId}]
      PROVE  TypeOK'
  <2>1. CASE at < MaxParts
    BY <1>0a, <1>4, <2>1, SendsTypes, WriteTypes DEF PlacesNext, TypeOK
  <2>2. CASE ~(at < MaxParts)
    BY <1>4, <2>2, StepTypes, Units DEF PlacesNext, TypeOK
  <2> QED  BY <2>1, <2>2
<1>5. CASE HearsPlace
  <2>1. at \in Parts /\ run \in Runs
    BY <1>0, <1>5 DEF HearsPlace, TypeOK
  <2>2. CASE answer = "ok"
    <3>1. own' \in [Parts -> PartIds \cup {NoId}]
      BY <1>5, <2>1, <2>2 DEF HearsPlace, TypeOK, PartIds
    <3> QED  BY <1>4, <1>5, <2>1, <2>2, <3>1 DEF HearsPlace
  <2>3. CASE answer # "ok"
    BY <1>5, <2>1, <2>3, StepTypes DEF HearsPlace, TypeOK
  <2> QED  BY <2>2, <2>3
<1>6. CASE ReadsWhetherPlaced
  BY <1>0, <1>4, <1>6, EndsTypes DEF ReadsWhetherPlaced, TypeOK
<1>7. CASE FindsIds
  BY <1>0, <1>7, StepTypes DEF FindsIds, TypeOK
<1>8. ASSUME ValuesNext, at \in Parts, run \in Runs
      PROVE  TypeOK'
  BY <1>0a, <1>8, StepTypes, Units DEF ValuesNext, TypeOK
<1>9. CASE WritesValue
  <2>1. at \in Parts /\ run \in Runs
    BY <1>0, <1>9 DEF WritesValue, TypeOK
  <2>2. own[at] # NoId => own[at] \in PartIds
    BY <2>1 DEF TypeOK
  <2> QED  BY <1>8, <1>9, <2>1, <2>2, SendsTypes, WriteTypes DEF WritesValue, TypeOK
<1>10. CASE HearsValue
  BY <1>0, <1>8, <1>10 DEF HearsValue, TypeOK
<1>11. CASE ReadsText
  <2>1. [held EXCEPT ![run] = page] \in [Runs -> Pages]
    BY DEF TypeOK
  <2> QED  BY <1>0, <1>11, <2>1, EndsTypes, GoesTypes, SendsTypes, WriteTypes DEF ReadsText, TypeOK
<1>12. CASE HearsHide \/ ReadsTextBack
  BY <1>0, <1>12, EndsTypes, GoesTypes DEF HearsHide, ReadsTextBack
<1>13. CASE ChecksParts
  BY <1>0, <1>13, EndsTypes, SendsTypes, WriteTypes, Units DEF ChecksParts, TypeOK
<1>14. CASE HearsLine
  <2>1. at \in Lines /\ run \in Runs
    BY <1>0, <1>14 DEF HearsLine, TypeOK
  <2>2. CASE at < MaxLines /\ Sends("line", at + 1, NoId) /\ UNCHANGED readVars
    BY <1>0b, <2>1, <2>2, SendsTypes, WriteTypes DEF TypeOK
  <2> QED  BY <1>14, <2>1, <2>2, GoesTypes DEF HearsLine
<1>15. CASE Verifies
  <2>1. Fits(seen, page) \in BOOLEAN
    BY DEF Fits
  <2>2. CASE Ends("unknown")
    BY <2>2, EndsTypes
  <2>3. CASE pc' = "nets" /\ fits' = Fits(seen, page)
    BY <1>0, <1>15, <2>1, <2>3, StepTypes DEF Verifies, TypeOK, Ends
  <2> QED  BY <1>15, <2>2, <2>3 DEF Verifies
<1>16. CASE Judges
  BY <1>0, <1>16, EndsTypes, SendsTypes, WriteTypes DEF Judges, TypeOK
<1> QED
  BY <1>1, <1>2, <1>3, <1>5, <1>6, <1>7, <1>9, <1>10, <1>11, <1>12, <1>13, <1>14, <1>15, <1>16
  DEF Apply

LEMMA CutsTypes ==
  ASSUME TypeOK, run \in Runs, NEW k, NEW pg, CutsFrom(k, pg), UNCHANGED <<seen, own, fits>>,
         held' \in [Runs -> Pages]
  PROVE  TypeOK'
<1>1. ASSUME NEW p \in Phases, Sends("cut", p, NoId)
      PROVE  TypeOK'
  BY <1>1, SendsTypes, WriteTypes DEF TypeOK, Kinds
<1>2. CASE pc' = "back" /\ at' = 1 /\ UNCHANGED <<planVars, pageVars, runVars, answer, flying, outcome>>
  BY <1>2, Units DEF TypeOK, Steps, PartSteps, planVars, pageVars, runVars
<1> QED  BY <1>1, <1>2 DEF CutsFrom

LEMMA DiscardTypes == ASSUME TypeOK, Discard  PROVE TypeOK'
<1> USE DEF Steps, Outcomes, Kinds, readVars
<1>0. pc # "idle" => run \in Runs
  BY DEF TypeOK
<1>1. CASE Selects
  <2>1. [held EXCEPT ![run] = page] \in [Runs -> Pages]
    BY DEF TypeOK
  <2> QED  BY <1>0, <1>1, <2>1, EndsTypes, CutsTypes DEF Selects, TypeOK
<1>2. CASE HearsCut
  <2>1. CASE CutsFrom(at + 1, held[run]) /\ UNCHANGED readVars
    BY <1>0, <1>2, <2>1, CutsTypes DEF HearsCut, TypeOK
  <2> QED  BY <1>2, <2>1, EndsTypes DEF HearsCut
<1>3. CASE ReadsBack
  BY <1>0, <1>3, EndsTypes, SendsTypes, WriteTypes DEF ReadsBack, TypeOK
<1> QED  BY <1>1, <1>2, <1>3 DEF Discard

LEMMA CommonTypes ==
  ASSUME TypeOK, Begins \/ Killed \/ ChecksFocus \/ HearsSave  PROVE TypeOK'
<1> USE DEF Steps, Outcomes
<1>1. CASE Begins
  <2>1. run' \in Runs
    BY <1>1, DrawingAssumption DEF TypeOK, Begins, Runs
  <2> QED  BY <1>1, <2>1 DEF Begins, TypeOK, PartSteps, planVars, pageVars, readVars
<1>2. CASE Killed \/ HearsSave
  BY <1>2, EndsTypes DEF Killed, HearsSave
<1>3. CASE ChecksFocus
  BY <1>3, EndsTypes, GoesTypes DEF ChecksFocus, TypeOK
<1> QED  BY <1>1, <1>2, <1>3

\* What deletes do to a page: the parts go or the lines, and nothing comes.
LEMMA RemovesShape ==
  ASSUME page \in Pages, NEW k, NEW ids, Removes(k, ids)
  PROVE  /\ page' \in Pages /\ page'.lines \subseteq page.lines /\ page'.shut = page.shut
         /\ k = 3 => /\ page'.valued = page.valued \ ids /\ page'.lines = page.lines
                     /\ \A p \in PartIds : page'.name[p] = IF p \in ids THEN 0 ELSE page.name[p]
         /\ k # 3 => page'.valued = page.valued /\ page'.name = page.name
<1>1. 0 \in Names
  BY DrawingAssumption DEF Names, Odd
<1>2. CASE k = 3
  <2>1. page' = [page EXCEPT !.name = [p \in PartIds |-> IF p \in ids THEN 0 ELSE page.name[p]],
                             !.valued = @ \ ids]
    BY <1>2 DEF Removes
  <2> QED  BY <1>1, <1>2, <2>1 DEF Pages
<1>3. CASE k # 3
  <2>1. \E gone : page' = [page EXCEPT !.lines = @ \ gone]
    BY <1>3 DEF Removes
  <2>2. PICK gone : page' = [page EXCEPT !.lines = @ \ gone]
    BY <2>1
  <2> QED  BY <1>3, <2>2 DEF Pages
<1> QED  BY <1>2, <1>3

LEMMA PutsTypes ==
  ASSUME page \in Pages, NEW c \in Writes, c.what = "place", NEW names \in SUBSET Names,
         Puts(c, names)
  PROVE  page' \in Pages
<1>1. <<c.run, c.item>> \in PartIds
  BY WriteShape DEF PartIds
<1>2. PICK n \in names : page' = [page EXCEPT !.name[<<c.run, c.item>>] = n, !.shut = FALSE]
  BY DEF Puts
<1>3. [page.name EXCEPT ![<<c.run, c.item>>] = n] \in [PartIds -> Names]
  BY <1>1 DEF Pages
<1> QED  BY <1>2, <1>3 DEF Pages

LEMMA EffectTypes == ASSUME TypeOK, NEW c \in flying, Effect(c)  PROVE page' \in Pages /\ disk' \in Pages
<1>0. c \in Writes
  BY DEF TypeOK
<1>1. CASE c.what = "place" /\ Puts(c, PlacedNames(c.item))
  <2>1. PlacedNames(c.item) \in SUBSET Names
    BY <1>0, <1>1, WriteShape, DrawingAssumption DEF PlacedNames, Names, Odd, Parts
  <2> QED  BY <1>0, <1>1, <2>1, PutsTypes DEF Effect, TypeOK, pageVars
<1>2. CASE c.what = "line" /\ Draws(c)
  <2>1. <<c.run, c.item>> \in LineIds
    BY <1>0, <1>2, WriteShape DEF LineIds
  <2>2. page' \in Pages
    BY <1>2, <2>1 DEF Draws, TypeOK, Pages
  <2> QED  BY <1>2, <2>2 DEF Effect, TypeOK, pageVars
<1>3. CASE c.what = "cut" /\ Removes(c.item, Targets(held[c.run], c.item))
  BY <1>3, RemovesShape DEF Effect, TypeOK, pageVars
<1>4. CASE c.what = "value" /\ page' = [page EXCEPT !.valued = @ \cup {c.of}] /\ UNCHANGED disk
  <2>1. c.of \in PartIds
    BY <1>0, <1>4, WriteShape
  <2> QED  BY <1>4, <2>1 DEF TypeOK, Pages
<1>5. CASE c.what = "hide" /\ page' = [held[c.run] EXCEPT !.shut = TRUE] /\ UNCHANGED disk
  BY <1>0, <1>5, WriteShape DEF TypeOK, Pages
<1> QED  BY <1>1, <1>2, <1>3, <1>4, <1>5 DEF Effect, TypeOK, pageVars

LEMMA OverTypes ==
  ASSUME TypeOK, NEW c, NEW r \in {"ok", "error", "pending"}, Over(c, r),
         page' \in Pages, disk' \in Pages
  PROVE  TypeOK'
BY DEF TypeOK, Over, planVars, runVars, readVars

LEMMA EditorTypes ==
  ASSUME TypeOK, NEW c \in flying, Lands(c) \/ Fails(c)
  PROVE  TypeOK'
<1>1. CASE Lands(c)
  BY <1>1, EffectTypes, OverTypes DEF Lands
<1>2. CASE Fails(c)
  <2>1. c \in Writes /\ page \in Pages /\ disk' \in Pages
    BY <1>2 DEF TypeOK, Fails
  <2>2. {Odd} \in SUBSET Names
    BY DrawingAssumption DEF Names, Odd
  <2>3. page' \in Pages
    BY <1>2, <2>1, <2>2, PutsTypes, RemovesShape DEF Fails
  <2>4. Over(c, "error") \/ Over(c, "pending")
    BY <1>2 DEF Fails
  <2> QED  BY <2>1, <2>3, <2>4, OverTypes
<1> QED  BY <1>1, <1>2

LEMMA TypeStep == ASSUME TypeOK, [Next]_vars  PROVE TypeOK'
<1>1. CASE UNCHANGED vars
  BY <1>1 DEF TypeOK, vars, planVars, pageVars, runVars, readVars
<1> QED  BY <1>1, FlowTypes, DiscardTypes, CommonTypes, EditorTypes DEF Next

\* Every variable of the commands and of the page holds a value of its kind.
THEOREM TypeCorrect == Spec => []TypeOK
BY TypeInit, TypeStep, PTL DEF Spec

------------------------------------------------------------------------------
(* What holds of any run. *)

Waiting == {"place", "value", "hide", "line", "cut", "save"}

LEMMA OrderInit == Init => Order
<1> SUFFICES ASSUME Init  PROVE Order
  OBVIOUS
<1>1. Tidy(EmptyPage) /\ Tidy(page)
  BY DEF Init, Tidy, EmptyPage, Theirs
<1>2. \A r \in Runs : held[r] = EmptyPage
  BY DEF Init
<1> QED  BY <1>1, <1>2 DEF Init, Order, Landing, Placing, Valuing, Hiding, Lining

\* A step of the command itself.
LEMMA FlowOrder ==
  ASSUME TypeOK, Order, UNCHANGED <<page, run, task>>, run \in Runs,
         \A r \in Runs : Tidy(held'[r]),
         \A c \in flying' : c \in flying \/ c.run = run,
         pc' \notin Waiting \/ answer' = "pending",
         pc' \in Landing \cup {"guard", "probe", "pool"} => task = "apply",
         pc' \in {"select", "cut", "back"} => task = "discard",
         pc' # "idle" => outcome' = "none",
         pc' \in Early \cup {"idle"} => \A i \in Parts : own'[i] = NoId,
         pc' \in {"hide", "save"} => at' = 1
  PROVE  Order'
<1>1. Tidy(page)'
  BY DEF Order, Tidy
<1>2. \A r \in Runs : Tidy(held[r])'
  BY DEF Tidy
<1>3. \A c \in flying' : c.run <= run /\ (c.what # "value" /\ Awaited(c)' => answer' = "pending")
  <2> SUFFICES ASSUME NEW c \in flying'
               PROVE  c.run <= run /\ (Awaited(c)' => answer' = "pending")
    OBVIOUS
  <2>1. c.run <= run
    BY DrawingAssumption DEF Order, Runs
  <2>2. Awaited(c)' => answer' = "pending"
    BY DEF Awaited, Waiting
  <2> QED  BY <2>1, <2>2
<1>4. run # 0
  BY DEF Runs
<1> QED  BY <1>1, <1>2, <1>3, <1>4 DEF Order

LEMMA EndsOrder ==
  ASSUME TypeOK, Order, run \in Runs, NEW o, Ends(o)
  PROVE  Order'
<1>1. Tidy(EmptyPage)
  BY DEF Tidy, EmptyPage
<1>2. \A r \in Runs : Tidy(held'[r])
  <2> SUFFICES ASSUME NEW r \in Runs  PROVE Tidy(held'[r])
    OBVIOUS
  <2>1. held'[r] \in {held[r], EmptyPage}
    BY DEF Ends
  <2> QED  BY <1>1, <2>1 DEF Order
<1>3. \A i \in Parts : own'[i] = NoId
  BY DEF Ends
<1>4. pc' = "idle" /\ flying' = flying /\ UNCHANGED <<page, run, task>>
  BY DEF Ends, pageVars, runVars
<1> QED  BY <1>2, <1>3, <1>4, FlowOrder DEF Waiting, Landing, Placing, Valuing, Hiding, Lining

LEMMA GoesOrder ==
  ASSUME TypeOK, Order, run \in Runs, NEW s, Goes(s), s \notin Waiting \cup {"idle"}, pc # "idle",
         s \in Landing \cup {"guard", "probe", "pool"} => task = "apply",
         s \in {"select", "cut", "back"} => task = "discard",
         s \in Early => pc \in Early
  PROVE  Order'
<1>1. \A r \in Runs : Tidy(held'[r])
  BY DEF Goes, readVars, Order
<1>2. outcome' = "none" /\ own' = own /\ flying' = flying /\ UNCHANGED <<page, run, task>>
  BY DEF Goes, Order, readVars, pageVars, runVars
<1>3. pc' = s /\ pc' \notin {"hide", "save"}
  BY DEF Goes, Waiting
<1> QED  BY <1>1, <1>2, <1>3, FlowOrder DEF Order

LEMMA SendsOrder ==
  ASSUME TypeOK, Order, run \in Runs, pc # "idle", NEW what \in Kinds, NEW item, NEW of,
         Sends(what, item, of), \A r \in Runs : Tidy(held'[r]),
         what \notin {"cut", "save"} => task = "apply",
         what = "cut" => task = "discard",
         what \in {"hide", "save"} => item = 1
  PROVE  Order'
<1>1. \A c \in flying' : c \in flying \/ c.run = run
  BY DEF Sends
<1>2. outcome' = "none" /\ UNCHANGED <<page, run, task>> /\ pc' = what /\ at' = item
  BY DEF Sends, Order, pageVars, runVars
<1>3. pc' \notin Early \cup {"idle", "guard", "probe", "pool", "select", "back"} /\ answer' = "pending"
  BY DEF Sends, Kinds, Early
<1>4. what \in {"cut", "save"} => what \notin Landing
  BY DEF Landing, Placing, Valuing, Hiding, Lining
<1> QED  BY <1>1, <1>2, <1>3, <1>4, FlowOrder

\* A step that neither sends nor ends anything.
LEMMA StepOrder ==
  ASSUME TypeOK, Order, run \in Runs, pc # "idle",
         UNCHANGED <<planVars, pageVars, runVars, held, answer, flying, outcome>>,
         pc' \in (Landing \ Waiting) \cup {"probe"} => task = "apply",
         pc' = "back" => task = "discard",
         pc' \in (Landing \ Waiting) \cup {"probe", "back"},
         pc' = "probe" => pc \in Early /\ own' = own
  PROVE  Order'
<1>1. \A r \in Runs : Tidy(held'[r])
  BY DEF Order
<1>2. outcome' = "none" /\ UNCHANGED <<page, run, task>>
  BY DEF Order, pageVars, runVars
<1>3. /\ pc' \notin Waiting /\ pc' \notin {"idle", "select", "cut", "hide", "save", "guard", "pool"}
      /\ pc' \in Early => pc' = "probe"
      /\ "back" \notin Landing
  BY DEF Landing, Placing, Valuing, Hiding, Lining, Waiting, Early
<1> QED  BY <1>1, <1>2, <1>3, FlowOrder DEF Order

LEMMA ApplyOrder == ASSUME TypeOK, Order, Apply  PROVE Order'
<1> USE DEF readVars, Early
<1>0. pc # "idle" /\ run \in Runs
  BY DEF TypeOK, Apply, ReadsPage, Probes, ReadsPool, HearsPlace, ReadsWhetherPlaced, FindsIds,
     WritesValue, HearsValue, ReadsText, HearsHide, ReadsTextBack, ChecksParts, HearsLine,
     Verifies, Judges
<1>1. task = "apply"
  BY DEF Order, Landing, Placing, Valuing, Hiding, Lining,
     Apply, ReadsPage, Probes, ReadsPool, HearsPlace, ReadsWhetherPlaced, FindsIds,
     WritesValue, HearsValue, ReadsText, HearsHide, ReadsTextBack, ChecksParts, HearsLine,
     Verifies, Judges
<1>2. \A r \in Runs : Tidy(held[r])
  BY DEF Order
<1>3. {"missed", "doubt", "ids", "values", "text", "check", "shown", "verify", "nets"} \subseteq Landing \ Waiting
  BY DEF Landing, Waiting, Placing, Valuing, Hiding, Lining
<1>4. ASSUME PlacesNext  PROVE Order'
  BY <1>0, <1>1, <1>2, <1>3, <1>4, SendsOrder, StepOrder DEF PlacesNext, Kinds
<1>5. ASSUME ValuesNext  PROVE Order'
  BY <1>0, <1>1, <1>3, <1>5, StepOrder DEF ValuesNext
<1>6. CASE ReadsPage
  BY <1>0, <1>1, <1>6, EndsOrder, StepOrder DEF ReadsPage
<1>7. CASE Probes
  BY <1>0, <1>1, <1>7, EndsOrder, GoesOrder DEF Probes, Waiting
<1>8. CASE ReadsPool
  BY <1>0, <1>1, <1>2, <1>8, EndsOrder, SendsOrder DEF ReadsPool, Kinds
<1>9. CASE HearsPlace
  BY <1>0, <1>1, <1>3, <1>4, <1>9, StepOrder DEF HearsPlace
<1>10. CASE ReadsWhetherPlaced
  BY <1>0, <1>4, <1>10, EndsOrder DEF ReadsWhetherPlaced
<1>11. CASE FindsIds
  BY <1>0, <1>1, <1>3, <1>11, StepOrder DEF FindsIds
<1>12. CASE WritesValue
  BY <1>0, <1>1, <1>2, <1>5, <1>12, SendsOrder DEF WritesValue, Kinds
<1>13. CASE HearsValue
  BY <1>5, <1>13 DEF HearsValue
<1>14. CASE ReadsText
  <2>1. ASSUME held' = [held EXCEPT ![run] = page]
        PROVE  \A r \in Runs : Tidy(held'[r])
    BY <1>0, <2>1 DEF Order, TypeOK
  <2> QED
    BY <1>0, <1>1, <1>3, <1>14, <2>1, EndsOrder, GoesOrder, SendsOrder DEF ReadsText, Kinds, Waiting
<1>15. CASE HearsHide \/ ReadsTextBack
  BY <1>0, <1>1, <1>3, <1>15, EndsOrder, GoesOrder DEF HearsHide, ReadsTextBack, Waiting
<1>16. CASE ChecksParts
  BY <1>0, <1>1, <1>2, <1>16, EndsOrder, SendsOrder DEF ChecksParts, Kinds
<1>17. CASE HearsLine
  BY <1>0, <1>1, <1>2, <1>3, <1>17, GoesOrder, SendsOrder DEF HearsLine, Kinds, Waiting
<1>18. CASE Verifies
  BY <1>0, <1>1, <1>3, <1>18, EndsOrder, StepOrder DEF Verifies
<1>19. CASE Judges
  BY <1>0, <1>1, <1>2, <1>19, EndsOrder, SendsOrder DEF Judges, Kinds
<1> QED
  BY <1>6, <1>7, <1>8, <1>9, <1>10, <1>11, <1>12, <1>13, <1>14, <1>15, <1>16, <1>17, <1>18, <1>19
  DEF Apply

LEMMA DiscardOrder == ASSUME TypeOK, Order, Discard  PROVE Order'
<1> USE DEF readVars
<1>0. pc # "idle" /\ run \in Runs
  BY DEF TypeOK, Discard, Selects, HearsCut, ReadsBack
<1>1. task = "discard"
  BY DEF Order, Discard, Selects, HearsCut, ReadsBack
<1>2. \A r \in Runs : Tidy(held[r])
  BY DEF Order
<1>3. ASSUME NEW k, NEW pg, CutsFrom(k, pg), \A r \in Runs : Tidy(held'[r])
      PROVE  Order'
  <2>1. ASSUME NEW p \in Phases, Sends("cut", p, NoId)  PROVE Order'
    BY <1>0, <1>1, <1>3, <2>1, SendsOrder DEF Kinds
  <2>2. ASSUME pc' = "back", UNCHANGED <<planVars, pageVars, runVars, answer, flying, outcome>>
        PROVE  Order'
    <3>1. outcome' = "none" /\ UNCHANGED <<page, run, task>>
      BY <1>0, <2>2 DEF Order, pageVars, runVars
    <3> QED
      BY <1>0, <1>1, <1>3, <2>2, <3>1, FlowOrder
      DEF Waiting, Landing, Placing, Valuing, Hiding, Lining, Early
  <2> QED  BY <1>3, <2>1, <2>2 DEF CutsFrom
<1>4. CASE Selects
  <2>1. ASSUME held' = [held EXCEPT ![run] = page]
        PROVE  \A r \in Runs : Tidy(held'[r])
    BY <1>0, <2>1 DEF Order, TypeOK
  <2> QED  BY <1>0, <1>3, <1>4, <2>1, EndsOrder DEF Selects
<1>5. CASE HearsCut
  BY <1>0, <1>2, <1>3, <1>5, EndsOrder DEF HearsCut
<1>6. CASE ReadsBack
  BY <1>0, <1>1, <1>2, <1>6, EndsOrder, SendsOrder DEF ReadsBack, Kinds
<1> QED  BY <1>4, <1>5, <1>6 DEF Discard

LEMMA CommonOrder ==
  ASSUME TypeOK, Order, Begins \/ Killed \/ ChecksFocus \/ HearsSave  PROVE Order'
<1>1. CASE Begins
  <2>1. run \in Nat /\ run' = run + 1 /\ UNCHANGED <<page, held, flying, own>> /\ pc' = "focus" /\ outcome' = "none"
    BY <1>1 DEF Begins, TypeOK, Runs, pageVars, readVars
  <2> DEFINE Later(pg) == /\ \A p \in pg.valued : pg.name[p] # 0
                          /\ \A p \in PartIds : pg.name[p] # 0 => p[1] <= run + 1
                          /\ \A x \in pg.lines : x[1] <= run + 1
  <2>2. ASSUME NEW pg \in Pages, Tidy(pg)  PROVE Later(pg)
    BY <2>1, <2>2, LineShape DEF Tidy, Pages, PartIds, Runs
  <2>3. Tidy(page)'
    <3>1. Later(page)
      BY <2>2 DEF Order, TypeOK
    <3> QED  BY <2>1, <3>1 DEF Tidy
  <2>4. \A r \in Runs : Tidy(held[r])'
    <3>1. \A r \in Runs : Later(held[r])
      BY <2>2 DEF Order, TypeOK
    <3> QED  BY <2>1, <3>1 DEF Tidy
  <2>5. \A c \in flying' : c.run <= run + 1
    BY <2>1, WriteShape DEF Order, TypeOK, Runs
  <2>6. \A i \in Parts : own'[i] = NoId
    BY <1>1, <2>1 DEF Begins, Order
  <2>7. ~(pc' \in Waiting) /\ run' # 0
    BY <2>1 DEF Waiting
  <2> QED  BY <2>1, <2>3, <2>4, <2>5, <2>6, <2>7 DEF Order, Awaited, Waiting, Landing, Placing, Valuing, Hiding, Lining
<1>2. CASE Killed \/ HearsSave
  BY <1>2, EndsOrder DEF Killed, HearsSave, TypeOK
<1>3. CASE ChecksFocus
  <2>1. run \in Runs /\ pc # "idle"
    BY <1>3 DEF ChecksFocus, TypeOK
  <2> QED  BY <1>3, <2>1, EndsOrder, GoesOrder DEF ChecksFocus, Waiting, Early, Landing, Placing, Valuing, Hiding, Lining, TypeOK
<1> QED  BY <1>1, <1>2, <1>3

\* What an effect does to a page leaves it tidy.
LEMMA PutsTidy ==
  ASSUME TypeOK, Order, NEW c \in flying, c.what = "place", NEW names, Puts(c, names)
  PROVE  Tidy(page)' \/ run' # run
<1> SUFFICES ASSUME run' = run  PROVE Tidy(page)'
  OBVIOUS
<1>1. c \in Writes /\ c.run <= run /\ <<c.run, c.item>> \in PartIds
  BY WriteShape DEF TypeOK, Order, PartIds
<1>2. PICK n \in names : page' = [page EXCEPT !.name[<<c.run, c.item>>] = n, !.shut = FALSE]
  BY DEF Puts
<1>3. /\ page'.valued = page.valued /\ page'.lines = page.lines
      /\ \A p \in PartIds : p # <<c.run, c.item>> => page'.name[p] = page.name[p]
  BY <1>1, <1>2 DEF TypeOK, Pages
<1>4. page.valued \subseteq PartIds /\ <<c.run, c.item>> \notin page.valued
  BY DEF TypeOK, Pages, Order, Tidy, Puts
<1> QED  BY <1>1, <1>3, <1>4 DEF Tidy, Order

LEMMA RemovesTidy ==
  ASSUME TypeOK, Order, NEW k, NEW ids, Removes(k, ids), run' = run
  PROVE  Tidy(page)'
<1>1. /\ page'.lines \subseteq page.lines
      /\ \A p \in page'.valued : p \in page.valued /\ page'.name[p] = page.name[p]
      /\ \A p \in PartIds : page'.name[p] # 0 => page.name[p] # 0
  <2>1. page \in Pages /\ page.valued \subseteq PartIds
    BY DEF TypeOK, Pages
  <2> QED  BY <2>1, RemovesShape
<1> QED  BY <1>1 DEF Tidy, Order

LEMMA EffectTidy ==
  ASSUME TypeOK, Order, NEW c \in flying, Effect(c), run' = run
  PROVE  Tidy(page)'
<1>0. c \in Writes /\ c.run <= run
  BY DEF TypeOK, Order
<1>1. CASE UNCHANGED page
  BY <1>1 DEF Order, Tidy
<1>2. CASE c.what = "place" /\ Puts(c, PlacedNames(c.item))
  BY <1>2, PutsTidy
<1>3. CASE c.what = "value" /\ page.name[c.of] # 0 /\ page' = [page EXCEPT !.valued = @ \cup {c.of}]
  BY <1>3 DEF Order, Tidy, TypeOK, Pages
<1>4. CASE c.what = "hide" /\ page' = [held[c.run] EXCEPT !.shut = TRUE]
  <2>1. Tidy(held[c.run]) /\ held[c.run] \in Pages
    BY <1>0, WriteShape DEF Order, TypeOK
  <2> QED  BY <1>4, <2>1 DEF Tidy, Pages
<1>5. CASE c.what = "line" /\ Draws(c)
  BY <1>0, <1>5 DEF Draws, Order, Tidy, TypeOK, Pages
<1>6. CASE c.what = "cut" /\ Removes(c.item, Targets(held[c.run], c.item))
  BY <1>6, RemovesTidy
<1> QED  BY <1>1, <1>2, <1>3, <1>4, <1>5, <1>6 DEF Effect, pageVars

LEMMA OverOrder ==
  ASSUME TypeOK, Order, NEW c \in flying, NEW result, Over(c, result), Tidy(page)'
  PROVE  Order'
<1>1. /\ UNCHANGED <<run, task, pc, at, seen, own, fits, held, outcome>> /\ flying' = flying \ {c}
      /\ answer' = IF Awaited(c) THEN result ELSE answer
  BY DEF Over, runVars, readVars
<1>2. \A r \in Runs : Tidy(held[r])'
  BY <1>1 DEF Order, Tidy
<1>3. ASSUME NEW d \in flying', d.what # "value", Awaited(d)'
      PROVE  answer' = "pending"
  <2>1. d \in flying /\ d # c /\ Awaited(d)
    BY <1>1, <1>3 DEF Awaited
  <2>2. ~Awaited(c)
    BY <1>3, <2>1, WriteIsItsItem DEF Awaited, TypeOK
  <2> QED  BY <1>1, <1>3, <2>1, <2>2 DEF Order
<1> QED  BY <1>1, <1>2, <1>3 DEF Order

LEMMA EditorOrder ==
  ASSUME TypeOK, Order, NEW c \in flying, Lands(c) \/ Fails(c)
  PROVE  Order'
<1>0. Lands(c) \/ Fails(c) => run' = run
  BY DEF Lands, Fails, Over, runVars
<1>1. CASE Lands(c)
  BY <1>0, <1>1, EffectTidy, OverOrder DEF Lands
<1>2. CASE Fails(c)
  <2>1. Tidy(page)'
    <3>1. UNCHANGED page => Tidy(page)'
      BY <1>0, <1>2 DEF Order, Tidy
    <3> QED  BY <1>0, <1>2, <3>1, PutsTidy, RemovesTidy DEF Fails
  <2>2. Over(c, "error") \/ Over(c, "pending")
    BY <1>2 DEF Fails
  <2> QED  BY <2>1, <2>2, OverOrder
<1> QED  BY <1>1, <1>2

LEMMA OrderStep == ASSUME TypeOK, Order, [Next]_vars  PROVE Order'
<1>1. CASE UNCHANGED vars
  <2>1. Tidy(page)' /\ \A r \in Runs : Tidy(held[r])'
    BY <1>1 DEF vars, pageVars, runVars, readVars, Order, Tidy
  <2> QED  BY <1>1, <2>1 DEF Order, Awaited, vars, planVars, pageVars, runVars, readVars
<1> QED  BY <1>1, ApplyOrder, DiscardOrder, CommonOrder, EditorOrder DEF Next

------------------------------------------------------------------------------
(* A run that began with nothing under way. *)

LEMMA FreshInit == Init => FreshInv
<1> SUFFICES ASSUME Init  PROVE FreshInv
  OBVIOUS
<1>1. flying = {} /\ pc = "idle" /\ outcome = "none"
  BY DEF Init
<1> QED
  BY <1>1 DEF FreshInv, EarlyPage, PartsPage, HeldPage, LinesPage, CutPage, SavePage, LastPage,
     Landed, Landing, Placing, Valuing, Hiding, Lining, Early

\* What is joined to nothing is a primitive of its own.
LEMMA LoneIsItself ==
  ASSUME NEW pg, NEW x \in pg.lines, ~Joined(pg, x)
  PROVE  Primitive(pg, x) = {x}
<1>1. Closed(pg, {x})
  BY DEF Closed, Joined
<1>2. Primitive(pg, x) \subseteq {x}
  BY <1>1 DEF Primitive
<1>3. x \in Primitive(pg, x)
  BY DEF Primitive
<1> QED  BY <1>2, <1>3

LEMMA MeetBothWays == ASSUME NEW x, NEW y, Meet(x, y)  PROVE Meet(y, x)
BY DEF Meet

\* All that is under way is the run's own, and of its kind.
LEMMA Flights ==
  ASSUME TypeOK, FreshInv, fresh, NEW c \in flying
  PROVE  MayFly(c) /\ c \in Writes /\ c.run = run /\ c.what \in Kinds
BY WriteShape DEF TypeOK, FreshInv, MayFly

\* Between writes whose answer is waited for nothing is under way.
LEMMA Quiet ==
  ASSUME TypeOK, FreshInv, fresh, pc \in Early \cup {"ids", "back"}
  PROVE  flying = {}
<1> SUFFICES ASSUME NEW c \in flying  PROVE FALSE
  OBVIOUS
<1>1. MayFly(c) /\ c.what \in Kinds
  BY Flights
<1> QED  BY <1>1 DEF MayFly, Kinds, Early, Placing, Hiding, Lining

\* Once the answer is there, or the part is seen, nothing more comes.
LEMMA PlacedQuiet ==
  ASSUME TypeOK, Order, FreshInv, fresh, pc \in Placing, pc = "place" => answer = "ok",
         pc # "place" => at \in Named(page)
  PROVE  flying = {}
<1> SUFFICES ASSUME NEW c \in flying  PROVE FALSE
  OBVIOUS
<1>1. MayFly(c) /\ c.what \in Kinds /\ c.run = run
  BY Flights
<1>2. c.what = "place" /\ c.item = at /\ page.name[<<run, at>>] = 0
  BY <1>1 DEF MayFly, Kinds, Placing, Hiding, Lining
<1>3. CASE pc = "place"
  BY <1>1, <1>2, <1>3 DEF Order, Awaited
<1>4. CASE pc # "place"
  <2>1. PICK p \in PartIds : page.name[p] = at /\ at \in Parts
    BY <1>4 DEF Named
  <2>2. pc \in Landing
    BY DEF Landing
  <2>3. p = <<run, at>>
    BY <2>1, <2>2 DEF FreshInv, PartsPage, OwnNames
  <2> QED  BY <1>2, <2>1, <2>3 DEF Parts
<1> QED  BY <1>3, <1>4

\* With the whole drawing on the page, no value and no part is under way.
LEMMA WholeQuiet ==
  ASSUME TypeOK, FreshInv, fresh, pc = "check", Whole(page)
  PROVE  flying = {}
<1> SUFFICES ASSUME NEW c \in flying  PROVE FALSE
  OBVIOUS
<1>1. MayFly(c) /\ c.what \in Kinds /\ c \in Writes
  BY Flights
<1>2. c.what = "value" /\ c.item \in Parts /\ <<run, c.item>> \notin page.valued
  BY <1>1, WriteShape DEF MayFly, Kinds, Placing, Hiding, Lining
<1>3. PICK r \in Runs : page.name[<<r, c.item>>] = c.item /\ <<r, c.item>> \in page.valued
  BY <1>2 DEF Whole
<1>4. <<r, c.item>> = <<run, c.item>>
  <2>1. OwnNames(page)
    BY DEF FreshInv, PartsPage, Landing
  <2> QED  BY <1>2, <1>3, <2>1 DEF OwnNames, PartIds
<1> QED  BY <1>2, <1>3, <1>4

LEMMA SavedQuiet ==
  ASSUME TypeOK, Order, FreshInv, fresh, pc = "save", answer # "pending"
  PROVE  \A c \in flying : IsWireWrite(c) /\ task = "apply"
<1> SUFFICES ASSUME NEW c \in flying  PROVE IsWireWrite(c) /\ task = "apply"
  OBVIOUS
<1>1. MayFly(c) /\ c.what \in Kinds /\ c \in Writes /\ c.run = run
  BY Flights
<1>2. c.what # "save"
  <2>1. c.what = "save" => Awaited(c)
    BY <1>1, WriteShape DEF Awaited, Order
  <2> QED  BY <2>1 DEF Order
<1>3. c.what = "line" /\ IsWire(c.item)
  BY <1>1, <1>2 DEF MayFly, Kinds, Placing, Hiding, Lining
<1>4. task = "apply"
  BY <1>2 DEF FreshInv, SavePage, TypeOK
<1> QED  BY <1>3, <1>4 DEF IsWireWrite

\* A page is as clean as it was.
LEMMA ClearedKept ==
  ASSUME meets' = meets
  PROVE  /\ page' = page => (Cleared(page)' <=> Cleared(page))
         /\ disk' = disk => (Cleared(disk)' <=> Cleared(disk))
         /\ disk' = page => (Cleared(disk)' <=> Cleared(page))
BY DEF Cleared, Named, Merged, Primitive, Closed, Meet

\* What the deletes go by is as it was.
LEMMA HeldKept ==
  ASSUME UNCHANGED <<meets, run>>, held'[run] = held[run]
  PROVE  /\ Discardable(held[run])' <=> Discardable(held[run])
         /\ Lone(held[run])' = Lone(held[run])
<1>1. WiresKnown(held[run])' <=> WiresKnown(held[run])
  BY DEF WiresKnown, Joined, Merged, Primitive, Closed, Meet
<1>2. Lone(held[run])' = Lone(held[run])
  BY DEF Lone, Joined, Meet
<1> QED  BY <1>1, <1>2 DEF Discardable, PartsKnown, FlagsSingle

LEMMA HeldWires ==
  ASSUME UNCHANGED <<meets, run>>, held'[run] = page, WiresKnown(page)
  PROVE  WiresKnown(held[run])'
<1>1. held'[run'] = page
  OBVIOUS
<1>2. SUFFICES ASSUME NEW x \in page.lines, Joined(held[run], x)'  PROVE Merged(held[run], x)'
  BY <1>1 DEF WiresKnown
<1>3. Joined(page, x)
  BY <1>1, <1>2 DEF Joined, Meet
<1>4. Merged(page, x)
  BY <1>3 DEF WiresKnown
<1> QED  BY <1>1, <1>4 DEF Merged, Primitive, Closed, Meet

LEMMA EndsFresh ==
  ASSUME TypeOK, FreshInv, fresh, NEW o, Ends(o), LastPage'
  PROVE  FreshInv'
<1>1. /\ UNCHANGED <<page, disk, run, task, fresh, flying, hides, meets>> /\ pc' = "idle"
  BY DEF Ends, pageVars, runVars, planVars
<1>2. \A c \in flying : MayFly(c)'
  BY <1>1, Flights DEF MayFly, Placing, Hiding, Lining
<1>3. SavePage'
  BY <1>1, ClearedKept DEF FreshInv, SavePage, Drawn, Whole, LinesLie, FlagsSingle, IsWireWrite
<1>4. EarlyPage' /\ PartsPage' /\ HeldPage' /\ LinesPage' /\ CutPage'
  BY <1>1 DEF EarlyPage, PartsPage, HeldPage, LinesPage, CutPage, Landed, Landing, Placing,
     Valuing, Hiding, Lining, Early
<1> QED  BY <1>1, <1>2, <1>3, <1>4 DEF FreshInv

\* These outcomes promise nothing.
LEMMA EndsUnsure ==
  ASSUME TypeOK, FreshInv, fresh, NEW o \in {"refused", "stopped", "unknown", "killed"}, Ends(o)
  PROVE  FreshInv'
<1>1. outcome' = o
  BY DEF Ends
<1>2. LastPage'
  BY <1>1 DEF LastPage
<1> QED  BY <1>2, EndsFresh

Steadfast == UNCHANGED <<page, disk, run, task, fresh, hides, meets, outcome>>

LEMMA BeginsFresh == ASSUME TypeOK, Order, Begins  PROVE FreshInv'
<1> SUFFICES ASSUME fresh'  PROVE FreshInv'
  BY DEF FreshInv
<1>1. run' = run + 1 /\ page' = page /\ pc' = "focus" /\ flying' = {} /\ outcome' = "none"
  BY DEF Begins, pageVars
<1>2. run \in Nat
  BY DEF TypeOK, Runs
<1>3. EarlyPage'
  <2>1. \A p \in PartIds : page.name[p] # 0 => p[1] # run + 1
    BY <1>2 DEF Order, Tidy, PartIds, Runs
  <2>2. \A x \in page.lines : x[1] # run + 1
    BY <1>2, LineShape DEF Order, Tidy, Runs, TypeOK, Pages
  <2> QED  BY <1>1, <2>1, <2>2 DEF EarlyPage
<1> QED
  BY <1>1, <1>3 DEF FreshInv, PartsPage, HeldPage, LinesPage, CutPage, SavePage, LastPage, Landed,
     Landing, Placing, Valuing, Hiding, Lining

\* Both commands, before their first write.
LEMMA EarlyFresh ==
  ASSUME TypeOK, Order, FreshInv, fresh, ChecksFocus \/ ReadsPage \/ Probes
  PROVE  FreshInv'
<1>1. flying = {} /\ pc \in Early /\ EarlyPage
  BY Quiet DEF ChecksFocus, ReadsPage, Probes, Early, FreshInv
<1>2. ASSUME Steadfast, flying' = {}, pc' \in Early,
             pc' = "probe" => seen' = page,
             pc' = "pool" => seen' = page /\ Named(page) = {}
      PROVE  FreshInv'
  <2>1. EarlyPage'
    BY <1>1, <1>2 DEF EarlyPage, Named, Steadfast
  <2> QED
    BY <1>2, <2>1 DEF FreshInv, PartsPage, HeldPage, LinesPage, CutPage, SavePage, LastPage, Landed,
       Landing, Placing, Valuing, Hiding, Lining, Early
<1>3. CASE ChecksFocus
  BY <1>1, <1>2, <1>3, EndsUnsure DEF ChecksFocus, Goes, Steadfast, Early, pageVars, runVars, planVars
<1>4. CASE ReadsPage
  BY <1>1, <1>2, <1>4, EndsUnsure DEF ReadsPage, Steadfast, Early, pageVars, runVars, planVars
<1>5. CASE Probes
  <2>1. seen = page
    BY <1>1, <1>5 DEF EarlyPage, Probes
  <2>2. CASE Drawn(seen) /\ Ends("already")
    <3>1. outcome' = "already" /\ flying' = flying /\ page' = page
      BY <2>2 DEF Ends, pageVars
    <3>2. LastPage'
      BY <1>1, <2>1, <2>2, <3>1 DEF LastPage, Drawn, Whole, LinesLie, FlagsSingle
    <3> QED  BY <2>2, <3>2, EndsFresh
  <2>3. CASE Named(seen) = {} /\ Goes("pool")
    BY <1>1, <1>2, <2>1, <2>3 DEF Goes, Steadfast, Early, pageVars, runVars, planVars, readVars
  <2> QED  BY <1>5, <2>2, <2>3, EndsUnsure DEF Probes
<1> QED  BY <1>3, <1>4, <1>5

\* A step to where neither a whole page is written back nor the drawing is saved.
LEMMA PlainFresh ==
  ASSUME TypeOK, fresh, Steadfast, \A c \in flying' : MayFly(c)' /\ c.what \notin {"save", "hide"},
         PartsPage', LinesPage', CutPage', pc' \notin Early \cup {"nets", "save", "idle"}
  PROVE  FreshInv'
BY DEF FreshInv, EarlyPage, HeldPage, SavePage, LastPage, Steadfast, Early

\* The parts come: what holds of them after part `at`.
LEMMA PlacesFresh ==
  ASSUME TypeOK, Order, FreshInv, fresh, pc \in Placing, flying = {}, PlacesNext,
         \A i \in Parts : own'[i] \in {NoId, <<run, i>>}
  PROVE  FreshInv'
<1>0. Steadfast /\ seen' = seen /\ UNCHANGED <<held, fits>>
  BY DEF PlacesNext, Sends, Steadfast, pageVars, runVars, planVars
<1>1. OwnNames(page) /\ \A i \in Parts : <<run, i>> \notin page.valued /\ (i > at => page.name[<<run, i>>] = 0)
  BY DEF FreshInv, PartsPage, Landing
<1>2. page.lines = seen.lines /\ \A x \in page.lines : x[1] # run
  BY DEF FreshInv, LinesPage
<1>3. at \in Parts /\ at \in Nat /\ MaxParts \in Nat
  BY DrawingAssumption DEF TypeOK, PartSteps, Placing, Parts
<1>4. CASE at < MaxParts
  <2>1. pc' = "place" /\ at' = at + 1 /\ flying' = {Write("place", at + 1, NoId)}
    BY <1>4 DEF PlacesNext, Sends, Write
  <2>2. at + 1 \in Parts /\ page.name[<<run, at + 1>>] = 0
    <3>1. at + 1 \in Parts
      BY <1>3, <1>4 DEF Parts
    <3> QED  BY <1>1, <1>3, <3>1
  <2>3. \A c \in flying' : MayFly(c)' /\ c.what \notin {"save", "hide"}
    BY <1>0, <2>1, <2>2 DEF MayFly, Write, Placing, Steadfast
  <2>4. PartsPage'
    <3>1. \A i \in Parts : i > at + 1 => i > at
      BY <1>3 DEF Parts
    <3> QED
      BY <1>0, <1>1, <2>1, <3>1 DEF PartsPage, OwnNames, Landed, Placing, Valuing, Lining, Steadfast
  <2>5. LinesPage' /\ CutPage'
    BY <1>0, <1>2, <2>1 DEF LinesPage, CutPage, Lining, Steadfast
  <2> QED  BY <1>0, <2>1, <2>3, <2>4, <2>5, PlainFresh DEF Write, Early
<1>5. CASE ~(at < MaxParts)
  <2>1. pc' = "ids" /\ flying' = {}
    BY <1>5 DEF PlacesNext
  <2>2. PartsPage' /\ LinesPage' /\ CutPage'
    BY <1>0, <1>1, <1>2, <2>1
    DEF PartsPage, OwnNames, Landed, Placing, Valuing, Lining, LinesPage, CutPage, Steadfast
  <2> QED  BY <1>0, <2>1, <2>2, PlainFresh DEF Early
<1> QED  BY <1>4, <1>5

LEMMA PoolFresh == ASSUME TypeOK, Order, FreshInv, fresh, ReadsPool  PROVE FreshInv'
<1>1. flying = {} /\ EarlyPage /\ pc = "pool" /\ run \in Runs
  BY Quiet DEF ReadsPool, Early, FreshInv, TypeOK
<1>2. CASE Sends("place", 1, NoId) /\ UNCHANGED readVars
  <2>1. pc' = "place" /\ at' = 1 /\ flying' = {Write("place", 1, NoId)} /\ Steadfast /\ UNCHANGED readVars
    BY <1>1, <1>2 DEF Sends, Write, Steadfast, pageVars, runVars, planVars
  <2>2. \A i \in Parts : <<run, i>> \in PartIds /\ page.name[<<run, i>>] = 0 /\ <<run, i>> \notin page.valued
    BY <1>1 DEF EarlyPage, Early, PartIds, Order, Tidy
  <2>3. \A c \in flying' : MayFly(c)' /\ c.what \notin {"save", "hide"}
    BY <2>1, <2>2, Units DEF MayFly, Write, Placing, Steadfast
  <2>4. PartsPage'
    <3>1. OwnNames(page)
      BY <1>1 DEF EarlyPage, Early, OwnNames, Named
    <3>2. \A i \in Parts : own[i] = NoId
      BY <1>1 DEF Order, Early
    <3> QED
      BY <2>1, <2>2, <3>1, <3>2
      DEF PartsPage, OwnNames, Landed, Placing, Valuing, Lining, Steadfast, readVars
  <2>5. LinesPage' /\ CutPage'
    BY <1>1, <2>1 DEF EarlyPage, Early, LinesPage, CutPage, Lining, Steadfast, readVars
  <2> QED  BY <2>1, <2>3, <2>4, <2>5, PlainFresh DEF Write, Early
<1> QED  BY <1>2, EndsUnsure DEF ReadsPool

LEMMA PlaceFresh ==
  ASSUME TypeOK, Order, FreshInv, fresh, HearsPlace \/ ReadsWhetherPlaced
  PROVE  FreshInv'
<1>0. pc \in Placing /\ at \in Parts
  BY DEF HearsPlace, ReadsWhetherPlaced, Placing, TypeOK, PartSteps
<1>1. \A i \in Parts : own[i] \in {NoId, <<run, i>>}
  BY <1>0 DEF FreshInv, PartsPage
<1>2. CASE HearsPlace /\ answer = "ok"
  <2>1. flying = {}
    BY <1>0, <1>2, PlacedQuiet DEF HearsPlace
  <2>2. \A i \in Parts : own'[i] \in {NoId, <<run, i>>}
    BY <1>0, <1>1, <1>2 DEF HearsPlace, TypeOK
  <2> QED  BY <1>0, <1>2, <2>1, <2>2, PlacesFresh DEF HearsPlace
<1>3. CASE HearsPlace /\ answer # "ok"
  <2>1. /\ pc' \in {"missed", "doubt"} /\ pc = "place" /\ UNCHANGED <<at, flying>> /\ UNCHANGED readVars
        /\ Steadfast
    BY <1>3 DEF HearsPlace, Steadfast, pageVars, runVars, planVars
  <2>2. \A c \in flying : MayFly(c)' /\ c.what = "place"
    BY <2>1, Flights DEF MayFly, Placing, Hiding, Lining, Steadfast, Kinds
  <2>3. PartsPage'
    BY <2>1 DEF FreshInv, PartsPage, OwnNames, Landing, Landed, Placing, Valuing, Lining, Steadfast, readVars
  <2>4. LinesPage' /\ CutPage' /\ EarlyPage'
    BY <2>1 DEF FreshInv, LinesPage, CutPage, EarlyPage, Early, Placing, Lining, Steadfast, readVars
  <2> QED
    BY <2>1, <2>2, <2>3, <2>4 DEF FreshInv, HeldPage, SavePage, LastPage
<1>4. CASE ReadsWhetherPlaced /\ ~(at \in Named(page) /\ PlacesNext /\ UNCHANGED own)
  BY <1>4, EndsUnsure DEF ReadsWhetherPlaced
<1>5. CASE ReadsWhetherPlaced /\ at \in Named(page) /\ PlacesNext /\ UNCHANGED own
  <2>1. flying = {}
    BY <1>0, <1>5, PlacedQuiet DEF ReadsWhetherPlaced
  <2> QED  BY <1>0, <1>1, <1>5, <2>1, PlacesFresh
<1> QED  BY <1>2, <1>3, <1>4, <1>5

LEMMA IdsFresh == ASSUME TypeOK, Order, FreshInv, fresh, FindsIds  PROVE FreshInv'
<1>1. flying = {} /\ pc = "ids" /\ pc' = "values" /\ flying' = {} /\ seen' = seen /\ Steadfast
  BY Quiet DEF FindsIds, Steadfast, pageVars, runVars, planVars
<1>2. /\ OwnNames(page) /\ \A i \in Parts : <<run, i>> \notin page.valued
      /\ \A i \in Parts : own[i] \in {NoId, <<run, i>>}
  BY <1>1 DEF FreshInv, PartsPage, Landing, Valuing
<1>3. \A i \in Parts : own'[i] \in {NoId, <<run, i>>}
  <2> SUFFICES ASSUME NEW i \in Parts  PROVE own'[i] \in {NoId, <<run, i>>}
    OBVIOUS
  <2>1. CASE own'[i] = own[i]
    BY <1>2, <2>1
  <2>2. CASE own'[i] # NoId /\ page.name[own'[i]] = i /\ own'[i] \in PartIds
    BY <1>2, <2>2 DEF OwnNames
  <2> QED  BY <2>1, <2>2 DEF FindsIds
<1>4. PartsPage'
  BY <1>1, <1>2, <1>3 DEF PartsPage, OwnNames, Landed, Placing, Valuing, Lining, Steadfast
<1>5. LinesPage' /\ CutPage'
  BY <1>1 DEF FreshInv, LinesPage, CutPage, Lining, Valuing, Steadfast
<1> QED  BY <1>1, <1>4, <1>5, PlainFresh DEF Early

\* The values: the flow goes on to the next one whatever becomes of the last.
LEMMA ValuesFresh ==
  ASSUME TypeOK, Order, FreshInv, fresh, WritesValue \/ HearsValue
  PROVE  FreshInv'
<1>0. pc \in {"values", "value"} /\ at \in Parts /\ \A i \in Parts : i \in Nat
  BY DEF WritesValue, HearsValue, TypeOK, PartSteps, Parts
<1>1. /\ OwnNames(page) /\ \A i \in Parts : own[i] \in {NoId, <<run, i>>}
      /\ \A i \in Parts : i > at \/ (pc = "values" /\ i = at) => <<run, i>> \notin page.valued
  BY <1>0 DEF FreshInv, PartsPage, Landing, Valuing
<1>2. page.lines = seen.lines /\ \A x \in page.lines : x[1] # run
  BY <1>0 DEF FreshInv, LinesPage, Valuing
<1>3. \A c \in flying : /\ MayFly(c) /\ c.what = "value" /\ c.item \in Parts
                        /\ c.item < at \/ (pc = "value" /\ c.item = at)
  BY <1>0, Flights, WriteShape DEF MayFly, Kinds, Placing, Hiding, Lining
<1>4. CASE own[at] # NoId /\ Sends("value", at, own[at]) /\ UNCHANGED readVars /\ pc = "values"
  <2>1. /\ pc' = "value" /\ at' = at /\ Steadfast /\ UNCHANGED readVars
        /\ flying' = flying \cup {Write("value", at, <<run, at>>)}
    BY <1>0, <1>1, <1>4 DEF Sends, Write, Steadfast, pageVars, runVars, planVars
  <2>2. \A c \in flying : MayFly(c)'
    BY <1>0, <1>3, <2>1 DEF MayFly, Steadfast
  <2>3. \A c \in flying' : c \notin flying => MayFly(c)' /\ c.what = "value"
    BY <1>0, <1>1, <1>4, <2>1 DEF MayFly, Write, Steadfast
  <2>4. PartsPage'
    BY <1>1, <1>4, <2>1
    DEF PartsPage, OwnNames, Landed, Placing, Valuing, Lining, Steadfast, readVars
  <2>5. LinesPage' /\ CutPage'
    BY <1>2, <2>1 DEF LinesPage, CutPage, Lining, Steadfast, readVars
  <2> QED  BY <1>3, <2>1, <2>2, <2>3, <2>4, <2>5, PlainFresh DEF Early
<1>5. CASE ValuesNext
  <2>1. /\ Steadfast /\ UNCHANGED readVars /\ flying' = flying
        /\ \/ pc' = "values" /\ at' = at + 1
           \/ pc' = "text"
           \/ pc' = "check" /\ ~hides
    BY <1>5 DEF ValuesNext, Steadfast, pageVars, runVars, planVars
  <2>2. \A c \in flying : MayFly(c)'
    <3>1. \A c \in flying : c.item < at + 1
      BY <1>0, <1>3
    <3> QED  BY <1>0, <1>3, <2>1, <3>1 DEF MayFly, Steadfast, Hiding
  <2>3. PartsPage'
    <3>1. \A i \in Parts : i > at + 1 \/ i = at + 1 => i > at
      BY <1>0
    <3> QED
      BY <1>1, <2>1, <3>1
      DEF PartsPage, OwnNames, Landed, Placing, Valuing, Lining, Steadfast, readVars
  <2>4. LinesPage' /\ CutPage'
    BY <1>2, <2>1 DEF LinesPage, CutPage, Lining, Steadfast, readVars
  <2> QED  BY <1>3, <2>1, <2>2, <2>3, <2>4, PlainFresh DEF Early
<1> QED  BY <1>4, <1>5 DEF WritesValue, HearsValue

\* The rows are left unprinted, by a rewrite of the whole page.
LEMMA TextFresh ==
  ASSUME TypeOK, Order, FreshInv, fresh, ReadsText \/ HearsHide \/ ReadsTextBack
  PROVE  FreshInv'
<1>0. pc \in Hiding /\ run \in Runs
  BY DEF ReadsText, HearsHide, ReadsTextBack, Hiding, TypeOK
<1>1. OwnNames(page) /\ page.lines = seen.lines /\ \A x \in page.lines : x[1] # run
  BY <1>0 DEF FreshInv, PartsPage, LinesPage, Landing
<1>2. \A c \in flying : /\ MayFly(c) /\ c.what \in {"value", "hide"}
                        /\ c.what = "hide" => pc # "text" /\ ~page.shut
  BY <1>0, Flights DEF MayFly, Kinds, Placing, Hiding, Lining
<1>3. ASSUME Goes("check"), page.shut  PROVE FreshInv'
  <2>1. /\ pc' = "check" /\ flying' = flying /\ Steadfast /\ UNCHANGED readVars
    BY <1>3 DEF Goes, Steadfast, pageVars, runVars, planVars
  <2>2. \A c \in flying : MayFly(c)' /\ c.what = "value"
    BY <1>0, <1>2, <1>3, <2>1 DEF MayFly, Steadfast, Hiding
  <2>3. PartsPage'
    BY <1>1, <1>3, <2>1
    DEF PartsPage, OwnNames, Landed, Placing, Valuing, Lining, Steadfast, readVars
  <2>4. LinesPage' /\ CutPage'
    BY <1>1, <2>1 DEF LinesPage, CutPage, Lining, Steadfast, readVars
  <2> QED  BY <2>1, <2>2, <2>3, <2>4, PlainFresh DEF Early
<1>4. ASSUME Steadfast, UNCHANGED <<seen, own, fits>>, pc' \in {"hide", "shown"},
             \A c \in flying' : MayFly(c)' /\ c.what \in {"value", "hide"}, HeldPage'
      PROVE  FreshInv'
  <2>1. PartsPage' /\ LinesPage' /\ CutPage' /\ EarlyPage'
    BY <1>1, <1>4 DEF PartsPage, LinesPage, CutPage, EarlyPage, OwnNames, Landed, Placing, Valuing,
       Lining, Early, Steadfast
  <2> QED  BY <1>4, <2>1 DEF FreshInv, SavePage, LastPage
<1>5. CASE pc = "text" /\ ~page.shut /\ held' = [held EXCEPT ![run] = page] /\ Sends("hide", 1, NoId)
           /\ UNCHANGED <<seen, own, fits>>
  <2>1. /\ pc' = "hide" /\ at' = 1 /\ Steadfast /\ held'[run] = page
        /\ flying' = flying \cup {Write("hide", 1, NoId)}
    BY <1>0, <1>5 DEF Sends, Write, Steadfast, pageVars, runVars, planVars, TypeOK
  <2>2. \A c \in flying : MayFly(c)'
    BY <1>0, <1>2, <1>5, <2>1 DEF MayFly, Steadfast, Hiding
  <2>3. \A c \in flying' : c \notin flying => MayFly(c)' /\ c.what = "hide"
    BY <1>5, <2>1 DEF MayFly, Write, Steadfast
  <2>4. HeldPage'
    <3>1. \A d \in flying' : d.what = "value" => d.of \notin page.valued
      BY <1>0, <1>2, <2>3 DEF MayFly, Hiding
    <3> QED  BY <1>1, <1>5, <2>1, <3>1 DEF HeldPage, OwnNames, Steadfast
  <2> QED  BY <1>2, <1>4, <1>5, <2>1, <2>2, <2>3, <2>4
<1>6. CASE pc = "hide" /\ Goes("shown")
  <2>1. pc' = "shown" /\ flying' = flying /\ Steadfast /\ UNCHANGED readVars
    BY <1>6 DEF Goes, Steadfast, pageVars, runVars, planVars
  <2>2. \A c \in flying : MayFly(c)'
    BY Flights, <1>6, <2>1 DEF MayFly, Steadfast, Hiding, Placing, Lining
  <2>3. HeldPage'
    BY <1>6, <2>1 DEF FreshInv, HeldPage, OwnNames, Steadfast, readVars
  <2> QED  BY <1>2, <1>4, <2>1, <2>2, <2>3 DEF readVars
<1> QED  BY <1>3, <1>5, <1>6, EndsUnsure DEF ReadsText, HearsHide, ReadsTextBack

\* The wires and the flags, from the first on.
LEMMA LineFresh ==
  ASSUME TypeOK, Order, FreshInv, fresh, ChecksParts \/ HearsLine
  PROVE  FreshInv'
<1>0. pc \in {"check", "line"} /\ run \in Runs
  BY DEF ChecksParts, HearsLine, TypeOK
<1>1. OwnNames(page) /\ (hides => page.shut)
  BY <1>0 DEF FreshInv, PartsPage, Landing, Lining
<1>2. ASSUME NEW l \in Lines, Sends("line", l, NoId), UNCHANGED readVars,
             \A x \in page.lines : /\ ~IsWire(x[2]) => x[1] = run \/ x \in seen.lines
                                   /\ x[1] = run => x[2] < l,
             \A c \in flying : /\ c.what = "line" /\ c.run = run /\ c.item \in Lines /\ c.item < l
                               /\ <<run, c.item>> \notin page.lines
      PROVE  FreshInv'
  <2>1. /\ pc' = "line" /\ at' = l /\ Steadfast /\ UNCHANGED readVars
        /\ flying' = flying \cup {Write("line", l, NoId)}
    BY <1>2 DEF Sends, Write, Steadfast, pageVars, runVars, planVars
  <2>2. /\ \A k \in Lines : k < l => k <= l
        /\ ~(l < l) /\ l <= l
    BY DEF Lines
  <2>3. \A c \in flying' : MayFly(c)' /\ c.what \notin {"save", "hide"}
    <3>1. <<run, l>> \notin page.lines
      BY <1>2, <2>2
    <3>2. \A c \in flying : MayFly(c)' /\ c.what \notin {"save", "hide"}
      BY <1>2, <2>1, <2>2 DEF MayFly, Lining, Steadfast
    <3>3. \A c \in flying' : c \notin flying => MayFly(c)' /\ c.what \notin {"save", "hide"}
      BY <2>1, <2>2, <3>1 DEF MayFly, Write, Lining, Steadfast
    <3> QED  BY <3>2, <3>3
  <2>4. PartsPage'
    BY <1>1, <2>1
    DEF PartsPage, OwnNames, Landed, Placing, Valuing, Lining, Steadfast, readVars
  <2>5. LinesPage'
    <3>1. \A x \in page.lines : x[1] = run => x[2] <= l
      BY <1>2, <2>2, LineShape DEF TypeOK, Pages
    <3> QED
      BY <1>2, <2>1, <3>1 DEF LinesPage, Placing, Valuing, Hiding, Lining, Steadfast, readVars
  <2>6. CutPage'
    BY <2>1 DEF CutPage
  <2> QED  BY <2>1, <2>3, <2>4, <2>5, <2>6, PlainFresh DEF Early
<1>3. CASE pc = "check" /\ Whole(page) /\ Sends("line", 1, NoId) /\ UNCHANGED readVars
  <2>1. flying = {}
    BY <1>3, WholeQuiet
  <2>2. page.lines = seen.lines /\ \A x \in page.lines : x[1] # run
    BY <1>3 DEF FreshInv, LinesPage
  <2> QED  BY <1>2, <1>3, <2>1, <2>2, Units
<1>4. CASE HearsLine
  <2>1. at \in Lines /\ pc = "line" /\ at \in Nat
    BY <1>4 DEF HearsLine, TypeOK, Lines
  <2>2. \A c \in flying : /\ c.what = "line" /\ c.run = run /\ c.item \in Lines /\ c.item <= at
                          /\ <<run, c.item>> \notin page.lines /\ MayFly(c)
    BY <2>1, Flights, WriteShape DEF MayFly, Kinds, Placing, Hiding
  <2>3. \A x \in page.lines : /\ ~IsWire(x[2]) => x[1] = run \/ x \in seen.lines
                              /\ x[1] = run => x[2] <= at
    BY <2>1 DEF FreshInv, LinesPage, Lining
  <2>4. CASE at < MaxLines /\ Sends("line", at + 1, NoId) /\ UNCHANGED readVars
    <3>1. at + 1 \in Lines /\ \A k \in Lines : k <= at => k < at + 1
      BY <2>1, <2>4, DrawingAssumption DEF Lines
    <3>2. \A x \in page.lines : x[2] \in Lines
      BY LineShape DEF TypeOK, Pages
    <3> QED  BY <1>2, <2>2, <2>3, <2>4, <3>1, <3>2
  <2>5. CASE Goes("verify")
    <3>1. pc' = "verify" /\ flying' = flying /\ Steadfast /\ UNCHANGED readVars
      BY <2>5 DEF Goes, Steadfast, pageVars, runVars, planVars
    <3>2. \A c \in flying : MayFly(c)' /\ c.what \notin {"save", "hide"}
      BY <2>1, <2>2, <3>1 DEF MayFly, Lining, Steadfast
    <3>3. PartsPage'
      BY <1>1, <3>1
      DEF PartsPage, OwnNames, Landed, Placing, Valuing, Lining, Steadfast, readVars
    <3>4. LinesPage' /\ CutPage'
      BY <2>3, <3>1 DEF LinesPage, CutPage, Placing, Valuing, Hiding, Lining, Steadfast, readVars
    <3> QED  BY <3>1, <3>2, <3>3, <3>4, PlainFresh DEF Early
  <2> QED  BY <1>4, <2>4, <2>5 DEF HearsLine
<1> QED  BY <1>3, <1>4, EndsUnsure DEF ChecksParts

\* The page as it was judged is the one that is saved.
LEMMA VerifyFresh == ASSUME TypeOK, Order, FreshInv, fresh, Verifies  PROVE FreshInv'
<1>1. CASE Drawn(page) /\ ~HasFlags(seen) /\ pc' = "nets"
           /\ UNCHANGED <<planVars, pageVars, runVars, at, seen, own, held, answer, flying, outcome>>
  <2>1. pc = "verify" /\ Steadfast /\ flying' = flying
    BY <1>1 DEF Verifies, Steadfast, pageVars, runVars, planVars
  <2>2. ASSUME NEW c \in flying  PROVE MayFly(c)' /\ c.what = "line"
    <3>1. MayFly(c) /\ c.what = "line" /\ c.run = run /\ c.item \in Lines
      BY <2>1, <2>2, Flights, WriteShape DEF MayFly, Kinds, Placing, Hiding, Lining
    <3>2. <<run, c.item>> \notin page.lines
      BY <2>1, <3>1 DEF MayFly
    <3>3. PICK r \in Runs : <<r, c.item>> \in page.lines
      BY <1>1, <3>1 DEF Drawn, LinesLie
    <3>4. IsWire(c.item)
      <4> SUFFICES ASSUME ~IsWire(c.item)  PROVE FALSE
        OBVIOUS
      <4>1. r = run \/ <<r, c.item>> \in seen.lines
        BY <2>1, <3>3 DEF FreshInv, LinesPage, Lining
      <4>2. <<r, c.item>> \notin seen.lines
        BY <1>1 DEF HasFlags
      <4> QED  BY <3>2, <3>3, <4>1, <4>2
    <3> QED  BY <1>1, <2>1, <3>1, <3>2, <3>4 DEF MayFly, Steadfast
  <2>3. PartsPage'
    BY <1>1, <2>1 DEF FreshInv, PartsPage, OwnNames, Landing, Landed, Placing, Valuing, Lining, Steadfast
  <2>4. EarlyPage' /\ HeldPage' /\ LinesPage' /\ CutPage' /\ LastPage'
    BY <1>1, <2>1, <2>2 DEF EarlyPage, HeldPage, LinesPage, CutPage, LastPage, Early, Placing,
       Valuing, Hiding, Lining
  <2>5. SavePage'
    <3>1. Drawn(page)'
      BY <1>1, <2>1 DEF Drawn, Whole, LinesLie, FlagsSingle, Steadfast
    <3> QED  BY <1>1, <2>1, <2>2, <3>1 DEF SavePage
  <2> QED  BY <2>1, <2>2, <2>3, <2>4, <2>5 DEF FreshInv
<1> QED  BY <1>1, EndsUnsure DEF Verifies

\* The parts and the flags of a drawing that is whole can be taken off again.
LEMMA DrawnIsKnown ==
  ASSUME TypeOK, Drawn(page), OwnNames(page)
  PROVE  Known(page)
<1> SUFFICES ASSUME NEW p \in PartIds, page.name[p] \in Parts
             PROVE  page.name[p] = p[2] /\ p \in page.valued
  BY DEF Known, PartsKnown, Drawn
<1>1. p = <<run, page.name[p]>>
  BY DEF OwnNames
<1>2. PICK r \in Runs : page.name[<<r, page.name[p]>>] = page.name[p]
                        /\ <<r, page.name[p]>> \in page.valued
  BY DEF Drawn, Whole
<1>3. <<r, page.name[p]>> = <<run, page.name[p]>>
  BY <1>2 DEF OwnNames, PartIds
<1> QED  BY <1>1, <1>2, <1>3

\* Sending the save.
LEMMA SavesFresh ==
  ASSUME TypeOK, FreshInv, fresh, pc # "idle", outcome = "none", Sends("save", 1, NoId),
         task = "apply" => /\ Drawn(page) /\ OwnNames(page) /\ (hides => page.shut)
                           /\ \A c \in flying : MayFly(c) /\ c.what = "line" /\ IsWire(c.item)
                                                /\ <<run, c.item>> \notin page.lines,
         task = "discard" => Cleared(page) /\ flying = {}
  PROVE  FreshInv'
<1>1. /\ pc' = "save" /\ answer' = "pending" /\ Steadfast
      /\ flying' = flying \cup {Write("save", 1, NoId)}
  BY DEF Sends, Write, Steadfast, pageVars, runVars, planVars
<1>2. \A c \in flying' : c \notin flying => MayFly(c)' /\ c.what = "save"
  BY <1>1 DEF MayFly, Write, Steadfast
<1>3. \A c \in flying : task = "apply" /\ MayFly(c)' /\ c.what = "line" /\ IsWire(c.item)
  BY <1>1 DEF MayFly, Steadfast, TypeOK
<1>4. PartsPage'
  BY <1>1 DEF PartsPage, OwnNames, Landing, Landed, Placing, Valuing, Hiding, Lining, Steadfast
<1>5. EarlyPage' /\ HeldPage' /\ LinesPage' /\ CutPage' /\ LastPage'
  BY <1>1, <1>2, <1>3 DEF EarlyPage, HeldPage, LinesPage, CutPage, LastPage, Early, Placing, Valuing,
     Hiding, Lining
<1>6. SavePage'
  <2>1. task = "apply" => Drawn(page)'
    BY <1>1 DEF Drawn, Whole, LinesLie, FlagsSingle, Steadfast
  <2>2. task = "discard" => Cleared(page)'
    BY <1>1, ClearedKept DEF Steadfast
  <2>3. \A d \in flying' : d.what = "save" \/ (task = "apply" /\ IsWireWrite(d))
    BY <1>2, <1>3 DEF IsWireWrite
  <2>4. task' = task /\ task \in {"apply", "discard"}
    BY <1>1 DEF Steadfast, TypeOK
  <2>5. \A d \in flying' : (task = "apply" /\ IsWireWrite(d)) => (task = "apply" /\ IsWireWrite(d)')
    BY DEF IsWireWrite
  <2> QED  BY <1>1, <2>1, <2>2, <2>3, <2>4, <2>5 DEF SavePage
<1> QED  BY <1>2, <1>3, <1>4, <1>5, <1>6 DEF FreshInv

LEMMA JudgesFresh == ASSUME TypeOK, Order, FreshInv, fresh, Judges  PROVE FreshInv'
<1>0. pc = "nets" /\ task = "apply" /\ outcome = "none"
  BY DEF Judges, Order, Landing
<1>1. Drawn(page) /\ OwnNames(page) /\ (hides => page.shut)
  BY <1>0 DEF FreshInv, SavePage, PartsPage, Landing
<1>2. \A c \in flying : /\ MayFly(c) /\ c.what = "line" /\ IsWire(c.item)
                        /\ <<run, c.item>> \notin page.lines
  BY <1>0, Flights DEF MayFly, Kinds, Placing, Hiding, Lining
<1>3. CASE Ends("failed")
  <2>1. outcome' = "failed" /\ flying' = flying /\ page' = page
    BY <1>3 DEF Ends, pageVars
  <2>2. Known(page)'
    BY <1>1, <2>1, DrawnIsKnown DEF Known, PartsKnown, FlagsSingle
  <2>3. \A c \in flying' : IsWireWrite(c)'
    BY <1>2, <2>1 DEF IsWireWrite
  <2>4. LastPage'
    BY <2>1, <2>2, <2>3 DEF LastPage
  <2> QED  BY <1>3, <2>4, EndsFresh
<1>4. CASE Sends("save", 1, NoId)
  BY <1>0, <1>1, <1>2, <1>4, SavesFresh
<1> QED  BY <1>3, <1>4, EndsUnsure DEF Judges

\* On a clean page there is nothing that draw discard could take for another's.
LEMMA ClearedIsKnown ==
  ASSUME TypeOK, Cleared(page)
  PROVE  Known(page)
<1>1. \A x \in page.lines : IsWire(x[2])
  <2> SUFFICES ASSUME NEW x \in page.lines, ~IsWire(x[2])  PROVE FALSE
    OBVIOUS
  <2>1. ~Joined(page, x) /\ x \notin Theirs
    BY LineShape DEF TypeOK, Pages, Joined, Meet, Wires
  <2> QED  BY <2>1, LoneIsItself DEF Cleared, Merged
<1> QED  BY <1>1 DEF Cleared, Named, Known, PartsKnown, FlagsSingle, FlagPoints

LEMMA SaveFresh == ASSUME TypeOK, Order, FreshInv, fresh, HearsSave  PROVE FreshInv'
<1>0. pc = "save"
  BY DEF HearsSave
<1>1. CASE answer = "pending" /\ Ends("unknown")
  BY <1>1, EndsUnsure
<1>2. CASE answer # "pending"
  <2>1. \A c \in flying : IsWireWrite(c) /\ task = "apply"
    BY <1>0, <1>2, SavedQuiet
  <2>2. task = "apply" => Drawn(page) /\ Known(page) /\ (hides => page.shut)
    <3>1. task = "apply" => Drawn(page) /\ OwnNames(page) /\ (hides => page.shut)
      BY <1>0 DEF FreshInv, SavePage, PartsPage, Landed
    <3> QED  BY <3>1, DrawnIsKnown
  <2>3. task = "discard" => Cleared(page) /\ Known(page)
    <3>1. task = "discard" => Cleared(page)
      BY <1>0 DEF FreshInv, SavePage
    <3> QED  BY <3>1, ClearedIsKnown
  <2>4. /\ answer = "ok" /\ task = "apply" => Drawn(disk) /\ (hides => disk.shut)
        /\ answer = "ok" /\ task = "discard" => Cleared(disk)
    BY <1>0 DEF FreshInv, SavePage
  <2>5. /\ UNCHANGED <<page, disk, hides, meets, flying>> /\ task \in {"apply", "discard"}
        /\ \/ answer = "ok" /\ outcome' = "applied" /\ task = "apply"
           \/ answer = "ok" /\ outcome' = "cleared" /\ task = "discard"
           \/ outcome' = "failed"
    BY <1>2 DEF HearsSave, Ends, pageVars, planVars, TypeOK
  <2>6. LastPage'
    <3>1. \A c \in flying' : IsWireWrite(c)'
      BY <2>1, <2>5 DEF IsWireWrite
    <3>2. Known(page)' /\ (task = "apply" => Drawn(page)') /\ (task = "discard" => Cleared(page)')
      BY <2>2, <2>3, <2>5, ClearedKept DEF Known, PartsKnown, Drawn, Whole, LinesLie, FlagsSingle
    <3>3. (Drawn(disk) => Drawn(disk)') /\ (Cleared(disk) => Cleared(disk)')
      BY <2>5, ClearedKept DEF Drawn, Whole, LinesLie, FlagsSingle
    <3>4. task = "discard" => flying' = {}
      BY <2>1, <2>5
    <3> QED  BY <2>2, <2>4, <2>5, <3>1, <3>2, <3>3, <3>4 DEF LastPage
  <2> QED  BY <1>2, <2>6, EndsFresh DEF HearsSave
<1> QED  BY <1>1, <1>2 DEF HearsSave

\* draw discard: the deletes, one phase at a time.
LEMMA CutsFresh ==
  ASSUME TypeOK, Order, FreshInv, fresh, flying = {}, NEW k, NEW pg, CutsFrom(k, pg),
         \/ Discardable(page) /\ held'[run] = page
         \/ pc = "cut" /\ held' = held
  PROVE  FreshInv'
<1>1. /\ Steadfast /\ pc' \in {"cut", "back"}
      /\ \A c \in flying' : MayFly(c)' /\ c.what = "cut"
  <2>1. ASSUME NEW p \in Phases, Sends("cut", p, NoId)
        PROVE  Steadfast /\ pc' = "cut" /\ \A c \in flying' : MayFly(c)' /\ c.what = "cut"
    <3>1. Steadfast /\ pc' = "cut" /\ at' = p /\ flying' = {Write("cut", p, NoId)}
      BY <2>1 DEF Sends, Write, Steadfast, pageVars, runVars, planVars
    <3> QED  BY <3>1 DEF MayFly, Write, Steadfast
  <2> QED  BY <2>1 DEF CutsFrom, Steadfast, pageVars, runVars, planVars
<1>2. CutPage'
  <2>1. CASE Discardable(page) /\ held'[run] = page
    <3>1. run' = run /\ meets' = meets
      BY <1>1 DEF Steadfast
    <3>2. Discardable(held[run])'
      <4>1. WiresKnown(held[run])'
        BY <2>1, <3>1, HeldWires DEF Discardable
      <4> QED  BY <2>1, <3>1, <4>1 DEF Discardable, PartsKnown, FlagsSingle
    <3> QED  BY <1>1, <2>1, <3>1, <3>2 DEF CutPage, Steadfast
  <2>2. CASE pc = "cut" /\ held' = held
    BY <1>1, <2>2, HeldKept DEF FreshInv, CutPage, Steadfast
  <2> QED  BY <2>1, <2>2
<1>3. PartsPage' /\ LinesPage'
  BY <1>1 DEF PartsPage, LinesPage, Landed, Landing, Placing, Valuing, Hiding, Lining
<1> QED  BY <1>1, <1>2, <1>3, PlainFresh DEF Early

\* The parts and flags that are left of a page that could be discarded are still the plan's.
LEMMA LeftIsKnown ==
  ASSUME TypeOK, CutPage, pc \in {"cut", "back"}
  PROVE  Known(page)
<1>1. ASSUME NEW p \in PartIds, page.name[p] \in Parts
      PROVE  page.name[p] = p[2] /\ p \in page.valued
  BY <1>1 DEF CutPage, Discardable, PartsKnown, Parts
<1>2. FlagsSingle(page)
  BY DEF CutPage, Discardable, FlagsSingle
<1> QED  BY <1>1, <1>2 DEF Known, PartsKnown

LEMMA FailedFresh ==
  ASSUME TypeOK, FreshInv, fresh, flying = {}, Known(page), Ends("failed")
  PROVE  FreshInv'
<1>1. outcome' = "failed" /\ flying' = {} /\ page' = page
  BY DEF Ends, pageVars
<1>2. LastPage'
  BY <1>1 DEF LastPage, Known, PartsKnown, FlagsSingle
<1> QED  BY <1>2, EndsFresh

LEMMA SelectFresh == ASSUME TypeOK, Order, FreshInv, fresh, Selects  PROVE FreshInv'
<1>0. flying = {} /\ run \in Runs
  BY Quiet DEF Selects, Early, TypeOK
<1>1. CASE Cleared(page) /\ Ends("nothing")
  <2>1. outcome' = "nothing" /\ flying' = {} /\ page' = page /\ meets' = meets
    BY <1>0, <1>1 DEF Ends, pageVars, planVars
  <2>2. LastPage'
    BY <1>1, <2>1, ClearedKept DEF LastPage
  <2> QED  BY <1>1, <2>2, EndsFresh
<1>2. CASE Discardable(page) /\ held' = [held EXCEPT ![run] = page] /\ CutsFrom(1, page)
  <2>1. held'[run] = page
    BY <1>0, <1>2 DEF TypeOK
  <2> QED  BY <1>0, <1>2, <2>1, CutsFresh
<1> QED  BY <1>1, <1>2, EndsUnsure DEF Selects

LEMMA CutFresh == ASSUME TypeOK, Order, FreshInv, fresh, HearsCut  PROVE FreshInv'
<1>0. pc = "cut"
  BY DEF HearsCut
<1>1. ASSUME answer # "pending"  PROVE flying = {}
  <2> SUFFICES ASSUME NEW c \in flying  PROVE FALSE
    OBVIOUS
  <2>1. MayFly(c) /\ c.what \in Kinds /\ c.run = run
    BY Flights
  <2>2. c.what = "cut" /\ Awaited(c)
    BY <1>0, <2>1 DEF MayFly, Kinds, Placing, Hiding, Lining, Awaited
  <2> QED  BY <1>1, <2>2 DEF Order
<1>2. CASE answer = "ok" /\ CutsFrom(at + 1, held[run]) /\ UNCHANGED readVars
  BY <1>0, <1>1, <1>2, CutsFresh DEF readVars
<1>3. CASE answer = "error" /\ Ends("failed")
  BY <1>0, <1>1, <1>3, LeftIsKnown, FailedFresh DEF FreshInv
<1> QED  BY <1>2, <1>3, EndsUnsure DEF HearsCut

\* Without what is joined to nothing, the other primitives are what they were.
LEMMA MergedKept ==
  ASSUME NEW pg, NEW qg, qg.lines \subseteq pg.lines, pg.lines \ Lone(pg) \subseteq qg.lines,
         NEW x \in qg.lines, Merged(pg, x)
  PROVE  Merged(qg, x)
<1>1. PICK y \in Theirs : y \in Primitive(pg, x)
  BY DEF Merged
<1>2. y \in qg.lines
  BY <1>1 DEF Primitive, Lone
<1>3. ASSUME NEW S \in SUBSET qg.lines, x \in S, Closed(qg, S)  PROVE y \in S
  <2>1. ASSUME NEW u \in S, NEW v \in pg.lines, Meet(u, v)  PROVE v \in S
    <3>1. Joined(pg, v)
      BY <2>1, MeetBothWays DEF Joined
    <3> QED  BY <1>3, <2>1, <3>1 DEF Closed, Lone
  <2> QED  BY <1>1, <1>3, <2>1 DEF Primitive, Closed
<1> QED  BY <1>1, <1>2, <1>3 DEF Merged, Primitive

\* What the read-back finds is so.
LEMMA DiscardedIsCleared ==
  ASSUME TypeOK, CutPage, pc = "back", Discarded
  PROVE  Cleared(page)
<1>1. ASSUME NEW x \in page.lines  PROVE Merged(page, x)
  <2>1. x \in held[run].lines /\ x \notin Lone(held[run])
    BY DEF CutPage, Discarded
  <2>2. Merged(held[run], x)
    <3>1. CASE x \in Theirs
      BY <2>1, <3>1 DEF Merged, Primitive
    <3>2. CASE Joined(held[run], x)
      BY <2>1, <3>2 DEF CutPage, Discardable, WiresKnown
    <3> QED  BY <2>1, <3>1, <3>2 DEF Lone
  <2> QED  BY <2>2, MergedKept DEF CutPage
<1>2. ASSUME NEW p \in PartIds, page.name[p] \in Parts  PROVE FALSE
  <2>1. page.name[p] # 0
    BY <1>2 DEF Parts
  <2>2. held[run].name[p] \in Parts
    BY <1>2, <2>1 DEF CutPage
  <2>3. p \in Targets(held[run], 3)
    BY <2>2 DEF Targets
  <2> QED  BY <2>1, <2>3 DEF Discarded
<1> QED  BY <1>1, <1>2 DEF Cleared, Named

LEMMA BackFresh == ASSUME TypeOK, Order, FreshInv, fresh, ReadsBack  PROVE FreshInv'
<1>0. pc = "back" /\ task = "discard" /\ outcome = "none" /\ flying = {} /\ CutPage
  BY Quiet DEF ReadsBack, Order, FreshInv
<1>1. CASE Ends("failed")
  BY <1>0, <1>1, LeftIsKnown, FailedFresh
<1>2. CASE Discarded /\ Ends("discarded")
  <2>1. outcome' = "discarded" /\ flying' = {} /\ page' = page /\ meets' = meets
    BY <1>0, <1>2 DEF Ends, pageVars, planVars
  <2>2. Cleared(page)
    BY <1>0, <1>2, DiscardedIsCleared
  <2>3. LastPage'
    BY <2>1, <2>2, ClearedKept DEF LastPage
  <2> QED  BY <1>2, <2>3, EndsFresh
<1>3. CASE Discarded /\ Sends("save", 1, NoId)
  <2>1. Cleared(page)
    BY <1>0, <1>3, DiscardedIsCleared
  <2> QED  BY <1>0, <1>3, <2>1, SavesFresh
<1> QED  BY <1>1, <1>2, <1>3, EndsUnsure DEF ReadsBack

LEMMA CommandFresh ==
  ASSUME TypeOK, Order, FreshInv, Killed \/ ChecksFocus \/ HearsSave \/ Apply \/ Discard
  PROVE  FreshInv'
<1>1. CASE ~fresh
  <2>1. UNCHANGED fresh
    BY DEF Killed, ChecksFocus, HearsSave, Apply, Discard, ReadsPage, Probes, ReadsPool, HearsPlace,
       ReadsWhetherPlaced, FindsIds, WritesValue, HearsValue, ReadsText, HearsHide, ReadsTextBack,
       ChecksParts, HearsLine, Verifies, Judges, Selects, HearsCut, ReadsBack, PlacesNext,
       ValuesNext, CutsFrom, Ends, Goes, Sends, runVars
  <2> QED  BY <1>1, <2>1 DEF FreshInv
<1>2. CASE fresh
  <2>1. CASE Killed
    BY <1>2, <2>1, EndsUnsure DEF Killed
  <2>2. CASE ChecksFocus \/ HearsSave
    BY <1>2, <2>2, EarlyFresh, SaveFresh
  <2>3. CASE Apply
    BY <1>2, <2>3, EarlyFresh, PoolFresh, PlaceFresh, IdsFresh, ValuesFresh, TextFresh, LineFresh,
       VerifyFresh, JudgesFresh DEF Apply
  <2>4. CASE Discard
    BY <1>2, <2>4, SelectFresh, CutFresh, BackFresh DEF Discard
  <2> QED  BY <2>1, <2>2, <2>3, <2>4
<1> QED  BY <1>1, <1>2

------------------------------------------------------------------------------
(* The same, of the editor's steps. *)

\* A write is over: what is known of the flow besides.
LEMMA OverFresh ==
  ASSUME NEW c, NEW result, Over(c, result)
  PROVE  /\ UNCHANGED <<hides, meets, run, task, fresh, pc, at, seen, own, fits, held, outcome>>
         /\ flying' = flying \ {c}
         /\ answer' = answer \/ (Awaited(c) /\ answer' = result)
BY DEF Over, planVars, runVars, readVars

\* It has changed nothing.
LEMMA VoidFresh ==
  ASSUME TypeOK, FreshInv, fresh, NEW c \in flying, NEW result, Over(c, result), UNCHANGED pageVars,
         result = "ok" => c.what # "save"
  PROVE  FreshInv'
<1>1. /\ UNCHANGED <<page, disk, hides, meets, run, task, fresh, pc, at, seen, own, held, outcome>>
      /\ flying' \subseteq flying
  BY OverFresh DEF pageVars
<1>2. \A d \in flying' : MayFly(d)'
  BY <1>1, Flights DEF MayFly
<1>3. EarlyPage' /\ PartsPage' /\ LinesPage' /\ CutPage'
  BY <1>1, HeldKept DEF FreshInv, EarlyPage, PartsPage, LinesPage, CutPage, OwnNames, Named, Landed
<1>4. HeldPage'
  BY <1>1 DEF FreshInv, HeldPage, OwnNames
<1>5. /\ Drawn(page)' <=> Drawn(page)
      /\ Drawn(disk)' <=> Drawn(disk)
      /\ Cleared(page)' <=> Cleared(page)
      /\ Cleared(disk)' <=> Cleared(disk)
      /\ Known(page)' <=> Known(page)
  BY <1>1, ClearedKept DEF Drawn, Whole, LinesLie, FlagsSingle, Known, PartsKnown
<1>6. \A d \in flying' : IsWireWrite(d)' <=> IsWireWrite(d)
  BY DEF IsWireWrite
<1>7. pc = "save" /\ answer' = "ok" => answer = "ok"
  BY OverFresh DEF Awaited
<1>8. SavePage' /\ LastPage'
  BY <1>1, <1>5, <1>6, <1>7 DEF FreshInv, SavePage, LastPage
<1> QED  BY <1>2, <1>3, <1>4, <1>8 DEF FreshInv

\* A run that is over has promised nothing as long as anything of it but wires is under way.
LEMMA OverdueFresh ==
  ASSUME TypeOK, FreshInv, fresh, pc = "idle", NEW c \in flying, NEW result, Over(c, result),
         ~IsWireWrite(c), c.what # "save"
  PROVE  FreshInv'
<1>1. /\ UNCHANGED <<hides, run, task, fresh, pc, outcome>> /\ flying' \subseteq flying
  BY OverFresh
<1>2. \A d \in flying' : MayFly(d)'
  BY <1>1, Flights DEF MayFly, Placing, Hiding, Lining
<1>3. EarlyPage' /\ PartsPage' /\ LinesPage' /\ CutPage' /\ HeldPage'
  BY <1>1 DEF EarlyPage, PartsPage, LinesPage, CutPage, HeldPage, Landed, Landing, Placing, Valuing,
     Hiding, Lining, Early
<1>4. \A d \in flying : d.what # "save"
  BY DEF FreshInv, SavePage
<1>5. outcome \notin {"applied", "failed", "already", "discarded", "cleared", "nothing"}
  BY DEF FreshInv, LastPage
<1>6. SavePage' /\ LastPage'
  BY <1>1, <1>4, <1>5 DEF SavePage, LastPage
<1> QED  BY <1>2, <1>3, <1>6 DEF FreshInv

\* The rest of what can land while the flow runs.
LEMMA LandedFresh ==
  ASSUME TypeOK, FreshInv, fresh, NEW c \in flying, NEW result, Over(c, result), UNCHANGED disk,
         pc \notin Early \cup {"idle", "nets", "save"}, HeldPage', PartsPage', LinesPage', CutPage',
         \A d \in flying' : MayFly(d)' /\ d.what # "save"
  PROVE  FreshInv'
<1>1. pc' = pc
  BY OverFresh
<1> QED  BY <1>1 DEF FreshInv, EarlyPage, SavePage, LastPage

LEMMA PartLands ==
  ASSUME TypeOK, Order, FreshInv, fresh, NEW c \in flying, c.what = "place",
         NEW names \in {PlacedNames(c.item), {Odd}}, Puts(c, names), UNCHANGED disk,
         NEW result, Over(c, result)
  PROVE  FreshInv'
<1>0. c \in Writes /\ c.run = run /\ MayFly(c) /\ c.item \in Parts
  BY Flights, WriteShape
<1>1. CASE pc = "idle"
  BY <1>1, OverdueFresh DEF IsWireWrite
<1>2. CASE pc # "idle"
  <2>0. pc \in Placing /\ c.item = at
    BY <1>0, <1>2 DEF MayFly
  <2>1. /\ UNCHANGED <<hides, run, task, fresh, pc, at, seen, own, held, outcome>>
        /\ flying' = flying \ {c}
    BY OverFresh
  <2>2. flying' = {}
    <3> SUFFICES ASSUME NEW d \in flying, d # c  PROVE FALSE
      BY <2>1
    <3>1. MayFly(d) /\ d.what \in Kinds /\ d.run = run /\ d \in Writes
      BY Flights
    <3>2. d.what = "place" /\ d.item = at
      BY <2>0, <3>1 DEF MayFly, Kinds, Placing, Hiding, Lining
    <3> QED  BY <1>0, <2>0, <3>1, <3>2, WriteIsItsItem
  <2>3. PICK n \in names : page' = [page EXCEPT !.name[<<c.run, c.item>>] = n, !.shut = FALSE]
    BY DEF Puts
  <2>4. OwnNames(page)
    BY <2>0 DEF FreshInv, PartsPage, Landing
  <2>5. n \in Parts => n = at
    <3>1. at \notin Named(page)
      <4> SUFFICES ASSUME NEW p \in PartIds, page.name[p] = at  PROVE FALSE
        BY DEF Named
      <4>1. p = <<run, at>> /\ page.name[<<run, at>>] = 0 /\ at \in Parts
        BY <1>0, <2>0, <2>4 DEF OwnNames, Puts
      <4> QED  BY <4>1 DEF Parts
    <3>2. Odd \notin Parts
      BY DrawingAssumption DEF Odd, Parts
    <3> QED  BY <2>0, <3>1, <3>2 DEF PlacedNames
  <2>6. /\ page'.valued = page.valued /\ page'.lines = page.lines
        /\ page'.name[<<run, at>>] = n
        /\ \A p \in PartIds : p # <<run, at>> => page'.name[p] = page.name[p]
    <3>1. <<run, at>> \in PartIds
      BY <1>0, <2>0, WriteShape DEF PartIds
    <3> QED  BY <1>0, <2>0, <2>3, <3>1 DEF TypeOK, Pages
  <2>7. PartsPage'
    <3>1. OwnNames(page)'
      BY <2>1, <2>4, <2>5, <2>6 DEF OwnNames
    <3>2. \A i \in Parts : i > at => <<run, i>> # <<run, at>> /\ <<run, i>> \in PartIds
      BY <1>0, <2>0, WriteShape DEF PartIds, Parts
    <3> QED
      BY <2>0, <2>1, <2>6, <3>1, <3>2 DEF FreshInv, PartsPage, Landed, Placing, Valuing, Lining
  <2>8. LinesPage' /\ CutPage' /\ HeldPage'
    BY <2>0, <2>1, <2>2, <2>6 DEF FreshInv, LinesPage, CutPage, HeldPage, Placing, Lining
  <2> QED  BY <2>0, <2>2, <2>7, <2>8, LandedFresh DEF Placing, Early
<1> QED  BY <1>1, <1>2

LEMMA ValueLands ==
  ASSUME TypeOK, Order, FreshInv, fresh, NEW c \in flying, c.what = "value", page.name[c.of] # 0,
         page' = [page EXCEPT !.valued = @ \cup {c.of}], UNCHANGED disk, NEW result, Over(c, result)
  PROVE  FreshInv'
<1>0. c \in Writes /\ c.run = run /\ MayFly(c) /\ c.item \in Parts
  BY Flights, WriteShape
<1>1. CASE pc = "idle"
  BY <1>1, OverdueFresh DEF IsWireWrite
<1>2. CASE pc # "idle"
  <2>0. /\ pc \in Hiding \cup {"values", "value", "check"} /\ c.of = <<run, c.item>>
        /\ pc \in {"values", "value"} => c.item < at \/ (pc = "value" /\ c.item = at)
    BY <1>0, <1>2 DEF MayFly
  <2>1. /\ UNCHANGED <<hides, run, task, fresh, pc, at, seen, own, held, outcome>>
        /\ flying' = flying \ {c}
    BY OverFresh
  <2>2. /\ page'.valued = page.valued \cup {<<run, c.item>>} /\ page'.lines = page.lines
        /\ page'.name = page.name /\ page'.shut = page.shut
    BY <2>0 DEF TypeOK, Pages
  <2>3. ASSUME NEW d \in flying'  PROVE MayFly(d)' /\ d.what \in {"value", "hide"}
    <3>1. MayFly(d) /\ d.what \in Kinds /\ d \in Writes /\ d.run = run /\ d # c
      BY <2>1, Flights
    <3>2. d.what \in {"value", "hide"}
      BY <2>0, <3>1 DEF MayFly, Kinds, Placing, Hiding, Lining
    <3>3. d.what = "value" => d.of = <<run, d.item>> /\ d.item # c.item
      BY <1>0, <1>2, <2>0, <3>1, WriteIsItsItem DEF MayFly
    <3> QED  BY <2>0, <2>1, <2>2, <3>1, <3>2, <3>3 DEF MayFly
  <2>4. PartsPage'
    <3>1. pc \in {"values", "value"} =>
            \A i \in Parts : i > at \/ (pc = "values" /\ i = at) => i # c.item
      BY <1>0, <2>0 DEF TypeOK, PartSteps, Parts
    <3> QED
      BY <2>0, <2>1, <2>2, <3>1
      DEF FreshInv, PartsPage, OwnNames, Landed, Landing, Placing, Valuing, Hiding, Lining
  <2>5. LinesPage' /\ CutPage' /\ HeldPage'
    BY <2>0, <2>1, <2>2
    DEF FreshInv, LinesPage, CutPage, HeldPage, OwnNames, Placing, Valuing, Hiding, Lining
  <2> QED  BY <2>0, <2>3, <2>4, <2>5, LandedFresh DEF Hiding, Early
<1> QED  BY <1>1, <1>2

LEMMA HideLands ==
  ASSUME TypeOK, Order, FreshInv, fresh, NEW c \in flying, c.what = "hide",
         page' = [held[c.run] EXCEPT !.shut = TRUE], UNCHANGED disk, NEW result, Over(c, result)
  PROVE  FreshInv'
<1>0. c \in Writes /\ c.run = run /\ MayFly(c) /\ c.item = 1 /\ run \in Runs
  BY Flights, WriteShape
<1>1. CASE pc = "idle"
  BY <1>1, OverdueFresh DEF IsWireWrite
<1>2. CASE pc # "idle"
  <2>0. pc \in {"hide", "shown"}
    BY <1>0, <1>2 DEF MayFly
  <2>1. /\ UNCHANGED <<hides, run, task, fresh, pc, at, seen, own, held, outcome>>
        /\ flying' = flying \ {c}
    BY OverFresh
  <2>2. /\ page'.valued = held[run].valued /\ page'.lines = held[run].lines
        /\ page'.name = held[run].name
    BY <1>0 DEF TypeOK, Pages
  <2>3. /\ OwnNames(held[run]) /\ held[run].lines = seen.lines
        /\ \A d \in flying : d.what = "value" => d.of \notin held[run].valued
    BY <1>2 DEF FreshInv, HeldPage
  <2>4. \A x \in seen.lines : x[1] # run
    BY <2>0 DEF FreshInv, LinesPage, Hiding
  <2>5. ASSUME NEW d \in flying'  PROVE MayFly(d)' /\ d.what = "value"
    <3>1. MayFly(d) /\ d.what \in Kinds /\ d \in Writes /\ d.run = run /\ d # c /\ d \in flying
      BY <2>1, Flights
    <3>2. d.what # "hide"
      BY <1>0, <3>1, WriteShape, WriteIsItsItem
    <3>3. d.what = "value"
      BY <2>0, <3>1, <3>2 DEF MayFly, Kinds, Placing, Hiding, Lining
    <3> QED  BY <2>0, <2>1, <2>2, <2>3, <3>1, <3>3 DEF MayFly, Hiding
  <2>6. PartsPage'
    BY <2>0, <2>1, <2>2, <2>3 DEF PartsPage, OwnNames, Landed, Placing, Valuing, Lining
  <2>7. LinesPage' /\ CutPage' /\ HeldPage'
    BY <2>0, <2>1, <2>2, <2>3, <2>4, <2>5 DEF LinesPage, CutPage, HeldPage, Lining
  <2> QED  BY <2>0, <2>5, <2>6, <2>7, LandedFresh DEF Early
<1> QED  BY <1>1, <1>2

\* What a line does to the page: it is there, and of the others at most the like wires are gone.
LEMMA LineDrawn ==
  ASSUME TypeOK, NEW c \in Writes, c.what = "line", Draws(c)
  PROVE  /\ page'.name = page.name /\ page'.valued = page.valued /\ page'.shut = page.shut
         /\ <<c.run, c.item>> \in page'.lines
         /\ \A x \in page'.lines : x \in page.lines \/ x = <<c.run, c.item>>
         /\ \A x \in page.lines : x[2] # c.item => x \in page'.lines
BY DEF Draws, TypeOK, Pages

\* A wire takes nothing from a drawing.
LEMMA WireKeeps ==
  ASSUME TypeOK, NEW c \in Writes, c.what = "line", IsWire(c.item), Draws(c)
  PROVE  /\ Drawn(page) => Drawn(page)'
         /\ Known(page) => Known(page)'
<1>1. /\ page'.name = page.name /\ page'.valued = page.valued
      /\ <<c.run, c.item>> \in page'.lines /\ c.run \in Runs
      /\ \A x \in page'.lines : x \in page.lines \/ x = <<c.run, c.item>>
      /\ \A x \in page.lines : x[2] # c.item => x \in page'.lines
  BY LineDrawn, WriteShape
<1>2. Whole(page) => Whole(page)'
  BY <1>1 DEF Whole
<1>3. LinesLie(page) => LinesLie(page)'
  <2> SUFFICES ASSUME LinesLie(page), NEW l \in Lines
               PROVE  \E r \in Runs : <<r, l>> \in page'.lines
    BY DEF LinesLie
  <2>1. PICK r \in Runs : <<r, l>> \in page.lines
    BY DEF LinesLie
  <2> QED  BY <1>1, <2>1
<1>4. FlagsSingle(page) => FlagsSingle(page)'
  <2> SUFFICES ASSUME FlagsSingle(page), NEW l \in FlagPoints, NEW r \in Runs, NEW s \in Runs,
                      <<r, l>> \in page'.lines, <<s, l>> \in page'.lines
               PROVE  r = s
    BY DEF FlagsSingle
  <2>1. l # c.item
    BY DEF FlagPoints
  <2>2. <<r, l>> \in page.lines /\ <<s, l>> \in page.lines
    BY <1>1, <2>1
  <2> QED  BY <2>2 DEF FlagsSingle
<1> QED  BY <1>1, <1>2, <1>3, <1>4 DEF Drawn, Known, PartsKnown

LEMMA LineLands ==
  ASSUME TypeOK, Order, FreshInv, fresh, NEW c \in flying, c.what = "line", Draws(c),
         UNCHANGED disk, NEW result, Over(c, result)
  PROVE  FreshInv'
<1>0. c \in Writes /\ c.run = run /\ MayFly(c) /\ c.item \in Lines
  BY Flights, WriteShape
<1>1. /\ UNCHANGED <<disk, hides, meets, run, task, fresh, pc, at, seen, own, held, outcome>>
      /\ flying' = flying \ {c} /\ (pc # "line" => answer' = answer)
  BY <1>0, OverFresh DEF Awaited
<1>2. /\ page'.name = page.name /\ page'.valued = page.valued /\ page'.shut = page.shut
      /\ \A x \in page'.lines : x \in page.lines \/ x = <<run, c.item>>
  BY <1>0, LineDrawn
<1>3. ASSUME NEW d \in flying', pc # "idle"
      PROVE  MayFly(d)' /\ d.what \in {"line", "save"} /\ d \in flying
             /\ (pc \in Lining => d.what = "line")
  <2>1. MayFly(d) /\ d.what \in Kinds /\ d \in Writes /\ d.run = run /\ d # c /\ d \in flying
    BY <1>1, <1>3, Flights
  <2>2. pc \in Lining \cup {"nets", "save"}
    BY <1>0, <1>3 DEF MayFly
  <2>3. d.what \in {"line", "save"} /\ (pc \in Lining => d.what = "line")
    BY <2>1, <2>2 DEF MayFly, Kinds, Placing, Hiding, Lining
  <2>4. d.what = "line" => d.item # c.item
    BY <1>0, <2>1, WriteIsItsItem, WriteShape
  <2>5. d.what = "line" => <<run, d.item>> \notin page'.lines
    BY <1>2, <1>3, <2>1, <2>4 DEF MayFly
  <2> QED  BY <1>1, <2>1, <2>2, <2>3, <2>5 DEF MayFly
<1>4. PartsPage'
  BY <1>1, <1>2 DEF FreshInv, PartsPage, OwnNames, Landed
<1>5. CASE pc = "idle" /\ ~IsWireWrite(c)
  BY <1>5, OverdueFresh
<1>6. CASE pc = "idle" /\ IsWireWrite(c)
  <2>1. /\ Drawn(page) => Drawn(page)'
        /\ Known(page) => Known(page)'
        /\ (Drawn(disk) => Drawn(disk)') /\ (Cleared(disk) => Cleared(disk)')
    BY <1>0, <1>1, <1>6, WireKeeps, ClearedKept
    DEF IsWireWrite, Drawn, Whole, LinesLie, FlagsSingle
  <2>2. outcome \notin {"already", "discarded", "cleared", "nothing"}
    BY <1>6 DEF FreshInv, LastPage
  <2>3. \A d \in flying' : MayFly(d)'
    BY <1>1, <1>6, Flights DEF MayFly, Placing, Hiding, Lining
  <2>4. \A d \in flying : IsWireWrite(d) => IsWireWrite(d)'
    BY DEF IsWireWrite
  <2>5. LastPage'
    BY <1>1, <1>2, <1>6, <2>1, <2>2, <2>4 DEF FreshInv, LastPage
  <2>6. SavePage'
    BY <1>1, <1>6, <2>1, <2>4 DEF FreshInv, SavePage
  <2>7. EarlyPage' /\ LinesPage' /\ CutPage' /\ HeldPage'
    BY <1>1, <1>6 DEF EarlyPage, LinesPage, CutPage, HeldPage, Placing, Valuing, Hiding, Lining, Early
  <2> QED  BY <1>4, <2>3, <2>5, <2>6, <2>7 DEF FreshInv
<1>7. CASE pc \in Lining
  <2>1. LinesPage'
    <3>1. \A x \in page'.lines : x \notin page.lines =>
            x[1] = run /\ (pc = "line" => x[2] <= at)
      BY <1>0, <1>2, <1>7 DEF MayFly
    <3> QED
      BY <1>1, <1>7, <3>1 DEF FreshInv, LinesPage, Placing, Valuing, Hiding, Lining
  <2>2. CutPage' /\ HeldPage'
    BY <1>1, <1>3, <1>7 DEF CutPage, HeldPage, Lining
  <2> QED  BY <1>3, <1>4, <1>7, <2>1, <2>2, LandedFresh DEF Lining, Early
<1>8. CASE pc \in {"nets", "save"}
  <2>0. IsWire(c.item) /\ ~(pc = "save" /\ task = "discard")
    BY <1>0, <1>8 DEF MayFly, FreshInv, SavePage
  <2>1. Drawn(page)'
    <3>1. Drawn(page)
      BY <1>8, <2>0 DEF FreshInv, SavePage, TypeOK
    <3> QED  BY <1>0, <2>0, <3>1, WireKeeps
  <2>2. Drawn(disk) => Drawn(disk)'
    BY <1>1 DEF Drawn, Whole, LinesLie, FlagsSingle
  <2>3. \A d \in flying' : d.what = "save" \/ IsWireWrite(d)'
    <3> SUFFICES ASSUME NEW d \in flying', d.what # "save"  PROVE IsWireWrite(d)'
      OBVIOUS
    <3>1. d.what = "line" /\ MayFly(d)
      BY <1>3, <1>8, Flights
    <3> QED  BY <1>8, <3>1 DEF MayFly, IsWireWrite, IsWire
  <2>4. SavePage'
    BY <1>1, <1>8, <2>0, <2>1, <2>2, <2>3 DEF FreshInv, SavePage, TypeOK
  <2>5. EarlyPage' /\ LinesPage' /\ CutPage' /\ HeldPage' /\ LastPage'
    BY <1>1, <1>3, <1>8
    DEF EarlyPage, LinesPage, CutPage, HeldPage, LastPage, Placing, Valuing, Hiding, Lining, Early
  <2> QED  BY <1>3, <1>4, <1>8, <2>4, <2>5 DEF FreshInv
<1> QED  BY <1>0, <1>5, <1>6, <1>7, <1>8 DEF MayFly

\* The wires or the flags of a phase are deleted, from a page that has no lines but those its ids
\* were read with: nothing goes but these.
LEMMA LinesCut ==
  ASSUME TypeOK, NEW r \in Runs, NEW k, k # 3, NEW ids \in SUBSET Targets(held[r], k),
         Removes(k, ids), page.lines \subseteq held[r].lines
  PROVE  /\ page'.name = page.name /\ page'.valued = page.valued
         /\ page'.lines \subseteq page.lines
         /\ page.lines \ Lone(held[r]) \subseteq page'.lines
<1> DEFINE there == ids \cap page.lines
<1>1. PICK kept \in SUBSET (there \ Lone(page)) :
        page' = [page EXCEPT !.lines = @ \ UNION {Primitive(page, x) : x \in there \ kept}]
  BY DEF Removes
<1>2. ASSUME NEW x \in there  PROVE x \in Lone(held[r]) /\ Primitive(page, x) = {x}
  <2>1. x \in Lone(held[r]) /\ x \in page.lines
    BY DEF Targets
  <2>2. ~Joined(page, x)
    BY <2>1 DEF Lone, Joined
  <2> QED  BY <2>1, <2>2, LoneIsItself
<1>3. UNION {Primitive(page, x) : x \in there \ kept} \subseteq Lone(held[r])
  BY <1>2
<1>4. /\ page'.name = page.name /\ page'.valued = page.valued
      /\ page'.lines = page.lines \ UNION {Primitive(page, x) : x \in there \ kept}
  BY <1>1 DEF TypeOK, Pages
<1> QED  BY <1>3, <1>4

LEMMA CutLands ==
  ASSUME TypeOK, Order, FreshInv, fresh, NEW c \in flying, c.what = "cut",
         NEW ids \in SUBSET Targets(held[c.run], c.item), Removes(c.item, ids), UNCHANGED disk,
         NEW result, Over(c, result)
  PROVE  FreshInv'
<1>0. c \in Writes /\ c.run = run /\ MayFly(c)
  BY Flights
<1>1. CASE pc = "idle"
  BY <1>1, OverdueFresh DEF IsWireWrite
<1>2. CASE pc # "idle"
  <2>0. pc = "cut"
    BY <1>0, <1>2 DEF MayFly
  <2>1. UNCHANGED <<run, pc, at, held, meets>> /\ flying' \subseteq flying
    BY OverFresh
  <2>2. /\ \A p \in PartIds : page'.name[p] # 0 => /\ page'.name[p] = page.name[p]
                                                   /\ p \in page.valued => p \in page'.valued
        /\ page'.lines \subseteq page.lines
        /\ page.lines \ Lone(held[run]) \subseteq page'.lines
    <3>1. page \in Pages /\ run \in Runs
      BY <1>0, WriteShape DEF TypeOK
    <3>2. CASE c.item = 3
      <4>1. ids \subseteq {p \in PartIds : held[run].name[p] \in Parts}
        BY <1>0, <3>2 DEF Targets
      <4> QED  BY <3>1, <3>2, <4>1, RemovesShape
    <3>3. CASE c.item # 3
      <4>1. page.lines \subseteq held[run].lines
        BY <2>0 DEF FreshInv, CutPage
      <4> QED  BY <1>0, <3>1, <3>3, <4>1, LinesCut
    <3> QED  BY <3>2, <3>3
  <2>3. \A d \in flying' : MayFly(d)' /\ d.what = "cut"
    BY <2>0, <2>1, Flights DEF MayFly, Kinds, Placing, Hiding, Lining
  <2>4. CutPage'
    BY <2>0, <2>1, <2>2, HeldKept DEF FreshInv, CutPage
  <2>5. PartsPage' /\ LinesPage' /\ HeldPage'
    BY <2>0, <2>1, <2>3
    DEF PartsPage, LinesPage, HeldPage, Landed, Landing, Placing, Valuing, Hiding, Lining
  <2> QED  BY <2>0, <2>3, <2>4, <2>5, LandedFresh DEF Early
<1> QED  BY <1>1, <1>2

LEMMA SaveLands ==
  ASSUME TypeOK, Order, FreshInv, fresh, NEW c \in flying, c.what = "save", disk' = page,
         UNCHANGED page, NEW result, Over(c, result)
  PROVE  FreshInv'
<1>1. /\ UNCHANGED <<page, hides, meets, run, task, fresh, pc, at, seen, own, held, outcome>>
      /\ flying' = flying \ {c} /\ MayFly(c)
  BY OverFresh, Flights
<1>2. pc \in {"save", "idle"}
  BY <1>1 DEF MayFly
<1>3. \A d \in flying' : MayFly(d)'
  BY <1>1, Flights DEF MayFly
<1>4. EarlyPage' /\ PartsPage' /\ LinesPage' /\ CutPage' /\ HeldPage'
  BY <1>1, <1>2 DEF FreshInv, EarlyPage, PartsPage, LinesPage, CutPage, HeldPage, OwnNames, Landed,
     Landing, Placing, Valuing, Hiding, Lining, Early
<1>5. /\ Drawn(page) => Drawn(page)' /\ Drawn(disk)'
      /\ Cleared(page) => Cleared(page)' /\ Cleared(disk)'
  BY <1>1, ClearedKept DEF Drawn, Whole, LinesLie, FlagsSingle
<1>6. \A d \in flying : IsWireWrite(d) => IsWireWrite(d)'
  BY DEF IsWireWrite
<1>7. pc = "save" /\ task = "apply" /\ hides => page.shut
  BY DEF FreshInv, PartsPage, Landed
<1>8. SavePage'
  <2>1. pc = "save" /\ task = "apply" => Drawn(page)
    BY DEF FreshInv, SavePage
  <2>2. pc = "save" /\ task # "apply" => Cleared(page) /\ \A d \in flying : d.what = "save"
    BY DEF FreshInv, SavePage
  <2>3. pc # "nets"
    BY <1>2
  <2>4. \/ Drawn(page) /\ \A d \in flying : d.what = "save" \/ IsWireWrite(d)
        \/ Cleared(page) /\ \A d \in flying : d.what = "save"
    BY DEF FreshInv, SavePage
  <2> QED  BY <1>1, <1>5, <1>6, <1>7, <2>1, <2>2, <2>3, <2>4 DEF SavePage
<1>9. LastPage'
  <2>1. pc = "idle" => outcome \notin {"applied", "failed", "already", "discarded", "cleared", "nothing"}
    BY DEF FreshInv, LastPage, IsWireWrite
  <2> QED  BY <1>1, <2>1 DEF LastPage
<1> QED  BY <1>3, <1>4, <1>8, <1>9 DEF FreshInv

LEMMA EditorFresh ==
  ASSUME TypeOK, Order, FreshInv, NEW c \in flying, Lands(c) \/ Fails(c)
  PROVE  FreshInv'
<1>1. CASE ~fresh
  <2>1. UNCHANGED fresh
    BY DEF Lands, Fails, Over, runVars
  <2> QED  BY <1>1, <2>1 DEF FreshInv
<1>2. CASE fresh /\ Lands(c)
  <2>1. Over(c, "ok") /\ Effect(c)
    BY <1>2 DEF Lands
  <2>2. CASE c.what # "save" /\ UNCHANGED pageVars
    BY <1>2, <2>1, <2>2, VoidFresh
  <2>3. CASE c.what = "place" /\ Puts(c, PlacedNames(c.item)) /\ UNCHANGED disk
    BY <1>2, <2>1, <2>3, PartLands
  <2>4. CASE c.what = "cut" /\ Removes(c.item, Targets(held[c.run], c.item)) /\ UNCHANGED disk
    BY <1>2, <2>1, <2>4, CutLands
  <2>5. CASE c.what = "line" /\ Draws(c) /\ UNCHANGED disk
    BY <1>2, <2>1, <2>5, LineLands
  <2>6. CASE c.what \in {"value", "hide", "save"} /\ ~(c.what # "save" /\ UNCHANGED pageVars)
    BY <1>2, <2>1, <2>6, ValueLands, HideLands, SaveLands DEF Effect
  <2> QED  BY <2>1, <2>2, <2>3, <2>4, <2>5, <2>6 DEF Effect
<1>3. CASE fresh /\ Fails(c)
  <2>1. CASE UNCHANGED page /\ Over(c, "error")
    BY <1>3, <2>1, VoidFresh DEF Fails, pageVars
  <2>2. CASE c.what = "place" /\ Puts(c, {Odd}) /\ (Over(c, "error") \/ Over(c, "pending"))
    BY <1>3, <2>2, PartLands DEF Fails
  <2>3. ASSUME c.what = "cut", NEW ids \in SUBSET Targets(held[c.run], c.item),
               Removes(c.item, ids), Over(c, "error")
        PROVE  FreshInv'
    BY <1>3, <2>3, CutLands DEF Fails
  <2> QED  BY <1>3, <2>1, <2>2, <2>3 DEF Fails
<1> QED  BY <1>1, <1>2, <1>3

LEMMA StillFresh == ASSUME FreshInv, UNCHANGED vars  PROVE FreshInv'
<1>1. UNCHANGED <<hides, meets, page, disk, run, task, fresh, pc, at, seen, own, held, answer, flying, outcome>>
  BY DEF vars, planVars, pageVars, runVars, readVars
<1>2. /\ Drawn(page)' <=> Drawn(page)
      /\ Drawn(disk)' <=> Drawn(disk)
      /\ Cleared(page)' <=> Cleared(page)
      /\ Cleared(disk)' <=> Cleared(disk)
      /\ Known(page)' <=> Known(page)
      /\ Discardable(held[run])' <=> Discardable(held[run])
      /\ Lone(held[run])' = Lone(held[run])
  BY <1>1, ClearedKept, HeldKept DEF Drawn, Whole, LinesLie, FlagsSingle, Known, PartsKnown
<1>3. \A c \in flying : MayFly(c)' <=> MayFly(c)
  BY <1>1 DEF MayFly
<1>4. \A c \in flying : IsWireWrite(c)' <=> IsWireWrite(c)
  BY DEF IsWireWrite
<1>5. fresh => EarlyPage' /\ PartsPage' /\ LinesPage' /\ HeldPage'
  BY <1>1 DEF FreshInv, EarlyPage, PartsPage, LinesPage, HeldPage, OwnNames, Landed, Named
<1>6. fresh => CutPage' /\ SavePage' /\ LastPage'
  BY <1>1, <1>2, <1>4 DEF FreshInv, CutPage, SavePage, LastPage
<1> QED  BY <1>1, <1>3, <1>5, <1>6 DEF FreshInv

LEMMA FreshStep == ASSUME TypeOK, Order, FreshInv, [Next]_vars  PROVE FreshInv'
BY StillFresh, BeginsFresh, CommandFresh, EditorFresh DEF Next

\* The inductive invariant holds of every reachable page and command: types, the order of the steps,
\* and, for a command that began with nothing under way, what its writes and readings vouch for.
THEOREM Invariance == Spec => []Inv
<1>1. Init => Inv
  BY TypeInit, OrderInit, FreshInit DEF Inv
<1>2. Inv /\ [Next]_vars => Inv'
  BY TypeStep, OrderStep, FreshStep DEF Inv
<1> QED  BY <1>1, <1>2, PTL DEF Spec

\* What the commands say when they succeed is so, for any number of commands, of parts, of wires
\* and of flags, whatever earlier commands have left on the page (_draw_apply_flow's read-backs
\* and its count of flags, _cmd_draw_discard's read-back).
THEOREM LastWordTheorem == Spec => []LastWordIsTrue
<1>1. Inv => LastWordIsTrue
  BY DEF Inv, FreshInv, LastPage, LastWordIsTrue
<1> QED  BY <1>1, Invariance, PTL

\* After exit 2 of either command what has a designator of the plan is in that part's place with
\* its value, and no flag lies on another one (_draw_apply_flow counts the flags before it saves):
\* of the legs of discard_selection only the wires' can then refuse, for a wire that the host has
\* joined to another one.
OnlyWiresRefuse ==
  (run \in Runs /\ pc = "idle" /\ fresh /\ outcome = "failed") =>
    PartsKnown(page) /\ FlagsSingle(page)

\* It holds for any plan and any number of commands.
THEOREM OnlyWiresTheorem == Spec => []OnlyWiresRefuse
<1>1. Inv => OnlyWiresRefuse
  BY DEF Inv, FreshInv, LastPage, Known, OnlyWiresRefuse
<1> QED  BY <1>1, Invariance, PTL

\* Half a drawing is never saved: a save is sent for a page that was read whole, or clean, and
\* nothing but wires the host is late with can come before it lands.
THEOREM HalfTheorem == Spec => HalfIsNeverSaved
<1>1. ASSUME Inv, [Next]_vars  PROVE disk' # disk /\ fresh => Drawn(disk') \/ Cleared(disk')
  <2> SUFFICES ASSUME disk' # disk, fresh  PROVE Drawn(disk') \/ Cleared(disk')
    OBVIOUS
  <2>1. \E c \in flying : c.what = "save" /\ disk' = page
    BY <1>1 DEF Next, vars, pageVars, Begins, Killed, ChecksFocus, HearsSave, Apply, Discard,
       ReadsPage, Probes, ReadsPool, HearsPlace, ReadsWhetherPlaced, FindsIds, WritesValue,
       HearsValue, ReadsText, HearsHide, ReadsTextBack, ChecksParts, HearsLine, Verifies, Judges,
       Selects, HearsCut, ReadsBack, PlacesNext, ValuesNext, CutsFrom, Ends, Goes, Sends, Lands,
       Fails, Effect
  <2>2. Drawn(page) \/ Cleared(page)
    BY <1>1, <2>1 DEF Inv, FreshInv, SavePage
  <2> QED  BY <2>1, <2>2
<1>2. Inv /\ [Next]_vars => [disk' # disk /\ fresh => Drawn(disk') \/ Cleared(disk')]_vars
  BY <1>1
<1> QED  BY <1>2, Invariance, PTL DEF HalfIsNeverSaved, Spec

------------------------------------------------------------------------------
(* What a command leaves that did not begin to write. *)

Untouched == {"refused", "already", "nothing"}

\* Neither the page nor the writes under way have anything of command r.
NothingOf(r) ==
  /\ \A i \in Parts : page.name[<<r, i>>] = 0
  /\ \A l \in Lines : <<r, l>> \notin page.lines
  /\ \A c \in flying : c.run # r

\* Before its first write a command has drawn nothing, and what earlier ones write back or delete
\* by is from before it began.
BeforeIt ==
  /\ run \in Runs /\ (pc \in Early \/ (pc = "idle" /\ outcome \in Untouched)) => NothingOf(run)
  /\ \A r \in Runs : /\ \A p \in PartIds : held[r].name[p] # 0 => p[1] <= r
                     /\ \A x \in held[r].lines : x[1] <= r

LEMMA BeforeInit == Init => BeforeIt
<1> SUFFICES ASSUME Init  PROVE BeforeIt
  OBVIOUS
<1>1. run \notin Runs /\ \A r \in Runs : held[r] = EmptyPage
  BY DEF Init, Runs
<1> QED  BY <1>1 DEF BeforeIt, EmptyPage

\* A step of the command: where it can end with nothing written, it has sent nothing.
LEMMA CommandSends ==
  ASSUME TypeOK, Order, Apply \/ Discard \/ Killed \/ ChecksFocus \/ HearsSave
  PROVE  /\ run \in Runs /\ UNCHANGED <<page, run>>
         /\ \A r \in Runs : held'[r] \in {held[r], EmptyPage} \/ (r = run /\ held'[r] = page)
         /\ pc' \in Early \/ (pc' = "idle" /\ outcome' \in Untouched) =>
              pc \in Early /\ flying' = flying
<1> USE DEF readVars, pageVars, runVars
<1> DEFINE Done == /\ run \in Runs /\ UNCHANGED <<page, run>>
                   /\ \A r \in Runs :
                        held'[r] \in {held[r], EmptyPage} \/ (r = run /\ held'[r] = page)
                   /\ pc' \in Early \/ (pc' = "idle" /\ outcome' \in Untouched) =>
                        pc \in Early /\ flying' = flying
<1>0. pc # "idle" => run \in Runs
  BY DEF TypeOK
<1>1. ASSUME pc # "idle", NEW o, Ends(o), o \in Untouched => pc \in Early
      PROVE  Done
  BY <1>0, <1>1 DEF Ends, Early
<1>2. ASSUME pc # "idle", NEW s, Goes(s), s \in Early => pc \in Early, s # "idle"
      PROVE  Done
  BY <1>0, <1>2 DEF Goes
<1>3. ASSUME pc # "idle", NEW what \in Kinds, NEW i, NEW of, Sends(what, i, of),
             held' = held \/ held' = [held EXCEPT ![run] = page]
      PROVE  Done
  BY <1>0, <1>3 DEF Sends, Kinds, Early, TypeOK
<1>4. ASSUME pc # "idle", UNCHANGED <<page, run, flying>>,
             held' = held \/ held' = [held EXCEPT ![run] = page],
             pc' \notin Early \cup {"idle"} \/ (pc' = "probe" /\ pc = "guard")
      PROVE  Done
  BY <1>0, <1>4 DEF Early, TypeOK
<1> SUFFICES Done
  OBVIOUS
<1> HIDE DEF Done
<1>5. CASE Killed \/ ChecksFocus \/ HearsSave
  BY <1>1, <1>2, <1>5 DEF Killed, ChecksFocus, HearsSave, Early, Untouched
<1>6. CASE ReadsPage \/ Probes \/ ReadsPool
  BY <1>1, <1>2, <1>3, <1>4, <1>6 DEF ReadsPage, Probes, ReadsPool, Early, Kinds
<1>7. CASE HearsPlace \/ ReadsWhetherPlaced
  BY <1>1, <1>3, <1>4, <1>7 DEF HearsPlace, ReadsWhetherPlaced, PlacesNext, Early, Kinds, Untouched
<1>8. CASE FindsIds \/ WritesValue \/ HearsValue
  BY <1>3, <1>4, <1>8 DEF FindsIds, WritesValue, HearsValue, ValuesNext, Early, Kinds
<1>9. CASE ReadsText \/ HearsHide \/ ReadsTextBack \/ ChecksParts
  BY <1>1, <1>2, <1>3, <1>9
  DEF ReadsText, HearsHide, ReadsTextBack, ChecksParts, Early, Kinds, Untouched
<1>10. CASE HearsLine \/ Verifies \/ Judges
  BY <1>1, <1>2, <1>3, <1>4, <1>10 DEF HearsLine, Verifies, Judges, Early, Kinds, Untouched
<1>11. ASSUME pc # "idle", NEW k, NEW pg, CutsFrom(k, pg),
              held' = held \/ held' = [held EXCEPT ![run] = page]
       PROVE  Done
  BY <1>3, <1>4, <1>11 DEF CutsFrom, Early, Kinds
<1>12. CASE Discard
  BY <1>1, <1>3, <1>11, <1>12 DEF Discard, Selects, HearsCut, ReadsBack, Early, Kinds, Untouched
<1> QED  BY <1>5, <1>6, <1>7, <1>8, <1>9, <1>10, <1>12 DEF Apply

\* What a write can add to the page: one item of its own, or what the page had when it was read.
LEMMA WriteAdds ==
  ASSUME TypeOK, NEW c \in flying, Lands(c) \/ Fails(c)
  PROVE  /\ c \in Writes /\ UNCHANGED <<run, pc, outcome, held>> /\ flying' \subseteq flying
         /\ \A p \in PartIds : page'.name[p] # 0 =>
              page.name[p] # 0 \/ p[1] = c.run \/ held[c.run].name[p] # 0
         /\ \A x \in page'.lines : x \in page.lines \/ x[1] = c.run \/ x \in held[c.run].lines
<1>0. c \in Writes /\ UNCHANGED <<run, pc, outcome, held>> /\ flying' \subseteq flying
  BY DEF TypeOK, Lands, Fails, Over, runVars, readVars
<1> DEFINE Added == /\ \A p \in PartIds : page'.name[p] # 0 =>
                         page.name[p] # 0 \/ p[1] = c.run \/ held[c.run].name[p] # 0
                    /\ \A x \in page'.lines :
                         x \in page.lines \/ x[1] = c.run \/ x \in held[c.run].lines
<1> SUFFICES Added
  BY <1>0
<1>1. CASE UNCHANGED page
  BY <1>1
<1>2. ASSUME NEW names, c.what = "place", Puts(c, names)  PROVE Added
  <2>1. <<c.run, c.item>> \in PartIds
    BY <1>0, <1>2, WriteShape DEF PartIds
  <2>2. /\ page'.lines = page.lines
        /\ \A p \in PartIds : p # <<c.run, c.item>> => page'.name[p] = page.name[p]
    BY <1>2, <2>1 DEF Puts, TypeOK, Pages
  <2> QED  BY <2>2
<1>3. ASSUME NEW k, NEW ids, Removes(k, ids)  PROVE Added
  BY <1>3, RemovesShape DEF TypeOK
<1>4. CASE page' = [page EXCEPT !.valued = @ \cup {c.of}]
  BY <1>4 DEF TypeOK, Pages
<1>5. CASE page' = [held[c.run] EXCEPT !.shut = TRUE]
  BY <1>0, <1>5, WriteShape DEF TypeOK, Pages
<1>6. CASE c.what = "line" /\ Draws(c)
  BY <1>6 DEF Draws, TypeOK, Pages
<1> HIDE DEF Added
<1> QED  BY <1>1, <1>2, <1>3, <1>4, <1>5, <1>6 DEF Lands, Fails, Effect, pageVars

LEMMA BeforeStep == ASSUME TypeOK, Order, BeforeIt, [Next]_vars  PROVE BeforeIt'
<1>0. Runs \subseteq Nat
  BY DEF Runs
<1>1. CASE Begins
  <2>1. run \in Nat /\ run' = run + 1 /\ UNCHANGED <<page, held, flying>>
    BY <1>1 DEF Begins, TypeOK, Runs, pageVars, readVars
  <2>2. /\ \A p \in PartIds : page.name[p] # 0 => p[1] <= run
        /\ \A x \in page.lines : x[1] <= run
        /\ \A c \in flying : c.run <= run
    BY DEF Order, Tidy
  <2>3. ~(run' <= run)
    BY <2>1
  <2>4. run' \in Runs => NothingOf(run')
    BY <2>2, <2>3 DEF NothingOf, PartIds
  <2> QED  BY <2>1, <2>4 DEF BeforeIt, NothingOf
<1>2. CASE Apply \/ Discard \/ Killed \/ ChecksFocus \/ HearsSave
  <2>1. \A r \in Runs : /\ \A p \in PartIds : held'[r].name[p] # 0 => p[1] <= r
                        /\ \A x \in held'[r].lines : x[1] <= r
    BY <1>2, CommandSends DEF BeforeIt, Order, Tidy, EmptyPage
  <2> QED  BY <1>2, <2>1, CommandSends DEF BeforeIt, NothingOf
<1>3. ASSUME NEW c \in flying, Lands(c) \/ Fails(c)  PROVE BeforeIt'
  <2>1. c \in Writes /\ UNCHANGED <<run, pc, outcome, held>> /\ flying' \subseteq flying
    BY <1>3, WriteAdds
  <2>2. ASSUME run \in Runs, NothingOf(run)  PROVE NothingOf(run)'
    <3>1. c.run \in Runs
      BY <2>1, WriteShape
    <3>2. c.run # run /\ c.run <= run
      BY <2>2 DEF NothingOf, Order
    <3>3. ~(run <= c.run)
      <4>1. run \in Nat /\ c.run \in Nat
        BY <1>0, <2>2, <3>1
      <4> QED  BY <3>2, <4>1
    <3>4. /\ \A p \in PartIds : held[c.run].name[p] # 0 => p[1] <= c.run
          /\ \A x \in held[c.run].lines : x[1] <= c.run
      BY <3>1 DEF BeforeIt
    <3>5. \A p \in PartIds : p[1] = run => held[c.run].name[p] = 0
      BY <3>3, <3>4
    <3>6. \A l \in Lines : <<run, l>> \notin held[c.run].lines
      BY <3>3, <3>4
    <3>7. \A i \in Parts : <<run, i>> \in PartIds
      BY <2>2 DEF PartIds
    <3>8. \A i \in Parts : page'.name[<<run, i>>] = 0
      BY <1>3, <2>2, <3>2, <3>5, <3>7, WriteAdds DEF NothingOf
    <3>9. \A l \in Lines : <<run, l>> \notin page'.lines
      BY <1>3, <2>2, <3>2, <3>6, WriteAdds DEF NothingOf
    <3> QED  BY <2>1, <2>2, <3>8, <3>9 DEF NothingOf
  <2> QED  BY <2>1, <2>2 DEF BeforeIt
<1>4. CASE UNCHANGED vars
  BY <1>4 DEF vars, pageVars, runVars, readVars, BeforeIt, NothingOf
<1> QED  BY <1>1, <1>2, <1>3, <1>4 DEF Next

\* A command that refuses, or finds nothing to do, has drawn nothing and has nothing under way: of
\* what it could draw nothing is on the page, whatever was late, lost or written back by earlier
\* commands (exit 4 of _draw_apply_flow and of _cmd_draw_discard: nothing was written).
RefusedTouchesNothing ==
  run \in Runs /\ pc = "idle" /\ outcome \in Untouched => NothingOf(run)

\* It holds for any number of commands, parts, wires and flags.
THEOREM RefusedTheorem == Spec => []RefusedTouchesNothing
<1>1. Inv => TypeOK /\ Order
  BY DEF Inv
<1>2. BeforeIt => RefusedTouchesNothing
  BY DEF BeforeIt, RefusedTouchesNothing
<1> QED  BY <1>1, <1>2, BeforeInit, BeforeStep, Invariance, PTL DEF Spec

\* The outcomes after which nothing is under way.
Quieted == Untouched \cup {"discarded", "cleared"}

\* After a command that was settled so, the next one begins with nothing under way: the proviso of
\* LastWordIsTrue, HalfIsNeverSaved and OthersAreLeftAlone carries over from command to command
\* until one of them ends in doubt, is killed, stops at a part, or has drawn wires that the host is
\* late with.
SettledHandsOver == [][Begins /\ fresh /\ outcome \in Quieted => fresh']_vars

\* No write of a settled command is under way.
LEMMA SettledIsQuiet ==
  ASSUME Inv, BeforeIt, fresh, pc = "idle", outcome \in Quieted
  PROVE  flying = {}
<1>1. CASE outcome = "refused"
  <2>1. run \in Runs
    BY <1>1 DEF Inv, TypeOK, Order
  <2>2. \A c \in flying : c.run # run
    BY <1>1, <2>1 DEF BeforeIt, NothingOf, Untouched
  <2>3. \A c \in flying : c.run = run
    BY Flights DEF Inv
  <2> QED  BY <2>2, <2>3
<1> QED  BY <1>1 DEF Inv, FreshInv, LastPage, Quieted, Untouched

\* It holds for any number of commands, parts, wires and flags.
THEOREM HandOverTheorem == Spec => SettledHandsOver
<1>1. Inv => TypeOK /\ Order
  BY DEF Inv
<1>2. Inv /\ BeforeIt => (Begins /\ fresh /\ outcome \in Quieted => fresh')
  BY SettledIsQuiet DEF Begins
<1>3. Inv /\ BeforeIt /\ [Next]_vars => [Begins /\ fresh /\ outcome \in Quieted => fresh']_vars
  BY <1>2
<1> QED
  BY <1>1, <1>3, BeforeInit, BeforeStep, Invariance, PTL DEF Spec, SettledHandsOver

------------------------------------------------------------------------------
(* Somebody else's wires. *)

\* A document that is written back has them all, and the ids that are deleted are of a reading of
\* all the lines that are on the page.
TheirsKept ==
  fresh => \A c \in flying :
    /\ c.what = "hide" => held[run].lines \cap Theirs = page.lines \cap Theirs
    /\ c.what = "cut" => task = "discard" /\ page.lines \subseteq held[run].lines
    /\ c.what = "line" => task = "apply"

LEMMA FlowTheirs ==
  ASSUME TheirsKept, UNCHANGED <<page, run, task, fresh>>,
         \A c \in flying' : c \notin flying =>
           (c.what = "line" => task = "apply") /\ (c.what = "cut" => task = "discard"),
         \/ held'[run] = page
         \/ fresh => \A c \in flying' : c.what \in {"hide", "cut"} =>
              /\ held'[run] = held[run]
              /\ c \in flying \/ (c.what = "cut" /\ page.lines \subseteq held[run].lines)
  PROVE  TheirsKept'
BY DEF TheirsKept

LEMMA CommandTheirs ==
  ASSUME Inv, TheirsKept, Apply \/ Discard \/ Killed \/ ChecksFocus \/ HearsSave
  PROVE  TheirsKept'
<1> USE DEF readVars, pageVars, runVars
<1>0. TypeOK /\ Order /\ FreshInv /\ (pc # "idle" => run \in Runs)
  BY DEF Inv, TypeOK
<1>1. ASSUME NEW o, Ends(o)  PROVE TheirsKept'
  <2>1. ASSUME fresh, NEW c \in flying, c.what \in {"hide", "cut"}  PROVE held'[run] = held[run]
    <3>1. c.run = run /\ run \in Runs
      BY <1>0, <2>1, Flights, WriteShape
    <3> QED  BY <1>1, <2>1, <3>1 DEF Ends
  <2>2. UNCHANGED <<page, run, task, fresh, flying>>
    BY <1>1 DEF Ends
  <2> QED  BY <2>1, <2>2, FlowTheirs
<1>2. ASSUME UNCHANGED <<page, run, task, fresh, held, flying>>  PROVE TheirsKept'
  BY <1>2, FlowTheirs
<1>3. ASSUME NEW what \in Kinds, NEW i, NEW of, Sends(what, i, of), pc # "idle",
             what = "line" => task = "apply",
             what = "cut" => task = "discard",
             \/ held' = [held EXCEPT ![run] = page]
             \/ held' = held /\ what # "hide" /\ (what = "cut" => pc = "cut")
      PROVE  TheirsKept'
  <2>1. /\ UNCHANGED <<page, run, task, fresh>>
        /\ \A c \in flying' : c \in flying \/ c.what = what
    BY <1>3 DEF Sends
  <2>2. CASE held' = [held EXCEPT ![run] = page]
    <3>1. held'[run] = page
      BY <1>0, <1>3, <2>2 DEF TypeOK
    <3> QED  BY <1>3, <2>1, <3>1, FlowTheirs
  <2>3. CASE held' = held /\ what # "hide" /\ (what = "cut" => pc = "cut")
    <3>1. fresh /\ what = "cut" => page.lines \subseteq held[run].lines
      BY <1>0, <2>3 DEF FreshInv, CutPage
    <3> QED  BY <1>3, <2>1, <2>3, <3>1, FlowTheirs
  <2> QED  BY <1>3, <2>2, <2>3
<1>4. pc \in {"check", "line"} => task = "apply"
  BY <1>0 DEF Order, Landing, Lining
<1>5. CASE Killed \/ ChecksFocus \/ HearsSave
  BY <1>1, <1>2, <1>5 DEF Killed, ChecksFocus, HearsSave, Goes
<1>6. CASE ReadsPage \/ Probes \/ ReadsPool
  BY <1>1, <1>2, <1>3, <1>6 DEF ReadsPage, Probes, ReadsPool, Goes, Kinds
<1>7. CASE HearsPlace \/ ReadsWhetherPlaced
  BY <1>1, <1>2, <1>3, <1>7 DEF HearsPlace, ReadsWhetherPlaced, PlacesNext, Kinds
<1>8. CASE FindsIds \/ WritesValue \/ HearsValue
  BY <1>2, <1>3, <1>8 DEF FindsIds, WritesValue, HearsValue, ValuesNext, Kinds
<1>9. CASE ReadsText \/ HearsHide \/ ReadsTextBack \/ ChecksParts
  BY <1>1, <1>2, <1>3, <1>4, <1>9 DEF ReadsText, HearsHide, ReadsTextBack, ChecksParts, Goes, Kinds
<1>10. CASE HearsLine \/ Verifies \/ Judges
  BY <1>1, <1>2, <1>3, <1>4, <1>10 DEF HearsLine, Verifies, Judges, Goes, Kinds
<1>11. ASSUME NEW k, NEW pg, CutsFrom(k, pg), pc # "idle", task = "discard",
              \/ held' = [held EXCEPT ![run] = page]
              \/ held' = held /\ pc = "cut"
       PROVE  TheirsKept'
  <2>1. CASE pc' = "back" /\ UNCHANGED <<planVars, pageVars, runVars, answer, flying, outcome>>
    <3>1. held' = held \/ held'[run] = page
      BY <1>0, <1>11 DEF TypeOK
    <3> QED  BY <2>1, <3>1, FlowTheirs
  <2> QED  BY <1>3, <1>11, <2>1 DEF CutsFrom, Kinds
<1>12. CASE Discard
  <2>1. task = "discard"
    BY <1>0, <1>12 DEF Order, Discard, Selects, HearsCut, ReadsBack
  <2> QED  BY <1>1, <1>3, <1>11, <1>12, <2>1 DEF Discard, Selects, HearsCut, ReadsBack, Kinds
<1> QED  BY <1>5, <1>6, <1>7, <1>8, <1>9, <1>10, <1>12 DEF Apply

\* A write of the command leaves them where they are.
LEMMA EditorTheirs ==
  ASSUME Inv, TheirsKept, fresh, NEW c \in flying, Lands(c) \/ Fails(c)
  PROVE  /\ page'.lines \cap Theirs = page.lines \cap Theirs
         /\ \A d \in flying : d.what = "cut" => page'.lines \subseteq held[run].lines
<1> DEFINE Left == /\ page'.lines \cap Theirs = page.lines \cap Theirs
                   /\ \A d \in flying : d.what = "cut" => page'.lines \subseteq held[run].lines
<1> SUFFICES Left
  OBVIOUS
<1>0. c \in Writes /\ c.run = run /\ run \in Runs /\ TypeOK /\ page \in Pages
  BY Flights, WriteShape DEF Inv, TypeOK
<1>1. CASE page'.lines = page.lines
  BY <1>1 DEF TheirsKept
<1>2. ASSUME NEW names, c.what = "place", Puts(c, names)  PROVE page'.lines = page.lines
  BY <1>0, <1>2 DEF Puts, Pages
<1>3. CASE c.what = "value" /\ page' = [page EXCEPT !.valued = @ \cup {c.of}]
  BY <1>0, <1>1, <1>3 DEF Pages
<1>4. CASE c.what = "hide" /\ page' = [held[c.run] EXCEPT !.shut = TRUE]
  <2>1. page'.lines = held[run].lines
    BY <1>0, <1>4 DEF TypeOK, Pages
  <2> QED  BY <1>4, <2>1 DEF TheirsKept
<1>5. CASE c.what = "line" /\ Draws(c)
  <2>1. \A d \in flying : d.what # "cut"
    BY <1>5 DEF TheirsKept
  <2>2. <<c.run, c.item>> \notin Theirs
    BY <1>0 DEF Theirs, Runs
  <2>3. page'.lines = (page.lines \ {x \in page.lines \ Theirs : IsWire(c.item) /\ x[2] = c.item})
                        \cup {<<c.run, c.item>>}
    BY <1>0, <1>5 DEF Draws, Pages
  <2> QED  BY <2>1, <2>2, <2>3
<1>6. ASSUME c.what = "cut", NEW ids \in SUBSET Targets(held[c.run], c.item), Removes(c.item, ids)
      PROVE  Left
  <2>1. page.lines \subseteq held[run].lines
    BY <1>6 DEF TheirsKept
  <2>2. CASE c.item = 3
    BY <1>0, <1>1, <1>6, <2>2, RemovesShape
  <2>3. CASE c.item # 3
    <3>1. /\ page'.lines \subseteq page.lines
          /\ page.lines \ Lone(held[run]) \subseteq page'.lines
      BY <1>0, <1>6, <2>1, <2>3, LinesCut
    <3>2. Lone(held[run]) \cap Theirs = {}
      BY DEF Lone
    <3> QED  BY <2>1, <3>1, <3>2
  <2> QED  BY <2>2, <2>3
<1> HIDE DEF Left
<1> QED  BY <1>1, <1>2, <1>3, <1>4, <1>5, <1>6 DEF Lands, Fails, Effect, pageVars

LEMMA TheirsStep ==
  ASSUME Inv, TheirsKept, [Next]_vars
  PROVE  TheirsKept' /\ (fresh => page'.lines \cap Theirs = page.lines \cap Theirs)
<1>1. CASE Begins
  BY <1>1 DEF Begins, TheirsKept, pageVars
<1>2. CASE Apply \/ Discard \/ Killed \/ ChecksFocus \/ HearsSave
  BY <1>2, CommandTheirs, CommandSends DEF Inv
<1>3. ASSUME NEW c \in flying, Lands(c) \/ Fails(c)
      PROVE  TheirsKept' /\ (fresh => page'.lines \cap Theirs = page.lines \cap Theirs)
  <2>1. UNCHANGED <<run, task, fresh, held>> /\ flying' \subseteq flying
    BY <1>3 DEF Lands, Fails, Over, runVars, readVars
  <2> QED  BY <1>3, <2>1, EditorTheirs DEF TheirsKept
<1>4. CASE UNCHANGED vars
  BY <1>4 DEF TheirsKept, vars, pageVars, runVars, readVars
<1> QED  BY <1>1, <1>2, <1>3, <1>4 DEF Next

\* Neither command takes somebody else's wire off the page, merged with the plan's or not, for any
\* plan and any number of commands: discard deletes what is a primitive of its own in its reading,
\* nothing is joined to that while it deletes (discard_selection's mismatch, drawapply.py), and a
\* document is written back to the lines it was read with.
THEOREM OthersTheorem == Spec => OthersAreLeftAlone
<1>1. Init => TheirsKept
  BY DEF Init, TheirsKept
<1>2. Inv /\ TheirsKept /\ [Next]_vars =>
        [fresh => page'.lines \cap Theirs = page.lines \cap Theirs]_vars
  BY TheirsStep
<1>3. Inv /\ TheirsKept /\ [Next]_vars => TheirsKept'
  BY TheirsStep
<1> QED
  BY <1>1, <1>2, <1>3, Invariance, PTL DEF OthersAreLeftAlone, Spec

==============================================================================
