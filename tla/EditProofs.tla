----------------------------- MODULE EditProofs -----------------------------
(***************************************************************************)
(* Proofs about the apply flows, for any number of runs, of connections    *)
(* and of things the person does.                                          *)
(***************************************************************************)
EXTENDS EditApply, TLAPS

Early == {"focus", "read", "model"}

\* Somebody else has been at the page, or a run does not know what it did.
Asked == touched > 0 \/ \E r \in Runs : Unsure(r)

Excused == Asked \/ \E r \in Runs : part[r] = Unnumbered

\* Which steps belong to which flow, and what a run that has not come to its writes cannot have
\* done.
InStep ==
  /\ pc \in {"model", "doubt", "missed", "connect", "join", "range"} => kind = "add"
  /\ pc \in {"write", "save"} => conn = 1
  /\ \A r \in Runs : r > run \/ (r = run /\ pc # "idle") => outcome[r] = "none"

Fresh ==
  \A r \in Runs : r > run \/ (r = run /\ pc \in Early) =>
    part[r] = 0 /\ \A c \in flying : c[1] # r

\* A write in flight is the one the flow waits for, or somebody's who does not know.
Accounted(c) ==
  \/ Unsure(c[1])
  \/ kind = "add" /\ c[2] = "join"
  \/ kind = "add" /\ c[2] = "write" /\ Asked
  \/ pc \in {"write", "save"} /\ answer = "pending" /\ c = <<run, pc, 1>>
  \/ kind = "add" /\ pc = "doubt" /\ c = <<run, "write", 1>>

FlyingIsAccounted ==
  \A c \in flying :
    /\ c[2] # "join" => c[3] = 1
    /\ kind = "add" /\ c[2] = "write" => part[c[1]] = 0
    /\ Accounted(c)

\* The plan's designator is nobody else's once the run has looked for it.
NameIsFree ==
  kind = "add" /\ pc \notin Early \cup {"idle"} =>
    Asked \/ \A m \in Makers \ {run} : part[m] # Planned

\* Nobody but the person touches what is not the plan's.
HandsOff ==
  /\ kind = "value" => /\ part = [m \in Makers |-> 0]
                       /\ disk.part = [m \in Makers |-> 0]
  /\ touched = 0 => part[Hand] = 0

ControlInv == InStep /\ Fresh /\ FlyingIsAccounted /\ NameIsFree /\ HandsOff

\* No part of another run once the run has looked at the spot.
OneAtATime ==
  kind = "add" =>
    \/ Excused
    \/ /\ \A r, s \in Runs : OnPage(r) /\ OnPage(s) => r = s
       /\ pc = "model" /\ taken = {} => \A r \in Runs : ~OnPage(r)
       /\ pc \notin Early \cup {"idle"} => \A r \in Runs \ {run} : ~OnPage(r)

\* What is on the page, and on disk, when it is saved.
Vetted(parts, joins) ==
  \A r \in Runs : parts[r] # 0 => parts[r] = Planned /\ {r} \X Conns \subseteq joins

SavedIsVetted ==
  kind = "add" =>
    \/ Excused
    \/ Vetted(disk.part, disk.joined) /\ (pc = "save" => Vetted(part, joined))

Page == [value |-> value, part |-> part, joined |-> joined]

ZeroInv ==
  touched = 0 =>
    /\ pc \in {"save", "review"} => Achieved(Page)
    /\ pc \in {"range", "save"} => focus = "plan"
    /\ (pc = "save" /\ answer = "ok") \/ pc = "review" => Achieved(disk)
    /\ Achieved(disk) => Achieved(Page)
    /\ \A r \in Runs : /\ outcome[r] \in {"applied", "already"} => Achieved(Page)
                       /\ outcome[r] = "applied" => Achieved(disk)

------------------------------------------------------------------------------
(* Type correctness. *)

\* The flow itself writes nothing.
LEMMA FlowKeepsPage == Flow => UNCHANGED <<kind, editorVars>>
BY DEF Flow, Begins, Killed, ChecksFocus, ReadsPage, ReadsValue, ReadsParts, ReadsModel, HearsWrite,
       ReadsWhetherPlaced, Connects, HearsJoin, ReadsBack, ReadsRange, HearsSave, Reviews,
       Ends, Goes, Sends

LEMMA TypeInit == Init => TypeOK
BY EditAssumption DEF Init, TypeOK, Makers, Steps, Waiting, Conns, Outcomes, Values

LEMMA EndsTypes ==
  ASSUME TypeOK, run \in Runs, NEW o \in Outcomes, Ends(o)
  PROVE  TypeOK'
<1> USE DEF editorVars, pageVars
<1>1. outcome' \in [Runs -> Outcomes]
  BY DEF TypeOK, Ends
<1>2. 1 \in Conns
  BY EditAssumption DEF Conns
<1> QED  BY <1>1, <1>2 DEF TypeOK, Ends, Steps

LEMMA GoesTypes ==
  ASSUME TypeOK, run \in Runs, NEW s \in Steps, Goes(s)
  PROVE  TypeOK'
BY DEF TypeOK, Goes, editorVars, pageVars, readVars, callVars

LEMMA SendsTypes ==
  ASSUME TypeOK, run \in Runs, NEW what \in Waiting, NEW k \in Conns, Sends(what, k),
         taken' = taken, base' \subseteq Names
  PROVE  TypeOK'
<1> USE DEF editorVars, pageVars
<1>1. <<run, what, k>> \in Writes
  BY DEF Writes, Waiting
<1> QED  BY <1>1 DEF TypeOK, Sends, Steps

\* A flow step that sends nothing and ends nothing.
LEMMA StepTypes ==
  ASSUME TypeOK, UNCHANGED <<kind, editorVars, outcome, callVars>>, run' \in Runs, pc' \in Steps,
         taken' \subseteq {"designator", "spot"}, base' = base,
         mine' \in [Runs -> Makers], conn' \in Conns
  PROVE  TypeOK'
BY DEF TypeOK, editorVars, pageVars, callVars

LEMMA FlowTypes == ASSUME TypeOK, Flow  PROVE TypeOK'
<1> USE DEF Steps, Waiting, Outcomes
<1>0. pc # "idle" => run \in Runs
  BY DEF TypeOK
<1>0a. 1 \in Conns /\ NamesOn \subseteq Names
  BY EditAssumption DEF Conns, NamesOn
<1>1. CASE Begins
  <2>1. run' \in Runs
    BY <1>1, EditAssumption DEF TypeOK, Begins, Runs
  <2> QED  BY <1>1, <2>1, StepTypes DEF TypeOK, Begins, readVars
<1>2. CASE Killed
  BY <1>0, <1>2, EndsTypes DEF Killed
<1>3. CASE ChecksFocus
  BY <1>0, <1>3, EndsTypes, GoesTypes DEF ChecksFocus
<1>4. CASE ReadsPage
  BY <1>0, <1>4, EndsTypes DEF ReadsPage
<1>5. CASE ReadsValue
  <2>1. base \subseteq Names
    BY DEF TypeOK
  <2> QED  BY <1>0, <1>0a, <1>5, <2>1, EndsTypes, SendsTypes DEF ReadsValue
<1>6. CASE ReadsParts
  BY <1>0, <1>6, StepTypes DEF ReadsParts, TypeOK
<1>7. CASE ReadsModel
  BY <1>0, <1>0a, <1>7, EndsTypes, SendsTypes DEF ReadsModel
<1>8. CASE HearsWrite
  <2>1. CASE pc' = "connect" /\ conn' = 1 /\ mine' = [mine EXCEPT ![run] = run]
             /\ UNCHANGED <<kind, editorVars, run, taken, base, callVars, outcome>>
    <3>1. mine' \in [Runs -> Makers] /\ run' \in Runs
      BY <1>0, <1>8, <2>1 DEF TypeOK, HearsWrite, Makers
    <3> QED  BY <1>0a, <2>1, <3>1, StepTypes DEF TypeOK
  <2> QED  BY <1>0, <1>8, <2>1, EndsTypes, GoesTypes DEF HearsWrite
<1>9. CASE ReadsWhetherPlaced
  <2>1. CASE pc' = "connect"
    <3>1. mine' \in [Runs -> Makers] /\ run' \in Runs
      BY <1>0, <1>9, <2>1 DEF TypeOK, ReadsWhetherPlaced, Ends
    <3> QED  BY <1>0a, <1>9, <2>1, <3>1, StepTypes DEF TypeOK, ReadsWhetherPlaced, Ends
  <2> QED  BY <1>0, <1>9, <2>1, EndsTypes DEF ReadsWhetherPlaced
<1>10. CASE Connects
  <2>1. base \subseteq Names /\ conn \in Conns
    BY DEF TypeOK
  <2> QED  BY <1>0, <1>10, <2>1, EndsTypes, SendsTypes DEF Connects
<1>11. CASE HearsJoin
  <2>1. CASE conn < MaxConns /\ conn' = conn + 1
             /\ UNCHANGED <<kind, editorVars, run, taken, base, mine, callVars, outcome>>
             /\ pc' = "connect"
    <3>1. conn' \in Conns
      BY <2>1, EditAssumption DEF TypeOK, Conns
    <3> QED  BY <1>0, <1>11, <2>1, <3>1, StepTypes DEF TypeOK, HearsJoin
  <2> QED  BY <1>0, <1>11, <2>1, GoesTypes DEF HearsJoin
<1>12. CASE ReadsBack
  <2>1. base \subseteq Names
    BY DEF TypeOK
  <2> QED  BY <1>0, <1>0a, <1>12, <2>1, EndsTypes, GoesTypes, SendsTypes DEF ReadsBack
<1>13. CASE ReadsRange
  <2>1. base \subseteq Names
    BY DEF TypeOK
  <2> QED  BY <1>0, <1>0a, <1>13, <2>1, EndsTypes, SendsTypes DEF ReadsRange
<1>14. CASE HearsSave
  BY <1>0, <1>14, EndsTypes, GoesTypes DEF HearsSave
<1>15. CASE Reviews
  BY <1>0, <1>15, EndsTypes DEF Reviews
<1> QED
  BY <1>1, <1>2, <1>3, <1>4, <1>5, <1>6, <1>7, <1>8, <1>9, <1>10, <1>11, <1>12, <1>13, <1>14, <1>15
     DEF Flow

\* What can happen to the page and to its copy.
LEMMA PutsTypes ==
  ASSUME TypeOK, NEW m \in Makers, NEW names \in SUBSET (Names \cup {Unnumbered}), Puts(m, names)
  PROVE  part' \in [Makers -> Names \cup {0, Unnumbered}] /\ UNCHANGED <<value, joined, disk>>
BY DEF TypeOK, Puts

LEMMA SavesTypes ==
  ASSUME TypeOK, Saves
  PROVE  /\ disk' \in [value : Values, part : [Makers -> Names \cup {0, Unnumbered}],
                       joined : SUBSET (Makers \X Conns)]
         /\ UNCHANGED pageVars
BY DEF TypeOK, Saves

LEMMA OverTypes ==
  ASSUME TypeOK, NEW c, NEW result \in {"ok", "error"}, Over(c, result)
  PROVE  flying' \subseteq Writes /\ answer' \in {"pending", "ok", "error"}
BY DEF TypeOK, Over

LEMMA EffectTypes ==
  ASSUME TypeOK, NEW c \in Writes, Effect(c) \/ Puts(c[1], {Unnumbered}) \/ UNCHANGED <<pageVars, disk>>
  PROVE  /\ value' \in Values
         /\ part' \in [Makers -> Names \cup {0, Unnumbered}]
         /\ joined' \subseteq Makers \X Conns
         /\ disk' \in [value : Values, part : [Makers -> Names \cup {0, Unnumbered}],
                       joined : SUBSET (Makers \X Conns)]
<1>1. c[1] \in Runs /\ c[1] \in Makers /\ c[3] \in Conns
  BY DEF Writes, Makers
<1>2. CASE Puts(c[1], {Unnumbered})
  BY <1>1, <1>2, PutsTypes DEF TypeOK
<1>3. CASE Puts(c[1], PlacedNames)
  <2>1. PlacedNames \in SUBSET (Names \cup {Unnumbered})
    BY EditAssumption DEF PlacedNames, Names, Planned
  <2> QED  BY <1>1, <1>3, <2>1, PutsTypes DEF TypeOK
<1>4. CASE Joins(c)
  BY <1>1, <1>4 DEF TypeOK, Joins
<1>5. CASE Saves
  BY <1>5, SavesTypes DEF TypeOK, pageVars
<1>6. CASE UNCHANGED <<pageVars, disk>> \/ (value' = "after" /\ UNCHANGED <<part, joined, disk>>)
  BY <1>6 DEF TypeOK, pageVars, Values
<1> QED  BY <1>2, <1>3, <1>4, <1>5, <1>6 DEF Effect

LEMMA WriteTypes == ASSUME TypeOK, NEW c \in Writes, Lands(c) \/ Fails(c)  PROVE TypeOK'
<1>1. /\ value' \in Values
      /\ part' \in [Makers -> Names \cup {0, Unnumbered}]
      /\ joined' \subseteq Makers \X Conns
      /\ disk' \in [value : Values, part : [Makers -> Names \cup {0, Unnumbered}],
                    joined : SUBSET (Makers \X Conns)]
  BY EffectTypes DEF Lands, Fails
<1>2. flying' \subseteq Writes /\ answer' \in {"pending", "ok", "error"}
  BY OverTypes DEF Lands, Fails
<1> QED  BY <1>1, <1>2 DEF TypeOK, Lands, Fails, readVars

LEMMA TouchesTypes == ASSUME TypeOK, Touches  PROVE TypeOK'
<1> USE DEF pageVars, readVars, callVars
<1>0. Hand \in Makers /\ Names \in SUBSET (Names \cup {Unnumbered}) /\ touched' \in 0..MaxTouches
  BY EditAssumption DEF Makers, TypeOK, Touches
<1>1. CASE Puts(Hand, Names) /\ UNCHANGED focus
  BY <1>0, <1>1, PutsTypes DEF TypeOK, Touches
<1>2. CASE Saves /\ UNCHANGED focus
  BY <1>0, <1>2, SavesTypes DEF TypeOK, Touches
<1>3. CASE \E m \in Makers : /\ part' = [part EXCEPT ![m] = 0]
                             /\ joined' = joined \ ({m} \X Conns)
                             /\ UNCHANGED <<focus, value, disk>>
  BY <1>0, <1>3 DEF TypeOK, Touches
<1>4. CASE joined' = joined \cup ({Hand} \X Conns) /\ UNCHANGED <<focus, value, part, disk>>
  BY <1>0, <1>4 DEF TypeOK, Touches
<1>5. CASE value' \in Values /\ UNCHANGED <<focus, part, joined, disk>>
  BY <1>0, <1>5 DEF TypeOK, Touches
<1>6. CASE focus' \in {"plan", "other"} /\ UNCHANGED <<pageVars, disk>>
  BY <1>0, <1>6 DEF TypeOK, Touches
<1> QED  BY <1>1, <1>2, <1>3, <1>4, <1>5, <1>6 DEF Touches

LEMMA TypeStep == TypeOK /\ [Next]_vars => TypeOK'
<1> SUFFICES ASSUME TypeOK, [Next]_vars  PROVE TypeOK'
  OBVIOUS
<1>1. CASE UNCHANGED vars
  BY <1>1 DEF TypeOK, vars, editorVars, pageVars, readVars, callVars
<1> QED  BY <1>1, FlowTypes, WriteTypes, TouchesTypes DEF Next

\* Every variable of the apply flows keeps its kind, for any number of runs, connections and
\* things the person does.
THEOREM TypeCorrect == Spec => []TypeOK
BY TypeInit, TypeStep, PTL DEF Spec

------------------------------------------------------------------------------
(* What the writes in flight can be. *)

\* How the steps of the flow move it.
LEMMA FlowMoves ==
  ASSUME InStep, Flow
  PROVE  \/ Begins
         \/ pc # "idle" /\ \E o \in Outcomes \ {"none"} :
              /\ Ends(o)
              /\ o = "applied" => pc = "review"
              /\ pc \in {"write", "save"} /\ answer = "pending" => o \in {"unknown", "killed"}
              /\ pc = "doubt" => o \in {"unknown", "killed"}
         \/ /\ pc \in {"read", "model", "connect", "back", "range"}
            /\ \/ kind = "value" /\ pc = "read" /\ Sends("write", 1)
               \/ kind = "add" /\ pc = "model" /\ Planned \notin NamesOn /\ taken = {} /\ Sends("write", 1)
               \/ pc = "connect" /\ Sends("join", conn)
               \/ pc \in {"back", "range"} /\ Sends("save", 1)
         \/ /\ pc # "idle" /\ UNCHANGED <<run, flying, outcome, answer>>
            /\ \/ pc = "focus" /\ pc' = "read"
               \/ kind = "add" /\ pc = "read" /\ pc' = "model"
               \/ pc = "write" /\ answer # "pending" /\ pc' = "back" /\ kind = "value"
               \/ pc = "write" /\ kind = "add" /\ answer # "pending" /\ pc' \in {"connect", "missed"}
               \/ pc = "write" /\ kind = "add" /\ pc' = "doubt"
               \/ pc \in {"doubt", "missed"} /\ Planned \in NamesOn /\ pc' = "connect"
               \/ pc = "join" /\ pc' \in {"connect", "back"}
               \/ pc = "back" /\ kind = "add" /\ pc' = "range"
               \/ pc = "save" /\ answer # "pending" /\ pc' = "review"
<1> USE DEF Outcomes, readVars, callVars
<1>1. CASE Begins \/ Killed \/ ChecksFocus \/ ReadsPage
  BY <1>1 DEF Begins, Killed, ChecksFocus, ReadsPage, Goes
<1>2. CASE ReadsValue
  BY <1>2 DEF ReadsValue
<1>3. CASE ReadsParts
  BY <1>3 DEF ReadsParts
<1>4. CASE ReadsModel
  BY <1>4 DEF ReadsModel, MayPlace, InStep
<1>5. CASE HearsWrite
  BY <1>5 DEF HearsWrite, Goes
<1>6. CASE ReadsWhetherPlaced
  BY <1>6 DEF ReadsWhetherPlaced, Visible
<1>7. CASE Connects
  BY <1>7 DEF Connects
<1>8. CASE HearsJoin
  BY <1>8 DEF HearsJoin, Goes
<1>9. CASE ReadsBack
  BY <1>9 DEF ReadsBack, Goes
<1>10. CASE ReadsRange
  BY <1>10 DEF ReadsRange
<1>11. CASE HearsSave
  BY <1>11 DEF HearsSave, Goes
<1>12. CASE Reviews
  BY <1>12 DEF Reviews
<1> QED
  BY <1>1, <1>2, <1>3, <1>4, <1>5, <1>6, <1>7, <1>8, <1>9, <1>10, <1>11, <1>12 DEF Flow

LEMMA InitControl == Init => ControlInv
BY EditAssumption DEF Init, ControlInv, InStep, Fresh, FlyingIsAccounted, NameIsFree, HandsOff, Early,
       Runs, Makers, Hand

\* What the editor and the person do to the page and its copy.
LEMMA PageMoves ==
  ASSUME TypeOK, NEW c \in Writes, Lands(c) \/ Fails(c)
  PROVE  /\ c \in flying /\ flying' = flying \ {c}
         /\ answer' \in {answer, "ok", "error"} /\ (c # <<run, pc, conn>> => answer' = answer)
         /\ c = <<run, pc, conn>> => answer' # "pending"
         /\ UNCHANGED <<kind, focus, touched, run, pc, readVars, outcome>>
         /\ \/ UNCHANGED part
            \/ /\ c[2] = "write" /\ kind = "add" /\ part[c[1]] = 0
               /\ \E n \in Names \cup {Unnumbered} : part' = [part EXCEPT ![c[1]] = n]
               /\ UNCHANGED disk
         /\ disk' = disk \/ (c[2] = "save" /\ UNCHANGED part /\ disk' = Page)
<1> USE DEF pageVars, OnPage
<1>1. c \in flying /\ flying' = flying \ {c} /\ UNCHANGED <<kind, focus, touched, run, pc, readVars, outcome>>
  BY DEF Lands, Fails, Over
<1>2. /\ answer' \in {answer, "ok", "error"} /\ (c # <<run, pc, conn>> => answer' = answer)
      /\ c = <<run, pc, conn>> => answer' # "pending"
  BY DEF Lands, Fails, Over, Awaited
<1>3. \/ UNCHANGED part
      \/ /\ c[2] = "write" /\ kind = "add" /\ part[c[1]] = 0
         /\ \E n \in Names \cup {Unnumbered} : part' = [part EXCEPT ![c[1]] = n]
         /\ UNCHANGED disk
  <2>1. CASE Fails(c)
    BY <2>1 DEF Fails, Puts
  <2>2. CASE Lands(c)
    <3>1. PlacedNames \subseteq Names
      BY EditAssumption DEF PlacedNames, Names, Planned
    <3> QED  BY <2>2, <3>1 DEF Lands, Effect, Puts, Joins, Saves
  <2> QED  BY <2>1, <2>2
<1>4. disk' = disk \/ (c[2] = "save" /\ UNCHANGED part /\ disk' = Page)
  BY DEF Lands, Fails, Effect, Puts, Joins, Saves, Page
<1> QED  BY <1>1, <1>2, <1>3, <1>4

LEMMA TouchMoves ==
  ASSUME TypeOK, Touches
  PROVE  /\ touched' > 0 /\ UNCHANGED <<kind, run, pc, readVars, callVars, outcome>>
         /\ kind = "value" => UNCHANGED part
         /\ \/ UNCHANGED part
            \/ /\ part[Hand] = 0
               /\ \E n \in Names : part' = [part EXCEPT ![Hand] = n]
            \/ \E m \in Makers : part' = [part EXCEPT ![m] = 0]
         /\ disk' = disk \/ (UNCHANGED part /\ disk' = Page)
<1> USE DEF pageVars, OnPage, Puts, Saves, Page
<1>1. touched' > 0
  BY EditAssumption DEF TypeOK, Touches
<1> QED  BY <1>1 DEF Touches

\* Asked stays so: no outcome is taken back.
LEMMA AskedStays ==
  ASSUME TypeOK, InStep, Asked, [Next]_vars
  PROVE  Asked'
<1>0. touched \in Nat /\ (pc # "idle" => run \in Runs /\ outcome[run] = "none")
  BY EditAssumption DEF TypeOK, InStep
<1>1. CASE Flow
  <2>1. touched' = touched
    BY <1>1, FlowKeepsPage DEF editorVars
  <2>2. \A r \in Runs : Unsure(r) => Unsure(r)'
    <3>1. outcome' = outcome \/ (pc # "idle" /\ \E o \in Outcomes : outcome' = [outcome EXCEPT ![run] = o])
      BY <1>1, FlowMoves DEF Begins, Ends, Sends
    <3> QED  BY <1>0, <3>1 DEF TypeOK, Unsure
  <2> QED  BY <2>1, <2>2 DEF Asked
<1>2. CASE \E c \in Writes : Lands(c) \/ Fails(c)
  BY <1>2, PageMoves DEF Asked, Unsure
<1>3. CASE Touches
  BY <1>3, TouchMoves DEF Asked
<1>4. CASE UNCHANGED vars
  BY <1>4 DEF vars, editorVars, Asked, Unsure
<1> QED  BY <1>1, <1>2, <1>3, <1>4 DEF Next

LEMMA InStepStep == ASSUME TypeOK, InStep, [Next]_vars  PROVE InStep'
<1>0. run \in Runs \cup {0} /\ (pc # "idle" => run \in Runs) /\ outcome \in [Runs -> Outcomes]
  BY DEF TypeOK
<1>1. CASE Flow
  <2>1. kind' = kind
    BY <1>1, FlowKeepsPage
  <2>2. CASE Begins
    <3>1. run' = run + 1 /\ \A r \in Runs : (r > run' \/ r = run') => r > run
      BY <1>0, <2>2, EditAssumption DEF Begins, Runs
    <3> QED  BY <2>2, <3>1 DEF Begins, InStep, readVars
  <2>3. CASE \E o \in Outcomes : Ends(o)
    <3>1. \A r \in Runs : r > run => r # run
      BY <1>0 DEF Runs
    <3> QED  BY <1>0, <2>1, <2>3, <3>1 DEF Ends, InStep
  <2>4. CASE \E w \in Waiting, k \in Conns : pc # "idle" /\ Sends(w, k) /\ (w # "join" => k = 1)
                                            /\ (w = "join" => kind = "add")
    BY <1>0, <2>1, <2>4 DEF Sends, InStep, Waiting
  <2>5. CASE /\ pc # "idle" /\ UNCHANGED <<run, outcome>>
             /\ pc' \notin {"write", "save"} /\ (pc' \in {"read", "back", "review", "focus", "idle"} \/ kind = "add")
    BY <1>0, <2>1, <2>5 DEF InStep
  <2>6. 1 \in Conns /\ conn \in Conns
    BY EditAssumption DEF Conns, TypeOK
  <2> QED  BY <1>1, <2>2, <2>3, <2>4, <2>5, <2>6, FlowMoves DEF InStep, Waiting
<1>2. CASE \E c \in Writes : Lands(c) \/ Fails(c)
  BY <1>2, PageMoves DEF InStep, readVars
<1>3. CASE Touches
  BY <1>3, TouchMoves DEF InStep, readVars
<1>4. CASE UNCHANGED vars
  BY <1>4 DEF vars, editorVars, readVars, InStep
<1> QED  BY <1>1, <1>2, <1>3, <1>4 DEF Next

\* What the flow adds to the writes in flight.
LEMMA FlowSends ==
  ASSUME InStep, Flow
  PROVE  \/ flying' = flying
         \/ /\ pc \notin {"idle", "write", "save", "doubt"} /\ run' = run /\ outcome' = outcome
            /\ answer' = "pending" /\ pc' \in {"write", "join", "save"} /\ conn' \in {1, conn}
            /\ pc' # "join" => conn' = 1
            /\ pc' = "join" => kind = "add"
            /\ pc' = "write" /\ kind = "add" => pc = "model"
            /\ flying' = flying \cup {<<run, pc', conn'>>}
<1>1. CASE Begins
  BY <1>1 DEF Begins, callVars
<1>2. CASE \E o \in Outcomes : Ends(o)
  BY <1>2 DEF Ends
<1>3. CASE \E k : Sends("write", k) \/ Sends("join", k) \/ Sends("save", k)
  BY <1>3, FlowMoves DEF Sends, InStep, Ends, Begins
<1> QED  BY <1>1, <1>2, <1>3, FlowMoves

LEMMA HandsOffStep == ASSUME TypeOK, HandsOff, [Next]_vars  PROVE HandsOff'
<1>1. CASE Flow
  BY <1>1, FlowKeepsPage DEF editorVars, pageVars, HandsOff
<1>2. ASSUME NEW c \in Writes, Lands(c) \/ Fails(c)  PROVE HandsOff'
  <2>1. c[1] \in Runs /\ c[1] # Hand
    BY DEF Writes, Runs, Hand
  <2>2. Hand \in Makers /\ touched' = touched /\ kind' = kind
    BY <1>2, PageMoves DEF Makers
  <2> QED  BY <1>2, <2>1, <2>2, PageMoves DEF HandsOff, Page, TypeOK
<1>3. CASE Touches
  BY <1>3, TouchMoves, EditAssumption DEF HandsOff, Page, TypeOK
<1>4. CASE UNCHANGED vars
  BY <1>4 DEF vars, editorVars, pageVars, HandsOff
<1> QED  BY <1>1, <1>2, <1>3, <1>4 DEF Next

LEMMA FreshStep == ASSUME TypeOK, InStep, Fresh, [Next]_vars  PROVE Fresh'
<1>0. run \in Runs \cup {0} /\ (pc # "idle" => run \in Runs) /\ Runs \subseteq Nat \ {0}
  BY DEF TypeOK, Runs
<1>1. CASE Flow
  <2>1. part' = part
    BY <1>1, FlowKeepsPage DEF editorVars, pageVars
  <2>2. \A r \in Runs : r > run' \/ (r = run' /\ pc' \in Early)
                          => r > run \/ (r = run /\ pc \in Early)
    <3>1. CASE Begins
      <4>1. \A r \in Runs : r > run + 1 \/ r = run + 1 => r > run
        BY <1>0
      <4> QED  BY <3>1, <4>1 DEF Begins
    <3>2. CASE run' = run /\ (pc' \in Early => pc \in Early)
      BY <3>2
    <3> QED  BY <1>1, <3>1, <3>2, FlowMoves DEF Ends, Sends, Early
  <2>3. \A c \in flying' : c \in flying \/ (c[1] = run /\ run' = run /\ pc' \notin Early)
    BY <1>1, FlowSends DEF Early
  <2>4. \A r \in Runs : r > run => r # run
    BY <1>0
  <2> QED  BY <2>1, <2>2, <2>3, <2>4 DEF Fresh
<1>2. ASSUME NEW c \in Writes, Lands(c) \/ Fails(c)  PROVE Fresh'
  <2>1. UNCHANGED <<run, pc>> /\ c \in flying /\ flying' \subseteq flying
    BY <1>2, PageMoves
  <2>2. \A r \in Runs : r # c[1] /\ part[r] = 0 => part'[r] = 0
    BY <1>2, PageMoves DEF TypeOK, Writes, Makers
  <2> QED  BY <2>1, <2>2 DEF Fresh
<1>3. CASE Touches
  <2>1. \A r \in Runs : part[r] = 0 => part'[r] = 0
    BY <1>3, TouchMoves DEF TypeOK, Makers, Hand, Runs
  <2> QED  BY <1>3, <2>1, TouchMoves DEF Fresh, callVars
<1>4. CASE UNCHANGED vars
  BY <1>4 DEF vars, editorVars, pageVars, callVars, Fresh
<1> QED  BY <1>1, <1>2, <1>3, <1>4 DEF Next

LEMMA NameIsFreeStep ==
  ASSUME TypeOK, InStep, FlyingIsAccounted, NameIsFree, Asked' \/ ~Asked, [Next]_vars
  PROVE  NameIsFree'
<1> USE DEF Early
<1>1. CASE Flow
  <2>1. part' = part /\ kind' = kind
    BY <1>1, FlowKeepsPage DEF editorVars, pageVars
  <2>2. pc' \notin Early \cup {"idle"} /\ kind = "add"
          => run' = run /\ (pc \notin Early \cup {"idle"} \/ Planned \notin NamesOn)
    BY <1>1, FlowMoves DEF Begins, Ends, Sends
  <2>3. Planned \notin NamesOn => \A m \in Makers : part[m] # Planned
    BY EditAssumption DEF NamesOn, Planned, Names
  <2> QED  BY <2>1, <2>2, <2>3 DEF NameIsFree
<1>2. ASSUME NEW c \in Writes, Lands(c) \/ Fails(c)  PROVE NameIsFree'
  <2>1. UNCHANGED <<run, pc, kind>> /\ c \in flying
    BY <1>2, PageMoves
  <2>2. CASE UNCHANGED part
    BY <2>1, <2>2 DEF NameIsFree
  <2>3. CASE c[1] = run
    <3>1. \A m \in Makers \ {run} : part'[m] = part[m]
      BY <1>2, <2>3, PageMoves DEF TypeOK
    <3> QED  BY <2>1, <3>1 DEF NameIsFree
  <2>4. CASE c[1] # run /\ c[2] = "write"
    <3>1. Asked
      BY <2>1, <2>4 DEF FlyingIsAccounted, Accounted, Asked, Writes
    <3> QED  BY <3>1 DEF NameIsFree
  <2> QED  BY <1>2, <2>2, <2>3, <2>4, PageMoves
<1>3. CASE Touches
  BY <1>3, TouchMoves DEF NameIsFree, Asked
<1>4. CASE UNCHANGED vars
  BY <1>4 DEF vars, editorVars, pageVars, NameIsFree
<1> QED  BY <1>1, <1>2, <1>3, <1>4 DEF Next

LEMMA AccountedStep ==
  ASSUME TypeOK, InStep, Fresh, FlyingIsAccounted, NameIsFree, Asked' \/ ~Asked, [Next]_vars
  PROVE  FlyingIsAccounted'
<1>0. \A c \in flying : c \in Writes
  BY DEF TypeOK
<1>1. CASE Flow
  <2>1. part' = part /\ kind' = kind
    BY <1>1, FlowKeepsPage DEF editorVars, pageVars
  <2>2. ASSUME NEW c \in flying', c \notin flying
        PROVE  /\ c[2] # "join" => c[3] = 1
               /\ kind' = "add" /\ c[2] = "write" => part'[c[1]] = 0
               /\ Accounted(c)'
    <3>1. /\ pc # "idle" /\ run' = run /\ answer' = "pending" /\ pc' \in {"write", "join", "save"}
          /\ pc' # "join" => conn' = 1
          /\ pc' = "join" => kind = "add"
          /\ pc' = "write" /\ kind = "add" => pc = "model"
          /\ c = <<run, pc', conn'>>
      BY <1>1, <2>2, FlowSends
    <3>2. pc = "model" => part[run] = 0
      BY DEF Fresh, Early, TypeOK
    <3>3. c[1] = run /\ c[2] = pc' /\ c[3] = conn'
      BY <3>1
    <3>4. CASE pc' = "join"
      BY <2>1, <3>1, <3>3, <3>4 DEF Accounted
    <3>5. CASE pc' # "join"
      BY <2>1, <3>1, <3>2, <3>3, <3>5 DEF Accounted
    <3> QED  BY <3>4, <3>5
  <2>3. ASSUME NEW c \in flying  PROVE Accounted(c)'
    <3>0. c[1] \in Runs /\ (Unsure(c[1]) => c[1] # run \/ pc = "idle")
      BY <1>0 DEF Writes, Unsure, InStep
    <3>1. CASE Begins
      <4>1. UNCHANGED <<flying, answer, outcome>> /\ pc = "idle"
        BY <3>1 DEF Begins, callVars
      <4> QED  BY <2>1, <4>1 DEF FlyingIsAccounted, Accounted, Unsure
    <3>2. CASE pc # "idle" /\ \E o \in Outcomes \ {"none"} :
                 /\ Ends(o)
                 /\ pc \in {"write", "save"} /\ answer = "pending" => o \in {"unknown", "killed"}
                 /\ pc = "doubt" => o \in {"unknown", "killed"}
      <4>1. PICK o \in Outcomes :
                 /\ Ends(o)
                 /\ pc \in {"write", "save"} /\ answer = "pending" => o \in {"unknown", "killed"}
                 /\ pc = "doubt" => o \in {"unknown", "killed"}
        BY <3>2
      <4>0. run \in Runs
        BY <3>2 DEF TypeOK
      <4>2. outcome' = [outcome EXCEPT ![run] = o]
        BY <4>1 DEF Ends
      <4>3. Unsure(c[1]) => Unsure(c[1])'
        BY <3>0, <3>2, <4>2 DEF TypeOK, Unsure
      <4>4. CASE c[1] = run /\ o \in {"unknown", "killed"}
        BY <4>0, <4>2, <4>4 DEF TypeOK, Accounted, Unsure
      <4>5. c = <<run, pc, 1>> \/ c = <<run, "write", 1>> => c[1] = run
        OBVIOUS
      <4>6. CASE ~(c[1] = run /\ o \in {"unknown", "killed"})
        <5>1. Unsure(c[1]) \/ (kind = "add" /\ (c[2] = "join" \/ (c[2] = "write" /\ Asked)))
          BY <4>1, <4>5, <4>6 DEF FlyingIsAccounted, Accounted
        <5> QED  BY <2>1, <4>3, <5>1 DEF Accounted
      <4> QED  BY <4>4, <4>6
    <3>3. CASE pc \notin {"write", "save", "doubt"} /\ outcome' = outcome
      BY <2>1, <3>3 DEF FlyingIsAccounted, Accounted, Unsure
    <3>4. CASE /\ UNCHANGED <<run, flying, outcome, answer>>
               /\ \/ pc \notin {"write", "save", "doubt"}
                  \/ answer # "pending" /\ pc # "doubt"
                  \/ pc = "write" /\ kind = "add" /\ pc' = "doubt"
      <4>1. pc \in {"write", "save"} /\ c = <<run, pc, 1>> => c[2] = pc
        OBVIOUS
      <4> QED  BY <2>1, <3>4, <4>1 DEF FlyingIsAccounted, Accounted, Unsure
    <3>5. CASE UNCHANGED <<run, flying, outcome, answer>> /\ pc = "doubt" /\ Planned \in NamesOn
      <4>1. c = <<run, "write", 1>> => Asked
        <5> SUFFICES ASSUME c = <<run, "write", 1>>  PROVE Asked
          OBVIOUS
        <5>1. kind = "add" /\ c[1] = run /\ c[2] = "write"
          BY <3>5 DEF InStep
        <5>2. part[run] = 0
          BY <5>1 DEF FlyingIsAccounted
        <5>3. PICK m \in Makers : part[m] = Planned
          BY <3>5 DEF NamesOn
        <5>4. m # run
          BY <5>2, <5>3 DEF Planned
        <5> QED  BY <3>5, <5>1, <5>3, <5>4 DEF NameIsFree, Early
      <4>2. c = <<run, "write", 1>> => c[2] = "write"
        OBVIOUS
      <4> QED  BY <2>1, <3>5, <4>1, <4>2 DEF FlyingIsAccounted, Accounted, Unsure
    <3> QED  BY <1>1, <3>1, <3>2, <3>3, <3>4, <3>5, FlowMoves DEF Sends
  <2> QED  BY <2>1, <2>2, <2>3 DEF FlyingIsAccounted
<1>2. ASSUME NEW d \in Writes, Lands(d) \/ Fails(d)  PROVE FlyingIsAccounted'
  <2>1. UNCHANGED <<kind, run, pc, conn, outcome>> /\ d \in flying /\ flying' = flying \ {d}
    BY <1>2, PageMoves DEF readVars
  <2>2. ASSUME NEW c \in flying'
        PROVE  kind = "add" /\ c[2] = "write" => part'[c[1]] = 0
    <3> SUFFICES ASSUME kind = "add", c[2] = "write"  PROVE part'[c[1]] = 0
      OBVIOUS
    <3>1. c \in flying /\ c # d /\ c[3] = 1 /\ part[c[1]] = 0 /\ c \in Writes
      BY <1>0, <2>1 DEF FlyingIsAccounted
    <3>2. d[2] = "write" => d[3] = 1
      BY <2>1 DEF FlyingIsAccounted
    <3>3. d[2] = "write" => c[1] # d[1]
      BY <3>1, <3>2 DEF Writes
    <3> QED  BY <1>2, <3>1, <3>3, PageMoves DEF TypeOK, Writes, Makers
  <2>3. ASSUME NEW c \in flying'  PROVE Accounted(c)'
    <3>1. c \in flying /\ c # d
      BY <2>1
    <3>2. pc \in {"write", "save"} /\ c = <<run, pc, 1>> => answer' = answer
      BY <1>2, <3>1, PageMoves DEF InStep
    <3> QED  BY <2>1, <3>1, <3>2 DEF FlyingIsAccounted, Accounted, Unsure
  <2> QED  BY <2>1, <2>2, <2>3 DEF FlyingIsAccounted
<1>3. CASE Touches
  <2>1. \A r \in Runs : part[r] = 0 => part'[r] = 0
    BY <1>3, TouchMoves DEF TypeOK, Makers, Hand, Runs
  <2>2. UNCHANGED <<kind, run, pc, outcome, flying, answer>>
    BY <1>3, TouchMoves DEF callVars
  <2> QED  BY <1>0, <2>1, <2>2 DEF FlyingIsAccounted, Accounted, Unsure, Writes
<1>4. CASE UNCHANGED vars
  BY <1>4 DEF vars, editorVars, pageVars, callVars, FlyingIsAccounted, Accounted, Unsure
<1> QED  BY <1>1, <1>2, <1>3, <1>4 DEF Next

LEMMA ControlStep == TypeOK /\ ControlInv /\ [Next]_vars => ControlInv'
<1> SUFFICES ASSUME TypeOK, ControlInv, [Next]_vars  PROVE ControlInv'
  OBVIOUS
<1>1. Asked' \/ ~Asked
  BY AskedStays DEF ControlInv
<1> QED
  BY <1>1, InStepStep, FreshStep, AccountedStep, NameIsFreeStep, HandsOffStep DEF ControlInv

\* What a run that is over has sent is over too, unless it does not know, for any number of runs
\* and whatever the person does (SettledRunWritesNoMore).
THEOREM SettledTheorem == Spec => []SettledRunWritesNoMore
<1>1. TypeOK /\ ControlInv => SettledRunWritesNoMore
  <2> SUFFICES ASSUME TypeOK, ControlInv, NEW c \in flying, ~Unsure(c[1]), ~(kind = "add" /\ c[2] = "join"),
                      ~(c[1] = run /\ pc # "idle")
               PROVE  kind = "add" /\ c[2] = "write" /\ (touched > 0 \/ \E r \in Runs \ {c[1]} : Unsure(r))
    BY DEF SettledRunWritesNoMore
  <2>1. pc \in {"write", "save"} => c # <<run, pc, 1>>
    OBVIOUS
  <2>2. pc = "doubt" => c # <<run, "write", 1>>
    OBVIOUS
  <2>3. kind = "add" /\ c[2] = "write" /\ Asked
    BY <2>1, <2>2 DEF ControlInv, FlyingIsAccounted, Accounted
  <2> QED  BY <2>3 DEF Asked
<1> QED  BY <1>1, TypeInit, TypeStep, InitControl, ControlStep, PTL DEF Spec

------------------------------------------------------------------------------
(* One part comes of it, and no accident is saved. *)

LEMMA ExcusedStays ==
  ASSUME TypeOK, ControlInv, Excused, [Next]_vars
  PROVE  Excused'
<1>1. CASE Asked
  BY <1>1, AskedStays DEF ControlInv, Excused
<1>2. ASSUME NEW r \in Runs, part[r] = Unnumbered  PROVE Excused'
  <2>1. CASE Flow
    BY <1>2, <2>1, FlowKeepsPage DEF editorVars, pageVars, Excused
  <2>2. ASSUME NEW c \in Writes, Lands(c) \/ Fails(c)  PROVE Excused'
    <3>1. part[r] # 0
      BY <1>2, EditAssumption DEF Unnumbered
    <3>2. part \in [Makers -> Names \cup {0, Unnumbered}] /\ c[1] \in Makers
      BY DEF TypeOK, Writes, Makers
    <3>3. part' = part \/ \E n : part[c[1]] = 0 /\ part' = [part EXCEPT ![c[1]] = n]
      BY <2>2, PageMoves
    <3>4. part'[r] = part[r]
      BY <3>1, <3>2, <3>3 DEF Makers
    <3> QED  BY <1>2, <3>4 DEF Excused
  <2>3. CASE Touches
    BY <2>3, TouchMoves DEF Excused, Asked
  <2>4. CASE UNCHANGED vars
    BY <1>2, <2>4 DEF vars, editorVars, pageVars, Excused
  <2> QED  BY <2>1, <2>2, <2>3, <2>4 DEF Next
<1> QED  BY <1>1, <1>2 DEF Excused

\* A part that comes without excuse is that of the run that waits for it.
LEMMA NewPart ==
  ASSUME TypeOK, ControlInv, kind = "add", ~Excused', ~Excused, NEW c \in Writes, Lands(c) \/ Fails(c)
  PROVE  \/ part' = part
         \/ /\ c[1] = run /\ c[2] = "write" /\ pc \in {"write", "doubt"}
            /\ \A r \in Runs \ {run} : part'[r] = part[r]
<1>1. c \in flying /\ outcome' = outcome /\ touched' = touched
  BY PageMoves
<1>2. CASE part' # part
  <2>1. c[2] = "write" /\ \A r \in Runs \ {c[1]} : part'[r] = part[r]
    BY <1>2, PageMoves DEF TypeOK, Makers
  <2>2. ~Unsure(c[1]) /\ ~Asked
    BY DEF Excused, Asked, Writes
  <2>3. c = <<run, pc, 1>> \/ c = <<run, "write", 1>> => c[1] = run
    OBVIOUS
  <2>4. c = <<run, pc, 1>> => c[2] = pc
    OBVIOUS
  <2>5. Accounted(c)
    BY <1>1 DEF ControlInv, FlyingIsAccounted
  <2>6. c[1] = run /\ pc \in {"write", "doubt"}
    BY <2>1, <2>2, <2>3, <2>4, <2>5 DEF Accounted
  <2> QED  BY <2>1, <2>6
<1> QED  BY <1>2

LEMMA OneAtATimeStep ==
  ASSUME TypeOK, ControlInv, OneAtATime, [Next]_vars
  PROVE  OneAtATime'
<1> USE DEF OnPage
<1>a. SUFFICES ASSUME kind = "add", kind' = "add", ~Excused'  PROVE OneAtATime'
  <2>1. kind' = kind
    BY FlowKeepsPage, PageMoves, TouchMoves DEF Next, vars
  <2> QED  BY <2>1 DEF OneAtATime
<1>b. ~Excused
  BY <1>a, ExcusedStays
<1>c. /\ \A r, s \in Runs : OnPage(r) /\ OnPage(s) => r = s
      /\ pc = "model" /\ taken = {} => \A r \in Runs : ~OnPage(r)
      /\ pc \notin Early \cup {"idle"} => \A r \in Runs \ {run} : ~OnPage(r)
  BY <1>a, <1>b DEF OneAtATime
<1>1. CASE Flow
  <2>1. part' = part
    BY <1>1, FlowKeepsPage DEF editorVars, pageVars
  <2>2. pc' = "model" /\ taken' = {} => \A r \in Runs : ~OnPage(r)
    <3> SUFFICES ASSUME pc' = "model", taken' = {}  PROVE \A r \in Runs : ~OnPage(r)
      OBVIOUS
    <3>1. ReadsParts
      BY <1>1 DEF Flow, Begins, Killed, ChecksFocus, ReadsPage, ReadsValue, ReadsModel, HearsWrite,
           ReadsWhetherPlaced, Connects, HearsJoin, ReadsBack, ReadsRange, HearsSave, Reviews,
           Ends, Goes, Sends
    <3>2. \A m \in Runs : part[m] \notin Names
      BY <3>1 DEF ReadsParts
    <3>3. \A m \in Runs : part[m] # Unnumbered
      BY <1>b DEF Excused
    <3> QED  BY <3>2, <3>3 DEF TypeOK, Makers
  <2>3. pc' \notin Early \cup {"idle"} => \A r \in Runs \ {run'} : ~OnPage(r)
    BY <1>a, <1>c, <1>1, FlowMoves DEF Early, Begins, Ends, Sends, ControlInv
  <2> QED  BY <1>c, <2>1, <2>2, <2>3 DEF OneAtATime
<1>2. ASSUME NEW c \in Writes, Lands(c) \/ Fails(c)  PROVE OneAtATime'
  <2>1. UNCHANGED <<kind, run, pc, taken>>
    BY <1>2, PageMoves DEF readVars
  <2>2. CASE part' = part
    BY <1>c, <2>1, <2>2 DEF OneAtATime
  <2>3. CASE pc \in {"write", "doubt"} /\ \A r \in Runs \ {run} : part'[r] = part[r]
    BY <1>c, <2>1, <2>3 DEF OneAtATime, Early
  <2> QED  BY <1>a, <1>b, <1>2, <2>2, <2>3, NewPart
<1>3. CASE Touches
  BY <1>a, <1>3, TouchMoves DEF Excused, Asked
<1>4. CASE UNCHANGED vars
  BY <1>c, <1>4 DEF vars, editorVars, pageVars, readVars, OneAtATime
<1> QED  BY <1>1, <1>2, <1>3, <1>4 DEF Next

LEMMA SavedIsVettedStep ==
  ASSUME TypeOK, ControlInv, OneAtATime, SavedIsVetted, [Next]_vars
  PROVE  SavedIsVetted'
<1>a. SUFFICES ASSUME kind = "add", kind' = "add", ~Excused'  PROVE SavedIsVetted'
  <2>1. kind' = kind
    BY FlowKeepsPage, PageMoves, TouchMoves DEF Next, vars
  <2> QED  BY <2>1 DEF SavedIsVetted
<1>b. ~Excused
  BY <1>a, ExcusedStays
<1>c. Vetted(disk.part, disk.joined) /\ (pc = "save" => Vetted(part, joined))
  BY <1>a, <1>b DEF SavedIsVetted
<1>1. CASE Flow
  <2>1. UNCHANGED <<part, joined, disk>>
    BY <1>1, FlowKeepsPage DEF editorVars, pageVars
  <2>2. pc' = "save" => Vetted(part, joined)
    <3> SUFFICES ASSUME pc' = "save"  PROVE Vetted(part, joined)
      OBVIOUS
    <3>1. ReadsRange
      BY <1>a, <1>1 DEF Flow, Begins, Killed, ChecksFocus, ReadsPage, ReadsValue, ReadsParts, ReadsModel,
           HearsWrite, ReadsWhetherPlaced, Connects, HearsJoin, ReadsBack, HearsSave, Reviews,
           Ends, Goes, Sends
    <3>2. PICK m \in Makers : part[m] = Planned /\ Connected(m)
      BY <3>1 DEF ReadsRange, Ends
    <3>3. pc = "range" /\ part[Hand] = 0 /\ run \in Runs
      BY <1>b, <3>1, EditAssumption DEF ReadsRange, Excused, Asked, ControlInv, HandsOff, TypeOK
    <3>4. m \in Runs
      BY <3>2, <3>3 DEF Planned, Makers
    <3>5. \A r \in Runs \ {run} : ~OnPage(r)
      BY <1>a, <1>b, <3>3 DEF OneAtATime, Early
    <3>6. m = run
      BY <3>2, <3>4, <3>5 DEF Connected
    <3>7. {run} \X Conns \subseteq joined
      BY <3>2, <3>6 DEF Connected
    <3> QED  BY <3>2, <3>5, <3>6, <3>7 DEF Vetted, OnPage
  <2> QED  BY <1>c, <2>1, <2>2 DEF SavedIsVetted
<1>2. ASSUME NEW c \in Writes, Lands(c) \/ Fails(c)  PROVE SavedIsVetted'
  <2>1. UNCHANGED <<kind, run, pc>> /\ c \in flying
    BY <1>2, PageMoves
  <2>2. pc = "save" => part' = part
    BY <1>a, <1>b, <1>2, NewPart
  <2>3. joined \subseteq joined'
    BY <1>2 DEF Lands, Fails, Effect, Puts, Joins, Saves, pageVars
  <2>4. pc = "save" => Vetted(part', joined')
    BY <1>c, <2>2, <2>3 DEF Vetted
  <2>5. c[2] = "save" => pc = "save"
    <3>1. ~Unsure(c[1]) /\ Accounted(c)
      BY <1>b, <2>1 DEF Excused, Asked, Writes, ControlInv, FlyingIsAccounted
    <3>2. c = <<run, pc, 1>> => c[2] = pc
      OBVIOUS
    <3>3. c = <<run, "write", 1>> => c[2] = "write"
      OBVIOUS
    <3> QED  BY <3>1, <3>2, <3>3 DEF Accounted
  <2>6. Vetted(disk'.part, disk'.joined)
    BY <1>2, <1>c, <2>5, PageMoves DEF Page
  <2> QED  BY <2>1, <2>4, <2>6 DEF SavedIsVetted
<1>3. CASE Touches
  BY <1>a, <1>3, TouchMoves DEF Excused, Asked
<1>4. CASE UNCHANGED vars
  BY <1>c, <1>4 DEF vars, editorVars, pageVars, SavedIsVetted
<1> QED  BY <1>1, <1>2, <1>3, <1>4 DEF Next

PartsInv == TypeOK /\ ControlInv /\ OneAtATime /\ SavedIsVetted

LEMMA PartsInvariant == Spec => []PartsInv
<1>1. Init => PartsInv
  <2> SUFFICES ASSUME Init  PROVE OneAtATime /\ SavedIsVetted
    BY TypeInit, InitControl DEF PartsInv
  <2>1. \A m \in Makers : part[m] = 0 /\ disk.part[m] = 0
    BY DEF Init
  <2> QED  BY <2>1 DEF Init, OneAtATime, SavedIsVetted, Vetted, OnPage, Early, Makers
<1>2. PartsInv /\ [Next]_vars => PartsInv'
  BY TypeStep, ControlStep, OneAtATimeStep, SavedIsVettedStep DEF PartsInv
<1> QED  BY <1>1, <1>2, PTL DEF Spec

\* However often the plan is run, the parts of two runs are on the page only if one of them did not
\* know what became of its own, or could not name it (DuplicateHasAReason).
THEOREM DuplicateTheorem == Spec => []DuplicateHasAReason
<1>1. PartsInv => DuplicateHasAReason
  <2> SUFFICES ASSUME PartsInv, touched = 0, ~\E r \in Runs : Unsure(r) \/ part[r] = Unnumbered,
                      NEW r \in Runs, NEW s \in Runs, OnPage(r), OnPage(s)
               PROVE  r = s
    BY DEF DuplicateHasAReason
  <2>1. ~Excused
    BY DEF Excused, Asked
  <2>2. kind = "add"
    BY DEF PartsInv, ControlInv, HandsOff, TypeOK, OnPage, Makers
  <2> QED  BY <2>1, <2>2 DEF PartsInv, OneAtATime
<1> QED  BY <1>1, PartsInvariant, PTL

\* What is saved of a run has the plan's designator and all its connections, with the same
\* exceptions (AccidentIsNotSaved).
THEOREM AccidentTheorem == Spec => []AccidentIsNotSaved
<1>1. PartsInv => AccidentIsNotSaved
  <2> SUFFICES ASSUME PartsInv, touched = 0, ~\E r \in Runs : Unsure(r) \/ part[r] = Unnumbered,
                      NEW r \in Runs, disk.part[r] # 0
               PROVE  disk.part[r] = Planned /\ {r} \X Conns \subseteq disk.joined
    BY DEF AccidentIsNotSaved
  <2>1. ~Excused
    BY DEF Excused, Asked
  <2>2. kind = "add"
    BY DEF PartsInv, ControlInv, HandsOff, TypeOK, Makers
  <2> QED  BY <2>1, <2>2 DEF PartsInv, SavedIsVetted, Vetted
<1> QED  BY <1>1, PartsInvariant, PTL

------------------------------------------------------------------------------
(* Exit 0. *)

\* A write takes nothing away from the page.
LEMMA PageStaysAchieved ==
  ASSUME TypeOK, Achieved(Page), NEW c \in Writes, Lands(c) \/ Fails(c)
  PROVE  Achieved(Page)'
<1> USE DEF Page
<1>1. kind' = kind /\ value' \in {value, "after"}
  BY DEF Lands, Fails, Effect, Puts, Joins, Saves, pageVars
<1>2. CASE kind = "value"
  BY <1>1, <1>2 DEF Achieved
<1>3. CASE kind # "value"
  <2>1. joined \subseteq joined'
    BY DEF Lands, Fails, Effect, Puts, Joins, Saves, pageVars
  <2>2. \A m \in Makers : part[m] # 0 => part'[m] # 0
    <3>1. part \in [Makers -> Names \cup {0, Unnumbered}]
      BY DEF TypeOK
    <3>2. part' = part \/ \E n : part[c[1]] = 0 /\ part' = [part EXCEPT ![c[1]] = n]
      BY PageMoves
    <3> QED  BY <3>1, <3>2
  <2> QED  BY <1>1, <1>3, <2>1, <2>2 DEF Achieved
<1> QED  BY <1>2, <1>3

\* What the flow has to have seen when it goes on.
LEMMA FlowSees ==
  ASSUME TypeOK, InStep, Flow
  PROVE  /\ pc' = "save" => (pc = "range" \/ focus = "plan") /\ Achieved(Page)
         /\ pc' = "range" => focus = "plan"
         /\ pc' = "review" => pc = "save" /\ answer = "ok"
         /\ pc' = "save" => answer' = "pending"
         /\ outcome' = outcome \/ \E o \in Outcomes :
              /\ outcome' = [outcome EXCEPT ![run] = o]
              /\ o = "applied" => pc = "review"
              /\ o = "already" => Achieved(Page)
<1> USE DEF Ends, Goes, Sends, Outcomes, Page
<1>1. CASE Begins \/ Killed \/ ChecksFocus \/ ReadsPage
  BY <1>1 DEF Begins, Killed, ChecksFocus, ReadsPage
<1>2. CASE ReadsValue
  BY <1>2 DEF ReadsValue, Achieved
<1>3. CASE ReadsParts
  BY <1>3 DEF ReadsParts
<1>4. CASE ReadsModel
  <2>1. kind # "value"
    BY <1>4 DEF ReadsModel, InStep
  <2>2. (\E m \in Makers : Connected(m)) => Achieved(Page)
    BY <2>1 DEF Connected, OnPage, Achieved
  <2>3. pc' \notin {"save", "range", "review"}
    BY <1>4 DEF ReadsModel
  <2> QED  BY <1>4, <2>2, <2>3 DEF ReadsModel
<1>5. CASE HearsWrite \/ ReadsWhetherPlaced \/ Connects \/ HearsJoin
  BY <1>5 DEF HearsWrite, ReadsWhetherPlaced, Connects, HearsJoin
<1>6. CASE ReadsBack
  BY <1>6 DEF ReadsBack, Visible, Achieved
<1>7. CASE ReadsRange
  <2>1. kind # "value"
    BY <1>7 DEF ReadsRange, InStep
  <2>2. (\E m \in Makers : part[m] = Planned /\ Connected(m)) => Achieved(Page)
    BY <2>1 DEF Connected, OnPage, Achieved
  <2> QED  BY <1>7, <2>2 DEF ReadsRange
<1>8. CASE HearsSave
  BY <1>8 DEF HearsSave
<1>9. CASE Reviews
  BY <1>9 DEF Reviews
<1> QED  BY <1>1, <1>2, <1>3, <1>4, <1>5, <1>6, <1>7, <1>8, <1>9 DEF Flow

LEMMA ZeroStep ==
  ASSUME TypeOK, InStep, ZeroInv, [Next]_vars
  PROVE  ZeroInv'
<1>a. SUFFICES ASSUME touched = 0, touched' = 0  PROVE ZeroInv'
  <2>1. touched' = 0 => touched = 0
    BY FlowKeepsPage, PageMoves, TouchMoves DEF Next, vars, editorVars
  <2> QED  BY <2>1 DEF ZeroInv
<1>c. /\ pc \in {"save", "review"} => Achieved(Page)
      /\ pc \in {"range", "save"} => focus = "plan"
      /\ (pc = "save" /\ answer = "ok") \/ pc = "review" => Achieved(disk)
      /\ Achieved(disk) => Achieved(Page)
      /\ \A r \in Runs : /\ outcome[r] \in {"applied", "already"} => Achieved(Page)
                         /\ outcome[r] = "applied" => Achieved(disk)
  BY <1>a DEF ZeroInv
<1>1. CASE Flow
  <2>1. UNCHANGED <<kind, focus, value, part, joined, disk>>
    BY <1>1, FlowKeepsPage DEF editorVars, pageVars
  <2>2. Achieved(Page)' = Achieved(Page) /\ Achieved(disk)' = Achieved(disk)
    BY <2>1 DEF Achieved, Page
  <2>3. /\ pc' \in {"save", "review"} => Achieved(Page)
        /\ pc' \in {"range", "save"} => focus' = "plan"
        /\ (pc' = "save" /\ answer' = "ok") \/ pc' = "review" => Achieved(disk)
    BY <1>1, <1>c, <2>1, FlowSees
  <2>4. \A r \in Runs : /\ outcome'[r] \in {"applied", "already"} => Achieved(Page)
                        /\ outcome'[r] = "applied" => Achieved(disk)
    <3>1. CASE outcome' = outcome
      BY <1>c, <3>1
    <3>2. ASSUME NEW o \in Outcomes, outcome' = [outcome EXCEPT ![run] = o],
                 o = "applied" => pc = "review", o = "already" => Achieved(Page)
          PROVE  \A r \in Runs : /\ outcome'[r] \in {"applied", "already"} => Achieved(Page)
                                 /\ outcome'[r] = "applied" => Achieved(disk)
      <4>1. \A r \in Runs : outcome'[r] = outcome[r] \/ outcome'[r] = o
        BY <3>2 DEF TypeOK
      <4>2. o \in {"applied", "already"} => Achieved(Page)
        BY <1>c, <3>2
      <4>3. o = "applied" => Achieved(disk)
        BY <1>c, <3>2
      <4> QED  BY <1>c, <4>1, <4>2, <4>3
    <3> QED  BY <1>1, <3>1, <3>2, FlowSees
  <2> QED  BY <1>c, <2>2, <2>3, <2>4 DEF ZeroInv
<1>2. ASSUME NEW c \in Writes, Lands(c) \/ Fails(c)  PROVE ZeroInv'
  <2>1. UNCHANGED <<kind, focus, run, pc, outcome>>
    BY <1>2, PageMoves
  <2>2. Achieved(Page) => Achieved(Page)'
    BY <1>2, PageStaysAchieved
  <2>3. disk' = disk \/ (disk' = Page /\ Page' = Page)
    BY <1>2 DEF Lands, Fails, Effect, Puts, Joins, Saves, pageVars, Page
  <2>4. /\ Achieved(disk') => Achieved(disk) \/ Achieved(Page)
        /\ Achieved(disk) => Achieved(disk')
    BY <1>c, <2>3
  <2>5. Achieved(disk)' <=> Achieved(disk')
    BY <2>1 DEF Achieved
  <2>6. pc = "save" /\ answer' = "ok" => Achieved(disk')
    <3> SUFFICES ASSUME pc = "save", answer' = "ok"  PROVE Achieved(disk')
      OBVIOUS
    <3>1. CASE answer = "ok"
      BY <1>c, <2>4, <3>1
    <3>2. CASE answer # "ok"
      <4>1. c = <<run, pc, conn>>
        BY <1>2, <3>2, PageMoves
      <4>2. c[2] = "save" /\ Lands(c)
        BY <1>2, <4>1 DEF Fails, Over, Awaited
      <4>3. Saves
        BY <1>c, <4>2 DEF Lands, Effect
      <4> QED  BY <1>c, <4>3 DEF Saves, Page
    <3> QED  BY <3>1, <3>2
  <2> QED  BY <1>c, <2>1, <2>2, <2>4, <2>5, <2>6 DEF ZeroInv
<1>3. CASE Touches
  BY <1>a, <1>3, TouchMoves
<1>4. CASE UNCHANGED vars
  <2>1. UNCHANGED <<kind, focus, value, part, joined, disk, pc, answer, outcome>>
    BY <1>4 DEF vars, editorVars, pageVars, callVars
  <2>2. Achieved(Page)' = Achieved(Page) /\ Achieved(disk)' = Achieved(disk)
    BY <2>1 DEF Achieved, Page
  <2> QED  BY <1>c, <2>1, <2>2 DEF ZeroInv
<1> QED  BY <1>1, <1>2, <1>3, <1>4 DEF Next

\* As long as the person leaves the page alone, exit 0 is true of the page, and "applied" of what was
\* saved, for any number of runs and connections (ExitZeroIsTrue).
THEOREM ExitZeroTheorem == Spec => []ExitZeroIsTrue
<1>1. Init => ZeroInv
  <2> SUFFICES ASSUME Init  PROVE ZeroInv
    OBVIOUS
  <2>1. disk = Page
    BY DEF Init, Page
  <2> QED  BY <2>1 DEF Init, ZeroInv
<1>2. TypeOK /\ ControlInv /\ ZeroInv /\ [Next]_vars => ZeroInv'
  BY ZeroStep DEF ControlInv
<1>3. ZeroInv => ExitZeroIsTrue
  BY DEF ZeroInv, ExitZeroIsTrue, Page
<1> QED  BY <1>1, <1>2, <1>3, TypeInit, TypeStep, InitControl, ControlStep, PTL DEF Spec
------------------------------------------------------------------------------
(* What a run leaves that did not come to its writes. *)

\* The page, its file and the writes under way have nothing of run r.
NothingOf(r) == part[r] = 0 /\ disk.part[r] = 0 /\ \A c \in flying : c[1] # r

\* Run r has not written yet, or is over without having written.
Unwritten(r) ==
  r > run \/ (r = run /\ pc \in Early) \/ outcome[r] \in {"refused", "already"}

UnwrittenInv == \A r \in Runs : Unwritten(r) => NothingOf(r)

LEMMA UnwrittenInit == Init => UnwrittenInv
BY DEF Init, UnwrittenInv, NothingOf, Makers

\* A run that says that nothing was written ends before its first write.
LEMMA EndedEarly ==
  ASSUME TypeOK, Flow, pc # "idle", pc' = "idle", NEW o \in {"refused", "already"},
         outcome' = [outcome EXCEPT ![run] = o]
  PROVE  pc \in Early
<1>0. run \in Runs /\ outcome'[run] = o
  BY DEF TypeOK
<1> USE DEF Early
<1>1. CASE Killed
  BY <1>0, <1>1 DEF Killed, Ends, TypeOK
<1>2. CASE HearsWrite \/ ReadsWhetherPlaced
  BY <1>0, <1>2 DEF HearsWrite, ReadsWhetherPlaced, Ends, Goes, TypeOK
<1>3. CASE Connects \/ HearsJoin
  BY <1>0, <1>3 DEF Connects, HearsJoin, Ends, Goes, Sends, TypeOK
<1>4. CASE ReadsBack \/ ReadsRange
  BY <1>0, <1>4 DEF ReadsBack, ReadsRange, Ends, Goes, Sends, TypeOK
<1>5. CASE HearsSave \/ Reviews
  BY <1>0, <1>5 DEF HearsSave, Reviews, Ends, Goes, TypeOK
<1>6. CASE ChecksFocus \/ ReadsPage \/ ReadsValue \/ ReadsParts \/ ReadsModel
  BY <1>6 DEF ChecksFocus, ReadsPage, ReadsValue, ReadsParts, ReadsModel
<1> QED  BY <1>1, <1>2, <1>3, <1>4, <1>5, <1>6 DEF Flow, Begins

\* No run comes to be one that has not written.
LEMMA UnwrittenWas ==
  ASSUME TypeOK, InStep, Flow, NEW r \in Runs, Unwritten(r)'
  PROVE  Unwritten(r)
<1>0. run \in Nat /\ r \in Nat
  BY DEF TypeOK, Runs
<1>1. CASE Begins
  <2>1. r > run + 1 \/ r = run + 1 => r > run
    BY <1>0
  <2> QED  BY <1>1, <2>1 DEF Begins, Unwritten, Early
<1>2. CASE pc # "idle" /\ \E o \in Outcomes \ {"none"} : Ends(o)
  <2>1. PICK o \in Outcomes \ {"none"} : Ends(o)
    BY <1>2
  <2>2. CASE r # run
    BY <2>1, <2>2 DEF Ends, Unwritten, Early, TypeOK
  <2>3. CASE r = run
    <3>1. outcome' = [outcome EXCEPT ![run] = o] /\ run' = run /\ pc' = "idle" /\ outcome'[run] = o
      BY <2>1, <2>3 DEF Ends, TypeOK
    <3>2. o \in {"refused", "already"}
      BY <1>0, <2>3, <3>1 DEF Unwritten, Early
    <3>3. pc \in Early
      BY <1>2, <2>1, <3>1, <3>2, EndedEarly
    <3> QED  BY <2>3, <3>3 DEF Unwritten
  <2> QED  BY <2>2, <2>3
<1>3. CASE UNCHANGED <<run, outcome>> /\ (pc' \in Early => pc \in Early)
  BY <1>3 DEF Unwritten
<1> QED  BY <1>1, <1>2, <1>3, FlowMoves DEF Sends, Early

LEMMA UnwrittenStep == ASSUME TypeOK, ControlInv, UnwrittenInv, [Next]_vars  PROVE UnwrittenInv'
<1>1. CASE Flow
  <2>1. part' = part /\ disk' = disk
    BY <1>1, FlowKeepsPage DEF editorVars, pageVars
  <2>2. \A c \in flying' : c \in flying \/ (c[1] = run /\ run' = run /\ pc \notin {"idle"} /\ pc' \notin Early \cup {"idle"} /\ outcome' = outcome)
    BY <1>1, FlowSends DEF Early, ControlInv
  <2>3. ASSUME NEW r \in Runs, Unwritten(r)', NEW c \in flying', c[1] = r  PROVE FALSE
    <3>1. Unwritten(r)
      BY <1>1, <2>3, UnwrittenWas DEF ControlInv
    <3>2. c \notin flying
      BY <2>3, <3>1 DEF UnwrittenInv, NothingOf
    <3>3. r = run /\ outcome[r] = "none" /\ ~(r > run)
      BY <2>2, <2>3, <3>2 DEF ControlInv, InStep, TypeOK, Runs
    <3> QED  BY <2>2, <2>3, <3>2, <3>3 DEF Unwritten
  <2> QED  BY <1>1, <2>1, <2>3, UnwrittenWas DEF UnwrittenInv, NothingOf, ControlInv
<1>2. ASSUME NEW c \in Writes, Lands(c) \/ Fails(c)  PROVE UnwrittenInv'
  <2>1. c \in flying /\ flying' \subseteq flying /\ UNCHANGED <<run, pc, outcome>>
    BY <1>2, PageMoves
  <2>2. ASSUME NEW r \in Runs, NothingOf(r)  PROVE NothingOf(r)'
    <3>1. c[1] # r
      BY <2>1, <2>2 DEF NothingOf
    <3>2. part'[r] = 0
      BY <1>2, <2>2, <3>1, PageMoves DEF TypeOK, Writes, Makers, NothingOf
    <3>3. disk'.part[r] = 0
      BY <1>2, <2>2, PageMoves DEF NothingOf, Page
    <3> QED  BY <2>1, <2>2, <3>2, <3>3 DEF NothingOf
  <2> QED  BY <2>1, <2>2 DEF UnwrittenInv, Unwritten
<1>3. CASE Touches
  <2>1. \A r \in Runs : part[r] = 0 => part'[r] = 0
    BY <1>3, TouchMoves DEF TypeOK, Makers, Hand, Runs
  <2>2. \A r \in Runs : NothingOf(r) => NothingOf(r)'
    BY <1>3, <2>1, TouchMoves DEF NothingOf, Page, callVars
  <2> QED  BY <1>3, <2>2, TouchMoves DEF UnwrittenInv, Unwritten
<1>4. CASE UNCHANGED vars
  BY <1>4 DEF vars, editorVars, pageVars, callVars, UnwrittenInv, Unwritten, NothingOf
<1> QED  BY <1>1, <1>2, <1>3, <1>4 DEF Next

\* Exit 4 and "already" mean that the run has written nothing, then and later: no part of it is on
\* the page or in what was saved, and nothing of it is under way that could still come, whatever
\* the person and the other runs do (_edit_apply_flow, _edit_apply_add_flow).
RefusedRunWroteNothing ==
  \A r \in Runs : outcome[r] \in {"refused", "already"} => NothingOf(r)

\* It holds for any number of runs, of connections and of things the person does.
THEOREM RefusedTheorem == Spec => []RefusedRunWroteNothing
<1>1. UnwrittenInv => RefusedRunWroteNothing
  BY DEF UnwrittenInv, Unwritten, RefusedRunWroteNothing
<1> QED
  BY <1>1, TypeInit, TypeStep, InitControl, ControlStep, UnwrittenInit, UnwrittenStep, PTL DEF Spec

=============================================================================
