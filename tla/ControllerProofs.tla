-------------------------- MODULE ControllerProofs --------------------------
(***************************************************************************)
(* Proofs about module Controller.  The invariant has three parts that     *)
(* hardly touch: the slots with what is on the wire (SlotsOK), the         *)
(* registry (RegistryOK), and the types of the rest.  OnlySlotOnWire and   *)
(* WireIsWatched follow from the first, OneConnection from the first two.  *)
(***************************************************************************)
EXTENDS Controller, TLAPS

ConnectionType ==
  /\ dog \subseteq Evals
  /\ slot \in [Evals -> 0 .. MaxTries] /\ newest \in [Evals -> 0 .. MaxTries]
  /\ at \in [Tries -> {"unused", "config", "starting", "over"}]
  /\ of \in [Tries -> 0 .. MaxEvals]
  /\ arming \subseteq Tries /\ wire \subseteq Tries

TriesAreOwned == \A t \in Tries : at[t] # "unused" => of[t] # 0

\* A slot holds the transport of the newest attempt ...
SlotIsNewest == \A e \in Evals : slot[e] # 0 =>
  newest[e] = slot[e] /\ at[slot[e]] \in {"starting", "over"}

\* ... which, while it still awaits its config, has its alarm up and the slot empty.
NewestIsReady == \A e \in Evals : newest[e] # 0 =>
  /\ of[newest[e]] = e /\ at[newest[e]] # "unused"
  /\ at[newest[e]] = "config" => slot[e] = 0 /\ e \in dog

WireIsInSlot == \A t \in wire : of[t] # 0 /\ slot[of[t]] = t /\ of[t] \in dog

SlotsOK == ConnectionType /\ TriesAreOwned /\ SlotIsNewest /\ NewestIsReady /\ WireIsInSlot

\* A controller that holds itself for the shared one is the one on the editor's object.
RegistryOK ==
  /\ loaded \in 0 .. MaxEvals /\ gone \in 0 .. loaded
  /\ published \in 0 .. loaded
  /\ uses \in [Evals -> 0 .. loaded]
  /\ pub \subseteq 1 .. loaded /\ repairs \subseteq 1 .. loaded
  /\ bound \in {"no", "yes"}
  /\ repairs # {} => bound = "yes"
  /\ \A d \in Evals : Shared(d) => published = d

GatesType ==
  /\ auto \in {"off", "on"} /\ calm \in {"no", "yes"} /\ calls \in 0 .. MaxCalls
  /\ claimed \subseteq Evals /\ booted \subseteq Evals
  /\ called \subseteq Evals /\ armed \subseteq Evals /\ macro \subseteq Evals
  /\ knocks \in [Evals -> Nat] /\ retries \in [Evals -> 0 .. MaxRetries]

Inv == SlotsOK /\ RegistryOK /\ GatesType

------------------------------------------------------------------------------
(* The slot. *)

\* What Drop does, controller by controller.
LEMMA DropFacts ==
  ASSUME ConnectionType, NEW ds \in SUBSET Evals, Drop(ds)
  PROVE  /\ slot' \in [Evals -> 0 .. MaxTries] /\ wire' \subseteq wire
         /\ \A e \in Evals : slot'[e] = IF e \in ds THEN 0 ELSE slot[e]
         /\ \A t \in wire' : \A e \in ds : slot[e] # t
<1>1. slot' = [e \in Evals |-> IF e \in ds THEN 0 ELSE slot[e]]
  BY DEF Drop
<1>2. /\ slot' \in [Evals -> 0 .. MaxTries]
      /\ \A e \in Evals : slot'[e] = IF e \in ds THEN 0 ELSE slot[e]
  BY <1>1, ControllerAssumption DEF ConnectionType
<1>3. wire' \subseteq wire /\ \A t \in wire' : \A e \in ds : slot[e] # t
  BY DEF Drop
<1> QED BY <1>2, <1>3

\* However the slots `ds` are emptied: it is enough that attempts in use stay what they
\* are, and that the newest attempts of these controllers have their alarm up.
LEMMA EmptyingKeeps ==
  ASSUME SlotsOK, NEW ds \in SUBSET Evals, Drop(ds),
         newest' \in [Evals -> 0 .. MaxTries], dog' \subseteq Evals,
         at' \in [Tries -> {"unused", "config", "starting", "over"}],
         of' \in [Tries -> 0 .. MaxEvals], arming' \subseteq Tries,
         TriesAreOwned',
         \A t \in Tries : at[t] # "unused" => at'[t] = at[t] /\ of'[t] = of[t],
         \A e \in Evals \ ds : newest'[e] = newest[e] /\ (e \in dog => e \in dog'),
         \A e \in ds : newest'[e] # 0 =>
           /\ of'[newest'[e]] = e /\ at'[newest'[e]] # "unused"
           /\ at'[newest'[e]] = "config" => e \in dog'
  PROVE  SlotsOK'
<1>1. /\ slot' \in [Evals -> 0 .. MaxTries] /\ wire' \subseteq wire
      /\ \A e \in Evals : slot'[e] = IF e \in ds THEN 0 ELSE slot[e]
      /\ \A t \in wire' : \A e \in ds : slot[e] # t
  BY DropFacts DEF SlotsOK
<1>2. ConnectionType'
  BY <1>1 DEF SlotsOK, ConnectionType
<1>3. SlotIsNewest'
  <2> SUFFICES ASSUME NEW e \in Evals, slot'[e] # 0
               PROVE  newest'[e] = slot'[e] /\ at'[slot'[e]] \in {"starting", "over"}
    BY DEF SlotIsNewest
  <2>1. e \notin ds /\ slot'[e] = slot[e] /\ newest[e] = slot[e]
        /\ at[slot[e]] \in {"starting", "over"}
    BY <1>1 DEF SlotsOK, SlotIsNewest
  <2>2. slot[e] \in Tries
    BY <1>1, <2>1, ControllerAssumption DEF SlotsOK, ConnectionType, Tries
  <2> QED BY <2>1, <2>2
<1>4. NewestIsReady'
  <2> SUFFICES ASSUME NEW e \in Evals, newest'[e] # 0
               PROVE  /\ of'[newest'[e]] = e /\ at'[newest'[e]] # "unused"
                      /\ at'[newest'[e]] = "config" => slot'[e] = 0 /\ e \in dog'
    BY DEF NewestIsReady
  <2>1. CASE e \in ds
    BY <1>1, <2>1
  <2>2. CASE e \notin ds
    <3>1. newest'[e] = newest[e] /\ newest[e] \in Tries
      BY <2>2, ControllerAssumption DEF Tries
    <3>2. of[newest[e]] = e /\ at[newest[e]] # "unused"
          /\ (at[newest[e]] = "config" => slot[e] = 0 /\ e \in dog)
      BY <3>1 DEF SlotsOK, NewestIsReady
    <3> QED BY <1>1, <2>2, <3>1, <3>2
  <2> QED BY <2>1, <2>2
<1>5. WireIsInSlot'
  <2> SUFFICES ASSUME NEW t \in wire' PROVE of'[t] # 0 /\ slot'[of'[t]] = t /\ of'[t] \in dog'
    BY DEF WireIsInSlot
  <2>1. t \in wire /\ t \in Tries /\ of[t] \in Evals /\ slot[of[t]] = t /\ of[t] \in dog
    BY <1>1, ControllerAssumption DEF SlotsOK, WireIsInSlot, ConnectionType, Evals, Tries
  <2>2. t # 0 /\ of[t] \notin ds
    BY <1>1, <2>1, ControllerAssumption DEF Tries
  <2>3. at[t] # "unused"
    BY <2>1, <2>2 DEF SlotsOK, SlotIsNewest
  <2> QED BY <1>1, <2>1, <2>2, <2>3, ControllerAssumption DEF Evals
<1> QED BY <1>2, <1>3, <1>4, <1>5 DEF SlotsOK

\* Stopping controllers empties their slots, and takes epoch and alarm along.
LEMMA HaltKeeps ==
  ASSUME SlotsOK, NEW ds \in SUBSET Evals, Halt(ds)
  PROVE  SlotsOK'
<1>1. newest' = [e \in Evals |-> IF e \in ds THEN 0 ELSE newest[e]]
  BY DEF Halt
<1>2. at' = at /\ of' = of /\ arming' = arming /\ dog' = dog \ ds /\ Drop(ds)
  BY DEF Halt, attempts
<1>3. newest' \in [Evals -> 0 .. MaxTries]
  BY <1>1, ControllerAssumption DEF SlotsOK, ConnectionType
<1>4. \A e \in Evals : newest'[e] = IF e \in ds THEN 0 ELSE newest[e]
  BY <1>1
<1>5. TriesAreOwned'
  BY <1>2 DEF SlotsOK, TriesAreOwned
<1> QED
  BY <1>2, <1>3, <1>4, <1>5, EmptyingKeeps DEF SlotsOK, ConnectionType

\* An attempt that never gets under way leaves the epoch to whoever has it.
LEMMA ConnectsNothingKeeps ==
  ASSUME SlotsOK, NEW d \in Evals, NEW others \in SUBSET Evals, d \notin others,
         ConnectsNothing(d, others)
  PROVE  SlotsOK'
<1>1. newest' = [x \in Evals |-> IF x \in others THEN 0 ELSE newest[x]]
  BY DEF ConnectsNothing
<1>2. /\ at' = at /\ of' = of /\ arming' = arming /\ dog' = dog \ others
      /\ Drop(others \cup {d})
  BY DEF ConnectsNothing, attempts
<1>3. newest' \in [Evals -> 0 .. MaxTries]
  BY <1>1, ControllerAssumption DEF SlotsOK, ConnectionType
<1>4. \A e \in Evals : newest'[e] = IF e \in others THEN 0 ELSE newest[e]
  BY <1>1
<1>5. TriesAreOwned'
  BY <1>2 DEF SlotsOK, TriesAreOwned
<1>6. newest'[d] # 0 =>
        /\ of'[newest'[d]] = d /\ at'[newest'[d]] # "unused"
        /\ at'[newest'[d]] = "config" => d \in dog'
  BY <1>2, <1>4 DEF SlotsOK, NewestIsReady
<1>7. others \cup {d} \in SUBSET Evals
  OBVIOUS
<1> QED
  BY <1>2, <1>3, <1>4, <1>5, <1>6, <1>7, EmptyingKeeps DEF SlotsOK, ConnectionType

\* One that throws on its way takes the epoch from whoever had it.
LEMMA OpenThrowsKeeps ==
  ASSUME SlotsOK, NEW d \in Evals, NEW others \in SUBSET Evals, OpenThrows(d, others)
  PROVE  SlotsOK'
<1>1. newest' = [x \in Evals |-> IF x \in others \cup {d} THEN 0 ELSE newest[x]]
  BY DEF OpenThrows
<1>2. /\ at' = at /\ of' = of /\ arming' = arming /\ dog' = (dog \ others) \cup {d}
      /\ Drop(others \cup {d})
  BY DEF OpenThrows, attempts
<1>3. newest' \in [Evals -> 0 .. MaxTries]
  BY <1>1, ControllerAssumption DEF SlotsOK, ConnectionType
<1>4. \A e \in Evals : newest'[e] = IF e \in others \cup {d} THEN 0 ELSE newest[e]
  BY <1>1
<1>5. TriesAreOwned'
  BY <1>2 DEF SlotsOK, TriesAreOwned
<1>6. others \cup {d} \in SUBSET Evals
  OBVIOUS
<1> QED
  BY <1>2, <1>3, <1>4, <1>5, <1>6, EmptyingKeeps DEF SlotsOK, ConnectionType

\* A new attempt is nobody's before, and its controller's newest after.
LEMMA OpensKeeps ==
  ASSUME SlotsOK, NEW d \in Evals, NEW others \in SUBSET Evals, d \notin others,
         NEW byArm, Opens(d, others, byArm)
  PROVE  SlotsOK'
<1>1. PICK t \in Tries :
        /\ at[t] = "unused"
        /\ Drop(others \cup {d})
        /\ newest' = [x \in Evals |-> IF x = d THEN t ELSE IF x \in others THEN 0 ELSE newest[x]]
        /\ dog' = (dog \ others) \cup {d}
        /\ at' = [at EXCEPT ![t] = "config"]
        /\ of' = [of EXCEPT ![t] = d]
        /\ arming' = IF byArm THEN arming \cup {t} ELSE arming
  BY DEF Opens
<1>2. newest' \in [Evals -> 0 .. MaxTries]
  BY <1>1, ControllerAssumption DEF SlotsOK, ConnectionType, Tries
<1>3. \A e \in Evals :
        newest'[e] = IF e = d THEN t ELSE IF e \in others THEN 0 ELSE newest[e]
  BY <1>1
<1>4. /\ at' \in [Tries -> {"unused", "config", "starting", "over"}]
      /\ of' \in [Tries -> 0 .. MaxEvals] /\ arming' \subseteq Tries
  BY <1>1, ControllerAssumption DEF SlotsOK, ConnectionType, Evals
<1>5. \A u \in Tries : /\ at'[u] = IF u = t THEN "config" ELSE at[u]
                       /\ of'[u] = IF u = t THEN d ELSE of[u]
  BY <1>1 DEF SlotsOK, ConnectionType
<1>6. TriesAreOwned'
  BY <1>5, ControllerAssumption DEF SlotsOK, TriesAreOwned, Evals
<1>7. others \cup {d} \in SUBSET Evals /\ dog' \subseteq Evals
  BY <1>1 DEF SlotsOK, ConnectionType
<1> QED
  BY <1>1, <1>2, <1>3, <1>4, <1>5, <1>6, <1>7, EmptyingKeeps

\* Only the newest attempt fills the slot.
LEMMA SettleKeeps ==
  ASSUME SlotsOK, NEW t \in Tries, Settle(t)
  PROVE  SlotsOK'
<1>1. of[t] \in Evals /\ at[t] = "config" /\ t # 0
  BY ControllerAssumption DEF SlotsOK, ConnectionType, TriesAreOwned, Settle, Evals, Tries
<1>2. newest' = newest /\ dog' = dog /\ of' = of
  BY DEF Settle
<1>3. CASE newest[of[t]] = t
  <2>1. /\ at' = [at EXCEPT ![t] = "starting"] /\ arming' = arming
        /\ slot' = [slot EXCEPT ![of[t]] = t] /\ wire' = wire \cup {t}
    BY <1>3 DEF Settle
  <2>2. ConnectionType'
    <3>1. slot' \in [Evals -> 0 .. MaxTries]
      <4>1. t \in 0 .. MaxTries
        BY ControllerAssumption DEF Tries
      <4> QED BY <1>1, <2>1, <4>1 DEF SlotsOK, ConnectionType
    <3>2. at' \in [Tries -> {"unused", "config", "starting", "over"}]
      BY <2>1 DEF SlotsOK, ConnectionType
    <3> QED BY <1>2, <2>1, <3>1, <3>2 DEF SlotsOK, ConnectionType
  <2>3. \A e \in Evals : slot'[e] = IF e = of[t] THEN t ELSE slot[e]
    BY <2>1 DEF SlotsOK, ConnectionType
  <2>4. \A u \in Tries : at'[u] = IF u = t THEN "starting" ELSE at[u]
    BY <2>1 DEF SlotsOK, ConnectionType
  <2>5. TriesAreOwned'
    BY <1>1, <1>2, <2>4, ControllerAssumption DEF SlotsOK, TriesAreOwned, Evals
  <2>6. SlotIsNewest'
    <3> SUFFICES ASSUME NEW e \in Evals, slot'[e] # 0
                 PROVE  newest'[e] = slot'[e] /\ at'[slot'[e]] \in {"starting", "over"}
      BY DEF SlotIsNewest
    <3>1. slot'[e] \in Tries
      BY <2>2, ControllerAssumption DEF ConnectionType, Tries
    <3> QED BY <1>2, <1>3, <2>3, <2>4, <3>1 DEF SlotsOK, SlotIsNewest
  <2>7. NewestIsReady'
    <3> SUFFICES ASSUME NEW e \in Evals, newest'[e] # 0
                 PROVE  /\ of'[newest'[e]] = e /\ at'[newest'[e]] # "unused"
                        /\ at'[newest'[e]] = "config" => slot'[e] = 0 /\ e \in dog'
      BY DEF NewestIsReady
    <3>1. newest'[e] \in Tries
      BY <2>2, ControllerAssumption DEF ConnectionType, Tries
    <3> QED BY <1>2, <1>3, <2>3, <2>4, <3>1 DEF SlotsOK, NewestIsReady
  <2>8. WireIsInSlot'
    <3> SUFFICES ASSUME NEW u \in wire'
                 PROVE  of'[u] # 0 /\ slot'[of'[u]] = u /\ of'[u] \in dog'
      BY DEF WireIsInSlot
    <3>1. CASE u = t
      BY <1>1, <1>2, <1>3, <2>3, <3>1, ControllerAssumption DEF SlotsOK, NewestIsReady, Evals
    <3>2. CASE u # t
      <4>1. u \in wire /\ u \in Tries /\ of[u] \in Evals /\ slot[of[u]] = u /\ of[u] \in dog
        BY <2>1, <3>2, ControllerAssumption DEF SlotsOK, WireIsInSlot, ConnectionType, Evals, Tries
      <4>2. of[u] # of[t]
        BY <1>1, <1>3, <4>1 DEF SlotsOK, NewestIsReady, Tries
      <4> QED BY <1>2, <2>3, <4>1, <4>2, ControllerAssumption DEF Evals
    <3> QED BY <3>1, <3>2
  <2> QED BY <2>2, <2>5, <2>6, <2>7, <2>8 DEF SlotsOK
<1>4. CASE newest[of[t]] # t
  <2>1. /\ at' = [at EXCEPT ![t] = "over"] /\ arming' = arming \ {t}
        /\ slot' = slot /\ wire' = wire
    BY <1>4 DEF Settle, ArmEnds
  <2>2. \A u \in Tries : at'[u] = IF u = t THEN "over" ELSE at[u]
    BY <2>1 DEF SlotsOK, ConnectionType
  <2>3. ConnectionType'
    BY <1>2, <2>1 DEF SlotsOK, ConnectionType
  <2>4. TriesAreOwned'
    BY <1>1, <1>2, <2>2, ControllerAssumption DEF SlotsOK, TriesAreOwned, Evals
  <2>5. SlotIsNewest'
    <3> SUFFICES ASSUME NEW e \in Evals, slot[e] # 0
                 PROVE  newest[e] = slot[e] /\ at'[slot[e]] \in {"starting", "over"}
      BY <1>2, <2>1 DEF SlotIsNewest
    <3>1. slot[e] \in Tries
      BY ControllerAssumption DEF SlotsOK, ConnectionType, Tries
    <3> QED BY <2>2, <3>1 DEF SlotsOK, SlotIsNewest
  <2>6. NewestIsReady'
    <3> SUFFICES ASSUME NEW e \in Evals, newest[e] # 0
                 PROVE  /\ of[newest[e]] = e /\ at'[newest[e]] # "unused"
                        /\ at'[newest[e]] = "config" => slot[e] = 0 /\ e \in dog
      BY <1>2, <2>1 DEF NewestIsReady
    <3>1. newest[e] \in Tries
      BY ControllerAssumption DEF SlotsOK, ConnectionType, Tries
    <3> QED BY <2>2, <3>1 DEF SlotsOK, NewestIsReady
  <2>7. WireIsInSlot'
    BY <1>2, <2>1 DEF SlotsOK, WireIsInSlot
  <2> QED BY <2>3, <2>4, <2>5, <2>6, <2>7 DEF SlotsOK
<1> QED BY <1>3, <1>4

\* A transport that has started stays, unless it was superseded.
LEMMA StartedKeeps ==
  ASSUME SlotsOK, NEW t \in Tries, Started(t)
  PROVE  SlotsOK'
<1>1. /\ newest' = newest /\ dog' = dog /\ of' = of /\ slot' = slot
      /\ at' = [at EXCEPT ![t] = "over"] /\ arming' = arming \ {t} /\ wire' \subseteq wire
  BY DEF Started, ArmEnds
<1>2. \A u \in Tries : at'[u] = IF u = t THEN "over" ELSE at[u]
  BY <1>1 DEF SlotsOK, ConnectionType
<1>3. ConnectionType'
  BY <1>1 DEF SlotsOK, ConnectionType
<1>4. TriesAreOwned'
  BY <1>1, <1>2 DEF SlotsOK, TriesAreOwned, Started
<1>5. SlotIsNewest'
  <2> SUFFICES ASSUME NEW e \in Evals, slot[e] # 0
               PROVE  newest[e] = slot[e] /\ at'[slot[e]] \in {"starting", "over"}
    BY <1>1 DEF SlotIsNewest
  <2>1. slot[e] \in Tries
    BY ControllerAssumption DEF SlotsOK, ConnectionType, Tries
  <2> QED BY <1>2, <2>1 DEF SlotsOK, SlotIsNewest
<1>6. NewestIsReady'
  <2> SUFFICES ASSUME NEW e \in Evals, newest[e] # 0
               PROVE  /\ of[newest[e]] = e /\ at'[newest[e]] # "unused"
                      /\ at'[newest[e]] = "config" => slot[e] = 0 /\ e \in dog
    BY <1>1 DEF NewestIsReady
  <2>1. newest[e] \in Tries
    BY ControllerAssumption DEF SlotsOK, ConnectionType, Tries
  <2> QED BY <1>2, <2>1 DEF SlotsOK, NewestIsReady
<1>7. WireIsInSlot'
  BY <1>1 DEF SlotsOK, WireIsInSlot
<1> QED BY <1>3, <1>4, <1>5, <1>6, <1>7 DEF SlotsOK

\* A refusal takes transport and alarm of the same controller.
LEMMA RefusedKeeps ==
  ASSUME SlotsOK, NEW t \in Tries, Refused(t)
  PROVE  SlotsOK'
<1>1. /\ newest' = newest /\ slot' = slot /\ at' = at /\ of' = of /\ arming' = arming
      /\ t \in wire /\ wire' = wire \ {t} /\ dog' = dog \ {of[t]}
  BY DEF Refused, attempts
<1>2. of[t] \in Evals /\ slot[of[t]] = t /\ t # 0
  BY <1>1, ControllerAssumption DEF SlotsOK, WireIsInSlot, ConnectionType, Evals, Tries
<1>3. ConnectionType' /\ TriesAreOwned' /\ SlotIsNewest'
  BY <1>1 DEF SlotsOK, ConnectionType, TriesAreOwned, SlotIsNewest
<1>4. NewestIsReady'
  BY <1>1, <1>2 DEF SlotsOK, NewestIsReady
<1>5. WireIsInSlot'
  BY <1>1, <1>2 DEF SlotsOK, WireIsInSlot
<1> QED BY <1>3, <1>4, <1>5 DEF SlotsOK

\* Losing a transport loses nothing else.
LEMMA WireShrinks ==
  ASSUME SlotsOK, UNCHANGED <<slot, newest, dog, at, of, arming>>, wire' \subseteq wire
  PROVE  SlotsOK'
BY DEF SlotsOK, ConnectionType, TriesAreOwned, SlotIsNewest, NewestIsReady, WireIsInSlot

------------------------------------------------------------------------------
(* The registry. *)

\* A lookup finds a controller of an evaluation so far, and the one it replaces differs.
LEMMA OwnerFacts ==
  ASSUME RegistryOK, NEW e \in 1 .. MaxEvals
  PROVE  /\ Owner(e) \in Evals
         /\ e <= loaded => Owner(e) <= loaded
         /\ Replaced(e) \in SUBSET Evals /\ Owner(e) \notin Replaced(e)
BY ControllerAssumption DEF RegistryOK, Owner, Replaced, Published, Evals

\* The registry stays right over a lookup, whether it finds, creates or publishes.
LEMMA LookupKeeps ==
  ASSUME RegistryOK, NEW e \in 1 .. loaded, NEW c, Lookup(e, c), bound = "yes",
         UNCHANGED <<bound, loaded, gone>>, repairs' \subseteq 1 .. loaded
  PROVE  RegistryOK'
<1>1. e \in Evals /\ Owner(e) \in Evals /\ Owner(e) \in 1 .. loaded
  BY OwnerFacts, ControllerAssumption DEF RegistryOK, Evals
<1>2. uses' = [uses EXCEPT ![e] = Owner(e)]
  BY DEF Lookup
<1>3. uses' \in [Evals -> 0 .. loaded]
  BY <1>1, <1>2 DEF RegistryOK
<1>4. \A d \in Evals : uses'[d] = IF d = e THEN Owner(e) ELSE uses[d]
  BY <1>2 DEF RegistryOK
<1>5. CASE published = 0 /\ (uses[e] = 0 \/ (c /\ Owner(e) \notin pub))
  <2>1. published' = Owner(e) /\ pub' = pub \cup {Owner(e)}
    BY <1>5 DEF Lookup
  <2>2. \A d \in Evals : Shared(d)' => published' = d
    BY <1>1, <1>4, <1>5, <2>1, ControllerAssumption DEF RegistryOK, Shared, Evals
  <2>3. published' \in 0 .. loaded /\ pub' \subseteq 1 .. loaded
    <3>1. 1 .. loaded \subseteq 0 .. loaded
      BY ControllerAssumption DEF RegistryOK
    <3> QED BY <1>1, <2>1, <3>1 DEF RegistryOK
  <2> QED BY <1>3, <1>5, <2>2, <2>3 DEF RegistryOK
<1>6. CASE ~(published = 0 /\ (uses[e] = 0 \/ (c /\ Owner(e) \notin pub)))
  <2>1. published' = published /\ pub' = IF Published THEN pub \cup {e} ELSE pub
    BY <1>6 DEF Lookup
  <2>2. \A d \in Evals : Shared(d)' => published' = d
    BY <1>1, <1>4, <1>6, <2>1, ControllerAssumption DEF RegistryOK, Shared, Evals, Published, Owner
  <2> QED BY <1>1, <1>3, <2>1, <2>2 DEF RegistryOK
<1> QED BY <1>5, <1>6

\* The same for a bundle that is evaluated, before or after the editor binds its global.
LEMMA EvaluationKeeps ==
  ASSUME RegistryOK, NEW c, loaded < MaxEvals, loaded' = loaded + 1, Lookup(loaded + 1, c),
         UNCHANGED <<bound, gone, repairs>>
  PROVE  RegistryOK'
<1> DEFINE e == loaded + 1
<1>1. e \in Evals /\ Owner(e) \in Evals /\ Owner(e) \in 1 .. loaded'
  BY OwnerFacts, ControllerAssumption DEF RegistryOK, Evals, Owner, Published
<1>2. uses' = [uses EXCEPT ![e] = Owner(e)]
  BY DEF Lookup
<1>3. uses' \in [Evals -> 0 .. loaded']
  BY <1>1, <1>2, ControllerAssumption DEF RegistryOK
<1>4. \A d \in Evals : uses'[d] = IF d = e THEN Owner(e) ELSE uses[d]
  BY <1>2 DEF RegistryOK
<1>5. CASE bound = "yes" /\ published = 0 /\ (uses[e] = 0 \/ (c /\ Owner(e) \notin pub))
  <2>1. published' = Owner(e) /\ pub' = pub \cup {Owner(e)}
    BY <1>5 DEF Lookup
  <2>2. \A d \in Evals : Shared(d)' => published' = d
    BY <1>1, <1>4, <1>5, <2>1, ControllerAssumption DEF RegistryOK, Shared, Evals
  <2>3. pub' \subseteq 1 .. loaded' /\ published' \in 0 .. loaded'
    <3>1. 1 .. loaded \subseteq 1 .. loaded' /\ 1 .. loaded' \subseteq 0 .. loaded'
      BY ControllerAssumption DEF RegistryOK
    <3> QED BY <1>1, <2>1, <3>1 DEF RegistryOK
  <2>4. loaded' \in 0 .. MaxEvals /\ gone' \in 0 .. loaded' /\ repairs' \subseteq 1 .. loaded'
    BY ControllerAssumption DEF RegistryOK
  <2> QED BY <1>3, <1>5, <2>2, <2>3, <2>4 DEF RegistryOK
<1>6. CASE ~(bound = "yes" /\ published = 0 /\ (uses[e] = 0 \/ (c /\ Owner(e) \notin pub)))
  <2>1. published' = published /\ pub' = IF Published THEN pub \cup {e} ELSE pub
    BY <1>6 DEF Lookup
  <2>2. \A d \in Evals : Shared(d)' => published' = d
    <3> SUFFICES ASSUME NEW d \in Evals, Shared(d)' PROVE published' = d
      OBVIOUS
    <3>1. CASE d = e
      BY <1>1, <1>4, <1>6, <2>1, <3>1, ControllerAssumption DEF RegistryOK, Shared, Evals, Published, Owner
    <3>2. CASE d # e
      BY <1>4, <2>1, <3>2 DEF RegistryOK, Shared
    <3> QED BY <3>1, <3>2
  <2>3. pub' \subseteq 1 .. loaded' /\ published' \in 0 .. loaded'
    BY <2>1, ControllerAssumption DEF RegistryOK
  <2>4. loaded' \in 0 .. MaxEvals /\ gone' \in 0 .. loaded' /\ repairs' \subseteq 1 .. loaded'
    BY ControllerAssumption DEF RegistryOK
  <2> QED BY <1>3, <2>2, <2>3, <2>4 DEF RegistryOK
<1> QED BY <1>5, <1>6

\* A late publication takes an empty place only.
LEMMA RepublishKeeps ==
  ASSUME RegistryOK, NEW d \in Evals, Republish(d), UNCHANGED <<bound, loaded, gone, repairs>>
  PROVE  RegistryOK'
<1>1. CASE bound = "yes" /\ published = 0 /\ uses[d] = d /\ d \notin pub
  <2>1. published' = d /\ pub' = pub \cup {d} /\ uses' = uses
    BY <1>1 DEF Republish
  <2>2. d \in 1 .. loaded
    BY <1>1, ControllerAssumption DEF RegistryOK, Evals
  <2>3. \A x \in Evals : Shared(x)' => published' = x
    BY <1>1, <2>1, ControllerAssumption DEF RegistryOK, Shared, Evals
  <2> QED BY <2>1, <2>2, <2>3 DEF RegistryOK
<1>2. CASE ~(bound = "yes" /\ published = 0 /\ uses[d] = d /\ d \notin pub)
  BY <1>2 DEF Republish, RegistryOK, Shared
<1> QED BY <1>1, <1>2

\* And the registry that nobody touches stays as it is.
LEMMA RegistryStays ==
  ASSUME RegistryOK, UNCHANGED <<registry, bound, loaded, gone>>, repairs' \subseteq repairs
  PROVE  RegistryOK'
BY DEF RegistryOK, registry, Shared

------------------------------------------------------------------------------
(* The steps. *)

\* An attempt of the bootstrap keeps the slots, the claim's type and the ladder in bounds.
LEMMA BootstrapAttemptKeeps ==
  ASSUME SlotsOK, GatesType, NEW d \in Evals, NEW fired \in {0, 1}, fired <= knocks[d],
         BootstrapAttempt(d, fired)
  PROVE  /\ SlotsOK' /\ claimed' \subseteq Evals
         /\ knocks' \in [Evals -> Nat] /\ retries' \in [Evals -> 0 .. MaxRetries]
<1>1. SlotsOK'
  <2>1. CASE UNCHANGED <<connection, attempts>>
    BY <2>1, WireShrinks DEF connection, attempts
  <2>2. CASE ConnectsNothing(d, {})
    BY <2>2, ConnectsNothingKeeps
  <2>3. CASE OpenThrows(d, {})
    BY <2>3, OpenThrowsKeeps
  <2>4. CASE Opens(d, {}, FALSE)
    BY <2>4, OpensKeeps
  <2> QED BY <2>1, <2>2, <2>3, <2>4 DEF BootstrapAttempt, StandsDown, Connects, Throws
<1>2. claimed' \subseteq Evals
  BY DEF BootstrapAttempt, GatesType
<1>3. ScheduleRetry(d, fired) \/ NoRetry(d, fired)
  BY DEF BootstrapAttempt
<1>4. knocks[d] - fired \in Nat /\ knocks[d] - fired + 1 \in Nat
  BY DEF GatesType
<1>5. knocks' \in [Evals -> Nat] /\ retries' \in [Evals -> 0 .. MaxRetries]
  <2>1. CASE NoRetry(d, fired)
    BY <1>4, <2>1 DEF NoRetry, GatesType
  <2>2. CASE ScheduleRetry(d, fired) /\ retries[d] < MaxRetries
    <3>1. retries[d] + 1 \in 0 .. MaxRetries
      BY <2>2, ControllerAssumption DEF GatesType
    <3> QED BY <1>4, <2>2, <3>1 DEF ScheduleRetry, GatesType
  <2>3. CASE ScheduleRetry(d, fired) /\ ~(retries[d] < MaxRetries)
    BY <1>4, <2>3 DEF ScheduleRetry, GatesType
  <2> QED BY <1>3, <2>1, <2>2, <2>3
<1> QED BY <1>1, <1>2, <1>5

\* Evaluating the bundle.
LEMMA EvaluateKeeps ==
  ASSUME Inv, Evaluate
  PROVE  Inv'
<1> DEFINE d == Owner(loaded + 1)
<1>1. d \in Evals /\ 0 <= knocks[d]
  BY OwnerFacts, ControllerAssumption DEF Inv, RegistryOK, GatesType, Evaluate
<1>2. RegistryOK'
  BY EvaluationKeeps DEF Inv, Evaluate
<1>3. CASE d \in booted
  <2>1. SlotsOK'
    BY <1>3, WireShrinks DEF Inv, Evaluate, connection, attempts
  <2>2. GatesType'
    BY <1>3 DEF Inv, Evaluate, GatesType, timers
  <2> QED BY <1>2, <2>1, <2>2 DEF Inv
<1>4. CASE d \notin booted
  <2>1. BootstrapAttempt(d, 0)
    BY <1>4 DEF Evaluate
  <2>2. /\ SlotsOK' /\ claimed' \subseteq Evals
        /\ knocks' \in [Evals -> Nat] /\ retries' \in [Evals -> 0 .. MaxRetries]
    BY <1>1, <2>1, BootstrapAttemptKeeps DEF Inv
  <2>3. GatesType'
    BY <1>1, <1>4, <2>2 DEF Inv, Evaluate, GatesType
  <2> QED BY <1>2, <2>2, <2>3 DEF Inv
<1> QED BY <1>3, <1>4

\* The retry timer.
LEMMA KnockKeeps ==
  ASSUME Inv, NEW d \in Evals, Knock(d)
  PROVE  Inv'
<1>1. 1 <= knocks[d]
  BY DEF Knock, Inv, GatesType
<1>2. /\ SlotsOK' /\ claimed' \subseteq Evals
      /\ knocks' \in [Evals -> Nat] /\ retries' \in [Evals -> 0 .. MaxRetries]
  BY <1>1, BootstrapAttemptKeeps DEF Inv, Knock
<1>3. RegistryOK'
  BY RepublishKeeps, RegistryStays DEF Inv, Knock, editor
<1>4. GatesType'
  BY <1>2 DEF Inv, Knock, GatesType, editor
<1> QED BY <1>2, <1>3, <1>4 DEF Inv

\* The next macrotask.
LEMMA NextMacrotaskKeeps ==
  ASSUME Inv, NEW d \in Evals, NextMacrotask(d)
  PROVE  Inv'
<1>1. 0 <= knocks[d]
  BY DEF Inv, GatesType
<1>2. CASE bound = "yes" /\ d \notin claimed \cup called \cup armed
  <2>1. BootstrapAttempt(d, 0) /\ Republish(d)
    BY <1>2 DEF NextMacrotask
  <2>2. /\ SlotsOK' /\ claimed' \subseteq Evals
        /\ knocks' \in [Evals -> Nat] /\ retries' \in [Evals -> 0 .. MaxRetries]
    BY <1>1, <2>1, BootstrapAttemptKeeps DEF Inv
  <2>3. RegistryOK'
    BY <2>1, RepublishKeeps DEF Inv, NextMacrotask, editor
  <2>4. GatesType'
    BY <2>2 DEF Inv, NextMacrotask, GatesType, editor
  <2> QED BY <2>2, <2>3, <2>4 DEF Inv
<1>3. CASE ~(bound = "yes" /\ d \notin claimed \cup called \cup armed)
  <2>1. SlotsOK'
    BY <1>3, WireShrinks DEF Inv, NextMacrotask, connection, attempts
  <2>2. RegistryOK'
    BY <1>3, RegistryStays DEF Inv, NextMacrotask, editor
  <2>3. GatesType'
    BY <1>3 DEF Inv, NextMacrotask, GatesType, editor
  <2> QED BY <2>1, <2>2, <2>3 DEF Inv
<1> QED BY <1>2, <1>3

\* Whoever is called is an evaluation so far, and the editor is there.
LEMMA CalledFacts ==
  ASSUME Inv, NEW e \in Evals, Called(e)
  PROVE  /\ e \in 1 .. loaded /\ bound = "yes" /\ calls' \in 0 .. MaxCalls
         /\ Owner(e) \in Evals /\ Replaced(e) \in SUBSET Evals /\ Owner(e) \notin Replaced(e)
<1>1. e \in 1 .. loaded /\ bound = "yes"
  BY ControllerAssumption DEF Called, Inv, RegistryOK, Evals
<1>2. calls' \in 0 .. MaxCalls
  BY ControllerAssumption DEF Called, Inv, GatesType
<1> QED BY <1>1, <1>2, OwnerFacts DEF Inv, Evals

\* activate().
LEMMA ActivateKeeps ==
  ASSUME Inv, NEW e \in Evals, Activate(e)
  PROVE  Inv'
<1> DEFINE d == Owner(e)
<1>1. /\ e \in 1 .. loaded /\ bound = "yes" /\ calls' \in 0 .. MaxCalls
      /\ d \in Evals /\ Replaced(e) \in SUBSET Evals /\ d \notin Replaced(e)
  BY CalledFacts DEF Activate
<1>2. RegistryOK'
  BY <1>1, LookupKeeps DEF Inv, RegistryOK, Activate, editor
<1>3. SlotsOK'
  <2>1. CASE Halt(Replaced(e))
    BY <1>1, <2>1, HaltKeeps DEF Inv
  <2>2. CASE ConnectsNothing(d, Replaced(e))
    BY <1>1, <2>2, ConnectsNothingKeeps DEF Inv
  <2>3. CASE OpenThrows(d, Replaced(e))
    BY <1>1, <2>3, OpenThrowsKeeps DEF Inv
  <2>4. CASE Opens(d, Replaced(e), FALSE)
    BY <1>1, <2>4, OpensKeeps DEF Inv
  <2> QED BY <2>1, <2>2, <2>3, <2>4 DEF Activate, StandsDown, Connects, Throws
<1>4. GatesType'
  BY <1>1 DEF Inv, Activate, GatesType, editor, timers
<1> QED BY <1>2, <1>3, <1>4 DEF Inv

\* About, with the self-arm behind it.
LEMMA AboutKeeps ==
  ASSUME Inv, NEW e \in Evals, About(e)
  PROVE  Inv'
<1> DEFINE d == Owner(e)
<1>1. /\ e \in 1 .. loaded /\ bound = "yes" /\ calls' \in 0 .. MaxCalls
      /\ d \in Evals /\ Replaced(e) \in SUBSET Evals /\ d \notin Replaced(e)
  BY CalledFacts DEF About
<1>2. RegistryOK'
  BY <1>1, LookupKeeps DEF Inv, RegistryOK, About, editor
<1>3. SlotsOK'
  <2>1. CASE Halt(Replaced(e))
    BY <1>1, <2>1, HaltKeeps DEF Inv
  <2>2. CASE ConnectsNothing(d, Replaced(e))
    BY <1>1, <2>2, ConnectsNothingKeeps DEF Inv
  <2>3. CASE OpenThrows(d, Replaced(e))
    BY <1>1, <2>3, OpenThrowsKeeps DEF Inv
  <2>4. CASE Opens(d, Replaced(e), TRUE)
    BY <1>1, <2>4, OpensKeeps DEF Inv
  <2> QED BY <2>1, <2>2, <2>3, <2>4 DEF About, SelfArm, StandsDown, Connects, Throws
<1>4. GatesType'
  BY <1>1 DEF Inv, About, SelfArm, GatesType, editor, timers
<1> QED BY <1>2, <1>3, <1>4 DEF Inv

\* Reconnect, from the menu or after the token was forgotten.
LEMMA ReconnectsKeeps ==
  ASSUME Inv, NEW e \in 1 .. loaded, bound = "yes", Reconnects(e),
         repairs' \subseteq 1 .. loaded, calls' \in 0 .. MaxCalls
  PROVE  Inv'
<1> DEFINE d == Owner(e)
<1>1. /\ e \in Evals /\ d \in Evals /\ Replaced(e) \in SUBSET Evals /\ d \notin Replaced(e)
  <2>1. e \in 1 .. MaxEvals
    BY ControllerAssumption DEF Inv, RegistryOK
  <2> QED BY <2>1, OwnerFacts DEF Inv, Evals
<1>2. RegistryOK'
  BY LookupKeeps DEF Inv, Reconnects, editor
<1>3. SlotsOK'
  BY <1>1, OpensKeeps, OpenThrowsKeeps DEF Inv, Reconnects
<1>4. GatesType'
  BY <1>1 DEF Inv, Reconnects, GatesType, editor, timers
<1> QED BY <1>2, <1>3, <1>4 DEF Inv

\* Stop and deactivate.
LEMMA StopKeeps ==
  ASSUME Inv, NEW e \in Evals, Stop(e)
  PROVE  Inv'
<1>1. /\ e \in 1 .. loaded /\ bound = "yes" /\ calls' \in 0 .. MaxCalls
      /\ Owner(e) \in Evals /\ Replaced(e) \in SUBSET Evals
  BY CalledFacts DEF Stop
<1>2. RegistryOK'
  BY <1>1, LookupKeeps DEF Inv, RegistryOK, Stop, editor
<1>3. SlotsOK'
  <2>1. Replaced(e) \cup {Owner(e)} \in SUBSET Evals
    BY <1>1
  <2> QED BY <2>1, HaltKeeps DEF Inv, Stop
<1>4. GatesType'
  BY <1>1 DEF Inv, Stop, GatesType, editor, gates, timers
<1> QED BY <1>2, <1>3, <1>4 DEF Inv

\* After a deactivation none of the evaluations so far counts as shared.
LEMMA DeactivateKeeps ==
  ASSUME Inv, NEW e \in Evals, Deactivate(e)
  PROVE  Inv'
<1>1. e \in 1 .. loaded /\ bound = "yes" /\ calls' \in 0 .. MaxCalls
  BY CalledFacts DEF Deactivate
<1>2. uses[e] \in Evals
  BY ControllerAssumption DEF Inv, RegistryOK, Deactivate, Evals
<1>3. SlotsOK'
  <2>1. {uses[e]} \in SUBSET Evals
    BY <1>2
  <2> QED BY <2>1, HaltKeeps DEF Inv, Deactivate
<1>4. RegistryOK'
  <2>1. uses' \in [Evals -> 0 .. loaded] /\ gone' = loaded /\ published' \in 0 .. loaded
    BY ControllerAssumption DEF Inv, RegistryOK, Deactivate
  <2>2. /\ loaded' = loaded /\ bound' = bound /\ pub' = pub /\ repairs' = repairs
    BY DEF Deactivate
  <2>3. \A d \in Evals : ~Shared(d)'
    BY <2>1, <2>2, ControllerAssumption DEF Inv, RegistryOK, Shared, Evals
  <2>4. loaded \in 0 .. loaded
    BY ControllerAssumption DEF Inv, RegistryOK
  <2> QED BY <2>1, <2>2, <2>3, <2>4 DEF Inv, RegistryOK
<1>5. GatesType'
  BY <1>1 DEF Inv, Deactivate, GatesType, gates, timers
<1> QED BY <1>3, <1>4, <1>5 DEF Inv

\* rePair up to its await.
LEMMA RePairKeeps ==
  ASSUME Inv, NEW e \in Evals, RePair(e)
  PROVE  Inv'
<1>1. e \in 1 .. loaded /\ bound = "yes" /\ calls' \in 0 .. MaxCalls
  BY CalledFacts DEF RePair
<1>2. SlotsOK'
  BY WireShrinks DEF Inv, RePair, attempts
<1>3. RegistryOK'
  BY <1>1 DEF Inv, RegistryOK, RePair, editor, registry, Shared
<1>4. GatesType'
  BY <1>1 DEF Inv, RePair, GatesType, editor, gates, timers
<1> QED BY <1>2, <1>3, <1>4 DEF Inv

\* What the attempts and the setting do leaves the registry alone.
LEMMA OthersKeep ==
  ASSUME Inv, UNCHANGED <<registry, bound, loaded, gone, repairs>>, SlotsOK', GatesType'
  PROVE  Inv'
BY RegistryStays DEF Inv

\* An attempt that has its config, one that has started, and one that was refused.
LEMMA AttemptKeeps ==
  ASSUME Inv, NEW t \in Tries, Settle(t) \/ Started(t) \/ Refused(t)
  PROVE  Inv'
<1>1. UNCHANGED <<registry, bound, loaded, gone, repairs>>
  BY DEF Settle, Started, Refused, editor
<1>2. SlotsOK'
  BY SettleKeeps, StartedKeeps, RefusedKeeps DEF Inv
<1>3. GatesType'
  <2>1. claimed' \subseteq claimed /\ armed' \subseteq armed
    BY DEF Settle, Started, Refused, ArmEnds, gates
  <2>2. UNCHANGED <<auto, calm, calls, booted, called, macro, knocks, retries>>
    BY DEF Settle, Started, Refused, editor, gates, timers
  <2> QED BY <2>1, <2>2 DEF Inv, GatesType
<1> QED BY <1>1, <1>2, <1>3, OthersKeep

\* The editor's setting.
LEMMA ToggleKeeps ==
  ASSUME Inv, ToggleAutoConnect
  PROVE  Inv'
<1>1. PICK e \in Evals : Called(e)
  BY DEF ToggleAutoConnect
<1>2. calls' \in 0 .. MaxCalls
  BY <1>1, CalledFacts
<1>3. SlotsOK'
  BY WireShrinks DEF Inv, ToggleAutoConnect, connection, attempts
<1>4. GatesType'
  BY <1>2 DEF Inv, ToggleAutoConnect, GatesType, gates, timers
<1> QED BY <1>3, <1>4, OthersKeep DEF ToggleAutoConnect

\* The editor binds its global, and a page that calms down.
LEMMA EditorKeeps ==
  ASSUME Inv, Bind \/ CalmsDown
  PROVE  Inv'
<1>1. SlotsOK'
  BY WireShrinks DEF Inv, Bind, CalmsDown, connection, attempts
<1>2. RegistryOK'
  BY DEF Inv, RegistryOK, Bind, CalmsDown, registry, Shared
<1>3. GatesType'
  BY DEF Inv, GatesType, Bind, CalmsDown, gates, timers
<1> QED BY <1>1, <1>2, <1>3 DEF Inv

------------------------------------------------------------------------------
(* The theorems. *)

LEMMA InitInv == Init => Inv
<1> SUFFICES ASSUME Init PROVE Inv
  OBVIOUS
<1>1. /\ 0 \in 0 .. MaxEvals /\ 0 \in 0 .. MaxTries /\ 0 \in 0 .. MaxCalls
      /\ 0 \in 0 .. MaxRetries /\ 0 \in 0 .. 0 /\ 0 \in Nat
  BY ControllerAssumption
<1>2. ConnectionType
  BY <1>1 DEF Init, ConnectionType
<1>3. TriesAreOwned /\ SlotIsNewest /\ NewestIsReady /\ WireIsInSlot
  BY DEF Init, TriesAreOwned, SlotIsNewest, NewestIsReady, WireIsInSlot
<1>4. RegistryOK
  BY <1>1 DEF Init, RegistryOK, Shared
<1>5. GatesType
  BY <1>1 DEF Init, GatesType
<1> QED BY <1>2, <1>3, <1>4, <1>5 DEF Inv, SlotsOK

LEMMA NextKeeps == Inv /\ [Next]_vars => Inv'
<1> SUFFICES ASSUME Inv, [Next]_vars PROVE Inv'
  OBVIOUS
<1>1. CASE Evaluate
  BY <1>1, EvaluateKeeps
<1>2. CASE Bind \/ CalmsDown
  BY <1>2, EditorKeeps
<1>3. CASE ToggleAutoConnect
  BY <1>3, ToggleKeeps
<1>4. CASE \E d \in Evals : Knock(d) \/ NextMacrotask(d)
  BY <1>4, KnockKeeps, NextMacrotaskKeeps
<1>5. ASSUME NEW e \in Evals,
             Activate(e) \/ About(e) \/ Stop(e) \/ RePair(e) \/ Deactivate(e)
      PROVE  Inv'
  BY <1>5, ActivateKeeps, AboutKeeps, StopKeeps, RePairKeeps, DeactivateKeeps
<1>6. ASSUME NEW e \in Evals, Reconnect(e) PROVE Inv'
  <2>1. e \in 1 .. loaded /\ bound = "yes" /\ calls' \in 0 .. MaxCalls
    BY <1>6, CalledFacts DEF Reconnect
  <2>2. repairs' \subseteq 1 .. loaded /\ Reconnects(e)
    BY <1>6 DEF Inv, RegistryOK, Reconnect
  <2> QED BY <2>1, <2>2, ReconnectsKeeps
<1>7. ASSUME NEW e \in Evals, RePaired(e) PROVE Inv'
  <2>1. e \in 1 .. loaded /\ bound = "yes" /\ calls' \in 0 .. MaxCalls
    BY <1>7 DEF Inv, RegistryOK, GatesType, RePaired
  <2>2. repairs' \subseteq 1 .. loaded /\ Reconnects(e)
    BY <1>7 DEF Inv, RegistryOK, RePaired
  <2> QED BY <2>1, <2>2, ReconnectsKeeps
<1>8. CASE \E t \in Tries : Settle(t) \/ Started(t) \/ Refused(t)
  BY <1>8, AttemptKeeps
<1>9. CASE UNCHANGED vars
  BY <1>9 DEF vars, Inv, SlotsOK, ConnectionType, TriesAreOwned, SlotIsNewest, NewestIsReady,
     WireIsInSlot, RegistryOK, Shared, GatesType, editor, registry, gates, timers, connection, attempts
<1> QED BY <1>1, <1>2, <1>3, <1>4, <1>5, <1>6, <1>7, <1>8, <1>9 DEF Next

THEOREM Invariance == Spec => []Inv
BY InitInv, NextKeeps, PTL DEF Spec

\* Every variable holds a value of its kind, however many evaluations, attempts, calls
\* and retries there are; in particular no controller knocks more often than its ladder
\* has delays.
THEOREM TypeCorrect == Spec => []TypeOK
<1>1. Inv => TypeOK
  BY DEF Inv, SlotsOK, ConnectionType, RegistryOK, GatesType, TypeOK
<1> QED BY <1>1, Invariance, PTL

\* However many attempts of a controller overlap, only the transport in its slot runs.
THEOREM SlotOnWire == Spec => []OnlySlotOnWire
<1>1. Inv => OnlySlotOnWire
  BY DEF Inv, SlotsOK, WireIsInSlot, OnlySlotOnWire
<1> QED BY <1>1, Invariance, PTL

\* And its controller's alarm is up.
THEOREM Watched == Spec => []WireIsWatched
<1>1. Inv => WireIsWatched
  BY DEF Inv, SlotsOK, WireIsInSlot, WireIsWatched
<1> QED BY <1>1, Invariance, PTL

\* However often the bundle is evaluated, the controllers that reached the editor's object
\* are one, and have one transport running.
THEOREM OneShared == Spec => []OneConnection
<1>1. ASSUME Inv, NEW t \in wire, NEW u \in wire, Shared(of[t]), Shared(of[u])
      PROVE  t = u
  <2>1. of[t] \in Evals /\ of[u] \in Evals
    BY <1>1, ControllerAssumption DEF Inv, SlotsOK, ConnectionType, WireIsInSlot, Evals
  <2>2. of[t] = published /\ of[u] = published
    BY <1>1, <2>1 DEF Inv, RegistryOK
  <2> QED BY <1>1, <2>2 DEF Inv, SlotsOK, WireIsInSlot
<1>2. Inv => OneConnection
  BY <1>1 DEF OneConnection
<1> QED BY <1>2, Invariance, PTL

==============================================================================
