--------------------------- MODULE AutostartProofs ---------------------------
(***************************************************************************)
(* Proofs about the on-demand start, for any number of processes.          *)
(***************************************************************************)
EXTENDS Autostart, TLAPS

\* As long as nothing was taken over, whoever owns a start owns the stamp.
OwnersHoldTheStamp ==
  \A c \in Clis : pc[c] \in Starting => stamp = c \/ \E e \in Clis : took[e]

\* Only a takeover claims for the second time.
ReclaimTookOver ==
  \A c \in Clis : pc[c] = "reclaim" => took[c]

IInv == TypeOK /\ StampMarksAStart /\ OwnersHoldTheStamp /\ ReclaimTookOver

\* Nothing is started, stamped or taken over before the first probe.
LEMMA InitIInv == Init => IInv
  BY AutostartAssumption
     DEF Init, IInv, TypeOK, StampMarksAStart, OwnersHoldTheStamp, ReclaimTookOver, Starting

\* Steps that leave the stamp alone and bring nobody into a start, or keep it there.
LEMMA PassiveKeeps ==
  ASSUME IInv, NEW c \in Clis,
         pc' = pc \/ \E to \in {"claim", "wait", "stale", "unlink", "watch", "release", "done",
                                "killed"} :
                       /\ pc' = [pc EXCEPT ![c] = to]
                       /\ to \in Starting => pc[c] \in Starting
                       /\ pc[c] \in Starting => to \in Starting \cup {"killed"},
         pc[c] # "killed" \/ pc' = pc,
         UNCHANGED <<stamp, took>>,
         aged' \in BOOLEAN,
         daemon' \in [Clis -> {"none", "starting", "up", "over"}],
         ok' \in [Clis -> BOOLEAN]
  PROVE IInv'
<1>1. TypeOK'
  BY DEF IInv, TypeOK, Starting
<1>2. StampMarksAStart'
  BY DEF IInv, TypeOK, StampMarksAStart, Starting
<1>3. OwnersHoldTheStamp'
  BY DEF IInv, TypeOK, OwnersHoldTheStamp, Starting
<1>4. ReclaimTookOver'
  BY DEF IInv, TypeOK, ReclaimTookOver, Starting
<1> QED  BY <1>1, <1>2, <1>3, <1>4 DEF IInv

\* The exclusive creation: the first claim, or the one after a takeover.
LEMMA CreateKeeps ==
  ASSUME IInv, NEW c \in Clis, NEW lost \in {"wait", "done"},
         pc[c] \in {"claim", "reclaim"},
         CreateStamp(c, lost),
         UNCHANGED <<took, daemon, ok>>
  PROVE IInv'
<1>1. TypeOK'
  BY DEF IInv, TypeOK, Starting, CreateStamp
<1>2. StampMarksAStart'
  BY AutostartAssumption DEF IInv, TypeOK, StampMarksAStart, Starting, CreateStamp
<1>3. OwnersHoldTheStamp'
  \* The file was not there: had anyone been in a start, it would have been taken over.
  BY AutostartAssumption DEF IInv, TypeOK, OwnersHoldTheStamp, Starting, CreateStamp
<1>4. ReclaimTookOver'
  BY DEF IInv, TypeOK, ReclaimTookOver, Starting, CreateStamp
<1> QED  BY <1>1, <1>2, <1>3, <1>4 DEF IInv

\* The takeover unlinks anybody's stamp, and says so.
LEMMA UnlinkKeeps ==
  ASSUME IInv, NEW c \in Clis, Unlink(c)
  PROVE IInv'
<1>1. TypeOK'
  BY DEF IInv, TypeOK, Starting, Unlink, Go, RemoveStamp
<1>2. StampMarksAStart'
  BY AutostartAssumption DEF IInv, TypeOK, StampMarksAStart, Unlink, Go, RemoveStamp
<1>3. took'[c]
  BY DEF IInv, TypeOK, Unlink
<1>4. OwnersHoldTheStamp'
  BY <1>3 DEF OwnersHoldTheStamp
<1>5. ReclaimTookOver'
  BY <1>3 DEF IInv, TypeOK, ReclaimTookOver, Unlink, Go
<1> QED  BY <1>1, <1>2, <1>4, <1>5 DEF IInv

\* The finally unlinks anybody's stamp: its own, as long as nothing was taken over.
LEMMA FinallyKeeps ==
  ASSUME IInv, NEW c \in Clis, Finally(c)
  PROVE IInv'
<1>1. TypeOK'
  BY DEF IInv, TypeOK, Starting, Finally, Go, RemoveStamp
<1>2. StampMarksAStart'
  BY AutostartAssumption DEF IInv, TypeOK, StampMarksAStart, Finally, Go, RemoveStamp
<1>3. OwnersHoldTheStamp'
  <2> SUFFICES ASSUME NEW d \in Clis, pc'[d] \in Starting
               PROVE \E e \in Clis : took'[e]
    BY DEF OwnersHoldTheStamp
  <2>1. c # d /\ pc[d] \in Starting /\ pc[c] \in Starting
    BY DEF IInv, TypeOK, Finally, Go, Starting
  <2>2. \E e \in Clis : took[e]
    BY <2>1 DEF IInv, OwnersHoldTheStamp
  <2> QED  BY <2>2 DEF Finally
<1>4. ReclaimTookOver'
  BY DEF IInv, TypeOK, ReclaimTookOver, Finally, Go
<1> QED  BY <1>1, <1>2, <1>3, <1>4 DEF IInv

\* The invariant is inductive.
LEMMA NextKeepsIInv == IInv /\ [Next]_vars => IInv'
<1> SUFFICES ASSUME IInv, [Next]_vars PROVE IInv'
  OBVIOUS
<1> USE DEF IInv, TypeOK, Go, Starting
<1>1. ASSUME NEW c \in Clis, Probe(c) PROVE IInv'
  BY <1>1, PassiveKeeps DEF Probe, PortOpen
<1>2. ASSUME NEW c \in Clis, Claim(c) PROVE IInv'
  BY <1>2, CreateKeeps DEF Claim
<1>3. ASSUME NEW c \in Clis, WaitForOther(c) PROVE IInv'
  BY <1>3, PassiveKeeps DEF WaitForOther, PortOpen
<1>4. ASSUME NEW c \in Clis, LookAtStamp(c) PROVE IInv'
  BY <1>4, PassiveKeeps DEF LookAtStamp, StaleStamp
<1>5. ASSUME NEW c \in Clis, Reclaim(c) PROVE IInv'
  BY <1>5, CreateKeeps DEF Reclaim
<1>6. ASSUME NEW c \in Clis, Spawn(c) PROVE IInv'
  BY <1>6, PassiveKeeps DEF Spawn
<1>7. ASSUME NEW c \in Clis, WaitForOwn(c) PROVE IInv'
  BY <1>7, PassiveKeeps DEF WaitForOwn, PortOpen
<1>8. ASSUME NEW c \in Clis, Kill(c) PROVE IInv'
  BY <1>8, PassiveKeeps DEF Kill
<1>9. ASSUME NEW c \in Clis, DaemonBinds(c) \/ DaemonDies(c) PROVE IInv'
  BY <1>9, PassiveKeeps DEF DaemonBinds, DaemonDies, PortOpen
<1>10. ASSUME Age PROVE IInv'
  <2>1. stamp \in Clis  BY <1>10 DEF Age
  <2> QED  BY <1>10, <2>1, PassiveKeeps DEF Age
<1>11. ASSUME UNCHANGED vars PROVE IInv'
  BY <1>11 DEF vars, StampMarksAStart, OwnersHoldTheStamp, ReclaimTookOver
<1> QED
  BY <1>1, <1>2, <1>3, <1>4, <1>5, <1>6, <1>7, <1>8, <1>9, <1>10, <1>11, UnlinkKeeps, FinallyKeeps
     DEF Next, Ensure

\* The strengthened invariant holds in every behaviour.
LEMMA IInvHolds == Spec => []IInv
  BY InitIInv, NextKeepsIInv, PTL DEF Spec

------------------------------------------------------------------------------

\* However many commands race for the start, and wherever they are killed, a stamp
\* file is there only while its creator is starting a daemon, or because it was killed.
THEOREM NoOrphanStamp == Spec => []StampMarksAStart
<1>1. IInv => StampMarksAStart
  BY DEF IInv
<1> QED  BY <1>1, IInvHolds, PTL

\* O_EXCL is a lock among any number of commands until the first takeover.
THEOREM StartsExclusiveWithoutTakeover == Spec => []StartsOverlapOnlyByTakeover
<1>1. IInv => StartsOverlapOnlyByTakeover
  BY DEF IInv, OwnersHoldTheStamp, StartsOverlapOnlyByTakeover
<1> QED  BY <1>1, IInvHolds, PTL

==============================================================================
