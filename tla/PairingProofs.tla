---------------------------- MODULE PairingProofs ----------------------------
(***************************************************************************)
(* Proofs about the pairing, for any number of windows, editors and        *)
(* tokens.                                                                 *)
(***************************************************************************)
EXTENDS Pairing, TLAPS

\* A window offers a token of its own editor, and is only served with one.
OffersOwnToken ==
  \A w \in Windows :
    /\ tok[w] # NoToken => owner[tok[w]] = {EditorOf[w]}
    /\ phase[w] = "open" => tok[w] # NoToken

\* So does a storage hold a token of its editor.
StoresOwnToken ==
  \A e \in Editors : stored[e] # NoToken => owner[stored[e]] = {e}

\* An editor whose storage never lost anything generated one token at most, and that
\* is in the storage or on its way there.
OneTokenEach ==
  \A e \in Editors, t, u \in Tokens :
    e \notin lossy /\ owner[t] = {e} =>
      /\ t \in writing \/ stored[e] = t
      /\ owner[u] = {e} => u = t

IInv == TypeOK /\ LiveTokensAreOnFile /\ OffersOwnToken /\ StoresOwnToken /\ OneTokenEach

\* The storage's share of the invariant.
StorageInv == StoresOwnToken /\ OneTokenEach

LEMMA InitIInv == Init => IInv
<1> SUFFICES ASSUME Init  PROVE IInv
  OBVIOUS
<1> USE PairingAssumption DEF Init
<1>1. TypeOK
  BY DEF TypeOK
<1>2. LiveTokensAreOnFile
  BY DEF LiveTokensAreOnFile, Live
<1>3. OffersOwnToken /\ StoresOwnToken /\ OneTokenEach
  BY DEF OffersOwnToken, StoresOwnToken, OneTokenEach
<1> QED  BY <1>1, <1>2, <1>3 DEF IInv

\* A new token: the editor had none, or is marked as having asked twice.
LEMMA GenerateKeeps ==
  ASSUME IInv, NEW w \in Windows, NEW t \in Tokens, phase[w] = "off",
         stored[EditorOf[w]] = NoToken, Generate(w, t), UNCHANGED daemonVars
  PROVE IInv'
<1> DEFINE e == EditorOf[w]
<1>0. e \in Editors /\ owner[t] = {}
  BY PairingAssumption DEF Generate, Fresh
<1>1. TypeOK'
  BY <1>0, PairingAssumption DEF IInv, TypeOK, Generate, daemonVars
<1>2. LiveTokensAreOnFile'
  BY <1>0 DEF IInv, TypeOK, LiveTokensAreOnFile, Live, Generate, daemonVars
<1>3. OffersOwnToken'
  BY <1>0, PairingAssumption DEF IInv, TypeOK, OffersOwnToken, Generate
<1>4. StoresOwnToken'
  BY <1>0, PairingAssumption DEF IInv, TypeOK, StoresOwnToken, Generate
<1>5. OneTokenEach'
  <2> SUFFICES ASSUME NEW d \in Editors, NEW s \in Tokens, NEW u \in Tokens,
                      d \notin lossy', owner'[s] = {d}
               PROVE  /\ s \in writing' \/ stored'[d] = s
                      /\ owner'[u] = {d} => u = s
    BY DEF OneTokenEach
  <2>0. /\ owner' = [owner EXCEPT ![t] = {e}] /\ writing' = writing \cup {t} /\ stored' = stored
        /\ lossy' = lossy \cup {c \in {e} : \E v \in writing : owner[v] = {c}}
        /\ d \notin lossy
    BY DEF Generate
  <2>1. CASE d = e
    <3>1. \A v \in Tokens : owner[v] # {e}
      BY <2>0, <2>1, <1>0, PairingAssumption DEF IInv, OneTokenEach
    <3> QED  BY <3>1, <2>0, <2>1 DEF IInv, TypeOK
  <2>2. CASE d # e
    BY <2>0, <2>2, <1>0 DEF IInv, TypeOK, OneTokenEach
  <2> QED  BY <2>1, <2>2
<1> QED  BY <1>1, <1>2, <1>3, <1>4, <1>5 DEF IInv

\* Window w, and nobody else, starts a new attempt with a token of its editor, or none.
Moves(w) ==
  /\ phase'[w] # "open"
  /\ \A v \in Windows \ {w} : phase'[v] = phase[v] /\ tok'[v] = tok[v]
  /\ tok'[w] # NoToken => owner[tok'[w]] = {EditorOf[w]}
  /\ dying' = dying \/ (phase[w] = "open" /\ dying' = dying \cup {tok[w]})
  /\ UNCHANGED <<record, withdrawn, owner>>

LEMMA WindowKeeps ==
  ASSUME IInv, TypeOK', NEW w \in Windows, Moves(w)
  PROVE LiveTokensAreOnFile' /\ OffersOwnToken'
<1>1. Live' \subseteq Live
  BY DEF IInv, TypeOK, Live, Moves
<1>2. LiveTokensAreOnFile'
  BY <1>1 DEF IInv, LiveTokensAreOnFile, Moves
<1>3. OffersOwnToken'
  BY DEF IInv, TypeOK, OffersOwnToken, Moves
<1> QED  BY <1>2, <1>3

\* The end of a write: what was on its way is in the storage, or the storage is marked.
LEMMA StoreKeeps ==
  ASSUME IInv, NEW t \in Tokens, StoreLands(t) \/ StoreRefused(t)
  PROVE IInv'
<1>0. /\ t \in writing /\ writing' = writing \ {t}
      /\ UNCHANGED <<record, withdrawn, dying, tok, owner>>
      /\ phase' = [w \in Windows |->
                     IF phase[w] = "storing" /\ tok[w] = t THEN "dialing" ELSE phase[w]]
  BY DEF StoreLands, StoreRefused, StoreReturned, daemonVars
<1>1. TypeOK'
  BY <1>0 DEF IInv, TypeOK, StoreLands, StoreRefused
<1>2. Live' = Live
  BY <1>0 DEF Live, IInv, TypeOK
<1>3. LiveTokensAreOnFile'
  BY <1>0, <1>2 DEF IInv, LiveTokensAreOnFile
<1>4. OffersOwnToken'
  BY <1>0 DEF IInv, TypeOK, OffersOwnToken
<1>5. StoresOwnToken'
  BY <1>0 DEF IInv, TypeOK, StoresOwnToken, StoreLands, StoreRefused
<1>6. OneTokenEach'
  <2>1. CASE StoreLands(t)
    BY <2>1, <1>0 DEF IInv, TypeOK, OneTokenEach, StoreLands
  <2>2. CASE StoreRefused(t)
    BY <2>2, <1>0 DEF IInv, TypeOK, OneTokenEach, StoreRefused
  <2> QED  BY <2>1, <2>2
<1> QED  BY <1>1, <1>3, <1>4, <1>5, <1>6 DEF IInv

\* Emptying a storage marks it.
LEMMA WipeKeeps ==
  ASSUME IInv, NEW e \in Editors, stored' = [stored EXCEPT ![e] = NoToken],
         lossy' = lossy \cup {e}, UNCHANGED <<writing, owner>>
  PROVE StorageInv'
  BY DEF IInv, TypeOK, StorageInv, StoresOwnToken, OneTokenEach

\* What leaves the storage alone keeps its share.
LEMMA StorageKeeps ==
  ASSUME IInv, UNCHANGED storageVars
  PROVE StorageInv'
  BY DEF IInv, StorageInv, StoresOwnToken, OneTokenEach, storageVars

\* The hello: with a window that goes live, its token is on file, and whatever else is
\* live is that same token, or was withdrawn before.
LEMMA HelloKeeps ==
  ASSUME IInv, NEW w \in Windows, NEW version, NEW origin, Hello(w, version, origin)
  PROVE IInv'
<1>0. /\ phase[w] = "dialing" /\ phase' = [phase EXCEPT ![w] = Verdict(w, version, origin)]
      /\ UNCHANGED <<dying, tok, storageVars>>
      /\ Verdict(w, version, origin) \in {"open"} \cup Refused
  BY DEF Hello, Verdict, Refused
<1>a. StorageInv'
  BY <1>0, StorageKeeps
<1>1. CASE Verdict(w, version, origin) = "open"
  <2>0. /\ tok[w] # NoToken /\ Trusted(w, origin)
        /\ record' = tok[w] /\ withdrawn' = withdrawn \ {tok[w]}
    BY <1>1 DEF Hello, Verdict
  <2>1. TypeOK'
    BY <1>0, <1>1, <2>0 DEF IInv, TypeOK, storageVars
  <2>2. Live' = Live \cup {tok[w]}
    BY <1>0, <1>1 DEF IInv, TypeOK, Live
  <2>3. LiveTokensAreOnFile'
    <3> SUFFICES ASSUME NEW t \in Live, t # tok[w]
                 PROVE t \in Tokens /\ t \in withdrawn'
      BY <2>0, <2>2 DEF LiveTokensAreOnFile, IInv, TypeOK
    <3>1. t \in Tokens /\ (t = record \/ t \in withdrawn)
      BY DEF IInv, LiveTokensAreOnFile
    <3>2. record = tok[w] \/ record = NoToken
      BY <2>0 DEF Trusted
    <3> QED  BY <3>1, <3>2, <2>0, PairingAssumption
  <2>4. OffersOwnToken'
    BY <1>0, <2>0 DEF IInv, TypeOK, OffersOwnToken, storageVars
  <2> QED  BY <2>1, <2>3, <2>4, <1>a DEF IInv, StorageInv
<1>2. CASE Verdict(w, version, origin) # "open"
  <2>0. UNCHANGED <<record, withdrawn>>
    BY <1>2 DEF Hello
  <2>1. TypeOK'
    BY <1>0, <2>0 DEF IInv, TypeOK, storageVars, Refused
  <2>2. Live' = Live
    BY <1>0, <1>2 DEF IInv, TypeOK, Live
  <2>3. LiveTokensAreOnFile'
    BY <2>0, <2>2 DEF IInv, LiveTokensAreOnFile
  <2>4. OffersOwnToken'
    BY <1>0, <1>2 DEF IInv, TypeOK, OffersOwnToken, storageVars
  <2> QED  BY <2>1, <2>3, <2>4, <1>a DEF IInv, StorageInv
<1> QED  BY <1>1, <1>2

\* The sockets that are left hold what they held, and a record that went is withdrawn.
LEMMA SocketsKeep ==
  ASSUME IInv, Live' \subseteq Live, UNCHANGED <<tok, storageVars>>,
         phase' = phase \/ SocketsClose,
         dying' \subseteq Tokens,
         UNCHANGED <<record, withdrawn>> \/ Forget
  PROVE IInv'
<1>1. TypeOK'
  BY DEF IInv, TypeOK, SocketsClose, Forget, storageVars
<1>2. LiveTokensAreOnFile'
  BY PairingAssumption DEF IInv, TypeOK, LiveTokensAreOnFile, Forget
<1>3. OffersOwnToken'
  BY DEF IInv, TypeOK, OffersOwnToken, SocketsClose, storageVars
<1> QED  BY <1>1, <1>2, <1>3, StorageKeeps DEF IInv, StorageInv

LEMMA NextKeepsIInv == IInv /\ [Next]_vars => IInv'
<1> SUFFICES ASSUME IInv, [Next]_vars  PROVE IInv'
  OBVIOUS
<1>1. ASSUME NEW w \in Windows, StartStored(w)  PROVE IInv'
  <2>0. /\ EditorOf[w] \in Editors /\ owner[stored[EditorOf[w]]] = {EditorOf[w]}
        /\ stored[EditorOf[w]] \in Tokens
    BY <1>1, PairingAssumption DEF StartStored, IInv, TypeOK, StoresOwnToken
  <2>1. TypeOK'
    BY <1>1, <2>0 DEF IInv, TypeOK, StartStored, daemonVars, storageVars
  <2>2. LiveTokensAreOnFile' /\ OffersOwnToken'
    <3>1. Moves(w)
      BY <1>1, <2>0 DEF IInv, TypeOK, Moves, StartStored, daemonVars, storageVars
    <3> QED  BY <2>1, <3>1, WindowKeeps
  <2> QED  BY <1>1, <2>1, <2>2, StorageKeeps DEF IInv, StorageInv, StartStored
<1>2. ASSUME NEW w \in Windows, StartEmpty(w)  PROVE IInv'
  <2>1. CASE \E t \in Tokens : Generate(w, t)
    BY <1>2, <2>1, GenerateKeeps DEF StartEmpty
  <2>2. CASE /\ phase' = [phase EXCEPT ![w] = "dialing"]
             /\ tok' = [tok EXCEPT ![w] = NoToken]
             /\ UNCHANGED storageVars
    <3>0. UNCHANGED daemonVars
      BY <1>2 DEF StartEmpty
    <3>1. TypeOK'
      BY <2>2, <3>0 DEF IInv, TypeOK, daemonVars, storageVars
    <3>2. LiveTokensAreOnFile' /\ OffersOwnToken'
      <4>1. Moves(w)
        BY <2>2, <3>0 DEF IInv, TypeOK, Moves, daemonVars, storageVars
      <4> QED  BY <3>1, <4>1, WindowKeeps
    <3> QED  BY <2>2, <3>1, <3>2, StorageKeeps DEF IInv, StorageInv
  <2> QED  BY <1>2, <2>1, <2>2 DEF StartEmpty
<1>3. ASSUME NEW w \in Windows, Restart(w) \/ LinkLost(w)  PROVE IInv'
  <2>0. /\ dying' = dying \/ (phase[w] = "open" /\ dying' = dying \cup {tok[w]})
        /\ UNCHANGED <<record, withdrawn, storageVars>>
    BY <1>3 DEF Restart, LinkLost, LeaveSocket
  <2>1. \E to \in {"off", "dialing"}, t \in Tokens \cup {NoToken} :
          /\ phase' = [phase EXCEPT ![w] = to] /\ tok' = [tok EXCEPT ![w] = t]
          /\ t # NoToken => owner[t] = {EditorOf[w]}
    BY <1>3 DEF Restart, LinkLost, IInv, TypeOK, OffersOwnToken
  <2>2. phase[w] = "open" => tok[w] \in Tokens
    BY DEF IInv, TypeOK, OffersOwnToken
  <2>3. TypeOK'
    BY <2>0, <2>1, <2>2 DEF IInv, TypeOK, storageVars
  <2>4. LiveTokensAreOnFile' /\ OffersOwnToken'
    <3>1. Moves(w)
      BY <2>0, <2>1 DEF IInv, TypeOK, Moves, storageVars
    <3> QED  BY <2>3, <3>1, WindowKeeps
  <2> QED  BY <2>0, <2>3, <2>4, StorageKeeps DEF IInv, StorageInv
<1>4. ASSUME NEW w \in Windows, RePair(w)  PROVE IInv'
  <2>0. /\ dying' = dying \/ (phase[w] = "open" /\ dying' = dying \cup {tok[w]})
        /\ UNCHANGED <<record, withdrawn, writing, owner>>
        /\ EditorOf[w] \in Editors
    BY <1>4, PairingAssumption DEF RePair, LeaveSocket
  <2>1. phase[w] = "open" => tok[w] \in Tokens
    BY DEF IInv, TypeOK, OffersOwnToken
  <2>2. TypeOK'
    BY <1>4, <2>0, <2>1 DEF IInv, TypeOK, RePair
  <2>3. LiveTokensAreOnFile' /\ OffersOwnToken'
    <3>1. Moves(w)
      BY <1>4, <2>0 DEF IInv, TypeOK, Moves, RePair
    <3> QED  BY <2>2, <3>1, WindowKeeps
  <2>4. StorageInv'
    BY <1>4, <2>0, WipeKeeps, StorageKeeps DEF RePair, storageVars
  <2> QED  BY <2>2, <2>3, <2>4 DEF IInv, StorageInv
<1>5. ASSUME NEW w \in Windows, DaemonDiesPairing(w)  PROVE IInv'
  <2>1. Live' \subseteq Live
    BY <1>5 DEF DaemonDiesPairing, SocketsClose, Live
  <2> QED  BY <1>5, <2>1, SocketsKeep DEF DaemonDiesPairing, SocketsClose
<1>6. ASSUME NEW t \in Tokens, DyingCloses(t)  PROVE IInv'
  <2>1. Live' \subseteq Live
    BY <1>6 DEF DyingCloses, Live
  <2> QED  BY <1>6, <2>1, SocketsKeep DEF DyingCloses, IInv, TypeOK
<1>7. ASSUME NEW e \in Editors, Sideload(e)  PROVE IInv'
  <2>1. StorageInv'
    BY <1>7, WipeKeeps DEF Sideload
  <2>2. TypeOK'
    BY <1>7 DEF Sideload, IInv, TypeOK, daemonVars
  <2>3. LiveTokensAreOnFile' /\ OffersOwnToken'
    BY <1>7 DEF Sideload, IInv, LiveTokensAreOnFile, Live, OffersOwnToken, daemonVars
  <2> QED  BY <2>1, <2>2, <2>3 DEF IInv, StorageInv
<1>8. CASE Revoke
  <2>1. Live' \subseteq Live
    BY <1>8 DEF Revoke, Live
  <2> QED  BY <1>8, <2>1, SocketsKeep DEF Revoke, IInv, TypeOK
<1>9. CASE DaemonRestarts
  <2>1. Live' \subseteq Live
    BY <1>9 DEF DaemonRestarts, SocketsClose, Live
  <2> QED  BY <1>9, <2>1, SocketsKeep DEF DaemonRestarts, SocketsClose
<1>10. CASE UNCHANGED vars
  BY <1>10 DEF vars, IInv, TypeOK, LiveTokensAreOnFile, Live, OffersOwnToken, StoresOwnToken,
               OneTokenEach
<1> QED
  BY <1>1, <1>2, <1>3, <1>4, <1>5, <1>6, <1>7, <1>8, <1>9, <1>10, HelloKeeps, StoreKeeps DEF Next

\* The invariant of every behaviour.
LEMMA Invariance == Spec => []IInv
<1>1. Init => IInv
  BY InitIInv
<1>2. IInv /\ [Next]_vars => IInv'
  BY NextKeepsIInv
<1> QED  BY <1>1, <1>2, PTL DEF Spec

\* Type correctness.
THEOREM TypeCorrect == Spec => []TypeOK
  BY Invariance, PTL DEF IInv

\* No socket the daemon counts as open holds a token that another window's replaced.
THEOREM LiveTokensOnFile == Spec => []LiveTokensAreOnFile
  BY Invariance, PTL DEF IInv

------------------------------------------------------------------------------
(* Only a hello puts a token on file, and only a hello refuses a window. *)

\* Everything but the hello leaves the record or empties it, and refuses nobody.
LEMMA OthersDoNotPair ==
  ASSUME IInv, [Next]_vars,
         ~ \E w \in Windows, version \in {"ours", "other"}, origin \in {"editor", "web"} :
             Hello(w, version, origin)
  PROVE /\ record' \in {record, NoToken}
        /\ \A v \in Windows : phase[v] = "dialing" => phase'[v] # "UNAUTHENTICATED"
<1> DEFINE Goal == /\ record' \in {record, NoToken}
                   /\ \A v \in Windows : phase[v] = "dialing" => phase'[v] # "UNAUTHENTICATED"
<1>1. ASSUME NEW w \in Windows,
             StartStored(w) \/ StartEmpty(w) \/ Restart(w) \/ RePair(w) \/ LinkLost(w)
      PROVE Goal
  BY <1>1 DEF StartStored, StartEmpty, Generate, Restart, RePair, LinkLost, daemonVars,
              IInv, TypeOK
<1>2. ASSUME NEW w \in Windows, DaemonDiesPairing(w)  PROVE Goal
  BY <1>2 DEF DaemonDiesPairing, SocketsClose, Forget
<1>3. ASSUME NEW t \in Tokens, StoreLands(t) \/ StoreRefused(t) \/ DyingCloses(t)  PROVE Goal
  BY <1>3 DEF StoreLands, StoreRefused, StoreReturned, DyingCloses, daemonVars
<1>4. ASSUME NEW e \in Editors, Sideload(e)  PROVE Goal
  BY <1>4 DEF Sideload, daemonVars
<1>5. CASE Revoke \/ DaemonRestarts
  BY <1>5 DEF Revoke, DaemonRestarts, SocketsClose, Forget
<1>6. CASE UNCHANGED vars
  BY <1>6 DEF vars
<1> QED  BY <1>1, <1>2, <1>3, <1>4, <1>5, <1>6 DEF Next

\* A pairing is committed for a window that is served, and takes nobody's place.
THEOREM PairingAdmitsTheorem == Spec => PairingAdmits
<1>1. IInv /\ [Next]_vars =>
        [record' \notin {record, NoToken} =>
           /\ \E w \in Windows : phase[w] = "dialing" /\ tok[w] = record' /\ phase'[w] = "open"
           /\ record # NoToken => Live = {}]_vars
  <2> SUFFICES ASSUME IInv, [Next]_vars, record' \notin {record, NoToken}
               PROVE /\ \E w \in Windows :
                          phase[w] = "dialing" /\ tok[w] = record' /\ phase'[w] = "open"
                     /\ record # NoToken => Live = {}
    OBVIOUS
  <2>1. PICK w \in Windows, version \in {"ours", "other"}, origin \in {"editor", "web"} :
          Hello(w, version, origin)
    BY OthersDoNotPair
  <2>2. Verdict(w, version, origin) = "open" /\ record' = tok[w]
    BY <2>1 DEF Hello
  <2>3. Trusted(w, origin)
    BY <2>2 DEF Verdict
  <2>4. phase[w] = "dialing" /\ phase'[w] = "open"
    BY <2>1, <2>2 DEF Hello, IInv, TypeOK
  <2> QED  BY <2>2, <2>3, <2>4 DEF Trusted
<1> QED  BY <1>1, Invariance, PTL DEF Spec, PairingAdmits

\* One editor's token replaces another of its own only after a loss in its storage.
THEOREM RePairHasAReasonTheorem == Spec => RePairHasAReason
<1>1. IInv /\ [Next]_vars =>
        [\A e \in Editors :
           record' # record /\ record # NoToken /\ record' # NoToken /\ owner[record] = {e}
             /\ owner[record'] = {e} => e \in lossy]_vars
  <2> SUFFICES ASSUME IInv, [Next]_vars, NEW e \in Editors,
                      record' # record, record # NoToken, record' # NoToken,
                      owner[record] = {e}, owner[record'] = {e}
               PROVE e \in lossy
    OBVIOUS
  <2>1. record \in Tokens /\ record' \in Tokens
    BY NextKeepsIInv DEF IInv, TypeOK
  <2> QED  BY <2>1 DEF IInv, OneTokenEach
<1> QED  BY <1>1, Invariance, PTL DEF Spec, RePairHasAReason

\* Nobody is locked out of the pairing of the own editor.
THEOREM PairedEditorIsNotLockedOutTheorem == Spec => PairedEditorIsNotLockedOut
<1>1. IInv /\ [Next]_vars =>
        [\A w \in Windows :
           /\ phase[w] = "dialing" /\ tok[w] # NoToken
           /\ record # NoToken /\ owner[record] = {EditorOf[w]} /\ EditorOf[w] \notin lossy
           => phase'[w] # "UNAUTHENTICATED"]_vars
  <2> SUFFICES ASSUME IInv, [Next]_vars, NEW w \in Windows,
                      phase[w] = "dialing", tok[w] # NoToken,
                      record # NoToken, owner[record] = {EditorOf[w]}, EditorOf[w] \notin lossy
               PROVE phase'[w] # "UNAUTHENTICATED"
    OBVIOUS
  <2>1. tok[w] = record
    BY PairingAssumption DEF IInv, TypeOK, OffersOwnToken, OneTokenEach
  <2>2. ASSUME NEW v \in Windows, NEW version \in {"ours", "other"},
               NEW origin \in {"editor", "web"}, Hello(v, version, origin)
        PROVE phase'[w] # "UNAUTHENTICATED"
    BY <2>1, <2>2 DEF Hello, Verdict, Trusted, IInv, TypeOK
  <2> QED  BY <2>2, OthersDoNotPair
<1> QED  BY <1>1, Invariance, PTL DEF Spec, PairedEditorIsNotLockedOut

==============================================================================
