------------------------------- MODULE Pairing -------------------------------
(***************************************************************************)
(* Pairing: the daemon keeps the token of the one connector it trusts in a *)
(* file, and every editor keeps a token of its own in the extension        *)
(* storage that its windows share.  daemon.py (_handshake,                 *)
(* _authenticate_connector, _pair), `bridge revoke`, and on the editor's   *)
(* side config.ts (ensureConnectorToken) and the menu's Reconnect, Stop    *)
(* and Re-pair.                                                            *)
(*                                                                         *)
(* A hello is one step: the daemon awaits nothing between reading the      *)
(* record and registering the window.  `bridge revoke` is another process. *)
(***************************************************************************)
CONSTANTS
  Windows,    \* editor windows that run the connector
  Editors,    \* editor profiles: one extension storage each
  EditorOf,   \* the profile a window belongs to
  Tokens,     \* the secrets that can be generated: bounds how often
  NoToken     \* no record, nothing stored, or a host without a random source

ASSUME PairingAssumption ==
  /\ EditorOf \in [Windows -> Editors]
  /\ NoToken \notin Tokens

VARIABLES
  record,     \* the pairing record on disk
  withdrawn,  \* tokens that a revoke or a torn write took off the record
  dying,      \* tokens of sockets that their window has left and the daemon still counts
  phase,      \* phase[w]: where the window's connection attempt is
  tok,        \* tok[w]: the token in its transport's configuration
  stored,     \* stored[e]: the token in the editor's storage
  writing,    \* tokens on their way into the storage
  owner,      \* owner[t]: the editors a window of which generated t (at most one)
  lossy       \* editors whose storage lost a token, or was asked twice at a time

daemonVars == <<record, withdrawn, dying>>
storageVars == <<stored, writing, owner, lossy>>
vars == <<record, withdrawn, dying, phase, tok, stored, writing, owner, lossy>>

\* A refused transport has stopped for good, and says with which code.
Refused == {"UNAUTHENTICATED", "VERSION_MISMATCH"}

\* Every variable holds a value of its kind.
TypeOK ==
  /\ record \in Tokens \cup {NoToken}
  /\ withdrawn \subseteq Tokens
  /\ dying \subseteq Tokens
  /\ phase \in [Windows -> {"off", "storing", "dialing", "open"} \cup Refused]
  /\ tok \in [Windows -> Tokens \cup {NoToken}]
  /\ stored \in [Editors -> Tokens \cup {NoToken}]
  /\ writing \subseteq Tokens
  /\ owner \in [Tokens -> SUBSET Editors]
  /\ lossy \subseteq Editors

\* A daemon that may have been paired before with a token nobody has any more.
Init ==
  /\ record \in Tokens \cup {NoToken}
  /\ withdrawn = {}
  /\ dying = {}
  /\ phase = [w \in Windows |-> "off"]
  /\ tok = [w \in Windows |-> NoToken]
  /\ stored = [e \in Editors |-> NoToken]
  /\ writing = {}
  /\ owner = [t \in Tokens |-> {}]
  /\ lossy = {}

Fresh(t) == owner[t] = {} /\ t # record

\* live_windows: the sockets the daemon's side counts as open, by their token.
Live == dying \cup {tok[w] : w \in {v \in Windows : phase[v] = "open"}}

------------------------------------------------------------------------------
(* The connector: which token it offers. *)

\* resolveConfig found a token in the storage.
StartStored(w) ==
  /\ phase[w] = "off"
  /\ stored[EditorOf[w]] # NoToken
  /\ phase' = [phase EXCEPT ![w] = "dialing"]
  /\ tok' = [tok EXCEPT ![w] = stored[EditorOf[w]]]
  /\ UNCHANGED <<daemonVars, storageVars>>

\* (Mutant of Generate: the token is not written to the storage.)
GenerateOnly(w, t) ==
  /\ Fresh(t)
  /\ phase' = [phase EXCEPT ![w] = "dialing"]
  /\ tok' = [tok EXCEPT ![w] = t]
  /\ owner' = [owner EXCEPT ![t] = {EditorOf[w]}]
  /\ UNCHANGED <<stored, writing, lossy>>

\* A new token, and the start of its write.  Another write of this editor may be
\* under way: neither knows of the other.
Generate(w, t) ==
  /\ Fresh(t)
  /\ phase' = [phase EXCEPT ![w] = "storing"]
  /\ tok' = [tok EXCEPT ![w] = t]
  /\ owner' = [owner EXCEPT ![t] = {EditorOf[w]}]
  /\ writing' = writing \cup {t}
  /\ lossy' = lossy \cup {e \in {EditorOf[w]} : \E u \in writing : owner[u] = {e}}
  /\ UNCHANGED stored

\* ensureConnectorToken with an empty storage; a host that has no usable random
\* source dials with no token at all.
StartEmpty(w) ==
  /\ phase[w] = "off"
  /\ stored[EditorOf[w]] = NoToken
  /\ \/ \E t \in Tokens : Generate(w, t)
     \/ /\ phase' = [phase EXCEPT ![w] = "dialing"]
        /\ tok' = [tok EXCEPT ![w] = NoToken]
        /\ UNCHANGED storageVars
  /\ UNCHANGED daemonVars

\* The await in ensureConnectorToken ends; a superseded attempt dials nothing.
StoreReturned(t) ==
  /\ t \in writing
  /\ writing' = writing \ {t}
  /\ phase' = [w \in Windows |->
                 IF phase[w] = "storing" /\ tok[w] = t THEN "dialing" ELSE phase[w]]

StoreLands(t) ==
  /\ StoreReturned(t)
  /\ stored' = [e \in Editors |-> IF owner[t] = {e} THEN t ELSE stored[e]]
  /\ UNCHANGED <<daemonVars, tok, owner, lossy>>

\* The storage answered false or threw: the token lives in this session only.
StoreRefused(t) ==
  /\ StoreReturned(t)
  /\ lossy' = lossy \cup owner[t]
  /\ UNCHANGED <<daemonVars, tok, stored, owner>>

\* The window's side of a socket is gone; the daemon may count it for a while.
LeaveSocket(w) ==
  IF phase[w] = "open" THEN dying' \in {dying, dying \cup {tok[w]}} ELSE UNCHANGED dying

\* A reload, Stop, Reconnect: the transport is torn down, what it offered forgotten.
Restart(w) ==
  /\ phase[w] # "off"
  /\ LeaveSocket(w)
  /\ phase' = [phase EXCEPT ![w] = "off"]
  /\ tok' = [tok EXCEPT ![w] = NoToken]
  /\ UNCHANGED <<record, withdrawn, storageVars>>

\* Menu: Re-pair.  Stops, clears the stored token unless the storage throws.
RePair(w) ==
  /\ LeaveSocket(w)
  /\ phase' = [phase EXCEPT ![w] = "off"]
  /\ tok' = [tok EXCEPT ![w] = NoToken]
  /\ \/ /\ stored' = [stored EXCEPT ![EditorOf[w]] = NoToken]
        /\ lossy' = lossy \cup {EditorOf[w]}
     \/ UNCHANGED <<stored, lossy>>
  /\ UNCHANGED <<record, withdrawn, writing, owner>>

\* A sideload resets the extension storage, under the windows that are running.
Sideload(e) ==
  /\ stored' = [stored EXCEPT ![e] = NoToken]
  /\ lossy' = lossy \cup {e}
  /\ UNCHANGED <<daemonVars, phase, tok, writing, owner>>

\* The connection is lost or given up; the transport dials again with the token it has.
LinkLost(w) ==
  /\ phase[w] = "open"
  /\ LeaveSocket(w)
  /\ phase' = [phase EXCEPT ![w] = "dialing"]
  /\ UNCHANGED <<record, withdrawn, tok, storageVars>>

------------------------------------------------------------------------------
(* The daemon. *)

\* (Mutant of Trusted: only registered windows count as connected, not sockets that
\* are still open.)
TrustedBesideDying(w, origin) ==
  \/ tok[w] = record
  \/ origin # "web" /\ \A v \in Windows : phase[v] # "open"

\* (Mutant of Trusted: the origin is looked at before the token.)
TrustedByOrigin(w, origin) ==
  /\ origin # "web"
  /\ tok[w] = record \/ record = NoToken \/ Live = {}

\* _authenticate_connector: the token on file, whatever the page; else, and not for a
\* web page, the first connector, or any while no socket is open.
Trusted(w, origin) ==
  \/ tok[w] = record
  \/ origin # "web" /\ (record = NoToken \/ Live = {})

\* _handshake: no token, then the protocol's major, then the secret.
Verdict(w, version, origin) ==
  IF tok[w] = NoToken THEN "UNAUTHENTICATED"
  ELSE IF version # "ours" THEN "VERSION_MISMATCH"
  ELSE IF Trusted(w, origin) THEN "open"
  ELSE "UNAUTHENTICATED"

\* (Mutant of Hello: pairs before it looks at the version.)
HelloPairsFirst(w, version, origin) ==
  /\ phase[w] = "dialing"
  /\ phase' = [phase EXCEPT ![w] = Verdict(w, version, origin)]
  /\ record' = IF Verdict(w, "ours", origin) = "open" THEN tok[w] ELSE record
  /\ withdrawn' = IF Verdict(w, "ours", origin) = "open" THEN withdrawn \ {tok[w]} ELSE withdrawn
  /\ UNCHANGED <<dying, tok, storageVars>>

\* The hello of a window's transport: it is registered with its token on file, or the
\* transport is refused and stops.
Hello(w, version, origin) ==
  /\ phase[w] = "dialing"
  /\ phase' = [phase EXCEPT ![w] = Verdict(w, version, origin)]
  /\ IF Verdict(w, version, origin) = "open"
       THEN record' = tok[w] /\ withdrawn' = withdrawn \ {tok[w]}
       ELSE UNCHANGED <<record, withdrawn>>
  /\ UNCHANGED <<dying, tok, storageVars>>

\* The daemon notices that a socket is closed.
DyingCloses(t) ==
  /\ t \in dying
  /\ dying' = dying \ {t}
  /\ UNCHANGED <<record, withdrawn, phase, tok, storageVars>>

\* (Mutant of Forget: it does not ask whether there is a record.)
ForgetAnyway ==
  /\ record' = NoToken
  /\ withdrawn' = withdrawn \cup {record}

\* The record goes without another in its place.
Forget ==
  /\ record' = NoToken
  /\ withdrawn' = withdrawn \cup ({record} \ {NoToken})

\* `bridge revoke`, in a process of its own: the windows stay connected.
Revoke ==
  /\ Forget
  /\ UNCHANGED <<dying, phase, tok, storageVars>>

\* All sockets close; the transports dial again.
SocketsClose ==
  /\ dying' = {}
  /\ phase' = [w \in Windows |-> IF phase[w] = "open" THEN "dialing" ELSE phase[w]]

\* The daemon is stopped, or dies, and another is started.
DaemonRestarts ==
  /\ SocketsClose
  /\ UNCHANGED <<record, withdrawn, tok, storageVars>>

\* It dies in _write_secret, which empties the file before it writes the token.
DaemonDiesPairing(w) ==
  /\ phase[w] = "dialing"
  /\ Verdict(w, "ours", "editor") = "open"
  /\ tok[w] # record
  /\ Forget
  /\ SocketsClose
  /\ UNCHANGED <<tok, storageVars>>

------------------------------------------------------------------------------

Next ==
  \/ \E w \in Windows :
       \/ StartStored(w) \/ StartEmpty(w) \/ Restart(w) \/ RePair(w) \/ LinkLost(w)
       \/ DaemonDiesPairing(w)
       \/ \E version \in {"ours", "other"}, origin \in {"editor", "web"} :
            Hello(w, version, origin)
  \/ \E t \in Tokens : StoreLands(t) \/ StoreRefused(t) \/ DyingCloses(t)
  \/ \E e \in Editors : Sideload(e)
  \/ Revoke
  \/ DaemonRestarts

Spec == Init /\ [][Next]_vars

------------------------------------------------------------------------------
(* Properties. *)

\* "An unknown token may only take over a pairing nobody is using, never one a live
\* window is connected with": whatever revokes, reconnects, reloads and restarts come in
\* between, every socket the daemon counts as open holds the token on file, or one that
\* was taken off the file, never one that another window's token replaced.
LiveTokensAreOnFile ==
  \A t \in Live : t \in Tokens /\ (t = record \/ t \in withdrawn)

\* A token comes on file only with a window that is served from that very hello on:
\* no pairing is committed for a connector the daemon then turns away, and none takes
\* the place of another while a socket is open.
PairingAdmits ==
  [][record' \notin {record, NoToken} =>
       /\ \E w \in Windows : phase[w] = "dialing" /\ tok[w] = record' /\ phase'[w] = "open"
       /\ record # NoToken => Live = {}]_vars

\* What ensureConnectorToken writes the token to the storage for: one editor's token
\* takes the place of another of the same editor only if its storage was emptied,
\* refused a write, or was asked for a first token by two attempts at once.
RePairHasAReason ==
  [][\A e \in Editors :
       record' # record /\ record # NoToken /\ record' # NoToken /\ owner[record] = {e}
         /\ owner[record'] = {e} => e \in lossy]_vars

\* An editor whose token is on file is never told that it is not paired, in whichever
\* of its windows and however often they reload, reconnect or change their origin.
PairedEditorIsNotLockedOut ==
  [][\A w \in Windows :
       /\ phase[w] = "dialing" /\ tok[w] # NoToken
       /\ record # NoToken /\ owner[record] = {EditorOf[w]} /\ EditorOf[w] \notin lossy
       => phase'[w] # "UNAUTHENTICATED"]_vars

==============================================================================
