-------------------------------- MODULE Auth --------------------------------
(***************************************************************************)
(* Who may do what on the remote server: the request middleware            *)
(* (server/server.go auth and authorize, the same steps inline in          *)
(* server/objects.go postObjects), the signed timestamp (httpsig), the     *)
(* replay cache (nonces), capability grants (grant), and the allowlist the *)
(* admin UI edits while requests are under way (admin, allowstore,         *)
(* allowlist).                                                             *)
(*                                                                         *)
(* A request is a value with its own nonce.  The network keeps every       *)
(* request ever sent and may deliver it any number of times, at any later  *)
(* time.  Signatures are perfect: what verifies was signed by its key.     *)
(* Client clocks are off by at most Skew; a handler reaches the replay     *)
(* cache at most Stall after it read the clock.                            *)
(***************************************************************************)
EXTENDS Integers, FiniteSets

CONSTANTS
    Identities,  \* public keys
    Requests,    \* records [id, key, need, grant]; a grant is a record or Nil
    Handlers,    \* concurrent handler goroutines
    Lines,       \* what an operator may type: records [options, admin]
    Window,      \* cfg.Window: the tolerance on request timestamps
    Skew, Stall, \* the environment's bounds, see above
    MaxTime,     \* bound on the clock
    MaxChanges,  \* bound on edits of the allowlist and restarts
    Nil          \* no entry in a map, no grant

VARIABLES
    now,         \* the server's clock
    signed,      \* request -> the timestamp it was signed with
    handling,    \* handler -> Idle, or a request under way (see Verify)
    seen,        \* nonces.Cache.seen
    served,      \* history: request -> how often its handler ran in this process
    db,          \* the allowstore's Pebble records: key -> record
    recs, list,  \* Store.recs and the published allowlist.List
    edit,        \* the edit that holds Store.mu with its DB write done, or NoEdit
    changes,     \* edits and restarts so far
    ackedEdits   \* history: key -> the line of the last acknowledged edit

authVars == <<now, signed, handling, seen, served, db, recs, list, edit, changes, ackedEdits>>

Idle == [stage |-> "idle"]
NoEdit == [op |-> "none"]

\* Clocks and handlers are only a little off, compared with the window.
ASSUME ClockAssumption ==
    /\ Window \in Nat /\ Skew \in Nat /\ Stall \in Nat
    /\ Skew + Stall <= Window
    /\ Nil \notin Int

----------------------------------------------------------------------------
(* Capabilities. *)

FullAccess == {"read", "push-objects", "write-refs"}

Capabilities == FullAccess \cup {"delegate", "wipe", "admin"}

Delegable == {"read", "push-objects"}

\* Entry.Allows: admin implies everything.
Allows(e, cap) == "admin" \in e \/ cap \in e

\* Entry.Caps: the canonical names of an entry.
CapsOf(e) == IF "admin" \in e THEN {"admin"} ELSE e

\* allowstore.Add: the record stored for a line and the admin checkbox.
Record(line) ==
    IF line.admin THEN [admin |-> TRUE, caps |-> {}]
    ELSE [admin |-> "admin" \in line.options, caps |-> CapsOf(line.options)]

\* record.entry: an empty caps list keeps its meaning of before there were any.
EntryOf(rec) ==
    IF rec.caps # {} THEN rec.caps
    ELSE IF rec.admin THEN {"admin"} ELSE FullAccess

\* allowlist.Parse: the entry the same line has in an allowed-keys file.
FileEntry(line) ==
    IF line.admin THEN {"admin"}
    ELSE IF line.options = {} THEN FullAccess ELSE line.options

\* allowstore.swap: the snapshot requests look keys up in.
Snapshot(rs) == [k \in Identities |-> IF rs[k] = Nil THEN Nil ELSE EntryOf(rs[k])]

Listed(l, k) == l[k] # Nil

\* The types of what operators type and clients send, and that Nil is neither.
ASSUME LinesAssumption ==
    /\ \A line \in Lines : /\ line.options \subseteq Capabilities /\ line.admin \in BOOLEAN
                          /\ line # Nil /\ Record(line) # Nil
    /\ \A caps \in SUBSET Capabilities : caps # Nil

ASSUME GrantsAssumption ==
    \A r \in Requests : r.grant # Nil => r.grant.issued \in Int /\ r.grant.expires \in Int

----------------------------------------------------------------------------
(* Requests. *)

AuthInit ==
    /\ now = 0
    /\ signed = [r \in Requests |-> Nil]
    /\ handling = [w \in Handlers |-> Idle]
    /\ seen = [r \in Requests |-> Nil]
    /\ served = [r \in Requests |-> 0]
    /\ ackedEdits \in [Identities -> Lines \cup {Nil}]
    /\ db = [k \in Identities |-> IF ackedEdits[k] = Nil THEN Nil ELSE Record(ackedEdits[k])]
    /\ recs = db
    /\ list = Snapshot(recs)
    /\ edit = NoEdit
    /\ changes = 0

\* Time passes, but no handler stays longer than Stall between its clock
\* reading and the replay cache.
Tick ==
    /\ now < MaxTime
    /\ \A w \in Handlers : handling[w] # Idle => now < handling[w].at + Stall
    /\ now' = now + 1
    /\ UNCHANGED <<signed, handling, seen, served, db, recs, list, edit, changes, ackedEdits>>

\* httpsig.SignRequest, by a client whose clock reads ts.
SignRequest(r) ==
    /\ signed[r] = Nil
    /\ \E ts \in (now - Skew)..(now + Skew) : signed' = [signed EXCEPT ![r] = ts]
    /\ UNCHANGED <<now, handling, seen, served, db, recs, list, edit, changes, ackedEdits>>

\* History: what a list says about a request.  A handler's grounds are what
\* the lists published since its clock reading said.
Grounds(l, r) ==
    {g \in {"capable", "unlisted", "delegated"} :
        CASE g = "capable" -> Listed(l, r.key) /\ Allows(l[r.key], r.need)
          [] g = "unlisted" -> ~Listed(l, r.key)
          [] g = "delegated" -> /\ r.grant # Nil
                                /\ Listed(l, r.grant.issuer)
                                /\ Allows(l[r.grant.issuer], "delegate")}

\* auth, up to VerifyRequest: some copy of a request has arrived whole and its
\* timestamp is within the window of the clock.  (Refusals change nothing.)
Verify(w, r) ==
    /\ handling[w] = Idle /\ signed[r] # Nil
    /\ now - signed[r] >= -Window /\ now - signed[r] <= Window
    /\ handling' = [handling EXCEPT ![w] =
                   [stage |-> "verified", req |-> r, at |-> now, ent |-> {},
                    grounds |-> Grounds(list, r)]]
    /\ UNCHANGED <<now, signed, seen, served, db, recs, list, edit, changes, ackedEdits>>

\* grant.Verify, at the handler's clock reading.
GrantOK(g, r, t) ==
    /\ g # Nil
    /\ g.caps # {} /\ g.caps \subseteq Delegable
    /\ g.subject = r.key
    /\ t >= g.issued - Window /\ t <= g.expires + Window

\* authorize, first half: one load of the allowlist, then the grant if there is one.
Authorize(w) ==
    /\ handling[w].stage = "verified"
    /\ LET r == handling[w].req IN
       handling' = [handling EXCEPT ![w] =
                  IF Listed(list, r.key) THEN [@ EXCEPT !.stage = "authorized", !.ent = list[r.key]]
                  ELSE IF GrantOK(r.grant, r, @.at) THEN [@ EXCEPT !.stage = "granted"]
                  ELSE Idle]
    /\ UNCHANGED <<now, signed, seen, served, db, recs, list, edit, changes, ackedEdits>>

\* Mutant: any listed key may issue grants.
MutantAuthorizeIssuer(w) ==
    /\ handling[w].stage = "granted"
    /\ LET g == handling[w].req.grant IN
       handling' = [handling EXCEPT ![w] =
                  IF Listed(list, g.issuer)
                  THEN [@ EXCEPT !.stage = "authorized", !.ent = g.caps]
                  ELSE Idle]
    /\ UNCHANGED <<now, signed, seen, served, db, recs, list, edit, changes, ackedEdits>>

\* authorize, second half: another load, for the grant's issuer.
AuthorizeIssuer(w) ==
    /\ handling[w].stage = "granted"
    /\ LET g == handling[w].req.grant IN
       handling' = [handling EXCEPT ![w] =
                  IF Listed(list, g.issuer) /\ Allows(list[g.issuer], "delegate")
                  THEN [@ EXCEPT !.stage = "authorized", !.ent = g.caps]
                  ELSE Idle]
    /\ UNCHANGED <<now, signed, seen, served, db, recs, list, edit, changes, ackedEdits>>

\* Mutant: nonces are kept for one window.
MutantKept(t) == [r \in Requests |-> IF seen[r] # Nil /\ seen[r] < t - Window
                                      THEN Nil ELSE seen[r]]

\* nonces.SeenBefore's sweep at clock reading t.
Kept(t) == [r \in Requests |-> IF seen[r] # Nil /\ seen[r] < t - 2 * Window
                                THEN Nil ELSE seen[r]]

\* SeenBefore, then the capability, then the handler.
CheckNonce(w) ==
    /\ handling[w].stage = "authorized"
    /\ LET r == handling[w].req
           fresh == Kept(handling[w].at)[r] = Nil
       IN /\ seen' = IF fresh THEN [Kept(handling[w].at) EXCEPT ![r] = handling[w].at]
                                ELSE Kept(handling[w].at)
          /\ served' = IF fresh /\ Allows(handling[w].ent, r.need)
                       THEN [served EXCEPT ![r] = @ + 1] ELSE served
    /\ handling' = [handling EXCEPT ![w] = Idle]
    /\ UNCHANGED <<now, signed, db, recs, list, edit, changes, ackedEdits>>

----------------------------------------------------------------------------
(* The admin UI and the allowlist store. *)

\* addKey and Store.Add under mu, up to the DB write; a listed key is refused.
AddKey(k, line) ==
    /\ edit = NoEdit /\ changes < MaxChanges
    /\ changes' = changes + 1
    /\ recs[k] = Nil
    /\ db' = [db EXCEPT ![k] = Record(line)]
    /\ edit' = [op |-> "add", key |-> k, line |-> line]
    /\ UNCHANGED <<now, signed, handling, seen, served, recs, list, ackedEdits>>

\* removeKey and Store.Remove under mu, up to the DB write.
RemoveKey(k) ==
    /\ edit = NoEdit /\ changes < MaxChanges
    /\ changes' = changes + 1
    /\ recs[k] # Nil
    /\ db' = [db EXCEPT ![k] = Nil]
    /\ edit' = [op |-> "remove", key |-> k, line |-> Nil]
    /\ UNCHANGED <<now, signed, handling, seen, served, recs, list, ackedEdits>>

\* Mutant: the snapshot is taken before the record changes.
MutantSwap ==
    /\ edit # NoEdit
    /\ recs' = [recs EXCEPT ![edit.key] =
                   IF edit.op = "add" THEN Record(edit.line) ELSE Nil]
    /\ list' = Snapshot(recs)
    /\ handling' = [w \in Handlers |-> IF handling[w] = Idle THEN Idle
                   ELSE [handling[w] EXCEPT !.grounds = @ \cup Grounds(list', handling[w].req)]]
    /\ ackedEdits' = [ackedEdits EXCEPT ![edit.key] = edit.line]
    /\ edit' = NoEdit
    /\ UNCHANGED <<now, signed, seen, served, db, changes>>

\* The rest of Add and Remove: recs, the new snapshot, unlock, 204.
Swap ==
    /\ edit # NoEdit
    /\ recs' = [recs EXCEPT ![edit.key] =
                   IF edit.op = "add" THEN Record(edit.line) ELSE Nil]
    /\ list' = Snapshot(recs')
    /\ handling' = [w \in Handlers |-> IF handling[w] = Idle THEN Idle
                   ELSE [handling[w] EXCEPT !.grounds = @ \cup Grounds(list', handling[w].req)]]
    /\ ackedEdits' = [ackedEdits EXCEPT ![edit.key] = edit.line]
    /\ edit' = NoEdit
    /\ UNCHANGED <<now, signed, seen, served, db, changes>>

\* The process dies and starts again: allowstore.Open scans the records that
\* were synced; the nonces are gone.  An edit whose answer was never
\* sent may have happened, and counts as acknowledged once the restarted
\* server shows it.
Restart ==
    /\ recs' = db
    /\ list' = Snapshot(recs')
    /\ ackedEdits' = IF edit # NoEdit /\ db[edit.key] # recs[edit.key]
                THEN [ackedEdits EXCEPT ![edit.key] = edit.line] ELSE ackedEdits
    /\ edit' = NoEdit
    /\ handling' = [w \in Handlers |-> Idle]
    /\ seen' = [r \in Requests |-> Nil]
    /\ served' = [r \in Requests |-> 0]
    /\ changes < MaxChanges /\ changes' = changes + 1
    /\ UNCHANGED <<now, signed, db>>

AuthNext ==
    \/ Tick
    \/ \E r \in Requests : SignRequest(r)
    \/ \E w \in Handlers : (\E r \in Requests : Verify(w, r))
                          \/ Authorize(w) \/ AuthorizeIssuer(w) \/ CheckNonce(w)
    \/ \E k \in Identities : RemoveKey(k) \/ \E line \in Lines : AddKey(k, line)
    \/ Swap
    \/ Restart

AuthSpec == AuthInit /\ [][AuthNext]_authVars

----------------------------------------------------------------------------
(* Properties. *)

\* However often the network delivers a request, and however the copies'
\* handlers interleave with other requests sweeping the replay cache, one
\* server process runs its handler at most once.  (nonces.go keeps entries
\* for twice the window; a restart empties the cache.)
AtMostOnce == \A r \in Requests : served[r] <= 1

\* A handler's grounds for serving its request: the key was listed with the
\* capability, or it was unlisted and carried a grant for it whose issuer was a
\* delegate.
HasAuthority(wk) ==
    LET r == wk.req IN
    \/ "capable" \in wk.grounds
    \/ /\ {"unlisted", "delegated"} \subseteq wk.grounds
       /\ r.grant.subject = r.key
       /\ r.need \in r.grant.caps \cap Delegable
       /\ now <= r.grant.expires + Window + Stall

ServedStep ==
    \A r \in Requests : served'[r] > served[r] =>
        \E w \in Handlers : /\ handling[w] # Idle /\ handling'[w] = Idle
                            /\ handling[w].req = r /\ HasAuthority(handling[w])

\* A request is served only on authority that was in force at some moment
\* while it was handled, although authorize loads the allowlist twice and an
\* admin may edit it in between.
ServedWithAuthority == [][ServedStep]_authVars

\* Outside an edit the published allowlist is exactly what the acknowledged
\* edits say, across crashes between the DB write and the swap; and every
\* listed key may do what its line would allow in an allowed-keys file.
AckedEditsHold ==
    edit = NoEdit =>
        \A k \in Identities :
            /\ Listed(list, k) <=> ackedEdits[k] # Nil
            /\ Listed(list, k) => \A cap \in Capabilities :
                   Allows(list[k], cap) <=> Allows(FileEntry(ackedEdits[k]), cap)
=============================================================================
