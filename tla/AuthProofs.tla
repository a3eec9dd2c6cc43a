----------------------------- MODULE AuthProofs -----------------------------
(***************************************************************************)
(* For any window, keys, requests, handlers and allowlists: a request runs *)
(* its handler at most once per process, it runs on authority that was in  *)
(* force while it was handled, and the published allowlist is what the     *)
(* acknowledged edits say.                                                 *)
(*                                                                         *)
(* The replay cache may forget a nonce that a second copy still carries    *)
(* only if the copy's handler is older than Stall: a nonce entered at a    *)
(* clock reading c goes at a reading beyond c + 2 * Window, the timestamp  *)
(* is at most c + Skew, and no copy is let in later than Window after it.  *)
(***************************************************************************)
EXTENDS Auth, TLAPS

\* A request under way: its record and the clock reading it started with.
Busy(h) ==
    h \in [stage : {"verified", "granted", "authorized"}, req : Requests, at : Int,
           ent : {h.ent}, grounds : {h.grounds}]

\* It started inside the window of its timestamp, and not longer than Stall ago.
Timely(h) ==
    /\ signed[h.req] \in Int
    /\ signed[h.req] - Skew <= h.at /\ h.at <= signed[h.req] + Window
    /\ h.at <= now /\ now <= h.at + Stall

HandlersOK ==
    /\ handling = [w \in Handlers |-> handling[w]]
    /\ \A w \in Handlers : handling[w] = Idle \/ (Busy(handling[w]) /\ Timely(handling[w]))

ClocksOK ==
    /\ now \in Int
    /\ signed \in [Requests -> Int \cup {Nil}]
    /\ \A r \in Requests : signed[r] # Nil => signed[r] - Skew <= now

\* No copy of r can be under way any more.
Expired(r) == signed[r] # Nil /\ now > signed[r] + Window + Stall

\* A served request is in the replay cache, until it has expired.
NoncesOK ==
    /\ seen \in [Requests -> Int \cup {Nil}]
    /\ \A r \in Requests : seen[r] # Nil => signed[r] # Nil /\ signed[r] - Skew <= seen[r]
    /\ served \in [Requests -> Int]
    /\ \A r \in Requests : served[r] = 0 \/ (served[r] = 1 /\ (seen[r] # Nil \/ Expired(r)))

ReplayIInv == ClocksOK /\ HandlersOK /\ NoncesOK

\* Changing the stage of a request leaves it under way.
LEMMA BusyMoves ==
    ASSUME NEW h, Busy(h), NEW st \in {"granted", "authorized"}, NEW k,
           k = [h EXCEPT !.stage = st]
    PROVE  /\ Busy(k) /\ k.req = h.req /\ k.at = h.at /\ k.grounds = h.grounds
           /\ k.stage = st
  BY DEF Busy

\* The same of its grounds.
LEMMA BusyLearns ==
    ASSUME NEW h, Busy(h), NEW g, NEW k, k = [h EXCEPT !.grounds = g]
    PROVE  /\ Busy(k) /\ k.req = h.req /\ k.at = h.at /\ k.grounds = g
           /\ k.stage = h.stage /\ k.ent = h.ent
  BY DEF Busy

\* The start has the invariant.
LEMMA ReplayStarts == AuthInit => ReplayIInv
  BY ClockAssumption DEF AuthInit, ReplayIInv, ClocksOK, HandlersOK, NoncesOK

\* Steps that leave the clock, the timestamps and the cache alone.
LEMMA HandlersMove ==
    ASSUME ReplayIInv, UNCHANGED <<now, signed, seen, served>>,
           handling' = [w \in Handlers |-> handling'[w]],
           \A w \in Handlers : \/ handling'[w] \in {Idle, handling[w]}
                               \/ /\ Busy(handling'[w]) /\ handling[w] # Idle
                                  /\ handling'[w].req = handling[w].req
                                  /\ handling'[w].at = handling[w].at
    PROVE  ReplayIInv'
  <1>1. ClocksOK' /\ NoncesOK'
    BY DEF ReplayIInv, ClocksOK, NoncesOK, Expired
  <1>2. HandlersOK'
    BY DEF ReplayIInv, HandlersOK, Timely
  <1> QED
    BY <1>1, <1>2 DEF ReplayIInv

\* The sweep and the new nonce keep the cache's promise.
LEMMA NonceStep ==
    ASSUME ReplayIInv, NEW w \in Handlers, CheckNonce(w)
    PROVE  ReplayIInv'
  <1> DEFINE h == handling[w]
             r == h.req
  <1>a. Busy(h) /\ Timely(h)
    BY DEF CheckNonce, ReplayIInv, HandlersOK, Idle
  <1>b. r \in Requests /\ h.at \in Int /\ signed[r] \in Int /\ now \in Int
    BY <1>a DEF Busy, Timely, ReplayIInv, ClocksOK
  <1>c. Window \in Int /\ Skew \in Int /\ Stall \in Int /\ Skew + Stall <= Window
        /\ 0 <= Skew /\ 0 <= Stall /\ Nil \notin Int
    BY ClockAssumption
  <1>1. ClocksOK'
    BY SMTT(30) DEF CheckNonce, ReplayIInv, ClocksOK
  <1>2. HandlersOK'
    BY DEF CheckNonce, ReplayIInv, HandlersOK, Timely
  <1>3. ASSUME Kept(h.at)[r] = Nil
        PROVE  served[r] = 0
    <2> SUFFICES ASSUME served[r] = 1 PROVE FALSE
      BY <1>b DEF ReplayIInv, NoncesOK
    <2>1. CASE seen[r] = Nil
      <3>1. now > signed[r] + Window + Stall
        BY <1>b, <2>1 DEF ReplayIInv, NoncesOK, Expired
      <3>2. h.at <= signed[r] + Window /\ now <= h.at + Stall
        BY <1>a DEF Timely
      <3> HIDE DEF h, r
      <3> QED
        BY <1>b, <1>c, <3>1, <3>2
    <2>2. CASE seen[r] # Nil
      <3>1. seen[r] \in Int /\ seen[r] < h.at - 2 * Window /\ signed[r] - Skew <= seen[r]
        BY <1>b, <1>3, <2>2 DEF Kept, ReplayIInv, NoncesOK
      <3>2. h.at <= signed[r] + Window
        BY <1>a DEF Timely
      <3> HIDE DEF h, r
      <3> QED
        BY <1>b, <1>c, <3>1, <3>2
    <2> QED
      BY <2>1, <2>2
  <1>4. ASSUME NEW q \in Requests, seen[q] # Nil, Kept(h.at)[q] = Nil
        PROVE  Expired(q)
    <2>1. seen[q] \in Int /\ seen[q] < h.at - 2 * Window /\ signed[q] # Nil
          /\ signed[q] - Skew <= seen[q]
      BY <1>b, <1>4 DEF Kept, ReplayIInv, NoncesOK
    <2>2. signed[q] \in Int
      BY <2>1 DEF ReplayIInv, ClocksOK
    <2>3. h.at <= now
      BY <1>a DEF Timely
    <2> HIDE DEF h, r
    <2> QED
      BY <1>b, <1>c, <2>1, <2>2, <2>3 DEF Expired
  <1>5. \A q \in Requests : Kept(h.at)[q] \in {seen[q], Nil}
    BY DEF Kept
  <1>6. Kept(h.at) \in [Requests -> Int \cup {Nil}]
    BY DEF Kept, ReplayIInv, NoncesOK
  <1>7. NoncesOK'
    <2> DEFINE kept == Kept(h.at)
    <2>a. seen' = IF kept[r] = Nil THEN [kept EXCEPT ![r] = h.at] ELSE kept
      BY DEF CheckNonce
    <2>b. served' = served \/ (kept[r] = Nil /\ served' = [served EXCEPT ![r] = @ + 1])
      BY DEF CheckNonce
    <2>c. UNCHANGED <<now, signed>>
      BY DEF CheckNonce
    <2>d. signed[r] - Skew <= h.at
      BY <1>a DEF Timely
    <2>e. kept \in [Requests -> Int \cup {Nil}]
      BY <1>6
    <2>f. \A q \in Requests : kept[q] \in {seen[q], Nil}
      BY <1>5
    <2>g. \A q \in Requests : seen[q] # Nil /\ kept[q] = Nil => Expired(q)
      BY <1>4
    <2>h. kept[r] = Nil => served[r] = 0
      BY <1>3
    <2>i. NoncesOK /\ \A q \in Requests : Expired(q)' <=> Expired(q)
      BY <2>c DEF ReplayIInv, Expired
    <2> HIDE DEF kept, h, r
    <2>1. seen' \in [Requests -> Int \cup {Nil}]
      BY <1>b, <2>a, <2>e
    <2>2. \A q \in Requests : seen'[q] # Nil => signed'[q] # Nil /\ signed'[q] - Skew <= seen'[q]
      BY <1>b, <1>c, <2>a, <2>c, <2>d, <2>e, <2>f, <2>i DEF NoncesOK
    <2>3. served' \in [Requests -> Int]
      BY <2>b, <2>i DEF NoncesOK
    <2>4. ASSUME NEW q \in Requests
          PROVE  served'[q] = 0 \/ (served'[q] = 1 /\ (seen'[q] # Nil \/ Expired(q)'))
      <3>1. CASE q = r
        BY <1>b, <1>c, <3>1, <2>a, <2>b, <2>e, <2>f, <2>g, <2>h, <2>i DEF NoncesOK
      <3>2. CASE q # r
        <4>1. served'[q] = served[q] /\ seen'[q] = kept[q]
          BY <1>b, <3>2, <2>a, <2>b, <2>e, <2>i DEF NoncesOK
        <4> QED
          BY <4>1, <2>f, <2>g, <2>i DEF NoncesOK
      <3> QED
        BY <3>1, <3>2
    <2> QED
      BY <2>1, <2>2, <2>3, <2>4 DEF NoncesOK
  <1> QED
    BY <1>1, <1>2, <1>7 DEF ReplayIInv

\* Every step keeps the promise of the replay cache.
LEMMA ReplayKeeps == ReplayIInv /\ [AuthNext]_authVars => ReplayIInv'
  <1> SUFFICES ASSUME ReplayIInv, [AuthNext]_authVars
               PROVE  ReplayIInv'
    OBVIOUS
  <1>a. Window \in Int /\ Skew \in Int /\ Stall \in Int /\ Skew + Stall <= Window
        /\ 0 <= Skew /\ 0 <= Stall /\ Nil \notin Int
    BY ClockAssumption
  <1>1. CASE Tick
    <2>1. now \in Int /\ now' = now + 1 /\ UNCHANGED <<signed, handling, seen, served>>
      BY <1>1 DEF Tick, ReplayIInv, ClocksOK
    <2>2. ClocksOK'
      BY <1>a, <2>1 DEF ReplayIInv, ClocksOK
    <2>3. HandlersOK'
      <3> SUFFICES ASSUME NEW w \in Handlers, handling[w] # Idle
                   PROVE  Busy(handling[w]) /\ Timely(handling[w])'
        BY <2>1 DEF ReplayIInv, HandlersOK
      <3>1. Busy(handling[w]) /\ Timely(handling[w]) /\ now < handling[w].at + Stall
        BY <1>1 DEF Tick, ReplayIInv, HandlersOK
      <3> QED
        BY <1>a, <2>1, <3>1 DEF Busy, Timely
    <2>4. NoncesOK'
      <3>1. \A r \in Requests : Expired(r) => Expired(r)'
        BY <1>a, <2>1 DEF Expired, ReplayIInv, ClocksOK
      <3> QED
        BY <2>1, <3>1 DEF ReplayIInv, NoncesOK
    <2> QED
      BY <2>2, <2>3, <2>4 DEF ReplayIInv
  <1>2. ASSUME NEW r \in Requests, SignRequest(r) PROVE ReplayIInv'
    <2>0. PICK ts \in (now - Skew)..(now + Skew) : signed' = [signed EXCEPT ![r] = ts]
      BY <1>2 DEF SignRequest
    <2>1. ts \in Int /\ ts - Skew <= now /\ signed' = [signed EXCEPT ![r] = ts]
      BY <1>a, <2>0 DEF ReplayIInv, ClocksOK
    <2>2. signed[r] = Nil /\ UNCHANGED <<now, handling, seen, served>>
      BY <1>2 DEF SignRequest
    <2>3. ClocksOK'
      BY <1>a, <2>1, <2>2 DEF ReplayIInv, ClocksOK
    <2>4. HandlersOK'
      <3> SUFFICES ASSUME NEW w \in Handlers, handling[w] # Idle
                   PROVE  Busy(handling[w]) /\ Timely(handling[w])'
        BY <2>2 DEF ReplayIInv, HandlersOK
      <3>1. Busy(handling[w]) /\ Timely(handling[w])
        BY DEF ReplayIInv, HandlersOK
      <3>2. signed'[handling[w].req] = signed[handling[w].req]
        BY <1>a, <2>1, <2>2, <3>1 DEF Busy, Timely, ReplayIInv, ClocksOK
      <3> QED
        BY <2>2, <3>1, <3>2 DEF Timely
    <2>5. NoncesOK'
      BY <1>a, <2>1, <2>2 DEF ReplayIInv, NoncesOK, ClocksOK, Expired
    <2> QED
      BY <2>3, <2>4, <2>5 DEF ReplayIInv
  <1>3. ASSUME NEW w \in Handlers, NEW r \in Requests, Verify(w, r) PROVE ReplayIInv'
    <2>1. UNCHANGED <<now, signed, seen, served>>
      BY <1>3 DEF Verify
    <2>2. ClocksOK' /\ NoncesOK'
      BY <2>1 DEF ReplayIInv, ClocksOK, NoncesOK, Expired
    <2>3. signed[r] \in Int /\ now \in Int /\ signed[r] - Skew <= now
          /\ now <= signed[r] + Window
      BY <1>3, <1>a DEF Verify, ReplayIInv, ClocksOK
    <2>4. handling' = [handling EXCEPT ![w] = [stage |-> "verified", req |-> r, at |-> now,
                                               ent |-> {}, grounds |-> Grounds(list, r)]]
      BY <1>3 DEF Verify
    <2>5. Busy(handling'[w]) /\ Timely(handling[w])'
      BY <1>a, <2>1, <2>3, <2>4 DEF ReplayIInv, HandlersOK, Busy, Timely
    <2>6. HandlersOK'
      BY <2>1, <2>4, <2>5 DEF ReplayIInv, HandlersOK, Timely
    <2> QED
      BY <2>2, <2>6 DEF ReplayIInv
  <1>4. ASSUME NEW w \in Handlers, Authorize(w) \/ AuthorizeIssuer(w) PROVE ReplayIInv'
    <2>1. Busy(handling[w]) /\ handling[w] # Idle
      BY <1>4, SMTT(30) DEF Authorize, AuthorizeIssuer, ReplayIInv, HandlersOK, Idle
    <2>2. /\ handling' = [handling EXCEPT ![w] = handling'[w]]
          /\ \/ handling'[w] = Idle
             \/ handling'[w] = [handling[w] EXCEPT !.stage = "granted"]
             \/ \E e : handling'[w] = [handling[w] EXCEPT !.stage = "authorized", !.ent = e]
      BY <1>4, ZenonT(30) DEF Authorize, AuthorizeIssuer, ReplayIInv, HandlersOK
    <2>3. \/ handling'[w] = Idle
          \/ /\ Busy(handling'[w])
             /\ handling'[w].req = handling[w].req /\ handling'[w].at = handling[w].at
      <3>1. ASSUME handling'[w] = [handling[w] EXCEPT !.stage = "granted"]
            PROVE  /\ Busy(handling'[w])
                   /\ handling'[w].req = handling[w].req /\ handling'[w].at = handling[w].at
        <4>1. "granted" \in {"granted", "authorized"}
          OBVIOUS
        <4> QED
          BY <2>1, <3>1, <4>1, BusyMoves, ZenonT(30)
      <3>2. ASSUME NEW e, handling'[w] = [handling[w] EXCEPT !.stage = "authorized", !.ent = e]
            PROVE  /\ Busy(handling'[w])
                   /\ handling'[w].req = handling[w].req /\ handling'[w].at = handling[w].at
        <4> DEFINE h == handling[w]
                   k == handling'[w]
        <4>1. Busy(h) /\ k = [h EXCEPT !.stage = "authorized", !.ent = e]
          BY <2>1, <3>2
        <4> HIDE DEF h, k
        <4>2. Busy(k) /\ k.req = h.req /\ k.at = h.at
          BY <4>1 DEF Busy
        <4> QED
          BY <4>2 DEF h, k
      <3> QED
        BY <2>2, <3>1, <3>2
    <2> QED
      BY <1>4, <2>1, <2>2, <2>3, HandlersMove
         DEF Authorize, AuthorizeIssuer, ReplayIInv, HandlersOK
  <1>5. ASSUME NEW w \in Handlers, CheckNonce(w) PROVE ReplayIInv'
    BY <1>5, NonceStep
  <1>6. ASSUME NEW k \in Identities, RemoveKey(k) \/ \E line \in Lines : AddKey(k, line)
        PROVE  ReplayIInv'
    BY <1>6, HandlersMove DEF RemoveKey, AddKey, ReplayIInv, HandlersOK
  <1>7. CASE Swap
    <2>1. ASSUME NEW w \in Handlers
          PROVE  \/ handling'[w] = Idle
                 \/ /\ Busy(handling'[w]) /\ handling[w] # Idle
                    /\ handling'[w].req = handling[w].req
                    /\ handling'[w].at = handling[w].at
      <3>1. CASE handling[w] = Idle
        BY <1>7, <3>1 DEF Swap
      <3>2. CASE handling[w] # Idle
        <4>1. Busy(handling[w])
          BY <3>2 DEF ReplayIInv, HandlersOK
        <4> DEFINE g == handling[w].grounds \cup Grounds(list', handling[w].req)
                   h == handling[w]
                   k == handling'[w]
        <4>2. Busy(h) /\ k = [h EXCEPT !.grounds = g]
          BY <1>7, <3>2, <4>1 DEF Swap
        <4> HIDE DEF g, h, k
        <4>3. Busy(k) /\ k.req = h.req /\ k.at = h.at
          BY <4>2, BusyLearns
        <4> QED
          BY <3>2, <4>3 DEF h, k
      <3> QED
        BY <3>1, <3>2
    <2> QED
      BY <1>7, <2>1, HandlersMove DEF Swap
  <1>8. CASE Restart
    BY <1>8, <1>a DEF Restart, ReplayIInv, ClocksOK, HandlersOK, NoncesOK
  <1>9. CASE UNCHANGED authVars
    BY <1>9, HandlersMove DEF authVars, ReplayIInv, HandlersOK
  <1> QED
    BY <1>1, <1>2, <1>3, <1>4, <1>5, <1>6, <1>7, <1>8, <1>9 DEF AuthNext

\* server.go auth, httpsig and nonces.go: whatever the network repeats, one
\* process runs a request's handler at most once, provided the client's clock
\* and the handler's delay together stay within the window.
THEOREM ServedAtMostOnce == AuthSpec => []AtMostOnce
  <1>1. ReplayIInv => AtMostOnce
    BY DEF ReplayIInv, NoncesOK, AtMostOnce
  <1> QED
    BY <1>1, ReplayStarts, ReplayKeeps, PTL DEF AuthSpec
-----------------------------------------------------------------------------
(* The grounds a handler has met so far carry the entry it goes on with. *)

Authority(h) ==
    \/ "capable" \in h.grounds
    \/ /\ {"unlisted", "delegated"} \subseteq h.grounds
       /\ GrantOK(h.req.grant, h.req, h.at)
       /\ h.req.need \in h.req.grant.caps

Grounded(h) ==
    /\ h.stage = "verified" => Grounds(list, h.req) \subseteq h.grounds
    /\ h.stage = "granted" => /\ Grounds(list, h.req) \subseteq h.grounds
                              /\ "unlisted" \in h.grounds
                              /\ GrantOK(h.req.grant, h.req, h.at)
    /\ h.stage = "authorized" /\ Allows(h.ent, h.req.need) => Authority(h)

GroundsOK == \A w \in Handlers : handling[w] # Idle => Grounded(handling[w])

\* What a list says, ground by ground.
LEMMA GroundsSay ==
    ASSUME NEW l, NEW r
    PROVE  /\ "capable" \in Grounds(l, r) <=> Listed(l, r.key) /\ Allows(l[r.key], r.need)
           /\ "unlisted" \in Grounds(l, r) <=> ~Listed(l, r.key)
           /\ "delegated" \in Grounds(l, r) <=> /\ r.grant # Nil
                                                /\ Listed(l, r.grant.issuer)
                                                /\ Allows(l[r.grant.issuer], "delegate")
  BY DEF Grounds

\* authorize turns what the list says into an entry.
LEMMA AuthorizeGrounds ==
    ASSUME NEW h, Busy(h), Grounded(h), NEW k, Busy(k), k.req = h.req, k.at = h.at,
           k.grounds = h.grounds,
           \/ /\ h.stage = "verified" /\ k.stage = "authorized"
              /\ Listed(list, h.req.key) /\ k.ent = list[h.req.key]
           \/ /\ h.stage = "verified" /\ k.stage = "granted"
              /\ ~Listed(list, h.req.key) /\ GrantOK(h.req.grant, h.req, h.at)
           \/ /\ h.stage = "granted" /\ k.stage = "authorized"
              /\ Listed(list, h.req.grant.issuer)
              /\ Allows(list[h.req.grant.issuer], "delegate")
              /\ k.ent = h.req.grant.caps
    PROVE  Grounded(k)
  <1>a. Grounds(list, h.req) \subseteq h.grounds
    BY DEF Grounded
  <1>1. CASE h.stage = "verified" /\ k.stage = "authorized"
    <2>1. Allows(k.ent, k.req.need) => "capable" \in k.grounds
      BY <1>a, <1>1, GroundsSay
    <2> QED
      BY <1>1, <2>1 DEF Grounded, Authority
  <1>2. CASE k.stage = "granted"
    <2>1. "unlisted" \in k.grounds
      BY <1>a, <1>2, GroundsSay
    <2> QED
      BY <1>a, <1>2, <2>1 DEF Grounded
  <1>3. CASE h.stage = "granted" /\ k.stage = "authorized"
    <2>1. "unlisted" \in h.grounds /\ GrantOK(h.req.grant, h.req, h.at)
      BY <1>3 DEF Grounded
    <2>2. "delegated" \in h.grounds
      BY <1>a, <1>3, <2>1, GroundsSay, SMTT(30) DEF GrantOK
    <2>3. Allows(k.ent, k.req.need) => k.req.need \in k.req.grant.caps
      BY <1>3, <2>1 DEF Allows, GrantOK, Delegable
    <2> QED
      BY <1>3, <2>1, <2>2, <2>3, SMTT(30) DEF Grounded, Authority
  <1> QED
    BY <1>1, <1>2, <1>3

\* Every step keeps the grounds.
LEMMA GroundsKeep == ReplayIInv /\ GroundsOK /\ [AuthNext]_authVars => GroundsOK'
  <1> SUFFICES ASSUME ReplayIInv, GroundsOK, [AuthNext]_authVars
               PROVE  GroundsOK'
    OBVIOUS
  <1>a. handling = [w \in Handlers |-> handling[w]]
        /\ \A w \in Handlers : handling[w] # Idle => Busy(handling[w])
    BY DEF ReplayIInv, HandlersOK
  <1>1. ASSUME UNCHANGED <<handling, list>> PROVE GroundsOK'
    BY <1>1, SMTT(30) DEF GroundsOK, Grounded, Authority
  <1>2. ASSUME NEW w \in Handlers, NEW r \in Requests, Verify(w, r) PROVE GroundsOK'
    <2>1. /\ \A v \in Handlers \ {w} : handling'[v] = handling[v]
          /\ handling'[w] = [stage |-> "verified", req |-> r, at |-> now, ent |-> {},
                             grounds |-> Grounds(list, r)]
          /\ UNCHANGED list
      BY <1>a, <1>2, SMTT(30) DEF Verify
    <2> QED
      BY <2>1 DEF GroundsOK, Grounded, Authority
  <1>3. ASSUME NEW w \in Handlers, Authorize(w) \/ AuthorizeIssuer(w) PROVE GroundsOK'
    <2> DEFINE h == handling[w]
               k == handling'[w]
    <2>1. handling[w] # Idle
      BY <1>3 DEF Authorize, AuthorizeIssuer, Idle
    <2>2. Busy(h) /\ Grounded(h)
      BY <1>a, <2>1 DEF GroundsOK
    <2>3. (\A v \in Handlers \ {w} : handling'[v] = handling[v]) /\ UNCHANGED list
      BY <1>a, <1>3 DEF Authorize, AuthorizeIssuer
    <2>4. \/ k = Idle
          \/ /\ h.stage = "verified" /\ Listed(list, h.req.key)
             /\ k = [h EXCEPT !.stage = "authorized", !.ent = list[h.req.key]]
          \/ /\ h.stage = "verified" /\ ~Listed(list, h.req.key)
             /\ GrantOK(h.req.grant, h.req, h.at) /\ k = [h EXCEPT !.stage = "granted"]
          \/ /\ h.stage = "granted" /\ Listed(list, h.req.grant.issuer)
             /\ Allows(list[h.req.grant.issuer], "delegate")
             /\ k = [h EXCEPT !.stage = "authorized", !.ent = h.req.grant.caps]
      BY <1>a, <1>3 DEF Authorize, AuthorizeIssuer
    <2> HIDE DEF h, k
    <2>5. k = Idle \/ Grounded(k)
      <3>1. ASSUME h.stage = "verified", Listed(list, h.req.key),
                   k = [h EXCEPT !.stage = "authorized", !.ent = list[h.req.key]]
            PROVE  Grounded(k)
        <4>1. Busy(k) /\ k.req = h.req /\ k.at = h.at /\ k.grounds = h.grounds
              /\ k.stage = "authorized" /\ k.ent = list[h.req.key]
          BY <2>2, <3>1 DEF Busy
        <4> QED
          BY <2>2, <3>1, <4>1, AuthorizeGrounds
      <3>2. ASSUME h.stage = "verified", ~Listed(list, h.req.key),
                   GrantOK(h.req.grant, h.req, h.at), k = [h EXCEPT !.stage = "granted"]
            PROVE  Grounded(k)
        <4>1. Busy(k) /\ k.req = h.req /\ k.at = h.at /\ k.grounds = h.grounds
              /\ k.stage = "granted"
          BY <2>2, <3>2 DEF Busy
        <4> QED
          BY <2>2, <3>2, <4>1, AuthorizeGrounds
      <3>3. ASSUME h.stage = "granted", Listed(list, h.req.grant.issuer),
                   Allows(list[h.req.grant.issuer], "delegate"),
                   k = [h EXCEPT !.stage = "authorized", !.ent = h.req.grant.caps]
            PROVE  Grounded(k)
        <4>1. Busy(k) /\ k.req = h.req /\ k.at = h.at /\ k.grounds = h.grounds
              /\ k.stage = "authorized" /\ k.ent = h.req.grant.caps
          BY <2>2, <3>3, ZenonT(30) DEF Busy
        <4> QED
          BY <2>2, <3>3, <4>1, AuthorizeGrounds
      <3> QED
        BY <2>4, <3>1, <3>2, <3>3
    <2>6. handling'[w] = Idle \/ Grounded(handling[w])'
      BY <2>3, <2>5 DEF k, Grounded, Authority
    <2> QED
      BY <2>3, <2>6 DEF GroundsOK, Grounded, Authority
  <1>4. ASSUME NEW w \in Handlers, CheckNonce(w) PROVE GroundsOK'
    <2>1. handling' = [handling EXCEPT ![w] = Idle] /\ UNCHANGED list
      BY <1>4 DEF CheckNonce
    <2> QED
      BY <1>a, <2>1 DEF GroundsOK, Grounded, Authority
  <1>5. CASE Swap
    <2> SUFFICES ASSUME NEW w \in Handlers, handling'[w] # Idle
                 PROVE  Grounded(handling[w])'
      BY DEF GroundsOK
    <2> DEFINE h == handling[w]
               k == handling'[w]
    <2>1. handling[w] # Idle /\ k = [h EXCEPT !.grounds = h.grounds \cup Grounds(list', h.req)]
      BY <1>5 DEF Swap
    <2>2. Busy(h) /\ Grounded(h)
      BY <1>a, <2>1 DEF GroundsOK
    <2> HIDE DEF h, k
    <2>3. /\ Busy(k) /\ k.req = h.req /\ k.at = h.at /\ k.stage = h.stage /\ k.ent = h.ent
          /\ k.grounds = h.grounds \cup Grounds(list', h.req)
      BY <2>1, <2>2 DEF Busy
    <2>4. /\ k.stage = "verified" => Grounds(list', k.req) \subseteq k.grounds
          /\ k.stage = "granted" => /\ Grounds(list', k.req) \subseteq k.grounds
                                    /\ "unlisted" \in k.grounds
                                    /\ GrantOK(k.req.grant, k.req, k.at)
          /\ k.stage = "authorized" /\ Allows(k.ent, k.req.need) => Authority(k)
      BY <2>2, <2>3 DEF Grounded, Authority
    <2> QED
      BY <2>4 DEF k, Grounded, Authority
  <1>6. CASE Restart
    BY <1>6, SMTT(30) DEF Restart, GroundsOK
  <1>7. ASSUME \/ Tick \/ \E r \in Requests : SignRequest(r)
               \/ \E k \in Identities : RemoveKey(k) \/ \E line \in Lines : AddKey(k, line)
               \/ UNCHANGED authVars
        PROVE  UNCHANGED <<handling, list>>
    BY <1>7 DEF Tick, SignRequest, RemoveKey, AddKey, authVars
  <1> QED
    BY <1>1, <1>2, <1>3, <1>4, <1>5, <1>6, <1>7 DEF AuthNext

\* Only CheckNonce serves, and Grounded says on what authority.
LEMMA ServesGrounded ==
    ASSUME ReplayIInv, GroundsOK, [AuthNext]_authVars
    PROVE  ServedStep
  <1>a. handling = [w \in Handlers |-> handling[w]] /\ served \in [Requests -> Int]
        /\ \A r \in Requests : served[r] \in {0, 1}
    BY DEF ReplayIInv, HandlersOK, NoncesOK
  <1>1. ASSUME NEW w \in Handlers, CheckNonce(w) PROVE ServedStep
    <2> SUFFICES ASSUME NEW r \in Requests, served'[r] > served[r]
                 PROVE  /\ handling[w] # Idle /\ handling'[w] = Idle
                        /\ handling[w].req = r /\ HasAuthority(handling[w])
      BY DEF ServedStep
    <2>1. handling[w] # Idle /\ handling'[w] = Idle /\ handling[w].stage = "authorized"
      BY <1>a, <1>1 DEF CheckNonce, Idle
    <2>2. handling[w].req = r /\ Allows(handling[w].ent, r.need)
      BY <1>a, <1>1 DEF CheckNonce
    <2>3. Authority(handling[w])
      BY <2>1, <2>2 DEF GroundsOK, Grounded
    <2>4. /\ handling[w].at \in Int /\ now \in Int /\ now <= handling[w].at + Stall
      BY <2>1 DEF ReplayIInv, HandlersOK, ClocksOK, Busy, Timely
    <2>5. CASE "capable" \in handling[w].grounds
      BY <2>1, <2>2, <2>5 DEF HasAuthority
    <2>6. CASE /\ {"unlisted", "delegated"} \subseteq handling[w].grounds
               /\ GrantOK(r.grant, r, handling[w].at)
               /\ r.need \in r.grant.caps
      <3>1. r.grant.expires \in Int /\ handling[w].at <= r.grant.expires + Window
        BY <2>6, GrantsAssumption DEF GrantOK
      <3>2. now <= r.grant.expires + Window + Stall
        BY <2>4, <3>1, ClockAssumption
      <3> QED
        BY <2>1, <2>2, <2>6, <3>2 DEF HasAuthority, GrantOK
    <2> QED
      BY <2>2, <2>3, <2>5, <2>6 DEF Authority
  <1>2. CASE Restart
    BY <1>a, <1>2 DEF Restart, ServedStep
  <1>3. CASE UNCHANGED served
    BY <1>a, <1>3, SMTT(30) DEF ServedStep
  <1>4. ASSUME \/ Tick \/ \E r \in Requests : SignRequest(r)
               \/ \E w \in Handlers : (\E r \in Requests : Verify(w, r))
                                      \/ Authorize(w) \/ AuthorizeIssuer(w)
               \/ \E k \in Identities : RemoveKey(k) \/ \E line \in Lines : AddKey(k, line)
               \/ Swap \/ UNCHANGED authVars
        PROVE  UNCHANGED served
    BY <1>4 DEF Tick, SignRequest, Verify, Authorize, AuthorizeIssuer, RemoveKey, AddKey,
                Swap, authVars
  <1> QED
    BY <1>1, <1>2, <1>3, <1>4 DEF AuthNext

\* server.go authorize: although it loads the allowlist twice and an admin may
\* edit it in between, every request is served on authority that was in force
\* while it was handled.
THEOREM AuthorityWasInForce == AuthSpec => ServedWithAuthority
  <1>1. AuthInit => GroundsOK
    BY DEF AuthInit, GroundsOK
  <1>2. ReplayIInv /\ GroundsOK /\ [AuthNext]_authVars => [ServedStep]_authVars
    BY ServesGrounded, SMTT(30)
  <1> QED
    BY <1>1, <1>2, ReplayStarts, ReplayKeeps, GroundsKeep, PTL DEF AuthSpec, ServedWithAuthority

-----------------------------------------------------------------------------
(* The allowlist. *)

RecordOf(line) == IF line = Nil THEN Nil ELSE Record(line)

\* The records are those of the acknowledged edits, and the database is one
\* edit ahead at most.
ListIInv ==
    /\ ackedEdits \in [Identities -> Lines \cup {Nil}]
    /\ recs = [k \in Identities |-> RecordOf(ackedEdits[k])]
    /\ list = Snapshot(recs)
    /\ edit = NoEdit => db = recs
    /\ edit # NoEdit =>
          /\ edit.key \in Identities /\ edit.line \in Lines \cup {Nil}
          /\ edit.op = "add" <=> edit.line # Nil
          /\ db = [recs EXCEPT ![edit.key] = RecordOf(edit.line)]
          /\ db[edit.key] # recs[edit.key]

\* A line means the same as a record and in an allowed-keys file.
LEMMA LineMeans ==
    ASSUME NEW line \in Lines
    PROVE  /\ EntryOf(Record(line)) # Nil
           /\ \A cap : Allows(EntryOf(Record(line)), cap) <=> Allows(FileEntry(line), cap)
  <1>a. line.options \subseteq Capabilities /\ line.admin \in BOOLEAN
    BY LinesAssumption
  <1>1. CASE line.admin
    <2>1. EntryOf(Record(line)) = {"admin"} /\ FileEntry(line) = {"admin"}
      BY <1>1 DEF EntryOf, Record, FileEntry
    <2> QED
      BY <2>1, LinesAssumption DEF Capabilities
  <1>2. CASE ~line.admin /\ line.options = {}
    <2>1. EntryOf(Record(line)) = FullAccess /\ FileEntry(line) = FullAccess
      BY <1>2 DEF EntryOf, Record, FileEntry, CapsOf
    <2> QED
      BY <2>1, LinesAssumption DEF Capabilities
  <1>3. CASE ~line.admin /\ line.options # {} /\ "admin" \in line.options
    <2>1. EntryOf(Record(line)) = {"admin"} /\ FileEntry(line) = line.options
      BY <1>3 DEF EntryOf, Record, FileEntry, CapsOf
    <2> QED
      BY <1>3, <2>1, LinesAssumption DEF Capabilities, Allows
  <1>4. CASE ~line.admin /\ line.options # {} /\ "admin" \notin line.options
    <2>1. EntryOf(Record(line)) = line.options /\ FileEntry(line) = line.options
      BY <1>4 DEF EntryOf, Record, FileEntry, CapsOf
    <2> QED
      BY <1>a, <2>1, LinesAssumption
  <1> QED
    BY <1>a, <1>1, <1>2, <1>3, <1>4

\* The first allowlist has the invariant.
LEMMA ListStarts == AuthInit => ListIInv
  BY DEF AuthInit, ListIInv, RecordOf, NoEdit

\* Every step keeps it.
LEMMA ListKeeps == ListIInv /\ [AuthNext]_authVars => ListIInv'
  <1> SUFFICES ASSUME ListIInv, [AuthNext]_authVars
               PROVE  ListIInv'
    OBVIOUS
  <1>1. ASSUME UNCHANGED <<db, recs, list, edit, ackedEdits>> PROVE ListIInv'
    BY <1>1 DEF ListIInv, Snapshot
  <1>2. ASSUME NEW k \in Identities, RemoveKey(k) PROVE ListIInv'
    <2>1. /\ db' = [db EXCEPT ![k] = Nil] /\ recs[k] # Nil /\ edit = NoEdit
          /\ edit' = [op |-> "remove", key |-> k, line |-> Nil]
          /\ UNCHANGED <<recs, list, ackedEdits>>
      BY <1>2 DEF RemoveKey
    <2>2. db = recs /\ RecordOf(Nil) = Nil
      BY <2>1 DEF ListIInv, RecordOf
    <2>3. /\ edit'.key = k /\ edit'.line = Nil /\ edit'.op # "add"
      BY <2>1
    <2>4. db'[k] = Nil
      BY <2>1, <2>2, SMTT(30) DEF ListIInv
    <2> QED
      BY <2>1, <2>2, <2>3, <2>4 DEF ListIInv, NoEdit, Snapshot
  <1>3. ASSUME NEW k \in Identities, NEW line \in Lines, AddKey(k, line) PROVE ListIInv'
    <2>1. line # Nil /\ Record(line) # Nil
      BY LinesAssumption
    <2> QED
      BY <1>3, <2>1 DEF AddKey, ListIInv, NoEdit, RecordOf, Snapshot
  <1>4. CASE Swap
    <2>1. /\ edit # NoEdit /\ list' = Snapshot(recs') /\ edit' = NoEdit /\ db' = db
          /\ ackedEdits' = [ackedEdits EXCEPT ![edit.key] = edit.line]
      BY <1>4 DEF Swap
    <2>2. recs' = [recs EXCEPT ![edit.key] = RecordOf(edit.line)]
      BY <1>4 DEF Swap, ListIInv, RecordOf
    <2>3. recs' = [k \in Identities |-> RecordOf(ackedEdits'[k])]
      BY <2>1, <2>2 DEF ListIInv
    <2> QED
      BY <2>1, <2>2, <2>3 DEF ListIInv
  <1>5. CASE Restart
    <2>1. recs' = db /\ db' = db /\ list' = Snapshot(recs') /\ edit' = NoEdit
      BY <1>5 DEF Restart
    <2>2. CASE edit = NoEdit
      <3>1. ackedEdits' = ackedEdits /\ recs' = recs
        BY <1>5, <2>1, <2>2 DEF Restart, ListIInv
      <3> QED
        BY <2>1, <3>1 DEF ListIInv
    <2>3. CASE edit # NoEdit
      <3>1. ackedEdits' = [ackedEdits EXCEPT ![edit.key] = edit.line]
        BY <1>5, <2>3 DEF Restart, ListIInv
      <3>2. recs' = [k \in Identities |-> RecordOf(ackedEdits'[k])]
        BY <2>1, <2>3, <3>1, SMTT(30) DEF ListIInv
      <3> QED
        BY <2>1, <2>3, <3>1, <3>2 DEF ListIInv
    <2> QED
      BY <2>2, <2>3
  <1>6. ASSUME \/ Tick \/ \E r \in Requests : SignRequest(r)
               \/ \E w \in Handlers : (\E r \in Requests : Verify(w, r))
                                      \/ Authorize(w) \/ AuthorizeIssuer(w) \/ CheckNonce(w)
               \/ UNCHANGED authVars
        PROVE  UNCHANGED <<db, recs, list, edit, ackedEdits>>
    BY <1>6 DEF Tick, SignRequest, Verify, Authorize, AuthorizeIssuer, CheckNonce, authVars
  <1> QED
    BY <1>1, <1>2, <1>3, <1>4, <1>5, <1>6 DEF AuthNext

\* allowstore.go: outside an edit the published list is what the acknowledged
\* edits say, whatever the process died between.
THEOREM AllowlistFollowsEdits == AuthSpec => []AckedEditsHold
  <1>1. ListIInv => AckedEditsHold
    <2> SUFFICES ASSUME ListIInv, NEW k \in Identities
                 PROVE  /\ Listed(list, k) <=> ackedEdits[k] # Nil
                        /\ Listed(list, k) => \A cap \in Capabilities :
                             Allows(list[k], cap) <=> Allows(FileEntry(ackedEdits[k]), cap)
      BY DEF AckedEditsHold
    <2>1. CASE ackedEdits[k] = Nil
      BY <2>1 DEF ListIInv, RecordOf, Snapshot, Listed
    <2>2. CASE ackedEdits[k] # Nil
      <3>1. ackedEdits[k] \in Lines /\ recs[k] = Record(ackedEdits[k]) /\ recs[k] # Nil
        BY <2>2, LinesAssumption DEF ListIInv, RecordOf
      <3>2. list[k] = EntryOf(Record(ackedEdits[k]))
        BY <3>1 DEF ListIInv, Snapshot
      <3> QED
        BY <2>2, <3>1, <3>2, LineMeans DEF Listed
    <2> QED
      BY <2>1, <2>2
  <1> QED
    BY <1>1, ListStarts, ListKeeps, PTL DEF AuthSpec
=============================================================================
